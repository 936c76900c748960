----------------------------- MODULE BrowserTap -----------------------------
(***************************************************************************)
(* The browser tap: the service worker of extensions/chrome-devlogbus and  *)
(* its popup.  A handler of the worker runs until it awaits the browser;   *)
(* others run meanwhile.  The browser answers in the order it was asked.   *)
(***************************************************************************)
EXTENDS TapRecords

CONSTANTS Tabs,         \* the tabs
          Restricted,   \* the addresses Chrome keeps debuggers from
          OptionSets,   \* the options of the popup, DEFAULT_OPTIONS first
          PageEvents,   \* the debugger events a page may raise
          FlushBatch,   \* FLUSH_BATCH_SIZE (100)
          null,         \* the value of cachedOptions before it is loaded
          MaxTasks,     \* bounds: handlers that wait at a time,
          MaxSessions,  \* debugger sessions,
          MaxMoves      \* debugger events, messages and stops together

ASSUME BrowserTapAssumption ==
  /\ FlushBatch \in Nat \ {0} /\ MaxSessions \in Nat \ {0}
  /\ OptionSets # <<>> /\ \A i \in 1..Len(OptionSets) : IsOptions(OptionSets[i])
  /\ \A e \in PageEvents : IsEvent(e)
  /\ null \notin Range(OptionSets)

VARIABLES
  page,           \* browser: the address of each tab, NoURL once it is closed
  session,        \* the tap's debugger session of each tab, 0 when none
  sessions,       \* how many sessions there were
  detaching,      \* onDetach events under way, by tab
  removing,       \* onRemoved events under way
  stored,         \* chrome.storage.local
  badge,          \* the tabs whose badge says ON
  attachedTabs,   \* worker: its maps and its cache
  overrides,      \* keys of detachReasonOverrides
  recent,         \* keys of publishedDetachRecords
  cachedOptions,
  queue,          \* publishQueue
  flushTimer,     \* flushTimer # null
  armed,          \* whether that timer is running
  tasks,          \* the handlers that wait
  loading,        \* those that wait for chrome.storage, first asked first
  answers,        \* those that wait to answer the popup, first asked first
  flights,        \* the batches being posted
  popup,          \* the popup: its buttons and its inputs
  moves, stops,   \* how many moves there were, and stops among them
  made,           \* history: how many records were made
  posted,         \* the records of the posts that returned
  notices,        \* the detach records made
  excused,        \* sessions whose end needs no record
  overtaken       \* whether a save was made while others loaded the options

browserVars == <<page, session, sessions, detaching, removing>>
optionVars == <<stored, cachedOptions, loading, overtaken>>
queueVars == <<queue, flushTimer, armed, flights, made, posted>>
bounds == <<moves, stops>>
noticeVars == <<overrides, recent, notices, excused>>
workerVars == <<attachedTabs, optionVars, queueVars, tasks, answers>>
vars == <<browserVars, workerVars, noticeVars, badge, popup, bounds>>

Idle == [kind |-> "idle"]
None == [session |-> 0, reason |-> "none"]
Popup(isOpen, t) == [open |-> isOpen, tab |-> t, busy |-> isOpen, attached |-> FALSE,
                     form |-> OptionSets[1]]

(* The tap runs for none of the tabs yet, or for some of them already.     *)
Init ==
  /\ page \in [Tabs -> URLs]
  /\ \E on \in {{}} \cup {{t} : t \in {u \in Tabs : page[u] \notin Restricted}} :
       /\ session = [t \in Tabs |-> IF t \in on THEN 1 ELSE 0]
       /\ sessions = Cardinality(on)
       /\ attachedTabs = [t \in on |-> TabState(page[t], OptionSets[1])]
       /\ badge = on
       /\ cachedOptions = IF on = {} THEN null ELSE OptionSets[1]
  /\ detaching = [t \in Tabs |-> None] /\ removing = {}
  /\ stored = OptionSets[1]
  /\ overrides = {} /\ recent = {}
  /\ queue = <<>> /\ flushTimer = FALSE /\ armed = FALSE /\ flights = {}
  /\ tasks = [i \in 1..MaxTasks |-> Idle] /\ loading = <<>> /\ answers = <<>>
  /\ \E t \in Tabs : popup = Popup(FALSE, t)
  /\ moves = 0 /\ stops = 0
  /\ made = 0 /\ posted = {} /\ notices = <<>> /\ excused = {} /\ overtaken = FALSE

Move == moves < MaxMoves /\ moves' = moves + 1

SmallerOf(a, b) == IF a < b THEN a ELSE b

FirstIdle(i) == tasks[i] = Idle /\ \A j \in 1..(i - 1) : tasks[j] # Idle

Becomes(i, task) == tasks' = [tasks EXCEPT ![i] = task]

Set(t, state) ==
  [u \in DOMAIN attachedTabs \cup {t} |-> IF u = t THEN state ELSE attachedTabs[u]]

Without(t) == [u \in DOMAIN attachedTabs \ {t} |-> attachedTabs[u]]
-----------------------------------------------------------------------------
(* flushQueue takes the first of the queue as one batch; it has its        *)
(* options (see QueueKept) and posts at once.                              *)
Batch(q) == IF q = <<>> THEN {} ELSE {SubSeq(q, 1, SmallerOf(Len(q), FlushBatch))}

Rest(q) == SubSeq(q, SmallerOf(Len(q), FlushBatch) + 1, Len(q))

(* enqueueRecord: a full queue is flushed, another one by a timer; flush   *)
(* is for the caller that flushes after it.                                *)
Enqueue(record, flush) ==
  LET q == Append(queue, record)
      full == Len(q) >= FlushBatch
  IN  /\ queue' = IF flush \/ full THEN Rest(q) ELSE q
      /\ flights' = IF flush \/ full THEN flights \cup Batch(q) ELSE flights
      /\ flushTimer' = (flushTimer \/ ~full)
      /\ armed' = (armed \/ (~full /\ ~flushTimer))
      /\ made' = made + 1
      /\ UNCHANGED posted

Record(kind, obeys) == [id |-> made + 1, kind |-> kind, obeys |-> obeys]

(* Whether the record of an event obeys the rules saved when it was        *)
(* raised.  Nothing is asked of what is left of the worker's life once a   *)
(* save was made while other handlers were loading the options.            *)
Obeys(state, e, rules) ==
  \/ overtaken
  \/ /\ e.kind \in rules.capture
     /\ IsURLAllowed(JudgedURL(state, e), rules)
     /\ Redacted(e.text, state.options) \cap rules.redact = {}

(* handleDebuggerEvent once it has the tab's state.                        *)
HandleEvent(t, state, task) ==
  LET e == task.event
  IN  /\ attachedTabs' = Set(t, AfterEvent(state, e))
      /\ IF Publishes(state, e)
         THEN Enqueue(Record("event", Obeys(state, e, task.rules)), FALSE)
         ELSE UNCHANGED queueVars

(* publishDetachRecord once it has the state to describe.                  *)
Notice(task) ==
  /\ Enqueue(Record("detached", TRUE), TRUE)
  /\ notices' = Append(notices, [session |-> task.session, reason |-> task.reason,
                                 life |-> stops])

(* Variant: a save forgets the cache.                                      *)
SavesToStorage(o, loaded) == cachedOptions' = loaded /\ stored' = o

(* saveOptions writes the cache and asks for the storage to be written     *)
(* before it waits for that.                                               *)
Saves(o, loaded) == cachedOptions' = o /\ stored' = o

(* What a handler does once it has the options o.  getPopupStatus goes on  *)
(* as an answer.                                                           *)
HasOptions(i, task, o) ==
  \/ /\ task.kind = "event"
     /\ cachedOptions' = o
     /\ IF task.tab \in DOMAIN attachedTabs
        THEN /\ HandleEvent(task.tab, [attachedTabs[task.tab] EXCEPT !.options = o], task)
             /\ Becomes(i, Idle)
        ELSE /\ Becomes(i, [task EXCEPT !.at = "tab", !.options = o])
             /\ UNCHANGED <<attachedTabs, queueVars>>
     /\ UNCHANGED <<stored, overtaken, answers>>
  \/ /\ task.kind = "getStatus"
     /\ cachedOptions' = o
     /\ answers' = Append(answers, [options |-> o, tab |-> task.tab, heard |-> task.heard])
     /\ Becomes(i, Idle)
     /\ UNCHANGED <<stored, overtaken, attachedTabs, queueVars>>
  \/ /\ task.kind \in {"save", "attach"}
     /\ Saves(task.options, o)
     /\ overtaken' = (overtaken \/ loading' # <<>>)
     /\ Becomes(i, [task EXCEPT !.at = "stored"])
     /\ UNCHANGED <<attachedTabs, queueVars, answers>>
  \/ /\ task.kind \in {"detach", "notice"}
     /\ cachedOptions' = o
     /\ Becomes(i, [task EXCEPT !.at = IF task.kind = "detach" THEN "targets" ELSE "tab"])
     /\ UNCHANGED <<stored, overtaken, attachedTabs, queueVars, answers>>

(* loadOptions: a handler that finds no cache asks the storage and waits.  *)
LoadOptions(i, task) ==
  IF cachedOptions # null
  THEN UNCHANGED loading /\ HasOptions(i, task, cachedOptions)
  ELSE /\ loading' = Append(loading, [task |-> i, options |-> stored])
       /\ Becomes(i, [task EXCEPT !.at = "options"])
       /\ UNCHANGED <<stored, cachedOptions, overtaken, attachedTabs, queueVars, answers>>

OptionsLoaded ==
  /\ loading # <<>>
  /\ loading' = Tail(loading)
  /\ HasOptions(Head(loading).task, tasks[Head(loading).task], Head(loading).options)
  /\ UNCHANGED <<browserVars, noticeVars, badge, popup, bounds>>
-----------------------------------------------------------------------------
(* chrome.debugger.onEvent, for a tab the tap is attached to.              *)
OnEvent(t, e) ==
  /\ session[t] # 0
  /\ Move
  /\ \E i \in 1..MaxTasks :
       /\ FirstIdle(i)
       /\ LoadOptions(i, [kind |-> "event", at |-> "start", tab |-> t, event |-> e,
                          options |-> null, rules |-> stored])
  /\ UNCHANGED <<browserVars, noticeVars, badge, popup, stops>>

At(i, kinds, where) == tasks[i].kind \in kinds /\ tasks[i].at = where

(* stateForTab once chrome.tabs.get answers: a new state, in place of one  *)
(* made meanwhile; the call fails when the tab is gone.                    *)
EventTab(i) ==
  /\ At(i, {"event"}, "tab")
  /\ LET t == tasks[i].tab IN
       IF page[t] # NoURL
       THEN HandleEvent(t, TabState(page[t], tasks[i].options), tasks[i])
       ELSE UNCHANGED <<attachedTabs, queueVars>>
  /\ Becomes(i, Idle)
  /\ UNCHANGED <<browserVars, optionVars, noticeVars, badge, answers, popup, bounds>>

(* chrome.tabs.onRemoved.                                                  *)
OnRemoved(t) ==
  /\ t \in removing
  /\ removing' = removing \ {t}
  /\ attachedTabs' = Without(t)
  /\ UNCHANGED <<page, session, sessions, detaching, optionVars, queueVars, tasks, answers,
                 noticeVars, badge, popup, bounds>>

(* handleDebuggerDetach up to its first wait.                              *)
OnDetach(t) ==
  /\ detaching[t] # None
  /\ \E i \in 1..MaxTasks :
       /\ FirstIdle(i)
       /\ Becomes(i, [kind |-> "notice", at |-> "badge", tab |-> t,
                      known |-> t \in DOMAIN attachedTabs,
                      session |-> detaching[t].session,
                      reason |-> IF t \in overrides THEN "popup_detach" ELSE detaching[t].reason])
  /\ detaching' = [detaching EXCEPT ![t] = None]
  /\ overrides' = overrides \ {t}
  /\ attachedTabs' = Without(t)
  /\ badge' = badge \ {t}
  /\ UNCHANGED <<page, session, sessions, removing, optionVars, queueVars, answers,
                 recent, notices, excused, popup, bounds>>

(* Variant: publishDetachRecord keeps no window.                           *)
NeverRecent(t) == FALSE

(* Whether a detach record of the tab is less than a second old.           *)
Recent(t) == t \in recent

(* publishDetachRecord: nothing within a second of another of the tab's.   *)
(* A tab whose state is lost is looked up first (tabStateForDetach), and   *)
(* described by its number when it is gone too.                            *)
PublishDetach(i) ==
  /\ At(i, {"notice"}, "badge")
  /\ IF Recent(tasks[i].tab)
     THEN /\ excused' = excused \cup {tasks[i].session}
          /\ Becomes(i, Idle)
          /\ UNCHANGED <<recent, notices, attachedTabs, optionVars, queueVars, answers>>
     ELSE /\ recent' = recent \cup {tasks[i].tab}
          /\ \/ /\ tasks[i].known
                /\ Notice(tasks[i])
                /\ Becomes(i, Idle)
                /\ UNCHANGED <<attachedTabs, optionVars, answers>>
             \/ /\ ~tasks[i].known
                /\ LoadOptions(i, tasks[i])
                /\ UNCHANGED notices
          /\ UNCHANGED excused
  /\ UNCHANGED <<browserVars, overrides, badge, popup, bounds>>

(* Variant: the failing lookup of a tab that is gone is not caught.        *)
NoticeOpenTab(i) ==
  /\ At(i, {"notice"}, "tab")
  /\ IF page[tasks[i].tab] # NoURL THEN Notice(tasks[i]) ELSE UNCHANGED <<queueVars, notices>>
  /\ Becomes(i, Idle)
  /\ UNCHANGED <<browserVars, attachedTabs, optionVars, answers, overrides, recent, excused,
                 badge, popup, bounds>>

NoticeTab(i) ==
  /\ At(i, {"notice"}, "tab")
  /\ Notice(tasks[i])
  /\ Becomes(i, Idle)
  /\ UNCHANGED <<browserVars, attachedTabs, optionVars, answers, overrides, recent, excused,
                 badge, popup, bounds>>

(* The timer of publishedDetachRecords.  Chrome tells of a session's end,  *)
(* and the worker acts on it, within that second.                          *)
WindowEnds(t) ==
  /\ t \in recent
  /\ detaching[t] = None
  /\ ~\E i \in 1..MaxTasks : (At(i, {"notice"}, "badge") \/ At(i, {"detach"}, "ended"))
                            /\ tasks[i].tab = t
  /\ recent' = recent \ {t}
  /\ UNCHANGED <<browserVars, workerVars, overrides, notices, excused, badge, popup, bounds>>
-----------------------------------------------------------------------------
(* Variant: the timer does not reset flushTimer.                           *)
TimerFiresOnce ==
  /\ armed
  /\ armed' = FALSE
  /\ queue' = Rest(queue) /\ flights' = flights \cup Batch(queue)
  /\ UNCHANGED <<browserVars, attachedTabs, optionVars, tasks, answers, made, posted, flushTimer,
                 noticeVars, badge, popup, bounds>>

(* The timer of enqueueRecord.                                             *)
TimerFires ==
  /\ armed
  /\ armed' = FALSE /\ flushTimer' = FALSE
  /\ queue' = Rest(queue) /\ flights' = flights \cup Batch(queue)
  /\ UNCHANGED <<browserVars, attachedTabs, optionVars, tasks, answers, made, posted,
                 noticeVars, badge, popup, bounds>>

(* fetch returns: the daemon has the batch or, when it fails, nobody; what *)
(* has been queued meanwhile is flushed without waiting for its timer.     *)
PostReturns(batch) ==
  /\ batch \in flights
  /\ queue' = Rest(queue) /\ flights' = (flights \ {batch}) \cup Batch(queue)
  /\ posted' = posted \cup Range(batch)
  /\ UNCHANGED <<browserVars, attachedTabs, optionVars, tasks, answers, flushTimer, armed, made,
                 noticeVars, badge, popup, bounds>>
-----------------------------------------------------------------------------
(* A message of the popup starts a handler.                                *)
Message(kind, o) ==
  /\ Move
  /\ \E i \in 1..MaxTasks :
       LET t == popup'.tab
           task == [kind |-> kind, at |-> "start", tab |-> t, heard |-> TRUE, options |-> o, session |-> 0, reason |-> "popup_detach"]
       IN  /\ FirstIdle(i)
           /\ IF kind = "detach" /\ t \in DOMAIN attachedTabs
              THEN /\ Becomes(i, [task EXCEPT !.at = "targets"])
                   /\ UNCHANGED <<attachedTabs, optionVars, queueVars, answers>>
              ELSE LoadOptions(i, task)
  /\ UNCHANGED <<browserVars, noticeVars, badge, stops>>

(* refreshStatus when the popup opens; its inputs hold the page's values.  *)
OpenPopup(t) ==
  /\ ~popup.open /\ page[t] # NoURL
  /\ popup' = Popup(TRUE, t)
  /\ Message("getStatus", null)

(* The popup closes: nothing hears the answers to what it asked.           *)
Unheard ==
  /\ popup' = Popup(FALSE, popup.tab)
  /\ tasks' = [i \in 1..MaxTasks |->
                 IF tasks[i].kind \in {"idle", "event", "notice"} THEN tasks[i]
                 ELSE [tasks[i] EXCEPT !.heard = FALSE]]
  /\ answers' = [k \in 1..Len(answers) |-> [answers[k] EXCEPT !.heard = FALSE]]

ClosePopup ==
  /\ popup.open
  /\ Unheard
  /\ UNCHANGED <<browserVars, attachedTabs, optionVars, queueVars, noticeVars, badge, bounds>>

(* sendAction: the buttons are enabled by setBusy.                         *)
ClickAttach ==
  /\ popup.open /\ ~popup.busy /\ ~popup.attached
  /\ popup' = [popup EXCEPT !.busy = TRUE]
  /\ Message("attach", popup.form)

ClickDetach ==
  /\ popup.open /\ ~popup.busy /\ popup.attached
  /\ popup' = [popup EXCEPT !.busy = TRUE]
  /\ Message("detach", null)

(* An input changes: saveOptions sends them all.                           *)
ChangeInput(o) ==
  /\ popup.open
  /\ popup' = [popup EXCEPT !.form = o]
  /\ Message("save", o)

(* The popup gets an error instead of a status.                            *)
Fails(task) ==
  popup' = IF task.heard THEN [popup EXCEPT !.busy = FALSE] ELSE popup

(* What getTargets may say of a tab, of which a detach may be under way.   *)
SeenAttached(t) == {session[t] # 0} \cup IF detaching[t] = None THEN {} ELSE {TRUE}

(* getPopupStatus returns and renderStatus shows it, buttons enabled.      *)
AnswerReturns ==
  /\ answers # <<>>
  /\ answers' = Tail(answers)
  /\ LET a == Head(answers) IN \E seen \in SeenAttached(a.tab) :
       /\ attachedTabs' = IF seen /\ a.tab \notin DOMAIN attachedTabs
                          THEN Set(a.tab, TabState(page[a.tab], a.options)) ELSE attachedTabs
       /\ popup' = IF a.heard
                   THEN [popup EXCEPT !.form = a.options, !.attached = seen, !.busy = FALSE]
                   ELSE popup
  /\ UNCHANGED <<browserVars, optionVars, queueVars, tasks, noticeVars, badge, bounds>>

Answer(task) ==
  answers' = Append(answers, [options |-> cachedOptions, tab |-> task.tab, heard |-> task.heard])
-----------------------------------------------------------------------------
(* chrome.storage.local.set returns: a save answers, an attach goes on.    *)
Saved(i) ==
  /\ At(i, {"save", "attach"}, "stored")
  /\ \/ tasks[i].kind = "save" /\ Answer(tasks[i]) /\ Becomes(i, Idle)
     \/ /\ tasks[i].kind = "attach"
        /\ Becomes(i, [tasks[i] EXCEPT !.at = "targets", !.options = cachedOptions])
        /\ UNCHANGED answers
  /\ UNCHANGED <<browserVars, attachedTabs, optionVars, queueVars, noticeVars, badge, popup, bounds>>

(* The browser serves its calls and answers in order: before it speaks of  *)
(* a later attach or detach of the tab, the end of the earlier session has *)
(* been heard, and before an attach the earlier detach was served.         *)
Heard(t) ==
  /\ detaching[t] = None
  /\ ~\E i \in 1..MaxTasks : At(i, {"detach"}, "ended") /\ tasks[i].tab = t

Attachable(t, o) == page[t] \notin Restricted \cup {NoURL} /\ IsURLAllowed(page[t], o)

(* attachActiveTab after getTargets: refused, already attached, or asks    *)
(* the browser to attach.                                                  *)
AttachTargets(i) ==
  /\ At(i, {"attach"}, "targets")
  /\ LET task == tasks[i] t == task.tab IN
       \/ /\ ~Attachable(t, task.options)
          /\ Fails(task) /\ Becomes(i, Idle)
          /\ UNCHANGED attachedTabs
       \/ /\ Attachable(t, task.options) /\ TRUE \in SeenAttached(t)
          /\ attachedTabs' = Set(t, TabState(page[t], task.options))
          /\ Becomes(i, [task EXCEPT !.at = "enable"])
          /\ UNCHANGED popup
       \/ /\ Attachable(t, task.options) /\ FALSE \in SeenAttached(t)
          /\ Becomes(i, [task EXCEPT !.at = "attach"])
          /\ UNCHANGED <<attachedTabs, popup>>
  /\ UNCHANGED <<browserVars, optionVars, queueVars, answers, noticeVars, badge, bounds>>

(* chrome.debugger.attach returns; it fails on a tab that is attached or   *)
(* gone.                                                                   *)
Attached(i) ==
  /\ At(i, {"attach"}, "attach")
  /\ LET task == tasks[i] t == task.tab IN
       \/ /\ session[t] # 0 \/ page[t] = NoURL
          /\ Fails(task) /\ Becomes(i, Idle)
          /\ UNCHANGED <<session, sessions, attachedTabs>>
       \/ /\ session[t] = 0 /\ page[t] # NoURL /\ Heard(t)
          /\ ~\E j \in 1..MaxTasks : At(j, {"detach"}, "detach") /\ tasks[j].tab = t
          /\ sessions < MaxSessions
          /\ sessions' = sessions + 1
          /\ session' = [session EXCEPT ![t] = sessions + 1]
          /\ attachedTabs' = Set(t, TabState(page[t], task.options))
          /\ Becomes(i, [task EXCEPT !.at = "enable"])
          /\ UNCHANGED popup
  /\ UNCHANGED <<page, detaching, removing, optionVars, queueVars, answers, noticeVars, badge, bounds>>

(* The debugger's domains are enabled, then the badge is set, then the     *)
(* record is made.                                                         *)
Enabled(i) ==
  /\ At(i, {"attach"}, "enable")
  /\ badge' = badge \cup {tasks[i].tab}
  /\ Becomes(i, [tasks[i] EXCEPT !.at = "badge"])
  /\ UNCHANGED <<browserVars, attachedTabs, optionVars, queueVars, answers, noticeVars, popup, bounds>>

Lit(i) ==
  /\ At(i, {"attach"}, "badge")
  /\ Enqueue(Record("attached", TRUE), FALSE)
  /\ Answer(tasks[i]) /\ Becomes(i, Idle)
  /\ UNCHANGED <<browserVars, attachedTabs, optionVars, noticeVars, badge, popup, bounds>>
-----------------------------------------------------------------------------
(* The end of detachActiveTab.                                             *)
Forget(i, t) ==
  /\ attachedTabs' = Without(t)
  /\ badge' = badge \ {t}
  /\ Answer(tasks[i]) /\ Becomes(i, Idle)

(* Variant: the tab is forgotten before the browser is asked to detach.    *)
DetachForgets(i) ==
  /\ At(i, {"detach"}, "targets")
  /\ LET task == tasks[i] t == task.tab IN
       \/ /\ TRUE \in SeenAttached(t)
          /\ overrides' = overrides \cup {t}
          /\ badge' = badge \ {t}
          /\ Becomes(i, [task EXCEPT !.at = "detach"])
          /\ UNCHANGED <<attachedTabs, answers>>
       \/ /\ FALSE \in SeenAttached(t)
          /\ Forget(i, t)
          /\ UNCHANGED overrides
  /\ UNCHANGED <<browserVars, optionVars, queueVars, recent, notices, excused, popup, bounds>>

(* detachActiveTab after getTargets.                                       *)
DetachTargets(i) ==
  /\ At(i, {"detach"}, "targets")
  /\ LET task == tasks[i] t == task.tab IN
       \/ /\ TRUE \in SeenAttached(t)
          /\ overrides' = overrides \cup {t}
          /\ Becomes(i, [task EXCEPT !.at = "detach"])
          /\ UNCHANGED <<attachedTabs, badge, answers>>
       \/ /\ FALSE \in SeenAttached(t)
          /\ Forget(i, t)
          /\ UNCHANGED overrides
  /\ UNCHANGED <<browserVars, optionVars, queueVars, recent, notices, excused, popup, bounds>>

(* The browser ends the session for the worker; whether it also raises     *)
(* onDetach is left open.                                                  *)
BrowserDetaches(i) ==
  /\ At(i, {"detach"}, "detach")
  /\ LET t == tasks[i].tab IN
       /\ session[t] # 0 /\ detaching[t] = None
       /\ session' = [session EXCEPT ![t] = 0]
       /\ detaching' \in {detaching, [detaching EXCEPT ![t] =
                                       [session |-> session[t], reason |-> "own"]]}
       /\ Becomes(i, [tasks[i] EXCEPT !.at = "ended", !.session = session[t]])
  /\ UNCHANGED <<page, sessions, removing, attachedTabs, optionVars, queueVars, answers, noticeVars,
                 badge, popup, bounds>>

DetachFails(i) ==
  /\ At(i, {"detach"}, "detach")
  /\ session[tasks[i].tab] = 0 /\ Heard(tasks[i].tab)
  /\ overrides' = overrides \ {tasks[i].tab}
  /\ Fails(tasks[i]) /\ Becomes(i, Idle)
  /\ UNCHANGED <<browserVars, attachedTabs, optionVars, queueVars, answers, recent, notices, excused,
                 badge, bounds>>

Detached(i) ==
  /\ At(i, {"detach"}, "ended")
  /\ LET task == tasks[i] t == task.tab IN
       /\ IF Recent(t)
          THEN /\ excused' = excused \cup {task.session}
               /\ UNCHANGED <<recent, notices, queueVars>>
          ELSE recent' = recent \cup {t} /\ Notice(task) /\ UNCHANGED excused
       /\ overrides' = overrides \ {t}
       /\ Forget(i, t)
  /\ UNCHANGED <<browserVars, optionVars, popup, bounds>>
-----------------------------------------------------------------------------
(* The session of a tab ends without the worker: the user or DevTools, or  *)
(* the tab closes.                                                         *)
EndSession(t) ==
  /\ session[t] # 0 /\ detaching[t] = None
  /\ detaching' = [detaching EXCEPT ![t] = [session |-> session[t], reason |-> "canceled_by_user"]]
  /\ session' = [session EXCEPT ![t] = 0]
  /\ UNCHANGED <<page, sessions, removing, workerVars, noticeVars, badge, popup, bounds>>

CloseTab(t) ==
  /\ page[t] # NoURL /\ detaching[t] = None
  /\ page' = [page EXCEPT ![t] = NoURL]
  /\ removing' = removing \cup {t}
  /\ session' = [session EXCEPT ![t] = 0]
  /\ detaching' = IF session[t] = 0 THEN detaching
                  ELSE [detaching EXCEPT ![t] = [session |-> session[t], reason |-> "target_closed"]]
  /\ badge' = badge \ {t}
  /\ IF popup.tab = t THEN Unheard ELSE UNCHANGED <<popup, tasks, answers>>
  /\ UNCHANGED <<sessions, attachedTabs, optionVars, queueVars, noticeVars, bounds>>

(* The worker is stopped: what it holds is lost, the popup's calls fail;   *)
(* the next event or message starts it afresh.                             *)
WorkerStops ==
  /\ Move
  /\ stops' = stops + 1
  /\ attachedTabs' = <<>> /\ overrides' = {} /\ recent' = {} /\ cachedOptions' = null
  /\ queue' = <<>> /\ flushTimer' = FALSE /\ armed' = FALSE /\ flights' = {}
  /\ tasks' = [i \in 1..MaxTasks |-> Idle] /\ loading' = <<>> /\ answers' = <<>>
  /\ popup' = [popup EXCEPT !.busy = FALSE]
  /\ overtaken' = FALSE
  /\ excused' = excused \cup (1..sessions \ {detaching[t].session : t \in Tabs})
  /\ UNCHANGED <<browserVars, stored, made, posted, notices, badge>>

Worker ==
  \/ OptionsLoaded \/ TimerFires \/ AnswerReturns
  \/ \E t \in Tabs : OnRemoved(t) \/ OnDetach(t)
  \/ \E i \in 1..MaxTasks :
       \/ EventTab(i) \/ PublishDetach(i) \/ NoticeTab(i) \/ Saved(i)
       \/ AttachTargets(i) \/ Attached(i) \/ Enabled(i) \/ Lit(i)
       \/ DetachTargets(i) \/ BrowserDetaches(i) \/ DetachFails(i) \/ Detached(i)
  \/ \E batch \in flights : PostReturns(batch)

User ==
  \/ \E t \in Tabs : OpenPopup(t) \/ EndSession(t) \/ CloseTab(t)
  \/ ClosePopup \/ ClickAttach \/ ClickDetach
  \/ \E o \in Range(OptionSets) : ChangeInput(o)

Browser ==
  \E t \in Tabs : \/ WindowEnds(t)
                  \/ \E e \in PageEvents : OnEvent(t, e)

Next == Worker \/ User \/ Browser \/ WorkerStops

(* The browser answers the worker, and runs it when it does.               *)
Spec == Init /\ [][Next]_vars /\ WF_vars(Worker)
-----------------------------------------------------------------------------
Records == Range(queue) \cup posted \cup UNION {Range(batch) : batch \in flights}

(* The variables have their types.                                         *)
TypeOK ==
  /\ page \in [Tabs -> URLs \cup {NoURL}] /\ session \in [Tabs -> 0..sessions]
  /\ sessions \in 0..MaxSessions
  /\ {removing, badge, overrides, recent, DOMAIN attachedTabs} \subseteq SUBSET Tabs
  /\ stored \in Range(OptionSets) /\ cachedOptions \in Range(OptionSets) \cup {null}
  /\ {flushTimer, armed, overtaken} \subseteq BOOLEAN
  /\ \A t \in DOMAIN attachedTabs : Len(attachedTabs[t].requests) <= MaxRequests
  /\ \A r \in Records : r.id \in 1..made
  /\ excused \subseteq 1..sessions

(* A record waits in the queue only with a timer running that will flush   *)
(* it, and less than a batch waits (enqueueRecord, flushQueue); a flush    *)
(* finds the options loaded, so that batches leave as they are taken.      *)
QueueKept ==
  /\ queue # <<>> => armed /\ flushTimer /\ cachedOptions # null
  /\ Len(queue) < FlushBatch
  /\ flushTimer => armed

(* Both the popup's own detach and Chrome's event for it publish, yet the  *)
(* end of a session is told once in the worker's life, and by the popup's  *)
(* name when it was the popup's doing (publishDetachRecord,                *)
(* detachReasonOverrides).                                                 *)
DetachToldOnce ==
  \A j, k \in 1..Len(notices) :
    notices[j].life = notices[k].life =>
      /\ notices[j].session = notices[k].session => j = k
      /\ notices[j].life = 0 => notices[j].reason # "own"

(* A record of a debugger event obeys the filters, the toggles and the     *)
(* redaction that were saved when the event was raised, although handlers  *)
(* read them from a cache, unless a save was made before in the worker's   *)
(* life while other handlers were loading the options (saveOptions,        *)
(* loadOptions).                                                           *)
RulesInForce == \A r \in Records : r.obeys

(* A tab that is being captured shows it: once its attach is through, the  *)
(* badge stays ON as long as the session lasts (attachActiveTab,           *)
(* handleDebuggerDetach, detachActiveTab).                                 *)
CaptureIsShown ==
  stops = 0 =>
    \A t \in Tabs : session[t] # 0 =>
      t \in badge \/ \E i \in 1..MaxTasks : At(i, {"attach"}, "enable") /\ tasks[i].tab = t

(* Every end of a session is told, whoever ended it and whatever the       *)
(* worker still knew of the tab, unless it fell within a second of another *)
(* notice or the worker was stopped (docs/browser-tap.md, handleDebugger-  *)
(* Detach, tabStateForDetach).                                             *)
DetachIsTold ==
  \A s \in 1..MaxSessions :
    (s <= sessions /\ \A t \in Tabs : session[t] # s)
      ~> (s \in excused \/ \E k \in 1..Len(notices) : notices[k].session = s)
=============================================================================
