------------------------------- MODULE Windows -------------------------------
(***************************************************************************)
(* The windows of the viewer at one origin (App.tsx, WorkspacesDialog.tsx, *)
(* workspaces.ts): a main window and popouts, which share localStorage and *)
(* tell each other of the sources they block and the targets they detach,  *)
(* once by a BroadcastChannel and once by the browser's storage event.     *)
(* Every window receives the same rows; see Viewer for how.                *)
(***************************************************************************)
EXTENDS Views, Workspaces, Sequences, SequencesExt

CONSTANTS Targets,   \* what users pop out
          WindowName(_), \* popoutWindowName, which several targets may share
          Levels,
          MaxMoves   \* bound: what users do

ASSUME WindowsAssumption ==
  /\ null \notin Targets /\ \A t \in Targets : t = Group(t.key) \/ t = Source(t.key)
  /\ MaxMoves \in Nat

VARIABLES
  stored,   \* localStorage: blocked, detached and workspaces
  phase,    \* per window, how far it is with loading, or with closing
  views,    \* per window, its view
  was,      \* popoutWasDetachedRef
  due,      \* whether the effect of detachedTargets is due
  mail,     \* per window, the messages of the channels
  events,   \* per window, the storage events
  lists,    \* per window, the workspaces its dialog shows
  prompts,  \* per window, what the user is asked to confirm, or null
  crossed,  \* history: the topics whose last change crossed another
  moves

windowVars == <<phase, was, due>>
vars == <<stored, windowVars, views, mail, events, lists, prompts, crossed, moves>>

(* A window is named here by its target; to the browser, targets with the  *)
(* same window name are one window, which shows the last one opened.       *)
Main == null
Windows == {Main} \cup Targets

Topics == {"blocked", "detached", "workspaces"}

Init ==
  /\ stored = [blocked |-> {}, detached |-> {}, workspaces |-> {}]
  /\ phase = [w \in Windows |-> IF w = Main THEN "open" ELSE "closed"]
  /\ views = [w \in Windows |-> NewView(w)]
  /\ was = [w \in Windows |-> FALSE] /\ due = [w \in Windows |-> FALSE]
  /\ mail = [w \in Windows |-> <<>>] /\ events = [w \in Windows |-> <<>>]
  /\ lists = [w \in Windows |-> {}] /\ prompts = [w \in Windows |-> null]
  /\ crossed = {} /\ moves = 0

Open == {w \in Windows : phase[w] = "open"}

(* A closing window goes on until it is closed.                            *)
Listening == {w \in Windows : phase[w] \in {"open", "closing"}}

(* The user acts in a window that asks for no confirmation.                *)
Acts(w) == w \in Listening /\ prompts[w] = null /\ moves < MaxMoves /\ moves' = moves + 1

HasMail(w, topic) == \E k \in 1..Len(mail[w]) : mail[w][k].topic = topic

(* A change of w crosses another: one that w has not heard of will undo    *)
(* it in w, or a window that has read the storage does not listen yet.     *)
Crosses(w, topic) == HasMail(w, topic) \/ \E x \in Windows \ {w} : phase[x] = "mounted"

Waiting(topic) ==
  \E w \in Windows : \/ phase[w] = "mounted"
                     \/ w \in Listening /\ (HasMail(w, topic) \/ topic \in Range(events[w]))

(* writeBlockedSources and its like, by w: the storage tells the other     *)
(* windows that it changed.                                                *)
Store(w, topic, value) ==
  /\ stored' = [stored EXCEPT ![topic] = value]
  /\ events' = [x \in Windows |-> IF x \in Listening \ {w} /\ stored[topic] # value
                                  THEN Append(events[x], topic) ELSE events[x]]
  /\ crossed' = IF Crosses(w, topic) THEN crossed \cup {topic} ELSE crossed \ {topic}

(* postMessage, to those that are listening.                               *)
Post(w, topic, value) ==
  mail' = [x \in Windows |-> IF x \in Listening \ {w}
                             THEN Append(mail[x], [topic |-> topic, value |-> value]) ELSE mail[x]]

(* Variant: the message has what was blocked before.                       *)
UpdateBlockedSourcesTellsOld(w, sources) ==
  Store(w, "blocked", sources) /\ Post(w, "blocked", views[w].blocked)

UpdateBlockedSources(w, sources) == Store(w, "blocked", sources) /\ Post(w, "blocked", sources)

UpdateDetachedTargets(w, targets) ==
  /\ Store(w, "detached", targets)
  /\ Post(w, "detached", targets)
  /\ views' = [views EXCEPT ![w].detached = targets]
  /\ due' = [due EXCEPT ![w] = TRUE]
-----------------------------------------------------------------------------
(* The menu of a pane offers to pop it out, unless it is this window's.    *)
CanPopOut(w, t) ==
  /\ t # w
  /\ LET v == views[w] IN
       \/ \E pane \in SourcePanes(v) : pane.scope = t
       \/ t.kind = "group" /\ IsGroup(v, t.key) /\ t \notin v.excluded

Namesakes(t) == {x \in Targets : WindowName(x) = WindowName(t)}

(* openPopout: window.open loads the window of that name, perhaps again,   *)
(* perhaps in the place of another target; the timer of one that is        *)
(* closing may still come first.                                           *)
OpenPopout(w, t) ==
  /\ Acts(w)
  /\ CanPopOut(w, t)
  /\ UpdateDetachedTargets(w, views[w].detached \cup {t})
  /\ \/ phase' = [x \in Windows |-> IF x = t THEN "loading"
                                    ELSE IF x \in Namesakes(t) THEN "closed" ELSE phase[x]]
     \/ (\E x \in Namesakes(t) : phase[x] = "closing") /\ UNCHANGED phase
  /\ UNCHANGED <<was, lists, prompts>>

(* reattachTarget, by a chip of another window or the popout's button; the *)
(* popout's own closes it after 80 ms.                                     *)
ReattachTarget(w, t) ==
  /\ Acts(w)
  /\ t = w \/ t \in views[w].detached
  /\ UpdateDetachedTargets(w, views[w].detached \ {t})
  /\ phase' = IF t = w THEN [phase EXCEPT ![w] = "closing"] ELSE phase
  /\ UNCHANGED <<was, lists, prompts>>

(* The page runs: App's first render reads the storage.                    *)
Mount(w) ==
  /\ phase[w] = "loading"
  /\ phase' = [phase EXCEPT ![w] = "mounted"]
  /\ views' = [views EXCEPT ![w] = [NewView(w) EXCEPT !.blocked = stored.blocked,
                                                     !.detached = stored.detached]]
  /\ was' = [was EXCEPT ![w] = FALSE]
  /\ mail' = [mail EXCEPT ![w] = <<>>] /\ events' = [events EXCEPT ![w] = <<>>]
  /\ prompts' = [prompts EXCEPT ![w] = null]
  /\ UNCHANGED <<stored, due, lists, crossed, moves>>

(* Its effects run: from now on it listens, and its dialog has a list.     *)
Listen(w) ==
  /\ phase[w] = "mounted"
  /\ phase' = [phase EXCEPT ![w] = "open"]
  /\ due' = [due EXCEPT ![w] = TRUE]
  /\ lists' = [lists EXCEPT ![w] = stored.workspaces]
  /\ UNCHANGED <<stored, views, was, mail, events, prompts, crossed, moves>>

(* Variant: a popout does not close itself.                                *)
CloseEffectNever(w) ==
  /\ w \in Listening /\ due[w]
  /\ due' = [due EXCEPT ![w] = FALSE]
  /\ was' = [was EXCEPT ![w] = @ \/ w \in views[w].detached]
  /\ UNCHANGED <<stored, phase, views, mail, events, lists, prompts, crossed, moves>>

(* The effect of detachedTargets: a popout that was detached and is not    *)
(* any more closes after 80 ms.                                            *)
CloseEffect(w) ==
  /\ w \in Listening /\ due[w]
  /\ due' = [due EXCEPT ![w] = FALSE]
  /\ was' = [was EXCEPT ![w] = @ \/ w \in views[w].detached]
  /\ phase' = IF was[w] /\ w # Main /\ w \notin views[w].detached
              THEN [phase EXCEPT ![w] = "closing"] ELSE phase
  /\ UNCHANGED <<stored, views, mail, events, lists, prompts, crossed, moves>>

(* A window that is closed leaves its target detached.                     *)
Closed(w) ==
  /\ phase' = [phase EXCEPT ![w] = "closed"]
  /\ views' = [views EXCEPT ![w] = NewView(w)]
  /\ was' = [was EXCEPT ![w] = FALSE] /\ due' = [due EXCEPT ![w] = FALSE]
  /\ mail' = [mail EXCEPT ![w] = <<>>] /\ events' = [events EXCEPT ![w] = <<>>]
  /\ lists' = [lists EXCEPT ![w] = {}] /\ prompts' = [prompts EXCEPT ![w] = null]
  /\ UNCHANGED <<stored, crossed>>

CloseTimer(w) == phase[w] = "closing" /\ Closed(w) /\ UNCHANGED moves

UserCloses(w) == Acts(w) /\ Closed(w)

(* The user loads the page again, or the main one anew.                    *)
LoadPage(w) ==
  /\ w \in Listening \/ (w = Main /\ phase[w] = "closed")
  /\ moves < MaxMoves /\ moves' = moves + 1
  /\ phase' = [phase EXCEPT ![w] = "loading"]
  /\ UNCHANGED <<stored, views, was, due, mail, events, lists, prompts, crossed>>
-----------------------------------------------------------------------------
(* A message of a channel: its value is what the window has from now on.   *)
SyncMessage(w) ==
  /\ w \in Listening /\ mail[w] # <<>>
  /\ LET m == Head(mail[w]) IN
       /\ views' = [views EXCEPT ![w][m.topic] = m.value]
       /\ due' = [due EXCEPT ![w] = @ \/ m.topic = "detached"]
  /\ mail' = [mail EXCEPT ![w] = Tail(@)]
  /\ UNCHANGED <<stored, phase, was, events, lists, prompts, crossed, moves>>

(* syncFromStorage and syncWorkspaces: the window reads the storage.       *)
SyncFromStorage(w) ==
  /\ w \in Listening /\ events[w] # <<>>
  /\ LET topic == Head(events[w]) IN
       /\ views' = IF topic = "workspaces" THEN views
                   ELSE [views EXCEPT ![w][topic] = stored[topic]]
       /\ lists' = IF topic = "workspaces" THEN [lists EXCEPT ![w] = stored.workspaces] ELSE lists
       /\ due' = [due EXCEPT ![w] = @ \/ topic = "detached"]
  /\ events' = [events EXCEPT ![w] = Tail(@)]
  /\ UNCHANGED <<stored, phase, was, mail, prompts, crossed, moves>>
-----------------------------------------------------------------------------
(* A source is blocked from its pane or its group's; what was set for it   *)
(* is forgotten.                                                           *)
BlockSource(w, s) ==
  /\ Acts(w)
  /\ \E r \in ScopedRecords(views[w]) :
       r.source = s /\ Group(ProjectedGroupKey(views[w], r)) \notin views[w].excluded
  /\ UpdateBlockedSources(w, views[w].blocked \cup {s})
  /\ views' = [views EXCEPT ![w].blocked = @ \cup {s}, ![w].excluded = @ \ {Source(s)},
                           ![w].off = {p \in @ : p[1] # Source(s)}]
  /\ UNCHANGED <<windowVars, lists, prompts>>

UnblockSource(w, s) ==
  /\ Acts(w)
  /\ s \in views[w].blocked
  /\ UpdateBlockedSources(w, views[w].blocked \ {s})
  /\ views' = [views EXCEPT ![w].blocked = @ \ {s}]
  /\ UNCHANGED <<windowVars, lists, prompts>>

Toggled(set, x) == IF x \in set THEN set \ {x} ELSE set \cup {x}

(* The settings of one window, which no other hears of.                    *)
Set(w, view) ==
  /\ Acts(w)
  /\ views' = [views EXCEPT ![w] = view]
  /\ UNCHANGED <<stored, windowVars, mail, events, lists, prompts, crossed>>

(* Groups by a button each, the sources of a group in its pane.            *)
ToggleExcluded(w) ==
  LET v == views[w] IN
    \E r \in ScopedRecords(v) :
      LET g == ProjectedGroupKey(v, r) IN
        \/ Set(w, [v EXCEPT !.excluded = Toggled(@, Group(g))])
        \/ /\ IsGroup(v, g) /\ Group(g) \notin v.excluded /\ r.source # NoSource
           /\ Set(w, [v EXCEPT !.excluded = Toggled(@, Source(r.source))])

TogglePaneLevel(w, level) ==
  \E pane \in SourcePanes(views[w]) :
    Set(w, [views[w] EXCEPT !.off = Toggled(@, <<pane.scope, level>>)])

ToggleLevel(w, level) == Set(w, [views[w] EXCEPT !.mergedOff = Toggled(@, level)])

ToggleGrouping(w) ==
  \E r \in ScopedRecords(views[w]) :
    LET g == ProjectedGroupKey(views[w], r) IN
      /\ IsGroup(views[w], g) /\ Group(g) \notin views[w].excluded
      /\ Set(w, [views[w] EXCEPT !.bySource = Toggled(@, g)])
-----------------------------------------------------------------------------
Preferences(v) ==
  [setting \in {"blocked", "excluded", "off", "mergedOff", "bySource"} |-> v[setting]]

WithPreferences(v, p) ==
  [v EXCEPT !.blocked = p.blocked, !.excluded = p.excluded, !.off = p.off,
            !.mergedOff = p.mergedOff, !.bySource = p.bySource]

(* Variant: what is saved is added to the list the dialog shows.           *)
ReadList(w) == lists[w]

ReadWorkspaces(w) == stored.workspaces

(* What the dialog writes it shows.                                        *)
Write(w, workspaces) ==
  /\ Store(w, "workspaces", workspaces)
  /\ lists' = [lists EXCEPT ![w] = workspaces]

SaveWorkspace(w, name) ==
  /\ Acts(w)
  /\ ~SaveFails(ReadWorkspaces(w), name, FALSE)
  /\ Write(w, Saved(ReadWorkspaces(w), name, Preferences(views[w])))
  /\ UNCHANGED <<windowVars, views, mail, prompts>>

(* The prompt keeps the settings of the moment it opened.                  *)
AskToConfirm(w, act) ==
  /\ Acts(w)
  /\ \E workspace \in lists[w] :
       prompts' = [prompts EXCEPT ![w] =
                     [act |-> act, name |-> workspace.name, preferences |-> Preferences(views[w])]]
  /\ UNCHANGED <<stored, windowVars, views, mail, events, lists, crossed>>

Confirm(w) ==
  /\ w \in Listening /\ prompts[w] # null
  /\ LET p == prompts[w] IN
       IF p.act = "delete" THEN Write(w, Deleted(ReadWorkspaces(w), p.name))
       ELSE IF SaveFails(ReadWorkspaces(w), p.name, TRUE)
            THEN UNCHANGED <<stored, events, lists, crossed>>
            ELSE Write(w, Saved(ReadWorkspaces(w), p.name, p.preferences))
  /\ prompts' = [prompts EXCEPT ![w] = null]
  /\ UNCHANGED <<windowVars, views, mail, moves>>

Cancel(w) ==
  /\ w \in Listening /\ prompts[w] # null
  /\ prompts' = [prompts EXCEPT ![w] = null]
  /\ UNCHANGED <<stored, windowVars, views, mail, events, lists, crossed, moves>>

LoadWorkspace(w) ==
  \E shown \in lists[w] :
    LET found == {x \in ReadWorkspaces(w) : x.name = shown.name} IN
      /\ Acts(w)
      /\ IF found = {}
         THEN /\ lists' = [lists EXCEPT ![w] = ReadWorkspaces(w)]
              /\ UNCHANGED <<stored, views, mail, events, crossed>>
         ELSE \E x \in found :
                /\ views' = [views EXCEPT ![w] = WithPreferences(@, x.preferences)]
                /\ UpdateBlockedSources(w, x.preferences.blocked)
                /\ UNCHANGED lists
      /\ UNCHANGED <<windowVars, prompts>>
-----------------------------------------------------------------------------
System(w) ==
  \/ Mount(w) \/ Listen(w) \/ CloseEffect(w) \/ CloseTimer(w)
  \/ SyncMessage(w) \/ SyncFromStorage(w)

UserActs(w) ==
  \/ \E t \in Targets : OpenPopout(w, t) \/ ReattachTarget(w, t)
  \/ UserCloses(w) \/ LoadPage(w)
  \/ \E s \in SourcesOf(Rows) : BlockSource(w, s) \/ UnblockSource(w, s)
  \/ ToggleExcluded(w) \/ ToggleGrouping(w)
  \/ \E level \in Levels : TogglePaneLevel(w, level) \/ ToggleLevel(w, level)
  \/ \E name \in Names : SaveWorkspace(w, name)
  \/ \E act \in {"update", "delete"} : AskToConfirm(w, act)
  \/ Confirm(w) \/ Cancel(w) \/ LoadWorkspace(w)

Next == \E w \in Windows : System(w) \/ UserActs(w)

(* A browser delivers messages and events, loads pages, runs effects and   *)
(* fires timers; a user need not do anything.                              *)
Spec ==
  /\ Init /\ [][Next]_vars
  /\ \A w \in Windows :
       /\ WF_vars(Mount(w)) /\ WF_vars(Listen(w))
       /\ WF_vars(CloseEffect(w)) /\ WF_vars(CloseTimer(w))
       /\ WF_vars(SyncMessage(w)) /\ WF_vars(SyncFromStorage(w))
-----------------------------------------------------------------------------
(* The values of the variables; the storage holds no two workspaces whose  *)
(* names differ in case alone, whichever windows saved them.               *)
TypeOK ==
  /\ stored.blocked \subseteq SourcesOf(Rows) /\ stored.detached \subseteq Targets
  /\ \A x, y \in stored.workspaces : Key(x.name) = Key(y.name) => x = y
  /\ phase \in [Windows -> {"closed", "loading", "mounted", "open", "closing"}]
  /\ \A w \in Windows :
       /\ views[w].popout = w
       /\ views[w].blocked \subseteq SourcesOf(Rows) /\ views[w].detached \subseteq Targets
       /\ {was[w], due[w]} \subseteq BOOLEAN
       /\ Range(events[w]) \subseteq Topics
       /\ prompts[w] = null \/ prompts[w].act \in {"update", "delete"}
  /\ crossed \subseteq Topics /\ moves \in 0..MaxMoves

(* Once every message and event is delivered, all open windows block the   *)
(* sources and detach the targets that are stored, unless the last change  *)
(* crossed another: two windows changed at once, or one was just loading.  *)
WindowsAgree ==
  \A topic \in {"blocked", "detached"} \ crossed :
    Waiting(topic) \/ \A w \in Open : views[w][topic] = stored[topic]

OneHas(windows, r) == \E w \in windows : {x \in windows : r \in ScopedRecords(views[x])} = {w}

(* Of every record with a source: each window shows it in one pane, or in  *)
(* none when it does not count it; with every level switched on the merged *)
(* view has what the panes have; and when every target that is detached    *)
(* has its window, it is in exactly one window, popouts inside popouts     *)
(* included.                                                               *)
EachRowHasItsPlace ==
  /\ \A w \in Open : InOnePane(views[w]) /\ SameInBothViews(views[w])
  /\ \/ Waiting("detached") \/ Waiting("blocked") \/ crossed \cap {"detached", "blocked"} # {}
     \/ ~({Main} \cup stored.detached) \subseteq Open
     \/ \A r \in Sourced : r.source \in stored.blocked \/ OneHas({Main} \cup stored.detached, r)

(* A popout whose target is reattached, wherever that is done, closes.     *)
PopoutCloses ==
  \A t \in Targets :
    (t \in Open /\ was[t] /\ t \notin stored.detached /\ "detached" \notin crossed)
      ~> (t \notin Open \/ t \in stored.detached \/ "detached" \in crossed)

Confirmed(act, workspace) ==
  \E w \in Windows : /\ prompts[w] # null /\ prompts'[w] = null
                      /\ prompts[w].act = act /\ IsNamed(workspace, prompts[w].name)

(* A saved workspace is lost only when a user confirms deleting it, and    *)
(* takes other settings only when one confirms updating it: two windows    *)
(* that save at the same time keep both.                                   *)
WorkspacesKept ==
  [][\A x \in stored.workspaces :
       \/ x \in stored'.workspaces
       \/ Confirmed("delete", x) /\ Named(stored'.workspaces, x.name) = {}
       \/ Confirmed("update", x) /\ \E y \in stored'.workspaces : y.name = x.name]_vars
=============================================================================
