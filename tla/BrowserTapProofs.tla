-------------------------- MODULE BrowserTapProofs --------------------------
(***************************************************************************)
(* Theorems about BrowserTap, for any tabs, pages and options and however  *)
(* many handlers wait.                                                     *)
(***************************************************************************)
EXTENDS BrowserTap, FiniteSetTheorems, SequenceTheorems, TLAPS

Options == Range(OptionSets)
Reasons == {"popup_detach", "own", "canceled_by_user", "target_closed", "none"}

EventTask ==
  [kind : {"event"}, at : {"start", "options", "tab"}, tab : Tabs, event : PageEvents,
   options : Options \cup {null}, rules : Options]

NoticeTask ==
  [kind : {"notice"}, at : {"badge", "options", "tab"}, tab : Tabs, known : BOOLEAN,
   session : Nat, reason : Reasons]

PopupTask ==
  [kind : {"getStatus", "save", "attach", "detach"},
   at : {"start", "options", "stored", "targets", "attach", "enable", "badge", "detach", "ended"},
   tab : Tabs, heard : BOOLEAN, options : Options \cup {null}, session : Nat,
   reason : {"popup_detach"}]

Task == EventTask \cup NoticeTask \cup PopupTask

(* A handler may wait although the options are not loaded: for them, or    *)
(* for the badge.                                                          *)
MayLack(task) == \/ task = Idle
                 \/ task \in Task /\ task.at = "options"
                 \/ task \in NoticeTask /\ task.at = "badge"

TasksOK ==
  /\ tasks \in [1..MaxTasks -> Task \cup {Idle}]
  /\ \A i \in 1..MaxTasks : tasks[i].kind \in {"save", "attach"} => tasks[i].options \in Options

(* Who waits for the storage waits for one answer.                         *)
LoadingOK ==
  /\ loading \in Seq([task : 1..MaxTasks, options : Options])
  /\ \A k \in 1..Len(loading) :
       tasks[loading[k].task] \in Task /\ tasks[loading[k].task].at = "options"
  /\ \A j, k \in 1..Len(loading) : loading[j].task = loading[k].task => j = k

OptionsOK ==
  /\ stored \in Options /\ cachedOptions \in Options \cup {null}
  /\ cachedOptions = null =>
       /\ DOMAIN attachedTabs = {} /\ answers = <<>> /\ queue = <<>>
       /\ \A i \in 1..MaxTasks : MayLack(tasks[i])

PopupOK ==
  /\ popup \in [open : BOOLEAN, tab : Tabs, busy : BOOLEAN, attached : BOOLEAN, form : Options]
  /\ answers \in Seq([options : Options, tab : Tabs, heard : BOOLEAN])

SessionsOK ==
  /\ session \in [Tabs -> Nat] /\ sessions \in Nat /\ stops \in Nat
  /\ detaching \in [Tabs -> [session : Nat, reason : Reasons]]
  /\ notices \in Seq([session : Nat, reason : Reasons, life : Nat])
  /\ overrides \subseteq Tabs /\ recent \subseteq Tabs

TypeInv == TasksOK /\ LoadingOK /\ OptionsOK /\ PopupOK /\ SessionsOK
-----------------------------------------------------------------------------
(* The options of the popup are known and none is null.                    *)
LEMMA OptionsKnown ==
  /\ OptionSets[1] \in Options
  /\ null \notin Options
BY BrowserTapAssumption DEF Options, Range

LEMMA InitTypes == Init => TypeInv
<1> SUFFICES ASSUME Init PROVE TypeInv
  OBVIOUS
<1>1. TasksOK
  BY DEF Init, TasksOK, Idle
<1>2. LoadingOK
  BY DEF Init, LoadingOK
<1>3. OptionsOK
  BY OptionsKnown DEF Init, OptionsOK, MayLack
<1>4. PopupOK
  BY OptionsKnown DEF Init, PopupOK, Popup
<1>5. SessionsOK
  <2>1. sessions \in Nat
    <3>1. PICK on \in {{}} \cup {{t} : t \in Tabs} : sessions = Cardinality(on)
      BY DEF Init
    <3> QED
      <4>1. CASE on = {}
        BY <3>1, <4>1, FS_EmptySet
      <4>2. CASE \E t \in Tabs : on = {t}
        BY <3>1, <4>2, FS_Singleton
      <4> QED
        BY <3>1, <4>1, <4>2
  <2>2. session \in [Tabs -> Nat] /\ stops \in Nat
    BY DEF Init
  <2>3. detaching \in [Tabs -> [session : Nat, reason : Reasons]]
    BY DEF Init, None, Reasons
  <2> QED
    BY <2>1, <2>2, <2>3 DEF Init, SessionsOK
<1> QED
  BY <1>1, <1>2, <1>3, <1>4, <1>5 DEF TypeInv
-----------------------------------------------------------------------------
(* A handler that goes on, or ends, leaves the others as they are.         *)
LEMMA OneTask ==
  ASSUME TasksOK, NEW i \in 1..MaxTasks, NEW x \in Task \cup {Idle},
         x.kind \in {"save", "attach"} => x.options \in Options,
         Becomes(i, x)
  PROVE  /\ TasksOK'
         /\ tasks'[i] = x /\ \A j \in (1..MaxTasks) \ {i} : tasks'[j] = tasks[j]
BY DEF TasksOK, Becomes

(* Nobody who waits for the storage is forgotten.                          *)
LEMMA LoadingKept ==
  ASSUME LoadingOK, UNCHANGED loading,
         \A j \in 1..MaxTasks : tasks[j] \in Task /\ tasks[j].at = "options"
                                  => tasks'[j] \in Task /\ tasks'[j].at = "options"
  PROVE  LoadingOK'
<1> SUFFICES ASSUME NEW k \in 1..Len(loading)
             PROVE  tasks'[loading[k].task] \in Task /\ tasks'[loading[k].task].at = "options"
  BY DEF LoadingOK
<1>1. loading[k] \in [task : 1..MaxTasks, options : Options]
  BY ElementOfSeq DEF LoadingOK
<1>2. tasks[loading[k].task] \in Task /\ tasks[loading[k].task].at = "options"
  BY DEF LoadingOK
<1> QED
  BY <1>1, <1>2

(* A handler that goes on, but not from waiting for the storage.           *)
LEMMA OneTaskLoading ==
  ASSUME TasksOK, LoadingOK, NEW i \in 1..MaxTasks, NEW x \in Task \cup {Idle},
         x.kind \in {"save", "attach"} => x.options \in Options,
         Becomes(i, x), UNCHANGED loading,
         tasks[i] = Idle \/ tasks[i].at # "options"
  PROVE  LoadingOK'
<1>1. Idle \notin Task
  BY DEF Idle, Task, EventTask, NoticeTask, PopupTask
<1> QED
  BY <1>1, OneTask, LoadingKept
-----------------------------------------------------------------------------
Asks(task) ==
  /\ task \in EventTask \cup NoticeTask \cup PopupTask
  /\ task.at \in {"start", "options"} \/ (task \in NoticeTask /\ task.at = "badge")
  /\ task.kind \in {"save", "attach"} => task.options \in Options

(* What becomes of a handler that has the options.                         *)
After(task) ==
  {x \in Task \cup {Idle} :
     \/ x = Idle /\ task \notin NoticeTask
     \/ /\ x \in Task /\ x.kind = task.kind /\ x.tab = task.tab
        /\ x.at \in {"tab", "stored", "targets"}
        /\ task \in NoticeTask => x \in NoticeTask /\ x.session = task.session
                                               /\ x.reason = task.reason
        /\ x.kind \in {"save", "attach"} => x.options \in Options}

(* HasOptions: the handler goes on, and the cache is filled.               *)
LEMMA HasOptionsGoesOn ==
  ASSUME TypeInv, NEW i \in 1..MaxTasks, NEW task, Asks(task), NEW o \in Options,
         HasOptions(i, task, o)
  PROVE  /\ \E x \in After(task) : Becomes(i, x)
         /\ cachedOptions' \in Options /\ stored' \in Options
         /\ answers' \in Seq([options : Options, tab : Tabs, heard : BOOLEAN])
<1>0. answers \in Seq([options : Options, tab : Tabs, heard : BOOLEAN]) /\ stored \in Options
  BY DEF TypeInv, PopupOK, OptionsOK
<1>1. CASE task.kind = "event"
  <2>1. task \in EventTask
    BY <1>1 DEF Asks, EventTask, NoticeTask, PopupTask
  <2>2. cachedOptions' = o /\ stored' = stored /\ answers' = answers
    BY <1>1 DEF HasOptions
  <2>3. \/ Becomes(i, Idle)
        \/ Becomes(i, [task EXCEPT !.at = "tab", !.options = o])
    BY <1>1 DEF HasOptions
  <2>4. Idle \in After(task)
    BY <2>1 DEF After, EventTask, NoticeTask
  <2>5. [task EXCEPT !.at = "tab", !.options = o] \in After(task)
    BY <2>1 DEF After, EventTask, NoticeTask, Task
  <2> QED
    BY <1>0, <2>2, <2>3, <2>4, <2>5
<1>2. CASE task.kind = "getStatus"
  <2>1. task \in PopupTask
    BY <1>2 DEF Asks, EventTask, NoticeTask, PopupTask
  <2>2. cachedOptions' = o /\ stored' = stored /\ Becomes(i, Idle)
    BY <1>2 DEF HasOptions
  <2>3. answers' = Append(answers, [options |-> o, tab |-> task.tab, heard |-> task.heard])
    BY <1>2 DEF HasOptions
  <2>4. answers' \in Seq([options : Options, tab : Tabs, heard : BOOLEAN])
    BY <1>0, <2>1, <2>3 DEF PopupTask
  <2>5. Idle \in After(task)
    BY <2>1 DEF After, PopupTask, NoticeTask
  <2> QED
    BY <1>0, <2>2, <2>4, <2>5
<1>3. CASE task.kind \in {"save", "attach"}
  <2>1. task \in PopupTask
    BY <1>3 DEF Asks, EventTask, NoticeTask, PopupTask
  <2>2. Saves(task.options, o) /\ answers' = answers
    BY <1>3 DEF HasOptions
  <2>3. Becomes(i, [task EXCEPT !.at = "stored"])
    BY <1>3 DEF HasOptions
  <2>4. [task EXCEPT !.at = "stored"] \in After(task)
    BY <1>3, <2>1 DEF Asks, After, PopupTask, NoticeTask, Task
  <2> QED
    BY <1>0, <1>3, <2>2, <2>3, <2>4 DEF Saves, Asks
<1>4. CASE task.kind = "detach"
  <2>1. task \in PopupTask
    BY <1>4 DEF Asks, EventTask, NoticeTask, PopupTask
  <2>2. cachedOptions' = o /\ stored' = stored /\ answers' = answers
    BY <1>4 DEF HasOptions
  <2>3. Becomes(i, [task EXCEPT !.at = "targets"])
    BY <1>4 DEF HasOptions
  <2>4. [task EXCEPT !.at = "targets"] \in After(task)
    BY <1>4, <2>1 DEF After, PopupTask, NoticeTask, Task
  <2> QED
    BY <1>0, <2>2, <2>3, <2>4
<1>5. CASE task.kind = "notice"
  <2>1. task \in NoticeTask
    BY <1>5 DEF Asks, EventTask, NoticeTask, PopupTask
  <2>2. cachedOptions' = o /\ stored' = stored /\ answers' = answers
    BY <1>5 DEF HasOptions
  <2>3. Becomes(i, [task EXCEPT !.at = "tab"])
    BY <1>5 DEF HasOptions
  <2>4. [task EXCEPT !.at = "tab"] \in After(task)
    BY <1>5, <2>1 DEF After, NoticeTask, Task
  <2> QED
    BY <1>0, <2>2, <2>3, <2>4
<1> QED
  BY <1>1, <1>2, <1>3, <1>4, <1>5 DEF HasOptions

(* Nobody else waits for what one handler waits for.                       *)
LEMMA AfterIsTask ==
  ASSUME NEW task, Asks(task), NEW x \in After(task)
  PROVE  /\ x \in Task \cup {Idle}
         /\ x.kind \in {"save", "attach"} => x.options \in Options
BY DEF After, Idle

LEMMA IdleIsNoTask == Idle \notin Task
BY DEF Idle, Task, EventTask, NoticeTask, PopupTask

(* LoadOptions: the handler goes on, or waits for the storage.             *)
LEMMA LoadOptionsGoesOn ==
  ASSUME TypeInv, NEW i \in 1..MaxTasks, NEW task, Asks(task), LoadOptions(i, task),
         tasks[i] = Idle \/ (tasks[i] \in NoticeTask /\ tasks[i].at = "badge")
  PROVE  /\ \E x \in After(task) \cup {[task EXCEPT !.at = "options"]} : Becomes(i, x)
         /\ TasksOK' /\ LoadingOK' /\ stored' \in Options
         /\ answers' \in Seq([options : Options, tab : Tabs, heard : BOOLEAN])
         /\ cachedOptions' \in Options \cup {null}
         /\ cachedOptions' = null =>
              /\ Becomes(i, [task EXCEPT !.at = "options"])
              /\ UNCHANGED <<cachedOptions, attachedTabs, queue, answers>>
<1>0. TasksOK /\ LoadingOK /\ stored \in Options
  BY DEF TypeInv, OptionsOK
<1>1. CASE cachedOptions # null
  <2>1. HasOptions(i, task, cachedOptions) /\ loading' = loading /\ cachedOptions \in Options
    BY <1>1 DEF LoadOptions, TypeInv, OptionsOK
  <2>2. PICK x \in After(task) : Becomes(i, x)
    BY <2>1, HasOptionsGoesOn
  <2>3. TasksOK'
    BY <1>0, <2>2, AfterIsTask, OneTask
  <2>4. LoadingOK'
    BY <1>0, <2>1, <2>2, AfterIsTask, OneTaskLoading DEF NoticeTask
  <2> QED
    BY <2>1, <2>2, <2>3, <2>4, HasOptionsGoesOn, OptionsKnown
<1>2. CASE cachedOptions = null
  <2> DEFINE x == [task EXCEPT !.at = "options"]
             entry == [task |-> i, options |-> stored]
  <2>1. /\ loading' = Append(loading, entry) /\ Becomes(i, x)
        /\ UNCHANGED <<stored, cachedOptions, attachedTabs, queue, answers>>
    BY <1>2 DEF LoadOptions, queueVars
  <2>2. x \in Task /\ x.at = "options" /\ (x.kind \in {"save", "attach"} => x.options \in Options)
    BY DEF Asks, Task, EventTask, NoticeTask, PopupTask
  <2>3. /\ TasksOK' /\ tasks'[i] = x /\ \A j \in (1..MaxTasks) \ {i} : tasks'[j] = tasks[j]
    BY <1>0, <2>1, <2>2, OneTask
  <2>4. LoadingOK'
    <3>1. loading \in Seq([task : 1..MaxTasks, options : Options])
      BY <1>0 DEF LoadingOK
    <3>2. entry \in [task : 1..MaxTasks, options : Options]
      BY <1>0
    <3>3. /\ loading' \in Seq([task : 1..MaxTasks, options : Options])
          /\ Len(loading') = Len(loading) + 1 /\ Len(loading) \in Nat
          /\ loading'[Len(loading) + 1] = entry
          /\ \A k \in 1..Len(loading) : loading'[k] = loading[k]
      BY <2>1, <3>1, <3>2
    <3>4. \A k \in 1..Len(loading) : loading[k].task \in 1..MaxTasks \ {i}
      <4> SUFFICES ASSUME NEW k \in 1..Len(loading) PROVE loading[k].task \in 1..MaxTasks \ {i}
        OBVIOUS
      <4>1. loading[k] \in [task : 1..MaxTasks, options : Options]
        BY <3>1, ElementOfSeq
      <4>2. tasks[loading[k].task] \in Task /\ tasks[loading[k].task].at = "options"
        BY <1>0 DEF LoadingOK
      <4>3. tasks[i] \notin Task \/ tasks[i].at = "badge"
        BY IdleIsNoTask
      <4> QED
        BY <4>1, <4>2, <4>3
    <3>5. \A k \in 1..Len(loading') :
            tasks'[loading'[k].task] \in Task /\ tasks'[loading'[k].task].at = "options"
      <4> SUFFICES ASSUME NEW k \in 1..Len(loading')
                   PROVE  /\ tasks'[loading'[k].task] \in Task
                          /\ tasks'[loading'[k].task].at = "options"
        OBVIOUS
      <4>1. CASE k = Len(loading) + 1
        <5>1. loading'[k].task = i
          BY <3>3, <4>1
        <5> QED
          BY <2>2, <2>3, <5>1
      <4>2. CASE k \in 1..Len(loading)
        <5>1. tasks[loading[k].task] \in Task /\ tasks[loading[k].task].at = "options"
          BY <1>0, <4>2 DEF LoadingOK
        <5>2. loading'[k] = loading[k] /\ loading[k].task \in (1..MaxTasks) \ {i}
          BY <3>3, <3>4, <4>2
        <5>3. tasks'[loading[k].task] = tasks[loading[k].task]
          BY <2>3, <5>2
        <5> QED
          BY <5>1, <5>2, <5>3
      <4> QED
        BY <3>3, <4>1, <4>2
    <3>6. \A j, k \in 1..Len(loading') : loading'[j].task = loading'[k].task => j = k
      <4> SUFFICES ASSUME NEW j \in 1..Len(loading'), NEW k \in 1..Len(loading'),
                          loading'[j].task = loading'[k].task
                   PROVE  j = k
        OBVIOUS
      <4>1. CASE j \in 1..Len(loading) /\ k \in 1..Len(loading)
        BY <1>0, <3>3, <4>1 DEF LoadingOK
      <4>2. CASE j = Len(loading) + 1 \/ k = Len(loading) + 1
        BY <3>3, <3>4, <4>2
      <4> QED
        BY <3>3, <4>1, <4>2
    <3> QED
      BY <3>3, <3>5, <3>6 DEF LoadingOK
  <2> QED
    BY <1>0, <1>2, <2>1, <2>3, <2>4 DEF TypeInv, PopupOK
<1> QED
  BY <1>1, <1>2

LEMMA WaitingAsks ==
  ASSUME TasksOK, NEW i \in 1..MaxTasks, tasks[i] \in Task, tasks[i].at = "options"
  PROVE  Asks(tasks[i])
BY DEF Asks, Task, TasksOK

(* The handler whose options come was waiting for them, and those that     *)
(* wait for theirs go on waiting.                                          *)
LEMMA OptionsLoadedGoesOn ==
  ASSUME TypeInv, OptionsLoaded
  PROVE  /\ \E i \in 1..MaxTasks : /\ Asks(tasks[i]) /\ tasks[i].at = "options"
                                   /\ \E x \in After(tasks[i]) : Becomes(i, x)
         /\ TasksOK' /\ LoadingOK' /\ stored' \in Options /\ cachedOptions' \in Options
         /\ answers' \in Seq([options : Options, tab : Tabs, heard : BOOLEAN])
<1> DEFINE Entry == [task : 1..MaxTasks, options : Options]
           i == Head(loading).task
<1>1. loading \in Seq(Entry) /\ loading # <<>> /\ TasksOK
  BY DEF OptionsLoaded, TypeInv, LoadingOK
<1>2. Head(loading) \in Entry /\ Head(loading) = loading[1] /\ 1 \in 1..Len(loading)
  <2>1. Len(loading) \in Nat /\ Len(loading) # 0
    BY <1>1, EmptySeq
  <2>2. 1 \in 1..Len(loading)
    BY <2>1
  <2>3. Head(loading) = loading[1]
    BY <1>1, <2>1
  <2>4. Head(loading) \in Entry
    BY <1>1, HeadTailProperties
  <2> QED
    BY <2>2, <2>3, <2>4
<1>3. i \in 1..MaxTasks /\ tasks[i] \in Task /\ tasks[i].at = "options"
  BY <1>2 DEF TypeInv, LoadingOK
<1>4. Asks(tasks[i])
  BY <1>1, <1>3, WaitingAsks
<1>5. HasOptions(i, tasks[i], Head(loading).options) /\ loading' = Tail(loading)
  BY DEF OptionsLoaded
<1>6. PICK x \in After(tasks[i]) : Becomes(i, x)
  BY <1>2, <1>3, <1>4, <1>5, HasOptionsGoesOn
<1>7. TasksOK' /\ \A j \in (1..MaxTasks) \ {i} : tasks'[j] = tasks[j]
  BY <1>1, <1>3, <1>4, <1>6, AfterIsTask, OneTask
<1>8. LoadingOK'
  <2>1. /\ loading' \in Seq(Entry) /\ Len(loading') = Len(loading) - 1 /\ Len(loading) \in Nat
        /\ \A k \in 1..Len(loading') : loading'[k] = loading[k + 1]
    BY <1>1, <1>5
  <2>2. \A k \in 1..Len(loading') :
          tasks'[loading'[k].task] \in Task /\ tasks'[loading'[k].task].at = "options"
    <3> SUFFICES ASSUME NEW k \in 1..Len(loading')
                 PROVE  /\ tasks'[loading'[k].task] \in Task
                        /\ tasks'[loading'[k].task].at = "options"
      OBVIOUS
    <3>1. k + 1 \in 1..Len(loading) /\ k + 1 # 1 /\ loading'[k] = loading[k + 1]
      BY <2>1
    <3>2. loading[k + 1] \in Entry
      BY <1>1, <3>1, ElementOfSeq
    <3>3. /\ tasks[loading[k + 1].task] \in Task /\ tasks[loading[k + 1].task].at = "options"
          /\ loading[k + 1].task # i
      BY <1>2, <3>1 DEF TypeInv, LoadingOK
    <3> QED
      BY <1>7, <3>1, <3>2, <3>3
  <2>3. \A j, k \in 1..Len(loading') : loading'[j].task = loading'[k].task => j = k
    <3> SUFFICES ASSUME NEW j \in 1..Len(loading'), NEW k \in 1..Len(loading'),
                        loading'[j].task = loading'[k].task
                 PROVE  j = k
      OBVIOUS
    <3>1. j + 1 \in 1..Len(loading) /\ k + 1 \in 1..Len(loading) /\ j \in Nat /\ k \in Nat
      BY <2>1
    <3>2. loading[j + 1].task = loading[k + 1].task
      BY <2>1
    <3>3. j + 1 = k + 1
      BY <3>1, <3>2 DEF TypeInv, LoadingOK
    <3> QED
      BY <3>1, <3>3
  <2> QED
    BY <2>1, <2>2, <2>3 DEF LoadingOK
<1> QED
  BY <1>2, <1>3, <1>4, <1>5, <1>6, <1>7, <1>8, HasOptionsGoesOn
-----------------------------------------------------------------------------
(* What the theorems ask of a handler: it is about to tell of the end of a *)
(* session, or tells of it, asks the browser to detach, or enables what it *)
(* has attached.                                                           *)
IsEnded(x) == x \in PopupTask /\ x.kind = "detach" /\ x.at = "ended"

IsDue(x) == (x \in NoticeTask /\ x.at = "badge") \/ IsEnded(x)

IsTelling(x) == x \in NoticeTask /\ x.at \in {"options", "tab"}

IsDetaching(x) == x \in PopupTask /\ x.kind = "detach" /\ x.at = "detach"

IsEnabling(x) == x \in PopupTask /\ x.kind = "attach" /\ x.at = "enable"

(* A handler goes from x to y, and nothing of this begins or changes.      *)
Alike(x, y) ==
  /\ IsEnded(y) => IsEnded(x)
  /\ IsDue(y) => IsDue(x) /\ y.tab = x.tab /\ y.session = x.session /\ y.reason = x.reason
  /\ IsTelling(y) => IsTelling(x) /\ y.tab = x.tab /\ y.session = x.session
                                  /\ y.reason = x.reason
  /\ IsDetaching(y) => IsDetaching(x) /\ y.tab = x.tab
  /\ IsEnabling(x) => IsEnabling(y) /\ y.tab = x.tab

Quiet ==
  /\ UNCHANGED <<session, sessions, detaching, noticeVars, badge, stops>>
  /\ \A i \in 1..MaxTasks : Alike(tasks[i], tasks'[i])

(* A handler that does none of this.                                       *)
Plain(x) == ~IsDue(x) /\ ~IsTelling(x) /\ ~IsDetaching(x) /\ ~IsEnabling(x)

LEMMA AlikeItself == \A x : Alike(x, x)
BY DEF Alike

LEMMA IdleIsPlain == Plain(Idle)
BY DEF Plain, Idle, IsDue, IsEnded, IsTelling, IsDetaching, IsEnabling, NoticeTask, PopupTask

LEMMA PlainIsAlike == ASSUME NEW x, NEW y, Plain(y), ~IsEnabling(x) PROVE Alike(x, y)
BY DEF Alike, Plain, IsDue

(* One handler goes on to something else.                                  *)
LEMMA OneTaskAlike ==
  ASSUME TasksOK, NEW i \in 1..MaxTasks, NEW x \in Task \cup {Idle}, Becomes(i, x),
         Alike(tasks[i], x)
  PROVE  \A j \in 1..MaxTasks : Alike(tasks[j], tasks'[j])
BY AlikeItself DEF TasksOK, Becomes

(* A handler that waits for anything but the options has them.             *)
LEMMA Loaded ==
  ASSUME TypeInv, NEW i \in 1..MaxTasks, ~MayLack(tasks[i])
  PROVE  cachedOptions \in Options /\ cachedOptions # null
BY DEF TypeInv, OptionsOK

(* Once the options are loaded they stay.                                  *)
LEMMA OptionsStay ==
  ASSUME OptionsOK, UNCHANGED <<stored, cachedOptions>>, cachedOptions # null
  PROVE  OptionsOK'
BY DEF OptionsOK

LEMMA OptionsStayAway ==
  ASSUME OptionsOK, UNCHANGED <<stored, cachedOptions>>,
         DOMAIN attachedTabs = {} => DOMAIN attachedTabs' = {},
         answers = <<>> => answers' = <<>>, queue = <<>> => queue' = <<>>,
         \A i \in 1..MaxTasks : MayLack(tasks[i]) => MayLack(tasks'[i])
  PROVE  OptionsOK'
BY DEF OptionsOK

(* A handler starts that asks for the options.                             *)
LEMMA Starts ==
  ASSUME TypeInv, NEW i \in 1..MaxTasks, FirstIdle(i), NEW task, Asks(task),
         task \notin NoticeTask, LoadOptions(i, task)
  PROVE  /\ TasksOK' /\ LoadingOK' /\ OptionsOK'
         /\ answers' \in Seq([options : Options, tab : Tabs, heard : BOOLEAN])
         /\ \A j \in 1..MaxTasks : Alike(tasks[j], tasks'[j])
<1>0. tasks[i] = Idle /\ TasksOK
  BY DEF FirstIdle, TypeInv
<1> DEFINE waits == [task EXCEPT !.at = "options"]
<1>1. PICK x \in After(task) \cup {waits} : Becomes(i, x)
  BY <1>0, LoadOptionsGoesOn
<1>2. waits \in Task /\ Plain(waits) /\ waits.at = "options"
  BY DEF Asks, Task, Plain, IsDue, IsEnded, IsTelling, IsDetaching, IsEnabling, EventTask, NoticeTask,
         PopupTask
<1>3. Plain(x) /\ x \in Task \cup {Idle}
  <2>1. CASE x \in After(task)
    <3>1. x = Idle \/ (x \in Task /\ x.at \in {"tab", "stored", "targets"} /\ x.kind = task.kind)
      BY <2>1 DEF After
    <3>2. task.kind # "notice"
      BY DEF Asks, EventTask, NoticeTask, PopupTask
    <3> QED
      BY <3>1, <3>2, IdleIsPlain DEF Plain, IsDue, IsEnded, IsTelling, IsDetaching, IsEnabling, NoticeTask
  <2> QED
    BY <1>2, <2>1
<1>4. Alike(tasks[i], x)
  BY <1>0, <1>3, IdleIsPlain, PlainIsAlike DEF Plain
<1>5. OptionsOK'
  <2>1. CASE cachedOptions' = null
    <3>1. /\ Becomes(i, waits)
          /\ UNCHANGED <<cachedOptions, attachedTabs, queue, answers>>
      BY <1>0, <2>1, LoadOptionsGoesOn
    <3>2. \A j \in 1..MaxTasks : MayLack(tasks[j]) => MayLack(tasks'[j])
      BY <1>0, <1>2, <3>1 DEF Becomes, MayLack, TasksOK
    <3>3. stored' \in Options
      BY <1>0, LoadOptionsGoesOn
    <3> QED
      BY <2>1, <3>1, <3>2, <3>3 DEF TypeInv, OptionsOK
  <2>2. CASE cachedOptions' # null
    BY <1>0, <2>2, LoadOptionsGoesOn DEF OptionsOK
  <2> QED
    BY <2>1, <2>2
<1> QED
  BY <1>0, <1>1, <1>3, <1>4, <1>5, OneTaskAlike, LoadOptionsGoesOn
-----------------------------------------------------------------------------
(* One handler, which has its options, goes on or ends.                    *)
LEMMA GoesOn ==
  ASSUME TypeInv, NEW i \in 1..MaxTasks, ~MayLack(tasks[i]), NEW x \in Task \cup {Idle},
         x.kind \in {"save", "attach"} => x.options \in Options,
         Becomes(i, x), UNCHANGED optionVars
  PROVE  TasksOK' /\ LoadingOK' /\ OptionsOK'
<1>1. tasks[i] \in Task /\ tasks[i].at # "options"
  BY DEF TypeInv, TasksOK, MayLack
<1> QED
  BY <1>1, Loaded, OneTask, OneTaskLoading, OptionsStay DEF TypeInv, optionVars

(* An answer to the popup.                                                 *)
LEMMA AnswerOK ==
  ASSUME TypeInv, NEW task \in PopupTask, Answer(task), cachedOptions \in Options
  PROVE  answers' \in Seq([options : Options, tab : Tabs, heard : BOOLEAN])
BY DEF TypeInv, PopupOK, Answer, PopupTask

(* A message of the popup.                                                 *)
LEMMA MessageOK ==
  ASSUME TypeInv, PopupOK' \/ popup'.tab \in Tabs,
         NEW kind \in {"getStatus", "save", "attach", "detach"}, NEW o \in Options \cup {null},
         kind \in {"save", "attach"} => o \in Options, Message(kind, o)
  PROVE  /\ TasksOK' /\ LoadingOK' /\ OptionsOK'
         /\ answers' \in Seq([options : Options, tab : Tabs, heard : BOOLEAN])
         /\ \A j \in 1..MaxTasks : Alike(tasks[j], tasks'[j])
<1>1. popup'.tab \in Tabs
  BY DEF PopupOK
<1> DEFINE task == [kind |-> kind, at |-> "start", tab |-> popup'.tab, heard |-> TRUE,
                    options |-> o, session |-> 0, reason |-> "popup_detach"]
           targets == [task EXCEPT !.at = "targets"]
<1>2. PICK i \in 1..MaxTasks :
        /\ FirstIdle(i)
        /\ IF kind = "detach" /\ popup'.tab \in DOMAIN attachedTabs
           THEN /\ Becomes(i, targets)
                /\ UNCHANGED <<attachedTabs, optionVars, queueVars, answers>>
           ELSE LoadOptions(i, task)
  BY DEF Message
<1>3. task \in PopupTask /\ targets \in PopupTask /\ targets.at = "targets" /\ task.at = "start"
  BY <1>1 DEF PopupTask
<1>4. CASE kind = "detach" /\ popup'.tab \in DOMAIN attachedTabs
  <2>1. Becomes(i, targets) /\ UNCHANGED <<attachedTabs, optionVars, queueVars, answers>>
    BY <1>2, <1>4
  <2>2. targets \in Task /\ targets.kind = "detach" /\ Plain(targets)
    BY <1>3, <1>4 DEF Task, Plain, IsDue, IsEnded, IsTelling, IsDetaching, IsEnabling, NoticeTask
  <2>3. tasks[i] = Idle
    BY <1>2 DEF FirstIdle
  <2>4. TasksOK' /\ LoadingOK'
    BY <2>1, <2>2, <2>3, OneTask, OneTaskLoading DEF TypeInv, optionVars
  <2>5. OptionsOK'
    BY <1>4, <2>1, OptionsStay DEF TypeInv, OptionsOK, optionVars
  <2>6. Alike(tasks[i], targets)
    BY <2>2, <2>3, IdleIsPlain, PlainIsAlike DEF Plain
  <2> QED
    BY <2>1, <2>2, <2>4, <2>5, <2>6, OneTaskAlike DEF TypeInv, PopupOK
<1>5. CASE ~(kind = "detach" /\ popup'.tab \in DOMAIN attachedTabs)
  <2>1. LoadOptions(i, task) /\ FirstIdle(i)
    BY <1>2, <1>5
  <2>2. Asks(task) /\ task \notin NoticeTask
    BY <1>3 DEF Asks, NoticeTask
  <2> QED
    BY <2>1, <2>2, Starts
<1> QED
  BY <1>4, <1>5

(* The popup closes: handlers go on unheard.                               *)
LEMMA UnheardOK ==
  ASSUME TypeInv, Unheard
  PROVE  /\ TasksOK' /\ PopupOK'
         /\ answers = <<>> => answers' = <<>>
         /\ \A j \in 1..MaxTasks : /\ tasks[j] \in Task => tasks'[j] \in Task
                                                      /\ tasks'[j].at = tasks[j].at
                                   /\ Alike(tasks[j], tasks'[j])
                                   /\ MayLack(tasks[j]) => MayLack(tasks'[j])
<1>1. \A j \in 1..MaxTasks :
        tasks'[j] = IF tasks[j].kind \in {"idle", "event", "notice"} THEN tasks[j]
                    ELSE [tasks[j] EXCEPT !.heard = FALSE]
  BY DEF Unheard
<1>2. ASSUME NEW j \in 1..MaxTasks
      PROVE  /\ tasks'[j] \in Task \cup {Idle}
             /\ tasks'[j].kind \in {"save", "attach"} => tasks'[j].options \in Options
             /\ tasks[j] \in Task => tasks'[j] \in Task /\ tasks'[j].at = tasks[j].at
             /\ Alike(tasks[j], tasks'[j])
             /\ MayLack(tasks[j]) => MayLack(tasks'[j])
  <2>1. CASE tasks'[j] = tasks[j]
    BY <2>1, AlikeItself DEF TypeInv, TasksOK
  <2>2. CASE tasks[j] \in PopupTask /\ tasks'[j] = [tasks[j] EXCEPT !.heard = FALSE]
    <3> DEFINE x == tasks[j]
               y == tasks'[j]
    <3>1. y \in PopupTask /\ y.kind = x.kind /\ y.at = x.at /\ y.tab = x.tab
          /\ y.session = x.session /\ y.reason = x.reason /\ y.options = x.options
      BY <2>2 DEF PopupTask
    <3>2. x \notin NoticeTask /\ y \notin NoticeTask /\ x # Idle
      BY <2>2, <3>1, IdleIsNoTask DEF PopupTask, NoticeTask, Task
    <3>3. Alike(x, y)
      BY <2>2, <3>1, <3>2 DEF Alike, IsDue, IsEnded, IsTelling, IsDetaching, IsEnabling
    <3>4. x.kind \in {"save", "attach"} => x.options \in Options
      BY DEF TypeInv, TasksOK
    <3> QED
      BY <3>1, <3>2, <3>3, <3>4 DEF Task, MayLack
  <2>3. tasks[j] \in PopupTask \/ tasks[j].kind \in {"idle", "event", "notice"}
    BY DEF TypeInv, TasksOK, Task, Idle, EventTask, NoticeTask
  <2> QED
    BY <1>1, <2>1, <2>2, <2>3
<1>3. TasksOK'
  <2>1. tasks' \in [1..MaxTasks -> Task \cup {Idle}]
    BY <1>2 DEF Unheard
  <2> QED
    BY <1>2, <2>1 DEF TasksOK
<1>4. PopupOK'
  <2> DEFINE A == [options : Options, tab : Tabs, heard : BOOLEAN]
  <2>1. popup' \in [open : BOOLEAN, tab : Tabs, busy : BOOLEAN, attached : BOOLEAN, form : Options]
    BY OptionsKnown DEF TypeInv, PopupOK, Unheard, Popup
  <2>2. answers \in Seq(A) /\ answers' = [k \in 1..Len(answers) |-> [answers[k] EXCEPT !.heard = FALSE]]
    BY DEF TypeInv, PopupOK, Unheard
  <2>3. \A k \in 1..Len(answers) : [answers[k] EXCEPT !.heard = FALSE] \in A
    <3> SUFFICES ASSUME NEW k \in 1..Len(answers) PROVE [answers[k] EXCEPT !.heard = FALSE] \in A
      OBVIOUS
    <3>1. answers[k] \in A
      BY <2>2, ElementOfSeq
    <3> QED
      BY <3>1
  <2>4. answers' \in Seq(A)
    BY <2>2, <2>3
  <2> QED
    BY <2>1, <2>4 DEF PopupOK
<1>5. answers = <<>> => answers' = <<>>
  BY DEF Unheard
<1> QED
  BY <1>2, <1>3, <1>4, <1>5
-----------------------------------------------------------------------------
(* The steps that concern no session and no badge.                         *)
QuietStep ==
  \/ OptionsLoaded \/ TimerFires \/ AnswerReturns
  \/ \E t \in Tabs : OnRemoved(t) \/ OpenPopup(t) \/ \E e \in PageEvents : OnEvent(t, e)
  \/ \E i \in 1..MaxTasks : EventTab(i) \/ Saved(i) \/ AttachTargets(i) \/ Lit(i)
  \/ \E batch \in flights : PostReturns(batch)
  \/ ClosePopup \/ ClickAttach \/ ClickDetach
  \/ \E o \in Range(OptionSets) : ChangeInput(o)

LEMMA RestOfNothing == Rest(<<>>) = <<>>
BY BrowserTapAssumption DEF Rest, SmallerOf

LEMMA QuietAndTyped ==
  ASSUME TypeInv, QuietStep
  PROVE  TypeInv' /\ Quiet
<1> USE DEF browserVars, optionVars, queueVars, bounds, noticeVars
<1>1. CASE OptionsLoaded
  <2>1. PICK i \in 1..MaxTasks : /\ Asks(tasks[i]) /\ tasks[i].at = "options"
                                 /\ \E x \in After(tasks[i]) : Becomes(i, x)
    BY <1>1, OptionsLoadedGoesOn
  <2>2. PICK x \in After(tasks[i]) : Becomes(i, x)
    BY <2>1
  <2>3. Alike(tasks[i], x)
    <3>1. CASE tasks[i] \in NoticeTask
      BY <2>1, <3>1 DEF After, Alike, IsDue, IsEnded, IsTelling, IsDetaching, IsEnabling, NoticeTask,
                        PopupTask, Idle
    <3>2. CASE tasks[i] \notin NoticeTask
      <4>1. Plain(x)
        <5>1. tasks[i].kind # "notice"
          BY <2>1, <3>2 DEF Asks, EventTask, NoticeTask, PopupTask
        <5> QED
          BY <5>1, IdleIsPlain DEF After, Plain, IsDue, IsEnded, IsTelling, IsDetaching, IsEnabling,
                                   NoticeTask
      <4> QED
        BY <2>1, <4>1, PlainIsAlike DEF IsEnabling
    <3> QED
      BY <3>1, <3>2
  <2>4. \A j \in 1..MaxTasks : Alike(tasks[j], tasks'[j])
    BY <2>1, <2>2, <2>3, AfterIsTask, OneTaskAlike DEF TypeInv
  <2>5. /\ TasksOK' /\ LoadingOK' /\ stored' \in Options /\ cachedOptions' \in Options
        /\ answers' \in Seq([options : Options, tab : Tabs, heard : BOOLEAN])
    BY <1>1, OptionsLoadedGoesOn
  <2>6. UNCHANGED <<session, sessions, detaching, noticeVars, badge, stops, popup>>
    BY <1>1 DEF OptionsLoaded
  <2>7. OptionsOK' /\ PopupOK' /\ SessionsOK'
    BY <2>5, <2>6, OptionsKnown DEF TypeInv, OptionsOK, PopupOK, SessionsOK
  <2> QED
    BY <2>4, <2>5, <2>6, <2>7 DEF TypeInv, Quiet
<1>2. CASE TimerFires
  <2>1. UNCHANGED <<session, sessions, detaching, noticeVars, badge, stops, popup, tasks, loading,
                    stored, cachedOptions, attachedTabs, answers>> /\ queue' = Rest(queue)
    BY <1>2 DEF TimerFires
  <2>2. OptionsOK'
    BY <2>1, OptionsStayAway, RestOfNothing DEF TypeInv
  <2> QED
    BY <2>1, <2>2, AlikeItself DEF TypeInv, TasksOK, LoadingOK, PopupOK, SessionsOK, Quiet
<1>3. CASE AnswerReturns
  <2> DEFINE A == [options : Options, tab : Tabs, heard : BOOLEAN]
  <2>1. /\ UNCHANGED <<session, sessions, detaching, noticeVars, badge, stops, tasks, loading,
                       stored, cachedOptions, queue>>
        /\ answers # <<>> /\ answers' = Tail(answers)
    BY <1>3 DEF AnswerReturns
  <2>2. answers \in Seq(A) /\ Head(answers) \in A /\ answers' \in Seq(A)
    BY <2>1, HeadTailProperties DEF TypeInv, PopupOK
  <2>3. popup' \in [open : BOOLEAN, tab : Tabs, busy : BOOLEAN, attached : BOOLEAN, form : Options]
    <3>1. PICK seen \in SeenAttached(Head(answers).tab) :
            popup' = IF Head(answers).heard
                     THEN [popup EXCEPT !.form = Head(answers).options, !.attached = seen,
                                        !.busy = FALSE]
                     ELSE popup
      BY <1>3 DEF AnswerReturns
    <3>2. seen \in BOOLEAN
      BY DEF SeenAttached
    <3> QED
      BY <2>2, <3>1, <3>2 DEF TypeInv, PopupOK
  <2>4. OptionsOK'
    BY <2>1, OptionsStay DEF TypeInv, OptionsOK
  <2> QED
    BY <2>1, <2>2, <2>3, <2>4, AlikeItself DEF TypeInv, TasksOK, LoadingOK, PopupOK, SessionsOK, Quiet
<1>4. ASSUME NEW t \in Tabs, OnRemoved(t) PROVE TypeInv' /\ Quiet
  <2>1. UNCHANGED <<session, sessions, detaching, noticeVars, badge, stops, popup, tasks, loading,
                    stored, cachedOptions, queue, answers>> /\ attachedTabs' = Without(t)
    BY <1>4 DEF OnRemoved
  <2>2. OptionsOK'
    BY <2>1, OptionsStayAway DEF TypeInv, Without
  <2> QED
    BY <2>1, <2>2, AlikeItself DEF TypeInv, TasksOK, LoadingOK, PopupOK, SessionsOK, Quiet
<1>5. ASSUME NEW t \in Tabs, OpenPopup(t) PROVE TypeInv' /\ Quiet
  <2>1. popup' = Popup(TRUE, t) /\ Message("getStatus", null)
    BY <1>5 DEF OpenPopup
  <2>2. UNCHANGED <<session, sessions, detaching, noticeVars, badge, stops>>
    BY <2>1 DEF Message
  <2>3. popup' \in [open : BOOLEAN, tab : Tabs, busy : BOOLEAN, attached : BOOLEAN, form : Options]
    BY <2>1, OptionsKnown DEF Popup
  <2> QED
    BY <2>1, <2>2, <2>3, MessageOK DEF TypeInv, PopupOK, SessionsOK, Quiet
<1>6. ASSUME NEW t \in Tabs, NEW e \in PageEvents, OnEvent(t, e) PROVE TypeInv' /\ Quiet
  <2> DEFINE task == [kind |-> "event", at |-> "start", tab |-> t, event |-> e,
                      options |-> null, rules |-> stored]
  <2>1. PICK i \in 1..MaxTasks : FirstIdle(i) /\ LoadOptions(i, task)
    BY <1>6 DEF OnEvent
  <2>2. Asks(task) /\ task \notin NoticeTask
    BY DEF Asks, EventTask, NoticeTask, TypeInv, OptionsOK
  <2>3. UNCHANGED <<session, sessions, detaching, noticeVars, badge, stops, popup>>
    BY <1>6 DEF OnEvent
  <2> QED
    BY <2>1, <2>2, <2>3, Starts DEF TypeInv, PopupOK, SessionsOK, Quiet
<1>7. ASSUME NEW i \in 1..MaxTasks, EventTab(i) PROVE TypeInv' /\ Quiet
  <2>1. tasks[i].kind = "event" /\ tasks[i].at = "tab" /\ Becomes(i, Idle)
        /\ UNCHANGED <<session, sessions, detaching, noticeVars, badge, stops, popup, optionVars,
                       answers>>
    BY <1>7 DEF EventTab, At
  <2>2. ~MayLack(tasks[i]) /\ ~IsEnabling(tasks[i])
    BY <2>1 DEF MayLack, Idle, NoticeTask, IsEnabling
  <2>3. TasksOK' /\ LoadingOK' /\ OptionsOK'
    BY <2>1, <2>2, GoesOn DEF Idle
  <2>4. \A j \in 1..MaxTasks : Alike(tasks[j], tasks'[j])
    BY <2>1, <2>2, IdleIsPlain, PlainIsAlike, OneTaskAlike DEF TypeInv
  <2> QED
    BY <2>1, <2>3, <2>4 DEF TypeInv, PopupOK, SessionsOK, Quiet
<1>8. ASSUME NEW i \in 1..MaxTasks, Saved(i) PROVE TypeInv' /\ Quiet
  <2> DEFINE targets == [tasks[i] EXCEPT !.at = "targets", !.options = cachedOptions]
  <2>1. /\ tasks[i].kind \in {"save", "attach"} /\ tasks[i].at = "stored"
        /\ UNCHANGED <<session, sessions, detaching, noticeVars, badge, stops, popup, optionVars>>
    BY <1>8 DEF Saved, At
  <2>2. tasks[i] \in PopupTask
    BY <2>1 DEF TypeInv, TasksOK, Task, Idle, EventTask, NoticeTask
  <2>3. ~MayLack(tasks[i]) /\ ~IsEnabling(tasks[i])
    BY <2>1 DEF MayLack, Idle, NoticeTask, IsEnabling
  <2>4. cachedOptions \in Options
    BY <2>3, Loaded
  <2>5. PICK x \in {Idle, targets} : Becomes(i, x)
    BY <1>8 DEF Saved
  <2>6. answers' \in Seq([options : Options, tab : Tabs, heard : BOOLEAN])
    BY <1>8, <2>2, <2>4, AnswerOK DEF Saved, TypeInv, PopupOK
  <2>7. targets \in Task /\ targets.options \in Options /\ Plain(targets)
    BY <2>2, <2>4 DEF PopupTask, Task, Plain, IsDue, IsEnded, IsTelling, IsDetaching, IsEnabling, NoticeTask
  <2>8. TasksOK' /\ LoadingOK' /\ OptionsOK'
    BY <2>1, <2>3, <2>5, <2>7, GoesOn DEF Idle
  <2>9. \A j \in 1..MaxTasks : Alike(tasks[j], tasks'[j])
    BY <2>3, <2>5, <2>7, IdleIsPlain, PlainIsAlike, OneTaskAlike DEF TypeInv
  <2> QED
    BY <2>1, <2>6, <2>8, <2>9 DEF TypeInv, PopupOK, SessionsOK, Quiet
<1>9. ASSUME NEW i \in 1..MaxTasks, AttachTargets(i) PROVE TypeInv' /\ Quiet
  <2> DEFINE enable == [tasks[i] EXCEPT !.at = "enable"]
             attach == [tasks[i] EXCEPT !.at = "attach"]
  <2>1. /\ tasks[i].kind = "attach" /\ tasks[i].at = "targets"
        /\ UNCHANGED <<session, sessions, detaching, noticeVars, badge, stops, optionVars, answers>>
    BY <1>9 DEF AttachTargets, At
  <2>2. tasks[i] \in PopupTask /\ tasks[i].options \in Options
    BY <2>1 DEF TypeInv, TasksOK, Task, Idle, EventTask, NoticeTask
  <2>3. ~MayLack(tasks[i]) /\ ~IsEnabling(tasks[i])
    BY <2>1 DEF MayLack, Idle, NoticeTask, IsEnabling
  <2>4. PICK x \in {Idle, enable, attach} : Becomes(i, x)
    BY <1>9 DEF AttachTargets
  <2>5. popup' \in {popup, [popup EXCEPT !.busy = FALSE]}
    BY <1>9 DEF AttachTargets, Fails
  <2>6. /\ enable \in Task /\ attach \in Task
        /\ enable.options \in Options /\ attach.options \in Options
        /\ Alike(tasks[i], enable) /\ Alike(tasks[i], attach)
    BY <2>1, <2>2, <2>3
       DEF PopupTask, Task, Alike, IsDue, IsEnded, IsTelling, IsDetaching, IsEnabling, NoticeTask
  <2>7. TasksOK' /\ LoadingOK' /\ OptionsOK'
    BY <2>1, <2>3, <2>4, <2>6, GoesOn DEF Idle
  <2>8. \A j \in 1..MaxTasks : Alike(tasks[j], tasks'[j])
    BY <2>3, <2>4, <2>6, IdleIsPlain, PlainIsAlike, OneTaskAlike DEF TypeInv
  <2>9. PopupOK'
    BY <2>1, <2>5 DEF TypeInv, PopupOK
  <2> QED
    BY <2>1, <2>7, <2>8, <2>9 DEF TypeInv, SessionsOK, Quiet
<1>10. ASSUME NEW i \in 1..MaxTasks, Lit(i) PROVE TypeInv' /\ Quiet
  <2>1. /\ tasks[i].kind = "attach" /\ tasks[i].at = "badge" /\ Becomes(i, Idle)
        /\ UNCHANGED <<session, sessions, detaching, noticeVars, badge, stops, popup, optionVars>>
    BY <1>10 DEF Lit, At
  <2>2. tasks[i] \in PopupTask
    BY <2>1 DEF TypeInv, TasksOK, Task, Idle, EventTask, NoticeTask
  <2>3. ~MayLack(tasks[i]) /\ ~IsEnabling(tasks[i])
    BY <2>1 DEF MayLack, Idle, NoticeTask, IsEnabling
  <2>4. answers' \in Seq([options : Options, tab : Tabs, heard : BOOLEAN])
    BY <1>10, <2>2, <2>3, Loaded, AnswerOK DEF Lit
  <2>5. TasksOK' /\ LoadingOK' /\ OptionsOK'
    BY <2>1, <2>3, GoesOn DEF Idle
  <2>6. \A j \in 1..MaxTasks : Alike(tasks[j], tasks'[j])
    BY <2>1, <2>3, IdleIsPlain, PlainIsAlike, OneTaskAlike DEF TypeInv
  <2> QED
    BY <2>1, <2>4, <2>5, <2>6 DEF TypeInv, PopupOK, SessionsOK, Quiet
<1>11. ASSUME NEW batch \in flights, PostReturns(batch) PROVE TypeInv' /\ Quiet
  <2>1. UNCHANGED <<session, sessions, detaching, noticeVars, badge, stops, popup, tasks, loading,
                    stored, cachedOptions, attachedTabs, answers>> /\ queue' = Rest(queue)
    BY <1>11 DEF PostReturns
  <2>2. OptionsOK'
    BY <2>1, OptionsStayAway, RestOfNothing DEF TypeInv
  <2> QED
    BY <2>1, <2>2, AlikeItself DEF TypeInv, TasksOK, LoadingOK, PopupOK, SessionsOK, Quiet
<1>12. CASE ClosePopup
  <2>1. Unheard /\ UNCHANGED <<session, sessions, detaching, noticeVars, badge, stops, loading,
                               stored, cachedOptions, attachedTabs, queue>>
    BY <1>12 DEF ClosePopup
  <2>2. LoadingOK' /\ OptionsOK'
    BY <2>1, UnheardOK, LoadingKept, OptionsStayAway DEF TypeInv
  <2> QED
    BY <2>1, <2>2, UnheardOK DEF TypeInv, SessionsOK, Quiet
<1>13. ASSUME NEW kind \in {"save", "attach", "detach"}, NEW o \in Options \cup {null},
              kind \in {"save", "attach"} => o \in Options, Message(kind, o), PopupOK'
              \/ popup' \in [open : BOOLEAN, tab : Tabs, busy : BOOLEAN, attached : BOOLEAN,
                             form : Options]
       PROVE  TypeInv' /\ Quiet
  <2>1. UNCHANGED <<session, sessions, detaching, noticeVars, badge, stops>>
    BY <1>13 DEF Message
  <2> QED
    BY <1>13, <2>1, MessageOK DEF TypeInv, PopupOK, SessionsOK, Quiet
<1>14. CASE ClickAttach
  BY <1>13, <1>14 DEF ClickAttach, TypeInv, PopupOK
<1>15. CASE ClickDetach
  BY <1>13, <1>15 DEF ClickDetach, TypeInv, PopupOK
<1>16. ASSUME NEW o \in Range(OptionSets), ChangeInput(o) PROVE TypeInv' /\ Quiet
  BY <1>13, <1>16 DEF ChangeInput, TypeInv, PopupOK, Options
<1> QED
  BY <1>1, <1>2, <1>3, <1>4, <1>5, <1>6, <1>7, <1>8, <1>9, <1>10, <1>11, <1>12, <1>14, <1>15, <1>16
     DEF QuietStep
-----------------------------------------------------------------------------
(* The steps that concern a session or the badge keep the types.           *)
LoudStep ==
  \/ \E t \in Tabs : OnDetach(t) \/ WindowEnds(t) \/ EndSession(t) \/ CloseTab(t)
  \/ \E i \in 1..MaxTasks :
       \/ PublishDetach(i) \/ NoticeTab(i) \/ Attached(i) \/ Enabled(i) \/ DetachTargets(i)
       \/ BrowserDetaches(i) \/ DetachFails(i) \/ Detached(i)
  \/ WorkerStops

LEMMA NextCases == Next => QuietStep \/ LoudStep
BY Zenon DEF Next, Worker, User, Browser, QuietStep, LoudStep

(* A handler of the popup.                                                 *)
LEMMA IsOfPopup ==
  ASSUME TasksOK, NEW i \in 1..MaxTasks, tasks[i].kind \in {"save", "attach", "detach"}
  PROVE  /\ tasks[i] \in PopupTask /\ tasks[i] \notin NoticeTask
         /\ tasks[i].at # "options" => ~MayLack(tasks[i])
BY DEF TasksOK, Task, Idle, EventTask, NoticeTask, PopupTask, MayLack

LEMMA IsNotice ==
  ASSUME TasksOK, NEW i \in 1..MaxTasks, tasks[i].kind = "notice"
  PROVE  /\ tasks[i] \in NoticeTask /\ tasks[i] \notin PopupTask
         /\ tasks[i].at = "tab" => ~MayLack(tasks[i])
BY DEF TasksOK, Task, Idle, EventTask, NoticeTask, PopupTask, MayLack

LEMMA NoticeOK ==
  ASSUME TypeInv, NEW task \in Task, task.session \in Nat, task.reason \in Reasons, Notice(task)
  PROVE  /\ notices' \in Seq([session : Nat, reason : Reasons, life : Nat])
         /\ notices' = Append(notices, [session |-> task.session, reason |-> task.reason,
                                        life |-> stops])
BY DEF TypeInv, SessionsOK, Notice

(* A session ends, and the browser may raise onDetach for it.              *)
LEMMA SessionEnds ==
  ASSUME SessionsOK, NEW t \in Tabs, NEW r \in Reasons, session' = [session EXCEPT ![t] = 0],
         detaching' \in {detaching, [detaching EXCEPT ![t] = [session |-> session[t],
                                                             reason |-> r]]},
         UNCHANGED <<sessions, stops, notices, overrides, recent>>
  PROVE  SessionsOK'
<1> DEFINE D == [session : Nat, reason : Reasons]
           d == [session |-> session[t], reason |-> r]
<1>1. session \in [Tabs -> Nat] /\ detaching \in [Tabs -> D]
  BY DEF SessionsOK
<1>2. session[t] \in Nat
  BY <1>1
<1>3. session' \in [Tabs -> Nat] /\ d \in D
  BY <1>1, <1>2
<1>4. [detaching EXCEPT ![t] = d] \in [Tabs -> D]
  BY <1>1, <1>3
<1>5. detaching' \in [Tabs -> D]
  BY <1>1, <1>4
<1> QED
  BY <1>3, <1>5 DEF SessionsOK

LEMMA LoudAndTyped ==
  ASSUME TypeInv, LoudStep
  PROVE  TypeInv'
<1> USE DEF browserVars, optionVars, queueVars, bounds, noticeVars
<1>0. TasksOK /\ LoadingOK /\ OptionsOK /\ PopupOK /\ SessionsOK
  BY DEF TypeInv
<1>1. ASSUME NEW t \in Tabs, OnDetach(t) PROVE TypeInv'
  <2> DEFINE task == [kind |-> "notice", at |-> "badge", tab |-> t,
                      known |-> t \in DOMAIN attachedTabs, session |-> detaching[t].session,
                      reason |-> IF t \in overrides THEN "popup_detach" ELSE detaching[t].reason]
  <2>1. PICK i \in 1..MaxTasks : FirstIdle(i) /\ Becomes(i, task)
    BY <1>1 DEF OnDetach
  <2>2. detaching[t] \in [session : Nat, reason : Reasons]
    BY <1>0 DEF SessionsOK
  <2>3. task \in NoticeTask /\ task \in Task /\ task.kind = "notice" /\ MayLack(task)
    BY <2>2 DEF NoticeTask, Task, Reasons, MayLack
  <2>4. tasks[i] = Idle
    BY <2>1 DEF FirstIdle
  <2>5. UNCHANGED <<loading, stored, cachedOptions, queue, answers, popup, session, sessions, stops,
                    recent, notices>>
        /\ attachedTabs' = Without(t) /\ overrides' = overrides \ {t}
        /\ detaching' = [detaching EXCEPT ![t] = None]
    BY <1>1 DEF OnDetach
  <2>6. TasksOK' /\ LoadingOK'
    BY <1>0, <2>1, <2>3, <2>4, <2>5, OneTask, OneTaskLoading
  <2>7. \A j \in 1..MaxTasks : MayLack(tasks[j]) => MayLack(tasks'[j])
    BY <1>0, <2>1, <2>3, OneTask
  <2>8. OptionsOK'
    BY <1>0, <2>5, <2>7, OptionsStayAway DEF Without
  <2>9. detaching' \in [Tabs -> [session : Nat, reason : Reasons]]
    BY <1>0, <2>5 DEF SessionsOK, None, Reasons
  <2> QED
    BY <1>0, <2>5, <2>6, <2>8, <2>9 DEF TypeInv, PopupOK, SessionsOK
<1>2. ASSUME NEW t \in Tabs, WindowEnds(t) PROVE TypeInv'
  BY <1>0, <1>2 DEF WindowEnds, workerVars, TypeInv, TasksOK, LoadingOK, OptionsOK, PopupOK, SessionsOK
<1>3. ASSUME NEW t \in Tabs, EndSession(t) PROVE TypeInv'
  <2>1. /\ detaching' = [detaching EXCEPT ![t] = [session |-> session[t],
                                                 reason |-> "canceled_by_user"]]
        /\ session' = [session EXCEPT ![t] = 0]
        /\ UNCHANGED <<sessions, workerVars, noticeVars, popup, bounds>>
    BY <1>3 DEF EndSession
  <2>2. SessionsOK'
    BY <1>0, <2>1, SessionEnds DEF Reasons
  <2> QED
    BY <1>0, <2>1, <2>2 DEF workerVars, TypeInv, TasksOK, LoadingOK, OptionsOK, PopupOK
<1>4. ASSUME NEW t \in Tabs, CloseTab(t) PROVE TypeInv'
  <2>1. /\ detaching' \in {detaching, [detaching EXCEPT ![t] = [session |-> session[t],
                                                               reason |-> "target_closed"]]}
        /\ session' = [session EXCEPT ![t] = 0]
        /\ UNCHANGED <<sessions, attachedTabs, optionVars, queueVars, noticeVars, bounds>>
        /\ Unheard \/ UNCHANGED <<popup, tasks, answers>>
    BY <1>4 DEF CloseTab
  <2>2. SessionsOK'
    BY <1>0, <2>1, SessionEnds DEF Reasons
  <2>3. CASE Unheard
    <3>1. LoadingOK' /\ OptionsOK'
      BY <1>0, <2>1, <2>3, UnheardOK, LoadingKept, OptionsStayAway
    <3> QED
      BY <2>2, <2>3, <3>1, UnheardOK DEF TypeInv
  <2>4. CASE UNCHANGED <<popup, tasks, answers>>
    BY <1>0, <2>1, <2>2, <2>4 DEF TypeInv, TasksOK, LoadingOK, OptionsOK, PopupOK
  <2> QED
    BY <2>1, <2>3, <2>4
<1>5. ASSUME NEW i \in 1..MaxTasks, PublishDetach(i) PROVE TypeInv'
  <2>1. tasks[i] \in NoticeTask /\ tasks[i].at = "badge" /\ tasks[i] \in Task /\ Asks(tasks[i])
    BY <1>0, <1>5, IsNotice DEF PublishDetach, At, Task, Asks, NoticeTask
  <2>2. tasks[i].tab \in Tabs /\ tasks[i].session \in Nat /\ tasks[i].reason \in Reasons
    BY <2>1 DEF NoticeTask
  <2>3. /\ UNCHANGED <<session, sessions, detaching, stops, overrides, popup>>
        /\ recent' \subseteq recent \cup {tasks[i].tab}
    BY <1>5 DEF PublishDetach
  <2>4. CASE Becomes(i, Idle) /\ UNCHANGED <<attachedTabs, optionVars, answers>>
             /\ (queue = <<>> => queue' = <<>>)
    <3>1. TasksOK' /\ LoadingOK'
      BY <1>0, <2>1, <2>4, OneTask, OneTaskLoading DEF Idle
    <3>2. \A j \in 1..MaxTasks : MayLack(tasks[j]) => MayLack(tasks'[j])
      BY <1>0, <2>4, OneTask DEF MayLack, Idle
    <3>3. OptionsOK'
      BY <1>0, <2>4, <3>2, OptionsStayAway
    <3>4. notices' \in Seq([session : Nat, reason : Reasons, life : Nat])
      BY <1>0, <1>5, <2>1, <2>2, NoticeOK DEF PublishDetach, SessionsOK, LoadOptions
    <3> QED
      BY <1>0, <2>2, <2>3, <2>4, <3>1, <3>3, <3>4 DEF TypeInv, PopupOK, SessionsOK
  <2>5. CASE LoadOptions(i, tasks[i]) /\ UNCHANGED notices
    <3> DEFINE waits == [tasks[i] EXCEPT !.at = "options"]
    <3>1. waits \in Task /\ MayLack(waits)
      BY <2>1 DEF NoticeTask, Task, MayLack
    <3>2. OptionsOK'
      <4>1. CASE cachedOptions' = null
        <5>1. Becomes(i, waits) /\ UNCHANGED <<cachedOptions, attachedTabs, queue, answers>>
              /\ stored' \in Options
          BY <2>1, <2>5, <4>1, LoadOptionsGoesOn
        <5>2. \A j \in 1..MaxTasks : MayLack(tasks[j]) => MayLack(tasks'[j])
          BY <1>0, <3>1, <5>1 DEF Becomes, TasksOK
        <5> QED
          BY <1>0, <4>1, <5>1, <5>2 DEF OptionsOK
      <4> QED
        BY <2>1, <2>5, <4>1, LoadOptionsGoesOn DEF OptionsOK
    <3> QED
      BY <1>0, <2>1, <2>2, <2>3, <2>5, <3>2, LoadOptionsGoesOn DEF TypeInv, PopupOK, SessionsOK
  <2>6. (Notice(tasks[i]) /\ queue = <<>>) => queue' = <<>>
    BY BrowserTapAssumption DEF Notice, Enqueue, Rest, SmallerOf
  <2> QED
    BY <1>5, <2>4, <2>5, <2>6 DEF PublishDetach
<1>6. ASSUME NEW i \in 1..MaxTasks, NoticeTab(i) PROVE TypeInv'
  <2>1. tasks[i] \in NoticeTask /\ ~MayLack(tasks[i]) /\ tasks[i] \in Task
    BY <1>0, <1>6, IsNotice DEF NoticeTab, At, Task
  <2>2. /\ Becomes(i, Idle) /\ Notice(tasks[i])
        /\ UNCHANGED <<session, sessions, detaching, stops, overrides, recent, popup, optionVars,
                       answers>>
    BY <1>6 DEF NoticeTab
  <2>3. TasksOK' /\ LoadingOK' /\ OptionsOK'
    BY <2>1, <2>2, GoesOn DEF Idle
  <2>4. notices' \in Seq([session : Nat, reason : Reasons, life : Nat])
    BY <2>1, <2>2, NoticeOK DEF NoticeTask
  <2> QED
    BY <1>0, <2>2, <2>3, <2>4 DEF TypeInv, PopupOK, SessionsOK
<1>7. ASSUME NEW i \in 1..MaxTasks, Attached(i) PROVE TypeInv'
  <2> DEFINE enable == [tasks[i] EXCEPT !.at = "enable"]
  <2>1. tasks[i] \in PopupTask /\ ~MayLack(tasks[i]) /\ tasks[i].options \in Options
    BY <1>0, <1>7, IsOfPopup DEF Attached, At, TasksOK
  <2>2. /\ \E x \in {Idle, enable} : Becomes(i, x)
        /\ popup' \in {popup, [popup EXCEPT !.busy = FALSE]}
        /\ \/ UNCHANGED <<session, sessions>>
           \/ sessions' = sessions + 1 /\ session' = [session EXCEPT ![tasks[i].tab] = sessions + 1]
        /\ UNCHANGED <<detaching, stops, noticeVars, optionVars, answers>>
    BY <1>7 DEF Attached, Fails
  <2>3. enable \in Task /\ enable.options \in Options
    BY <2>1 DEF PopupTask, Task
  <2>4. TasksOK' /\ LoadingOK' /\ OptionsOK'
    BY <2>1, <2>2, <2>3, GoesOn DEF Idle
  <2>5. session' \in [Tabs -> Nat] /\ sessions' \in Nat
    <3>1. session \in [Tabs -> Nat] /\ sessions \in Nat
      BY <1>0 DEF SessionsOK
    <3>2. [session EXCEPT ![tasks[i].tab] = sessions + 1] \in [Tabs -> Nat]
      <4>1. sessions + 1 \in Nat
        BY <3>1
      <4>2. \A t, n : n \in Nat => [session EXCEPT ![t] = n] \in [Tabs -> Nat]
        BY <3>1
      <4> QED
        BY <4>1, <4>2
    <3>3. CASE UNCHANGED <<session, sessions>>
      BY <3>1, <3>3
    <3>4. CASE sessions' = sessions + 1 /\ session' = [session EXCEPT ![tasks[i].tab] = sessions + 1]
      BY <3>1, <3>2, <3>4
    <3> QED
      BY <2>2, <3>3, <3>4
  <2>6. SessionsOK'
    BY <1>0, <2>2, <2>5 DEF SessionsOK
  <2>7. PopupOK'
    BY <1>0, <2>2 DEF PopupOK
  <2> QED
    BY <2>4, <2>6, <2>7 DEF TypeInv
<1>8. ASSUME NEW i \in 1..MaxTasks, Enabled(i) PROVE TypeInv'
  <2> DEFINE lights == [tasks[i] EXCEPT !.at = "badge"]
  <2>1. tasks[i] \in PopupTask /\ ~MayLack(tasks[i]) /\ tasks[i].options \in Options
    BY <1>0, <1>8, IsOfPopup DEF Enabled, At, TasksOK
  <2>2. /\ Becomes(i, lights)
        /\ UNCHANGED <<session, sessions, detaching, stops, noticeVars, popup, optionVars, answers>>
    BY <1>8 DEF Enabled
  <2>3. lights \in Task /\ lights.options \in Options
    BY <2>1 DEF PopupTask, Task
  <2>4. TasksOK' /\ LoadingOK' /\ OptionsOK'
    BY <2>1, <2>2, <2>3, GoesOn
  <2> QED
    BY <1>0, <2>2, <2>4 DEF TypeInv, PopupOK, SessionsOK
<1>9. ASSUME NEW i \in 1..MaxTasks, DetachTargets(i) PROVE TypeInv'
  <2> DEFINE detach == [tasks[i] EXCEPT !.at = "detach"]
  <2>1. tasks[i] \in PopupTask /\ ~MayLack(tasks[i]) /\ tasks[i].kind = "detach"
    BY <1>0, <1>9, IsOfPopup DEF DetachTargets, At
  <2>2. /\ \E x \in {Idle, detach} : Becomes(i, x)
        /\ overrides' \in {overrides, overrides \cup {tasks[i].tab}}
        /\ answers' = answers \/ Answer(tasks[i])
        /\ UNCHANGED <<session, sessions, detaching, stops, recent, notices, popup, optionVars>>
    BY <1>9 DEF DetachTargets, Forget
  <2>3. detach \in Task /\ detach.kind = "detach" /\ tasks[i].tab \in Tabs
    BY <2>1 DEF PopupTask, Task
  <2>4. TasksOK' /\ LoadingOK' /\ OptionsOK'
    BY <2>1, <2>2, <2>3, GoesOn DEF Idle
  <2>5. PopupOK'
    BY <1>0, <2>1, <2>2, Loaded, AnswerOK DEF PopupOK
  <2> QED
    BY <1>0, <2>2, <2>3, <2>4, <2>5 DEF TypeInv, SessionsOK
<1>10. ASSUME NEW i \in 1..MaxTasks, BrowserDetaches(i) PROVE TypeInv'
  <2> DEFINE t == tasks[i].tab
             ended == [tasks[i] EXCEPT !.at = "ended", !.session = session[t]]
  <2>1. tasks[i] \in PopupTask /\ ~MayLack(tasks[i]) /\ tasks[i].kind = "detach"
    BY <1>0, <1>10, IsOfPopup DEF BrowserDetaches, At
  <2>2. /\ Becomes(i, ended) /\ session' = [session EXCEPT ![t] = 0]
        /\ detaching' \in {detaching, [detaching EXCEPT ![t] =
                                        [session |-> session[t], reason |-> "own"]]}
        /\ UNCHANGED <<sessions, stops, noticeVars, popup, optionVars, answers>>
    BY <1>10 DEF BrowserDetaches
  <2>3. t \in Tabs /\ session[t] \in Nat
    BY <1>0, <2>1 DEF PopupTask, SessionsOK
  <2>4. ended \in Task /\ ended.kind = "detach"
    BY <2>1, <2>3 DEF PopupTask, Task
  <2>5. TasksOK' /\ LoadingOK' /\ OptionsOK'
    BY <2>1, <2>2, <2>4, GoesOn
  <2>6. SessionsOK'
    BY <1>0, <2>2, <2>3, SessionEnds DEF Reasons
  <2> QED
    BY <1>0, <2>2, <2>5, <2>6 DEF TypeInv, PopupOK
<1>11. ASSUME NEW i \in 1..MaxTasks, DetachFails(i) PROVE TypeInv'
  <2>1. tasks[i] \in PopupTask /\ ~MayLack(tasks[i])
    BY <1>0, <1>11, IsOfPopup DEF DetachFails, At
  <2>2. /\ Becomes(i, Idle) /\ overrides' = overrides \ {tasks[i].tab}
        /\ popup' \in {popup, [popup EXCEPT !.busy = FALSE]}
        /\ UNCHANGED <<session, sessions, detaching, stops, recent, notices, optionVars, answers>>
    BY <1>11 DEF DetachFails, Fails
  <2>3. TasksOK' /\ LoadingOK' /\ OptionsOK'
    BY <2>1, <2>2, GoesOn DEF Idle
  <2>4. PopupOK'
    BY <1>0, <2>2 DEF PopupOK
  <2> QED
    BY <1>0, <2>2, <2>3, <2>4 DEF TypeInv, SessionsOK
<1>12. ASSUME NEW i \in 1..MaxTasks, Detached(i) PROVE TypeInv'
  <2>1. tasks[i] \in PopupTask /\ ~MayLack(tasks[i]) /\ tasks[i] \in Task
    BY <1>0, <1>12, IsOfPopup DEF Detached, At, Task
  <2>2. /\ Becomes(i, Idle) /\ overrides' = overrides \ {tasks[i].tab}
        /\ recent' \subseteq recent \cup {tasks[i].tab}
        /\ Answer(tasks[i])
        /\ notices' = notices \/ Notice(tasks[i])
        /\ UNCHANGED <<session, sessions, detaching, stops, popup, optionVars>>
    BY <1>12 DEF Detached, Forget
  <2>3. tasks[i].tab \in Tabs /\ tasks[i].session \in Nat /\ tasks[i].reason \in Reasons
    BY <2>1 DEF PopupTask, Reasons
  <2>4. TasksOK' /\ LoadingOK' /\ OptionsOK'
    BY <2>1, <2>2, GoesOn DEF Idle
  <2>5. notices' \in Seq([session : Nat, reason : Reasons, life : Nat])
    BY <1>0, <2>1, <2>2, <2>3, NoticeOK DEF SessionsOK
  <2>6. PopupOK'
    BY <1>0, <2>1, <2>2, Loaded, AnswerOK DEF PopupOK
  <2> QED
    BY <1>0, <2>2, <2>3, <2>4, <2>5, <2>6 DEF TypeInv, SessionsOK
<1>13. CASE WorkerStops
  <2>1. /\ tasks' = [i \in 1..MaxTasks |-> Idle] /\ loading' = <<>> /\ answers' = <<>>
        /\ attachedTabs' = <<>> /\ queue' = <<>> /\ cachedOptions' = null
        /\ overrides' = {} /\ recent' = {} /\ stops' = stops + 1
        /\ popup' = [popup EXCEPT !.busy = FALSE]
        /\ UNCHANGED <<session, sessions, detaching, notices, stored>>
    BY <1>13 DEF WorkerStops
  <2>2. TasksOK' /\ LoadingOK'
    BY <2>1 DEF TasksOK, LoadingOK, Idle
  <2>3. OptionsOK'
    BY <1>0, <2>1 DEF OptionsOK, MayLack
  <2>4. PopupOK'
    <3>1. popup' \in [open : BOOLEAN, tab : Tabs, busy : BOOLEAN, attached : BOOLEAN, form : Options]
      BY <1>0, <2>1 DEF PopupOK
    <3>2. <<>> \in Seq([options : Options, tab : Tabs, heard : BOOLEAN])
      OBVIOUS
    <3> QED
      BY <2>1, <3>1, <3>2 DEF PopupOK
  <2> QED
    BY <1>0, <2>1, <2>2, <2>3, <2>4 DEF TypeInv, SessionsOK
<1> QED
  BY <1>1, <1>2, <1>3, <1>4, <1>5, <1>6, <1>7, <1>8, <1>9, <1>10, <1>11, <1>12, <1>13 DEF LoudStep
-----------------------------------------------------------------------------
(* Types, who waits for the storage, and that a handler past loadOptions   *)
(* finds the options loaded.                                               *)
THEOREM TypeCorrect == Spec => []TypeInv
<1>1. TypeInv /\ [Next]_vars => TypeInv'
  <2> SUFFICES ASSUME TypeInv, [Next]_vars PROVE TypeInv'
    OBVIOUS
  <2>1. CASE Next
    BY <2>1, NextCases, QuietAndTyped, LoudAndTyped
  <2>2. CASE UNCHANGED vars
    BY <2>2 DEF vars, browserVars, workerVars, optionVars, queueVars, noticeVars, bounds,
                TypeInv, TasksOK, LoadingOK, OptionsOK, PopupOK, SessionsOK
  <2> QED
    BY <2>1, <2>2
<1> QED
  BY <1>1, InitTypes, PTL DEF Spec
-----------------------------------------------------------------------------
(* The queue is shorter than a batch and has a timer that will flush it.   *)
QueueInv ==
  /\ (\E S : queue \in Seq(S)) /\ Len(queue) < FlushBatch
  /\ flushTimer \in BOOLEAN /\ armed \in BOOLEAN
  /\ queue # <<>> => flushTimer
  /\ flushTimer => armed

Enqueues == \E record : \E flush \in BOOLEAN : Enqueue(record, flush)

QueueStep ==
  \/ UNCHANGED <<queue, flushTimer, armed>>
  \/ Enqueues
  \/ queue' = Rest(queue) /\ UNCHANGED <<flushTimer, armed>>
  \/ queue' = Rest(queue) /\ flushTimer' = FALSE /\ armed' = FALSE
  \/ queue' = <<>> /\ flushTimer' = FALSE /\ armed' = FALSE

(* A flush leaves nothing of a queue that has at most one batch.           *)
LEMMA FlushEmpties ==
  ASSUME NEW S, NEW q \in Seq(S), Len(q) <= FlushBatch
  PROVE  Rest(q) = <<>>
<1>1. Len(q) \in Nat /\ SmallerOf(Len(q), FlushBatch) = Len(q)
  BY BrowserTapAssumption DEF SmallerOf
<1>2. Rest(q) = SubSeq(q, Len(q) + 1, Len(q))
  BY <1>1 DEF Rest
<1>3. Rest(q) \in Seq(S) /\ Len(Rest(q)) = 0
  BY <1>1, <1>2
<1> QED
  BY <1>3, EmptySeq

LEMMA QueueKeeps ==
  ASSUME QueueInv, QueueStep
  PROVE  QueueInv'
<1>1. PICK S : queue \in Seq(S)
  BY DEF QueueInv
<1>2. Len(queue) \in Nat /\ Len(queue) < FlushBatch /\ FlushBatch \in Nat
  BY <1>1, BrowserTapAssumption DEF QueueInv
<1>3. Rest(queue) = <<>>
  BY <1>1, <1>2, FlushEmpties
<1>4. <<>> \in Seq(S) /\ Len(<<>>) = 0 /\ 0 < FlushBatch
  BY <1>2
<1>5. CASE UNCHANGED <<queue, flushTimer, armed>>
  BY <1>5 DEF QueueInv
<1>6. CASE queue' = <<>> /\ (UNCHANGED <<flushTimer, armed>> \/ (flushTimer' = FALSE /\ armed' = FALSE))
  <2>1. queue' \in Seq(S) /\ Len(queue') = 0 /\ Len(queue') < FlushBatch
    BY <1>4, <1>6
  <2>2. flushTimer' \in BOOLEAN /\ armed' \in BOOLEAN /\ (flushTimer' => armed')
    <3>1. CASE UNCHANGED <<flushTimer, armed>>
      BY <3>1 DEF QueueInv
    <3>2. CASE flushTimer' = FALSE /\ armed' = FALSE
      BY <3>2
    <3> QED
      BY <1>6, <3>1, <3>2
  <2> QED
    BY <1>6, <2>1, <2>2 DEF QueueInv
<1>7. ASSUME NEW record, NEW flush \in BOOLEAN, Enqueue(record, flush) PROVE QueueInv'
  <2> DEFINE q == Append(queue, record)
             full == Len(q) >= FlushBatch
  <2>1. q \in Seq(S \cup {record}) /\ Len(q) = Len(queue) + 1
    <3>1. queue \in Seq(S \cup {record})
      BY <1>1
    <3> QED
      BY <3>1
  <2>2. Rest(q) = <<>>
    <3> HIDE DEF q
    <3>1. q \in Seq(S \cup {record}) /\ Len(q) <= FlushBatch
      BY <1>2, <2>1
    <3> QED
      BY <3>1, FlushEmpties
  <2>3. full \in BOOLEAN
    BY <1>2, <2>1
  <2>4. /\ queue' = IF flush \/ full THEN Rest(q) ELSE q
        /\ flushTimer' = (flushTimer \/ ~full)
        /\ armed' = (armed \/ (~full /\ ~flushTimer))
    BY <1>7 DEF Enqueue
  <2>5. /\ flushTimer' \in BOOLEAN /\ armed' \in BOOLEAN
        /\ flushTimer' => armed'
        /\ ~full => flushTimer'
    BY <2>4 DEF QueueInv
  <2>6. CASE flush \/ full
    BY <1>4, <2>2, <2>4, <2>5, <2>6 DEF QueueInv
  <2>7. CASE ~(flush \/ full)
    BY <1>2, <2>1, <2>4, <2>5, <2>7 DEF QueueInv
  <2> QED
    BY <2>6, <2>7
<1> QED
  BY <1>3, <1>5, <1>6, <1>7 DEF QueueStep, Enqueues

(* Each step queues, flushes, or leaves the queue alone.                   *)
LEMMA HasOptionsQueue ==
  ASSUME NEW i, NEW task, NEW o, HasOptions(i, task, o)
  PROVE  UNCHANGED <<queue, flushTimer, armed>> \/ Enqueues
BY DEF HasOptions, HandleEvent, Enqueues, queueVars

LEMMA LoadOptionsQueue ==
  ASSUME NEW i, NEW task, LoadOptions(i, task)
  PROVE  UNCHANGED <<queue, flushTimer, armed>> \/ Enqueues
BY HasOptionsQueue DEF LoadOptions, queueVars

LEMMA MessageQueue ==
  ASSUME NEW kind, NEW o, Message(kind, o)
  PROVE  UNCHANGED <<queue, flushTimer, armed>> \/ Enqueues
BY LoadOptionsQueue DEF Message, queueVars

LEMMA QueueSteps ==
  ASSUME Next
  PROVE  QueueStep
<1> USE DEF QueueStep, queueVars
<1>1. CASE OptionsLoaded
  BY <1>1, HasOptionsQueue DEF OptionsLoaded
<1>2. CASE TimerFires
  BY <1>2 DEF TimerFires
<1>3. CASE AnswerReturns
  BY <1>3 DEF AnswerReturns
<1>4. ASSUME NEW t \in Tabs, OnRemoved(t) \/ OnDetach(t) \/ WindowEnds(t) \/ EndSession(t)
                             \/ CloseTab(t)
      PROVE  QueueStep
  BY <1>4 DEF OnRemoved, OnDetach, WindowEnds, EndSession, CloseTab, workerVars
<1>5. ASSUME NEW i \in 1..MaxTasks,
             Saved(i) \/ AttachTargets(i) \/ Attached(i) \/ Enabled(i) \/ DetachTargets(i)
             \/ BrowserDetaches(i) \/ DetachFails(i)
      PROVE  QueueStep
  BY <1>5 DEF Saved, AttachTargets, Attached, Enabled, DetachTargets, BrowserDetaches, DetachFails
<1>6. ASSUME NEW i \in 1..MaxTasks, EventTab(i) PROVE QueueStep
  BY <1>6 DEF EventTab, HandleEvent, Enqueues
<1>7. ASSUME NEW i \in 1..MaxTasks, PublishDetach(i) \/ NoticeTab(i) \/ Detached(i)
      PROVE  QueueStep
  <2>1. ASSUME Notice(tasks[i]) PROVE Enqueues
    BY <2>1 DEF Notice, Enqueues
  <2> QED
    BY <1>7, <2>1, LoadOptionsQueue DEF PublishDetach, NoticeTab, Detached
<1>8. ASSUME NEW i \in 1..MaxTasks, Lit(i) PROVE QueueStep
  BY <1>8 DEF Lit, Enqueues
<1>9. ASSUME NEW batch \in flights, PostReturns(batch) PROVE QueueStep
  BY <1>9 DEF PostReturns
<1>10. ASSUME NEW t \in Tabs, OpenPopup(t) PROVE QueueStep
  BY <1>10, MessageQueue DEF OpenPopup
<1>11. CASE ClosePopup
  BY <1>11 DEF ClosePopup
<1>12. CASE ClickAttach \/ ClickDetach
  BY <1>12, MessageQueue DEF ClickAttach, ClickDetach
<1>13. ASSUME NEW o \in Range(OptionSets), ChangeInput(o) PROVE QueueStep
  BY <1>13, MessageQueue DEF ChangeInput
<1>14. ASSUME NEW t \in Tabs, NEW e \in PageEvents, OnEvent(t, e) PROVE QueueStep
  BY <1>14, LoadOptionsQueue DEF OnEvent
<1>15. CASE WorkerStops
  BY <1>15 DEF WorkerStops
<1> QED
  BY <1>1, <1>2, <1>3, <1>4, <1>5, <1>6, <1>7, <1>8, <1>9, <1>10, <1>11, <1>12, <1>13, <1>14, <1>15
     DEF Next, Worker, User, Browser

(* What waits in the queue is flushed before it is a batch, by a timer     *)
(* that runs, and finds the options loaded (enqueueRecord, flushQueue).    *)
THEOREM Kept == Spec => []QueueKept
<1>1. Init => QueueInv
  <2>1. <<>> \in Seq({}) /\ Len(<<>>) = 0 /\ 0 < FlushBatch
    BY BrowserTapAssumption
  <2> QED
    BY <2>1 DEF Init, QueueInv
<1>2. QueueInv /\ [Next]_vars => QueueInv'
  BY QueueKeeps, QueueSteps DEF vars, workerVars, queueVars, QueueStep
<1>3. QueueInv /\ TypeInv => QueueKept
  BY DEF QueueInv, TypeInv, OptionsOK, QueueKept
<1> QED
  BY <1>1, <1>2, <1>3, TypeCorrect, PTL DEF Spec
-----------------------------------------------------------------------------
(* What a step does to sessions, notices and the badge.                    *)
AllAlike == \A j \in 1..MaxTasks : Alike(tasks[j], tasks'[j])
OthersAlike(i) == \A j \in (1..MaxTasks) \ {i} : Alike(tasks[j], tasks'[j])

NoticeStarts(t, i) ==
  /\ OthersAlike(i) /\ ~IsEnabling(tasks[i])
  /\ detaching' = [detaching EXCEPT ![t] = None] /\ detaching[t] # None
  /\ IsDue(tasks'[i]) /\ ~IsEnded(tasks'[i]) /\ ~IsTelling(tasks'[i]) /\ ~IsDetaching(tasks'[i])
  /\ tasks'[i].tab = t /\ tasks'[i].session = detaching[t].session
  /\ tasks'[i].reason = IF t \in overrides THEN "popup_detach" ELSE detaching[t].reason
  /\ overrides' = overrides \ {t} /\ badge' = badge \ {t}
  /\ UNCHANGED <<session, sessions, stops, recent, notices>>

Ends(t) ==
  /\ AllAlike
  /\ detaching[t] = None /\ session' = [session EXCEPT ![t] = 0]
  /\ \/ detaching' = detaching
     \/ /\ session[t] # 0
        /\ \E r \in {"canceled_by_user", "target_closed"} :
             detaching' = [detaching EXCEPT ![t] = [session |-> session[t], reason |-> r]]
  /\ badge' \in {badge, badge \ {t}}
  /\ UNCHANGED <<sessions, stops, overrides, recent, notices>>

EndsForPopup(t, i) ==
  /\ OthersAlike(i) /\ IsDetaching(tasks[i]) /\ tasks[i].tab = t
  /\ session[t] # 0 /\ detaching[t] = None /\ session' = [session EXCEPT ![t] = 0]
  /\ \/ detaching' = detaching
     \/ detaching' = [detaching EXCEPT ![t] = [session |-> session[t], reason |-> "own"]]
  /\ IsEnded(tasks'[i]) /\ ~IsTelling(tasks'[i]) /\ ~IsDetaching(tasks'[i])
  /\ tasks'[i].tab = t /\ tasks'[i].session = session[t] /\ tasks'[i].reason = "popup_detach"
  /\ UNCHANGED <<sessions, stops, overrides, recent, notices, badge>>

(* The popup's handler forgets the tab once it is through.                 *)
Forgets(i) ==
  \/ UNCHANGED <<overrides, badge>>
  \/ /\ IsEnded(tasks[i])
     /\ overrides' = overrides \ {tasks[i].tab} /\ badge' = badge \ {tasks[i].tab}

Drops(i) ==
  /\ AllAlike /\ IsDue(tasks[i]) /\ tasks[i].tab \in recent /\ Forgets(i)
  /\ UNCHANGED <<session, sessions, detaching, stops, recent, notices>>

Writes(i) ==
  notices' = Append(notices, [session |-> tasks[i].session, reason |-> tasks[i].reason,
                              life |-> stops])

Tells(i) ==
  /\ OthersAlike(i) /\ IsDue(tasks[i]) /\ tasks[i].tab \notin recent
  /\ recent' = recent \cup {tasks[i].tab}
  /\ \/ Plain(tasks'[i]) /\ Writes(i)
     \/ /\ IsTelling(tasks'[i]) /\ ~IsDue(tasks'[i]) /\ ~IsDetaching(tasks'[i])
        /\ tasks'[i].session = tasks[i].session /\ tasks'[i].reason = tasks[i].reason
        /\ UNCHANGED notices
  /\ Forgets(i)
  /\ UNCHANGED <<session, sessions, detaching, stops>>

TellsLate(i) ==
  /\ OthersAlike(i) /\ IsTelling(tasks[i]) /\ Plain(tasks'[i]) /\ Writes(i)
  /\ UNCHANGED <<session, sessions, detaching, stops, overrides, recent, badge>>

Begins(t, i) ==
  /\ OthersAlike(i) /\ ~IsEnabling(tasks[i]) /\ IsEnabling(tasks'[i]) /\ tasks'[i].tab = t
  /\ ~IsDue(tasks'[i]) /\ ~IsTelling(tasks'[i]) /\ ~IsDetaching(tasks'[i])
  /\ session[t] = 0 /\ detaching[t] = None
  /\ \A j \in 1..MaxTasks : IsEnded(tasks[j]) \/ IsDetaching(tasks[j]) => tasks[j].tab # t
  /\ sessions' = sessions + 1 /\ session' = [session EXCEPT ![t] = sessions + 1]
  /\ UNCHANGED <<detaching, stops, overrides, recent, notices, badge>>

Lights(i) ==
  /\ OthersAlike(i) /\ IsEnabling(tasks[i]) /\ Plain(tasks'[i])
  /\ badge' = badge \cup {tasks[i].tab}
  /\ UNCHANGED <<session, sessions, detaching, stops, overrides, recent, notices>>

AsksToDetach(i) ==
  /\ OthersAlike(i) /\ ~IsEnabling(tasks[i]) /\ IsDetaching(tasks'[i])
  /\ ~IsDue(tasks'[i]) /\ ~IsTelling(tasks'[i])
  /\ overrides' = overrides \cup {tasks'[i].tab}
  /\ UNCHANGED <<session, sessions, detaching, stops, recent, notices, badge>>

GivesUp(t) ==
  /\ AllAlike /\ session[t] = 0
  /\ \/ UNCHANGED overrides /\ badge' = badge \ {t}
     \/ UNCHANGED badge /\ overrides' = overrides \ {t} /\ detaching[t] = None
  /\ UNCHANGED <<session, sessions, detaching, stops, recent, notices>>

TimesOut(t) ==
  /\ AllAlike /\ detaching[t] = None /\ recent' = recent \ {t}
  /\ \A j \in 1..MaxTasks : IsDue(tasks[j]) => tasks[j].tab # t
  /\ UNCHANGED <<session, sessions, detaching, stops, overrides, notices, badge>>

Restarts ==
  /\ \A j \in 1..MaxTasks : Plain(tasks'[j])
  /\ stops' = stops + 1
  /\ UNCHANGED <<session, sessions, detaching, notices>>

Change ==
  \/ Quiet \/ Restarts
  \/ \E t \in Tabs : Ends(t) \/ GivesUp(t) \/ TimesOut(t)
  \/ \E i \in 1..MaxTasks :
       \/ Drops(i) \/ Tells(i) \/ TellsLate(i) \/ Lights(i) \/ AsksToDetach(i)
       \/ \E t \in Tabs : NoticeStarts(t, i) \/ EndsForPopup(t, i) \/ Begins(t, i)

(* One handler goes on, the others wait.                                   *)
LEMMA BecomesOne ==
  ASSUME TasksOK, NEW i \in 1..MaxTasks, NEW x, Becomes(i, x)
  PROVE  tasks'[i] = x /\ OthersAlike(i)
BY AlikeItself DEF TasksOK, Becomes, OthersAlike

LEMMA BecomesAlike ==
  ASSUME TasksOK, NEW i \in 1..MaxTasks, NEW x, Becomes(i, x), Alike(tasks[i], x)
  PROVE  AllAlike
BY BecomesOne DEF OthersAlike, AllAlike

(* A handler of the popup, by what it waits for.                           *)
LEMMA PopupKinds ==
  ASSUME NEW x \in PopupTask
  PROVE  /\ ~IsTelling(x)
         /\ IsDue(x) <=> IsEnded(x)
         /\ IsEnded(x) <=> x.kind = "detach" /\ x.at = "ended"
         /\ IsDetaching(x) <=> x.kind = "detach" /\ x.at = "detach"
         /\ IsEnabling(x) <=> x.kind = "attach" /\ x.at = "enable"
         /\ x.reason = "popup_detach"
BY DEF PopupTask, NoticeTask, IsDue, IsEnded, IsTelling, IsDetaching, IsEnabling

LEMMA NoticeKinds ==
  ASSUME NEW x \in NoticeTask
  PROVE  /\ ~IsEnded(x) /\ ~IsDetaching(x) /\ ~IsEnabling(x)
         /\ IsDue(x) <=> x.at = "badge"
         /\ IsTelling(x) <=> x.at \in {"options", "tab"}
BY DEF PopupTask, NoticeTask, IsDue, IsEnded, IsTelling, IsDetaching, IsEnabling

LEMMA LoudChanges ==
  ASSUME TypeInv, LoudStep
  PROVE  Change
<1> USE DEF browserVars, optionVars, queueVars, bounds, noticeVars
<1>0. TasksOK
  BY DEF TypeInv
<1>1. ASSUME NEW t \in Tabs, OnDetach(t) PROVE Change
  <2> DEFINE task == [kind |-> "notice", at |-> "badge", tab |-> t,
                      known |-> t \in DOMAIN attachedTabs, session |-> detaching[t].session,
                      reason |-> IF t \in overrides THEN "popup_detach" ELSE detaching[t].reason]
  <2>1. PICK i \in 1..MaxTasks : FirstIdle(i) /\ Becomes(i, task)
    BY <1>1 DEF OnDetach
  <2>2. detaching[t] \in [session : Nat, reason : Reasons]
    BY DEF TypeInv, SessionsOK
  <2>3. task \in NoticeTask
    BY <2>2 DEF NoticeTask, Reasons
  <2>4. IsDue(task) /\ ~IsEnded(task) /\ ~IsTelling(task) /\ ~IsDetaching(task)
    BY <2>3, NoticeKinds
  <2>5. ~IsEnabling(tasks[i])
    BY <2>1, IdleIsPlain DEF FirstIdle, Plain
  <2>6. tasks'[i] = task /\ OthersAlike(i)
    BY <1>0, <2>1, BecomesOne
  <2>7. NoticeStarts(t, i)
    BY <1>1, <2>4, <2>5, <2>6 DEF OnDetach, NoticeStarts
  <2> QED
    BY <2>7 DEF Change
<1>2. ASSUME NEW t \in Tabs, WindowEnds(t) PROVE Change
  <2>1. AllAlike
    BY <1>2, AlikeItself DEF WindowEnds, workerVars, AllAlike
  <2>2. \A j \in 1..MaxTasks : IsDue(tasks[j]) => tasks[j].tab # t
    BY <1>2 DEF WindowEnds, At, IsDue, IsEnded, NoticeTask
  <2>3. TimesOut(t)
    BY <1>2, <2>1, <2>2 DEF WindowEnds, TimesOut
  <2> QED
    BY <2>3 DEF Change
<1>3. ASSUME NEW t \in Tabs, EndSession(t) PROVE Change
  <2>1. AllAlike
    BY <1>3, AlikeItself DEF EndSession, workerVars, AllAlike
  <2>2. Ends(t)
    BY <1>3, <2>1 DEF EndSession, Ends
  <2> QED
    BY <2>2 DEF Change
<1>4. ASSUME NEW t \in Tabs, CloseTab(t) PROVE Change
  <2>1. AllAlike
    <3>1. CASE Unheard
      BY <3>1, UnheardOK DEF AllAlike
    <3>2. CASE UNCHANGED tasks
      BY <3>2, AlikeItself DEF AllAlike
    <3> QED
      BY <1>4, <3>1, <3>2 DEF CloseTab
  <2>2. Ends(t)
    BY <1>4, <2>1 DEF CloseTab, Ends
  <2> QED
    BY <2>2 DEF Change
<1>5. ASSUME NEW i \in 1..MaxTasks, PublishDetach(i) PROVE Change
  <2>1. tasks[i] \in NoticeTask /\ tasks[i].at = "badge" /\ Asks(tasks[i])
    BY <1>0, <1>5, IsNotice DEF PublishDetach, At, Asks
  <2>2. IsDue(tasks[i]) /\ ~IsEnded(tasks[i])
    BY <2>1, NoticeKinds
  <2>3. UNCHANGED <<session, sessions, detaching, stops, overrides, badge>>
    BY <1>5 DEF PublishDetach
  <2>4. CASE tasks[i].tab \in recent
    <3>1. Becomes(i, Idle) /\ UNCHANGED <<recent, notices>>
      BY <1>5, <2>4 DEF PublishDetach, Recent
    <3>2. Alike(tasks[i], Idle)
      BY <2>1, NoticeKinds, IdleIsPlain, PlainIsAlike
    <3>3. Drops(i)
      BY <1>0, <2>2, <2>3, <2>4, <3>1, <3>2, BecomesAlike DEF Drops, Forgets
    <3> QED
      BY <3>3 DEF Change
  <2>5. CASE tasks[i].tab \notin recent
    <3>1. recent' = recent \cup {tasks[i].tab}
      BY <1>5, <2>5 DEF PublishDetach, Recent
    <3>2. CASE Notice(tasks[i]) /\ Becomes(i, Idle)
      <4>1. Plain(tasks'[i]) /\ OthersAlike(i) /\ Writes(i)
        BY <1>0, <3>2, BecomesOne, IdleIsPlain DEF Notice, Writes
      <4>2. Tells(i)
        BY <2>2, <2>3, <2>5, <3>1, <4>1 DEF Tells, Forgets
      <4> QED
        BY <4>2 DEF Change
    <3>3. CASE LoadOptions(i, tasks[i]) /\ UNCHANGED notices
      <4>1. PICK x \in After(tasks[i]) \cup {[tasks[i] EXCEPT !.at = "options"]} : Becomes(i, x)
        BY <2>1, <3>3, LoadOptionsGoesOn
      <4>2. /\ x \in NoticeTask /\ x.at \in {"options", "tab"}
            /\ x.session = tasks[i].session /\ x.reason = tasks[i].reason
        <5>1. CASE x \in After(tasks[i])
          BY <2>1, <5>1 DEF After, NoticeTask
        <5>2. CASE x = [tasks[i] EXCEPT !.at = "options"]
          BY <2>1, <5>2 DEF NoticeTask
        <5> QED
          BY <4>1, <5>1, <5>2
      <4>3. IsTelling(x) /\ ~IsDue(x) /\ ~IsDetaching(x)
        BY <4>2, NoticeKinds
      <4>4. tasks'[i] = x /\ OthersAlike(i)
        BY <1>0, <4>1, BecomesOne
      <4>5. Tells(i)
        BY <2>2, <2>3, <2>5, <3>1, <3>3, <4>2, <4>3, <4>4 DEF Tells, Forgets
      <4> QED
        BY <4>5 DEF Change
    <3> QED
      BY <1>5, <2>5, <3>2, <3>3 DEF PublishDetach, Recent
  <2> QED
    BY <2>4, <2>5
<1>6. ASSUME NEW i \in 1..MaxTasks, NoticeTab(i) PROVE Change
  <2>1. tasks[i] \in NoticeTask /\ IsTelling(tasks[i])
    BY <1>0, <1>6, IsNotice, NoticeKinds DEF NoticeTab, At
  <2>2. Plain(tasks'[i]) /\ OthersAlike(i)
    BY <1>0, <1>6, BecomesOne, IdleIsPlain DEF NoticeTab
  <2>3. TellsLate(i)
    BY <1>6, <2>1, <2>2 DEF NoticeTab, Notice, TellsLate, Writes
  <2> QED
    BY <2>3 DEF Change
<1>7. ASSUME NEW i \in 1..MaxTasks, Attached(i) PROVE Change
  <2> DEFINE t == tasks[i].tab
             enable == [tasks[i] EXCEPT !.at = "enable"]
  <2>1. tasks[i] \in PopupTask /\ tasks[i].kind = "attach" /\ tasks[i].at = "attach" /\ t \in Tabs
    BY <1>0, <1>7, IsOfPopup DEF Attached, At, PopupTask
  <2>2. Plain(tasks[i])
    BY <2>1, PopupKinds DEF Plain
  <2>3. UNCHANGED <<detaching, stops, overrides, recent, notices, excused, badge>>
    BY <1>7 DEF Attached
  <2>4. CASE Becomes(i, Idle) /\ UNCHANGED <<session, sessions>>
    <3>1. AllAlike
      BY <1>0, <2>2, <2>4, IdleIsPlain, PlainIsAlike, BecomesAlike DEF Plain
    <3>2. Quiet
      BY <2>3, <2>4, <3>1 DEF Quiet, AllAlike
    <3> QED
      BY <3>2 DEF Change
  <2>5. CASE /\ session[t] = 0 /\ Heard(t) /\ Becomes(i, enable)
             /\ ~\E j \in 1..MaxTasks : At(j, {"detach"}, "detach") /\ tasks[j].tab = t
             /\ sessions' = sessions + 1 /\ session' = [session EXCEPT ![t] = sessions + 1]
    <3>1. enable \in PopupTask /\ enable.kind = "attach" /\ enable.at = "enable" /\ enable.tab = t
      BY <2>1 DEF PopupTask
    <3>2. IsEnabling(enable) /\ ~IsDue(enable) /\ ~IsTelling(enable) /\ ~IsDetaching(enable)
      BY <3>1, PopupKinds
    <3>3. \A j \in 1..MaxTasks : IsEnded(tasks[j]) \/ IsDetaching(tasks[j]) => tasks[j].tab # t
      BY <2>5 DEF Heard, At, IsEnded, IsDetaching
    <3>4. tasks'[i] = enable /\ OthersAlike(i)
      BY <1>0, <2>5, BecomesOne
    <3>5. Begins(t, i)
      BY <2>2, <2>3, <2>5, <3>1, <3>2, <3>3, <3>4 DEF Begins, Plain, Heard
    <3> QED
      BY <2>1, <3>5 DEF Change
  <2> QED
    BY <1>7, <2>4, <2>5 DEF Attached
<1>8. ASSUME NEW i \in 1..MaxTasks, Enabled(i) PROVE Change
  <2> DEFINE lights == [tasks[i] EXCEPT !.at = "badge"]
  <2>1. tasks[i] \in PopupTask /\ tasks[i].kind = "attach" /\ tasks[i].at = "enable"
    BY <1>0, <1>8, IsOfPopup DEF Enabled, At
  <2>2. lights \in PopupTask /\ lights.kind = "attach" /\ lights.at = "badge"
    BY <2>1 DEF PopupTask
  <2>3. IsEnabling(tasks[i]) /\ Plain(lights)
    BY <2>1, <2>2, PopupKinds DEF Plain
  <2>4. tasks'[i] = lights /\ OthersAlike(i)
    BY <1>0, <1>8, BecomesOne DEF Enabled
  <2>5. Lights(i)
    BY <1>8, <2>3, <2>4 DEF Enabled, Lights
  <2> QED
    BY <2>5 DEF Change
<1>9. ASSUME NEW i \in 1..MaxTasks, DetachTargets(i) PROVE Change
  <2> DEFINE t == tasks[i].tab
             asks == [tasks[i] EXCEPT !.at = "detach"]
  <2>1. tasks[i] \in PopupTask /\ tasks[i].kind = "detach" /\ tasks[i].at = "targets" /\ t \in Tabs
    BY <1>0, <1>9, IsOfPopup DEF DetachTargets, At, PopupTask
  <2>2. Plain(tasks[i])
    BY <2>1, PopupKinds DEF Plain
  <2>3. UNCHANGED <<session, sessions, detaching, stops, recent, notices>>
    BY <1>9 DEF DetachTargets
  <2>4. CASE overrides' = overrides \cup {t} /\ Becomes(i, asks) /\ UNCHANGED badge
    <3>1. asks \in PopupTask /\ asks.kind = "detach" /\ asks.at = "detach" /\ asks.tab = t
      BY <2>1 DEF PopupTask
    <3>2. IsDetaching(asks) /\ ~IsDue(asks) /\ ~IsTelling(asks)
      BY <3>1, PopupKinds
    <3>3. tasks'[i] = asks /\ OthersAlike(i)
      BY <1>0, <2>4, BecomesOne
    <3>4. AsksToDetach(i)
      BY <2>2, <2>3, <2>4, <3>1, <3>2, <3>3 DEF AsksToDetach, Plain
    <3> QED
      BY <3>4 DEF Change
  <2>5. CASE FALSE \in SeenAttached(t) /\ Forget(i, t) /\ UNCHANGED overrides
    <3>1. session[t] = 0
      BY <2>5 DEF SeenAttached
    <3>2. AllAlike
      BY <1>0, <2>2, <2>5, IdleIsPlain, PlainIsAlike, BecomesAlike DEF Plain, Forget
    <3>3. GivesUp(t)
      BY <2>3, <2>5, <3>1, <3>2 DEF GivesUp, Forget
    <3> QED
      BY <2>1, <3>3 DEF Change
  <2> QED
    BY <1>9, <2>4, <2>5 DEF DetachTargets
<1>10. ASSUME NEW i \in 1..MaxTasks, BrowserDetaches(i) PROVE Change
  <2> DEFINE t == tasks[i].tab
             ended == [tasks[i] EXCEPT !.at = "ended", !.session = session[t]]
  <2>1. tasks[i] \in PopupTask /\ tasks[i].kind = "detach" /\ tasks[i].at = "detach" /\ t \in Tabs
    BY <1>0, <1>10, IsOfPopup DEF BrowserDetaches, At, PopupTask
  <2>2. session[t] \in Nat
    BY <2>1 DEF TypeInv, SessionsOK
  <2>3. /\ ended \in PopupTask /\ ended.kind = "detach" /\ ended.at = "ended" /\ ended.tab = t
        /\ ended.session = session[t]
    BY <2>1, <2>2 DEF PopupTask
  <2>4. /\ IsDetaching(tasks[i]) /\ IsEnded(ended) /\ ~IsTelling(ended) /\ ~IsDetaching(ended)
        /\ ended.reason = "popup_detach"
    BY <2>1, <2>3, PopupKinds
  <2>5. tasks'[i] = ended /\ OthersAlike(i)
    BY <1>0, <1>10, BecomesOne DEF BrowserDetaches
  <2>6. EndsForPopup(t, i)
    BY <1>10, <2>3, <2>4, <2>5 DEF BrowserDetaches, EndsForPopup
  <2> QED
    BY <2>1, <2>6 DEF Change
<1>11. ASSUME NEW i \in 1..MaxTasks, DetachFails(i) PROVE Change
  <2> DEFINE t == tasks[i].tab
  <2>1. tasks[i] \in PopupTask /\ tasks[i].kind = "detach" /\ t \in Tabs
    BY <1>0, <1>11, IsOfPopup DEF DetachFails, At, PopupTask
  <2>2. ~IsEnabling(tasks[i])
    BY <2>1, PopupKinds
  <2>3. AllAlike
    BY <1>0, <1>11, <2>2, IdleIsPlain, PlainIsAlike, BecomesAlike DEF DetachFails
  <2>4. GivesUp(t)
    BY <1>11, <2>3 DEF GivesUp, DetachFails, Heard
  <2> QED
    BY <2>1, <2>4 DEF Change
<1>12. ASSUME NEW i \in 1..MaxTasks, Detached(i) PROVE Change
  <2> DEFINE t == tasks[i].tab
  <2>1. tasks[i] \in PopupTask /\ tasks[i].kind = "detach" /\ tasks[i].at = "ended"
    BY <1>0, <1>12, IsOfPopup DEF Detached, At
  <2>2. IsDue(tasks[i]) /\ IsEnded(tasks[i]) /\ ~IsEnabling(tasks[i])
    BY <2>1, PopupKinds
  <2>3. /\ Becomes(i, Idle) /\ overrides' = overrides \ {t} /\ badge' = badge \ {t}
        /\ UNCHANGED <<session, sessions, detaching, stops>>
    BY <1>12 DEF Detached, Forget
  <2>4. CASE t \in recent
    <3>1. UNCHANGED <<recent, notices>>
      BY <1>12, <2>4 DEF Detached, Recent
    <3>2. AllAlike
      BY <1>0, <2>2, <2>3, IdleIsPlain, PlainIsAlike, BecomesAlike
    <3>3. Drops(i)
      BY <2>2, <2>3, <2>4, <3>1, <3>2 DEF Drops, Forgets
    <3> QED
      BY <3>3 DEF Change
  <2>5. CASE t \notin recent
    <3>1. recent' = recent \cup {t} /\ Notice(tasks[i])
      BY <1>12, <2>5 DEF Detached, Recent
    <3>2. Plain(tasks'[i]) /\ OthersAlike(i)
      BY <1>0, <2>3, BecomesOne, IdleIsPlain
    <3>3. Tells(i)
      BY <2>2, <2>3, <2>5, <3>1, <3>2 DEF Tells, Forgets, Notice, Writes
    <3> QED
      BY <3>3 DEF Change
  <2> QED
    BY <2>4, <2>5
<1>13. CASE WorkerStops
  <2>1. Restarts
    BY <1>13, IdleIsPlain DEF WorkerStops, Restarts
  <2> QED
    BY <2>1 DEF Change
<1> QED
  BY <1>1, <1>2, <1>3, <1>4, <1>5, <1>6, <1>7, <1>8, <1>9, <1>10, <1>11, <1>12, <1>13 DEF LoudStep

LEMMA Changes ==
  ASSUME TypeInv, [Next]_vars
  PROVE  Change
<1>1. CASE Next
  BY <1>1, NextCases, QuietAndTyped, LoudChanges DEF Change
<1>2. CASE UNCHANGED vars
  <2>1. Quiet
    BY <1>2, AlikeItself DEF Quiet, vars, browserVars, workerVars, noticeVars, bounds
  <2> QED
    BY <2>1 DEF Change
<1> QED
  BY <1>1, <1>2
-----------------------------------------------------------------------------
(* A session that the browser has ended is over before anybody is told.    *)
EndsInv ==
  /\ \A t \in Tabs : /\ session[t] # 0 => detaching[t] = None
                     /\ detaching[t] # None => detaching[t].session # 0
  /\ \A i \in 1..MaxTasks : /\ IsEnded(tasks[i]) => session[tasks[i].tab] = 0
                            /\ IsDue(tasks[i]) => tasks[i].session # 0

(* What a handler of the three kinds knows.                                *)
LEMMA TaskFields ==
  ASSUME NEW x, IsDue(x) \/ IsTelling(x) \/ IsDetaching(x) \/ IsEnabling(x)
  PROVE  x.tab \in Tabs /\ x.session \in Nat
BY DEF IsDue, IsEnded, IsTelling, IsDetaching, IsEnabling, NoticeTask, PopupTask

LEMMA EndedIsDue == ASSUME NEW x, IsEnded(x) PROVE IsDue(x)
BY DEF IsDue

(* A handler that went on as an equal of what it was.                      *)
LEMMA AlikeDue ==
  ASSUME NEW x, NEW y, Alike(x, y)
  PROVE  /\ IsEnded(y) => IsEnded(x) /\ y.tab = x.tab
         /\ IsDue(y) => IsDue(x) /\ y.tab = x.tab /\ y.session = x.session /\ y.reason = x.reason
         /\ IsTelling(y) => IsTelling(x) /\ y.tab = x.tab /\ y.session = x.session
                                         /\ y.reason = x.reason
         /\ IsDetaching(y) => IsDetaching(x) /\ y.tab = x.tab
         /\ IsEnabling(x) => IsEnabling(y) /\ y.tab = x.tab
BY EndedIsDue DEF Alike

(* All handlers go on as equals but the one that begins or ends something. *)
LEMMA EndsKept ==
  ASSUME TypeInv, EndsInv,
         \A t \in Tabs : /\ session'[t] \in {session[t], 0}
                         /\ \/ detaching'[t] \in {detaching[t], None}
                            \/ detaching'[t].session # 0 /\ session'[t] = 0,
         \A j \in 1..MaxTasks :
           \/ Alike(tasks[j], tasks'[j])
           \/ ~IsDue(tasks'[j])
           \/ /\ IsDue(tasks'[j]) /\ tasks'[j].session # 0
              /\ IsEnded(tasks'[j]) => session'[tasks'[j].tab] = 0
  PROVE  EndsInv'
<1>1. ASSUME NEW t \in Tabs
      PROVE  /\ session'[t] # 0 => detaching'[t] = None
             /\ detaching'[t] # None => detaching'[t].session # 0
  BY DEF EndsInv
<1>2. ASSUME NEW j \in 1..MaxTasks
      PROVE  /\ IsEnded(tasks'[j]) => session'[tasks'[j].tab] = 0
             /\ IsDue(tasks'[j]) => tasks'[j].session # 0
  <2>1. CASE Alike(tasks[j], tasks'[j])
    <3>1. IsEnded(tasks'[j]) => IsEnded(tasks[j]) /\ tasks'[j].tab = tasks[j].tab
      BY <2>1, AlikeDue
    <3>2. IsEnded(tasks[j]) => tasks[j].tab \in Tabs /\ session[tasks[j].tab] = 0
      BY EndedIsDue, TaskFields DEF EndsInv
    <3>3. IsDue(tasks'[j]) => tasks'[j].session # 0
      BY <2>1, AlikeDue DEF EndsInv
    <3> QED
      BY <3>1, <3>2, <3>3
  <2>2. CASE ~IsDue(tasks'[j])
    BY <2>2, EndedIsDue
  <2> QED
    BY <2>1, <2>2
<1> QED
  BY <1>1, <1>2 DEF EndsInv

LEMMA EndsStep ==
  ASSUME TypeInv, EndsInv, Change
  PROVE  EndsInv'
<1> DEFINE D == [session : Nat, reason : Reasons]
<1>0. session \in [Tabs -> Nat] /\ detaching \in [Tabs -> D] /\ sessions \in Nat
  BY DEF TypeInv, SessionsOK
<1>1. CASE Quiet
  BY <1>1, EndsKept DEF Quiet
<1>2. CASE Restarts
  BY <1>2, EndsKept DEF Restarts, Plain
<1>3. ASSUME NEW t \in Tabs, Ends(t) PROVE EndsInv'
  <2>1. \A u \in Tabs : /\ session'[u] \in {session[u], 0}
                        /\ \/ detaching'[u] \in {detaching[u], None}
                           \/ detaching'[u].session # 0 /\ session'[u] = 0
    BY <1>0, <1>3 DEF Ends
  <2> QED
    BY <1>3, <2>1, EndsKept DEF Ends, AllAlike
<1>4. ASSUME NEW t \in Tabs, GivesUp(t) \/ TimesOut(t) PROVE EndsInv'
  BY <1>4, EndsKept DEF GivesUp, TimesOut, AllAlike
<1>5. ASSUME NEW i \in 1..MaxTasks, Drops(i) PROVE EndsInv'
  BY <1>5, EndsKept DEF Drops, AllAlike
<1>6. ASSUME NEW i \in 1..MaxTasks, Tells(i) \/ TellsLate(i) \/ Lights(i) \/ AsksToDetach(i)
      PROVE  EndsInv'
  <2>1. UNCHANGED <<session, detaching>> /\ ~IsDue(tasks'[i]) /\ OthersAlike(i)
    BY <1>6 DEF Tells, TellsLate, Lights, AsksToDetach, Plain
  <2> QED
    BY <2>1, EndsKept DEF OthersAlike
<1>7. ASSUME NEW i \in 1..MaxTasks, NEW t \in Tabs, NoticeStarts(t, i) PROVE EndsInv'
  <2>1. \A u \in Tabs : session'[u] = session[u] /\ detaching'[u] \in {detaching[u], None}
    BY <1>0, <1>7 DEF NoticeStarts
  <2>2. IsDue(tasks'[i]) /\ tasks'[i].session # 0 /\ ~IsEnded(tasks'[i])
    BY <1>7 DEF NoticeStarts, EndsInv
  <2> QED
    BY <1>7, <2>1, <2>2, EndsKept DEF NoticeStarts, OthersAlike
<1>8. ASSUME NEW i \in 1..MaxTasks, NEW t \in Tabs, EndsForPopup(t, i) PROVE EndsInv'
  <2>1. \A u \in Tabs : /\ session'[u] \in {session[u], 0}
                        /\ \/ detaching'[u] \in {detaching[u], None}
                           \/ detaching'[u].session # 0 /\ session'[u] = 0
    BY <1>0, <1>8 DEF EndsForPopup
  <2>2. IsDue(tasks'[i]) /\ tasks'[i].session # 0 /\ session'[tasks'[i].tab] = 0
    BY <1>0, <1>8, EndedIsDue DEF EndsForPopup
  <2> QED
    BY <1>8, <2>1, <2>2, EndsKept DEF EndsForPopup, OthersAlike
<1>9. ASSUME NEW i \in 1..MaxTasks, NEW t \in Tabs, Begins(t, i) PROVE EndsInv'
  <2>1. ASSUME NEW u \in Tabs
        PROVE  /\ session'[u] # 0 => detaching'[u] = None
               /\ detaching'[u] # None => detaching'[u].session # 0
    BY <1>0, <1>9 DEF Begins, EndsInv
  <2>2. ASSUME NEW j \in 1..MaxTasks
        PROVE  /\ IsEnded(tasks'[j]) => session'[tasks'[j].tab] = 0
               /\ IsDue(tasks'[j]) => tasks'[j].session # 0
    <3>1. CASE j = i
      BY <1>9, <3>1, EndedIsDue DEF Begins
    <3>2. CASE j # i
      <4>1. /\ IsEnded(tasks'[j]) => IsEnded(tasks[j]) /\ tasks'[j].tab = tasks[j].tab
            /\ IsDue(tasks'[j]) => IsDue(tasks[j]) /\ tasks'[j].session = tasks[j].session
        BY <1>9, <3>2, AlikeDue DEF Begins, OthersAlike
      <4>2. IsEnded(tasks[j]) => /\ tasks[j].tab \in Tabs /\ tasks[j].tab # t
                                 /\ session[tasks[j].tab] = 0
        BY <1>9, EndedIsDue, TaskFields DEF Begins, EndsInv
      <4>3. \A u \in Tabs : u # t => session'[u] = session[u]
        BY <1>0, <1>9 DEF Begins
      <4> QED
        BY <4>1, <4>2, <4>3 DEF EndsInv
    <3> QED
      BY <3>1, <3>2
  <2> QED
    BY <2>1, <2>2 DEF EndsInv
<1> QED
  BY <1>1, <1>2, <1>3, <1>4, <1>5, <1>6, <1>7, <1>8, <1>9 DEF Change

LEMMA InitEnds == Init => EndsInv
<1> SUFFICES ASSUME Init PROVE EndsInv
  OBVIOUS
<1>1. \A t \in Tabs : detaching[t] = None
  BY DEF Init
<1>2. \A i \in 1..MaxTasks : ~IsDue(tasks[i])
  BY IdleIsPlain DEF Init, Plain
<1> QED
  BY <1>1, <1>2, EndedIsDue DEF EndsInv
-----------------------------------------------------------------------------
(* A tab with a session shows it, or is about to.                          *)
Shows(t) == t \in badge \/ \E i \in 1..MaxTasks : IsEnabling(tasks[i]) /\ tasks[i].tab = t

CaptureInv == stops = 0 => \A t \in Tabs : session[t] # 0 => Shows(t)

LEMMA CaptureKept ==
  ASSUME CaptureInv, stops' = stops,
         \A t \in Tabs : session'[t] # 0 => session[t] # 0 /\ (t \in badge => t \in badge'),
         \A j \in 1..MaxTasks : IsEnabling(tasks[j]) => IsEnabling(tasks'[j])
                                                       /\ tasks'[j].tab = tasks[j].tab
  PROVE  CaptureInv'
BY DEF CaptureInv, Shows

LEMMA CaptureStep ==
  ASSUME TypeInv, EndsInv, CaptureInv, Change
  PROVE  CaptureInv'
<1>0. session \in [Tabs -> Nat] /\ stops \in Nat
  BY DEF TypeInv, SessionsOK
<1>1. ASSUME NEW j \in 1..MaxTasks, Alike(tasks[j], tasks'[j]), IsEnabling(tasks[j])
      PROVE  IsEnabling(tasks'[j]) /\ tasks'[j].tab = tasks[j].tab
  BY <1>1, AlikeDue
<1>2. ASSUME NEW j \in 1..MaxTasks, IsDue(tasks[j]) \/ IsTelling(tasks[j]) \/ IsDetaching(tasks[j])
      PROVE  ~IsEnabling(tasks[j])
  BY <1>2 DEF IsDue, IsEnded, IsTelling, IsDetaching, IsEnabling, NoticeTask, PopupTask
<1>3. ASSUME NEW j \in 1..MaxTasks, Forgets(j)
      PROVE  \A t \in Tabs : session[t] # 0 /\ t \in badge => t \in badge'
  BY <1>3 DEF Forgets, EndsInv
<1>4. CASE Quiet
  BY <1>1, <1>4, CaptureKept DEF Quiet
<1>5. CASE Restarts
  BY <1>0, <1>5 DEF Restarts, CaptureInv
<1>6. ASSUME NEW t \in Tabs, Ends(t) PROVE CaptureInv'
  <2>1. \A u \in Tabs : session'[u] # 0 => session[u] # 0 /\ (u \in badge => u \in badge')
    BY <1>0, <1>6 DEF Ends
  <2> QED
    BY <1>1, <1>6, <2>1, CaptureKept DEF Ends, AllAlike
<1>7. ASSUME NEW t \in Tabs, GivesUp(t) \/ TimesOut(t) PROVE CaptureInv'
  <2>1. \A u \in Tabs : session'[u] # 0 => session[u] # 0 /\ (u \in badge => u \in badge')
    BY <1>7 DEF GivesUp, TimesOut
  <2> QED
    BY <1>1, <1>7, <2>1, CaptureKept DEF GivesUp, TimesOut, AllAlike
<1>8. ASSUME NEW i \in 1..MaxTasks, Drops(i) PROVE CaptureInv'
  BY <1>1, <1>3, <1>8, CaptureKept DEF Drops, AllAlike
<1>9. ASSUME NEW i \in 1..MaxTasks, Tells(i) PROVE CaptureInv'
  BY <1>1, <1>2, <1>3, <1>9, CaptureKept DEF Tells, OthersAlike
<1>10. ASSUME NEW i \in 1..MaxTasks, TellsLate(i) \/ AsksToDetach(i) PROVE CaptureInv'
  BY <1>1, <1>2, <1>10, CaptureKept DEF TellsLate, AsksToDetach, OthersAlike
<1>11. ASSUME NEW i \in 1..MaxTasks, Lights(i) PROVE CaptureInv'
  <2>1. ASSUME NEW t \in Tabs, stops' = 0, session'[t] # 0 PROVE Shows(t)'
    <3>1. Shows(t) /\ t \in badge => t \in badge'
      BY <1>11, <2>1 DEF Lights, CaptureInv
    <3>2. ASSUME NEW j \in 1..MaxTasks, IsEnabling(tasks[j]), tasks[j].tab = t PROVE Shows(t)'
      <4>1. CASE j = i
        BY <1>11, <3>2, <4>1 DEF Lights, Shows
      <4>2. CASE j # i
        BY <1>1, <1>11, <3>2, <4>2 DEF Lights, OthersAlike, Shows
      <4> QED
        BY <4>1, <4>2
    <3> QED
      <4>1. Shows(t)
        BY <1>11, <2>1 DEF Lights, CaptureInv
      <4> QED
        BY <1>11, <3>2, <4>1 DEF Lights, Shows
  <2> QED
    BY <2>1 DEF CaptureInv
<1>12. ASSUME NEW i \in 1..MaxTasks, NEW t \in Tabs, NoticeStarts(t, i) PROVE CaptureInv'
  <2>1. \A u \in Tabs : session'[u] # 0 => session[u] # 0 /\ (u \in badge => u \in badge')
    BY <1>12 DEF NoticeStarts, EndsInv
  <2> QED
    BY <1>1, <1>12, <2>1, CaptureKept DEF NoticeStarts, OthersAlike
<1>13. ASSUME NEW i \in 1..MaxTasks, NEW t \in Tabs, EndsForPopup(t, i) PROVE CaptureInv'
  <2>1. \A u \in Tabs : session'[u] # 0 => session[u] # 0 /\ (u \in badge => u \in badge')
    BY <1>0, <1>13 DEF EndsForPopup
  <2> QED
    BY <1>1, <1>2, <1>13, <2>1, CaptureKept DEF EndsForPopup, OthersAlike
<1>14. ASSUME NEW i \in 1..MaxTasks, NEW t \in Tabs, Begins(t, i) PROVE CaptureInv'
  <2>1. ASSUME NEW u \in Tabs, stops' = 0, session'[u] # 0 PROVE Shows(u)'
    <3>1. CASE u = t
      BY <1>14, <3>1 DEF Begins, Shows
    <3>2. CASE u # t
      <4>1. session[u] # 0 /\ stops = 0 /\ badge' = badge
        BY <1>0, <1>14, <2>1, <3>2 DEF Begins
      <4>2. Shows(u)
        BY <4>1 DEF CaptureInv
      <4>3. \A j \in 1..MaxTasks : IsEnabling(tasks[j]) => IsEnabling(tasks'[j])
                                                          /\ tasks'[j].tab = tasks[j].tab
        BY <1>1, <1>14 DEF Begins, OthersAlike
      <4> QED
        BY <4>1, <4>2, <4>3 DEF Shows
    <3> QED
      BY <3>1, <3>2
  <2> QED
    BY <2>1 DEF CaptureInv
<1> QED
  BY <1>4, <1>5, <1>6, <1>7, <1>8, <1>9, <1>10, <1>11, <1>12, <1>13, <1>14 DEF Change

(* Until the worker is stopped, a tab that is being captured shows it      *)
(* (attachActiveTab, handleDebuggerDetach, detachActiveTab).               *)
THEOREM Shown == Spec => []CaptureIsShown
<1>1. Init => EndsInv /\ CaptureInv
  <2> SUFFICES ASSUME Init PROVE CaptureInv
    BY InitEnds
  <2>1. \A t \in Tabs : session[t] # 0 => t \in badge
    BY DEF Init
  <2> QED
    BY <2>1 DEF CaptureInv, Shows
<1>2. TypeInv /\ EndsInv /\ CaptureInv /\ [Next]_vars => EndsInv' /\ CaptureInv'
  BY Changes, EndsStep, CaptureStep
<1>3. TypeInv /\ CaptureInv => CaptureIsShown
  <2> SUFFICES ASSUME TypeInv, CaptureInv, stops = 0, NEW t \in Tabs, session[t] # 0
               PROVE  t \in badge \/ \E i \in 1..MaxTasks : At(i, {"attach"}, "enable")
                                                            /\ tasks[i].tab = t
    BY DEF CaptureIsShown
  <2> QED
    BY DEF CaptureInv, Shows, At, IsEnabling
<1> QED
  BY <1>1, <1>2, <1>3, TypeCorrect, PTL DEF Spec
-----------------------------------------------------------------------------
(* The end of session s of tab t is to be told; it is being told, or was.  *)
Pending(s, t) ==
  \/ detaching[t].session = s
  \/ \E i \in 1..MaxTasks : IsDue(tasks[i]) /\ tasks[i].tab = t /\ tasks[i].session = s

Telling(s) == \E i \in 1..MaxTasks : IsTelling(tasks[i]) /\ tasks[i].session = s

Told(s) == \E k \in 1..Len(notices) : notices[k].session = s /\ notices[k].life = stops

Voiced(s) == Told(s) \/ Telling(s)

Of(s, t) == session[t] = s \/ Pending(s, t)

Numbers == Nat \ {0}

(* A session has one tab; while it lasts nobody speaks of its end, and     *)
(* what is yet to be told of one that was spoken of finds its tab recent.  *)
OwnInv ==
  \A s \in Numbers, t \in Tabs :
    /\ \A u \in Tabs : Of(s, t) /\ Of(s, u) => t = u
    /\ session[t] = s => ~Voiced(s) /\ ~Pending(s, t)
    /\ Voiced(s) /\ Pending(s, t) => t \in recent
    /\ Of(s, t) => s <= sessions

(* One handler, or one notice of this life, speaks of a session.           *)
WordInv ==
  /\ \A s \in Numbers : ~(Told(s) /\ Telling(s))
  /\ \A i, j \in 1..MaxTasks :
       /\ IsTelling(tasks[i]) => tasks[i].session \in Numbers /\ tasks[i].session <= sessions
       /\ IsTelling(tasks[i]) /\ IsTelling(tasks[j]) /\ tasks[i].session = tasks[j].session => i = j
  /\ \A j, k \in 1..Len(notices) :
       /\ notices[j].session \in Numbers /\ notices[j].session <= sessions
       /\ notices[j].life <= stops
       /\ notices[j].life = notices[k].life /\ notices[j].session = notices[k].session => j = k

LEMMA OwnKept ==
  ASSUME OwnInv, UNCHANGED sessions,
         \A t \in Tabs : session'[t] \in {session[t], 0},
         \A s \in Numbers, t \in Tabs : Pending(s, t)' =>
           \/ Pending(s, t) /\ (Voiced(s)' /\ t \in recent => t \in recent')
           \/ session[t] = s /\ session'[t] = 0,
         \A s \in Numbers : Voiced(s)' =>
           \/ Voiced(s)
           \/ \A t \in Tabs : session[t] # s /\ (Pending(s, t) => t \in recent')
  PROVE  OwnInv'
<1> SUFFICES ASSUME NEW s \in Numbers, NEW t \in Tabs
             PROVE  /\ \A u \in Tabs : Of(s, t)' /\ Of(s, u)' => t = u
                    /\ session'[t] = s => ~Voiced(s)' /\ ~Pending(s, t)'
                    /\ Voiced(s)' /\ Pending(s, t)' => t \in recent'
                    /\ Of(s, t)' => s <= sessions'
  BY DEF OwnInv
<1>1. \A u \in Tabs : Of(s, u)' => Of(s, u)
  BY DEF Of, Numbers
<1>2. \A u \in Tabs : Of(s, t)' /\ Of(s, u)' => t = u
  BY <1>1 DEF OwnInv
<1>3. session'[t] = s => session[t] = s /\ s # 0
  BY DEF Numbers
<1>4. session[t] = s => ~Voiced(s) /\ ~Pending(s, t) /\ ~Voiced(s)'
  BY DEF OwnInv
<1>5. session'[t] = s => ~Voiced(s)' /\ ~Pending(s, t)'
  BY <1>3, <1>4
<1>6. Voiced(s)' /\ Pending(s, t)' => t \in recent'
  BY <1>4 DEF OwnInv
<1>7. Of(s, t)' => s <= sessions'
  BY <1>1 DEF OwnInv
<1> QED
  BY <1>2, <1>5, <1>6, <1>7

LEMMA WordKept ==
  ASSUME TypeInv, WordInv, UNCHANGED notices, sessions' \in {sessions, sessions + 1},
         \/ /\ stops' = stops
            /\ \A j \in 1..MaxTasks : IsTelling(tasks'[j]) =>
                 IsTelling(tasks[j]) /\ tasks'[j].session = tasks[j].session
         \/ stops' = stops + 1 /\ \A j \in 1..MaxTasks : ~IsTelling(tasks'[j])
  PROVE  WordInv'
<1>0. \A n \in Numbers : n <= sessions => n <= sessions'
  BY DEF TypeInv, SessionsOK, Numbers
<1>1. /\ \A i, j \in 1..MaxTasks :
           /\ IsTelling(tasks'[i]) => tasks'[i].session \in Numbers /\ tasks'[i].session <= sessions'
           /\ IsTelling(tasks'[i]) /\ IsTelling(tasks'[j]) /\ tasks'[i].session = tasks'[j].session
                => i = j
  BY <1>0 DEF WordInv
<1>2. \A j, k \in 1..Len(notices') :
        /\ notices'[j].session \in Numbers /\ notices'[j].session <= sessions'
        /\ notices'[j].life <= stops'
        /\ notices'[j].life = notices'[k].life /\ notices'[j].session = notices'[k].session => j = k
  <2>1. stops \in Nat /\ \A k \in 1..Len(notices) : notices[k].life \in Nat
    <3>1. notices \in Seq([session : Nat, reason : Reasons, life : Nat]) /\ stops \in Nat
      BY DEF TypeInv, SessionsOK
    <3>2. ASSUME NEW k \in 1..Len(notices) PROVE notices[k].life \in Nat
      <4>1. notices[k] \in [session : Nat, reason : Reasons, life : Nat]
        BY <3>1, ElementOfSeq
      <4> QED
        BY <4>1
    <3> QED
      BY <3>1, <3>2
  <2>2. \A k \in 1..Len(notices) : notices[k].life <= stops'
    BY <2>1 DEF WordInv
  <2> QED
    BY <1>0, <2>2 DEF WordInv
<1>3. \A s \in Numbers : ~(Told(s)' /\ Telling(s)')
  <2> SUFFICES ASSUME NEW s \in Numbers, Told(s)', Telling(s)' PROVE FALSE
    OBVIOUS
  <2>1. stops' = stops /\ Telling(s)
    BY DEF Telling
  <2>2. Told(s)
    BY <2>1 DEF Told
  <2> QED
    BY <2>1, <2>2 DEF WordInv
<1> QED
  BY <1>1, <1>2, <1>3 DEF WordInv

(* Nothing becomes pending when handlers go on as equals.                  *)
LEMMA PendingKept ==
  ASSUME NEW s \in Numbers, NEW t \in Tabs, Pending(s, t)',
         \A u \in Tabs : detaching'[u] \in {detaching[u], None},
         \A j \in 1..MaxTasks : Alike(tasks[j], tasks'[j]) \/ ~IsDue(tasks'[j])
  PROVE  Pending(s, t)
<1>1. CASE detaching'[t].session = s
  <2>1. None.session # s
    BY DEF None, Numbers
  <2>2. detaching'[t] # None
    BY <1>1, <2>1
  <2>3. detaching'[t] = detaching[t]
    BY <2>2
  <2> QED
    BY <1>1, <2>3 DEF Pending
<1>2. ASSUME NEW j \in 1..MaxTasks, IsDue(tasks'[j]), tasks'[j].tab = t, tasks'[j].session = s
      PROVE  Pending(s, t)
  BY <1>2, AlikeDue DEF Pending
<1> QED
  BY <1>1, <1>2 DEF Pending

LEMMA VoicedKept ==
  ASSUME UNCHANGED <<notices, stops>>, NEW s,
         \A j \in 1..MaxTasks : Alike(tasks[j], tasks'[j]) \/ ~IsTelling(tasks'[j])
  PROVE  Voiced(s)' => Voiced(s)
<1>1. Telling(s)' => Telling(s)
  BY AlikeDue DEF Telling
<1> QED
  BY <1>1 DEF Voiced, Told

(* The session a handler writes of is told of.                             *)
LEMMA WritesTells ==
  ASSUME TypeInv, NEW i \in 1..MaxTasks, Writes(i), UNCHANGED stops
  PROVE  /\ Len(notices) \in Nat /\ Len(notices') = Len(notices) + 1
         /\ \A k \in 1..Len(notices) : notices'[k] = notices[k]
         /\ notices'[Len(notices) + 1] = [session |-> tasks[i].session,
                                          reason |-> tasks[i].reason, life |-> stops]
         /\ \A s : Told(s)' => Told(s) \/ s = tasks[i].session
<1>1. /\ Len(notices) \in Nat /\ Len(notices') = Len(notices) + 1
      /\ \A k \in 1..Len(notices) : notices'[k] = notices[k]
      /\ notices'[Len(notices) + 1] = [session |-> tasks[i].session,
                                       reason |-> tasks[i].reason, life |-> stops]
  BY DEF TypeInv, SessionsOK, Writes
<1>2. ASSUME NEW s, Told(s)' PROVE Told(s) \/ s = tasks[i].session
  <2>1. PICK k \in 1..Len(notices') : notices'[k].session = s /\ notices'[k].life = stops
    BY <1>2 DEF Told
  <2>2. CASE k \in 1..Len(notices)
    BY <1>1, <2>1, <2>2 DEF Told
  <2>3. CASE k = Len(notices) + 1
    BY <1>1, <2>1, <2>3
  <2> QED
    BY <1>1, <2>2, <2>3
<1> QED
  BY <1>1, <1>2

(* The handler that tells of a due session is the first to speak of it.    *)
LEMMA TellsFirst ==
  ASSUME OwnInv, EndsInv, NEW i \in 1..MaxTasks, IsDue(tasks[i]), tasks[i].tab \notin recent
  PROVE  LET s == tasks[i].session t == tasks[i].tab IN
           /\ s \in Numbers /\ t \in Tabs /\ Pending(s, t) /\ ~Voiced(s) /\ s <= sessions
           /\ \A u \in Tabs : session[u] # s /\ (Pending(s, u) => u = t)
<1> DEFINE s == tasks[i].session
           t == tasks[i].tab
<1>1. s \in Numbers /\ t \in Tabs
  BY TaskFields DEF EndsInv, Numbers
<1>2. Pending(s, t)
  BY DEF Pending
<1>3. ~Voiced(s) /\ s <= sessions
  BY <1>1, <1>2 DEF OwnInv, Of
<1>4. \A u \in Tabs : Pending(s, u) => u = t
  BY <1>1, <1>2 DEF OwnInv, Of
<1>5. \A u \in Tabs : session[u] # s
  <2> SUFFICES ASSUME NEW u \in Tabs, session[u] = s PROVE FALSE
    OBVIOUS
  <2>1. u = t
    BY <1>1, <1>2 DEF OwnInv, Of
  <2> QED
    BY <1>1, <1>2, <2>1 DEF OwnInv
<1> QED
  BY <1>1, <1>2, <1>3, <1>4, <1>5

LEMMA OwnStep ==
  ASSUME TypeInv, EndsInv, OwnInv, WordInv, Change
  PROVE  OwnInv'
<1> DEFINE D == [session : Nat, reason : Reasons]
<1>0. session \in [Tabs -> Nat] /\ detaching \in [Tabs -> D] /\ sessions \in Nat
  BY DEF TypeInv, SessionsOK
<1>1. CASE Quiet
  <2>1. \A s \in Numbers, t \in Tabs : Pending(s, t)' => Pending(s, t)
    BY <1>1, PendingKept DEF Quiet
  <2>2. \A s \in Numbers : Voiced(s)' => Voiced(s)
    BY <1>1, VoicedKept DEF Quiet, noticeVars
  <2> QED
    BY <1>1, <2>1, <2>2, OwnKept DEF Quiet, noticeVars
<1>2. CASE Restarts
  <2>1. \A s \in Numbers, t \in Tabs : Pending(s, t)' => Pending(s, t)
    BY <1>2, PendingKept DEF Restarts, Plain
  <2>2. \A s \in Numbers : ~Voiced(s)'
    <3> SUFFICES ASSUME NEW s \in Numbers, NEW k \in 1..Len(notices), notices[k].life = stops + 1
                 PROVE  FALSE
      BY <1>2 DEF Voiced, Told, Telling, Restarts, Plain
    <3>1. notices[k].life <= stops /\ stops \in Nat
      BY DEF WordInv, TypeInv, SessionsOK
    <3> QED
      BY <3>1
  <2> QED
    BY <1>2, <2>1, <2>2, OwnKept DEF Restarts
<1>3. ASSUME NEW t \in Tabs, Ends(t) PROVE OwnInv'
  <2>1. ASSUME NEW s \in Numbers, NEW u \in Tabs, Pending(s, u)'
        PROVE  Pending(s, u) \/ (session[u] = s /\ session'[u] = 0)
    <3>1. CASE detaching'[u] = detaching[u]
      <4>1. ASSUME NEW j \in 1..MaxTasks, IsDue(tasks'[j]), tasks'[j].tab = u,
                   tasks'[j].session = s
            PROVE  Pending(s, u)
        BY <1>3, <4>1, AlikeDue DEF Ends, AllAlike, Pending
      <4> QED
        BY <2>1, <3>1, <4>1 DEF Pending
    <3>2. CASE /\ u = t /\ detaching'[t].session = session[t] /\ session'[t] = 0
      <4>1. ASSUME NEW j \in 1..MaxTasks, IsDue(tasks'[j]), tasks'[j].tab = u,
                   tasks'[j].session = s
            PROVE  Pending(s, u)
        BY <1>3, <4>1, AlikeDue DEF Ends, AllAlike, Pending
      <4> QED
        BY <2>1, <3>2, <4>1 DEF Pending
    <3> QED
      BY <1>0, <1>3, <3>1, <3>2 DEF Ends
  <2>2. \A s \in Numbers : Voiced(s)' => Voiced(s)
    BY <1>3, VoicedKept DEF Ends, AllAlike
  <2>3. \A u \in Tabs : session'[u] \in {session[u], 0}
    BY <1>0, <1>3 DEF Ends
  <2> QED
    BY <1>3, <2>1, <2>2, <2>3, OwnKept DEF Ends
<1>4. ASSUME NEW t \in Tabs, GivesUp(t) PROVE OwnInv'
  <2>1. \A s \in Numbers, u \in Tabs : Pending(s, u)' => Pending(s, u)
    BY <1>4, PendingKept DEF GivesUp, AllAlike
  <2>2. \A s \in Numbers : Voiced(s)' => Voiced(s)
    BY <1>4, VoicedKept DEF GivesUp, AllAlike
  <2> QED
    BY <1>4, <2>1, <2>2, OwnKept DEF GivesUp
<1>5. ASSUME NEW t \in Tabs, TimesOut(t) PROVE OwnInv'
  <2>1. \A s \in Numbers, u \in Tabs : Pending(s, u)' => Pending(s, u)
    BY <1>5, PendingKept DEF TimesOut, AllAlike
  <2>2. \A s \in Numbers : Voiced(s)' => Voiced(s)
    BY <1>5, VoicedKept DEF TimesOut, AllAlike
  <2>3. \A s \in Numbers : ~Pending(s, t)
    BY <1>5 DEF TimesOut, Pending, None, Numbers
  <2>4. \A s \in Numbers, u \in Tabs : Pending(s, u) /\ u \in recent => u \in recent'
    BY <1>5, <2>3 DEF TimesOut
  <2> QED
    BY <1>5, <2>1, <2>2, <2>4, OwnKept DEF TimesOut
<1>6. ASSUME NEW i \in 1..MaxTasks, Drops(i) PROVE OwnInv'
  <2>1. \A s \in Numbers, u \in Tabs : Pending(s, u)' => Pending(s, u)
    BY <1>6, PendingKept DEF Drops, AllAlike
  <2>2. \A s \in Numbers : Voiced(s)' => Voiced(s)
    BY <1>6, VoicedKept DEF Drops, AllAlike
  <2> QED
    BY <1>6, <2>1, <2>2, OwnKept DEF Drops
<1>7. ASSUME NEW i \in 1..MaxTasks, Tells(i) PROVE OwnInv'
  <2>1. ~IsDue(tasks'[i])
    BY <1>7 DEF Tells, Plain
  <2>2. \A s \in Numbers, u \in Tabs : Pending(s, u)' => Pending(s, u)
    BY <1>7, <2>1, PendingKept DEF Tells, OthersAlike
  <2>3. ASSUME NEW s \in Numbers, Voiced(s)' PROVE Voiced(s) \/ s = tasks[i].session
    <3>1. CASE Told(s)'
      BY <1>7, <3>1, WritesTells DEF Tells, Voiced, Told
    <3>2. ASSUME NEW j \in 1..MaxTasks, IsTelling(tasks'[j]), tasks'[j].session = s
          PROVE  Voiced(s) \/ s = tasks[i].session
      <4>1. CASE j = i
        BY <1>7, <3>2, <4>1 DEF Tells, Plain
      <4>2. CASE j # i
        BY <1>7, <3>2, <4>2, AlikeDue DEF Tells, OthersAlike, Voiced, Telling
      <4> QED
        BY <4>1, <4>2
    <3> QED
      BY <2>3, <3>1, <3>2 DEF Voiced, Telling
  <2>4. \A u \in Tabs : session[u] # tasks[i].session
                        /\ (Pending(tasks[i].session, u) => u \in recent')
    BY <1>7, TellsFirst DEF Tells
  <2>5. recent \subseteq recent' /\ UNCHANGED <<session, sessions>>
    BY <1>7 DEF Tells
  <2> QED
    BY <2>2, <2>3, <2>4, <2>5, OwnKept
<1>8. ASSUME NEW i \in 1..MaxTasks, TellsLate(i) PROVE OwnInv'
  <2>1. \A s \in Numbers, u \in Tabs : Pending(s, u)' => Pending(s, u)
    BY <1>8, PendingKept DEF TellsLate, OthersAlike, Plain
  <2>2. ASSUME NEW s \in Numbers, Voiced(s)' PROVE Voiced(s)
    <3>1. CASE Told(s)'
      BY <1>8, <3>1, WritesTells DEF TellsLate, Voiced, Telling
    <3>2. CASE Telling(s)'
      BY <1>8, <3>2, AlikeDue DEF TellsLate, OthersAlike, Plain, Voiced, Telling
    <3> QED
      BY <2>2, <3>1, <3>2 DEF Voiced
  <2> QED
    BY <1>8, <2>1, <2>2, OwnKept DEF TellsLate
<1>9. ASSUME NEW i \in 1..MaxTasks, Lights(i) \/ AsksToDetach(i) PROVE OwnInv'
  <2>1. /\ UNCHANGED <<session, sessions, detaching, stops, recent, notices>> /\ OthersAlike(i)
        /\ ~IsDue(tasks'[i]) /\ ~IsTelling(tasks'[i])
    BY <1>9 DEF Lights, AsksToDetach, Plain
  <2>2. \A s \in Numbers, u \in Tabs : Pending(s, u)' => Pending(s, u)
    BY <2>1, PendingKept DEF OthersAlike
  <2>3. \A s \in Numbers : Voiced(s)' => Voiced(s)
    BY <2>1, VoicedKept DEF OthersAlike
  <2> QED
    BY <2>1, <2>2, <2>3, OwnKept
<1>10. ASSUME NEW i \in 1..MaxTasks, NEW t \in Tabs, NoticeStarts(t, i) PROVE OwnInv'
  <2>1. ASSUME NEW s \in Numbers, NEW u \in Tabs, Pending(s, u)' PROVE Pending(s, u)
    <3>1. CASE detaching'[u].session = s
      <4>1. u # t
        BY <1>0, <1>10, <3>1 DEF NoticeStarts, None, Numbers
      <4> QED
        BY <1>0, <1>10, <3>1, <4>1 DEF NoticeStarts, Pending
    <3>2. ASSUME NEW j \in 1..MaxTasks, IsDue(tasks'[j]), tasks'[j].tab = u, tasks'[j].session = s
          PROVE  Pending(s, u)
      <4>1. CASE j = i
        BY <1>10, <3>2, <4>1 DEF NoticeStarts, Pending
      <4>2. CASE j # i
        BY <1>10, <3>2, <4>2, AlikeDue DEF NoticeStarts, OthersAlike, Pending
      <4> QED
        BY <4>1, <4>2
    <3> QED
      BY <2>1, <3>1, <3>2 DEF Pending
  <2>2. \A s \in Numbers : Voiced(s)' => Voiced(s)
    BY <1>10, VoicedKept DEF NoticeStarts, OthersAlike
  <2> QED
    BY <1>10, <2>1, <2>2, OwnKept DEF NoticeStarts
<1>11. ASSUME NEW i \in 1..MaxTasks, NEW t \in Tabs, EndsForPopup(t, i) PROVE OwnInv'
  <2>1. ASSUME NEW s \in Numbers, NEW u \in Tabs, Pending(s, u)'
        PROVE  Pending(s, u) \/ (session[u] = s /\ session'[u] = 0)
    <3>1. CASE detaching'[u].session = s
      <4>1. detaching'[u] = detaching[u]
            \/ (u = t /\ detaching'[t].session = session[t] /\ session'[t] = 0)
        BY <1>0, <1>11 DEF EndsForPopup
      <4> QED
        BY <3>1, <4>1 DEF Pending
    <3>2. ASSUME NEW j \in 1..MaxTasks, IsDue(tasks'[j]), tasks'[j].tab = u, tasks'[j].session = s
          PROVE  Pending(s, u) \/ (session[u] = s /\ session'[u] = 0)
      <4>1. CASE j = i
        BY <1>0, <1>11, <3>2, <4>1 DEF EndsForPopup
      <4>2. CASE j # i
        BY <1>11, <3>2, <4>2, AlikeDue DEF EndsForPopup, OthersAlike, Pending
      <4> QED
        BY <4>1, <4>2
    <3> QED
      BY <2>1, <3>1, <3>2 DEF Pending
  <2>2. \A s \in Numbers : Voiced(s)' => Voiced(s)
    BY <1>11, VoicedKept DEF EndsForPopup, OthersAlike
  <2>3. \A u \in Tabs : session'[u] \in {session[u], 0}
    BY <1>0, <1>11 DEF EndsForPopup
  <2> QED
    BY <1>11, <2>1, <2>2, <2>3, OwnKept DEF EndsForPopup
<1>12. ASSUME NEW i \in 1..MaxTasks, NEW t \in Tabs, Begins(t, i) PROVE OwnInv'
  <2> DEFINE new == sessions + 1
  <2>1. \A s \in Numbers, u \in Tabs : Pending(s, u)' => Pending(s, u)
    BY <1>12, PendingKept DEF Begins, OthersAlike
  <2>2. \A s \in Numbers : Voiced(s)' => Voiced(s)
    BY <1>12, VoicedKept DEF Begins, OthersAlike
  <2>3. \A u \in Tabs : session'[u] = IF u = t THEN new ELSE session[u]
    BY <1>0, <1>12 DEF Begins
  <2>4. \A u \in Tabs : ~Of(new, u)
    BY <1>0 DEF OwnInv, Numbers
  <2>5. ~Voiced(new)
    BY <1>0 DEF WordInv, Voiced, Told, Telling
  <2> SUFFICES ASSUME NEW s \in Numbers, NEW u \in Tabs
               PROVE  /\ \A v \in Tabs : Of(s, u)' /\ Of(s, v)' => u = v
                      /\ session'[u] = s => ~Voiced(s)' /\ ~Pending(s, u)'
                      /\ Voiced(s)' /\ Pending(s, u)' => u \in recent'
                      /\ Of(s, u)' => s <= sessions'
    BY DEF OwnInv
  <2>6. recent' = recent /\ sessions' = new
    BY <1>12 DEF Begins
  <2>7. CASE s = new
    <3>1. \A v \in Tabs : ~Pending(s, v)' /\ (Of(s, v)' => v = t)
      BY <1>0, <2>1, <2>3, <2>4, <2>7 DEF Of
    <3> QED
      BY <1>0, <2>2, <2>5, <2>6, <2>7, <3>1
  <2>8. CASE s # new
    <3>1. \A v \in Tabs : (Of(s, v)' => Of(s, v)) /\ (session'[v] = s => session[v] = s)
      BY <2>1, <2>3, <2>8 DEF Of
    <3>2. Of(s, u) => s <= sessions
      BY DEF OwnInv
    <3>3. Of(s, u)' => s <= sessions'
      BY <1>0, <2>6, <3>1, <3>2 DEF Numbers
    <3> QED
      BY <2>1, <2>2, <2>6, <3>1, <3>3 DEF OwnInv
  <2> QED
    BY <2>7, <2>8
<1> QED
  BY <1>1, <1>2, <1>3, <1>4, <1>5, <1>6, <1>7, <1>8, <1>9, <1>10, <1>11, <1>12 DEF Change

LEMMA WordStep ==
  ASSUME TypeInv, EndsInv, OwnInv, WordInv, Change
  PROVE  WordInv'
<1>1. CASE Quiet
  BY <1>1, WordKept, AlikeDue DEF Quiet, noticeVars
<1>2. CASE Restarts
  BY <1>2, WordKept DEF Restarts, Plain
<1>3. ASSUME UNCHANGED <<notices, stops>>, sessions' \in {sessions, sessions + 1},
             \A j \in 1..MaxTasks : Alike(tasks[j], tasks'[j]) \/ ~IsTelling(tasks'[j])
      PROVE  WordInv'
  BY <1>3, WordKept, AlikeDue
<1>4. ASSUME NEW t \in Tabs, Ends(t) \/ GivesUp(t) \/ TimesOut(t) PROVE WordInv'
  BY <1>3, <1>4 DEF Ends, GivesUp, TimesOut, AllAlike
<1>5. ASSUME NEW i \in 1..MaxTasks, Drops(i) \/ Lights(i) \/ AsksToDetach(i) PROVE WordInv'
  BY <1>3, <1>5 DEF Drops, Lights, AsksToDetach, AllAlike, OthersAlike, Plain
<1>6. ASSUME NEW i \in 1..MaxTasks, NEW t \in Tabs,
             NoticeStarts(t, i) \/ EndsForPopup(t, i) \/ Begins(t, i)
      PROVE  WordInv'
  BY <1>3, <1>6 DEF NoticeStarts, EndsForPopup, Begins, OthersAlike
(* A notice is written of a session that nobody else speaks of.            *)
<1>7. ASSUME NEW i \in 1..MaxTasks, Writes(i), UNCHANGED <<stops, sessions>>, OthersAlike(i),
             Plain(tasks'[i]), tasks[i].session \in Numbers, tasks[i].session <= sessions,
             ~Told(tasks[i].session),
             \A j \in (1..MaxTasks) \ {i} : ~(IsTelling(tasks[j])
                                             /\ tasks[j].session = tasks[i].session)
      PROVE  WordInv'
  <2> DEFINE s0 == tasks[i].session
             last == Len(notices) + 1
  <2>1. /\ Len(notices) \in Nat /\ Len(notices') = last
        /\ \A k \in 1..Len(notices) : notices'[k] = notices[k]
        /\ notices'[last].session = s0 /\ notices'[last].life = stops
        /\ \A s : Told(s)' => Told(s) \/ s = s0
    <3>1. notices'[last] = [session |-> s0, reason |-> tasks[i].reason, life |-> stops]
      BY <1>7, WritesTells
    <3>2. notices'[last].session = s0 /\ notices'[last].life = stops
      BY <3>1
    <3>3. /\ Len(notices) \in Nat /\ Len(notices') = last
          /\ \A k \in 1..Len(notices) : notices'[k] = notices[k]
          /\ \A s : Told(s)' => Told(s) \/ s = s0
      BY <1>7, WritesTells
    <3> QED
      BY <3>2, <3>3
  <2>2. ~IsTelling(tasks'[i])
    BY <1>7 DEF Plain
  <2>3. \A j \in 1..MaxTasks : IsTelling(tasks'[j]) =>
          /\ j # i /\ IsTelling(tasks[j]) /\ tasks'[j].session = tasks[j].session
          /\ tasks[j].session # s0
    BY <1>7, <2>2, AlikeDue DEF OthersAlike
  <2>4. \A s \in Numbers : ~(Told(s)' /\ Telling(s)')
    BY <2>1, <2>3 DEF WordInv, Telling
  <2>5. \A j, k \in 1..MaxTasks :
          /\ IsTelling(tasks'[j]) => tasks'[j].session \in Numbers /\ tasks'[j].session <= sessions'
          /\ IsTelling(tasks'[j]) /\ IsTelling(tasks'[k]) /\ tasks'[j].session = tasks'[k].session
               => j = k
    BY <1>7, <2>3 DEF WordInv
  <2>6. \A k \in 1..Len(notices) : ~(notices[k].session = s0 /\ notices[k].life = stops)
    BY <1>7 DEF Told
  <2>7. ASSUME NEW j \in 1..Len(notices'), NEW k \in 1..Len(notices')
        PROVE  /\ notices'[j].session \in Numbers /\ notices'[j].session <= sessions'
               /\ notices'[j].life <= stops'
               /\ notices'[j].life = notices'[k].life /\ notices'[j].session = notices'[k].session
                    => j = k
    <3>1. (j \in 1..Len(notices) \/ j = last) /\ (k \in 1..Len(notices) \/ k = last)
      BY <2>1
    <3>2. stops <= stops
      BY DEF TypeInv, SessionsOK
    <3>3. CASE j \in 1..Len(notices) /\ k \in 1..Len(notices)
      BY <1>7, <2>1, <3>3 DEF WordInv
    <3>4. CASE j \in 1..Len(notices) /\ k = last
      BY <1>7, <2>1, <2>6, <3>4 DEF WordInv
    <3>5. CASE j = last /\ k \in 1..Len(notices)
      BY <1>7, <2>1, <2>6, <3>2, <3>5
    <3>6. CASE j = last /\ k = last
      BY <1>7, <2>1, <3>2, <3>6
    <3> QED
      BY <3>1, <3>3, <3>4, <3>5, <3>6
  <2> QED
    BY <2>4, <2>5, <2>7 DEF WordInv
<1>8. ASSUME NEW i \in 1..MaxTasks, Tells(i) PROVE WordInv'
  <2> DEFINE s0 == tasks[i].session
  <2>1. s0 \in Numbers /\ s0 <= sessions /\ ~Told(s0) /\ ~Telling(s0)
    BY <1>8, TellsFirst DEF Tells, Voiced
  <2>2. UNCHANGED <<stops, sessions>> /\ OthersAlike(i)
    BY <1>8 DEF Tells
  <2>3. CASE Plain(tasks'[i]) /\ Writes(i)
    BY <1>7, <2>1, <2>2, <2>3 DEF Telling
  <2>4. CASE tasks'[i].session = s0 /\ UNCHANGED notices
    <3>1. \A s : Told(s)' <=> Told(s)
      BY <2>2, <2>4 DEF Told
    <3>2. \A j \in (1..MaxTasks) \ {i} : IsTelling(tasks'[j]) =>
            /\ IsTelling(tasks[j]) /\ tasks'[j].session = tasks[j].session
            /\ tasks[j].session # s0
      BY <2>1, <2>2, AlikeDue DEF OthersAlike, Telling
    <3>3. \A s \in Numbers : ~(Told(s)' /\ Telling(s)')
      <4> SUFFICES ASSUME NEW s \in Numbers, Told(s), NEW j \in 1..MaxTasks,
                          IsTelling(tasks'[j]), tasks'[j].session = s
                   PROVE  FALSE
        BY <3>1 DEF Telling
      <4>1. CASE j = i
        BY <2>1, <2>4, <4>1
      <4>2. CASE j # i
        BY <3>2, <4>2 DEF WordInv, Telling
      <4> QED
        BY <4>1, <4>2
    <3>4. \A j, k \in 1..MaxTasks :
            /\ IsTelling(tasks'[j]) => tasks'[j].session \in Numbers
                                       /\ tasks'[j].session <= sessions'
            /\ IsTelling(tasks'[j]) /\ IsTelling(tasks'[k])
                 /\ tasks'[j].session = tasks'[k].session => j = k
      BY <2>1, <2>2, <2>4, <3>2 DEF WordInv
    <3> QED
      BY <2>2, <2>4, <3>3, <3>4 DEF WordInv
  <2> QED
    BY <1>8, <2>3, <2>4 DEF Tells
<1>9. ASSUME NEW i \in 1..MaxTasks, TellsLate(i) PROVE WordInv'
  <2>1. tasks[i].session \in Numbers /\ tasks[i].session <= sessions
    BY <1>9 DEF TellsLate, WordInv
  <2>2. ~Told(tasks[i].session)
    BY <1>9, <2>1 DEF TellsLate, WordInv, Telling
  <2>3. \A j \in (1..MaxTasks) \ {i} : ~(IsTelling(tasks[j]) /\ tasks[j].session = tasks[i].session)
    BY <1>9 DEF TellsLate, WordInv
  <2> QED
    BY <1>7, <1>9, <2>1, <2>2, <2>3 DEF TellsLate
<1> QED
  BY <1>1, <1>2, <1>4, <1>5, <1>6, <1>8, <1>9 DEF Change

LEMMA InitWords == Init => OwnInv /\ WordInv
<1> SUFFICES ASSUME Init PROVE OwnInv /\ WordInv
  OBVIOUS
<1>1. \A i \in 1..MaxTasks : ~IsDue(tasks[i]) /\ ~IsTelling(tasks[i])
  BY IdleIsPlain DEF Init, Plain
<1>2. Len(notices) = 0
  BY DEF Init
<1>3. \A s \in Numbers, t \in Tabs : ~Pending(s, t)
  BY <1>1 DEF Init, None, Numbers, Pending
<1>4. \A s : ~Voiced(s)
  BY <1>1, <1>2 DEF Voiced, Told, Telling
<1>5. PICK on \in {{}} \cup {{t} : t \in Tabs} :
        sessions = Cardinality(on) /\ session = [t \in Tabs |-> IF t \in on THEN 1 ELSE 0]
  BY DEF Init
<1>6. \A t, u \in Tabs : \A s \in Numbers :
        session[t] = s => s <= sessions /\ (session[u] = s => t = u)
  <2>1. CASE on = {}
    BY <1>5, <2>1 DEF Numbers
  <2>2. CASE \E t \in Tabs : on = {t}
    <3>1. PICK x \in Tabs : on = {x}
      BY <2>2
    <3>2. sessions = 1
      BY <1>5, <3>1, FS_Singleton
    <3>3. \A t \in Tabs : session[t] = IF t = x THEN 1 ELSE 0
      BY <1>5, <3>1
    <3> QED
      BY <3>2, <3>3 DEF Numbers
  <2> QED
    BY <1>5, <2>1, <2>2
<1>7. OwnInv
  BY <1>3, <1>4, <1>6 DEF OwnInv, Of
<1>8. WordInv
  BY <1>1, <1>2, <1>4 DEF WordInv, Voiced
<1> QED
  BY <1>7, <1>8
-----------------------------------------------------------------------------
(* While the worker lives, the popup's own detach is known for what it is: *)
(* its mark stays until the browser's event for it is heard or dropped.    *)
Named == \A k \in 1..Len(notices) : notices[k].life = 0 => notices[k].reason # "own"

ReasonInv ==
  /\ Named
  /\ stops = 0 =>
    /\ \A i \in 1..MaxTasks :
         /\ IsDetaching(tasks[i]) /\ session[tasks[i].tab] # 0 => tasks[i].tab \in overrides
         /\ IsDue(tasks[i]) /\ tasks[i].reason = "own" => tasks[i].tab \in recent
         /\ IsTelling(tasks[i]) => tasks[i].reason # "own"
    /\ \A t \in Tabs : detaching[t].reason = "own" => t \in overrides \cup recent

LEMMA NamedKept ==
  ASSUME TypeInv, Named, UNCHANGED stops, NEW i \in 1..MaxTasks, Writes(i),
         stops = 0 => tasks[i].reason # "own"
  PROVE  Named'
<1> SUFFICES ASSUME NEW k \in 1..Len(notices'), notices'[k].life = 0
             PROVE  notices'[k].reason # "own"
  BY DEF Named
<1>1. CASE k \in 1..Len(notices)
  BY <1>1, WritesTells DEF Named
<1>2. CASE k = Len(notices) + 1
  <2>1. notices'[k] = [session |-> tasks[i].session, reason |-> tasks[i].reason, life |-> stops]
    BY <1>2, WritesTells
  <2> QED
    BY <2>1
<1>3. Len(notices) \in Nat /\ Len(notices') = Len(notices) + 1
  BY WritesTells
<1> QED
  BY <1>1, <1>2, <1>3

LEMMA ReasonKept ==
  ASSUME TypeInv, ReasonInv, stops = 0, UNCHANGED stops,
         \A t \in Tabs : /\ session[t] # 0 /\ session'[t] # 0 /\ t \in overrides => t \in overrides'
                         /\ detaching'[t].reason = "own" =>
                              t \in overrides' \cup recent' \/ (detaching'[t] = detaching[t]
                                /\ (t \in overrides \cup recent => t \in overrides' \cup recent')),
         \A j \in 1..MaxTasks : IsDue(tasks[j]) /\ tasks[j].tab \in recent
                                  => tasks[j].tab \in recent',
         \A j \in 1..MaxTasks :
           \/ /\ Alike(tasks[j], tasks'[j])
              /\ IsDetaching(tasks[j]) /\ session'[tasks[j].tab] # 0 =>
                   session[tasks[j].tab] # 0
           \/ /\ IsDetaching(tasks'[j]) => tasks'[j].tab \in overrides'
              /\ IsDue(tasks'[j]) /\ tasks'[j].reason = "own" => tasks'[j].tab \in recent'
              /\ IsTelling(tasks'[j]) => tasks'[j].reason # "own",
         \/ UNCHANGED notices
         \/ \E i \in 1..MaxTasks : Writes(i) /\ tasks[i].reason # "own"
  PROVE  ReasonInv'
<1>1. ASSUME NEW j \in 1..MaxTasks
      PROVE  /\ IsDetaching(tasks'[j]) /\ session'[tasks'[j].tab] # 0 => tasks'[j].tab \in overrides'
             /\ IsDue(tasks'[j]) /\ tasks'[j].reason = "own" => tasks'[j].tab \in recent'
             /\ IsTelling(tasks'[j]) => tasks'[j].reason # "own"
  <2>1. CASE /\ Alike(tasks[j], tasks'[j])
             /\ IsDetaching(tasks[j]) /\ session'[tasks[j].tab] # 0 => session[tasks[j].tab] # 0
    <3>1. IsDetaching(tasks'[j]) => /\ IsDetaching(tasks[j]) /\ tasks'[j].tab = tasks[j].tab
                                    /\ tasks[j].tab \in Tabs
      BY <2>1, AlikeDue, TaskFields
    <3>2. IsDetaching(tasks'[j]) /\ session'[tasks'[j].tab] # 0 => tasks'[j].tab \in overrides'
      BY <2>1, <3>1 DEF ReasonInv
    <3>3. IsDue(tasks'[j]) /\ tasks'[j].reason = "own" => tasks'[j].tab \in recent'
      BY <2>1, AlikeDue DEF ReasonInv
    <3>4. IsTelling(tasks'[j]) => tasks'[j].reason # "own"
      BY <2>1, AlikeDue DEF ReasonInv
    <3> QED
      BY <3>2, <3>3, <3>4
  <2> QED
    BY <2>1
<1>2. \A t \in Tabs : detaching'[t].reason = "own" => t \in overrides' \cup recent'
  BY DEF ReasonInv
<1>3. Named'
  BY NamedKept DEF ReasonInv, Named
<1> QED
  BY <1>1, <1>2, <1>3 DEF ReasonInv

LEMMA ReasonStep ==
  ASSUME TypeInv, EndsInv, ReasonInv, Change
  PROVE  ReasonInv'
<1> DEFINE D == [session : Nat, reason : Reasons]
<1>0. session \in [Tabs -> Nat] /\ detaching \in [Tabs -> D] /\ stops \in Nat
  BY DEF TypeInv, SessionsOK
<1>1. CASE Restarts
  BY <1>0, <1>1 DEF Restarts, ReasonInv, Named
<1> SUFFICES ASSUME ~Restarts PROVE ReasonInv'
  BY <1>1
<1>15. UNCHANGED stops /\ (UNCHANGED notices \/ \E i \in 1..MaxTasks : Writes(i))
  BY DEF Change, Quiet, noticeVars, Ends, GivesUp, TimesOut, Drops, Tells, TellsLate, Lights,
         AsksToDetach, NoticeStarts, EndsForPopup, Begins
<1>16. CASE stops # 0
  <2>1. Named'
    <3>1. CASE UNCHANGED notices
      BY <3>1 DEF ReasonInv, Named
    <3>2. CASE \E i \in 1..MaxTasks : Writes(i)
      BY <1>15, <1>16, <3>2, NamedKept DEF ReasonInv
    <3> QED
      BY <1>15, <3>1, <3>2
  <2> QED
    BY <1>15, <1>16, <2>1 DEF ReasonInv
<1> SUFFICES ASSUME stops = 0 PROVE ReasonInv'
  BY <1>16
<1>2. stops = 0 /\ stops' = stops
  BY <1>15
(* The marks stay where a session lasts, or its end was recorded.          *)
<1>3. ASSUME NEW i \in 1..MaxTasks, Forgets(i), IsDue(tasks[i]), tasks[i].tab \in recent'
      PROVE  \A t \in Tabs : /\ session[t] # 0 /\ t \in overrides => t \in overrides'
                             /\ t \in overrides => t \in overrides' \cup recent'
  BY <1>3 DEF Forgets, EndsInv
<1>4. CASE Quiet
  BY <1>2, <1>4, ReasonKept DEF Quiet, noticeVars
<1>5. ASSUME NEW t \in Tabs, Ends(t) PROVE ReasonInv'
  <2>1. \A u \in Tabs : /\ session'[u] \in {session[u], 0}
                        /\ detaching'[u].reason = "own" => detaching'[u] = detaching[u]
    BY <1>0, <1>5 DEF Ends
  <2>2. \A j \in 1..MaxTasks : IsDetaching(tasks[j]) => tasks[j].tab \in Tabs
    BY TaskFields
  <2> QED
    BY <1>2, <1>5, <2>1, <2>2, ReasonKept DEF Ends, AllAlike
<1>6. ASSUME NEW t \in Tabs, GivesUp(t) PROVE ReasonInv'
  <2>1. \A u \in Tabs : /\ session[u] # 0 /\ u \in overrides => u \in overrides'
                        /\ detaching[u].reason = "own" /\ u \in overrides => u \in overrides'
    BY <1>6 DEF GivesUp, None
  <2> QED
    BY <1>2, <1>6, <2>1, ReasonKept DEF GivesUp, AllAlike
<1>7. ASSUME NEW t \in Tabs, TimesOut(t) PROVE ReasonInv'
  <2>1. \A u \in Tabs : detaching[u].reason = "own" /\ u \in recent => u \in recent'
    BY <1>7 DEF TimesOut, None
  <2>2. \A j \in 1..MaxTasks : IsDue(tasks[j]) /\ tasks[j].tab \in recent => tasks[j].tab \in recent'
    BY <1>7 DEF TimesOut
  <2> QED
    BY <1>2, <1>7, <2>1, <2>2, ReasonKept DEF TimesOut, AllAlike
<1>8. ASSUME NEW i \in 1..MaxTasks, Drops(i) PROVE ReasonInv'
  BY <1>2, <1>3, <1>8, ReasonKept DEF Drops, AllAlike
<1>9. ASSUME NEW i \in 1..MaxTasks, Tells(i) PROVE ReasonInv'
  <2>1. tasks[i].reason # "own"
    BY <1>2, <1>9 DEF Tells, ReasonInv
  <2>2. \A t \in Tabs : /\ session[t] # 0 /\ t \in overrides => t \in overrides'
                        /\ t \in overrides => t \in overrides' \cup recent'
    BY <1>3, <1>9 DEF Tells
  <2>3. ~IsDetaching(tasks'[i]) /\ ~IsDue(tasks'[i])
        /\ (IsTelling(tasks'[i]) => tasks'[i].reason # "own")
    BY <1>9, <2>1 DEF Tells, Plain
  <2>4. UNCHANGED notices \/ Writes(i)
    BY <1>9 DEF Tells
  <2>5. /\ UNCHANGED <<session, detaching>> /\ recent \subseteq recent' /\ OthersAlike(i)
    BY <1>9 DEF Tells
  <2> QED
    BY <1>2, <2>1, <2>2, <2>3, <2>4, <2>5, ReasonKept DEF OthersAlike
<1>10. ASSUME NEW i \in 1..MaxTasks, TellsLate(i) PROVE ReasonInv'
  <2>1. tasks[i].reason # "own"
    BY <1>2, <1>10 DEF TellsLate, ReasonInv
  <2> QED
    BY <1>2, <1>10, <2>1, ReasonKept DEF TellsLate, Plain, OthersAlike
<1>11. ASSUME NEW i \in 1..MaxTasks, Lights(i) \/ AsksToDetach(i) PROVE ReasonInv'
  <2>1. /\ UNCHANGED <<session, detaching, recent, notices>> /\ OthersAlike(i)
        /\ overrides \subseteq overrides'
        /\ IsDetaching(tasks'[i]) => tasks'[i].tab \in overrides'
        /\ ~IsDue(tasks'[i]) /\ ~IsTelling(tasks'[i])
    BY <1>11 DEF Lights, AsksToDetach, Plain
  <2> QED
    BY <1>2, <2>1, ReasonKept DEF OthersAlike
<1>12. ASSUME NEW i \in 1..MaxTasks, NEW t \in Tabs, NoticeStarts(t, i) PROVE ReasonInv'
  <2>1. \A u \in Tabs : /\ session[u] # 0 /\ u \in overrides => u \in overrides'
                        /\ detaching'[u].reason = "own" =>
                             /\ detaching'[u] = detaching[u]
                             /\ u \in overrides => u \in overrides'
    BY <1>0, <1>12 DEF NoticeStarts, EndsInv, None
  <2>2. ~IsDetaching(tasks'[i]) /\ ~IsTelling(tasks'[i])
        /\ (tasks'[i].reason = "own" => tasks'[i].tab \in recent')
    BY <1>2, <1>12 DEF NoticeStarts, ReasonInv
  <2>3. UNCHANGED <<session, recent, notices>> /\ OthersAlike(i)
    BY <1>12 DEF NoticeStarts
  <2> QED
    BY <1>2, <2>1, <2>2, <2>3, ReasonKept DEF OthersAlike
<1>13. ASSUME NEW i \in 1..MaxTasks, NEW t \in Tabs, EndsForPopup(t, i) PROVE ReasonInv'
  <2>1. t \in overrides
    BY <1>2, <1>13 DEF EndsForPopup, ReasonInv
  <2>2. \A u \in Tabs : /\ session'[u] \in {session[u], 0}
                        /\ u # t => detaching'[u] = detaching[u]
    BY <1>0, <1>13 DEF EndsForPopup
  <2>3. ~IsDetaching(tasks'[i]) /\ ~IsTelling(tasks'[i]) /\ tasks'[i].reason # "own"
    BY <1>13 DEF EndsForPopup
  <2>4. UNCHANGED <<overrides, recent, notices>> /\ OthersAlike(i)
    BY <1>13 DEF EndsForPopup
  <2>5. \A j \in 1..MaxTasks : IsDetaching(tasks[j]) => tasks[j].tab \in Tabs
    BY TaskFields
  <2> QED
    BY <1>2, <2>1, <2>2, <2>3, <2>4, <2>5, ReasonKept DEF OthersAlike
<1>14. ASSUME NEW i \in 1..MaxTasks, NEW t \in Tabs, Begins(t, i) PROVE ReasonInv'
  <2>1. \A u \in Tabs : u # t => session'[u] = session[u]
    BY <1>0, <1>14 DEF Begins
  <2>2. \A j \in 1..MaxTasks : IsDetaching(tasks[j]) => tasks[j].tab \in Tabs /\ tasks[j].tab # t
    BY <1>14, TaskFields DEF Begins
  <2>3. ~IsDetaching(tasks'[i]) /\ ~IsDue(tasks'[i]) /\ ~IsTelling(tasks'[i])
    BY <1>14 DEF Begins
  <2>4. UNCHANGED <<detaching, overrides, recent, notices>> /\ OthersAlike(i)
    BY <1>14 DEF Begins
  <2> QED
    BY <1>2, <2>1, <2>2, <2>3, <2>4, ReasonKept DEF OthersAlike
<1> QED
  BY <1>4, <1>5, <1>6, <1>7, <1>8, <1>9, <1>10, <1>11, <1>12, <1>13, <1>14 DEF Change

(* The end of a session is told once in the worker's life, by the popup's  *)
(* name when it was the popup's doing, although the popup's handler and    *)
(* Chrome's event for it both publish (publishDetachRecord,                *)
(* detachReasonOverrides).                                                 *)
THEOREM ToldOnce == Spec => []DetachToldOnce
<1>1. Init => EndsInv /\ OwnInv /\ WordInv /\ ReasonInv
  <2>1. Init => ReasonInv
    <3> SUFFICES ASSUME Init PROVE ReasonInv
      OBVIOUS
    <3>1. \A i \in 1..MaxTasks : ~IsDue(tasks[i]) /\ ~IsTelling(tasks[i]) /\ ~IsDetaching(tasks[i])
      BY IdleIsPlain DEF Init, Plain
    <3>2. Len(notices) = 0 /\ \A t \in Tabs : detaching[t].reason # "own"
      BY DEF Init, None
    <3> QED
      BY <3>1, <3>2 DEF ReasonInv, Named
  <2> QED
    BY <2>1, InitEnds, InitWords
<1>2. TypeInv /\ EndsInv /\ OwnInv /\ WordInv /\ ReasonInv /\ [Next]_vars
        => EndsInv' /\ OwnInv' /\ WordInv' /\ ReasonInv'
  BY Changes, EndsStep, OwnStep, WordStep, ReasonStep
<1>3. TypeInv /\ WordInv /\ ReasonInv => DetachToldOnce
  <2> SUFFICES ASSUME TypeInv, WordInv, ReasonInv, NEW j \in 1..Len(notices),
                      NEW k \in 1..Len(notices), notices[j].life = notices[k].life
               PROVE  /\ notices[j].session = notices[k].session => j = k
                      /\ notices[j].life = 0 => notices[j].reason # "own"
    BY DEF DetachToldOnce
  <2>1. notices[j].session = notices[k].session => j = k
    BY DEF WordInv
  <2> QED
    BY <2>1 DEF ReasonInv, Named
<1> QED
  BY <1>1, <1>2, <1>3, TypeCorrect, PTL DEF Spec
-----------------------------------------------------------------------------
(* What is remembered of a tab.                                            *)
Entries == [id : RequestIds, url : URLs \cup {NoURL}]

IsState(x) ==
  /\ x \in [url : URLs \cup {NoURL}, options : Options, requests : Seq(Entries)]
  /\ Len(x.requests) <= MaxRequests

TabsInv == DOMAIN attachedTabs \subseteq Tabs /\ \A t \in DOMAIN attachedTabs : IsState(attachedTabs[t])

(* A request that is remembered leaves no more of them than there may be.  *)
LEMMA RememberKeeps ==
  ASSUME NEW requests \in Seq(Entries), Len(requests) <= MaxRequests, NEW entry \in Entries
  PROVE  /\ Remember(requests, entry.id, entry.url) \in Seq(Entries)
         /\ Len(Remember(requests, entry.id, entry.url)) <= MaxRequests
<1> DEFINE id == entry.id
           all == IF Knows(requests, id)
                  THEN [i \in 1..Len(requests) |-> IF requests[i].id = id THEN entry ELSE requests[i]]
                  ELSE Append(requests, entry)
           first == IF Len(all) > MaxRequests THEN Len(all) - MaxRequests + 1 ELSE 1
<1>1. Len(requests) \in Nat /\ \A i \in 1..Len(requests) : requests[i] \in Entries
  BY LenProperties, ElementOfSeq
<1>2. all \in Seq(Entries) /\ Len(all) \in Nat /\ \A i \in 1..Len(all) : all[i] \in Entries
  <2>1. all \in Seq(Entries)
    <3>1. CASE Knows(requests, id)
      <4>1. all \in [1..Len(requests) -> Entries]
        BY <1>1, <3>1
      <4> QED BY <1>1, <4>1
    <3>2. CASE ~Knows(requests, id)
      BY <3>2, AppendProperties
    <3> QED BY <3>1, <3>2
  <2> HIDE DEF all
  <2> QED BY <2>1, LenProperties, ElementOfSeq
<1>3. Remember(requests, id, entry.url) = SubSeq(all, first, Len(all))
  <2>1. entry = [id |-> id, url |-> entry.url]
    BY DEF Entries
  <2> QED BY <2>1 DEF Remember
<1> HIDE DEF all, id
<1>4. /\ first \in Int /\ Len(all) \in Int /\ first >= 1
      /\ first <= Len(all) => Len(all) - first + 1 <= MaxRequests
      /\ first > Len(all) => 0 <= MaxRequests
  BY <1>2, TapAssumption
<1> HIDE DEF first
<1>5. \A i \in first..Len(all) : all[i] \in Entries
  BY <1>2, <1>4
<1>6. /\ SubSeq(all, first, Len(all)) \in Seq(Entries)
      /\ Len(SubSeq(all, first, Len(all))) = IF first <= Len(all) THEN Len(all) - first + 1 ELSE 0
  BY <1>4, <1>5, SubSeqProperties
<1>7. Len(SubSeq(all, first, Len(all))) <= MaxRequests
  BY <1>4, <1>6
<1> QED BY <1>3, <1>6, <1>7 DEF id

LEMMA AfterEventKeeps ==
  ASSUME NEW state, IsState(state), NEW e \in PageEvents
  PROVE  IsState(AfterEvent(state, e)) /\ AfterEvent(state, e).options = state.options
<1> DEFINE kept == Remember(state.requests, e.request, e.url)
<1>1. /\ state \in [url : URLs \cup {NoURL}, options : Options, requests : Seq(Entries)]
      /\ Len(state.requests) <= MaxRequests /\ state.requests \in Seq(Entries)
  BY DEF IsState
<1>2. [id |-> e.request, url |-> e.url] \in Entries
  BY BrowserTapAssumption DEF Entries, IsEvent
<1>3. kept \in Seq(Entries) /\ Len(kept) <= MaxRequests
  BY <1>1, <1>2, RememberKeeps
<1> HIDE DEF kept
<1>4. IsState([state EXCEPT !.requests = kept]) /\ [state EXCEPT !.requests = kept].options = state.options
  BY <1>1, <1>3 DEF IsState
<1>5. AfterEvent(state, e) \in {state, [state EXCEPT !.requests = kept]}
  BY DEF AfterEvent, kept
<1> QED BY <1>4, <1>5

LEMMA TabStateKnown ==
  ASSUME NEW url \in URLs \cup {NoURL}, NEW o \in Options
  PROVE  IsState(TabState(url, o))
<1>1. <<>> \in Seq(Entries) /\ Len(<<>>) = 0 /\ 0 <= MaxRequests
  BY EmptySeq, TapAssumption
<1> QED BY <1>1 DEF IsState, TabState

(* What may become of what is remembered.                                  *)
TabsMove ==
  \/ attachedTabs' = attachedTabs \/ DOMAIN attachedTabs' = {}
  \/ \E t : attachedTabs' = Without(t)
  \/ \E t \in Tabs : \E state : IsState(state) /\ attachedTabs' = Set(t, state)

LEMMA TabsKept ==
  ASSUME TabsInv, TabsMove
  PROVE  TabsInv'
<1>1. CASE \E t : attachedTabs' = Without(t)
  BY <1>1 DEF TabsInv, Without, IsState
<1>2. ASSUME NEW t \in Tabs, NEW state, IsState(state), attachedTabs' = Set(t, state) PROVE TabsInv'
  BY <1>2 DEF TabsInv, Set, IsState
<1>3. CASE attachedTabs' = attachedTabs \/ DOMAIN attachedTabs' = {}
  BY <1>3 DEF TabsInv, IsState
<1> QED BY <1>1, <1>2, <1>3 DEF TabsMove

PagesInv == page \in [Tabs -> URLs \cup {NoURL}] /\ removing \subseteq Tabs /\ badge \subseteq Tabs

LEMMA HandleEventTabs ==
  ASSUME TabsInv, NEW t \in Tabs, NEW state, IsState(state), NEW task, task.event \in PageEvents,
         HandleEvent(t, state, task)
  PROVE  TabsMove
<1>1. IsState(AfterEvent(state, task.event))
  BY AfterEventKeeps
<1>2. attachedTabs' = Set(t, AfterEvent(state, task.event))
  BY DEF HandleEvent
<1> QED BY <1>1, <1>2 DEF TabsMove

LEMMA HasOptionsTabs ==
  ASSUME TabsInv, NEW i, NEW task, Asks(task), NEW o \in Options, HasOptions(i, task, o)
  PROVE  TabsMove
<1>1. CASE task.kind = "event" /\ task.tab \in DOMAIN attachedTabs
  <2>1. task \in EventTask
    BY <1>1 DEF Asks, EventTask, NoticeTask, PopupTask
  <2>2. task.event \in PageEvents /\ task.tab \in Tabs
    BY <2>1 DEF EventTask
  <2>3. IsState([attachedTabs[task.tab] EXCEPT !.options = o])
    BY <1>1 DEF TabsInv, IsState
  <2>4. HandleEvent(task.tab, [attachedTabs[task.tab] EXCEPT !.options = o], task)
    BY <1>1 DEF HasOptions
  <2> QED BY <2>2, <2>3, <2>4, HandleEventTabs
<1>2. CASE ~(task.kind = "event" /\ task.tab \in DOMAIN attachedTabs)
  <2>1. attachedTabs' = attachedTabs
    BY <1>2 DEF HasOptions
  <2> QED BY <2>1 DEF TabsMove
<1> QED BY <1>1, <1>2

LEMMA LoadOptionsTabs ==
  ASSUME TypeInv, TabsInv, NEW i, NEW task, Asks(task), LoadOptions(i, task)
  PROVE  TabsMove
<1>1. CASE cachedOptions # null
  <2>1. cachedOptions \in Options /\ HasOptions(i, task, cachedOptions)
    BY <1>1 DEF LoadOptions, TypeInv, OptionsOK
  <2> QED BY <2>1, HasOptionsTabs
<1>2. CASE cachedOptions = null
  BY <1>2 DEF LoadOptions, TabsMove
<1> QED BY <1>1, <1>2

(* A handler starts and asks for the options, or, of a tab that the tap is *)
(* attached to, goes on to detach.                                         *)
StartsTask ==
  \E i \in 1..MaxTasks : \E task :
    /\ FirstIdle(i) /\ Asks(task) /\ task \notin NoticeTask
    /\ task.kind = "event" => task.rules = stored
    /\ LoadOptions(i, task)

StartsDetach ==
  /\ \E i \in 1..MaxTasks : \E x \in PopupTask : FirstIdle(i) /\ x.at = "targets" /\ Becomes(i, x)
  /\ UNCHANGED <<attachedTabs, optionVars, queueVars, answers>>

LEMMA MessageStarts ==
  ASSUME TypeInv, NEW kind \in {"getStatus", "save", "attach", "detach"},
         NEW o \in Options \cup {null}, kind \in {"save", "attach"} => o \in Options,
         popup'.tab \in Tabs, Message(kind, o)
  PROVE  (StartsTask \/ StartsDetach) /\ UNCHANGED <<browserVars, noticeVars, badge>>
<1> DEFINE task == [kind |-> kind, at |-> "start", tab |-> popup'.tab, heard |-> TRUE, options |-> o,
                    session |-> 0, reason |-> "popup_detach"]
           targets == [task EXCEPT !.at = "targets"]
<1>1. /\ Asks(task) /\ task \notin NoticeTask /\ task.kind # "event"
      /\ targets \in PopupTask /\ targets.at = "targets"
  BY DEF Asks, PopupTask, NoticeTask
<1>2. PICK i \in 1..MaxTasks :
        /\ FirstIdle(i)
        /\ \/ Becomes(i, targets) /\ UNCHANGED <<attachedTabs, optionVars, queueVars, answers>>
           \/ LoadOptions(i, task)
  BY DEF Message
<1>3. UNCHANGED <<browserVars, noticeVars, badge>>
  BY DEF Message
<1> HIDE DEF task, targets
<1> QED BY <1>1, <1>2, <1>3 DEF StartsTask, StartsDetach

LEMMA StartSteps ==
  ASSUME TypeInv,
         \/ \E t \in Tabs : OpenPopup(t) \/ \E e \in PageEvents : OnEvent(t, e)
         \/ ClickAttach \/ ClickDetach \/ \E o \in Range(OptionSets) : ChangeInput(o)
  PROVE  (StartsTask \/ StartsDetach) /\ UNCHANGED <<browserVars, noticeVars, badge>>
<1>0. /\ popup \in [open : BOOLEAN, tab : Tabs, busy : BOOLEAN, attached : BOOLEAN, form : Options]
      /\ popup.tab \in Tabs /\ popup.form \in Options
  BY DEF TypeInv, PopupOK
<1>1. ASSUME NEW t \in Tabs, OpenPopup(t) PROVE popup'.tab \in Tabs /\ Message("getStatus", null)
  BY <1>1 DEF OpenPopup, Popup
<1>2. CASE ClickAttach
  <2>1. popup'.tab \in Tabs /\ Message("attach", popup.form)
    BY <1>0, <1>2 DEF ClickAttach
  <2> QED BY <1>0, <2>1, MessageStarts
<1>3. CASE ClickDetach
  <2>1. popup'.tab \in Tabs /\ Message("detach", null)
    BY <1>0, <1>3 DEF ClickDetach
  <2> QED BY <2>1, MessageStarts
<1>4. ASSUME NEW o \in Options, ChangeInput(o) PROVE popup'.tab \in Tabs /\ Message("save", o)
  BY <1>0, <1>4 DEF ChangeInput
<1>5. ASSUME NEW t \in Tabs, NEW e \in PageEvents, OnEvent(t, e)
      PROVE  StartsTask /\ UNCHANGED <<browserVars, noticeVars, badge>>
  <2> DEFINE task == [kind |-> "event", at |-> "start", tab |-> t, event |-> e,
                      options |-> null, rules |-> stored]
  <2>1. PICK i \in 1..MaxTasks : FirstIdle(i) /\ LoadOptions(i, task)
    BY <1>5 DEF OnEvent
  <2>2. Asks(task) /\ task \notin NoticeTask /\ task.rules = stored
    BY DEF Asks, EventTask, NoticeTask, TypeInv, OptionsOK
  <2>3. UNCHANGED <<browserVars, noticeVars, badge>>
    BY <1>5 DEF OnEvent
  <2> HIDE DEF task
  <2> QED BY <2>1, <2>2, <2>3 DEF StartsTask
<1> QED BY <1>1, <1>2, <1>3, <1>4, <1>5, MessageStarts DEF Options

(* Who waits for the storage has asked it.  Unless a save was made while   *)
(* others were loading the options, the cache and the answers that are     *)
(* under way are what is stored, and an event is judged by what was stored *)
(* when it was raised.  An event that waits for its tab has options.       *)
Waits(task) == task # Idle /\ task.at = "options"

HasTabOptions(task) == task.kind = "event" /\ task.at = "tab" => task.options \in Options

Fresh ==
  /\ cachedOptions \in {null, stored}
  /\ \A k \in 1..Len(loading) : loading[k].options = stored
  /\ \A i \in 1..MaxTasks : tasks[i].kind = "event" =>
       /\ tasks[i].at = "options" => tasks[i].rules = stored
       /\ tasks[i].at = "tab" => tasks[i].options = tasks[i].rules

RulesInv ==
  /\ overtaken \in BOOLEAN
  /\ \A i \in 1..MaxTasks : Waits(tasks[i]) => \E k \in 1..Len(loading) : loading[k].task = i
  /\ \A i \in 1..MaxTasks : HasTabOptions(tasks[i])
  /\ ~overtaken => Fresh

(* What is remembered is of a tab, and for each as much as there may be.   *)
LEMMA TabsStep ==
  ASSUME TypeInv, PagesInv, TabsInv, RulesInv, [Next]_vars
  PROVE  TabsMove
<1> USE DEF TabsMove
<1>1. CASE StartsTask \/ StartsDetach
  BY <1>1, LoadOptionsTabs DEF StartsTask, StartsDetach
<1>2. CASE OptionsLoaded
  <2>1. /\ loading \in Seq([task : 1..MaxTasks, options : Options]) /\ loading # <<>>
        /\ HasOptions(Head(loading).task, tasks[Head(loading).task], Head(loading).options)
    BY <1>2 DEF OptionsLoaded, TypeInv, LoadingOK
  <2>2. Head(loading) \in [task : 1..MaxTasks, options : Options]
    BY <2>1, HeadTailProperties
  <2>3. Head(loading) = loading[1] /\ 1 \in 1..Len(loading)
    BY <2>1, EmptySeq
  <2>4. tasks[Head(loading).task] \in Task /\ tasks[Head(loading).task].at = "options"
    BY <2>3 DEF TypeInv, LoadingOK
  <2>5. Asks(tasks[Head(loading).task])
    BY <2>2, <2>4, WaitingAsks DEF TypeInv
  <2> QED BY <2>1, <2>2, <2>5, HasOptionsTabs
<1>3. ASSUME NEW i \in 1..MaxTasks, EventTab(i) PROVE TabsMove
  <2>1. tasks[i].kind = "event" /\ tasks[i].at = "tab"
    BY <1>3 DEF EventTab, At
  <2>2. tasks[i] \in EventTask /\ ~MayLack(tasks[i])
    BY <2>1 DEF TypeInv, TasksOK, Task, Idle, EventTask, NoticeTask, PopupTask, MayLack
  <2>3. tasks[i].tab \in Tabs /\ tasks[i].event \in PageEvents /\ tasks[i].options \in Options \cup {null}
    BY <2>2 DEF EventTask
  <2>4. CASE page[tasks[i].tab] = NoURL
    BY <1>3, <2>4 DEF EventTab
  <2>5. CASE page[tasks[i].tab] # NoURL
    <3>1. HandleEvent(tasks[i].tab, TabState(page[tasks[i].tab], tasks[i].options), tasks[i])
      BY <1>3, <2>5 DEF EventTab
    <3>2. page[tasks[i].tab] \in URLs \cup {NoURL}
      BY <2>3 DEF PagesInv
    <3>3. tasks[i].options \in Options
      BY <2>1 DEF RulesInv, HasTabOptions
    <3> QED BY <2>3, <3>1, <3>2, <3>3, HandleEventTabs, TabStateKnown
  <2> QED BY <2>4, <2>5
<1>4. CASE AnswerReturns
  <2>1. answers \in Seq([options : Options, tab : Tabs, heard : BOOLEAN]) /\ answers # <<>>
    BY <1>4 DEF AnswerReturns, TypeInv, PopupOK
  <2>2. Head(answers) \in [options : Options, tab : Tabs, heard : BOOLEAN]
    BY <2>1, HeadTailProperties
  <2>3. Head(answers).tab \in Tabs /\ page[Head(answers).tab] \in URLs \cup {NoURL}
        /\ Head(answers).options \in Options
    BY <2>2 DEF PagesInv
  <2>4. \/ attachedTabs' = attachedTabs
        \/ attachedTabs' = Set(Head(answers).tab, TabState(page[Head(answers).tab], Head(answers).options))
    BY <1>4 DEF AnswerReturns
  <2>5. IsState(TabState(page[Head(answers).tab], Head(answers).options))
    BY <2>3, TabStateKnown
  <2> QED BY <2>3, <2>4, <2>5
<1>5. ASSUME NEW i \in 1..MaxTasks, AttachTargets(i) \/ Attached(i) PROVE TabsMove
  <2>1. tasks[i].kind = "attach"
    BY <1>5 DEF AttachTargets, Attached, At
  <2>2. tasks[i] \in PopupTask /\ tasks[i].options \in Options
    BY <2>1, IsOfPopup DEF TypeInv, TasksOK
  <2>3. tasks[i].tab \in Tabs /\ page[tasks[i].tab] \in URLs \cup {NoURL}
    BY <2>2 DEF PopupTask, PagesInv
  <2>4. \/ attachedTabs' = attachedTabs
        \/ attachedTabs' = Set(tasks[i].tab, TabState(page[tasks[i].tab], tasks[i].options))
    BY <1>5 DEF AttachTargets, Attached
  <2>5. IsState(TabState(page[tasks[i].tab], tasks[i].options))
    BY <2>2, <2>3, TabStateKnown
  <2> QED BY <2>3, <2>4, <2>5
<1>6. ASSUME NEW i \in 1..MaxTasks, PublishDetach(i) PROVE TabsMove
  <2>1. tasks[i].kind = "notice" /\ tasks[i].at = "badge"
    BY <1>6 DEF PublishDetach, At
  <2>2. Asks(tasks[i])
    BY <2>1, IsNotice DEF TypeInv, Asks
  <2>3. attachedTabs' = attachedTabs \/ LoadOptions(i, tasks[i])
    BY <1>6 DEF PublishDetach
  <2> QED BY <2>2, <2>3, LoadOptionsTabs
<1>7. CASE UNCHANGED attachedTabs
  BY <1>7
<1>8. ASSUME NEW t, attachedTabs' = Without(t) PROVE TabsMove
  BY <1>8
<1>9. CASE WorkerStops
  BY <1>9 DEF WorkerStops
<1>10. CASE QuietStep
  <2>1. ASSUME NEW t \in Tabs, OnRemoved(t) PROVE attachedTabs' = Without(t)
    BY <2>1 DEF OnRemoved
  <2>2. CASE TimerFires \/ ClosePopup \/ (\E i \in 1..MaxTasks : Saved(i) \/ Lit(i))
             \/ \E batch \in flights : PostReturns(batch)
    BY <2>2 DEF TimerFires, ClosePopup, Saved, Lit, PostReturns
  <2> QED BY <1>1, <1>2, <1>3, <1>4, <1>5, <1>7, <1>8, <1>10, <2>1, <2>2, StartSteps DEF QuietStep
<1>11. CASE LoudStep
  <2>1. ASSUME NEW t \in Tabs, OnDetach(t) PROVE attachedTabs' = Without(t)
    BY <2>1 DEF OnDetach
  <2>2. ASSUME NEW i \in 1..MaxTasks, DetachTargets(i) \/ Detached(i)
        PROVE  attachedTabs' = attachedTabs \/ attachedTabs' = Without(tasks[i].tab)
    BY <2>2 DEF DetachTargets, Detached, Forget
  <2>3. ASSUME NEW t \in Tabs, WindowEnds(t) \/ EndSession(t) \/ CloseTab(t)
        PROVE  UNCHANGED attachedTabs
    BY <2>3 DEF WindowEnds, EndSession, CloseTab, workerVars
  <2>4. ASSUME NEW i \in 1..MaxTasks, NoticeTab(i) \/ Enabled(i) \/ BrowserDetaches(i) \/ DetachFails(i)
        PROVE  UNCHANGED attachedTabs
    BY <2>4 DEF NoticeTab, Enabled, BrowserDetaches, DetachFails
  <2> QED BY <1>5, <1>6, <1>7, <1>8, <1>9, <1>11, <2>1, <2>2, <2>3, <2>4 DEF LoudStep
<1>12. CASE UNCHANGED vars
  BY <1>12 DEF vars, workerVars
<1> QED BY <1>10, <1>11, <1>12, NextCases

(* The pages, and the tabs that the browser knows of.                      *)
LEMMA PagesStep ==
  ASSUME TypeInv, PagesInv, [Next]_vars
  PROVE  PagesInv'
<1>1. CASE UNCHANGED <<page, removing, badge>>
  BY <1>1 DEF PagesInv
<1>2. ASSUME NEW t \in Tabs, CloseTab(t) PROVE PagesInv'
  BY <1>2 DEF CloseTab, PagesInv
<1>3. ASSUME NEW t \in Tabs, OnRemoved(t) \/ OnDetach(t) PROVE PagesInv'
  BY <1>3 DEF OnRemoved, OnDetach, PagesInv
<1>4. ASSUME NEW i \in 1..MaxTasks, Enabled(i) PROVE PagesInv'
  <2>1. tasks[i].tab \in Tabs
    BY <1>4, IsOfPopup DEF Enabled, At, TypeInv, PopupTask
  <2> QED BY <1>4, <2>1 DEF Enabled, PagesInv, browserVars
<1>5. ASSUME NEW i \in 1..MaxTasks, DetachTargets(i) \/ Detached(i) PROVE PagesInv'
  BY <1>5 DEF DetachTargets, Detached, Forget, PagesInv, browserVars
<1>6. ASSUME NEW i \in 1..MaxTasks,
             PublishDetach(i) \/ NoticeTab(i) \/ Attached(i) \/ BrowserDetaches(i) \/ DetachFails(i)
      PROVE  UNCHANGED <<page, removing, badge>>
  BY <1>6 DEF PublishDetach, NoticeTab, Attached, BrowserDetaches, DetachFails, browserVars
<1>7. ASSUME NEW t \in Tabs, WindowEnds(t) \/ EndSession(t) PROVE UNCHANGED <<page, removing, badge>>
  BY <1>7 DEF WindowEnds, EndSession, browserVars
<1>8. CASE WorkerStops \/ UNCHANGED vars
  BY <1>8 DEF WorkerStops, vars, browserVars, PagesInv
<1>9. CASE LoudStep
  BY <1>1, <1>2, <1>3, <1>4, <1>5, <1>6, <1>7, <1>8, <1>9 DEF LoudStep
<1>10. CASE QuietStep
  <2>1. CASE OptionsLoaded \/ TimerFires \/ AnswerReturns \/ ClosePopup
             \/ (\E batch \in flights : PostReturns(batch))
             \/ \E i \in 1..MaxTasks : EventTab(i) \/ Saved(i) \/ AttachTargets(i) \/ Lit(i)
    BY <1>1, <2>1 DEF OptionsLoaded, TimerFires, AnswerReturns, ClosePopup, PostReturns, EventTab, Saved,
      AttachTargets, Lit, browserVars
  <2>2. CASE UNCHANGED <<browserVars, noticeVars, badge>>
    BY <1>1, <2>2 DEF browserVars
  <2> QED BY <1>3, <1>10, <2>1, <2>2, StartSteps DEF QuietStep
<1> QED BY <1>8, <1>9, <1>10, NextCases
-----------------------------------------------------------------------------
LEMMA RulesHandled ==
  ASSUME TypeInv, RulesInv, NEW i \in 1..MaxTasks, NEW task, Asks(task), NEW o \in Options,
         ~overtaken => o = stored /\ (task.kind = "event" => task.rules = stored),
         HasOptions(i, task, o),
         loading' \in Seq([task : 1..MaxTasks, options : Options]),
         \A k \in 1..Len(loading') : \E m \in 1..Len(loading) : loading'[k] = loading[m],
         \A j \in (1..MaxTasks) \ {i} :
           Waits(tasks[j]) => \E k \in 1..Len(loading') : loading'[k].task = j
  PROVE  RulesInv'
<1>0. TasksOK
  BY DEF TypeInv
<1>1. PICK x \in After(task) : Becomes(i, x)
  BY HasOptionsGoesOn
<1>2. tasks'[i] = x /\ ~Waits(x) /\ \A j \in (1..MaxTasks) \ {i} : tasks'[j] = tasks[j]
  BY <1>0, <1>1, AfterIsTask, OneTask DEF After, Waits
<1>3. \A j \in 1..MaxTasks : Waits(tasks'[j]) => \E k \in 1..Len(loading') : loading'[k].task = j
  BY <1>2
<1>4. x.kind = "event" => x.at = "tab" /\ x.options = o /\ x.rules = task.rules /\ task.kind = "event"
  <2>1. CASE task.kind = "event"
    <3>1. task \in EventTask
      BY <2>1 DEF Asks, EventTask, NoticeTask, PopupTask
    <3>2. x = Idle \/ x = [task EXCEPT !.at = "tab", !.options = o]
      <4>1. Becomes(i, Idle) \/ Becomes(i, [task EXCEPT !.at = "tab", !.options = o])
        BY <2>1 DEF HasOptions
      <4> QED BY <1>0, <1>1, <4>1 DEF Becomes, TasksOK
    <3>3. Idle.kind # "event"
      BY DEF Idle
    <3>4. /\ [task EXCEPT !.at = "tab", !.options = o].at = "tab"
          /\ [task EXCEPT !.at = "tab", !.options = o].options = o
          /\ [task EXCEPT !.at = "tab", !.options = o].rules = task.rules
      BY <3>1 DEF EventTask
    <3> QED BY <2>1, <3>2, <3>3, <3>4
  <2>2. CASE task.kind # "event"
    BY <2>2 DEF After, Idle
  <2> QED BY <2>1, <2>2
<1>5. \A j \in 1..MaxTasks : HasTabOptions(tasks'[j])
  BY <1>2, <1>4 DEF RulesInv, HasTabOptions
<1>6. CASE task.kind \in {"save", "attach"}
  <2>1. cachedOptions' = task.options /\ stored' = task.options /\ overtaken' = (overtaken \/ loading' # <<>>)
    BY <1>6 DEF HasOptions, Saves
  <2>2. x.kind # "event"
    <3>1. task \in PopupTask
      BY <1>6 DEF Asks, EventTask, NoticeTask
    <3> QED BY <1>6, <3>1 DEF After, Idle
  <2>3. CASE ~overtaken /\ loading' = <<>>
    <3>1. Len(loading') = 0
      BY <2>3
    <3>2. \A j \in 1..MaxTasks : ~Waits(tasks'[j])
      BY <1>3, <3>1
    <3>3. \A j \in 1..MaxTasks : tasks'[j].kind = "event" =>
            tasks'[j].at # "options" /\ (tasks'[j].at = "tab" => tasks'[j].options = tasks'[j].rules)
      BY <1>2, <2>2, <2>3, <3>2 DEF Waits, RulesInv, Fresh, Idle
    <3>4. Fresh'
      BY <2>1, <3>1, <3>3 DEF Fresh
    <3> QED BY <1>3, <1>5, <2>1, <2>3, <3>4 DEF RulesInv
  <2>4. CASE overtaken \/ loading' # <<>>
    <3>1. overtaken' = TRUE
      BY <2>1, <2>4
    <3> QED BY <1>3, <1>5, <3>1 DEF RulesInv
  <2> QED BY <2>3, <2>4
<1>7. CASE task.kind \notin {"save", "attach"}
  <2>1. cachedOptions' = o /\ stored' = stored /\ overtaken' = overtaken
    BY <1>7 DEF HasOptions
  <2>3. CASE ~overtaken
    <3>1. o = stored /\ Fresh /\ (task.kind = "event" => task.rules = stored)
      BY <2>3 DEF RulesInv
    <3>2. \A k \in 1..Len(loading') : loading'[k].options = stored
      BY <3>1 DEF Fresh
    <3>3. \A j \in 1..MaxTasks : tasks'[j].kind = "event" =>
            /\ tasks'[j].at = "options" => tasks'[j].rules = stored
            /\ tasks'[j].at = "tab" => tasks'[j].options = tasks'[j].rules
      BY <1>2, <1>4, <3>1 DEF Fresh
    <3>4. Fresh'
      BY <2>1, <3>1, <3>2, <3>3 DEF Fresh
    <3> QED BY <1>3, <1>5, <2>1, <2>3, <3>4 DEF RulesInv
  <2>4. CASE overtaken
    BY <1>3, <1>5, <2>1, <2>4 DEF RulesInv
  <2> QED BY <2>3, <2>4
<1> QED BY <1>6, <1>7

LEMMA RulesAsked ==
  ASSUME TypeInv, RulesInv, NEW i \in 1..MaxTasks, NEW task, Asks(task), LoadOptions(i, task),
         tasks[i] = Idle \/ (tasks[i] \in NoticeTask /\ tasks[i].at = "badge"),
         task.kind = "event" => task.rules = stored
  PROVE  RulesInv'
<1>0. TasksOK /\ LoadingOK /\ stored \in Options
  BY DEF TypeInv, OptionsOK
<1>1. CASE cachedOptions # null
  <2>1. HasOptions(i, task, cachedOptions) /\ loading' = loading /\ cachedOptions \in Options
    BY <1>1 DEF LoadOptions, TypeInv, OptionsOK
  <2>2. ~overtaken => cachedOptions = stored
    BY <1>1 DEF RulesInv, Fresh
  <2>3. loading' \in Seq([task : 1..MaxTasks, options : Options])
    BY <1>0, <2>1 DEF LoadingOK
  <2>4. \A k \in 1..Len(loading') : \E m \in 1..Len(loading) : loading'[k] = loading[m]
    BY <2>1
  <2>5. \A j \in (1..MaxTasks) \ {i} :
          Waits(tasks[j]) => \E k \in 1..Len(loading') : loading'[k].task = j
    BY <2>1 DEF RulesInv
  <2> QED BY <2>1, <2>2, <2>3, <2>4, <2>5, RulesHandled
<1>2. CASE cachedOptions = null
  <2> DEFINE x == [task EXCEPT !.at = "options"]
             entry == [task |-> i, options |-> stored]
  <2>1. /\ loading' = Append(loading, entry) /\ Becomes(i, x)
        /\ UNCHANGED <<stored, cachedOptions, overtaken>>
    BY <1>2 DEF LoadOptions
  <2>2. x \in Task /\ (x.kind \in {"save", "attach"} => x.options \in Options)
        /\ x.at = "options" /\ (x.kind = "event" => x.rules = stored)
    BY DEF Asks, Task, EventTask, NoticeTask, PopupTask
  <2>3. tasks'[i] = x /\ \A j \in (1..MaxTasks) \ {i} : tasks'[j] = tasks[j]
    BY <1>0, <2>1, <2>2, OneTask
  <2>4. /\ Len(loading') = Len(loading) + 1 /\ Len(loading) \in Nat
        /\ loading'[Len(loading) + 1] = entry
        /\ \A k \in 1..Len(loading) : loading'[k] = loading[k]
    BY <1>0, <2>1 DEF LoadingOK
  <2>5. ASSUME NEW j \in 1..MaxTasks, Waits(tasks'[j])
        PROVE  \E k \in 1..Len(loading') : loading'[k].task = j
    <3>1. CASE j = i
      <4>1. Len(loading) + 1 \in 1..Len(loading') /\ loading'[Len(loading) + 1].task = i
        BY <2>4
      <4> QED BY <3>1, <4>1
    <3>2. CASE j # i
      <4>1. PICK k \in 1..Len(loading) : loading[k].task = j
        BY <2>3, <2>5, <3>2 DEF RulesInv
      <4>2. k \in 1..Len(loading') /\ loading'[k].task = j
        BY <2>4, <4>1
      <4> QED BY <4>2
    <3> QED BY <3>1, <3>2
  <2>6. Fresh => Fresh'
    <3> SUFFICES ASSUME Fresh PROVE Fresh'
      OBVIOUS
    <3>1. \A k \in 1..Len(loading') : loading'[k].options = stored
      <4> SUFFICES ASSUME NEW k \in 1..Len(loading') PROVE loading'[k].options = stored
        OBVIOUS
      <4>1. k = Len(loading) + 1 \/ k \in 1..Len(loading)
        BY <2>4
      <4> QED BY <2>4, <4>1 DEF Fresh
    <3>2. \A j \in 1..MaxTasks : tasks'[j].kind = "event" =>
            /\ tasks'[j].at = "options" => tasks'[j].rules = stored
            /\ tasks'[j].at = "tab" => tasks'[j].options = tasks'[j].rules
      BY <2>2, <2>3 DEF Fresh
    <3> QED BY <2>1, <3>1, <3>2 DEF Fresh
  <2>7. \A j \in 1..MaxTasks : HasTabOptions(tasks'[j])
    BY <2>2, <2>3 DEF RulesInv, HasTabOptions
  <2> QED BY <2>1, <2>5, <2>6, <2>7 DEF RulesInv
<1> QED BY <1>1, <1>2

LEMMA RulesLoaded ==
  ASSUME TypeInv, RulesInv, OptionsLoaded
  PROVE  RulesInv'
<1> DEFINE Entry == [task : 1..MaxTasks, options : Options]
           i == Head(loading).task
           o == Head(loading).options
<1>1. /\ loading \in Seq(Entry) /\ loading # <<>> /\ TasksOK /\ loading' = Tail(loading)
      /\ HasOptions(i, tasks[i], o)
  BY DEF OptionsLoaded, TypeInv, LoadingOK
<1>2. Head(loading) \in Entry /\ Head(loading) = loading[1] /\ 1 \in 1..Len(loading)
  <2>1. Len(loading) \in Nat /\ Len(loading) # 0
    BY <1>1, EmptySeq
  <2>2. Head(loading) = loading[1]
    BY <1>1, <2>1
  <2>3. Head(loading) \in Entry
    BY <1>1, HeadTailProperties
  <2> QED BY <2>1, <2>2, <2>3
<1>3. i \in 1..MaxTasks /\ o \in Options /\ tasks[i] \in Task /\ tasks[i].at = "options"
  BY <1>2 DEF TypeInv, LoadingOK
<1>4. Asks(tasks[i])
  BY <1>1, <1>3, WaitingAsks
<1>5. /\ loading' \in Seq(Entry) /\ Len(loading') = Len(loading) - 1 /\ Len(loading) \in Nat
      /\ \A k \in 1..Len(loading') : loading'[k] = loading[k + 1]
  BY <1>1
<1>6. \A k \in 1..Len(loading') : \E m \in 1..Len(loading) : loading'[k] = loading[m]
  <2> SUFFICES ASSUME NEW k \in 1..Len(loading') PROVE \E m \in 1..Len(loading) : loading'[k] = loading[m]
    OBVIOUS
  <2>1. k + 1 \in 1..Len(loading) /\ loading'[k] = loading[k + 1]
    BY <1>5
  <2> QED BY <2>1
<1>7. ASSUME NEW j \in (1..MaxTasks) \ {i}, Waits(tasks[j])
      PROVE  \E k \in 1..Len(loading') : loading'[k].task = j
  <2>1. PICK m \in 1..Len(loading) : loading[m].task = j
    BY <1>7 DEF RulesInv
  <2>2. m # 1
    BY <1>2, <1>7, <2>1
  <2>3. m - 1 \in 1..Len(loading') /\ (m - 1) + 1 = m
    BY <1>5, <2>2
  <2>4. loading'[m - 1] = loading[(m - 1) + 1]
    BY <1>5, <2>3
  <2> QED BY <2>1, <2>3, <2>4
<1>8. ~overtaken => o = stored /\ (tasks[i].kind = "event" => tasks[i].rules = stored)
  BY <1>2, <1>3 DEF RulesInv, Fresh
<1> HIDE DEF Entry, i, o
<1>9. loading' \in Seq([task : 1..MaxTasks, options : Options])
  BY <1>5 DEF Entry
<1> QED BY <1>1, <1>3, <1>4, <1>6, <1>7, <1>8, <1>9, RulesHandled

(* A step that has nothing to do with the options.                         *)
Calm(x, y) == (Waits(y) => Waits(x)) /\ (y.kind = "event" => y = x)

CalmStep == UNCHANGED optionVars /\ \A j \in 1..MaxTasks : Calm(tasks[j], tasks'[j])

LEMMA RulesCalm ==
  ASSUME RulesInv, CalmStep
  PROVE  RulesInv'
<1>1. \A j \in 1..MaxTasks : Waits(tasks'[j]) => \E k \in 1..Len(loading') : loading'[k].task = j
  BY DEF RulesInv, CalmStep, Calm, optionVars
<1>2. Fresh => Fresh'
  BY DEF Fresh, CalmStep, Calm, optionVars
<1>3. UNCHANGED overtaken
  BY DEF CalmStep, optionVars
<1>4. \A j \in 1..MaxTasks : HasTabOptions(tasks'[j])
  BY DEF RulesInv, CalmStep, Calm, HasTabOptions
<1> QED BY <1>1, <1>2, <1>3, <1>4 DEF RulesInv

LEMMA CalmOne ==
  ASSUME TasksOK, UNCHANGED optionVars, NEW i \in 1..MaxTasks, NEW x, Becomes(i, x),
         ~Waits(x), x.kind # "event"
  PROVE  CalmStep
<1>1. tasks'[i] = x /\ \A j \in (1..MaxTasks) \ {i} : tasks'[j] = tasks[j]
  BY DEF Becomes, TasksOK
<1> QED BY <1>1 DEF CalmStep, Calm

LEMMA CalmUnheard ==
  ASSUME TasksOK, UNCHANGED optionVars, Unheard
  PROVE  CalmStep
<1> SUFFICES ASSUME NEW j \in 1..MaxTasks PROVE Calm(tasks[j], tasks'[j])
  BY DEF CalmStep
<1>1. tasks'[j] = IF tasks[j].kind \in {"idle", "event", "notice"} THEN tasks[j]
                  ELSE [tasks[j] EXCEPT !.heard = FALSE]
  BY DEF Unheard
<1>2. CASE tasks[j].kind \in {"idle", "event", "notice"}
  BY <1>1, <1>2 DEF Calm
<1>3. CASE tasks[j].kind \notin {"idle", "event", "notice"}
  <2>1. tasks[j] \in PopupTask
    BY <1>3 DEF TasksOK, Task, Idle, EventTask, NoticeTask
  <2>2. tasks[j] # Idle
    BY <1>3 DEF Idle
  <2> QED BY <1>1, <1>3, <2>1, <2>2 DEF Calm, Waits, PopupTask
<1> QED BY <1>2, <1>3

LEMMA RulesStep ==
  ASSUME TypeInv, RulesInv, [Next]_vars
  PROVE  RulesInv'
<1> USE DEF browserVars, workerVars, queueVars, bounds, noticeVars
<1>0. TasksOK /\ Idle.kind = "idle"
  BY DEF TypeInv, Idle
<1>1. CASE UNCHANGED <<optionVars, tasks>>
  <2>1. CalmStep
    BY <1>1 DEF CalmStep, Calm
  <2> QED BY <2>1, RulesCalm
<1>2. CASE StartsTask
  BY <1>2, RulesAsked DEF StartsTask, FirstIdle
<1>3. CASE StartsDetach
  <2>1. PICK i \in 1..MaxTasks, x \in PopupTask : x.at = "targets" /\ Becomes(i, x)
    BY <1>3 DEF StartsDetach
  <2>2. ~Waits(x) /\ x.kind # "event"
    BY <2>1 DEF Waits, PopupTask
  <2> QED BY <1>0, <1>3, <2>1, <2>2, CalmOne, RulesCalm DEF StartsDetach
<1>4. ASSUME UNCHANGED optionVars, NEW i \in 1..MaxTasks, Becomes(i, Idle)
      PROVE  RulesInv'
  BY <1>0, <1>4, CalmOne, RulesCalm DEF Waits
<1>5. ASSUME UNCHANGED optionVars, NEW i \in 1..MaxTasks, tasks[i] \in PopupTask, NEW x \in PopupTask,
             x.at # "options", Becomes(i, x)
      PROVE  RulesInv'
  <2>1. ~Waits(x) /\ x.kind # "event"
    BY <1>5 DEF Waits, PopupTask
  <2> QED BY <1>0, <1>5, <2>1, CalmOne, RulesCalm
<1>6. ASSUME NEW i \in 1..MaxTasks,
             EventTab(i) \/ Lit(i) \/ NoticeTab(i) \/ DetachFails(i) \/ Detached(i)
      PROVE  UNCHANGED optionVars /\ Becomes(i, Idle)
  BY <1>6 DEF EventTab, Lit, NoticeTab, DetachFails, Detached, Forget
<1>7. ASSUME NEW i \in 1..MaxTasks,
             Saved(i) \/ AttachTargets(i) \/ Attached(i) \/ Enabled(i) \/ DetachTargets(i)
             \/ BrowserDetaches(i)
      PROVE  RulesInv'
  <2>1. tasks[i] \in PopupTask
    <3>1. tasks[i].kind \in {"save", "attach", "detach"}
      BY <1>7 DEF Saved, AttachTargets, Attached, Enabled, DetachTargets, BrowserDetaches, At
    <3> QED BY <1>0, <3>1, IsOfPopup
  <2>2. UNCHANGED optionVars
    BY <1>7 DEF Saved, AttachTargets, Attached, Enabled, DetachTargets, BrowserDetaches
  <2>3. CASE Saved(i)
    <3>1. Becomes(i, Idle)
          \/ (tasks[i].kind = "attach" /\ Becomes(i, [tasks[i] EXCEPT !.at = "targets", !.options = cachedOptions]))
      BY <2>3 DEF Saved
    <3>2. cachedOptions \in Options \cup {null}
      BY DEF TypeInv, OptionsOK
    <3>3. [tasks[i] EXCEPT !.at = "targets", !.options = cachedOptions] \in PopupTask
          /\ [tasks[i] EXCEPT !.at = "targets", !.options = cachedOptions].at # "options"
      BY <2>1, <3>2 DEF PopupTask
    <3> QED BY <1>4, <1>5, <2>1, <2>2, <3>1, <3>3
  <2>4. CASE BrowserDetaches(i)
    <3> DEFINE x == [tasks[i] EXCEPT !.at = "ended", !.session = session[tasks[i].tab]]
    <3>1. Becomes(i, x)
      BY <2>4 DEF BrowserDetaches
    <3>2. session[tasks[i].tab] \in Nat
      BY <2>1 DEF TypeInv, SessionsOK, PopupTask
    <3>3. x \in PopupTask /\ x.at # "options"
      BY <2>1, <3>2 DEF PopupTask
    <3> HIDE DEF x
    <3> QED BY <1>5, <2>1, <2>2, <3>1, <3>3
  <2>5. CASE AttachTargets(i) \/ Attached(i) \/ Enabled(i) \/ DetachTargets(i)
    <3>1. \/ Becomes(i, Idle)
          \/ \E at \in {"enable", "attach", "badge", "detach"} : Becomes(i, [tasks[i] EXCEPT !.at = at])
      BY <2>5 DEF AttachTargets, Attached, Enabled, DetachTargets, Forget
    <3>2. \A at \in {"enable", "attach", "badge", "detach"} :
            [tasks[i] EXCEPT !.at = at] \in PopupTask /\ [tasks[i] EXCEPT !.at = at].at # "options"
      BY <2>1 DEF PopupTask
    <3> QED BY <1>4, <1>5, <2>1, <2>2, <3>1, <3>2
  <2> QED BY <1>7, <2>3, <2>4, <2>5
<1>8. ASSUME NEW i \in 1..MaxTasks, PublishDetach(i) PROVE RulesInv'
  <2>1. tasks[i].kind = "notice" /\ tasks[i].at = "badge"
    BY <1>8 DEF PublishDetach, At
  <2>2. tasks[i] \in NoticeTask /\ Asks(tasks[i])
    BY <1>0, <2>1, IsNotice DEF Asks
  <2>3. \/ UNCHANGED optionVars /\ Becomes(i, Idle)
        \/ LoadOptions(i, tasks[i])
    BY <1>8 DEF PublishDetach
  <2> QED BY <1>4, <2>1, <2>2, <2>3, RulesAsked
<1>9. ASSUME NEW t \in Tabs, OnDetach(t) PROVE RulesInv'
  <2>1. PICK i \in 1..MaxTasks, x \in NoticeTask : x.at = "badge" /\ Becomes(i, x)
    <3>1. PICK i \in 1..MaxTasks :
            Becomes(i, [kind |-> "notice", at |-> "badge", tab |-> t, known |-> t \in DOMAIN attachedTabs,
                        session |-> detaching[t].session,
                        reason |-> IF t \in overrides THEN "popup_detach" ELSE detaching[t].reason])
      BY <1>9 DEF OnDetach
    <3>2. detaching[t] \in [session : Nat, reason : Reasons]
      BY DEF TypeInv, SessionsOK
    <3>3. [kind |-> "notice", at |-> "badge", tab |-> t, known |-> t \in DOMAIN attachedTabs,
           session |-> detaching[t].session,
           reason |-> IF t \in overrides THEN "popup_detach" ELSE detaching[t].reason] \in NoticeTask
      BY <3>2 DEF NoticeTask, Reasons
    <3> QED BY <3>1, <3>3
  <2>2. ~Waits(x) /\ x.kind # "event"
    BY <2>1 DEF Waits, NoticeTask
  <2>3. UNCHANGED optionVars
    BY <1>9 DEF OnDetach
  <2> QED BY <1>0, <2>1, <2>2, <2>3, CalmOne, RulesCalm
<1>10. CASE WorkerStops
  <2>1. /\ overtaken' = FALSE /\ cachedOptions' = null /\ Len(loading') = 0
        /\ \A i \in 1..MaxTasks : tasks'[i] = Idle
    BY <1>10 DEF WorkerStops
  <2>2. \A i \in 1..MaxTasks : ~Waits(tasks'[i]) /\ tasks'[i].kind # "event"
    BY <1>0, <2>1 DEF Waits
  <2>3. Fresh'
    BY <2>1, <2>2 DEF Fresh
  <2> QED BY <2>1, <2>2, <2>3 DEF RulesInv, HasTabOptions
<1>11. CASE QuietStep
  <2>1. CASE TimerFires \/ AnswerReturns \/ (\E t \in Tabs : OnRemoved(t))
             \/ \E batch \in flights : PostReturns(batch)
    BY <1>1, <2>1 DEF TimerFires, AnswerReturns, OnRemoved, PostReturns
  <2>2. CASE ClosePopup
    BY <1>0, <2>2, CalmUnheard, RulesCalm DEF ClosePopup
  <2>3. CASE \E i \in 1..MaxTasks : EventTab(i) \/ Saved(i) \/ AttachTargets(i) \/ Lit(i)
    BY <1>4, <1>6, <1>7, <2>3
  <2> QED BY <1>2, <1>3, <1>11, <2>1, <2>2, <2>3, StartSteps, RulesLoaded DEF QuietStep
<1>12. CASE LoudStep
  <2>1. ASSUME NEW t \in Tabs, WindowEnds(t) \/ EndSession(t) PROVE UNCHANGED <<optionVars, tasks>>
    BY <2>1 DEF WindowEnds, EndSession
  <2>2. ASSUME NEW t \in Tabs, CloseTab(t) PROVE RulesInv'
    <3>1. UNCHANGED optionVars /\ (Unheard \/ UNCHANGED tasks)
      BY <2>2 DEF CloseTab
    <3> QED BY <1>0, <1>1, <3>1, CalmUnheard, RulesCalm
  <2>3. CASE \E i \in 1..MaxTasks :
               \/ NoticeTab(i) \/ Attached(i) \/ Enabled(i) \/ DetachTargets(i)
               \/ BrowserDetaches(i) \/ DetachFails(i) \/ Detached(i)
    BY <1>4, <1>6, <1>7, <2>3
  <2> QED BY <1>1, <1>8, <1>9, <1>10, <1>12, <2>1, <2>2, <2>3 DEF LoudStep
<1>13. CASE UNCHANGED vars
  BY <1>1, <1>13 DEF vars
<1> QED BY <1>11, <1>12, <1>13, NextCases
-----------------------------------------------------------------------------
(* A record is made, and obeys; or none is, and some may be lost.          *)
Makes == \E kind : \E flush \in BOOLEAN : Enqueue(Record(kind, TRUE), flush)

Loses == made' = made /\ Records' \subseteq Records

LEMMA FlushKeeps ==
  ASSUME NEW S, NEW q \in Seq(S)
  PROVE  /\ Range(Rest(q)) \subseteq Range(q)
         /\ \A b \in Batch(q) : Range(b) \subseteq Range(q)
<1> DEFINE n == SmallerOf(Len(q), FlushBatch)
<1>1. Len(q) \in Nat /\ n \in Nat /\ n <= Len(q)
  BY BrowserTapAssumption DEF SmallerOf
<1>2. \A i \in 1..Len(q) : q[i] \in Range(q)
  BY DEF Range
<1> HIDE DEF n
<1>3. SubSeq(q, 1, n) \in Seq(Range(q)) /\ SubSeq(q, n + 1, Len(q)) \in Seq(Range(q))
  <2>1. \A i \in 1..n : q[i] \in Range(q)
    BY <1>1, <1>2
  <2>2. \A i \in (n + 1)..Len(q) : q[i] \in Range(q)
    BY <1>1, <1>2
  <2>3. SubSeq(q, 1, n) \in Seq(Range(q))
    BY <1>1, <2>1, SubSeqProperties
  <2>4. SubSeq(q, n + 1, Len(q)) \in Seq(Range(q))
    BY <1>1, <2>2, SubSeqProperties
  <2> QED BY <2>3, <2>4
<1>4. \A T, s : s \in Seq(T) => Range(s) \subseteq T
  <2> SUFFICES ASSUME NEW T, NEW s \in Seq(T), NEW i \in DOMAIN s PROVE s[i] \in T
    BY DEF Range
  <2> QED BY ElementOfSeq
<1>5. Rest(q) = SubSeq(q, n + 1, Len(q)) /\ Batch(q) \subseteq {SubSeq(q, 1, n)}
  BY DEF Rest, Batch, n
<1> QED BY <1>3, <1>4, <1>5

(* A record is made of an event that the rules in force let through.       *)
LEMMA EventObeys ==
  ASSUME NEW state, NEW e, NEW rules, ~overtaken => state.options = rules, Publishes(state, e)
  PROVE  Obeys(state, e, rules) = TRUE
<1>1. CASE overtaken
  BY <1>1 DEF Obeys
<1>2. CASE ~overtaken
  <2> DEFINE url == JudgedURL(state, e)
  <2>1. state.options = rules
    BY <1>2
  <2>2. e.kind \in rules.capture
    BY <2>1 DEF Publishes
  <2>3. IsURLAllowed(url, rules)
    <3> HIDE DEF url
    <3>1. CASE e.kind \in Network \cup BrowserLog
      <4>1. ~ShouldSkipURL(url, rules)
        BY <2>1, <3>1 DEF Publishes, url
      <4> QED BY <4>1 DEF ShouldSkipURL, IsURLAllowed
    <3>2. CASE e.kind \notin Network \cup BrowserLog
      BY <2>1, <3>2 DEF Publishes, url
    <3> QED BY <3>1, <3>2
  <2>4. Redacted(e.text, state.options) \cap rules.redact = {}
    BY <2>1 DEF Redacted
  <2> QED BY <2>2, <2>3, <2>4 DEF Obeys
<1> QED BY <1>1, <1>2

LEMMA HandleEventMakes ==
  ASSUME NEW t, NEW state, NEW task, ~overtaken => state.options = task.rules,
         HandleEvent(t, state, task)
  PROVE  Makes \/ UNCHANGED queueVars
<1>1. CASE Publishes(state, task.event)
  <2>1. Enqueue(Record("event", Obeys(state, task.event, task.rules)), FALSE)
    BY <1>1 DEF HandleEvent
  <2>2. Obeys(state, task.event, task.rules) = TRUE
    BY <1>1, EventObeys
  <2>3. Enqueue(Record("event", TRUE), FALSE)
    BY <2>1, <2>2
  <2> QED BY <2>3 DEF Makes
<1>2. CASE ~Publishes(state, task.event)
  BY <1>2 DEF HandleEvent
<1> QED BY <1>1, <1>2

LEMMA HasOptionsMakes ==
  ASSUME TabsInv, NEW i, NEW task, NEW o \in Options,
         ~overtaken /\ task.kind = "event" => task.rules = o,
         HasOptions(i, task, o)
  PROVE  Makes \/ UNCHANGED queueVars
<1>1. CASE task.kind = "event" /\ task.tab \in DOMAIN attachedTabs
  <2>1. HandleEvent(task.tab, [attachedTabs[task.tab] EXCEPT !.options = o], task)
    BY <1>1 DEF HasOptions
  <2>2. [attachedTabs[task.tab] EXCEPT !.options = o].options = o
    BY <1>1 DEF TabsInv, IsState
  <2> QED BY <1>1, <2>1, <2>2, HandleEventMakes
<1>2. CASE ~(task.kind = "event" /\ task.tab \in DOMAIN attachedTabs)
  BY <1>2 DEF HasOptions
<1> QED BY <1>1, <1>2

LEMMA LoadOptionsMakes ==
  ASSUME TypeInv, TabsInv, RulesInv, NEW i, NEW task, task.kind = "event" => task.rules = stored,
         LoadOptions(i, task)
  PROVE  Makes \/ UNCHANGED queueVars
<1>1. CASE cachedOptions # null
  <2>1. cachedOptions \in Options /\ HasOptions(i, task, cachedOptions)
    BY <1>1 DEF LoadOptions, TypeInv, OptionsOK
  <2>2. ~overtaken => cachedOptions = stored
    BY <1>1 DEF RulesInv, Fresh
  <2> QED BY <2>1, <2>2, HasOptionsMakes
<1>2. CASE cachedOptions = null
  BY <1>2 DEF LoadOptions
<1> QED BY <1>1, <1>2

LEMMA RecordSteps ==
  ASSUME TypeInv, TabsInv, QueueInv, RulesInv, [Next]_vars
  PROVE  Makes \/ Loses
<1>0. PICK S : queue \in Seq(S)
  BY DEF QueueInv
<1>1. ASSUME UNCHANGED queueVars PROVE Loses
  BY <1>1 DEF Loses, Records, queueVars
<1>2. ASSUME queue' = Rest(queue), made' = made, NEW f, f \subseteq flights,
             flights' = f \cup Batch(queue), posted' \subseteq Records
      PROVE  Loses
  <2>1. Range(queue') \subseteq Range(queue) /\ \A b \in Batch(queue) : Range(b) \subseteq Range(queue)
    BY <1>0, <1>2, FlushKeeps
  <2>2. \A b \in flights' : Range(b) \subseteq Records
    BY <1>2, <2>1 DEF Records
  <2>3. Range(queue') \subseteq Records
    BY <2>1 DEF Records
  <2>4. Records' = Range(queue') \cup posted' \cup UNION {Range(b) : b \in flights'}
    BY DEF Records
  <2>5. \A r \in Records' : r \in Records
    BY <1>2, <2>2, <2>3, <2>4
  <2> QED BY <1>2, <2>5 DEF Loses
<1>3. CASE StartsTask
  BY <1>1, <1>3, LoadOptionsMakes DEF StartsTask
<1>4. CASE StartsDetach
  BY <1>1, <1>4 DEF StartsDetach
<1>5. CASE OptionsLoaded
  <2> DEFINE i == Head(loading).task
             o == Head(loading).options
  <2>1. /\ loading \in Seq([task : 1..MaxTasks, options : Options]) /\ loading # <<>>
        /\ HasOptions(i, tasks[i], o)
    BY <1>5 DEF OptionsLoaded, TypeInv, LoadingOK
  <2>2. Len(loading) \in Nat /\ Len(loading) # 0
    BY <2>1, EmptySeq
  <2>3. Head(loading) = loading[1] /\ 1 \in 1..Len(loading)
    BY <2>1, <2>2
  <2>4. Head(loading) \in [task : 1..MaxTasks, options : Options]
    BY <2>1, HeadTailProperties
  <2>5. i \in 1..MaxTasks /\ o \in Options /\ tasks[i].at = "options"
    BY <2>3, <2>4 DEF TypeInv, LoadingOK
  <2>6. ~overtaken /\ tasks[i].kind = "event" => tasks[i].rules = o
    BY <2>3, <2>5 DEF RulesInv, Fresh
  <2> HIDE DEF i, o
  <2> QED BY <1>1, <2>1, <2>5, <2>6, HasOptionsMakes
<1>6. ASSUME NEW i \in 1..MaxTasks, EventTab(i) PROVE Makes \/ Loses
  <2>1. tasks[i].kind = "event" /\ tasks[i].at = "tab"
    BY <1>6 DEF EventTab, At
  <2>2. \/ UNCHANGED queueVars
        \/ HandleEvent(tasks[i].tab, TabState(page[tasks[i].tab], tasks[i].options), tasks[i])
    BY <1>6 DEF EventTab
  <2>3. ~overtaken => TabState(page[tasks[i].tab], tasks[i].options).options = tasks[i].rules
    BY <2>1 DEF RulesInv, Fresh, TabState
  <2> QED BY <1>1, <2>2, <2>3, HandleEventMakes
<1>7. ASSUME NEW i \in 1..MaxTasks, Lit(i) PROVE Makes
  BY <1>7 DEF Lit, Makes
<1>8. ASSUME NEW i \in 1..MaxTasks, PublishDetach(i) \/ NoticeTab(i) \/ Detached(i)
      PROVE  Makes \/ Loses
  <2>1. ASSUME Notice(tasks[i]) PROVE Makes
    BY <2>1 DEF Notice, Makes
  <2>2. CASE PublishDetach(i)
    <3>1. tasks[i].kind # "event"
      BY <2>2 DEF PublishDetach, At
    <3>2. Notice(tasks[i]) \/ UNCHANGED queueVars \/ LoadOptions(i, tasks[i])
      BY <2>2 DEF PublishDetach
    <3> QED BY <1>1, <2>1, <3>1, <3>2, LoadOptionsMakes
  <2>3. CASE NoticeTab(i) \/ Detached(i)
    BY <1>1, <2>1, <2>3 DEF NoticeTab, Detached
  <2> QED BY <1>8, <2>2, <2>3
<1>9. CASE TimerFires
  <2>1. posted \subseteq Records
    BY DEF Records
  <2> QED BY <1>2, <1>9, <2>1 DEF TimerFires
<1>10. ASSUME NEW batch \in flights, PostReturns(batch) PROVE Loses
  <2>1. posted \cup Range(batch) \subseteq Records
    BY DEF Records
  <2> QED BY <1>2, <1>10, <2>1 DEF PostReturns
<1>11. CASE WorkerStops
  <2>1. queue' = <<>> /\ flights' = {} /\ posted' = posted /\ made' = made
    BY <1>11 DEF WorkerStops
  <2>2. Range(<<>>) = {}
    BY DEF Range
  <2> QED BY <2>1, <2>2 DEF Loses, Records
<1>12. ASSUME NEW i \in 1..MaxTasks,
              Saved(i) \/ AttachTargets(i) \/ Attached(i) \/ Enabled(i) \/ DetachTargets(i)
              \/ BrowserDetaches(i) \/ DetachFails(i)
       PROVE  UNCHANGED queueVars
  BY <1>12 DEF Saved, AttachTargets, Attached, Enabled, DetachTargets, BrowserDetaches, DetachFails
<1>13. ASSUME NEW t \in Tabs, OnRemoved(t) \/ OnDetach(t) \/ WindowEnds(t) \/ EndSession(t) \/ CloseTab(t)
       PROVE  UNCHANGED queueVars
  BY <1>13 DEF OnRemoved, OnDetach, WindowEnds, EndSession, CloseTab, workerVars
<1>14. CASE AnswerReturns \/ ClosePopup \/ UNCHANGED vars
  BY <1>1, <1>14 DEF AnswerReturns, ClosePopup, vars, workerVars
<1>15. CASE QuietStep
  BY <1>1, <1>3, <1>4, <1>5, <1>6, <1>7, <1>9, <1>10, <1>12, <1>13, <1>14, <1>15, StartSteps DEF QuietStep
<1>16. CASE LoudStep
  BY <1>1, <1>8, <1>11, <1>12, <1>13, <1>16 DEF LoudStep
<1> QED BY <1>14, <1>15, <1>16, NextCases

RecordsInv == made \in Nat /\ \A r \in Records : r.id \in 1..made /\ r.obeys

LEMMA RecordsStep ==
  ASSUME TypeInv, TabsInv, QueueInv, RulesInv, RecordsInv, [Next]_vars
  PROVE  RecordsInv'
<1>1. CASE Loses
  BY <1>1 DEF Loses, RecordsInv
<1>2. ASSUME NEW kind, NEW flush \in BOOLEAN, Enqueue(Record(kind, TRUE), flush) PROVE RecordsInv'
  <2> DEFINE record == Record(kind, TRUE)
             q == Append(queue, record)
  <2>0. PICK S : queue \in Seq(S)
    BY DEF QueueInv
  <2>1. /\ queue' = q \/ (queue' = Rest(q) /\ flights' = flights \cup Batch(q))
        /\ flights' = flights \/ flights' = flights \cup Batch(q)
        /\ made' = made + 1 /\ posted' = posted
    BY <1>2 DEF Enqueue
  <2>2. q \in Seq(S \cup {record}) /\ Range(q) \subseteq Range(queue) \cup {record}
    <3> HIDE DEF record
    <3>1. queue \in Seq(S \cup {record})
      BY <2>0
    <3>2. \A i \in 1..Len(queue) : queue[i] \in Range(queue)
      BY <3>1 DEF Range
    <3>3. /\ q \in Seq(S \cup {record}) /\ Len(q) = Len(queue) + 1 /\ Len(queue) \in Nat
          /\ \A i \in 1..Len(queue) : q[i] = queue[i]
          /\ q[Len(queue) + 1] = record
      BY <3>1
    <3> HIDE DEF q
    <3>4. \A i \in 1..Len(q) : q[i] \in Range(queue) \cup {record}
      <4> SUFFICES ASSUME NEW i \in 1..Len(q) PROVE q[i] \in Range(queue) \cup {record}
        OBVIOUS
      <4>1. i = Len(queue) + 1 \/ i \in 1..Len(queue)
        BY <3>3
      <4> QED BY <3>2, <3>3, <4>1
    <3>5. DOMAIN q = 1..Len(q)
      BY <3>3
    <3> QED BY <3>3, <3>4, <3>5 DEF Range
  <2> HIDE DEF q
  <2>3. Range(Rest(q)) \subseteq Range(q) /\ \A b \in Batch(q) : Range(b) \subseteq Range(q)
    BY <2>2, FlushKeeps
  <2>4. \A r \in Records' : r \in Records \cup {record}
    <3>1. Range(queue') \subseteq Records \cup {record}
      BY <2>1, <2>2, <2>3 DEF Records
    <3>2. \A b \in flights' : Range(b) \subseteq Records \cup {record}
      BY <2>1, <2>2, <2>3 DEF Records
    <3>3. posted' \subseteq Records
      BY <2>1 DEF Records
    <3> QED BY <3>1, <3>2, <3>3 DEF Records
  <2>5. record.id = made + 1 /\ record.obeys = TRUE
    BY DEF Record
  <2> HIDE DEF record
  <2> QED BY <2>1, <2>4, <2>5 DEF RecordsInv
<1> QED BY <1>1, <1>2, RecordSteps DEF Makes
-----------------------------------------------------------------------------
(* The sessions that need no record have been.                             *)
NumbersInv == sessions <= MaxSessions /\ excused \subseteq 1..sessions

LEMMA NumbersStep ==
  ASSUME TypeInv, EndsInv, OwnInv, NumbersInv, [Next]_vars
  PROVE  NumbersInv'
<1> USE DEF browserVars, noticeVars
<1>0. sessions \in Nat /\ MaxSessions \in Nat
  BY BrowserTapAssumption DEF TypeInv, SessionsOK
<1>1. CASE UNCHANGED <<sessions, excused>>
  BY <1>1 DEF NumbersInv
<1>2. ASSUME NEW i \in 1..MaxTasks, IsDue(tasks[i]), UNCHANGED sessions,
             excused' \subseteq excused \cup {tasks[i].session}
      PROVE  NumbersInv'
  <2>1. tasks[i].tab \in Tabs /\ tasks[i].session \in Numbers
    BY <1>2, TaskFields DEF EndsInv, Numbers
  <2>2. Of(tasks[i].session, tasks[i].tab)
    BY <1>2 DEF Of, Pending
  <2>3. tasks[i].session <= sessions
    BY <2>1, <2>2 DEF OwnInv
  <2>4. tasks[i].session \in 1..sessions
    BY <1>0, <2>1, <2>3 DEF Numbers
  <2> QED BY <1>2, <2>4 DEF NumbersInv
<1>3. ASSUME NEW i \in 1..MaxTasks, PublishDetach(i) PROVE NumbersInv'
  <2>1. tasks[i].kind = "notice" /\ tasks[i].at = "badge"
    BY <1>3 DEF PublishDetach, At
  <2>2. IsDue(tasks[i])
    BY <2>1, IsNotice DEF TypeInv, IsDue
  <2>3. UNCHANGED sessions /\ excused' \subseteq excused \cup {tasks[i].session}
    BY <1>3 DEF PublishDetach
  <2> QED BY <1>2, <2>2, <2>3
<1>4. ASSUME NEW i \in 1..MaxTasks, Detached(i) PROVE NumbersInv'
  <2>1. tasks[i].kind = "detach" /\ tasks[i].at = "ended"
    BY <1>4 DEF Detached, At
  <2>2. IsDue(tasks[i])
    BY <2>1, IsOfPopup DEF TypeInv, IsDue, IsEnded
  <2>3. UNCHANGED sessions /\ excused' \subseteq excused \cup {tasks[i].session}
    BY <1>4 DEF Detached
  <2> QED BY <1>2, <2>2, <2>3
<1>5. CASE WorkerStops
  <2>1. UNCHANGED sessions /\ excused' \subseteq excused \cup 1..sessions
    BY <1>5 DEF WorkerStops
  <2> QED BY <2>1 DEF NumbersInv
<1>6. ASSUME NEW i \in 1..MaxTasks, Attached(i) PROVE NumbersInv'
  <2>1. UNCHANGED excused /\ (UNCHANGED sessions \/ (sessions < MaxSessions /\ sessions' = sessions + 1))
    BY <1>6 DEF Attached
  <2>2. sessions' <= MaxSessions /\ 1..sessions \subseteq 1..sessions'
    BY <1>0, <2>1 DEF NumbersInv
  <2> QED BY <2>1, <2>2 DEF NumbersInv
<1>7. ASSUME NEW t \in Tabs, OnRemoved(t) \/ OnDetach(t) \/ WindowEnds(t) \/ EndSession(t) \/ CloseTab(t)
      PROVE  UNCHANGED <<sessions, excused>>
  BY <1>7 DEF OnRemoved, OnDetach, WindowEnds, EndSession, CloseTab
<1>8. ASSUME NEW i \in 1..MaxTasks,
             EventTab(i) \/ Saved(i) \/ AttachTargets(i) \/ Lit(i) \/ NoticeTab(i) \/ Enabled(i)
             \/ DetachTargets(i) \/ BrowserDetaches(i) \/ DetachFails(i)
      PROVE  UNCHANGED <<sessions, excused>>
  BY <1>8 DEF EventTab, Saved, AttachTargets, Lit, NoticeTab, Enabled, DetachTargets, BrowserDetaches,
    DetachFails
<1>9. CASE OptionsLoaded \/ TimerFires \/ AnswerReturns \/ ClosePopup \/ UNCHANGED vars
           \/ \E batch \in flights : PostReturns(batch)
  BY <1>1, <1>9 DEF OptionsLoaded, TimerFires, AnswerReturns, ClosePopup, PostReturns, vars
<1>10. CASE QuietStep
  BY <1>1, <1>7, <1>8, <1>9, <1>10, StartSteps DEF QuietStep
<1>11. CASE LoudStep
  BY <1>1, <1>3, <1>4, <1>5, <1>6, <1>7, <1>8, <1>11 DEF LoudStep
<1> QED BY <1>9, <1>10, <1>11, NextCases

LEMMA InitRest == Init => PagesInv /\ TabsInv /\ RulesInv /\ RecordsInv /\ NumbersInv /\ QueueInv
<1> SUFFICES ASSUME Init PROVE PagesInv /\ TabsInv /\ RulesInv /\ RecordsInv /\ NumbersInv /\ QueueInv
  OBVIOUS
<1>1. PICK on : /\ on \in {{}} \cup {{t} : t \in {u \in Tabs : page[u] \notin Restricted}}
                /\ sessions = Cardinality(on)
                /\ attachedTabs = [t \in on |-> TabState(page[t], OptionSets[1])]
                /\ badge = on
                /\ cachedOptions = IF on = {} THEN null ELSE OptionSets[1]
  BY Zenon DEF Init
<1>2. on \subseteq Tabs
  BY <1>1
<1>3. PagesInv
  BY <1>1, <1>2 DEF Init, PagesInv
<1>4. TabsInv
  <2>1. \A t \in on : IsState(TabState(page[t], OptionSets[1]))
    BY <1>2, <1>3, OptionsKnown, TabStateKnown DEF PagesInv
  <2> QED BY <1>1, <1>2, <2>1 DEF TabsInv
<1>5. RulesInv
  <2>1. /\ overtaken = FALSE /\ stored = OptionSets[1] /\ Len(loading) = 0
        /\ \A i \in 1..MaxTasks : tasks[i] = Idle
    BY DEF Init
  <2>2. \A i \in 1..MaxTasks : ~Waits(tasks[i]) /\ tasks[i].kind # "event"
    BY <2>1 DEF Waits, Idle
  <2>3. Fresh
    BY <1>1, <2>1, <2>2 DEF Fresh
  <2> QED BY <2>1, <2>2, <2>3 DEF RulesInv, HasTabOptions
<1>6. RecordsInv
  <2>1. made = 0 /\ queue = <<>> /\ flights = {} /\ posted = {}
    BY DEF Init
  <2>2. Range(<<>>) = {}
    BY DEF Range
  <2>3. Records = {}
    BY <2>1, <2>2 DEF Records
  <2> QED BY <2>1, <2>3 DEF RecordsInv
<1>7. NumbersInv
  <2>1. sessions = 0 \/ sessions = 1
    <3>1. CASE on = {}
      BY <1>1, <3>1, FS_EmptySet
    <3>2. CASE \E t \in Tabs : on = {t}
      BY <1>1, <3>2, FS_Singleton
    <3> QED BY <1>1, <3>1, <3>2
  <2> QED BY <2>1, BrowserTapAssumption DEF Init, NumbersInv
<1>8. QueueInv
  <2>1. <<>> \in Seq({}) /\ Len(<<>>) = 0 /\ 0 < FlushBatch
    BY BrowserTapAssumption
  <2> QED BY <2>1 DEF Init, QueueInv
<1> QED BY <1>3, <1>4, <1>5, <1>6, <1>7, <1>8

LEMMA Remembered ==
  Spec => [](TypeInv /\ QueueInv /\ PagesInv /\ TabsInv /\ RulesInv /\ RecordsInv)
<1>1. /\ TypeInv /\ QueueInv /\ PagesInv /\ TabsInv /\ RulesInv /\ RecordsInv /\ [Next]_vars
      => QueueInv' /\ PagesInv' /\ TabsInv' /\ RulesInv' /\ RecordsInv'
  <2>1. ASSUME UNCHANGED vars PROVE QueueStep
    BY <2>1 DEF vars, workerVars, queueVars, QueueStep
  <2>2. ASSUME QueueInv, [Next]_vars PROVE QueueInv'
    BY <2>1, <2>2, QueueKeeps, QueueSteps
  <2> QED BY <2>2, PagesStep, TabsStep, TabsKept, RulesStep, RecordsStep
<1> QED BY <1>1, InitRest, TypeCorrect, PTL DEF Spec

(* The variables have their types: a tab remembers no more requests than   *)
(* it may, a record has the number it was made with, and the sessions that *)
(* need no record have been (requestURLs, enqueueRecord).                  *)
THEOREM AllTyped == Spec => []TypeOK
<1>1. Spec => [](EndsInv /\ OwnInv /\ WordInv /\ NumbersInv)
  <2>1. TypeInv /\ EndsInv /\ OwnInv /\ WordInv /\ NumbersInv /\ [Next]_vars
          => EndsInv' /\ OwnInv' /\ WordInv' /\ NumbersInv'
    BY Changes, EndsStep, OwnStep, WordStep, NumbersStep
  <2>2. Init => EndsInv /\ OwnInv /\ WordInv /\ NumbersInv
    BY InitEnds, InitWords, InitRest
  <2> QED BY <2>1, <2>2, TypeCorrect, PTL DEF Spec
<1>2. TypeInv /\ QueueInv /\ PagesInv /\ TabsInv /\ RulesInv /\ RecordsInv /\ OwnInv /\ NumbersInv
        => TypeOK
  <2> SUFFICES ASSUME TypeInv, QueueInv, PagesInv, TabsInv, RulesInv, RecordsInv, OwnInv, NumbersInv
               PROVE  TypeOK
    OBVIOUS
  <2>1. session \in [Tabs -> Nat] /\ sessions \in Nat /\ overrides \subseteq Tabs /\ recent \subseteq Tabs
    BY DEF TypeInv, SessionsOK
  <2>2. session \in [Tabs -> 0..sessions]
    <3>1. ASSUME NEW t \in Tabs PROVE session[t] \in 0..sessions
      <4>1. CASE session[t] = 0
        BY <2>1, <4>1
      <4>2. CASE session[t] # 0
        <5>1. session[t] \in Numbers /\ Of(session[t], t)
          BY <2>1, <4>2 DEF Numbers, Of
        <5>2. session[t] <= sessions
          BY <5>1 DEF OwnInv
        <5> QED BY <2>1, <5>2
      <4> QED BY <4>1, <4>2
    <3> QED BY <2>1, <3>1
  <2>3. sessions \in 0..MaxSessions /\ excused \subseteq 1..sessions
    BY <2>1, BrowserTapAssumption DEF NumbersInv
  <2>4. stored \in Range(OptionSets) /\ cachedOptions \in Range(OptionSets) \cup {null}
    BY DEF TypeInv, OptionsOK, Options
  <2>5. /\ page \in [Tabs -> URLs \cup {NoURL}]
        /\ {removing, badge, overrides, recent, DOMAIN attachedTabs} \subseteq SUBSET Tabs
        /\ \A t \in DOMAIN attachedTabs : Len(attachedTabs[t].requests) <= MaxRequests
    BY <2>1 DEF PagesInv, TabsInv, IsState
  <2>6. {flushTimer, armed, overtaken} \subseteq BOOLEAN
    BY DEF QueueInv, RulesInv
  <2>7. \A r \in Records : r.id \in 1..made
    BY DEF RecordsInv
  <2> QED BY <2>2, <2>3, <2>4, <2>5, <2>6, <2>7 DEF TypeOK
<1> QED BY <1>1, <1>2, Remembered, PTL

(* A record of a debugger event obeys the rules that were saved when the   *)
(* event was raised, although handlers read them from a cache that others  *)
(* fill while they wait (loadOptions, saveOptions, stateForTab).           *)
THEOREM InForce == Spec => []RulesInForce
<1>1. RecordsInv => RulesInForce
  BY DEF RecordsInv, RulesInForce
<1> QED BY <1>1, Remembered, PTL
=============================================================================
