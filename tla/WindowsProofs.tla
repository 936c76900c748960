---------------------------- MODULE WindowsProofs ----------------------------
(***************************************************************************)
(* Theorems about Windows, for any finite set of rows and any targets,     *)
(* levels, names and number of moves.                                      *)
(***************************************************************************)
EXTENDS Windows, FiniteSetTheorems, TLAPS
-----------------------------------------------------------------------------
(* Views: the panes of one window.                                         *)

(* A pane shows only rows of its group, whose source is not excluded and   *)
(* whose level is on in its scope (App, the panes of the by-source view).  *)
LEMMA RowsOfPane ==
  ASSUME NEW v, NEW g, NEW p \in PanesOf(v, g), NEW r \in p.rows
  PROVE  /\ r \in SourceGroup(v, g)
         /\ Source(r.source) \notin v.excluded
         /\ <<p.scope, r.level>> \notin v.off
BY SMT DEF PanesOf, Pane

(* A group that is no group has no other source than a row's.              *)
LEMMA OnlyChild ==
  ASSUME NEW v, NEW g, NEW r \in SourceGroup(v, g), r \in Sourced, ~IsGroup(v, g)
  PROVE  SourcesOf(SourceGroup(v, g)) = {r.source}
<1> DEFINE S == SourcesOf(SourceGroup(v, g))
<1>1. r.source \in S
  BY DEF SourcesOf, Sourced
<1>2. IsFiniteSet(SourceGroup(v, g))
  <2>1. SourceGroup(v, g) \subseteq Rows
    BY DEF SourceGroup, ScopedRecords, ViewerRecords
  <2> QED
    BY <2>1, ViewsAssumption, FS_Subset
<1>3. IsFiniteSet(S)
  <2> DEFINE f == [x \in SourceGroup(v, g) |-> x.source]
             T == {x.source : x \in SourceGroup(v, g)}
  <2>1. f \in Surjection(SourceGroup(v, g), T)
    BY DEF Surjection
  <2>2. IsFiniteSet(T)
    BY <1>2, <2>1, FS_Surjection
  <2>3. S \subseteq T
    BY DEF SourcesOf
  <2> QED
    BY <2>2, <2>3, FS_Subset
<1>4. Cardinality(S \ {r.source}) = Cardinality(S) - 1
  BY <1>1, <1>3, FS_RemoveElement
<1>5. Cardinality(S) \in Nat /\ Cardinality(S \ {r.source}) \in Nat
  <2>1. IsFiniteSet(S \ {r.source})
    BY <1>1, <1>3, FS_RemoveElement
  <2> QED
    BY <1>3, <2>1, FS_CardinalityType
<1>6. Cardinality(S \ {r.source}) = 0
  BY <1>4, <1>5 DEF IsGroup
<1>7. S \ {r.source} = {}
  <2>1. IsFiniteSet(S \ {r.source})
    BY <1>1, <1>3, FS_RemoveElement
  <2> QED
    BY <1>6, <2>1, FS_EmptySet
<1> QED
  BY <1>1, <1>7

(* Where the by-source view switches a row's level.                        *)
ScopeOf(v, r) ==
  LET g == ProjectedGroupKey(v, r)
  IN  IF IsGroup(v, g) /\ g \notin v.bySource THEN Group(g) ELSE Source(r.source)

(* In the panes of its own group a row whose source is not excluded is     *)
(* shown once, or not at all when its level is off (sourcePanes).          *)
LEMMA PaneInGroup ==
  ASSUME NEW v, NEW g, NEW r \in SourceGroup(v, g), r \in Sourced, Source(r.source) \notin v.excluded
  PROVE  IF <<ScopeOf(v, r), r.level>> \notin v.off
         THEN \E p : {q \in PanesOf(v, g) : r \in q.rows} = {p}
         ELSE {q \in PanesOf(v, g) : r \in q.rows} = {}
<1> DEFINE rows == SourceGroup(v, g)
           children == SourcesOf(rows)
           visible == {s \in children : Source(s) \notin v.excluded}
           Of(s) == {x \in rows : x.source = s}
           holding == {q \in PanesOf(v, g) : r \in q.rows}
<1>1. r \in rows /\ r.source \in visible
  BY DEF SourcesOf, Sourced
<1>2. ProjectedGroupKey(v, r) = g
  BY DEF SourceGroup
<1>3. CASE IsGroup(v, g) /\ g \in v.bySource
  <2>1. PanesOf(v, g) = {Pane(v, Source(s), Of(s)) : s \in visible}
    BY <1>3 DEF PanesOf
  <2>2. ScopeOf(v, r) = Source(r.source)
    BY <1>2, <1>3 DEF ScopeOf
  <2>3. \A s : r \in Pane(v, Source(s), Of(s)).rows <=>
              s = r.source /\ <<Source(s), r.level>> \notin v.off
    BY <1>1 DEF Pane
  <2>4. holding = {Pane(v, Source(s), Of(s)) : s \in
                      {t \in visible : t = r.source /\ <<Source(t), r.level>> \notin v.off}}
    BY <2>1, <2>3
  <2>5. CASE <<Source(r.source), r.level>> \notin v.off
    <3>1. holding = {Pane(v, Source(r.source), Of(r.source))}
      BY <1>1, <2>4, <2>5
    <3> QED
      BY <2>2, <2>5, <3>1
  <2>6. CASE <<Source(r.source), r.level>> \in v.off
    <3>1. holding = {}
      BY <2>4, <2>6
    <3> QED
      BY <2>2, <2>6, <3>1
  <2> QED
    BY <2>5, <2>6
<1>4. CASE ~(IsGroup(v, g) /\ g \in v.bySource)
  <2> DEFINE pane == Pane(v, ScopeOf(v, r), UNION {Of(s) : s \in visible})
  <2>1. PanesOf(v, g) = {pane}
    <3>1. CASE IsGroup(v, g)
      BY <1>2, <1>4, <3>1 DEF PanesOf, ScopeOf
    <3>2. CASE ~IsGroup(v, g)
      <4>1. children = {r.source}
        BY <3>2, OnlyChild
      <4>2. children # {} /\ (CHOOSE s \in children : TRUE) = r.source
        BY <4>1
      <4>3. ScopeOf(v, r) = Source(r.source)
        BY <1>2, <3>2 DEF ScopeOf
      <4> QED
        BY <3>2, <4>2, <4>3 DEF PanesOf
    <3> QED
      BY <3>1, <3>2
  <2>2. r \in UNION {Of(s) : s \in visible}
    BY <1>1
  <2>3. r \in pane.rows <=> <<ScopeOf(v, r), r.level>> \notin v.off
    BY <2>2 DEF Pane
  <2>4. CASE <<ScopeOf(v, r), r.level>> \notin v.off
    <3>1. holding = {pane}
      BY <2>1, <2>3, <2>4
    <3> QED
      BY <2>4, <3>1
  <2>5. CASE <<ScopeOf(v, r), r.level>> \in v.off
    <3>1. holding = {}
      BY <2>1, <2>3, <2>5
    <3> QED
      BY <2>5, <3>1
  <2> QED
    BY <2>4, <2>5
<1> QED
  BY <1>3, <1>4

(* Each row with a source is in one pane of a window, or in none when the  *)
(* by-source view does not count it.                                       *)
LEMMA PanesShowVisible == ASSUME NEW v PROVE InOnePane(v)
<1> SUFFICES ASSUME NEW r \in Sourced
             PROVE  Cardinality({p \in SourcePanes(v) : r \in p.rows}) =
                      IF r \in VisibleRecords(v, FALSE) THEN 1 ELSE 0
  BY DEF InOnePane
<1> DEFINE g == ProjectedGroupKey(v, r)
           holding == {p \in SourcePanes(v) : r \in p.rows}
           counted == r \in ScopedRecords(v) /\ ~IsExcluded(v, r)
           on == <<ScopeOf(v, r), r.level>> \notin v.off
<1>1. r \in VisibleRecords(v, FALSE) <=> counted /\ on
  BY DEF VisibleRecords, SourceVisibleRecords, ScopeOf
<1>2. IsExcluded(v, r) <=> Group(g) \in v.excluded \/ Source(r.source) \in v.excluded
  BY DEF IsExcluded
<1>3. \A p \in holding : counted /\ p \in PanesOf(v, g)
  <2> SUFFICES ASSUME NEW p \in holding PROVE counted /\ p \in PanesOf(v, g)
    OBVIOUS
  <2>1. PICK h : Group(h) \notin v.excluded /\ p \in PanesOf(v, h)
    BY DEF SourcePanes
  <2>2. r \in SourceGroup(v, h) /\ Source(r.source) \notin v.excluded
    BY <2>1, RowsOfPane
  <2>3. h = g /\ r \in ScopedRecords(v)
    BY <2>2 DEF SourceGroup
  <2> QED
    BY <1>2, <2>1, <2>2, <2>3
<1>4. CASE counted
  <2>1. holding = {p \in PanesOf(v, g) : r \in p.rows}
    <3>1. PanesOf(v, g) \subseteq SourcePanes(v)
      BY <1>2, <1>4 DEF SourcePanes
    <3> QED
      BY <1>3, <3>1
  <2>2. r \in SourceGroup(v, g)
    BY <1>4 DEF SourceGroup
  <2>3. CASE on
    <3>1. PICK p : holding = {p}
      BY <1>2, <1>4, <2>1, <2>2, <2>3, PaneInGroup
    <3> QED
      BY <1>1, <1>4, <2>3, <3>1, FS_Singleton
  <2>4. CASE ~on
    <3>1. holding = {}
      BY <1>2, <1>4, <2>1, <2>2, <2>4, PaneInGroup
    <3> QED
      BY <1>1, <2>4, <3>1, FS_EmptySet
  <2> QED
    BY <2>3, <2>4
<1>5. CASE ~counted
  <2>1. holding = {}
    BY <1>3, <1>5
  <2> QED
    BY <1>1, <1>5, <2>1, FS_EmptySet
<1> QED
  BY <1>4, <1>5

(* With every level on both views show what no exclusion hides.            *)
LEMMA ViewsShowTheSame == ASSUME NEW v PROVE SameInBothViews(v)
BY DEF SameInBothViews, VisibleRecords, MergedRecords, SourceVisibleRecords
-----------------------------------------------------------------------------
(* Types.  A view and a saved workspace have their fields, blocked sources *)
(* and detached targets are such, and a prompt holds the settings of its   *)
(* window.                                                                 *)
Settings == {"blocked", "detached"}
Values(topic) == IF topic = "blocked" THEN SUBSET SourcesOf(Rows) ELSE SUBSET Targets
Message == UNION {[topic : {topic}, value : Values(topic)] : topic \in Settings}

IsView(v, w) ==
  /\ {"popout", "blocked", "detached", "excluded", "off", "mergedOff", "bySource"} \subseteq DOMAIN v
  /\ v.popout = w /\ v.blocked \subseteq SourcesOf(Rows) /\ v.detached \subseteq Targets

AreWorkspaces(workspaces) ==
  \A x \in workspaces : /\ {"name", "preferences"} \subseteq DOMAIN x
                         /\ x.preferences.blocked \subseteq SourcesOf(Rows)

(* No two workspaces have names that differ in case alone.                 *)
UniqueNames(workspaces) == \A x, y \in workspaces : Key(x.name) = Key(y.name) => x = y

IsPrompt(prompt) ==
  \/ prompt = null
  \/ prompt.act \in {"update", "delete"} /\ prompt.preferences.blocked \subseteq SourcesOf(Rows)

StoredOK ==
  /\ DOMAIN stored = Topics
  /\ \A topic \in Settings : stored[topic] \in Values(topic)
  /\ AreWorkspaces(stored.workspaces) /\ UniqueNames(stored.workspaces)
PhaseOK == phase \in [Windows -> {"closed", "loading", "mounted", "open", "closing"}]
FlagsOK == was \in [Windows -> BOOLEAN] /\ due \in [Windows -> BOOLEAN]
ViewsOK == DOMAIN views = Windows /\ \A w \in Windows : IsView(views[w], w)
MailOK == mail \in [Windows -> Seq(Message)] /\ events \in [Windows -> Seq(Topics)]
PromptsOK == DOMAIN prompts = Windows /\ \A w \in Windows : IsPrompt(prompts[w])
CountsOK == crossed \subseteq Topics /\ moves \in 0..MaxMoves

TypeInv == StoredOK /\ PhaseOK /\ FlagsOK /\ ViewsOK /\ MailOK /\ PromptsOK /\ CountsOK

(* The page is loaded for the first time, with nothing stored.             *)
LEMMA InitTypes == Init => TypeInv
<1> SUFFICES ASSUME Init PROVE TypeInv
  OBVIOUS
<1>1. StoredOK
  BY DEF Init, StoredOK, Topics, Settings, Values, AreWorkspaces, UniqueNames
<1>2. PhaseOK
  BY DEF Init, PhaseOK
<1>3. FlagsOK
  BY Zenon DEF Init, FlagsOK
<1>4. ViewsOK
  BY DEF Init, ViewsOK, IsView, NewView
<1>5. MailOK
  BY DEF Init, MailOK
<1>6. PromptsOK
  BY DEF Init, PromptsOK, IsPrompt
<1>7. CountsOK
  BY WindowsAssumption DEF Init, CountsOK
<1> QED
  BY <1>1, <1>2, <1>3, <1>4, <1>5, <1>6, <1>7 DEF TypeInv

(* writeBlockedSources and its like keep what is stored apart from their   *)
(* topic, and tell windows of topics only.                                 *)
LEMMA StoreTypes ==
  ASSUME TypeInv, NEW w \in Windows, NEW topic \in Topics, NEW value, Store(w, topic, value),
         topic \in Settings => value \in Values(topic),
         topic = "workspaces" => AreWorkspaces(value) /\ UniqueNames(value)
  PROVE  /\ StoredOK' /\ events' \in [Windows -> Seq(Topics)] /\ crossed' \subseteq Topics
         /\ stored'[topic] = value
         /\ \A t \in Topics \ {topic} : stored'[t] = stored[t]
<1>1. DOMAIN stored' = Topics /\ stored'[topic] = value
  BY DEF Store, TypeInv, StoredOK
<1>2. \A t \in Topics \ {topic} : stored'[t] = stored[t]
  BY DEF Store, TypeInv, StoredOK
<1>3. \A t \in Settings : stored'[t] \in Values(t)
  BY <1>1, <1>2 DEF TypeInv, StoredOK, Settings, Topics
<1>4. AreWorkspaces(stored'.workspaces) /\ UniqueNames(stored'.workspaces)
  <2>1. CASE topic = "workspaces"
    BY <1>1, <2>1
  <2>2. CASE topic # "workspaces"
    <3>1. stored'.workspaces = stored.workspaces
      BY <1>2, <2>2 DEF Topics
    <3> QED
      BY <3>1 DEF TypeInv, StoredOK
  <2> QED
    BY <2>1, <2>2
<1>5. events' \in [Windows -> Seq(Topics)]
  <2>1. \A x \in Windows : events[x] \in Seq(Topics) /\ Append(events[x], topic) \in Seq(Topics)
    BY DEF TypeInv, MailOK
  <2> QED
    BY <2>1 DEF Store
<1>6. crossed' \subseteq Topics
  BY DEF Store, TypeInv, CountsOK
<1>7. StoredOK'
  BY <1>1, <1>3, <1>4 DEF StoredOK, AreWorkspaces, UniqueNames, Values
<1> QED
  BY <1>1, <1>2, <1>5, <1>6, <1>7

(* A channel carries what it was made for.                                 *)
LEMMA PostTypes ==
  ASSUME TypeInv, NEW w \in Windows, NEW topic \in Settings, NEW value \in Values(topic),
         Post(w, topic, value)
  PROVE  mail' \in [Windows -> Seq(Message)]
<1>1. [topic |-> topic, value |-> value] \in Message
  BY DEF Message
<1>2. \A x \in Windows : /\ mail[x] \in Seq(Message)
                          /\ Append(mail[x], [topic |-> topic, value |-> value]) \in Seq(Message)
  BY <1>1 DEF TypeInv, MailOK
<1> QED
  BY <1>2 DEF Post

(* One window's view, another's phase, a flag or a prompt may change: what *)
(* the variables of all windows need.                                      *)
LEMMA ViewsKept ==
  ASSUME ViewsOK, NEW w \in Windows, NEW v, views' = [views EXCEPT ![w] = v], IsView(v, w)
  PROVE  ViewsOK'
BY DEF ViewsOK, IsView

(* The actions one by one: first those of the browser.                     *)
LEMMA MountTypes == ASSUME TypeInv, NEW w \in Windows, Mount(w) PROVE TypeInv'
<1>1. StoredOK'
  BY DEF Mount, TypeInv, StoredOK, AreWorkspaces, UniqueNames
<1>2. PhaseOK'
  BY DEF Mount, TypeInv, PhaseOK
<1>3. FlagsOK'
  BY Zenon DEF Mount, TypeInv, FlagsOK
<1>4. ViewsOK'
  <2> DEFINE v == [NewView(w) EXCEPT !.blocked = stored.blocked, !.detached = stored.detached]
  <2>1. IsView(v, w)
    BY DEF IsView, NewView, TypeInv, StoredOK, Settings, Values
  <2> QED
    BY <2>1, ViewsKept DEF Mount, TypeInv
<1>5. MailOK'
  BY DEF Mount, TypeInv, MailOK
<1>6. PromptsOK'
  BY DEF Mount, TypeInv, PromptsOK, IsPrompt
<1>7. CountsOK'
  BY DEF Mount, TypeInv, CountsOK
<1> QED
  BY <1>1, <1>2, <1>3, <1>4, <1>5, <1>6, <1>7 DEF TypeInv

(* The effects of a page that has loaded keep the types.                   *)
LEMMA ListenTypes == ASSUME TypeInv, NEW w \in Windows, Listen(w) PROVE TypeInv'
<1>1. StoredOK'
  BY DEF Listen, TypeInv, StoredOK, AreWorkspaces, UniqueNames
<1>2. PhaseOK'
  BY DEF Listen, TypeInv, PhaseOK
<1>3. FlagsOK'
  BY Zenon DEF Listen, TypeInv, FlagsOK
<1>4. ViewsOK' /\ MailOK' /\ PromptsOK' /\ CountsOK'
  BY DEF Listen, TypeInv, ViewsOK, IsView, MailOK, PromptsOK, IsPrompt, CountsOK
<1> QED
  BY <1>1, <1>2, <1>3, <1>4 DEF TypeInv

(* So does the effect that decides to close a popout.                      *)
LEMMA CloseEffectTypes == ASSUME TypeInv, NEW w \in Windows, CloseEffect(w) PROVE TypeInv'
<1>1. StoredOK'
  BY DEF CloseEffect, TypeInv, StoredOK, AreWorkspaces, UniqueNames
<1>2. PhaseOK'
  <2>1. phase' \in {phase, [phase EXCEPT ![w] = "closing"]}
    BY DEF CloseEffect
  <2> QED
    BY <2>1 DEF TypeInv, PhaseOK
<1>3. FlagsOK'
  <2>1. (was[w] \/ w \in views[w].detached) \in BOOLEAN
    OBVIOUS
  <2> QED
    BY <2>1, Zenon DEF CloseEffect, TypeInv, FlagsOK
<1>4. ViewsOK' /\ MailOK' /\ PromptsOK' /\ CountsOK'
  BY DEF CloseEffect, TypeInv, ViewsOK, IsView, MailOK, PromptsOK, IsPrompt, CountsOK
<1> QED
  BY <1>1, <1>2, <1>3, <1>4 DEF TypeInv

(* A window that is closed, by its timer or the user, keeps the types.     *)
LEMMA ClosedTypes ==
  ASSUME TypeInv, NEW w \in Windows, Closed(w), moves' \in 0..MaxMoves PROVE TypeInv'
<1>1. StoredOK'
  BY DEF Closed, TypeInv, StoredOK, AreWorkspaces, UniqueNames
<1>2. PhaseOK'
  BY DEF Closed, TypeInv, PhaseOK
<1>3. FlagsOK'
  BY Zenon DEF Closed, TypeInv, FlagsOK
<1>4. ViewsOK'
  <2>1. IsView(NewView(w), w)
    BY DEF IsView, NewView
  <2> QED
    BY <2>1, ViewsKept DEF Closed, TypeInv
<1>5. MailOK' /\ PromptsOK' /\ CountsOK'
  BY DEF Closed, TypeInv, MailOK, PromptsOK, IsPrompt, CountsOK
<1> QED
  BY <1>1, <1>2, <1>3, <1>4, <1>5 DEF TypeInv

(* A message sets a setting to a value that was sent for it (the listeners *)
(* of the channels).                                                       *)
LEMMA SyncMessageTypes == ASSUME TypeInv, NEW w \in Windows, SyncMessage(w) PROVE TypeInv'
<1> DEFINE m == Head(mail[w])
<1>0. mail[w] \in Seq(Message) /\ mail[w] # <<>>
  BY DEF SyncMessage, TypeInv, MailOK
<1>1. m \in Message /\ Tail(mail[w]) \in Seq(Message)
  BY <1>0
<1>2. m.topic \in Settings /\ m.value \in Values(m.topic)
  BY <1>1 DEF Message
<1>3. StoredOK'
  BY DEF SyncMessage, TypeInv, StoredOK, AreWorkspaces, UniqueNames
<1>4. PhaseOK' /\ PromptsOK' /\ CountsOK'
  BY DEF SyncMessage, TypeInv, PhaseOK, PromptsOK, IsPrompt, CountsOK
<1>5. FlagsOK'
  <2>1. (due[w] \/ m.topic = "detached") \in BOOLEAN
    OBVIOUS
  <2> QED
    BY <2>1, Zenon DEF SyncMessage, TypeInv, FlagsOK
<1>6. ViewsOK'
  <2> DEFINE v == [views[w] EXCEPT ![m.topic] = m.value]
  <2>1. IsView(v, w)
    BY <1>2 DEF IsView, TypeInv, ViewsOK, Settings, Values
  <2>2. views' = [views EXCEPT ![w] = v]
    BY DEF SyncMessage
  <2> QED
    BY <2>1, <2>2, ViewsKept DEF TypeInv
<1>7. MailOK'
  BY <1>1 DEF SyncMessage, TypeInv, MailOK
<1> QED
  BY <1>3, <1>4, <1>5, <1>6, <1>7 DEF TypeInv

(* The storage event of a topic reads that topic (syncFromStorage).        *)
LEMMA SyncFromStorageTypes == ASSUME TypeInv, NEW w \in Windows, SyncFromStorage(w) PROVE TypeInv'
<1> DEFINE topic == Head(events[w])
<1>0. events[w] \in Seq(Topics) /\ events[w] # <<>>
  BY DEF SyncFromStorage, TypeInv, MailOK
<1>1. topic \in Topics /\ Tail(events[w]) \in Seq(Topics)
  BY <1>0
<1>2. StoredOK'
  BY DEF SyncFromStorage, TypeInv, StoredOK, AreWorkspaces, UniqueNames
<1>3. PhaseOK' /\ PromptsOK' /\ CountsOK'
  BY DEF SyncFromStorage, TypeInv, PhaseOK, PromptsOK, IsPrompt, CountsOK
<1>4. FlagsOK'
  <2>1. (due[w] \/ topic = "detached") \in BOOLEAN
    OBVIOUS
  <2> QED
    BY <2>1, Zenon DEF SyncFromStorage, TypeInv, FlagsOK
<1>5. ViewsOK'
  <2>1. CASE topic = "workspaces"
    <3>1. views' = views
      BY <2>1 DEF SyncFromStorage
    <3> QED
      BY <3>1 DEF TypeInv, ViewsOK, IsView
  <2>2. CASE topic # "workspaces"
    <3> DEFINE v == [views[w] EXCEPT ![topic] = stored[topic]]
    <3>1. topic \in Settings
      BY <1>1, <2>2 DEF Topics, Settings
    <3>2. IsView(v, w)
      BY <3>1 DEF IsView, TypeInv, ViewsOK, StoredOK, Settings, Values
    <3>3. views' = [views EXCEPT ![w] = v]
      BY <2>2 DEF SyncFromStorage
    <3> QED
      BY <3>2, <3>3, ViewsKept DEF TypeInv
  <2> QED
    BY <2>1, <2>2
<1>6. MailOK'
  BY <1>1 DEF SyncFromStorage, TypeInv, MailOK
<1> QED
  BY <1>2, <1>3, <1>4, <1>5, <1>6 DEF TypeInv
-----------------------------------------------------------------------------
(* Then those of users.                                                    *)
LEMMA ActsTypes == ASSUME TypeInv, NEW w \in Windows, Acts(w) PROVE moves' \in 0..MaxMoves
BY WindowsAssumption DEF Acts, TypeInv, CountsOK

(* Detaching or attaching a target keeps the types.                        *)
LEMMA DetachTypes ==
  ASSUME TypeInv, NEW w \in Windows, NEW targets \in SUBSET Targets,
         UpdateDetachedTargets(w, targets), moves' \in 0..MaxMoves, UNCHANGED <<was, prompts>>,
         PhaseOK'
  PROVE  TypeInv'
<1>1. targets \in Values("detached") /\ "detached" \in Settings /\ "detached" \in Topics
  BY DEF Values, Settings, Topics
<1>2. StoredOK' /\ events' \in [Windows -> Seq(Topics)] /\ crossed' \subseteq Topics
  <2>1. Store(w, "detached", targets)
    BY DEF UpdateDetachedTargets
  <2> QED
    BY <1>1, <2>1, StoreTypes
<1>3. mail' \in [Windows -> Seq(Message)]
  BY <1>1, PostTypes DEF UpdateDetachedTargets
<1>4. FlagsOK'
  BY Zenon DEF UpdateDetachedTargets, TypeInv, FlagsOK
<1>5. ViewsOK'
  <2> DEFINE v == [views[w] EXCEPT !.detached = targets]
  <2>1. IsView(v, w)
    BY DEF IsView, TypeInv, ViewsOK
  <2>2. views' = [views EXCEPT ![w] = v]
    BY DEF UpdateDetachedTargets
  <2> QED
    BY <2>1, <2>2, ViewsKept DEF TypeInv
<1>6. PromptsOK'
  BY DEF TypeInv, PromptsOK, IsPrompt
<1> QED
  BY <1>2, <1>3, <1>4, <1>5, <1>6 DEF TypeInv, MailOK, CountsOK

(* openPopout keeps the types.                                             *)
LEMMA OpenPopoutTypes ==
  ASSUME TypeInv, NEW w \in Windows, NEW t \in Targets, OpenPopout(w, t) PROVE TypeInv'
<1>1. views[w].detached \cup {t} \in SUBSET Targets
  BY DEF TypeInv, ViewsOK, IsView
<1>2. PhaseOK'
  BY DEF OpenPopout, TypeInv, PhaseOK, Windows
<1> QED
  BY <1>1, <1>2, ActsTypes, DetachTypes DEF OpenPopout

(* reattachTarget keeps the types.                                         *)
LEMMA ReattachTargetTypes ==
  ASSUME TypeInv, NEW w \in Windows, NEW t \in Targets, ReattachTarget(w, t) PROVE TypeInv'
<1>1. views[w].detached \ {t} \in SUBSET Targets
  BY DEF TypeInv, ViewsOK, IsView
<1>2. PhaseOK'
  <2>1. phase' \in {phase, [phase EXCEPT ![w] = "closing"]}
    BY DEF ReattachTarget
  <2> QED
    BY <2>1 DEF TypeInv, PhaseOK
<1> QED
  BY <1>1, <1>2, ActsTypes, DetachTypes DEF ReattachTarget

(* A page that is loaded again keeps the types.                            *)
LEMMA LoadPageTypes == ASSUME TypeInv, NEW w \in Windows, LoadPage(w) PROVE TypeInv'
<1>1. StoredOK'
  BY DEF LoadPage, TypeInv, StoredOK, AreWorkspaces, UniqueNames
<1>2. PhaseOK'
  BY DEF LoadPage, TypeInv, PhaseOK
<1>3. FlagsOK'
  BY Zenon DEF LoadPage, TypeInv, FlagsOK
<1>4. ViewsOK' /\ MailOK' /\ PromptsOK'
  BY DEF LoadPage, TypeInv, ViewsOK, IsView, MailOK, PromptsOK, IsPrompt
<1>5. CountsOK'
  BY WindowsAssumption DEF LoadPage, TypeInv, CountsOK
<1> QED
  BY <1>1, <1>2, <1>3, <1>4, <1>5 DEF TypeInv

(* Blocking or unblocking a source keeps the types.                        *)
LEMMA BlockTypes ==
  ASSUME TypeInv, NEW w \in Windows, NEW sources \in SUBSET SourcesOf(Rows),
         UpdateBlockedSources(w, sources), moves' \in 0..MaxMoves,
         NEW v, views' = [views EXCEPT ![w] = v], IsView(v, w),
         UNCHANGED <<windowVars, prompts>>
  PROVE  TypeInv'
<1>1. sources \in Values("blocked") /\ "blocked" \in Settings /\ "blocked" \in Topics
  BY DEF Values, Settings, Topics
<1>2. StoredOK' /\ events' \in [Windows -> Seq(Topics)] /\ crossed' \subseteq Topics
  <2>1. Store(w, "blocked", sources)
    BY DEF UpdateBlockedSources
  <2> QED
    BY <1>1, <2>1, StoreTypes
<1>3. mail' \in [Windows -> Seq(Message)]
  BY <1>1, PostTypes DEF UpdateBlockedSources
<1>4. FlagsOK'
  BY Zenon DEF windowVars, TypeInv, FlagsOK
<1>5. ViewsOK'
  BY ViewsKept DEF TypeInv
<1>6. PhaseOK' /\ PromptsOK'
  BY DEF TypeInv, PhaseOK, PromptsOK, IsPrompt, windowVars
<1> QED
  BY <1>2, <1>3, <1>4, <1>5, <1>6 DEF TypeInv, MailOK, CountsOK

(* blockSource keeps the types.                                            *)
LEMMA BlockSourceTypes ==
  ASSUME TypeInv, NEW w \in Windows, NEW s \in SourcesOf(Rows), BlockSource(w, s) PROVE TypeInv'
<1> DEFINE v == [views[w] EXCEPT !.blocked = @ \cup {s}, !.excluded = @ \ {Source(s)},
                                !.off = {p \in @ : p[1] # Source(s)}]
<1>1. IsView(v, w) /\ views[w].blocked \cup {s} \in SUBSET SourcesOf(Rows)
  BY DEF TypeInv, ViewsOK, IsView
<1>2. views' = [views EXCEPT ![w] = v]
  BY DEF BlockSource, TypeInv, ViewsOK
<1> QED
  BY <1>1, <1>2, ActsTypes, BlockTypes DEF BlockSource

(* unblockSource keeps the types.                                          *)
LEMMA UnblockSourceTypes ==
  ASSUME TypeInv, NEW w \in Windows, NEW s \in SourcesOf(Rows), UnblockSource(w, s) PROVE TypeInv'
<1> DEFINE v == [views[w] EXCEPT !.blocked = @ \ {s}]
<1>1. IsView(v, w) /\ views[w].blocked \ {s} \in SUBSET SourcesOf(Rows)
  BY DEF TypeInv, ViewsOK, IsView
<1>2. views' = [views EXCEPT ![w] = v]
  BY DEF UnblockSource
<1> QED
  BY <1>1, <1>2, ActsTypes, BlockTypes DEF UnblockSource

(* A workspace loaded gives the window the settings saved in it, its       *)
(* blocked sources included.                                               *)
LEMMA LoadWorkspaceTypes == ASSUME TypeInv, NEW w \in Windows, LoadWorkspace(w) PROVE TypeInv'
<1>0. moves' \in 0..MaxMoves /\ UNCHANGED <<windowVars, prompts>>
  BY ActsTypes DEF LoadWorkspace
<1>1. CASE UNCHANGED <<stored, views, mail, events, crossed>>
  <2>1. FlagsOK'
    BY <1>0, Zenon DEF windowVars, TypeInv, FlagsOK
  <2>2. StoredOK' /\ PhaseOK' /\ ViewsOK' /\ MailOK' /\ PromptsOK' /\ CountsOK'
    BY <1>0, <1>1 DEF windowVars, TypeInv, StoredOK, AreWorkspaces, UniqueNames, PhaseOK,
                      ViewsOK, IsView, MailOK, PromptsOK, IsPrompt, CountsOK
  <2> QED
    BY <2>1, <2>2 DEF TypeInv
<1>2. CASE \E x \in stored.workspaces :
             /\ views' = [views EXCEPT ![w] = WithPreferences(@, x.preferences)]
             /\ UpdateBlockedSources(w, x.preferences.blocked)
  <2>1. PICK x \in stored.workspaces :
             /\ views' = [views EXCEPT ![w] = WithPreferences(@, x.preferences)]
             /\ UpdateBlockedSources(w, x.preferences.blocked)
    BY <1>2
  <2>2. x.preferences.blocked \in SUBSET SourcesOf(Rows)
    BY DEF TypeInv, StoredOK, AreWorkspaces
  <2>3. IsView(WithPreferences(views[w], x.preferences), w)
    BY <2>2 DEF WithPreferences, IsView, TypeInv, ViewsOK
  <2> QED
    BY <1>0, <2>1, <2>2, <2>3, BlockTypes
<1> QED
  BY <1>1, <1>2 DEF LoadWorkspace, ReadWorkspaces

(* The settings of one window keep the types.                              *)
LEMMA SetTypes ==
  ASSUME TypeInv, NEW w \in Windows, NEW v, Set(w, v), IsView(v, w) PROVE TypeInv'
<1>1. StoredOK'
  BY DEF Set, TypeInv, StoredOK, AreWorkspaces, UniqueNames
<1>2. FlagsOK'
  BY Zenon DEF Set, windowVars, TypeInv, FlagsOK
<1>3. ViewsOK'
  BY ViewsKept DEF Set, TypeInv
<1>4. PhaseOK' /\ MailOK' /\ PromptsOK'
  BY DEF Set, windowVars, TypeInv, PhaseOK, MailOK, PromptsOK, IsPrompt
<1>5. CountsOK'
  BY ActsTypes DEF Set, TypeInv, CountsOK
<1> QED
  BY <1>1, <1>2, <1>3, <1>4, <1>5 DEF TypeInv

(* Excluding, levels and grouping leave the rest of a view alone.          *)
LEMMA TogglesSet ==
  ASSUME TypeInv, NEW w \in Windows,
         \/ ToggleExcluded(w) \/ ToggleGrouping(w)
         \/ \E level \in Levels : TogglePaneLevel(w, level) \/ ToggleLevel(w, level)
  PROVE  \E v : /\ Set(w, v) /\ IsView(v, w)
                /\ v.blocked = views[w].blocked /\ v.detached = views[w].detached
<1>0. IsView(views[w], w)
  BY DEF TypeInv, ViewsOK
<1>1. CASE ToggleExcluded(w)
  <2>1. \E keys : Set(w, [views[w] EXCEPT !.excluded = keys])
    BY <1>1 DEF ToggleExcluded
  <2> QED
    BY <1>0, <2>1 DEF IsView
<1>2. CASE ToggleGrouping(w)
  <2>1. \E groups : Set(w, [views[w] EXCEPT !.bySource = groups])
    BY <1>2 DEF ToggleGrouping
  <2> QED
    BY <1>0, <2>1 DEF IsView
<1>3. CASE \E level \in Levels : TogglePaneLevel(w, level)
  <2>1. \E off : Set(w, [views[w] EXCEPT !.off = off])
    BY <1>3 DEF TogglePaneLevel
  <2> QED
    BY <1>0, <2>1 DEF IsView
<1>4. CASE \E level \in Levels : ToggleLevel(w, level)
  <2>1. \E off : Set(w, [views[w] EXCEPT !.mergedOff = off])
    BY <1>4 DEF ToggleLevel
  <2> QED
    BY <1>0, <2>1 DEF IsView
<1> QED
  BY <1>1, <1>2, <1>3, <1>4

(* What saving and deleting make of the list (saveWorkspace,               *)
(* deleteWorkspace): names stay unique.                                    *)
LEMMA SavedTypes ==
  ASSUME NEW workspaces, AreWorkspaces(workspaces), UniqueNames(workspaces), NEW name,
         NEW preferences, preferences.blocked \subseteq SourcesOf(Rows)
  PROVE  /\ AreWorkspaces(Saved(workspaces, name, preferences))
         /\ UniqueNames(Saved(workspaces, name, preferences))
<1> DEFINE saved == Saved(workspaces, name, preferences)
<1>1. CASE Named(workspaces, name) = {}
  <2> DEFINE new == [name |-> name, preferences |-> preferences]
  <2>1. saved = workspaces \cup {new}
    BY <1>1 DEF Saved
  <2>2. \A x \in workspaces : Key(x.name) # Key(new.name)
    BY <1>1 DEF Named, IsNamed
  <2>3. {"name", "preferences"} \subseteq DOMAIN new /\ new.preferences.blocked \subseteq SourcesOf(Rows)
    OBVIOUS
  <2> HIDE DEF new
  <2> QED
    BY <2>1, <2>2, <2>3 DEF AreWorkspaces, UniqueNames
<1>2. CASE Named(workspaces, name) # {}
  <2> DEFINE With(x) == IF IsNamed(x, name) THEN [x EXCEPT !.preferences = preferences] ELSE x
  <2>1. saved = {With(x) : x \in workspaces}
    BY <1>2 DEF Saved
  <2>2. \A x \in workspaces : /\ With(x).name = x.name
                               /\ {"name", "preferences"} \subseteq DOMAIN With(x)
                               /\ With(x).preferences.blocked \subseteq SourcesOf(Rows)
    BY DEF AreWorkspaces
  <2> HIDE DEF With
  <2> QED
    BY <2>1, <2>2 DEF AreWorkspaces, UniqueNames
<1> QED
  BY <1>1, <1>2

(* What is left after deleting one has unique names still                  *)
(* (deleteWorkspace).                                                      *)
LEMMA DeletedTypes ==
  ASSUME NEW workspaces, AreWorkspaces(workspaces), UniqueNames(workspaces), NEW name
  PROVE  AreWorkspaces(Deleted(workspaces, name)) /\ UniqueNames(Deleted(workspaces, name))
BY DEF Deleted, AreWorkspaces, UniqueNames

(* Writing the list keeps the types.                                       *)
LEMMA WriteTypes ==
  ASSUME TypeInv, NEW w \in Windows, NEW workspaces, Write(w, workspaces),
         AreWorkspaces(workspaces), UniqueNames(workspaces), moves' \in 0..MaxMoves,
         UNCHANGED <<windowVars, views, mail>>, PromptsOK'
  PROVE  TypeInv'
<1>1. StoredOK' /\ events' \in [Windows -> Seq(Topics)] /\ crossed' \subseteq Topics
  <2>1. "workspaces" \in Topics /\ "workspaces" \notin Settings
    BY DEF Topics, Settings
  <2>2. Store(w, "workspaces", workspaces)
    BY DEF Write
  <2> QED
    BY <2>1, <2>2, StoreTypes
<1>2. FlagsOK'
  BY Zenon DEF windowVars, TypeInv, FlagsOK
<1>3. PhaseOK' /\ ViewsOK' /\ MailOK'
  BY <1>1 DEF windowVars, TypeInv, PhaseOK, ViewsOK, IsView, MailOK
<1> QED
  BY <1>1, <1>2, <1>3 DEF TypeInv, CountsOK

(* The settings a window saves block sources only (Preferences).           *)
LEMMA PreferencesType ==
  ASSUME TypeInv, NEW w \in Windows PROVE Preferences(views[w]).blocked \subseteq SourcesOf(Rows)
BY DEF Preferences, TypeInv, ViewsOK, IsView

(* Saving a workspace under a new name keeps the types.                    *)
LEMMA SaveWorkspaceTypes ==
  ASSUME TypeInv, NEW w \in Windows, NEW name \in Names, SaveWorkspace(w, name) PROVE TypeInv'
<1>1. AreWorkspaces(stored.workspaces) /\ UniqueNames(stored.workspaces)
  BY DEF TypeInv, StoredOK
<1>2. PromptsOK'
  BY DEF SaveWorkspace, TypeInv, PromptsOK, IsPrompt
<1> QED
  BY <1>1, <1>2, PreferencesType, SavedTypes, ActsTypes, WriteTypes
  DEF SaveWorkspace, ReadWorkspaces

(* Asking for confirmation keeps the types.                                *)
LEMMA AskToConfirmTypes ==
  ASSUME TypeInv, NEW w \in Windows, NEW act \in {"update", "delete"}, AskToConfirm(w, act)
  PROVE  TypeInv'
<1>1. StoredOK'
  BY DEF AskToConfirm, TypeInv, StoredOK, AreWorkspaces, UniqueNames
<1>2. FlagsOK'
  BY Zenon DEF AskToConfirm, windowVars, TypeInv, FlagsOK
<1>3. PhaseOK' /\ ViewsOK' /\ MailOK'
  BY DEF AskToConfirm, windowVars, TypeInv, PhaseOK, ViewsOK, IsView, MailOK
<1>4. PromptsOK'
  <2>1. PICK name :
          prompts' = [prompts EXCEPT ![w] =
            [act |-> act, name |-> name, preferences |-> Preferences(views[w])]]
    BY DEF AskToConfirm
  <2>2. IsPrompt([act |-> act, name |-> name, preferences |-> Preferences(views[w])])
    BY PreferencesType DEF IsPrompt
  <2> QED
    BY <2>1, <2>2 DEF TypeInv, PromptsOK, IsPrompt
<1>5. CountsOK'
  BY ActsTypes DEF AskToConfirm, TypeInv, CountsOK
<1> QED
  BY <1>1, <1>2, <1>3, <1>4, <1>5 DEF TypeInv

(* Confirming an update or a deletion keeps the types, whatever other      *)
(* windows saved since.                                                    *)
LEMMA ConfirmTypes == ASSUME TypeInv, NEW w \in Windows, Confirm(w) PROVE TypeInv'
<1>1. AreWorkspaces(stored.workspaces) /\ UniqueNames(stored.workspaces)
  BY DEF TypeInv, StoredOK
<1>2. PromptsOK'
  BY DEF Confirm, TypeInv, PromptsOK, IsPrompt
<1>3. moves' \in 0..MaxMoves
  BY DEF Confirm, TypeInv, CountsOK
<1>4. prompts[w].preferences.blocked \subseteq SourcesOf(Rows)
  BY DEF Confirm, TypeInv, PromptsOK, IsPrompt
<1>5. CASE Write(w, Deleted(stored.workspaces, prompts[w].name))
  BY <1>1, <1>2, <1>3, <1>5, DeletedTypes, WriteTypes DEF Confirm
<1>6. CASE Write(w, Saved(stored.workspaces, prompts[w].name, prompts[w].preferences))
  BY <1>1, <1>2, <1>3, <1>4, <1>6, SavedTypes, WriteTypes DEF Confirm
<1>7. CASE UNCHANGED <<stored, events, lists, crossed>>
  <2>1. StoredOK'
    BY <1>7 DEF TypeInv, StoredOK, AreWorkspaces, UniqueNames
  <2>2. FlagsOK'
    BY Zenon DEF Confirm, windowVars, TypeInv, FlagsOK
  <2>3. PhaseOK' /\ ViewsOK' /\ MailOK' /\ CountsOK'
    BY <1>7 DEF Confirm, windowVars, TypeInv, PhaseOK, ViewsOK, IsView, MailOK, CountsOK
  <2> QED
    BY <1>2, <2>1, <2>2, <2>3 DEF TypeInv
<1> QED
  BY <1>5, <1>6, <1>7 DEF Confirm, ReadWorkspaces

(* Cancelling keeps the types.                                             *)
LEMMA CancelTypes == ASSUME TypeInv, NEW w \in Windows, Cancel(w) PROVE TypeInv'
<1>1. StoredOK'
  BY DEF Cancel, TypeInv, StoredOK, AreWorkspaces, UniqueNames
<1>2. FlagsOK'
  BY Zenon DEF Cancel, windowVars, TypeInv, FlagsOK
<1>3. PhaseOK' /\ ViewsOK' /\ MailOK' /\ PromptsOK' /\ CountsOK'
  BY DEF Cancel, windowVars, TypeInv, PhaseOK, ViewsOK, IsView, MailOK, PromptsOK, IsPrompt, CountsOK
<1> QED
  BY <1>1, <1>2, <1>3 DEF TypeInv
-----------------------------------------------------------------------------
(* Where nothing changes the types stay.                                   *)
LEMMA StutterTypes == TypeInv /\ UNCHANGED vars => TypeInv'
<1> SUFFICES ASSUME TypeInv, UNCHANGED vars PROVE TypeInv'
  OBVIOUS
<1>1. StoredOK'
  BY DEF vars, TypeInv, StoredOK, AreWorkspaces, UniqueNames
<1>2. FlagsOK'
  BY Zenon DEF vars, windowVars, TypeInv, FlagsOK
<1>3. PhaseOK' /\ ViewsOK' /\ MailOK' /\ PromptsOK' /\ CountsOK'
  BY DEF vars, windowVars, TypeInv, PhaseOK, ViewsOK, IsView, MailOK, PromptsOK, IsPrompt, CountsOK
<1> QED
  BY <1>1, <1>2, <1>3 DEF TypeInv

(* Every step keeps the types.                                             *)
LEMMA NextTypes == TypeInv /\ [Next]_vars => TypeInv'
<1> SUFFICES ASSUME TypeInv, Next PROVE TypeInv'
  BY StutterTypes
<1>0. PICK w \in Windows : System(w) \/ UserActs(w)
  BY DEF Next
<1>1. CASE System(w)
  <2>1. CASE CloseTimer(w)
    BY <2>1, ClosedTypes DEF CloseTimer, TypeInv, CountsOK
  <2> QED
    BY <1>1, <2>1, MountTypes, ListenTypes, CloseEffectTypes, SyncMessageTypes,
       SyncFromStorageTypes DEF System
<1>2. CASE UserActs(w)
  <2>1. CASE \E t \in Targets : OpenPopout(w, t) \/ ReattachTarget(w, t)
    BY <2>1, OpenPopoutTypes, ReattachTargetTypes
  <2>2. CASE UserCloses(w)
    BY <2>2, ActsTypes, ClosedTypes DEF UserCloses
  <2>3. CASE LoadPage(w)
    BY <2>3, LoadPageTypes
  <2>4. CASE \E s \in SourcesOf(Rows) : BlockSource(w, s) \/ UnblockSource(w, s)
    BY <2>4, BlockSourceTypes, UnblockSourceTypes
  <2>5. CASE \/ ToggleExcluded(w) \/ ToggleGrouping(w)
             \/ \E level \in Levels : TogglePaneLevel(w, level) \/ ToggleLevel(w, level)
    BY <2>5, TogglesSet, SetTypes
  <2>6. CASE \E name \in Names : SaveWorkspace(w, name)
    BY <2>6, SaveWorkspaceTypes
  <2>7. CASE \E act \in {"update", "delete"} : AskToConfirm(w, act)
    BY <2>7, AskToConfirmTypes
  <2>8. CASE Confirm(w) \/ Cancel(w) \/ LoadWorkspace(w)
    BY <2>8, ConfirmTypes, CancelTypes, LoadWorkspaceTypes
  <2> QED
    BY <1>2, <2>1, <2>2, <2>3, <2>4, <2>5, <2>6, <2>7, <2>8 DEF UserActs
<1> QED
  BY <1>0, <1>1, <1>2

(* The types hold of every reachable state.                                *)
LEMMA TypeInvariant == Spec => []TypeInv
BY InitTypes, NextTypes, PTL DEF Spec

(* Every variable of every reachable state has its type, and no two saved  *)
(* workspaces have names that differ in case alone, whichever windows      *)
(* saved them (saveWorkspace).                                             *)
THEOREM TypeCorrect == Spec => []TypeOK
<1>1. TypeInv => TypeOK
  <2> SUFFICES ASSUME TypeInv PROVE TypeOK
    OBVIOUS
  <2>1. stored.blocked \subseteq SourcesOf(Rows) /\ stored.detached \subseteq Targets
    BY DEF TypeInv, StoredOK, Settings, Values
  <2>2. \A x, y \in stored.workspaces : Key(x.name) = Key(y.name) => x = y
    BY DEF TypeInv, StoredOK, UniqueNames
  <2>3. phase \in [Windows -> {"closed", "loading", "mounted", "open", "closing"}]
    BY DEF TypeInv, PhaseOK
  <2>4. ASSUME NEW w \in Windows
        PROVE  /\ views[w].popout = w
               /\ views[w].blocked \subseteq SourcesOf(Rows) /\ views[w].detached \subseteq Targets
               /\ Range(events[w]) \subseteq Topics
               /\ prompts[w] = null \/ prompts[w].act \in {"update", "delete"}
    BY DEF TypeInv, ViewsOK, IsView, MailOK, Range, PromptsOK, IsPrompt
  <2>5. \A w \in Windows : {was[w], due[w]} \subseteq BOOLEAN
    BY Zenon DEF TypeInv, FlagsOK
  <2>6. crossed \subseteq Topics /\ moves \in 0..MaxMoves
    BY DEF TypeInv, CountsOK
  <2> QED
    BY <2>1, <2>2, <2>3, <2>4, <2>5, <2>6 DEF TypeOK
<1> QED
  BY <1>1, TypeInvariant, PTL
-----------------------------------------------------------------------------
(* Agreement.  A window that has read the storage either has what is       *)
(* stored or has a message on its way whose value is what is stored, the   *)
(* last of its topic.                                                      *)
Settles(q, topic, now, value) ==
  /\ (\A k \in 1..Len(q) : q[k].topic # topic) => now = value
  /\ \A k \in 1..Len(q) :
       q[k].topic = topic /\ (\A j \in (k + 1)..Len(q) : q[j].topic # topic) => q[k].value = value

Hearing == {w \in Windows : phase[w] \in {"mounted", "open", "closing"}}

HeardInv ==
  \A topic \in Settings \ crossed : \A w \in Hearing :
    Settles(mail[w], topic, views[w][topic], stored[topic])

(* A message sent is the last of its topic, and leaves other topics alone. *)
LEMMA SentSettles ==
  ASSUME NEW S, NEW q \in Seq(S), NEW topic, NEW value, NEW now
  PROVE  Settles(Append(q, [topic |-> topic, value |-> value]), topic, now, value)
<1> DEFINE m == [topic |-> topic, value |-> value]
           r == Append(q, m)
<1>1. Len(r) = Len(q) + 1 /\ Len(q) \in Nat /\ r[Len(q) + 1] = m
  OBVIOUS
<1>2. ASSUME NEW k \in 1..Len(r), \A j \in (k + 1)..Len(r) : r[j].topic # topic
      PROVE  k = Len(q) + 1
  BY <1>1, <1>2
<1> QED
  BY <1>1, <1>2 DEF Settles

(* A message on another topic changes nothing for this one.                *)
LEMMA OthersSettle ==
  ASSUME NEW S, NEW q \in Seq(S), NEW topic, NEW now, NEW value,
         Settles(q, topic, now, value), NEW m, m.topic # topic
  PROVE  Settles(Append(q, m), topic, now, value)
<1> DEFINE r == Append(q, m)
<1>1. /\ Len(r) = Len(q) + 1 /\ Len(q) \in Nat /\ r[Len(q) + 1] = m
      /\ \A k \in 1..Len(q) : r[k] = q[k]
  OBVIOUS
<1>2. ASSUME NEW k \in 1..Len(r), r[k].topic = topic,
             \A j \in (k + 1)..Len(r) : r[j].topic # topic
      PROVE  r[k].value = value
  <2>1. k \in 1..Len(q)
    BY <1>1, <1>2
  <2>2. \A j \in (k + 1)..Len(q) : q[j].topic # topic
    BY <1>1, <1>2, <2>1
  <2> QED
    BY <1>1, <1>2, <2>1, <2>2 DEF Settles
<1>3. ASSUME \A k \in 1..Len(r) : r[k].topic # topic PROVE now = value
  BY <1>1, <1>3 DEF Settles
<1> QED
  BY <1>2, <1>3 DEF Settles

(* A message taken is what the window has from now on (SyncMessage).       *)
LEMMA TakenSettles ==
  ASSUME NEW S, NEW q \in Seq(S), q # <<>>, NEW topic, NEW now, NEW value,
         Settles(q, topic, now, value)
  PROVE  Settles(Tail(q), topic, IF Head(q).topic = topic THEN Head(q).value ELSE now, value)
<1> DEFINE r == Tail(q)
<1>1. /\ Len(q) \in Nat /\ Len(q) > 0 /\ Len(r) = Len(q) - 1 /\ Head(q) = q[1]
      /\ \A k \in 1..Len(r) : r[k] = q[k + 1]
  OBVIOUS
<1>2. ASSUME NEW k \in 1..Len(r), r[k].topic = topic,
             \A j \in (k + 1)..Len(r) : r[j].topic # topic
      PROVE  r[k].value = value
  <2>1. k + 1 \in 1..Len(q) /\ q[k + 1].topic = topic /\ r[k] = q[k + 1]
    BY <1>1, <1>2
  <2>2. ASSUME NEW j \in (k + 2)..Len(q) PROVE q[j].topic # topic
    <3>1. j - 1 \in (k + 1)..Len(r) /\ j - 1 \in 1..Len(r)
      BY <1>1, <2>2
    <3>2. r[j - 1] = q[j]
      BY <1>1, <3>1
    <3> QED
      BY <1>2, <3>1, <3>2
  <2> QED
    BY <2>1, <2>2 DEF Settles
<1>3. ASSUME \A k \in 1..Len(r) : r[k].topic # topic
      PROVE  (IF Head(q).topic = topic THEN Head(q).value ELSE now) = value
  <2>1. ASSUME NEW j \in 2..Len(q) PROVE q[j].topic # topic
    <3>1. j - 1 \in 1..Len(r)
      BY <1>1, <2>1
    <3>2. r[j - 1] = q[j]
      BY <1>1, <3>1
    <3> QED
      BY <1>3, <3>1, <3>2
  <2>2. CASE Head(q).topic = topic
    <3>1. 1 \in 1..Len(q)
      BY <1>1
    <3> QED
      BY <1>1, <2>1, <2>2, <3>1 DEF Settles
  <2>3. CASE Head(q).topic # topic
    BY <1>1, <2>1, <2>3 DEF Settles
  <2> QED
    BY <2>2, <2>3
<1> QED
  BY <1>2, <1>3 DEF Settles

(* Steps that neither write nor read what is shared.                       *)
LEMMA QuietStep ==
  ASSUME HeardInv, Hearing' \subseteq Hearing, Settings \ crossed' \subseteq Settings \ crossed,
         \A x \in Hearing' : mail'[x] = mail[x],
         \A x \in Hearing', t \in Settings : views'[x][t] = views[x][t],
         \A t \in Settings : stored'[t] = stored[t]
  PROVE  HeardInv'
BY DEF HeardInv, Settles

(* A window writes a setting and tells those that listen.                  *)
LEMMA UpdateStep ==
  ASSUME TypeInv, HeardInv, NEW w \in Listening, NEW topic \in Settings, NEW value \in Values(topic),
         Store(w, topic, value), Post(w, topic, value), Hearing' \subseteq Hearing,
         views'[w][topic] = value,
         \A x \in Windows, t \in Settings : x # w \/ t # topic => views'[x][t] = views[x][t]
  PROVE  HeardInv'
<1> DEFINE m == [topic |-> topic, value |-> value]
<1>0. w \in Windows /\ topic \in Topics /\ topic # "workspaces"
  BY DEF Listening, Settings, Topics
<1>1. stored'[topic] = value /\ \A t \in Settings \ {topic} : stored'[t] = stored[t]
  BY <1>0, StoreTypes DEF Settings, Topics
<1>2. \A x \in Windows : mail[x] \in Seq(Message)
  BY DEF TypeInv, MailOK
<1>3. \A x \in Windows : mail'[x] = IF x \in Listening \ {w} THEN Append(mail[x], m) ELSE mail[x]
  BY DEF Post
<1>4. Hearing \subseteq Windows
  BY DEF Hearing
<1>5. ASSUME NEW t \in Settings \ crossed', NEW x \in Hearing'
      PROVE  Settles(mail'[x], t, views'[x][t], stored'[t])
  <2>1. x \in Hearing /\ x \in Windows
    BY <1>4, <1>5
  <2>2. CASE t = topic
    <3>1. ~Crosses(w, topic)
      BY <1>5, <2>2 DEF Store
    <3>2. CASE x = w
      <4>1. \A k \in 1..Len(mail[w]) : mail[w][k].topic # topic
        BY <3>1 DEF Crosses, HasMail
      <4>2. mail'[w] = mail[w] /\ views'[w][topic] = stored'[topic]
        BY <1>0, <1>1, <1>3
      <4> QED
        BY <2>2, <3>2, <4>1, <4>2 DEF Settles
    <3>3. CASE x # w
      <4>1. x \in Listening
        BY <2>1, <3>1, <3>3 DEF Crosses, Hearing, Listening
      <4>2. mail'[x] = Append(mail[x], m)
        BY <1>3, <2>1, <3>3, <4>1
      <4> QED
        BY <1>1, <1>2, <2>1, <2>2, <4>2, SentSettles
    <3> QED
      BY <3>2, <3>3
  <2>3. CASE t # topic
    <3>1. t \in Settings \ crossed
      BY <1>5, <2>3 DEF Store
    <3>2. views'[x][t] = views[x][t] /\ stored'[t] = stored[t]
      BY <1>1, <2>1, <2>3, <3>1
    <3>3. Settles(mail[x], t, views[x][t], stored[t])
      BY <2>1, <3>1 DEF HeardInv
    <3>4. m.topic # t
      BY <2>3
    <3> HIDE DEF m
    <3> QED
      BY <1>2, <1>3, <2>1, <3>2, <3>3, <3>4, OthersSettle
  <2> QED
    BY <2>2, <2>3
<1> QED
  BY <1>5 DEF HeardInv, Settles

(* A window that mounts has what is stored, and no message yet.            *)
LEMMA MountHeard == ASSUME TypeInv, HeardInv, NEW w \in Windows, Mount(w) PROVE HeardInv'
<1>1. ASSUME NEW t \in Settings \ crossed', NEW x \in Hearing'
      PROVE  Settles(mail'[x], t, views'[x][t], stored'[t])
  <2>1. CASE x = w
    <3>1. mail'[w] = <<>>
      BY DEF Mount, TypeInv, MailOK
    <3>2. views'[w][t] = stored'[t]
      BY DEF Mount, TypeInv, ViewsOK, NewView, Settings
    <3> QED
      BY <2>1, <3>1, <3>2 DEF Settles
  <2>2. CASE x # w
    <3>1. x \in Hearing
      BY <2>2 DEF Hearing, Mount, TypeInv, PhaseOK
    <3>2. mail'[x] = mail[x] /\ views'[x] = views[x] /\ stored' = stored /\ crossed' = crossed
      BY <2>2, <3>1 DEF Hearing, Mount, TypeInv, MailOK, ViewsOK
    <3> QED
      BY <1>1, <3>1, <3>2 DEF HeardInv
  <2> QED
    BY <2>1, <2>2
<1> QED
  BY <1>1 DEF HeardInv, Settles

(* A window that takes a message is as far as the message was.             *)
LEMMA SyncMessageHeard == ASSUME TypeInv, HeardInv, NEW w \in Windows, SyncMessage(w) PROVE HeardInv'
<1> DEFINE m == Head(mail[w])
<1>0. mail[w] \in Seq(Message) /\ mail[w] # <<>> /\ m \in Message
  <2>1. mail[w] \in Seq(Message) /\ mail[w] # <<>>
    BY DEF SyncMessage, TypeInv, MailOK
  <2> QED
    BY <2>1
<1>1. Hearing' = Hearing /\ crossed' = crossed /\ stored' = stored
  BY DEF SyncMessage, Hearing
<1>2. ASSUME NEW t \in Settings \ crossed, NEW x \in Hearing
      PROVE  Settles(mail'[x], t, views'[x][t], stored[t])
  <2>0. Settles(mail[x], t, views[x][t], stored[t]) /\ x \in Windows
    BY <1>2 DEF HeardInv, Hearing
  <2>1. CASE x = w
    <3>1. mail'[w] = Tail(mail[w])
      BY DEF SyncMessage, TypeInv, MailOK
    <3>2. views'[w][t] = IF m.topic = t THEN m.value ELSE views[w][t]
      BY DEF SyncMessage, TypeInv, ViewsOK, IsView, Settings
    <3> QED
      BY <1>0, <2>0, <2>1, <3>1, <3>2, TakenSettles
  <2>2. CASE x # w
    <3>1. mail'[x] = mail[x] /\ views'[x] = views[x]
      BY <2>0, <2>2 DEF SyncMessage, TypeInv, MailOK, ViewsOK
    <3> QED
      BY <2>0, <3>1
  <2> QED
    BY <2>1, <2>2
<1> QED
  BY <1>1, <1>2 DEF HeardInv, Settles

(* A window that reads the storage has what is stored, and any message yet *)
(* to come ends there too.                                                 *)
LEMMA SyncFromStorageHeard ==
  ASSUME TypeInv, HeardInv, NEW w \in Windows, SyncFromStorage(w) PROVE HeardInv'
<1>1. Hearing' = Hearing /\ crossed' = crossed /\ stored' = stored /\ mail' = mail
  BY DEF SyncFromStorage, Hearing
<1>2. ASSUME NEW t \in Settings \ crossed, NEW x \in Hearing
      PROVE  views'[x][t] \in {views[x][t], stored[t]}
  <2>1. x \in Windows
    BY DEF Hearing
  <2>2. CASE Head(events[w]) = "workspaces"
    BY <2>2 DEF SyncFromStorage
  <2>3. CASE Head(events[w]) # "workspaces"
    BY <2>1, <2>3 DEF SyncFromStorage, TypeInv, ViewsOK, IsView, Settings
  <2> QED
    BY <2>2, <2>3
<1>3. ASSUME NEW t \in Settings \ crossed, NEW x \in Hearing
      PROVE  Settles(mail[x], t, views'[x][t], stored[t])
  <2>1. Settles(mail[x], t, views[x][t], stored[t])
    BY <1>3 DEF HeardInv
  <2>2. Settles(mail[x], t, stored[t], stored[t])
    BY <2>1 DEF Settles
  <2> QED
    BY <1>2, <1>3, <2>1, <2>2
<1> QED
  BY <1>1, <1>3 DEF HeardInv, Settles

(* Detaching or attaching a target is an update.                           *)
LEMMA DetachHeard ==
  ASSUME TypeInv, HeardInv, NEW w \in Listening, NEW targets \in SUBSET Targets,
         UpdateDetachedTargets(w, targets), Hearing' \subseteq Hearing
  PROVE  HeardInv'
<1>1. w \in Windows /\ "detached" \in Settings /\ targets \in Values("detached")
  BY DEF Listening, Settings, Values
<1>2. views'[w]["detached"] = targets
  BY <1>1 DEF UpdateDetachedTargets, TypeInv, ViewsOK, IsView
<1>3. \A x \in Windows, t \in Settings : x # w \/ t # "detached" => views'[x][t] = views[x][t]
  BY <1>1 DEF UpdateDetachedTargets, TypeInv, ViewsOK, IsView, Settings
<1>4. Store(w, "detached", targets) /\ Post(w, "detached", targets)
  BY DEF UpdateDetachedTargets
<1> QED
  BY <1>1, <1>2, <1>3, <1>4, UpdateStep

(* openPopout keeps the agreement.                                         *)
LEMMA OpenPopoutHeard ==
  ASSUME TypeInv, HeardInv, NEW w \in Windows, NEW t \in Targets, OpenPopout(w, t)
  PROVE  HeardInv'
<1>1. views[w].detached \cup {t} \in SUBSET Targets /\ w \in Listening
  BY DEF TypeInv, ViewsOK, IsView, OpenPopout, Acts
<1>2. Hearing' \subseteq Hearing
  BY DEF OpenPopout, Hearing, TypeInv, PhaseOK
<1> QED
  BY <1>1, <1>2, DetachHeard DEF OpenPopout

(* reattachTarget keeps the agreement.                                     *)
LEMMA ReattachTargetHeard ==
  ASSUME TypeInv, HeardInv, NEW w \in Windows, NEW t \in Targets, ReattachTarget(w, t)
  PROVE  HeardInv'
<1>1. views[w].detached \ {t} \in SUBSET Targets /\ w \in Listening
  BY DEF TypeInv, ViewsOK, IsView, ReattachTarget, Acts
<1>2. Hearing' \subseteq Hearing
  BY <1>1 DEF ReattachTarget, Hearing, Listening, TypeInv, PhaseOK
<1> QED
  BY <1>1, <1>2, DetachHeard DEF ReattachTarget

(* Closing and loading leave the windows that hear.                        *)
LEMMA LeavesHeard ==
  ASSUME TypeInv, HeardInv, NEW w \in Windows, Closed(w) \/ LoadPage(w) PROVE HeardInv'
<1>1. Hearing' = Hearing \ {w}
  BY DEF Closed, LoadPage, Hearing, TypeInv, PhaseOK
<1>2. \A x \in Windows \ {w} : mail'[x] = mail[x] /\ views'[x] = views[x]
  BY DEF Closed, LoadPage, TypeInv, MailOK, ViewsOK
<1>3. crossed' = crossed /\ stored' = stored
  BY DEF Closed, LoadPage
<1> QED
  BY <1>1, <1>2, <1>3, QuietStep DEF Hearing

(* A window that begins to listen has heard what it has to: another window *)
(* that wrote in the meantime has crossed it.                              *)
LEMMA ListenHeard == ASSUME TypeInv, HeardInv, NEW w \in Windows, Listen(w) PROVE HeardInv'
<1>1. Hearing' \subseteq Hearing
  BY DEF Listen, Hearing, TypeInv, PhaseOK
<1> QED
  BY <1>1, QuietStep DEF Listen

(* Closing goes on listening until the timer fires.                        *)
LEMMA CloseEffectHeard == ASSUME TypeInv, HeardInv, NEW w \in Windows, CloseEffect(w) PROVE HeardInv'
<1>1. Hearing' \subseteq Hearing
  <2>1. w \in Hearing
    BY DEF CloseEffect, Listening, Hearing
  <2>2. phase' \in {phase, [phase EXCEPT ![w] = "closing"]}
    BY DEF CloseEffect
  <2> QED
    BY <2>1, <2>2 DEF Hearing, TypeInv, PhaseOK
<1> QED
  BY <1>1, QuietStep DEF CloseEffect

(* Blocking or unblocking a source is an update.                           *)
LEMMA BlockHeard ==
  ASSUME TypeInv, HeardInv, NEW w \in Listening, NEW sources \in SUBSET SourcesOf(Rows),
         UpdateBlockedSources(w, sources), UNCHANGED windowVars,
         NEW v, views' = [views EXCEPT ![w] = v], v.blocked = sources, v.detached = views[w].detached
  PROVE  HeardInv'
<1>1. w \in Windows /\ "blocked" \in Settings /\ sources \in Values("blocked")
  BY DEF Listening, Settings, Values
<1>2. Hearing' \subseteq Hearing
  BY DEF windowVars, Hearing
<1>3. views'[w]["blocked"] = sources
  BY <1>1 DEF TypeInv, ViewsOK
<1>4. \A x \in Windows, t \in Settings : x # w \/ t # "blocked" => views'[x][t] = views[x][t]
  BY <1>1 DEF TypeInv, ViewsOK, Settings
<1>5. Store(w, "blocked", sources) /\ Post(w, "blocked", sources)
  BY DEF UpdateBlockedSources
<1> QED
  BY <1>1, <1>2, <1>3, <1>4, <1>5, UpdateStep

(* blockSource and unblockSource keep the agreement.                       *)
LEMMA BlockSourceHeard ==
  ASSUME TypeInv, HeardInv, NEW w \in Windows, NEW s \in SourcesOf(Rows),
         BlockSource(w, s) \/ UnblockSource(w, s)
  PROVE  HeardInv'
<1>0. IsView(views[w], w) /\ w \in Listening /\ UNCHANGED windowVars
  BY DEF TypeInv, ViewsOK, BlockSource, UnblockSource, Acts
<1>1. CASE BlockSource(w, s)
  <2> DEFINE v == [views[w] EXCEPT !.blocked = @ \cup {s}, !.excluded = @ \ {Source(s)},
                                  !.off = {p \in @ : p[1] # Source(s)}]
  <2>1. views' = [views EXCEPT ![w] = v]
    BY <1>1 DEF BlockSource, TypeInv, ViewsOK
  <2>2. v.blocked = views[w].blocked \cup {s} /\ v.detached = views[w].detached
    BY <1>0 DEF IsView
  <2>3. views[w].blocked \cup {s} \in SUBSET SourcesOf(Rows)
    BY <1>0 DEF IsView
  <2> QED
    BY <1>0, <1>1, <2>1, <2>2, <2>3, BlockHeard DEF BlockSource
<1>2. CASE UnblockSource(w, s)
  <2> DEFINE v == [views[w] EXCEPT !.blocked = @ \ {s}]
  <2>1. views' = [views EXCEPT ![w] = v]
    BY <1>2 DEF UnblockSource
  <2>2. v.blocked = views[w].blocked \ {s} /\ v.detached = views[w].detached
    BY <1>0 DEF IsView
  <2>3. views[w].blocked \ {s} \in SUBSET SourcesOf(Rows)
    BY <1>0 DEF IsView
  <2> QED
    BY <1>0, <1>2, <2>1, <2>2, <2>3, BlockHeard DEF UnblockSource
<1> QED
  BY <1>1, <1>2

(* Loading a workspace tells the other windows what it blocks.             *)
LEMMA LoadWorkspaceHeard ==
  ASSUME TypeInv, HeardInv, NEW w \in Windows, LoadWorkspace(w) PROVE HeardInv'
<1>0. IsView(views[w], w) /\ w \in Listening /\ UNCHANGED windowVars
  BY DEF TypeInv, ViewsOK, LoadWorkspace, Acts
<1>1. CASE UNCHANGED <<stored, views, mail, events, crossed>>
  <2>1. Hearing' \subseteq Hearing
    BY <1>0 DEF windowVars, Hearing
  <2> QED
    BY <1>1, <2>1, QuietStep
<1>2. CASE \E x \in stored.workspaces :
             /\ views' = [views EXCEPT ![w] = WithPreferences(@, x.preferences)]
             /\ UpdateBlockedSources(w, x.preferences.blocked)
  <2>1. PICK x \in stored.workspaces :
             /\ views' = [views EXCEPT ![w] = WithPreferences(@, x.preferences)]
             /\ UpdateBlockedSources(w, x.preferences.blocked)
    BY <1>2
  <2> DEFINE v == WithPreferences(views[w], x.preferences)
  <2>2. x.preferences.blocked \in SUBSET SourcesOf(Rows)
    BY DEF TypeInv, StoredOK, AreWorkspaces
  <2>3. v.blocked = x.preferences.blocked /\ v.detached = views[w].detached
    BY <1>0 DEF WithPreferences, IsView
  <2> HIDE DEF v
  <2> QED
    BY <1>0, <2>1, <2>2, <2>3, BlockHeard DEF v
<1> QED
  BY <1>1, <1>2 DEF LoadWorkspace, ReadWorkspaces

(* What only one window sets leaves the agreement alone.                   *)
LEMMA SetHeard ==
  ASSUME TypeInv, HeardInv, NEW w \in Windows, NEW v, Set(w, v),
         v.blocked = views[w].blocked, v.detached = views[w].detached
  PROVE  HeardInv'
<1>1. Hearing' = Hearing /\ Hearing \subseteq Windows
  BY DEF Set, windowVars, Hearing
<1>2. \A x \in Windows, t \in Settings : views'[x][t] = views[x][t]
  BY DEF Set, TypeInv, ViewsOK, Settings
<1> QED
  BY <1>1, <1>2, QuietStep DEF Set

(* Saved workspaces are another topic.                                     *)
LEMMA WriteHeard ==
  ASSUME TypeInv, HeardInv, NEW w \in Windows, NEW workspaces,
         Write(w, workspaces) \/ UNCHANGED <<stored, crossed>>, UNCHANGED <<windowVars, views, mail>>
  PROVE  HeardInv'
<1>1. Hearing' = Hearing
  BY DEF windowVars, Hearing
<1>2. (\A t \in Settings : stored'[t] = stored[t]) /\ Settings \ crossed' \subseteq Settings \ crossed
  BY DEF Write, Store, TypeInv, StoredOK, Settings, Topics
<1> QED
  BY <1>1, <1>2, QuietStep

(* Every step keeps the agreement.                                         *)
LEMMA NextHeard == TypeInv /\ HeardInv /\ [Next]_vars => HeardInv'
<1>1. ASSUME HeardInv, UNCHANGED vars PROVE HeardInv'
  BY <1>1 DEF vars, windowVars, HeardInv, Hearing, Settles
<1> SUFFICES ASSUME TypeInv, HeardInv, Next PROVE HeardInv'
  BY <1>1
<1>2. PICK w \in Windows : System(w) \/ UserActs(w)
  BY DEF Next
<1>3. CASE System(w)
  BY <1>3, MountHeard, ListenHeard, CloseEffectHeard, LeavesHeard, SyncMessageHeard,
     SyncFromStorageHeard DEF System, CloseTimer
<1>4. CASE UserActs(w)
  <2>1. CASE \E t \in Targets : OpenPopout(w, t) \/ ReattachTarget(w, t)
    BY <2>1, OpenPopoutHeard, ReattachTargetHeard
  <2>2. CASE UserCloses(w) \/ LoadPage(w)
    BY <2>2, LeavesHeard DEF UserCloses
  <2>3. CASE \E s \in SourcesOf(Rows) : BlockSource(w, s) \/ UnblockSource(w, s)
    BY <2>3, BlockSourceHeard
  <2>4. CASE \/ ToggleExcluded(w) \/ ToggleGrouping(w)
             \/ \E level \in Levels : TogglePaneLevel(w, level) \/ ToggleLevel(w, level)
    BY <2>4, TogglesSet, SetHeard
  <2>5. CASE \E name \in Names : SaveWorkspace(w, name)
    BY <2>5, WriteHeard DEF SaveWorkspace
  <2>6. CASE \E act \in {"update", "delete"} : AskToConfirm(w, act)
    BY <2>6, WriteHeard DEF AskToConfirm
  <2>7. CASE Confirm(w) \/ Cancel(w)
    <3>1. UNCHANGED <<windowVars, views, mail>>
      BY <2>7 DEF Confirm, Cancel
    <3>2. UNCHANGED <<stored, crossed>> \/ \E workspaces : Write(w, workspaces)
      BY <2>7 DEF Confirm, Cancel
    <3> QED
      BY <3>1, <3>2, WriteHeard
  <2>8. CASE LoadWorkspace(w)
    BY <2>8, LoadWorkspaceHeard
  <2> QED
    BY <1>4, <2>1, <2>2, <2>3, <2>4, <2>5, <2>6, <2>7, <2>8 DEF UserActs
<1> QED
  BY <1>2, <1>3, <1>4

(* Types and agreement hold of every reachable state.                      *)
LEMMA HeardInvariant == Spec => [](TypeInv /\ HeardInv)
<1>1. Init => HeardInv
  <2> SUFFICES ASSUME Init, NEW t \in Settings, NEW w \in Windows
               PROVE  Settles(mail[w], t, views[w][t], stored[t])
    BY DEF HeardInv, Hearing
  <2>1. mail[w] = <<>>
    BY DEF Init
  <2>2. views[w][t] = {} /\ stored[t] = {}
    BY DEF Init, NewView, Settings
  <2> QED
    BY <2>1, <2>2 DEF Settles
<1> QED
  BY <1>1, InitTypes, NextTypes, NextHeard, PTL DEF Spec

(* A window with no message left to hear has what is stored.               *)
LEMMA HeardMeansAgree == HeardInv => WindowsAgree
<1> SUFFICES ASSUME HeardInv, NEW topic \in Settings \ crossed, ~Waiting(topic), NEW w \in Open
             PROVE  views[w][topic] = stored[topic]
  BY DEF WindowsAgree, Settings
<1>1. w \in Listening /\ w \in Hearing /\ w \in Windows
  BY DEF Open, Listening, Hearing
<1>2. \A k \in 1..Len(mail[w]) : mail[w][k].topic # topic
  BY <1>1 DEF Waiting, HasMail
<1> QED
  BY <1>1, <1>2 DEF HeardInv, Settles

(* Once messages and events are delivered, what every open window blocks   *)
(* and detaches is what is stored, unless the last change crossed another, *)
(* for any number of windows (updateBlockedSources, updateDetachedTargets  *)
(* and their listeners).                                                   *)
THEOREM Agreement == Spec => []WindowsAgree
BY HeardInvariant, HeardMeansAgree, PTL
-----------------------------------------------------------------------------
(* Places.  Of the windows of a set of detached targets and the main one,  *)
(* all with that set, one has a row in its scope: that of its source, or   *)
(* else of its group, or else the main one.                                *)
LEMMA OneScope ==
  ASSUME stored.detached \subseteq Targets, NEW r \in Sourced, r.source \notin stored.blocked,
         \A x \in {Main} \cup stored.detached :
           /\ views[x].popout = x
           /\ views[x].detached = stored.detached /\ views[x].blocked = stored.blocked
  PROVE  OneHas({Main} \cup stored.detached, r)
<1> DEFINE D == stored.detached
           B == stored.blocked
           s == Source(r.source)
           g == Group(RecordSourceGroup(r))
           W == {Main} \cup D
           Has(x) == r \in ScopedRecords(views[x])
<1>0. Main = null /\ null \notin D /\ r \in Rows
  BY WindowsAssumption DEF Main, Sourced
<1>1. Has(Main) <=> s \notin D /\ g \notin D
  BY <1>0 DEF ScopedRecords, ViewerRecords, IsPopout
<1>2. ASSUME NEW t \in D PROVE Has(t) <=> t = s \/ (t = g /\ s \notin D)
  <2>1. t # null /\ views[t].popout = t /\ views[t].detached = D /\ views[t].blocked = B
    BY <1>0, <1>2
  <2>2. Has(t) <=> \/ t.kind = "source" /\ r.source = t.key
                   \/ t.kind = "group" /\ RecordSourceGroup(r) = t.key /\ s \notin D
    BY <1>0, <2>1 DEF ScopedRecords, ViewerRecords, IsPopout
  <2>3. CASE t = Group(t.key)
    BY <2>2, <2>3 DEF Group, Source
  <2>4. CASE t = Source(t.key)
    BY <2>2, <2>4 DEF Group, Source
  <2> QED
    BY <1>2, <2>3, <2>4, WindowsAssumption
<1>3. s # g
  BY DEF Group, Source
<1> HIDE DEF D, B, s, g, Has
<1>4. CASE s \in D
  <2>1. {x \in W : Has(x)} = {s}
    BY <1>0, <1>1, <1>2, <1>3, <1>4
  <2> QED
    BY <1>4, <2>1 DEF D, Has, OneHas
<1>5. CASE s \notin D /\ g \in D
  <2>1. {x \in W : Has(x)} = {g}
    BY <1>0, <1>1, <1>2, <1>3, <1>5
  <2> QED
    BY <1>5, <2>1 DEF D, Has, OneHas
<1>6. CASE s \notin D /\ g \notin D
  <2>1. {x \in W : Has(x)} = {Main}
    BY <1>0, <1>1, <1>2, <1>6
  <2> QED
    BY <2>1 DEF D, Has, OneHas
<1> QED
  BY <1>4, <1>5, <1>6

(* Every row with a source has its place (sourcePanes, scopedRecords): one *)
(* pane of a window that counts it and none of the others; the same rows   *)
(* in both views; and one window, when all targets that are detached have  *)
(* theirs.                                                                 *)
THEOREM Places == Spec => []EachRowHasItsPlace
<1>1. TypeInv /\ WindowsAgree => EachRowHasItsPlace
  <2> SUFFICES ASSUME TypeInv, WindowsAgree PROVE EachRowHasItsPlace
    OBVIOUS
  <2>1. \A w \in Open : InOnePane(views[w]) /\ SameInBothViews(views[w])
    BY PanesShowVisible, ViewsShowTheSame
  <2>2. ASSUME ~Waiting("detached"), ~Waiting("blocked"), crossed \cap {"detached", "blocked"} = {},
               {Main} \cup stored.detached \subseteq Open,
               NEW r \in Sourced, r.source \notin stored.blocked
        PROVE  OneHas({Main} \cup stored.detached, r)
    <3>1. \A x \in Open : views[x].detached = stored.detached /\ views[x].blocked = stored.blocked
      BY <2>2 DEF WindowsAgree
    <3>2. \A x \in Open : views[x].popout = x
      BY DEF Open, TypeInv, ViewsOK, IsView
    <3>3. stored.detached \subseteq Targets
      BY DEF TypeInv, StoredOK, Settings, Values
    <3>4. \A x \in {Main} \cup stored.detached :
            views[x].popout = x /\ views[x].detached = stored.detached /\ views[x].blocked = stored.blocked
      BY <2>2, <3>1, <3>2, Zenon
    <3> QED
      BY <2>2, <3>3, <3>4, OneScope
  <2> QED
    BY <2>1, <2>2, Zenon DEF EachRowHasItsPlace
<1> QED
  BY <1>1, HeardInvariant, HeardMeansAgree, PTL
-----------------------------------------------------------------------------
(* Workspaces.  A step keeps one, or a window has confirmed deleting or    *)
(* updating it (saveWorkspace, deleteWorkspace and the dialog).            *)
KeptOrConfirmed(x) ==
  \/ x \in stored'.workspaces
  \/ Confirmed("delete", x) /\ Named(stored'.workspaces, x.name) = {}
  \/ Confirmed("update", x) /\ \E y \in stored'.workspaces : y.name = x.name

(* Confirming removes the one workspace it names, or gives it other        *)
(* settings (Confirm).                                                     *)
LEMMA ConfirmKeeps ==
  ASSUME TypeInv, NEW w \in Windows, Confirm(w), NEW x \in stored.workspaces PROVE KeptOrConfirmed(x)
<1> DEFINE p == prompts[w]
<1>0. p # null /\ prompts'[w] = null /\ p.act \in {"update", "delete"}
  BY DEF Confirm, TypeInv, PromptsOK, IsPrompt
<1>1. UniqueNames(stored.workspaces) /\ AreWorkspaces(stored.workspaces) /\ "workspaces" \in DOMAIN stored
  BY DEF TypeInv, StoredOK, Topics
<1>2. CASE p.act = "delete"
  <2>1. stored'.workspaces = Deleted(stored.workspaces, p.name)
    BY <1>1, <1>2 DEF Confirm, Write, Store, ReadWorkspaces
  <2>2. CASE x.name # p.name
    BY <2>1, <2>2 DEF Deleted, KeptOrConfirmed
  <2>3. CASE x.name = p.name
    <3>1. Confirmed("delete", x)
      BY <1>0, <1>2, <2>3 DEF Confirmed, IsNamed
    <3>2. Named(stored'.workspaces, x.name) = {}
      BY <1>1, <2>1, <2>3 DEF Named, IsNamed, Deleted, UniqueNames
    <3> QED
      BY <3>1, <3>2 DEF KeptOrConfirmed
  <2> QED
    BY <2>2, <2>3
<1>3. CASE p.act = "update"
  <2>1. CASE SaveFails(stored.workspaces, p.name, TRUE)
    BY <1>3, <2>1 DEF Confirm, ReadWorkspaces, KeptOrConfirmed
  <2>2. CASE ~SaveFails(stored.workspaces, p.name, TRUE)
    <3> DEFINE With(y) == IF IsNamed(y, p.name) THEN [y EXCEPT !.preferences = p.preferences] ELSE y
    <3>1. stored'.workspaces = Saved(stored.workspaces, p.name, p.preferences)
      BY <1>1, <1>3, <2>2 DEF Confirm, Write, Store, ReadWorkspaces
    <3>2. Named(stored.workspaces, p.name) # {}
      BY <2>2 DEF SaveFails
    <3>3. stored'.workspaces = {With(y) : y \in stored.workspaces}
      BY <3>1, <3>2 DEF Saved
    <3>4. CASE IsNamed(x, p.name)
      <4>1. Confirmed("update", x)
        BY <1>0, <1>3, <3>4 DEF Confirmed
      <4>2. With(x) \in stored'.workspaces
        BY <3>3
      <4>3. With(x).name = x.name
        BY <1>1, <3>4 DEF AreWorkspaces
      <4> QED
        BY <4>1, <4>2, <4>3 DEF KeptOrConfirmed
    <3>5. CASE ~IsNamed(x, p.name)
      <4>1. With(x) = x
        BY <3>5
      <4> QED
        BY <3>3, <4>1 DEF KeptOrConfirmed
    <3> QED
      BY <3>4, <3>5
  <2> QED
    BY <2>1, <2>2
<1> QED
  BY <1>0, <1>2, <1>3

(* Every step keeps each workspace, or was a confirmation.                 *)
LEMMA NextKeepsWorkspaces ==
  ASSUME TypeInv, Next, NEW x \in stored.workspaces PROVE KeptOrConfirmed(x)
<1>0. "workspaces" \in DOMAIN stored
  BY DEF TypeInv, StoredOK, Topics
<1>1. ASSUME stored'.workspaces = stored.workspaces PROVE KeptOrConfirmed(x)
  BY <1>1 DEF KeptOrConfirmed
<1>2. PICK w \in Windows : System(w) \/ UserActs(w)
  BY DEF Next
<1>3. CASE System(w)
  BY <1>1, <1>3 DEF System, Mount, Listen, CloseEffect, CloseTimer, Closed, SyncMessage, SyncFromStorage
<1>4. CASE UserActs(w)
  <2>1. CASE \E t \in Targets : OpenPopout(w, t) \/ ReattachTarget(w, t)
    BY <1>0, <1>1, <2>1 DEF OpenPopout, ReattachTarget, UpdateDetachedTargets, Store
  <2>2. CASE UserCloses(w) \/ LoadPage(w)
    BY <1>1, <2>2 DEF UserCloses, Closed, LoadPage
  <2>3. CASE \E s \in SourcesOf(Rows) : BlockSource(w, s) \/ UnblockSource(w, s)
    BY <1>0, <1>1, <2>3 DEF BlockSource, UnblockSource, UpdateBlockedSources, Store
  <2>4. CASE \/ ToggleExcluded(w) \/ ToggleGrouping(w)
             \/ \E level \in Levels : TogglePaneLevel(w, level) \/ ToggleLevel(w, level)
    BY <1>1, <2>4, TogglesSet DEF Set
  <2>5. CASE \E name \in Names : SaveWorkspace(w, name)
    <3>1. PICK name : /\ ~SaveFails(stored.workspaces, name, FALSE)
                      /\ Write(w, Saved(stored.workspaces, name, Preferences(views[w])))
      BY <2>5 DEF SaveWorkspace, ReadWorkspaces
    <3>2. Named(stored.workspaces, name) = {}
      BY <3>1 DEF SaveFails
    <3>3. x \in Saved(stored.workspaces, name, Preferences(views[w]))
      BY <3>2 DEF Saved
    <3> QED
      BY <1>0, <3>1, <3>3 DEF Write, Store, KeptOrConfirmed
  <2>6. CASE \E act \in {"update", "delete"} : AskToConfirm(w, act)
    BY <1>1, <2>6 DEF AskToConfirm
  <2>7. CASE Confirm(w)
    BY <2>7, ConfirmKeeps
  <2>8. CASE Cancel(w)
    BY <1>1, <2>8 DEF Cancel
  <2>9. CASE LoadWorkspace(w)
    BY <1>0, <1>1, <2>9 DEF LoadWorkspace, UpdateBlockedSources, Store
  <2> QED
    BY <1>4, <2>1, <2>2, <2>3, <2>4, <2>5, <2>6, <2>7, <2>8, <2>9 DEF UserActs
<1> QED
  BY <1>2, <1>3, <1>4

(* A saved workspace is lost only when a user confirms deleting it, and    *)
(* takes other settings only when one confirms updating it, however many   *)
(* windows save at once (saveWorkspace, deleteWorkspace).                  *)
THEOREM KeptWorkspaces == Spec => WorkspacesKept
<1>1. TypeInv /\ [Next]_vars
        => [\A x \in stored.workspaces :
              \/ x \in stored'.workspaces
              \/ Confirmed("delete", x) /\ Named(stored'.workspaces, x.name) = {}
              \/ Confirmed("update", x) /\ \E y \in stored'.workspaces : y.name = x.name]_vars
  BY NextKeepsWorkspaces DEF KeptOrConfirmed
<1> QED
  BY <1>1, TypeInvariant, PTL DEF Spec, WorkspacesKept
=============================================================================
