-------------------------------- MODULE Views --------------------------------
(***************************************************************************)
(* What the windows of the viewer show of the rows they hold (App.tsx):    *)
(* the rows in a window's scope, its merged view, and the panes of its     *)
(* by-source view.  A view is what decides in one window.                  *)
(***************************************************************************)
EXTENDS Naturals, FiniteSets

CONSTANTS Rows,      \* the rows: their source, sourceGroup, tab and level
          NoSource,  \* the empty string
          null

ASSUME ViewsAssumption ==
  /\ IsFiniteSet(Rows)
  /\ \A r \in Rows : DOMAIN r = {"n", "source", "sourceGroup", "tab", "level"}

(* Targets, the keys of hidden groups and sources, the scopes of panes.    *)
Group(g) == [kind |-> "group", key |-> g]
Source(s) == [kind |-> "source", key |-> s]

(* The group a record names, or else the source of its tab, or its own.    *)
RecordSourceGroup(r) ==
  CASE r.sourceGroup # "" -> r.sourceGroup
    [] r.sourceGroup = "" /\ r.tab # "" -> r.tab
    [] OTHER -> r.source

Groups == {RecordSourceGroup(r) : r \in Rows}
SourcesOf(rows) == {r.source : r \in rows} \ {NoSource}

(* Whatever the tests below leave out, a view starts without: popout is    *)
(* null in a main window; off holds the levels switched off in a scope.    *)
NewView(popout) ==
  [popout |-> popout, detached |-> {}, blocked |-> {}, excluded |-> {}, off |-> {},
   mergedOff |-> {}, bySource |-> {}]

IsPopout(v, kind) == v.popout # null /\ v.popout.kind = kind

ViewerRecords(v) == {r \in Rows : r.source \notin v.blocked}

(* Variant: a group's window keeps the sources detached from it.           *)
ScopedWithDetached(v) ==
  {r \in ViewerRecords(v) :
     \/ IsPopout(v, "source") /\ r.source = v.popout.key
     \/ IsPopout(v, "group") /\ RecordSourceGroup(r) = v.popout.key
     \/ v.popout = null /\ Group(RecordSourceGroup(r)) \notin v.detached
                        /\ Source(r.source) \notin v.detached}

ScopedRecords(v) ==
  {r \in ViewerRecords(v) :
     \/ IsPopout(v, "source") /\ r.source = v.popout.key
     \/ /\ IsPopout(v, "group") /\ RecordSourceGroup(r) = v.popout.key
        /\ Source(r.source) \notin v.detached
     \/ /\ v.popout = null
        /\ {Group(RecordSourceGroup(r)), Source(r.source)} \cap v.detached = {}}

ProjectedGroupKey(v, r) == IF IsPopout(v, "source") THEN v.popout.key ELSE RecordSourceGroup(r)

SourceGroup(v, g) == {r \in ScopedRecords(v) : ProjectedGroupKey(v, r) = g}

IsGroup(v, g) == Cardinality(SourcesOf(SourceGroup(v, g))) > 1

IsExcluded(v, r) == {Group(ProjectedGroupKey(v, r)), Source(r.source)} \cap v.excluded # {}

MergedRecords(v) == {r \in ScopedRecords(v) : r.level \notin v.mergedOff /\ ~IsExcluded(v, r)}

(* The rows the by-source view counts.                                     *)
SourceVisibleRecords(v) ==
  {r \in ScopedRecords(v) :
     LET g == ProjectedGroupKey(v, r)
         scope == IF IsGroup(v, g) /\ g \notin v.bySource THEN Group(g) ELSE Source(r.source)
     IN  ~IsExcluded(v, r) /\ <<scope, r.level>> \notin v.off}

VisibleRecords(v, merged) == IF merged THEN MergedRecords(v) ELSE SourceVisibleRecords(v)

Pane(v, scope, rows) == [scope |-> scope, rows |-> {r \in rows : <<scope, r.level>> \notin v.off}]

(* The panes of a group: one for each child, or one for all of them, which *)
(* has the levels of its only child when it has no more than one.          *)
PanesOf(v, g) ==
  LET rows == SourceGroup(v, g)
      children == SourcesOf(rows)
      visible == {s \in children : Source(s) \notin v.excluded}
      Of(s) == {r \in rows : r.source = s}
      single == IF children = {} THEN g ELSE CHOOSE s \in children : TRUE
  IN  IF IsGroup(v, g) /\ g \in v.bySource
      THEN {Pane(v, Source(s), Of(s)) : s \in visible}
      ELSE {Pane(v, IF IsGroup(v, g) THEN Group(g) ELSE Source(single),
                 UNION {Of(s) : s \in visible})}

SourcePanes(v) ==
  LET groups == {ProjectedGroupKey(v, r) : r \in ScopedRecords(v)}
      shown == {g \in groups : Group(g) \notin v.excluded}
  IN  UNION {PanesOf(v, g) : g \in shown}
-----------------------------------------------------------------------------
Sourced == {r \in Rows : r.source # NoSource}

(* A record with a source is shown in one pane, or in none when the window *)
(* does not count it.                                                      *)
InOnePane(v) ==
  LET panes == SourcePanes(v)
      visible == VisibleRecords(v, FALSE)
  IN  \A r \in Sourced :
        Cardinality({p \in panes : r \in p.rows}) = IF r \in visible THEN 1 ELSE 0

(* With every level switched on, both views show the same records.         *)
SameInBothViews(v) ==
  v.off = {} /\ v.mergedOff = {} => VisibleRecords(v, TRUE) = VisibleRecords(v, FALSE)
=============================================================================
