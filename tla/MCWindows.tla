------------------------------ MODULE MCWindows ------------------------------
(***************************************************************************)
(* A tab with two sources of its own and a source alone; the tab and one   *)
(* of its sources can be popped out.  Two names that differ in case.       *)
(***************************************************************************)
EXTENDS Windows

Row(n, source, tab, level) ==
  [n |-> n, source |-> source, sourceGroup |-> "", tab |-> tab, level |-> level]

MCRows == {Row(1, "page", "tab", "info"), Row(2, "net", "tab", "warn"), Row(3, "api", "", "info")}

MCTargets == {Group("tab"), Source("page")}

(* The two have window names of their own.                                 *)
MCWindowName(t) == t

MCKey(name) == IF name = "Bug" THEN "bug" ELSE name
=============================================================================
