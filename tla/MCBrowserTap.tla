---------------------------- MODULE MCBrowserTap ----------------------------
(***************************************************************************)
(* One tab, two pages, and options that differ in a toggle, a pattern and  *)
(* what they redact.                                                       *)
(***************************************************************************)
EXTENDS BrowserTap

Everything == [capture |-> Kinds, redact |-> {}, allow |-> {}, deny |-> {}, endpoint |-> "bus"]

Strict == [capture |-> Kinds \ {"console"}, redact |-> {"token"}, allow |-> {},
           deny |-> {{"app"}}, endpoint |-> "bus"]

MCOptionSets == <<Everything, Strict>>

Event(kind, url, id) == [kind |-> kind, url |-> url, request |-> id, text |-> {"token"}]

MCEvents == {Event("console", "", "r1"), Event("request", "app", "r1"),
             Event("request", "app", "r2"), Event("failure", "", "r2")}
=============================================================================
