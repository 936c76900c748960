----------------------------- MODULE TapRecords -----------------------------
(***************************************************************************)
(* What the browser tap (extensions/chrome-devlogbus/service-worker.js)    *)
(* makes of one debugger event: the options that decide, the requests it   *)
(* remembers of a tab, and whether the event becomes a record.             *)
(***************************************************************************)
EXTENDS Naturals, SequencesExt

CONSTANTS URLs,        \* the addresses pages and requests have
          NoURL,       \* no address: the empty string
          RequestIds,  \* the ids the debugger gives requests
          Secrets,     \* what redaction removes: tokens, parameters, cookies
          MaxRequests  \* how many requests of a tab are remembered (500)

ASSUME TapAssumption == NoURL \notin URLs /\ MaxRequests \in Nat \ {0}

(* The events that a toggle of the popup governs, by toggle.               *)
Console == {"console"}
Runtime == {"exception"}
BrowserLog == {"log"}
Network == {"request", "response", "failure"}

Kinds == Console \cup Runtime \cup BrowserLog \cup Network

(* An event's text is known by the secrets it holds.                       *)
IsEvent(e) ==
  /\ e.kind \in Kinds \cup {"target"} /\ e.url \in URLs \cup {NoURL}
  /\ e.request \in RequestIds /\ e.text \subseteq Secrets

(* A pattern is the set of the addresses it matches; a toggle that is off  *)
(* leaves its kinds out of capture, or its secrets out of redact.          *)
IsOptions(o) ==
  /\ o.capture \subseteq Kinds /\ o.redact \subseteq Secrets
  /\ {o.allow, o.deny} \subseteq SUBSET SUBSET URLs
  /\ o.endpoint \in URLs

(* sanitizeAttrs and redactText, over the message and every attribute.     *)
Redacted(text, o) == text \ o.redact

SomeMatch(url, patterns) == \E pattern \in patterns : url \in pattern

IsURLAllowed(url, o) ==
  url # NoURL => ~SomeMatch(url, o.deny) /\ (o.allow = {} \/ SomeMatch(url, o.allow))

ShouldSkipURL(url, o) == url # NoURL /\ (url = o.endpoint \/ ~IsURLAllowed(url, o))
-----------------------------------------------------------------------------
(* What is known of a tab: its address when it was attached, the options   *)
(* of its last event, and its requests, oldest first.                      *)
TabState(url, o) == [url |-> url, options |-> o, requests |-> <<>>]

Knows(requests, id) == \E i \in 1..Len(requests) : requests[i].id = id

RequestURL(requests, id) ==
  IF Knows(requests, id)
  THEN requests[CHOOSE i \in 1..Len(requests) : requests[i].id = id].url
  ELSE NoURL

(* Variant: the requests are never trimmed.                                *)
RememberAll(requests, id, url) ==
  IF Knows(requests, id) THEN requests ELSE Append(requests, [id |-> id, url |-> url])

(* Setting a known key of a Map keeps its place; the first keys go first.  *)
Remember(requests, id, url) ==
  LET entry == [id |-> id, url |-> url]
      all == IF Knows(requests, id)
             THEN [i \in 1..Len(requests) |-> IF requests[i].id = id THEN entry ELSE requests[i]]
             ELSE Append(requests, entry)
  IN  SubSeq(all, IF Len(all) > MaxRequests THEN Len(all) - MaxRequests + 1 ELSE 1, Len(all))

(* The address an event is judged by: its own, or else the tab's; a        *)
(* failure has that of its request.                                        *)
JudgedURL(state, e) ==
  CASE e.kind \in Network \ {"failure"} -> e.url
    [] e.kind = "failure" -> RequestURL(state.requests, e.request)
    [] OTHER -> IF e.url = NoURL THEN state.url ELSE e.url

(* handleDebuggerEvent once the tab's state has the options: a network     *)
(* event and a log entry of the daemon's own address are skipped, and so   *)
(* is the failure of an unknown request.                                   *)
Publishes(state, e) ==
  LET o == state.options IN
  /\ e.kind \in o.capture
  /\ e.kind \in Network \cup BrowserLog => ~ShouldSkipURL(JudgedURL(state, e), o)
  /\ e.kind \notin Network => IsURLAllowed(JudgedURL(state, e), o)
  /\ e.kind = "failure" => RequestURL(state.requests, e.request) # NoURL

AfterEvent(state, e) ==
  IF e.kind = "request" /\ Publishes(state, e)
  THEN [state EXCEPT !.requests = Remember(@, e.request, e.url)]
  ELSE state
=============================================================================
