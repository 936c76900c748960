------------------------------- MODULE Viewer -------------------------------
(***************************************************************************)
(* One window of the browser viewer (internal/devlogbusd/ui/src/App.tsx):  *)
(* its sign-in, its event stream and the rows it keeps; and, as far as a   *)
(* window can tell, the daemon, which Auth and Broker model in detail.     *)
(*                                                                         *)
(* What a handler sets is rendered at once; the effects that depend on it  *)
(* run in a later task, and events and answers may come in between.        *)
(* A record is named by its place in taken, all records ever published;    *)
(* its id is its number in the daemon's life.                              *)
(***************************************************************************)
EXTENDS Auth, Lists, SequencesExt

CONSTANTS Sources,
          MaxVisible,   \* rows kept per source (maxVisibleRecordsPerSource)
          null,         \* the value of authStatus before it is known
          ChanCap,      \* capacity of the daemon's channel to a stream (512)
          MaxCalls,     \* bounds: requests under way at a time,
          MaxPublish,   \* records ever published,
          MaxMoves      \* what users and the network do

ASSUME ViewerAssumption ==
  /\ MaxVisible \in Nat \ {0}
  /\ \A set \in SUBSET Sources : null # set

VARIABLES
  daemon,      \* whether the daemon is up
  taken,       \* every record published: its id and source
  ring,        \* the records the daemon retains
  next,        \* its nextRecord
  serving,     \* how far its handler of the window's stream is
  pipe,        \* the records sent to the window and not read yet
  cookie,      \* the browser's session cookie
  calls,       \* the window's requests under way
  authStatus, authStatusError,
  stream,      \* the state of the EventSource
  connection,  \* the indicator
  records,     \* the rows, first in the Map first
  paused,      \* whether the merged view is shown, and paused
  pausedSources,
  blockedSources, blockedSourcesRef,
  ran,         \* what the effects ran with last, pausedRef and the like in it
  moves,
  lost         \* history: records not sent on this stream, thrown away or replaced

daemonVars == <<authVars, daemon, taken, ring, next>>
streamVars == <<serving, pipe, stream, connection>>
statusVars == <<authStatus, authStatusError>>
viewVars == <<records, paused, pausedSources, blockedSources, blockedSourcesRef>>
windowVars == <<cookie, calls, statusVars, viewVars, ran>>
vars == <<daemonVars, streamVars, windowVars, moves, lost>>

Idle == [kind |-> "idle"]

loginRequired == authStatus # null /\ authStatus.required /\ authStatus.user = NoUser
authReady == authStatus # null /\ ~authStatusError
showAuthGate == ~authReady \/ loginRequired

CurrentUser == IF authStatus = null THEN NoUser ELSE authStatus.user

(* What the effects depend on.                                             *)
Dependencies == [ready |-> authReady, required |-> loginRequired, user |-> CurrentUser,
                 paused |-> paused, pausedSources |-> pausedSources,
                 blockedSources |-> blockedSources]

Call(kind, arg) == [kind |-> kind, at |-> "sent", busy |-> FALSE, arg |-> arg, token |-> cookie,
                    answer |-> null]

Init ==
  /\ AuthInit
  /\ daemon = TRUE /\ taken = <<>> /\ ring = {} /\ next = 1
  /\ serving = "none" /\ pipe = <<>>
  /\ cookie = tokens
  /\ calls = [i \in 1..MaxCalls |-> IF i = 1 THEN Call("status", null) ELSE Idle]
  /\ authStatus = null /\ authStatusError = FALSE
  /\ stream = "none" /\ connection = "connecting"
  /\ records = <<>>
  /\ paused = FALSE /\ pausedSources = {}
  /\ blockedSources = {} /\ blockedSourcesRef = {}
  /\ ran = Dependencies
  /\ moves = 0 /\ lost = {}

Move == moves < MaxMoves /\ moves' = moves + 1
-----------------------------------------------------------------------------
(* The ring with a new record.  If the source has as many as the daemon    *)
(* retains of one, a number that is left open here, its oldest goes.       *)
Retain(s, n) ==
  LET mine == {m \in ring : taken[m].source = s}
  IN  \/ ring' = ring \cup {n}
      \/ \E oldest \in mine :
           /\ \A m \in mine : oldest <= m
           /\ ring' = (ring \ {oldest}) \cup {n}

(* A record reaches the stream unless the stream has not joined yet, or    *)
(* its channel is full: of what is in the pipe, as much may be in there.   *)
Publish(s) ==
  /\ daemon /\ Len(taken) < MaxPublish
  /\ taken' = Append(taken, [id |-> next, source |-> s])
  /\ next' = next + 1
  /\ Retain(s, Len(taken'))
  /\ \/ serving = "live" /\ pipe' = Append(pipe, Len(taken')) /\ UNCHANGED lost
     \/ /\ serving # "live" \/ Len(pipe) >= ChanCap
        /\ lost' = lost \cup {Len(taken')} /\ UNCHANGED pipe
  /\ UNCHANGED <<authVars, daemon, serving, stream, connection, windowVars, moves>>

(* addSubscriber, after the replay.                                        *)
Join ==
  /\ serving = "replaying"
  /\ serving' = "live"
  /\ UNCHANGED <<daemonVars, pipe, stream, connection, windowVars, moves, lost>>

(* The connection ends; the window may still read part of what was sent.   *)
Cut ==
  /\ serving' = "none"
  /\ \E n \in 0..Len(pipe) : pipe' = SubSeq(pipe, 1, n)

Lose ==
  /\ serving # "none"
  /\ Move
  /\ Cut
  /\ UNCHANGED <<daemonVars, stream, connection, windowVars, lost>>

(* The daemon stops: requests it has not answered fail.                    *)
Crash ==
  /\ daemon
  /\ Move
  /\ daemon' = FALSE /\ ring' = {} /\ next' = 1
  /\ ForgetSessions
  /\ Cut
  /\ calls' = [i \in 1..MaxCalls |->
                 IF calls[i] # Idle /\ calls[i].at \in {"sent", "verified"}
                 THEN [calls[i] EXCEPT !.at = "failed"] ELSE calls[i]]
  /\ UNCHANGED <<users, loginEnabled, tokens, taken, stream, connection, cookie, statusVars,
                 viewVars, ran, lost>>

Restart ==
  /\ ~daemon
  /\ daemon' = TRUE
  /\ UNCHANGED <<authVars, taken, ring, next, streamVars, windowVars, moves, lost>>

(* Another browser changes the accounts, or signs the user out of this     *)
(* session; a session may also expire.                                     *)
Others ==
  /\ daemon
  /\ Move
  /\ \/ \E u \in Users \ users : AddUser(u) /\ UNCHANGED <<loginEnabled, sessions>>
     \/ \E u \in users : DeleteUser(u) /\ UNCHANGED loginEnabled
     \/ /\ ~SetLoginEnabledFails(~loginEnabled) /\ SetLoginEnabled(~loginEnabled)
        /\ UNCHANGED <<users, sessions>>
     \/ \E t \in DOMAIN sessions : Logout(t) /\ UNCHANGED <<users, loginEnabled>>
  /\ UNCHANGED <<tokens, daemon, taken, ring, next, streamVars, windowVars, lost>>
-----------------------------------------------------------------------------
(* A request the daemon refuses, or that is lost, or its answer is.        *)
Refuse(i) == calls' = [calls EXCEPT ![i].at = "failed"]

AnswerCall(i, answer) == calls' = [calls EXCEPT ![i].at = "answered", ![i].answer = answer]

Sent(i, kinds) == calls[i] # Idle /\ calls[i].at = "sent" /\ calls[i].kind \in kinds

Records(sources) == {n \in 1..Len(taken) : taken[n].source \in sources}

(* handleHTTPAuthStatus, handleHTTPAuthLogin, which first verifies the     *)
(* password, and handleHTTPAuthLogout.                                     *)
ServeSession(i) ==
  LET call == calls[i] IN
  /\ daemon
  /\ \/ /\ Sent(i, {"status"})
        /\ CheckRequest(call.token)
        /\ AnswerCall(i, Status(call.token))
        /\ UNCHANGED tokens
     \/ /\ Sent(i, {"login"})
        /\ IF call.arg \in users THEN calls' = [calls EXCEPT ![i].at = "verified"] ELSE Refuse(i)
        /\ UNCHANGED <<sessions, tokens>>
     \/ /\ call # Idle /\ call.at = "verified"
        /\ StartSession(call.arg, call.token)
        /\ AnswerCall(i, [required |-> LoginRequired, user |-> call.arg, token |-> tokens'])
     \/ /\ Sent(i, {"logout"})
        /\ Logout(call.token)
        /\ AnswerCall(i, [required |-> LoginRequired, user |-> NoUser])
        /\ UNCHANGED tokens
  /\ UNCHANGED <<users, loginEnabled, daemon, taken, ring, next, streamVars, cookie, statusVars,
                 viewVars, ran, moves, lost>>

(* handleHTTPAuthSettings, handleHTTPAuthUsers, handleHTTPAuthUser and     *)
(* handleHTTPExpungeRecords, behind withHTTPAuth.                          *)
ServeGuarded(i) ==
  LET call == calls[i] IN
  /\ daemon
  /\ Sent(i, {"settings", "create", "delete", "expunge"})
  /\ \/ /\ \/ ~Authorized(call.token)
           \/ call.kind = "settings" /\ SetLoginEnabledFails(call.arg)
           \/ call.kind = "create" /\ call.arg \in users
           \/ call.kind = "delete" /\ call.arg \notin users
        /\ Guard(call.token) /\ Refuse(i)
        /\ UNCHANGED <<users, loginEnabled, ring>>
     \/ /\ Authorized(call.token)
        /\ \/ /\ call.kind = "settings" /\ ~SetLoginEnabledFails(call.arg)
              /\ SetLoginEnabled(call.arg)
              /\ AnswerCall(i, [required |-> call.arg /\ users # {},
                                user |-> UserFromRequest(call.token)])
              /\ CheckRequest(call.token)
              /\ UNCHANGED <<users, ring>>
           \/ /\ call.kind = "create" /\ call.arg \notin users
              /\ AddUser(call.arg) /\ AnswerCall(i, null)
              /\ UNCHANGED <<loginEnabled, sessions, ring>>
           \/ /\ call.kind = "delete" /\ call.arg \in users
              /\ DeleteUser(call.arg) /\ AnswerCall(i, null)
              /\ UNCHANGED <<loginEnabled, ring>>
           \/ /\ call.kind = "expunge"
              /\ ring' = ring \ Records(Head(call.arg.left))
              /\ AnswerCall(i, null)
              /\ UNCHANGED <<users, loginEnabled, sessions>>
  /\ UNCHANGED <<tokens, daemon, taken, next, streamVars, cookie, statusVars, viewVars, ran, moves,
                 lost>>

LoseCall(i) ==
  /\ calls[i] # Idle /\ calls[i].at # "failed"
  /\ Move
  /\ Refuse(i)
  /\ UNCHANGED <<daemonVars, streamVars, cookie, statusVars, viewVars, ran, lost>>

(* A request to a daemon that is down fails.                               *)
Unanswered(i) ==
  /\ ~daemon
  /\ calls[i] # Idle /\ calls[i].at = "sent"
  /\ Refuse(i)
  /\ UNCHANGED <<daemonVars, streamVars, cookie, statusVars, viewVars, ran, moves, lost>>
-----------------------------------------------------------------------------
Done(i) == calls' = [calls EXCEPT ![i] = Idle]

SetAuthStatus(status) == authStatus' = [required |-> status.required, user |-> status.user]

(* The rows of some sources go, what they show of the ring with them.      *)
Drop(sources) ==
  /\ records' = AtPlaces(records, {i \in 1..Len(records) : taken[records[i]].source \notin sources})
  /\ lost' = lost \cup (Records(sources) \cap Range(records))

(* clearRecords, clearSourceRecords, clearGroupRecords.                    *)
ClearRows(clear) == Drop(clear.sources) /\ pausedSources' = pausedSources \ clear.unpauses

(* clearRecords forgets every pause, clearSourceRecords that of its source *)
(* when it forgets the source, clearGroupRecords none of a source.         *)
ClearAll == [sources |-> Sources, unpauses |-> Sources]
ClearSource(s) == [sources |-> {s}, unpauses |-> {}]
ForgetSource(s) == [sources |-> {s}, unpauses |-> {s}]
ClearGroup == [sources |-> Sources, unpauses |-> {}]

(* loadAuthStatus, submitLogin, logout and saveAuthSettings once answered. *)
StatusAnswered(i) ==
  LET call == calls[i] IN
  /\ call # Idle /\ call.at = "answered"
  /\ call.kind \in {"status", "login", "logout", "settings"}
  /\ SetAuthStatus(call.answer)
  /\ authStatusError' = (authStatusError /\ call.kind \in {"logout", "settings"})
  /\ cookie' = CASE call.kind = "login" -> call.answer.token
                 [] call.kind = "logout" -> 0
                 [] OTHER -> cookie
  /\ IF call.kind = "logout" THEN ClearRows(ClearAll)
     ELSE UNCHANGED <<records, pausedSources, lost>>
  /\ Done(i)
  /\ UNCHANGED <<daemonVars, streamVars, paused, blockedSources, blockedSourcesRef, ran, moves>>

(* createAuthUser and deleteAuthUser go on to load the status.             *)
UsersAnswered(i) ==
  /\ calls[i] # Idle /\ calls[i].at = "answered" /\ calls[i].kind \in {"create", "delete"}
  /\ calls' = [calls EXCEPT ![i] = [Call("status", null) EXCEPT !.busy = TRUE]]
  /\ UNCHANGED <<daemonVars, streamVars, cookie, statusVars, viewVars, ran, moves, lost>>

(* expungeRecords and expungeGroupRecords: the rows go after the last.     *)
ExpungeAnswered(i) ==
  LET call == calls[i] IN
  /\ call # Idle /\ call.at = "answered" /\ call.kind = "expunge"
  /\ IF Len(call.arg.left) > 1
     THEN /\ calls' = [calls EXCEPT ![i] =
                         Call("expunge", [call.arg EXCEPT !.left = Tail(@)])]
          /\ UNCHANGED <<records, pausedSources, lost>>
     ELSE ClearRows(call.arg.clear) /\ Done(i)
  /\ UNCHANGED <<daemonVars, streamVars, cookie, statusVars, paused, blockedSources,
                 blockedSourcesRef, ran, moves>>

(* Only a status that cannot be loaded changes anything.                   *)
Failed(i) ==
  /\ calls[i] # Idle /\ calls[i].at = "failed"
  /\ IF calls[i].kind = "status" THEN authStatus' = null /\ authStatusError' = TRUE
     ELSE UNCHANGED statusVars
  /\ Done(i)
  /\ UNCHANGED <<daemonVars, streamVars, cookie, viewVars, ran, moves, lost>>
-----------------------------------------------------------------------------
(* The rows with a record in the place of the one with its id, or at the   *)
(* end.                                                                    *)
Set(rows, n) ==
  IF \E i \in 1..Len(rows) : taken[rows[i]].id = taken[n].id
  THEN [i \in 1..Len(rows) |-> IF taken[rows[i]].id = taken[n].id THEN n ELSE rows[i]]
  ELSE Append(rows, n)

(* The rows of other records with the id of one, which it replaces: the    *)
(* daemon counts from 1 again when it restarts.                            *)
Replaced(rows, n) == {m \in Range(rows) : m # n /\ taken[m].id = taken[n].id}

(* All but the first rows at the places ps, of which MaxVisible stay.      *)
Trim(rows, ps) ==
  LET drop == Cardinality(ps) - MaxVisible
      kept == {i \in 1..Len(rows) : i \in ps => Place(ps, i) > drop}
  IN  AtPlaces(rows, kept)

(* Variant: the limit is not one per source.                               *)
MergeRecordOfAny(rows, n) == Trim(Set(rows, n), 1..Len(Set(rows, n)))

(* mergeRecord: of a source with too many rows the first go.               *)
MergeRecord(rows, n) ==
  LET all == Set(rows, n)
  IN  Trim(all, {i \in 1..Len(all) : taken[all[i]].source = taken[n].source})

(* The record listener, with what the last effects left in the refs.       *)
OnRecord ==
  /\ stream = "open" /\ pipe # <<>>
  /\ pipe' = Tail(pipe)
  /\ LET n == Head(pipe) IN
       IF \/ taken[n].source \in blockedSourcesRef
          \/ ran.paused
          \/ taken[n].source \in ran.pausedSources
       THEN lost' = lost \cup {n} /\ UNCHANGED records
       ELSE records' = MergeRecord(records, n) /\ lost' = lost \cup Replaced(records, n)
  /\ UNCHANGED <<daemonVars, serving, stream, connection, cookie, calls, statusVars, paused,
                 pausedSources, blockedSources, blockedSourcesRef, ran, moves>>

(* EventSource: the daemon answers with the replay, or refuses for good    *)
(* when login is required.                                                 *)
Connect ==
  /\ stream = "connecting" /\ daemon
  /\ Guard(cookie)
  /\ \/ /\ Authorized(cookie)
        /\ stream' = "open" /\ connection' = "online"
        /\ serving' = "replaying" /\ pipe' = InOrder(ring)
        /\ lost' = {}
     \/ /\ ~Authorized(cookie)
        /\ stream' = "refused" /\ connection' = "reconnecting"
        /\ UNCHANGED <<serving, pipe, lost>>
  /\ UNCHANGED <<users, loginEnabled, tokens, daemon, taken, ring, next, windowVars, moves>>

(* onerror: the connection ended, or there is nobody to connect to; the    *)
(* browser tries again.                                                    *)
OnError ==
  /\ \/ stream = "open" /\ serving = "none" /\ pipe = <<>>
     \/ stream = "connecting" /\ ~daemon
  /\ stream' = "connecting" /\ connection' = "reconnecting"
  /\ UNCHANGED <<daemonVars, serving, pipe, windowVars, moves, lost>>

(* Variant: the effect of the stream has no dependencies.                  *)
FollowsMount(now) == FALSE

(* The effect of the stream is due.                                        *)
Follows(now) == <<now.ready, now.required, now.user>> # <<ran.ready, ran.required, ran.user>>

(* Variant: the rows stay when the session ends.                           *)
ForgetsBlocked(now) ==
  IF now.blockedSources # ran.blockedSources THEN now.blockedSources ELSE {}

(* The sources whose rows the effects of loginRequired and blockedSources  *)
(* remove.                                                                 *)
Forgets(now) ==
  (IF now.required /\ ~ran.required THEN Sources ELSE {})
    \cup (IF now.blockedSources # ran.blockedSources THEN now.blockedSources ELSE {})

(* Variant: the effect of the stream has no cleanup.                       *)
Abandon == UNCHANGED <<serving, pipe>>

(* stream.close(): what has not been read is not.                          *)
Close == serving' = "none" /\ pipe' = <<>>

(* The effects that are due.  The one of the stream closes it, and opens   *)
(* one when the window may see records.                                    *)
Effects ==
  LET now == Dependencies
  IN  /\ ran # now
      /\ ran' = now
      /\ Drop(Forgets(now))
      /\ blockedSourcesRef' = IF now.blockedSources # ran.blockedSources THEN now.blockedSources
                              ELSE blockedSourcesRef
      /\ IF Follows(now)
         THEN stream' = (IF now.ready /\ ~now.required THEN "connecting" ELSE "none") /\ Close
         ELSE UNCHANGED <<stream, serving, pipe>>
      /\ UNCHANGED <<daemonVars, connection, cookie, calls, statusVars, paused, pausedSources,
                     blockedSources, moves>>
-----------------------------------------------------------------------------
Ask(kind, busy, arg) ==
  \E i \in 1..MaxCalls :
    /\ calls[i] = Idle /\ \A j \in 1..(i - 1) : calls[j] # Idle
    /\ calls' = [calls EXCEPT ![i] = [Call(kind, arg) EXCEPT !.busy = busy]]
    /\ UNCHANGED <<daemonVars, streamVars, cookie, statusVars, viewVars, ran, lost>>

Busy == \E i \in 1..MaxCalls : calls[i] # Idle /\ calls[i].busy

(* The sign-in page: its form is disabled while it is being answered, its  *)
(* Retry is not.                                                           *)
AtGate ==
  /\ Move
  /\ showAuthGate
  /\ \/ authStatusError /\ Ask("status", FALSE, null)
     \/ /\ ~authStatusError /\ authReady
        /\ \A i \in 1..MaxCalls : calls[i].kind # "login"
        /\ \E u \in Users : Ask("login", FALSE, u)

(* Signing out and the settings, disabled while one of them is under way.  *)
Manage ==
  /\ Move
  /\ ~showAuthGate /\ ~Busy
  /\ \/ CurrentUser # NoUser /\ Ask("logout", TRUE, null)
     \/ \E on \in BOOLEAN : Ask("settings", TRUE, on)
     \/ \E u \in Users : Ask("create", TRUE, u) \/ Ask("delete", TRUE, u)

Expunge ==
  /\ Move
  /\ ~showAuthGate
  /\ \/ Ask("expunge", FALSE, [left |-> <<Sources>>, clear |-> ClearAll])
     \/ \E s \in Sources : Ask("expunge", FALSE, [left |-> <<{s}>>, clear |-> ForgetSource(s)])
     \/ Ask("expunge", FALSE,
             [left |-> [k \in 1..Cardinality(Sources) |-> {SetToSeq(Sources)[k]}],
              clear |-> ClearGroup])

Clear ==
  /\ Move
  /\ ~showAuthGate
  /\ \E clear \in {ClearAll, ClearGroup} \cup {ClearSource(s) : s \in Sources} : ClearRows(clear)
  /\ UNCHANGED <<daemonVars, streamVars, cookie, calls, statusVars, paused, blockedSources,
                 blockedSourcesRef, ran>>

Pause ==
  /\ Move
  /\ ~showAuthGate
  /\ \/ paused' = ~paused /\ UNCHANGED pausedSources
     \/ /\ \E s \in Sources : pausedSources' = SymDiff(pausedSources, {s})
        /\ UNCHANGED paused
  /\ UNCHANGED <<daemonVars, streamVars, cookie, calls, statusVars, records, blockedSources,
                 blockedSourcesRef, ran, lost>>

(* A new array, if not a new list: the effect that depends on it is due.   *)
SetBlockedSources(sources) ==
  /\ blockedSources' = sources
  /\ ran' = [ran EXCEPT !.blockedSources = null]

(* blockSource, unblockSource and loadWorkspace, by updateBlockedSources.  *)
Block ==
  /\ Move
  /\ ~showAuthGate
  /\ \/ \E s \in Sources \ blockedSources :
          /\ SetBlockedSources(blockedSources \cup {s})
          /\ Drop({s}) /\ pausedSources' = pausedSources \ {s}
     \/ /\ \E sources \in (SUBSET Sources) \ {blockedSources} : SetBlockedSources(sources)
        /\ UNCHANGED <<records, pausedSources, lost>>
  /\ blockedSourcesRef' = blockedSources'
  /\ UNCHANGED <<daemonVars, streamVars, cookie, calls, statusVars, paused>>

(* Another window tells what is blocked.                                   *)
SyncBlocked ==
  /\ Move
  /\ \E sources \in (SUBSET Sources) \ {blockedSources} : SetBlockedSources(sources)
  /\ UNCHANGED <<daemonVars, streamVars, cookie, calls, statusVars, records, paused, pausedSources,
                 blockedSourcesRef, lost>>

Requests ==
  \E i \in 1..MaxCalls :
    \/ ServeSession(i) \/ ServeGuarded(i) \/ Unanswered(i)
    \/ StatusAnswered(i) \/ UsersAnswered(i) \/ ExpungeAnswered(i) \/ Failed(i)

System == Join \/ Requests \/ OnRecord \/ Connect \/ OnError \/ Effects

Next ==
  \/ System
  \/ \E s \in Sources : Publish(s)
  \/ Restart \/ Lose \/ Crash \/ Others \/ \E i \in 1..MaxCalls : LoseCall(i)
  \/ AtGate \/ Manage \/ Expunge \/ Clear \/ Pause \/ Block \/ SyncBlocked

(* The browser runs what is due, and the daemon answers while it is up.    *)
Spec == Init /\ [][Next]_vars /\ WF_vars(System)
-----------------------------------------------------------------------------
(* The variables have their types.                                         *)
TypeOK ==
  /\ AuthTypeOK
  /\ daemon \in BOOLEAN /\ paused \in BOOLEAN
  /\ ring \subseteq 1..Len(taken) /\ lost \subseteq 1..Len(taken)
  /\ Range(pipe) \cup Range(records) \subseteq 1..Len(taken)
  /\ serving \in {"none", "replaying", "live"}
  /\ stream \in {"none", "connecting", "open", "refused"}
  /\ serving # "none" => stream = "open"
  /\ connection \in {"connecting", "online", "reconnecting"}
  /\ cookie \in 0..tokens
  /\ {pausedSources, blockedSources, blockedSourcesRef} \subseteq SUBSET Sources

Settled == ran = Dependencies

(* Once the effects have run, a window whose status says that login is     *)
(* required follows no stream and keeps no row, and a window keeps no row  *)
(* of a source that is blocked, whatever arrived before they ran (the      *)
(* effects of loginRequired, blockedSources and the stream).               *)
NothingWithheldIsKept ==
  Settled =>
    /\ loginRequired => records = <<>> /\ stream = "none"
    /\ \A n \in Range(records) : taken[n].source \notin blockedSources

(* A window that has read its stream to the end shows every record the     *)
(* daemon retains, however often the stream, the daemon and the user were  *)
(* replaced, unless the record was not sent on this stream, was thrown     *)
(* away, or gave way to as many others of its source as there may be rows  *)
(* (mergeRecord).  Those others may be of an earlier life of the daemon,   *)
(* and replaced themselves since: the source can then have fewer rows.     *)
CaughtUp ==
  stream = "open" /\ serving = "live" /\ pipe = <<>> =>
    LET known == lost \cup Range(records) IN
    \A n \in ring \ known :
      Cardinality({k \in known : taken[k].source = taken[n].source}) >= MaxVisible

(* While the daemon is up, a window that may show records comes online,    *)
(* after every loss of the connection and every restart, unless the daemon *)
(* refuses its session (the effect of the stream, EventSource).            *)
ComesOnline ==
  (authReady /\ ~loginRequired) ~>
    (\/ connection = "online" /\ stream = "open"
     \/ ~daemon \/ stream = "refused" \/ ~authReady \/ loginRequired)
=============================================================================
