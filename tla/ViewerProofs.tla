---------------------------- MODULE ViewerProofs ----------------------------
(***************************************************************************)
(* Theorems about Viewer, for every set of users and sources and every     *)
(* number of rows kept.                                                    *)
(***************************************************************************)
EXTENDS Viewer, ListProofs
-----------------------------------------------------------------------------
ListsInv ==
  /\ taken \in Seq([id : Nat, source : Sources]) /\ next \in Nat
  /\ ring \subseteq 1..Len(taken) /\ lost \subseteq 1..Len(taken)
  /\ pipe \in Seq(1..Len(taken)) /\ records \in Seq(1..Len(taken))

StreamInv ==
  /\ daemon \in BOOLEAN /\ paused \in BOOLEAN
  /\ serving \in {"none", "replaying", "live"}
  /\ stream \in {"none", "connecting", "open", "refused"}
  /\ serving # "none" => stream = "open"
  /\ connection \in {"connecting", "online", "reconnecting"}

ViewInv ==
  /\ {pausedSources, blockedSources, blockedSourcesRef} \subseteq SUBSET Sources
  /\ DOMAIN ran = {"ready", "required", "user", "paused", "pausedSources", "blockedSources"}

(* What a request carries is of the kind it asks for, with n tokens given. *)
IsCall(call, n) ==
  /\ DOMAIN call = {"kind", "at", "busy", "arg", "token", "answer"}
  /\ call.kind \in {"login", "create", "delete"} => call.arg \in Users
  /\ call.kind = "settings" => call.arg \in BOOLEAN
  /\ call.at = "verified" => call.kind = "login"
  /\ call.kind = "login" /\ call.at = "answered" => call.answer.token \in 0..n

CallsInv ==
  /\ cookie \in 0..tokens
  /\ DOMAIN calls = 1..MaxCalls
  /\ \A i \in 1..MaxCalls : calls[i] = Idle \/ IsCall(calls[i], tokens)

TypeInv == AuthTypeOK /\ ListsInv /\ StreamInv /\ ViewInv /\ CallsInv

LEMMA SessionsEnd ==
  ASSUME AuthTypeOK, NEW ended, Ended(ended)
  PROVE  DOMAIN sessions' \subseteq 1..tokens /\ \A t \in DOMAIN sessions' : sessions'[t] \in Users
BY DEF AuthTypeOK, Ended

LEMMA SessionStarts ==
  ASSUME AuthTypeOK, NEW u \in Users, NEW token, StartSession(u, token)
  PROVE  /\ tokens' = tokens + 1
         /\ DOMAIN sessions' \subseteq 1..tokens' /\ \A t \in DOMAIN sessions' : sessions'[t] \in Users
BY DEF AuthTypeOK, StartSession

(* The accounts, the setting and the sessions keep their types, and tokens *)
(* are only added.                                                         *)
LEMMA ServeAuth ==
  ASSUME TypeInv, NEW i \in 1..MaxCalls, ServeSession(i) \/ ServeGuarded(i)
  PROVE  AuthTypeOK' /\ tokens' \in Nat /\ tokens <= tokens'
<1> DEFINE call == calls[i]
<1>0. AuthTypeOK /\ tokens \in Nat /\ (call = Idle \/ IsCall(call, tokens))
  BY DEF TypeInv, CallsInv, AuthTypeOK
<1>1. CASE ServeSession(i)
  <2>0. users' = users /\ loginEnabled' = loginEnabled
    BY <1>1 DEF ServeSession
  <2>1. CASE Sent(i, {"status"}) /\ CheckRequest(call.token) /\ tokens' = tokens
    BY <1>0, <2>0, <2>1, SessionsEnd DEF CheckRequest, AuthTypeOK
  <2>2. CASE sessions' = sessions /\ tokens' = tokens
    BY <1>0, <2>0, <2>2 DEF AuthTypeOK
  <2>3. CASE call # Idle /\ call.at = "verified" /\ StartSession(call.arg, call.token)
    <3>1. call.arg \in Users
      BY <1>0, <2>3 DEF IsCall
    <3>2. /\ tokens' = tokens + 1
          /\ DOMAIN sessions' \subseteq 1..tokens' /\ \A t \in DOMAIN sessions' : sessions'[t] \in Users
      BY <1>0, <2>3, <3>1, SessionStarts
    <3> QED BY <1>0, <2>0, <3>2 DEF AuthTypeOK
  <2>4. CASE Sent(i, {"logout"}) /\ Logout(call.token) /\ tokens' = tokens
    BY <1>0, <2>0, <2>4, SessionsEnd DEF Logout, AuthTypeOK
  <2> QED BY <1>1, <2>1, <2>2, <2>3, <2>4 DEF ServeSession
<1>2. CASE ServeGuarded(i)
  <2>0. tokens' = tokens /\ call # Idle /\ IsCall(call, tokens)
    BY <1>0, <1>2 DEF ServeGuarded, Sent
  <2>1. CASE Guard(call.token) /\ UNCHANGED <<users, loginEnabled, ring>>
    BY <1>0, <2>0, <2>1, SessionsEnd DEF Guard, CheckRequest, AuthTypeOK
  <2>2. CASE call.kind = "settings" /\ SetLoginEnabled(call.arg) /\ CheckRequest(call.token) /\ users' = users
    BY <1>0, <2>0, <2>2, SessionsEnd DEF SetLoginEnabled, CheckRequest, AuthTypeOK, IsCall
  <2>3. CASE call.kind = "create" /\ AddUser(call.arg) /\ UNCHANGED <<loginEnabled, sessions, ring>>
    BY <1>0, <2>0, <2>3 DEF AddUser, AuthTypeOK, IsCall
  <2>4. CASE call.kind = "delete" /\ DeleteUser(call.arg) /\ UNCHANGED <<loginEnabled, ring>>
    BY <1>0, <2>0, <2>4, SessionsEnd DEF DeleteUser, AuthTypeOK
  <2>5. CASE UNCHANGED <<users, loginEnabled, sessions>>
    BY <1>0, <2>0, <2>5 DEF AuthTypeOK
  <2> QED BY <1>2, <2>1, <2>2, <2>3, <2>4, <2>5 DEF ServeGuarded
<1> QED BY <1>1, <1>2

LEMMA AuthStep ==
  ASSUME TypeInv, [Next]_vars
  PROVE  AuthTypeOK' /\ tokens' \in Nat /\ tokens <= tokens'
<1>0. AuthTypeOK /\ tokens \in Nat
  BY DEF TypeInv, AuthTypeOK
<1>1. CASE UNCHANGED authVars
  BY <1>0, <1>1 DEF AuthTypeOK, authVars
<1>2. CASE Crash
  BY <1>0, <1>2, SessionsEnd DEF Crash, ForgetSessions, AuthTypeOK
<1>3. CASE Others
  <2>0. tokens' = tokens
    BY <1>3 DEF Others
  <2>1. ASSUME NEW u \in Users \ users, AddUser(u), UNCHANGED <<loginEnabled, sessions>>
        PROVE  AuthTypeOK'
    BY <1>0, <2>0, <2>1 DEF AddUser, AuthTypeOK
  <2>2. ASSUME NEW u \in users, DeleteUser(u), UNCHANGED loginEnabled
        PROVE  AuthTypeOK'
    BY <1>0, <2>0, <2>2, SessionsEnd DEF DeleteUser, AuthTypeOK
  <2>3. ASSUME SetLoginEnabled(~loginEnabled), UNCHANGED <<users, sessions>>
        PROVE  AuthTypeOK'
    BY <1>0, <2>0, <2>3 DEF SetLoginEnabled, AuthTypeOK
  <2>4. ASSUME NEW t \in DOMAIN sessions, Logout(t), UNCHANGED <<users, loginEnabled>>
        PROVE  AuthTypeOK'
    BY <1>0, <2>0, <2>4, SessionsEnd DEF Logout, AuthTypeOK
  <2> QED BY <1>0, <1>3, <2>0, <2>1, <2>2, <2>3, <2>4 DEF Others
<1>4. CASE \E i \in 1..MaxCalls : ServeSession(i) \/ ServeGuarded(i)
  BY <1>4, ServeAuth
<1>5. CASE Connect
  BY <1>0, <1>5, SessionsEnd DEF Connect, Guard, CheckRequest, AuthTypeOK
<1>6. CASE Next /\ ~UNCHANGED authVars
  <2> USE DEF daemonVars
  <2>1. ASSUME NEW i \in 1..MaxCalls,
               Unanswered(i) \/ StatusAnswered(i) \/ UsersAnswered(i) \/ ExpungeAnswered(i) \/ Failed(i) \/ LoseCall(i)
        PROVE  UNCHANGED authVars
    BY <2>1 DEF Unanswered, StatusAnswered, UsersAnswered, ExpungeAnswered, Failed, LoseCall
  <2>2. ASSUME NEW s \in Sources, Publish(s)
        PROVE  UNCHANGED authVars
    BY <2>2 DEF Publish
  <2>3. ASSUME Join \/ OnRecord \/ OnError \/ Effects \/ Restart \/ Lose
        PROVE  UNCHANGED authVars
    BY <2>3 DEF Join, OnRecord, OnError, Effects, Restart, Lose
  <2>4. ASSUME AtGate \/ Manage \/ Expunge \/ Clear \/ Pause \/ Block \/ SyncBlocked
        PROVE  UNCHANGED authVars
    BY <2>4 DEF AtGate, Manage, Expunge, Ask, Clear, Pause, Block, SyncBlocked
  <2> QED BY <1>2, <1>3, <1>4, <1>5, <1>6, <2>1, <2>2, <2>3, <2>4 DEF Next, System, Requests
<1> QED BY <1>1, <1>6 DEF vars, daemonVars

(* A request under way goes on, ends, or is sent; the others stay.         *)
LEMMA CallsKept ==
  ASSUME CallsInv, tokens \in Nat, tokens' \in Nat, tokens <= tokens', UNCHANGED <<calls, cookie>>
  PROVE  CallsInv'
BY DEF CallsInv, IsCall

LEMMA CallSet ==
  ASSUME CallsInv, tokens \in Nat, tokens' \in Nat, tokens <= tokens', cookie' \in 0..tokens',
         NEW i \in 1..MaxCalls, NEW call, calls' = [calls EXCEPT ![i] = call],
         call = Idle \/ IsCall(call, tokens')
  PROVE  CallsInv'
<1>1. DOMAIN calls' = 1..MaxCalls
  BY DEF CallsInv
<1>2. ASSUME NEW j \in 1..MaxCalls
      PROVE  calls'[j] = Idle \/ IsCall(calls'[j], tokens')
  <2>1. CASE j = i
    BY <2>1 DEF CallsInv
  <2>2. CASE j # i
    <3>1. calls'[j] = calls[j] /\ (calls[j] = Idle \/ IsCall(calls[j], tokens))
      BY <2>2 DEF CallsInv
    <3> QED BY <3>1 DEF IsCall
  <2> QED BY <2>1, <2>2
<1> QED BY <1>1, <1>2 DEF CallsInv

LEMMA CookieKept ==
  ASSUME TypeInv, tokens' \in Nat, tokens <= tokens', cookie' = cookie
  PROVE  cookie' \in 0..tokens'
BY DEF TypeInv, AuthTypeOK, CallsInv

(* A call that is refused, or lost.                                        *)
LEMMA RefuseCalls ==
  ASSUME TypeInv, tokens' \in Nat, tokens <= tokens', cookie' = cookie,
         NEW i \in 1..MaxCalls, calls[i] # Idle, Refuse(i)
  PROVE  CallsInv'
<1> DEFINE call == [calls[i] EXCEPT !.at = "failed"]
<1>0. CallsInv /\ tokens \in Nat /\ IsCall(calls[i], tokens)
  BY DEF TypeInv, AuthTypeOK, CallsInv
<1>1. IsCall(call, tokens')
  BY <1>0 DEF IsCall
<1>2. calls' = [calls EXCEPT ![i] = call]
  BY DEF Refuse
<1> HIDE DEF call
<1> QED BY <1>0, <1>1, <1>2, CookieKept, CallSet

(* A call that is answered.                                                *)
LEMMA AnswerCalls ==
  ASSUME TypeInv, tokens' \in Nat, tokens <= tokens', cookie' = cookie,
         NEW i \in 1..MaxCalls, calls[i] # Idle, NEW answer, AnswerCall(i, answer),
         calls[i].kind = "login" => answer.token \in 0..tokens'
  PROVE  CallsInv'
<1> DEFINE call == [calls[i] EXCEPT !.at = "answered", !.answer = answer]
<1>0. CallsInv /\ tokens \in Nat /\ IsCall(calls[i], tokens)
  BY DEF TypeInv, AuthTypeOK, CallsInv
<1>1. IsCall(call, tokens')
  BY <1>0 DEF IsCall
<1>2. calls' = [calls EXCEPT ![i] = call]
  BY DEF AnswerCall
<1> HIDE DEF call
<1> QED BY <1>0, <1>1, <1>2, CookieKept, CallSet

(* A call that is sent.                                                    *)
LEMMA SendCalls ==
  ASSUME TypeInv, tokens' \in Nat, tokens <= tokens', cookie' = cookie,
         NEW i \in 1..MaxCalls, NEW kind, NEW busy, NEW arg,
         calls' = [calls EXCEPT ![i] = [Call(kind, arg) EXCEPT !.busy = busy]],
         kind \in {"login", "create", "delete"} => arg \in Users,
         kind = "settings" => arg \in BOOLEAN
  PROVE  CallsInv'
<1> DEFINE call == [Call(kind, arg) EXCEPT !.busy = busy]
<1>0. CallsInv /\ tokens \in Nat
  BY DEF TypeInv, AuthTypeOK
<1>1. IsCall(call, tokens')
  BY <1>0 DEF IsCall, Call
<1>2. calls' = [calls EXCEPT ![i] = call]
  OBVIOUS
<1> HIDE DEF call
<1> QED BY <1>0, <1>1, <1>2, CookieKept, CallSet

(* The requests keep their types whatever the daemon does with them,       *)
LEMMA ServeCalls ==
  ASSUME TypeInv, tokens' \in Nat, tokens <= tokens',
         NEW i \in 1..MaxCalls, ServeSession(i) \/ ServeGuarded(i)
  PROVE  CallsInv'
<1>0. CallsInv /\ tokens \in Nat /\ (calls[i] = Idle \/ IsCall(calls[i], tokens))
  BY DEF TypeInv, AuthTypeOK, CallsInv
<1>1. cookie' = cookie /\ calls[i] # Idle
  BY DEF ServeSession, ServeGuarded, Sent
<1>2. CASE Refuse(i)
  BY <1>1, <1>2, RefuseCalls
<1>3. CASE ServeSession(i)
  <2>1. CASE Sent(i, {"status"}) /\ AnswerCall(i, Status(calls[i].token))
    BY <1>1, <2>1, AnswerCalls DEF Sent
  <2>2. CASE Sent(i, {"login"}) /\ calls' = [calls EXCEPT ![i].at = "verified"]
    <3> DEFINE call == [calls[i] EXCEPT !.at = "verified"]
    <3>1. IsCall(call, tokens')
      BY <1>0, <2>2 DEF Sent, IsCall
    <3>2. calls' = [calls EXCEPT ![i] = call]
      BY <2>2
    <3> HIDE DEF call
    <3> QED BY <1>0, <1>1, <3>1, <3>2, CookieKept, CallSet
  <2>3. CASE AnswerCall(i, [required |-> LoginRequired, user |-> calls[i].arg, token |-> tokens'])
    <3>1. [required |-> LoginRequired, user |-> calls[i].arg, token |-> tokens'].token \in 0..tokens'
      OBVIOUS
    <3> QED BY <1>1, <2>3, <3>1, AnswerCalls
  <2>4. CASE Sent(i, {"logout"}) /\ AnswerCall(i, [required |-> LoginRequired, user |-> NoUser])
    BY <1>1, <2>4, AnswerCalls DEF Sent
  <2> QED BY <1>2, <1>3, <2>1, <2>2, <2>3, <2>4 DEF ServeSession
<1>4. CASE ServeGuarded(i) /\ ~Refuse(i)
  <2>1. calls[i].kind # "login"
    BY <1>4 DEF ServeGuarded, Sent
  <2>2. \E answer : AnswerCall(i, answer)
    BY <1>4 DEF ServeGuarded
  <2> QED BY <1>1, <2>1, <2>2, AnswerCalls
<1> QED BY <1>2, <1>3, <1>4

(* the window with the answers,                                            *)
LEMMA AnsweredCalls ==
  ASSUME TypeInv, tokens' = tokens, NEW i \in 1..MaxCalls,
         StatusAnswered(i) \/ UsersAnswered(i) \/ ExpungeAnswered(i) \/ Failed(i)
  PROVE  CallsInv'
<1>0. /\ CallsInv /\ cookie \in 0..tokens /\ calls[i] # Idle /\ IsCall(calls[i], tokens)
      /\ tokens \in Nat /\ tokens' \in Nat /\ tokens <= tokens'
  BY DEF TypeInv, AuthTypeOK, CallsInv, StatusAnswered, UsersAnswered, ExpungeAnswered, Failed
<1>1. CASE StatusAnswered(i)
  <2>1. cookie' \in 0..tokens'
    BY <1>0, <1>1 DEF StatusAnswered, IsCall
  <2>2. calls' = [calls EXCEPT ![i] = Idle]
    BY <1>1 DEF StatusAnswered, Done
  <2> QED BY <1>0, <2>1, <2>2, CallSet
<1>2. CASE UsersAnswered(i)
  <2>1. /\ cookie' = cookie
        /\ calls' = [calls EXCEPT ![i] = [Call("status", null) EXCEPT !.busy = TRUE]]
    BY <1>2 DEF UsersAnswered
  <2>2. "status" \notin {"login", "create", "delete"} /\ "status" # "settings"
    OBVIOUS
  <2> QED BY <1>0, <2>1, <2>2, SendCalls
<1>3. CASE ExpungeAnswered(i)
  <2>0. cookie' = cookie
    BY <1>3 DEF ExpungeAnswered
  <2>1. CASE Done(i)
    BY <1>0, <2>0, <2>1, CallSet DEF Done
  <2>2. ASSUME NEW arg, calls' = [calls EXCEPT ![i] = Call("expunge", arg)]
        PROVE  CallsInv'
    <3>1. IsCall(Call("expunge", arg), tokens')
      BY DEF IsCall, Call
    <3> QED BY <1>0, <2>0, <2>2, <3>1, CallSet
  <2> QED BY <1>3, <2>1, <2>2 DEF ExpungeAnswered
<1>4. CASE Failed(i)
  BY <1>0, <1>4, CallSet DEF Failed, Done
<1> QED BY <1>1, <1>2, <1>3, <1>4

(* and the user with what is asked.                                        *)
LEMMA AskCalls ==
  ASSUME TypeInv, tokens' = tokens, NEW kind, NEW busy, NEW arg, Ask(kind, busy, arg),
         kind \in {"login", "create", "delete"} => arg \in Users,
         kind = "settings" => arg \in BOOLEAN
  PROVE  CallsInv'
<1>1. PICK i \in 1..MaxCalls : calls' = [calls EXCEPT ![i] = [Call(kind, arg) EXCEPT !.busy = busy]]
  BY DEF Ask
<1>2. tokens \in Nat /\ tokens' \in Nat /\ tokens <= tokens' /\ cookie' = cookie
  BY DEF Ask, TypeInv, AuthTypeOK
<1> QED BY <1>1, <1>2, SendCalls

LEMMA CallsStep ==
  ASSUME TypeInv, [Next]_vars
  PROVE  CallsInv'
<1>0. CallsInv /\ tokens \in Nat /\ tokens' \in Nat /\ tokens <= tokens'
  BY AuthStep DEF TypeInv, AuthTypeOK
<1> USE DEF daemonVars, authVars
<1>1. CASE UNCHANGED <<calls, cookie>>
  BY <1>0, <1>1, CallsKept
<1>2. ASSUME NEW i \in 1..MaxCalls, ServeSession(i) \/ ServeGuarded(i) PROVE CallsInv'
  BY <1>0, <1>2, ServeCalls
<1>3. ASSUME NEW i \in 1..MaxCalls, Unanswered(i) \/ LoseCall(i) PROVE CallsInv'
  BY <1>0, <1>3, RefuseCalls DEF Unanswered, LoseCall
<1>4. ASSUME NEW i \in 1..MaxCalls,
             StatusAnswered(i) \/ UsersAnswered(i) \/ ExpungeAnswered(i) \/ Failed(i)
      PROVE  CallsInv'
  <2>1. tokens' = tokens
    BY <1>4 DEF StatusAnswered, UsersAnswered, ExpungeAnswered, Failed
  <2> QED BY <1>4, <2>1, AnsweredCalls
<1>5. CASE Crash
  <2>1. ASSUME NEW j \in 1..MaxCalls PROVE calls'[j] = Idle \/ IsCall(calls'[j], tokens')
    <3>1. calls[j] = Idle \/ IsCall(calls[j], tokens)
      BY <1>0 DEF CallsInv
    <3>2. calls'[j] \in {calls[j], [calls[j] EXCEPT !.at = "failed"]} /\ (calls[j] = Idle => calls'[j] = Idle)
      BY <1>5 DEF Crash
    <3> QED BY <1>0, <3>1, <3>2 DEF IsCall
  <2>2. DOMAIN calls' = 1..MaxCalls /\ cookie' \in 0..tokens'
    BY <1>0, <1>5 DEF Crash, CallsInv
  <2> QED BY <2>1, <2>2 DEF CallsInv
<1>6. CASE AtGate
  <2>1. tokens' = tokens
    BY <1>6 DEF AtGate, Ask
  <2>2. Ask("status", FALSE, null) \/ \E u \in Users : Ask("login", FALSE, u)
    BY <1>6 DEF AtGate
  <2> QED BY <2>1, <2>2, AskCalls
<1>7. CASE Manage
  <2>1. tokens' = tokens
    BY <1>7 DEF Manage, Ask
  <2>2. \/ Ask("logout", TRUE, null) \/ \E on \in BOOLEAN : Ask("settings", TRUE, on)
        \/ \E u \in Users : Ask("create", TRUE, u) \/ Ask("delete", TRUE, u)
    BY <1>7 DEF Manage
  <2> QED BY <2>1, <2>2, AskCalls
<1>8. CASE Expunge
  <2>1. tokens' = tokens
    BY <1>8 DEF Expunge, Ask
  <2>2. \E arg : Ask("expunge", FALSE, arg)
    BY <1>8 DEF Expunge
  <2> QED BY <2>1, <2>2, AskCalls
<1>9. ASSUME NEW s \in Sources, Publish(s) PROVE UNCHANGED <<calls, cookie>>
  BY <1>9 DEF Publish, windowVars
<1>10. ASSUME Join \/ OnRecord \/ Connect \/ OnError \/ Effects \/ Restart \/ Lose \/ Others
       PROVE  UNCHANGED <<calls, cookie>>
  BY <1>10 DEF Join, OnRecord, Connect, OnError, Effects, Restart, Lose, Others, windowVars
<1>11. ASSUME Clear \/ Pause \/ Block \/ SyncBlocked
       PROVE  UNCHANGED <<calls, cookie>>
  BY <1>11 DEF Clear, Pause, Block, SyncBlocked
<1>12. CASE UNCHANGED vars
  BY <1>1, <1>12 DEF vars, windowVars
<1> QED BY <1>1, <1>2, <1>3, <1>4, <1>5, <1>6, <1>7, <1>8, <1>9, <1>10, <1>11, <1>12 DEF Next, System, Requests
-----------------------------------------------------------------------------
Ids == 1..Len(taken)

(* No two rows have one id: the rows are the values of a Map.              *)
DistinctIds(rows) ==
  \A i, j \in 1..Len(rows) : i # j => taken[rows[i]].id # taken[rows[j]].id

(* The rows with a record set: no other row comes, and none goes that has  *)
(* another id.                                                             *)
LEMMA SetRows ==
  ASSUME NEW rows \in Seq(Ids), NEW n \in Ids, DistinctIds(rows)
  PROVE  /\ Set(rows, n) \in Seq(Ids) /\ DistinctIds(Set(rows, n))
         /\ Range(Set(rows, n)) \subseteq Range(rows) \cup {n}
         /\ n \in Range(Set(rows, n))
         /\ Range(rows) \subseteq Range(Set(rows, n)) \cup Replaced(rows, n)
<1> DEFINE new == Set(rows, n)
           Same(i) == taken[rows[i]].id = taken[n].id
<1>0. /\ Len(rows) \in Nat /\ \A i \in 1..Len(rows) : rows[i] \in Ids /\ rows[i] \in Range(rows)
      /\ \A x \in Range(rows) : \E i \in 1..Len(rows) : rows[i] = x
  BY ElementsOf
<1>1. CASE \E i \in 1..Len(rows) : Same(i)
  <2>1. new = [i \in 1..Len(rows) |-> IF Same(i) THEN n ELSE rows[i]]
    BY <1>1 DEF Set
  <2> HIDE DEF new
  <2>2. new \in Seq(Ids) /\ Len(new) = Len(rows)
    <3>1. new \in [1..Len(rows) -> Ids]
      BY <1>0, <2>1
    <3> QED BY <3>1, <1>0, <2>1, IsASeq, LenProperties
  <2>3. \A i \in 1..Len(rows) : new[i] = (IF Same(i) THEN n ELSE rows[i])
    BY <2>1
  <2>4. \A i \in 1..Len(rows) : taken[new[i]].id = taken[rows[i]].id
    BY <2>3
  <2>5. DistinctIds(new)
    BY <2>2, <2>4 DEF DistinctIds
  <2>6. /\ \A i \in 1..Len(rows) : new[i] \in Range(new)
        /\ \A x \in Range(new) : \E i \in 1..Len(rows) : new[i] = x
    BY <2>2, ElementsOf
  <2>7. Range(new) \subseteq Range(rows) \cup {n}
    BY <1>0, <2>3, <2>6
  <2>8. n \in Range(new)
    BY <1>1, <2>3, <2>6
  <2>9. ASSUME NEW x \in Range(rows), x \notin Range(new) PROVE x \in Replaced(rows, n)
    <3>1. PICK i \in 1..Len(rows) : rows[i] = x
      BY <1>0
    <3>2. Same(i)
      BY <2>3, <2>6, <2>9, <3>1
    <3>3. x # n
      BY <2>8, <2>9
    <3> QED BY <3>1, <3>2, <3>3 DEF Replaced
  <2> QED BY <2>2, <2>5, <2>7, <2>8, <2>9 DEF new
<1>2. CASE ~\E i \in 1..Len(rows) : Same(i)
  <2>1. new = Append(rows, n)
    BY <1>2 DEF Set
  <2> HIDE DEF new
  <2>2. /\ new \in Seq(Ids) /\ Len(new) = Len(rows) + 1
        /\ \A i \in 1..Len(rows) : new[i] = rows[i]
        /\ new[Len(rows) + 1] = n
    BY <2>1, AppendProperties
  <2>3. \A i \in 1..Len(new) : i \in 1..Len(rows) \/ i = Len(rows) + 1
    BY <1>0, <2>2
  <2>4. DistinctIds(new)
    BY <1>0, <1>2, <2>2, <2>3 DEF DistinctIds
  <2>5. /\ \A i \in 1..Len(new) : new[i] \in Range(new)
        /\ \A x \in Range(new) : \E i \in 1..Len(new) : new[i] = x
    BY <2>2, ElementsOf
  <2>6. Range(new) \subseteq Range(rows) \cup {n}
    BY <1>0, <2>2, <2>3, <2>5
  <2>7. Len(rows) + 1 \in 1..Len(new) /\ 1..Len(rows) \subseteq 1..Len(new)
    BY <1>0, <2>2
  <2>8. n \in Range(new) /\ Range(rows) \subseteq Range(new)
    BY <1>0, <2>2, <2>5, <2>7
  <2> QED BY <2>2, <2>4, <2>6, <2>8 DEF new
<1> QED BY <1>1, <1>2

(* The rows at some places keep their order and their ids.                 *)
LEMMA KeptRows ==
  ASSUME NEW rows \in Seq(Ids), DistinctIds(rows), NEW kept, kept \subseteq 1..Len(rows)
  PROVE  /\ AtPlaces(rows, kept) \in Seq(Ids) /\ DistinctIds(AtPlaces(rows, kept))
         /\ Range(AtPlaces(rows, kept)) = {rows[i] : i \in kept}
<1> DEFINE a == AtPlaces(rows, kept)
           N == Len(a)
           o == InOrder(kept)
<1>0. a \in Seq(Ids) /\ Picks(rows, kept, a)
  BY AtPlacesLists
<1> HIDE DEF a
<1>1. /\ \A k \in 1..N : o[k] \in kept /\ a[k] = rows[o[k]]
      /\ \A k, l \in 1..N : k # l => o[k] # o[l]
      /\ Range(a) = {rows[i] : i \in kept}
  BY <1>0 DEF Picks
<1> HIDE DEF N, o
<1>2. ASSUME NEW k \in 1..N, NEW l \in 1..N, k # l
      PROVE  taken[a[k]].id # taken[a[l]].id
  <2>1. o[k] \in 1..Len(rows) /\ o[l] \in 1..Len(rows) /\ o[k] # o[l]
    BY <1>1, <1>2
  <2> QED BY <1>1, <2>1 DEF DistinctIds
<1>3. DistinctIds(a)
  BY <1>1, <1>2 DEF DistinctIds, N
<1> QED BY <1>0, <1>1, <1>3 DEF a

LEMMA LenOfTaken == TypeInv => Len(taken) \in Nat
BY LenProperties DEF TypeInv, ListsInv

(* Of a source, the limit is reached by the records of a set.              *)
Enough(set, source) ==
  Cardinality({k \in set : taken[k].source = source}) >= MaxVisible

(* The places that rows of a source have.                                  *)
OfSource(rows, source) == {i \in 1..Len(rows) : taken[rows[i]].source = source}

(* Rows that are left when, of a source, there were too many.              *)
LeftOf(new, rows, source) ==
  /\ new \in Seq(Ids) /\ DistinctIds(new) /\ Range(new) \subseteq Range(rows)
  /\ \A m \in Range(rows) \ Range(new) : taken[m].source = source /\ Enough(Range(new), source)

(* The rows of a source that are left when the first of too many go are as *)
(* many as there may be.                                                   *)
LEMMA TrimRows ==
  ASSUME TypeInv, NEW rows \in Seq(Ids), DistinctIds(rows), NEW source
  PROVE  LeftOf(Trim(rows, OfSource(rows, source)), rows, source)
<1> DEFINE ps == {i \in 1..Len(rows) : taken[rows[i]].source = source}
           drop == Cardinality(ps) - MaxVisible
           left == {i \in ps : Place(ps, i) > drop}
           kept == {i \in 1..Len(rows) : i \in ps => Place(ps, i) > drop}
           new == Trim(rows, ps)
<1>0. /\ Len(rows) \in Nat /\ \A i \in 1..Len(rows) : rows[i] \in Ids /\ rows[i] \in Range(rows)
      /\ \A x \in Range(rows) : \E i \in 1..Len(rows) : rows[i] = x
  BY ElementsOf
<1>1. new = AtPlaces(rows, kept)
  BY DEF Trim
<1>2. ps \subseteq 1..Len(rows) /\ ps \subseteq Nat /\ kept \subseteq 1..Len(rows) /\ left \subseteq kept
  OBVIOUS
<1>3. IsFiniteSet(ps)
  <2>1. IsFiniteSet(1..Len(rows))
    BY <1>0, FS_Interval
  <2> HIDE DEF ps
  <2> QED BY <1>2, <2>1, FS_Subset
<1>4. Cardinality(ps) \in Nat /\ \A i \in ps : Place(ps, i) \in 1..Cardinality(ps)
  BY <1>2, <1>3, PlacesCount
<1>5. new \in Seq(Ids) /\ DistinctIds(new) /\ Range(new) = {rows[i] : i \in kept}
  BY <1>1, <1>2, KeptRows
<1>6. Range(new) \subseteq Range(rows)
  BY <1>0, <1>2, <1>5
<1>7. \A i \in 1..Len(rows) : i \notin kept => i \in ps /\ taken[rows[i]].source = source
  OBVIOUS
<1>8. ASSUME drop > 0
      PROVE  Enough(Range(new), source)
  <2> DEFINE shown == {k \in Range(new) : taken[k].source = source}
             g == [i \in left |-> rows[i]]
  <2>1. drop \in Nat /\ drop <= Cardinality(ps) /\ Cardinality(ps) - drop = MaxVisible
    BY <1>4, <1>8, ViewerAssumption
  <2> HIDE DEF drop
  <2>2. Cardinality(left) = MaxVisible
    <3> HIDE DEF ps
    <3> QED BY <1>2, <1>3, <2>1, AllButFirst
  <2>3. \A i \in left : rows[i] \in shown
    BY <1>2, <1>5
  <2>4. \A i, j \in left : rows[i] = rows[j] => i = j
    BY <1>2 DEF DistinctIds
  <2>5. IsFiniteSet(shown)
    <3>1. IsFiniteSet(Ids)
      BY LenOfTaken, FS_Interval DEF Ids
    <3>2. shown \subseteq Ids
      BY <1>5, ElementsOf
    <3> QED BY <3>1, <3>2, FS_Subset
  <2>6. g \in Injection(left, shown)
    <3> HIDE DEF left, shown
    <3> QED BY <2>3, <2>4 DEF Injection, IsInjective
  <2>7. Cardinality(left) <= Cardinality(shown)
    <3> HIDE DEF left, shown, g
    <3> QED BY <2>5, <2>6, FS_Injection
  <2>8. Cardinality(shown) \in Nat
    BY <2>5, FS_CardinalityType
  <2> QED BY <2>2, <2>7, <2>8, ViewerAssumption DEF Enough
<1>9. ASSUME NEW m \in Range(rows), m \notin Range(new)
      PROVE  taken[m].source = source /\ drop > 0
  <2>1. PICK i \in 1..Len(rows) : rows[i] = m
    BY <1>0
  <2>2. i \notin kept
    BY <1>5, <1>9, <2>1
  <2>3. i \in ps /\ ~(Place(ps, i) > drop)
    BY <2>2
  <2>4. drop \in Int
    BY <1>4, ViewerAssumption
  <2> HIDE DEF drop
  <2> QED BY <1>4, <1>7, <2>1, <2>2, <2>3, <2>4
<1> HIDE DEF ps, new, drop, kept
<1>10. \A m \in Range(rows) \ Range(new) : taken[m].source = source /\ Enough(Range(new), source)
  BY <1>8, <1>9
<1>11. LeftOf(new, rows, source)
  BY <1>5, <1>6, <1>10 DEF LeftOf
<1> QED BY <1>11 DEF ps, new, OfSource

(* mergeRecord: a row that goes is of the record's id, or gave way to as   *)
(* many rows of its source as there may be.                                *)
LEMMA MergeRows ==
  ASSUME TypeInv, NEW rows \in Seq(Ids), NEW n \in Ids, DistinctIds(rows)
  PROVE  /\ MergeRecord(rows, n) \in Seq(Ids) /\ DistinctIds(MergeRecord(rows, n))
         /\ Range(MergeRecord(rows, n)) \subseteq Range(rows) \cup {n}
         /\ \A m \in (Range(rows) \cup {n}) \ Range(MergeRecord(rows, n)) :
              \/ m \in Replaced(rows, n)
              \/ /\ taken[m].source = taken[n].source
                 /\ Enough(Range(MergeRecord(rows, n)), taken[m].source)
<1> DEFINE all == Set(rows, n)
           source == taken[n].source
           new == MergeRecord(rows, n)
<1>1. /\ all \in Seq(Ids) /\ DistinctIds(all) /\ Range(all) \subseteq Range(rows) \cup {n}
      /\ n \in Range(all) /\ Range(rows) \subseteq Range(all) \cup Replaced(rows, n)
  BY SetRows
<1>2. new = Trim(all, OfSource(all, source))
  BY DEF MergeRecord, OfSource
<1> HIDE DEF all, source, new
<1>3. LeftOf(new, all, source)
  BY <1>1, <1>2, TrimRows
<1>4. \A m \in (Range(rows) \cup {n}) \ Range(new) :
        m \in Replaced(rows, n) \/ (taken[m].source = source /\ Enough(Range(new), taken[m].source))
  BY <1>1, <1>3 DEF LeftOf
<1> QED BY <1>1, <1>3, <1>4 DEF new, source, LeftOf
-----------------------------------------------------------------------------
(* What a step may do to the lists of records: nothing, but for the ring;  *)
Quiet ==
  /\ UNCHANGED <<taken, records, lost, pipe>>
  /\ ring' \subseteq ring /\ next' \in {next, 1}
  /\ serving' # "none" => serving # "none"

(* end the stream;                                                         *)
Cutting ==
  /\ UNCHANGED <<taken, records, lost>> /\ Cut
  /\ ring' \subseteq ring /\ next' \in {next, 1}

(* remove rows, and perhaps close the stream;                              *)
Dropping ==
  /\ UNCHANGED <<taken, ring, next>>
  /\ \E sources : Drop(sources)
  /\ UNCHANGED <<pipe, serving>> \/ Close

(* or what Publish, OnRecord and Connect do.                               *)
Moves ==
  \/ Quiet \/ Cutting \/ Dropping
  \/ (\E s \in Sources : Publish(s)) \/ OnRecord \/ Connect

LEMMA QuietSteps ==
  \/ Join \/ OnError \/ Restart \/ Others \/ AtGate \/ Manage \/ Expunge \/ Pause \/ SyncBlocked
  \/ \E i \in 1..MaxCalls :
       \/ ServeSession(i) \/ ServeGuarded(i) \/ Unanswered(i) \/ UsersAnswered(i) \/ Failed(i)
       \/ LoseCall(i)
  => Quiet
<1> USE DEF Quiet, daemonVars, streamVars, windowVars, viewVars
<1>1. Join \/ OnError \/ Restart \/ Others => Quiet
  BY DEF Join, OnError, Restart, Others
<1>2. AtGate \/ Manage \/ Expunge => Quiet
  BY DEF AtGate, Manage, Expunge, Ask
<1>3. Pause \/ SyncBlocked => Quiet
  BY DEF Pause, SyncBlocked
<1>4. ASSUME NEW i \in 1..MaxCalls, ServeSession(i) \/ ServeGuarded(i) PROVE Quiet
  BY <1>4 DEF ServeSession, ServeGuarded
<1>5. ASSUME NEW i \in 1..MaxCalls, Unanswered(i) \/ UsersAnswered(i) \/ Failed(i) \/ LoseCall(i) PROVE Quiet
  BY <1>5 DEF Unanswered, UsersAnswered, Failed, LoseCall
<1> QED BY <1>1, <1>2, <1>3, <1>4, <1>5

LEMMA ListMoves == [Next]_vars => Moves
<1> SUFFICES ASSUME [Next]_vars PROVE Moves
  OBVIOUS
<1> USE DEF daemonVars, streamVars, windowVars, viewVars
<1>1. UNCHANGED vars => Quiet
  BY DEF vars, Quiet
<1>2. Lose \/ Crash => Cutting
  BY DEF Lose, Crash, Cutting
<1>3. Clear => Dropping
  BY DEF Clear, ClearRows, Dropping
<1>4. Block => Quiet \/ Dropping
  BY DEF Block, Quiet, Dropping
<1>5. Effects => Dropping
  BY DEF Effects, Dropping
<1>6. ASSUME NEW i \in 1..MaxCalls, StatusAnswered(i) \/ ExpungeAnswered(i) PROVE Quiet \/ Dropping
  BY <1>6 DEF StatusAnswered, ExpungeAnswered, ClearRows, Quiet, Dropping
<1> QED BY <1>1, <1>2, <1>3, <1>4, <1>5, <1>6, QuietSteps DEF Next, System, Requests, Moves
-----------------------------------------------------------------------------
(* The rows are told apart by their ids.                                   *)
RowsInv == DistinctIds(records)

LEMMA QuietLists ==
  ASSUME TypeInv, RowsInv, Quiet
  PROVE  ListsInv' /\ RowsInv'
<1>1. /\ UNCHANGED <<taken, records, lost, pipe>> /\ ring' \subseteq ring /\ next' \in {next, 1}
      /\ ListsInv /\ RowsInv
  BY DEF Quiet, TypeInv
<1>2. next' \in Nat
  BY <1>1 DEF ListsInv
<1> QED BY <1>1, <1>2 DEF ListsInv, RowsInv, DistinctIds

LEMMA CuttingLists ==
  ASSUME TypeInv, RowsInv, Cutting
  PROVE  ListsInv' /\ RowsInv'
<1>1. /\ UNCHANGED <<taken, records, lost>> /\ ring' \subseteq ring /\ next' \in {next, 1}
      /\ ListsInv /\ RowsInv
  BY DEF Cutting, TypeInv
<1>2. next' \in Nat
  BY <1>1 DEF ListsInv
<1>3. PICK n \in 0..Len(pipe) : pipe' = SubSeq(pipe, 1, n)
  BY DEF Cutting, Cut
<1>4. pipe \in Seq(Ids)
  BY <1>1 DEF ListsInv, Ids
<1>5. pipe' \in Seq(Ids)
  <2>1. n \in Int /\ 1 \in Int /\ \A i \in 1..n : pipe[i] \in Ids
    BY <1>4, ElementsOf
  <2> QED BY <1>3, <2>1, SubSeqProperties
<1> QED BY <1>1, <1>2, <1>5 DEF ListsInv, RowsInv, DistinctIds, Ids

(* What a window knows of: the rows it shows, and the records it will not  *)
(* show.                                                                   *)
Known == lost \cup Range(records)

(* Drop takes the rows of the sources and no other.                        *)
LEMMA DropRows ==
  ASSUME TypeInv, RowsInv, NEW sources, Drop(sources)
  PROVE  /\ records' \in Seq(Ids) /\ DistinctIds(records') /\ lost' \subseteq Ids
         /\ \A n \in Range(records') : n \in Range(records) /\ taken[n].source \notin sources
         /\ lost' \cup Range(records') = Known
<1> DEFINE kept == {i \in 1..Len(records) : taken[records[i]].source \notin sources}
<1>1. records \in Seq(Ids) /\ lost \subseteq Ids
  BY DEF TypeInv, ListsInv, Ids
<1>2. records' = AtPlaces(records, kept) /\ lost' = lost \cup (Records(sources) \cap Range(records))
  BY DEF Drop
<1>3. kept \subseteq 1..Len(records) /\ DistinctIds(records)
  BY DEF RowsInv
<1>4. /\ \A i \in 1..Len(records) : records[i] \in Ids /\ records[i] \in Range(records)
      /\ \A x \in Range(records) : \E i \in 1..Len(records) : records[i] = x
  BY <1>1, ElementsOf
<1> HIDE DEF kept
<1>5. /\ AtPlaces(records, kept) \in Seq(Ids) /\ DistinctIds(AtPlaces(records, kept))
      /\ Range(AtPlaces(records, kept)) = {records[i] : i \in kept}
  BY <1>1, <1>3, KeptRows
<1>6. Range(records') = {records[i] : i \in kept}
  BY <1>2, <1>5
<1> USE DEF kept
<1>7. \A n \in Range(records') : n \in Range(records) /\ taken[n].source \notin sources
  BY <1>4, <1>6
<1>8. \A n \in Range(records) : n \in Range(records') \/ n \in Records(sources)
  BY <1>4, <1>6 DEF Records, Ids
<1>9. lost' \cup Range(records') = Known
  BY <1>2, <1>7, <1>8 DEF Known
<1>10. lost' \subseteq Ids
  BY <1>1, <1>2, <1>4
<1> QED BY <1>2, <1>5, <1>7, <1>9, <1>10

LEMMA DroppingLists ==
  ASSUME TypeInv, RowsInv, Dropping
  PROVE  ListsInv' /\ RowsInv'
<1>1. UNCHANGED <<taken, ring, next>> /\ ListsInv
  BY DEF Dropping, TypeInv
<1>2. PICK sources : Drop(sources)
  BY DEF Dropping
<1>3. records' \in Seq(Ids) /\ DistinctIds(records') /\ lost' \subseteq Ids
  BY <1>2, DropRows
<1>4. pipe' \in Seq(1..Len(taken))
  <2>1. pipe' = pipe \/ pipe' = <<>>
    BY DEF Dropping, Close
  <2> QED BY <1>1, <2>1, EmptySeq DEF ListsInv
<1> QED BY <1>1, <1>3, <1>4 DEF ListsInv, RowsInv, DistinctIds, Ids

(* A record that is published is the last of all; the others stay.         *)
LEMMA PublishTakes ==
  ASSUME TypeInv, NEW s \in Sources, Publish(s)
  PROVE  /\ taken' \in Seq([id : Nat, source : Sources]) /\ Len(taken') = Len(taken) + 1
         /\ Len(taken) \in Nat /\ \A k \in Ids : k \in Ids' /\ taken'[k] = taken[k]
<1> DEFINE T == [id : Nat, source : Sources]
<1>1. taken \in Seq(T) /\ taken' = Append(taken, [id |-> next, source |-> s])
  BY DEF TypeInv, ListsInv, Publish
<1>2. [id |-> next, source |-> s] \in T
  BY DEF TypeInv, ListsInv
<1> HIDE DEF T
<1>3. taken' \in Seq(T) /\ Len(taken') = Len(taken) + 1 /\ \A k \in 1..Len(taken) : taken'[k] = taken[k]
  BY <1>1, <1>2, AppendProperties
<1>4. Len(taken) \in Nat
  BY LenOfTaken
<1> QED BY <1>3, <1>4 DEF T, Ids

LEMMA PublishLists ==
  ASSUME TypeInv, RowsInv, NEW s \in Sources, Publish(s)
  PROVE  ListsInv' /\ RowsInv'
<1> DEFINE n == Len(taken')
<1>1. /\ taken' \in Seq([id : Nat, source : Sources]) /\ n = Len(taken) + 1 /\ Len(taken) \in Nat
      /\ \A k \in Ids : k \in Ids' /\ taken'[k] = taken[k]
  BY PublishTakes
<1>2. /\ next' = next + 1 /\ ring' \subseteq ring \cup {n} /\ records' = records
      /\ \/ pipe' = Append(pipe, n) /\ lost' = lost
         \/ pipe' = pipe /\ lost' = lost \cup {n}
  BY DEF Publish, Retain, windowVars, viewVars
<1>3. ListsInv /\ ring \subseteq Ids /\ lost \subseteq Ids /\ pipe \in Seq(Ids) /\ records \in Seq(Ids)
  BY DEF TypeInv, ListsInv, Ids
<1>4. n \in Ids' /\ Ids \subseteq Ids' /\ Seq(Ids) \subseteq Seq(Ids')
  <2>1. n \in Ids' /\ Ids \subseteq Ids'
    BY <1>1 DEF Ids
  <2>2. ASSUME NEW q \in Seq(Ids) PROVE q \in Seq(Ids')
    <3>1. Len(q) \in Nat /\ q \in [1..Len(q) -> Ids]
      BY LenProperties
    <3>2. q \in [1..Len(q) -> Ids']
      BY <2>1, <3>1
    <3> QED BY <3>1, <3>2
  <2> QED BY <2>1, <2>2
<1> HIDE DEF n
<1>5. pipe' \in Seq(Ids')
  <2>1. pipe \in Seq(Ids')
    BY <1>3, <1>4
  <2>2. Append(pipe, n) \in Seq(Ids')
    BY <1>4, <2>1, AppendProperties
  <2> QED BY <1>2, <2>1, <2>2
<1>6. next' \in Nat
  BY <1>2, <1>3 DEF ListsInv
<1>7. ListsInv'
  BY <1>1, <1>2, <1>3, <1>4, <1>5, <1>6 DEF ListsInv, Ids
<1>8. RowsInv'
  <2>1. \A i \in 1..Len(records) : records[i] \in Ids
    BY <1>3, ElementsOf
  <2>2. ASSUME NEW i \in 1..Len(records), NEW j \in 1..Len(records), i # j
        PROVE  taken'[records[i]].id # taken'[records[j]].id
    <3>1. taken'[records[i]] = taken[records[i]] /\ taken'[records[j]] = taken[records[j]]
      BY <1>1, <2>1
    <3>2. taken[records[i]].id # taken[records[j]].id
      BY <2>2 DEF RowsInv, DistinctIds
    <3> QED BY <3>1, <3>2
  <2> QED BY <1>2, <2>2 DEF RowsInv, DistinctIds
<1> QED BY <1>7, <1>8

(* What the record that comes next does to the rows.                       *)
Shows(n) ==
  /\ n \in Ids /\ pipe \in Seq(Ids) /\ pipe # <<>> /\ n = Head(pipe) /\ pipe' = Tail(pipe)
  /\ \/ records' = records /\ lost' = lost \cup {n}
     \/ records' = MergeRecord(records, n) /\ lost' = lost \cup Replaced(records, n)

LEMMA OnRecordShows ==
  ASSUME TypeInv, OnRecord
  PROVE  /\ UNCHANGED <<taken, ring, next, serving>>
         /\ Shows(Head(pipe))
<1>1. pipe \in Seq(Ids)
  BY DEF TypeInv, ListsInv, Ids
<1>2. pipe # <<>>
  BY DEF OnRecord
<1>3. Head(pipe) \in Ids
  BY <1>1, <1>2, HeadTailProperties
<1> QED BY <1>1, <1>2, <1>3 DEF OnRecord, daemonVars, Shows

LEMMA OnRecordLists ==
  ASSUME TypeInv, RowsInv, OnRecord
  PROVE  ListsInv' /\ RowsInv'
<1>1. UNCHANGED <<taken, ring, next>> /\ ListsInv
  BY OnRecordShows DEF TypeInv
<1>2. PICK n : Shows(n)
  BY OnRecordShows
<1>3. pipe' \in Seq(Ids)
  BY <1>2, HeadTailProperties DEF Shows
<1>4. records \in Seq(Ids) /\ DistinctIds(records) /\ n \in Ids /\ lost \subseteq Ids
  BY <1>1, <1>2 DEF ListsInv, RowsInv, Shows, Ids
<1>5. MergeRecord(records, n) \in Seq(Ids) /\ DistinctIds(MergeRecord(records, n))
  BY <1>4, MergeRows
<1>6. Replaced(records, n) \subseteq Ids
  BY <1>4, ElementsOf DEF Replaced
<1>7. records' \in Seq(Ids) /\ DistinctIds(records') /\ lost' \subseteq Ids
  BY <1>2, <1>4, <1>5, <1>6 DEF Shows
<1> QED BY <1>1, <1>3, <1>7 DEF ListsInv, RowsInv, DistinctIds, Ids

(* The stream that opens brings all of the ring.                           *)
LEMMA ReplayIsTheRing ==
  ASSUME TypeInv
  PROVE  InOrder(ring) \in Seq(Ids) /\ Range(InOrder(ring)) = ring
<1>1. ring \subseteq Ids /\ Len(taken) \in Nat
  BY LenOfTaken DEF TypeInv, ListsInv, Ids
<1>2. ring \subseteq Nat /\ IsFiniteSet(ring)
  <2>1. IsFiniteSet(Ids) /\ Ids \subseteq Nat
    BY <1>1, FS_Interval DEF Ids
  <2> QED BY <1>1, <2>1, FS_Subset
<1>3. /\ InOrder(ring) \in [1..Cardinality(ring) -> ring]
      /\ \A n \in ring : InOrder(ring)[Place(ring, n)] = n
  BY <1>2, InOrderLists
<1>4. Cardinality(ring) \in Nat /\ \A n \in ring : Place(ring, n) \in 1..Cardinality(ring)
  BY <1>2, PlacesCount
<1>5. InOrder(ring) \in Seq(Ids)
  BY <1>1, <1>3, <1>4
<1>6. Range(InOrder(ring)) = ring
  BY <1>3, <1>4 DEF Range
<1> QED BY <1>5, <1>6

LEMMA ConnectLists ==
  ASSUME TypeInv, RowsInv, Connect
  PROVE  ListsInv' /\ RowsInv'
<1>1. /\ UNCHANGED <<taken, ring, next, records>> /\ ListsInv /\ RowsInv
      /\ \/ pipe' = InOrder(ring) /\ lost' = {}
         \/ UNCHANGED <<pipe, lost>>
  BY DEF Connect, windowVars, viewVars, TypeInv
<1>2. InOrder(ring) \in Seq(Ids)
  BY ReplayIsTheRing
<1> QED BY <1>1, <1>2 DEF ListsInv, RowsInv, DistinctIds, Ids

LEMMA ListsStep ==
  ASSUME TypeInv, RowsInv, [Next]_vars
  PROVE  ListsInv' /\ RowsInv'
BY ListMoves, QuietLists, CuttingLists, DroppingLists, PublishLists, OnRecordLists, ConnectLists
   DEF Moves
-----------------------------------------------------------------------------
LEMMA StreamKept ==
  ASSUME StreamInv, paused' = paused, [Next]_vars
  PROVE  StreamInv'
<1> USE DEF StreamInv, daemonVars, streamVars, windowVars, viewVars
<1>1. Join \/ OnRecord \/ Connect \/ OnError => StreamInv'
  BY DEF Join, OnRecord, Connect, OnError
<1>2. Effects => StreamInv'
  BY DEF Effects, Close
<1>3. Restart \/ Lose \/ Crash \/ Others => StreamInv'
  BY DEF Restart, Lose, Crash, Others, Cut
<1>4. AtGate \/ Manage \/ Expunge => StreamInv'
  BY DEF AtGate, Manage, Expunge, Ask
<1>5. Clear \/ Pause \/ Block \/ SyncBlocked => StreamInv'
  BY DEF Clear, Pause, Block, SyncBlocked
<1>6. ASSUME NEW s \in Sources, Publish(s) PROVE StreamInv'
  BY <1>6 DEF Publish
<1>7. ASSUME NEW i \in 1..MaxCalls, ServeSession(i) \/ ServeGuarded(i) PROVE StreamInv'
  BY <1>7 DEF ServeSession, ServeGuarded
<1>8. ASSUME NEW i \in 1..MaxCalls, Unanswered(i) \/ UsersAnswered(i) \/ Failed(i) \/ LoseCall(i)
      PROVE  StreamInv'
  BY <1>8 DEF Unanswered, UsersAnswered, Failed, LoseCall
<1>9. ASSUME NEW i \in 1..MaxCalls, StatusAnswered(i) \/ ExpungeAnswered(i) PROVE StreamInv'
  BY <1>9 DEF StatusAnswered, ExpungeAnswered
<1>10. UNCHANGED vars => StreamInv'
  BY DEF vars
<1> QED BY <1>1, <1>2, <1>3, <1>4, <1>5, <1>6, <1>7, <1>8, <1>9, <1>10 DEF Next, System, Requests

LEMMA PausedMoves == [Next]_vars => paused' = paused \/ Pause
<1> SUFFICES ASSUME [Next]_vars PROVE paused' = paused \/ Pause
  OBVIOUS
<1> USE DEF daemonVars, streamVars, windowVars, viewVars
<1>1. Join \/ OnRecord \/ Connect \/ OnError \/ Effects \/ UNCHANGED vars => paused' = paused
  BY DEF Join, OnRecord, Connect, OnError, Effects, vars
<1>2. Restart \/ Lose \/ Crash \/ Others => paused' = paused
  BY DEF Restart, Lose, Crash, Others
<1>3. AtGate \/ Manage \/ Expunge \/ Clear \/ Block \/ SyncBlocked => paused' = paused
  BY DEF AtGate, Manage, Expunge, Ask, Clear, Block, SyncBlocked
<1>4. ASSUME NEW s \in Sources, Publish(s) PROVE paused' = paused
  BY <1>4 DEF Publish
<1>5. ASSUME NEW i \in 1..MaxCalls, ServeSession(i) \/ ServeGuarded(i) PROVE paused' = paused
  BY <1>5 DEF ServeSession, ServeGuarded
<1>6. ASSUME NEW i \in 1..MaxCalls, Unanswered(i) \/ UsersAnswered(i) \/ Failed(i) \/ LoseCall(i)
      PROVE  paused' = paused
  BY <1>6 DEF Unanswered, UsersAnswered, Failed, LoseCall
<1>7. ASSUME NEW i \in 1..MaxCalls, StatusAnswered(i) \/ ExpungeAnswered(i) PROVE paused' = paused
  BY <1>7 DEF StatusAnswered, ExpungeAnswered
<1> QED BY <1>1, <1>2, <1>3, <1>4, <1>5, <1>6, <1>7 DEF Next, System, Requests

LEMMA StreamStep ==
  ASSUME StreamInv, [Next]_vars
  PROVE  StreamInv'
<1>1. CASE Pause
  <2>1. paused' \in BOOLEAN
    BY <1>1 DEF Pause, StreamInv, viewVars
  <2>2. UNCHANGED <<daemon, serving, stream, connection>>
    BY <1>1 DEF Pause, daemonVars, streamVars
  <2> QED BY <2>1, <2>2 DEF StreamInv
<1> QED BY <1>1, PausedMoves, StreamKept

(* What a step may do to what the user has chosen.                         *)
LEMMA ViewStep ==
  ASSUME ViewInv, [Next]_vars
  PROVE  ViewInv'
<1> USE DEF daemonVars, streamVars, windowVars, viewVars
<1>1. CASE UNCHANGED <<pausedSources, blockedSources, blockedSourcesRef, ran>>
  BY <1>1 DEF ViewInv
<1>2. CASE Pause
  BY <1>2 DEF Pause, ViewInv, SymDiff
<1>3. CASE Effects
  BY <1>3 DEF Effects, ViewInv, Dependencies
<1>4. CASE Clear
  <2>1. PICK clear : ClearRows(clear)
    BY <1>4 DEF Clear
  <2> QED BY <1>4, <2>1 DEF Clear, ClearRows, ViewInv
<1>5. CASE Block \/ SyncBlocked
  BY <1>5 DEF Block, SyncBlocked, SetBlockedSources, ViewInv
<1>6. ASSUME NEW i \in 1..MaxCalls, StatusAnswered(i) \/ ExpungeAnswered(i) PROVE ViewInv'
  <2>1. UNCHANGED <<blockedSources, blockedSourcesRef, ran>> /\ pausedSources' \subseteq pausedSources
    BY <1>6 DEF StatusAnswered, ExpungeAnswered, ClearRows
  <2> QED BY <2>1 DEF ViewInv
<1>7. Join \/ OnRecord \/ Connect \/ OnError \/ Restart \/ Lose \/ Crash \/ Others => ViewInv'
  BY <1>1 DEF Join, OnRecord, Connect, OnError, Restart, Lose, Crash, Others
<1>8. AtGate \/ Manage \/ Expunge \/ UNCHANGED vars => ViewInv'
  BY <1>1 DEF AtGate, Manage, Expunge, Ask, vars
<1>9. ASSUME NEW s \in Sources, Publish(s) PROVE ViewInv'
  BY <1>1, <1>9 DEF Publish
<1>10. ASSUME NEW i \in 1..MaxCalls, ServeSession(i) \/ ServeGuarded(i) PROVE ViewInv'
  BY <1>1, <1>10 DEF ServeSession, ServeGuarded
<1>11. ASSUME NEW i \in 1..MaxCalls, Unanswered(i) \/ UsersAnswered(i) \/ Failed(i) \/ LoseCall(i)
       PROVE  ViewInv'
  BY <1>1, <1>11 DEF Unanswered, UsersAnswered, Failed, LoseCall
<1> QED BY <1>2, <1>3, <1>4, <1>5, <1>6, <1>7, <1>8, <1>9, <1>10, <1>11 DEF Next, System, Requests
-----------------------------------------------------------------------------
LEMMA InitAuth == Init => AuthTypeOK
<1> SUFFICES ASSUME Init PROVE AuthTypeOK
  OBVIOUS
<1>1. users \in SUBSET Users /\ loginEnabled \in BOOLEAN
  BY DEF Init, AuthInit
<1>2. CASE tokens = 0 /\ sessions = <<>>
  BY <1>1, <1>2 DEF AuthTypeOK
<1>3. CASE tokens = 1 /\ \E u \in users : sessions = [t \in {1} |-> u]
  BY <1>1, <1>3 DEF AuthTypeOK
<1> QED BY <1>2, <1>3 DEF Init, AuthInit

LEMMA InitTypes == Init => TypeInv /\ RowsInv
<1> SUFFICES ASSUME Init PROVE TypeInv /\ RowsInv
  OBVIOUS
<1>1. AuthTypeOK
  BY InitAuth
<1>2. ListsInv
  <2>1. /\ taken = <<>> /\ next = 1 /\ ring = {} /\ lost = {} /\ pipe = <<>> /\ records = <<>>
        /\ \A T : <<>> \in Seq(T)
    BY EmptySeq DEF Init
  <2> QED BY <2>1 DEF ListsInv
<1>3. RowsInv
  <2>1. records = <<>> /\ Len(records) = 0
    BY EmptySeq DEF Init
  <2> QED BY <2>1 DEF RowsInv, DistinctIds
<1>4. StreamInv
  BY DEF Init, StreamInv
<1>5. ViewInv
  BY DEF Init, ViewInv, Dependencies
<1>6. CallsInv
  <2>1. cookie = tokens /\ tokens \in Nat
    BY <1>1 DEF Init, AuthTypeOK
  <2>2. IsCall(Call("status", null), tokens)
    BY DEF IsCall, Call
  <2>3. calls = [i \in 1..MaxCalls |-> IF i = 1 THEN Call("status", null) ELSE Idle]
    BY DEF Init
  <2> QED BY <2>1, <2>2, <2>3 DEF CallsInv
<1> QED BY <1>1, <1>2, <1>3, <1>4, <1>5, <1>6 DEF TypeInv

LEMMA TypeStep == TypeInv /\ RowsInv /\ [Next]_vars => TypeInv' /\ RowsInv'
BY AuthStep, ListsStep, StreamStep, ViewStep, CallsStep DEF TypeInv

LEMMA Typed == Spec => [](TypeInv /\ RowsInv)
<1>1. Init => TypeInv /\ RowsInv
  BY InitTypes
<1>2. (TypeInv /\ RowsInv) /\ [Next]_vars => (TypeInv /\ RowsInv)'
  BY TypeStep
<1> QED BY <1>1, <1>2, PTL DEF Spec

(* The variables have their types, however many users, sources, records    *)
(* and requests there are (App.tsx, auth.go).                              *)
THEOREM TypeCorrect == Spec => []TypeOK
<1>1. TypeInv => TypeOK
  <2> SUFFICES ASSUME TypeInv PROVE TypeOK
    OBVIOUS
  <2>1. Range(pipe) \cup Range(records) \subseteq 1..Len(taken)
    BY ElementsOf DEF TypeInv, ListsInv
  <2>2. /\ ring \subseteq 1..Len(taken) /\ lost \subseteq 1..Len(taken) /\ cookie \in 0..tokens
        /\ {pausedSources, blockedSources, blockedSourcesRef} \subseteq SUBSET Sources
    BY DEF TypeInv, ListsInv, CallsInv, ViewInv
  <2> QED BY <2>1, <2>2 DEF TypeOK, TypeInv, StreamInv
<1> QED BY <1>1, Typed, PTL
-----------------------------------------------------------------------------
(* What the window will show of the ring: what it knows of, what is on its *)
(* way, and as many records of a source as there may be rows of it.        *)
Expected(n) == \/ n \in Known \/ n \in Range(pipe) \/ Enough(Known, taken[n].source)

Awaited == serving # "none" => \A n \in ring : Expected(n)

LEMMA MoreIsEnough ==
  ASSUME NEW A, NEW B, IsFiniteSet(B), A \subseteq B, Cardinality(A) >= MaxVisible
  PROVE  Cardinality(B) >= MaxVisible
<1>1. IsFiniteSet(A) /\ Cardinality(A) <= Cardinality(B)
  BY FS_Subset
<1>2. Cardinality(A) \in Nat /\ Cardinality(B) \in Nat
  BY <1>1, FS_CardinalityType
<1> QED BY <1>1, <1>2, ViewerAssumption

(* Enough of a source are as many among more records.                      *)
LEMMA EnoughOfMore ==
  ASSUME TypeInv, NEW A, NEW B, B \subseteq Ids, NEW source, Enough(A, source),
         \A k \in A : taken[k].source = source => k \in B
  PROVE  Enough(B, source)
<1> DEFINE P == {k \in A : taken[k].source = source}
           Q == {k \in B : taken[k].source = source}
<1>1. P \subseteq Q /\ Q \subseteq Ids /\ Cardinality(P) >= MaxVisible
  BY DEF Enough
<1>2. IsFiniteSet(Ids)
  BY LenOfTaken, FS_Interval DEF Ids
<1> HIDE DEF P
<1>3. IsFiniteSet(Q)
  <2> HIDE DEF Q
  <2> QED BY <1>1, <1>2, FS_Subset
<1>4. Cardinality(Q) >= MaxVisible
  <2> HIDE DEF Q
  <2> QED BY <1>1, <1>3, MoreIsEnough
<1> QED BY <1>4 DEF Enough

(* Where no row goes that was not replaced and no record comes, the ring   *)
(* can only shrink.                                                        *)
LEMMA SettledKeeps ==
  ASSUME Awaited, taken' = taken, pipe' = pipe, Known' = Known, ring' \subseteq ring,
         serving' # "none" => serving # "none"
  PROVE  Awaited'
BY DEF Awaited, Expected, Enough

LEMMA PublishKeeps ==
  ASSUME TypeInv, Awaited, NEW s \in Sources, Publish(s)
  PROVE  Awaited'
<1>0. PICK n : n = Len(taken')
  OBVIOUS
<1>1. n = Len(taken) + 1 /\ Len(taken) \in Nat /\ \A k \in Ids : k \in Ids' /\ taken'[k] = taken[k]
  BY <1>0, PublishTakes
<1>2. /\ ring' \subseteq ring \cup {n} /\ records' = records /\ serving' = serving
      /\ \/ pipe' = Append(pipe, n) /\ lost' = lost
         \/ pipe' = pipe /\ lost' = lost \cup {n}
  BY <1>0 DEF Publish, Retain, windowVars, viewVars
<1>3. pipe \in Seq(Ids) /\ ring \subseteq Ids /\ Known \subseteq Ids
  <2>1. pipe \in Seq(Ids) /\ records \in Seq(Ids) /\ ring \subseteq Ids /\ lost \subseteq Ids
    BY DEF TypeInv, ListsInv, Ids
  <2>2. Range(records) \subseteq Ids
    BY <2>1, ElementsOf
  <2> QED BY <2>1, <2>2 DEF Known
<1>4. Ids' = Ids \cup {n}
  BY <1>0, <1>1 DEF Ids
<1>5. Range(pipe) \subseteq Range(pipe') /\ (n \in Range(pipe') \/ n \in Known')
  <2>1. CASE pipe' = pipe /\ lost' = lost \cup {n}
    BY <2>1 DEF Known
  <2>2. CASE pipe' = Append(pipe, n)
    <3>1. pipe \in Seq(Ids \cup {n})
      <4>1. Len(pipe) \in Nat /\ pipe \in [1..Len(pipe) -> Ids]
        BY <1>3, LenProperties
      <4> QED BY <4>1
    <3>2. /\ pipe' \in Seq(Ids \cup {n}) /\ Len(pipe') = Len(pipe) + 1 /\ Len(pipe) \in Nat
          /\ \A i \in 1..Len(pipe) : pipe'[i] = pipe[i]
          /\ pipe'[Len(pipe) + 1] = n
      BY <2>2, <3>1, AppendProperties, LenProperties
    <3>3. \A i \in 1..Len(pipe') : pipe'[i] \in Range(pipe')
      BY <3>2, ElementsOf
    <3>4. \A x \in Range(pipe) : \E i \in 1..Len(pipe) : pipe[i] = x
      BY <1>3, ElementsOf
    <3> QED BY <3>2, <3>3, <3>4
  <2> QED BY <1>2, <2>1, <2>2
<1>6. Known \subseteq Known'
  BY <1>2 DEF Known
<1>7. ASSUME NEW m \in ring, Expected(m)
      PROVE  Expected(m)'
  <2>1. CASE m \in Known \/ m \in Range(pipe)
    BY <1>5, <1>6, <2>1 DEF Expected
  <2>2. CASE Enough(Known, taken[m].source)
    <3> DEFINE source == taken[m].source
               A == {k \in Known : taken[k].source = source}
               B == {k \in Known' : taken'[k].source = source}
    <3>1. taken'[m].source = source
      BY <1>1, <1>3
    <3>2. A \subseteq B
      BY <1>1, <1>3, <1>6
    <3>3. IsFiniteSet(B)
      <4>1. IsFiniteSet(Ids')
        BY <1>0, <1>1, FS_Interval DEF Ids
      <4>2. Known' \subseteq Ids'
        BY <1>2, <1>3, <1>4 DEF Known
      <4>3. B \subseteq Ids'
        BY <4>2
      <4> HIDE DEF B
      <4> QED BY <4>1, <4>3, FS_Subset
    <3>4. Cardinality(A) >= MaxVisible
      BY <2>2 DEF Enough
    <3> HIDE DEF source
    <3>5. Cardinality(B) >= MaxVisible
      <4> HIDE DEF A, B
      <4> QED BY <3>2, <3>3, <3>4, MoreIsEnough
    <3>6. Enough(Known, source)'
      BY <3>5, <3>1 DEF Enough, source
    <3> QED BY <3>6, <3>1 DEF Expected, source
  <2> QED BY <1>7, <2>1, <2>2 DEF Expected
<1>8. Expected(n)'
  BY <1>5 DEF Expected
<1> QED BY <1>2, <1>7, <1>8 DEF Awaited

LEMMA OnRecordKeeps ==
  ASSUME TypeInv, RowsInv, Awaited, OnRecord
  PROVE  Awaited'
<1>1. UNCHANGED <<taken, ring, next, serving>>
  BY OnRecordShows
<1>2. PICK n : Shows(n)
  BY OnRecordShows
<1>3. /\ records \in Seq(Ids) /\ n \in Ids /\ DistinctIds(records)
      /\ lost' \subseteq Ids /\ records' \in Seq(Ids)
  BY <1>1, <1>2, OnRecordLists DEF TypeInv, ListsInv, RowsInv, Shows, Ids
<1>4. \A x \in Range(pipe) : x = n \/ x \in Range(pipe')
  <2>1. /\ pipe \in Seq(Ids) /\ pipe # <<>> /\ n = Head(pipe) /\ pipe' = Tail(pipe)
    BY <1>2 DEF Shows
  <2>2. /\ pipe' \in Seq(Ids) /\ Len(pipe') = Len(pipe) - 1
        /\ \A i \in 1..Len(pipe') : pipe'[i] = pipe[i + 1]
    BY <2>1, HeadTailProperties
  <2>3. Head(pipe) = pipe[1] /\ Len(pipe) \in Nat
    BY <2>1, ElementsOf
  <2>4. ASSUME NEW i \in 1..Len(pipe), i # 1 PROVE pipe[i] \in Range(pipe')
    <3>1. i - 1 \in 1..Len(pipe') /\ (i - 1) + 1 = i
      BY <2>2, <2>3, <2>4
    <3>2. pipe'[i - 1] = pipe[i]
      BY <2>2, <3>1
    <3>3. pipe'[i - 1] \in Range(pipe')
      BY <2>2, <3>1, ElementsOf
    <3> QED BY <3>2, <3>3
  <2>5. \A x \in Range(pipe) : \E i \in 1..Len(pipe) : pipe[i] = x
    BY <2>1, ElementsOf
  <2> QED BY <2>1, <2>3, <2>4, <2>5
<1>5. Known' \subseteq Ids
  <2>1. Range(records') \subseteq Ids
    BY <1>3, ElementsOf
  <2> QED BY <1>3, <2>1 DEF Known
<1>6. CASE records' = records /\ lost' = lost \cup {n}
  <2>1. Known' = Known \cup {n}
    BY <1>6 DEF Known
  <2>2. ASSUME NEW m \in ring, Expected(m) PROVE Expected(m)'
    <3>1. CASE Enough(Known, taken[m].source)
      <4>1. Enough(Known', taken[m].source)
        BY <1>5, <2>1, <3>1, EnoughOfMore
      <4> QED BY <1>1, <4>1 DEF Expected, Enough
    <3> QED BY <1>4, <2>1, <2>2, <3>1 DEF Expected
  <2> QED BY <1>1, <2>2 DEF Awaited
<1>7. CASE records' = MergeRecord(records, n) /\ lost' = lost \cup Replaced(records, n)
  <2>1. \A m \in (Range(records) \cup {n}) \ Range(records') :
          \/ m \in Replaced(records, n)
          \/ taken[m].source = taken[n].source /\ Enough(Range(records'), taken[m].source)
    BY <1>3, <1>7, MergeRows
  <2>2. \A m \in (Known \cup {n}) \ Known' :
          taken[m].source = taken[n].source /\ Enough(Range(records'), taken[m].source)
    BY <1>7, <2>1 DEF Known
  <2>3. ASSUME NEW source, Enough(Range(records'), source) PROVE Enough(Known', source)
    <3>1. Range(records') \subseteq Known'
      BY DEF Known
    <3> QED BY <1>5, <2>3, <3>1, EnoughOfMore
  <2>4. ASSUME NEW m \in ring, Expected(m) PROVE Expected(m)'
    <3>1. CASE m \in Known \cup {n}
      <4>1. m \in Known' \/ Enough(Known', taken[m].source)
        BY <2>2, <2>3, <3>1
      <4> QED BY <1>1, <4>1 DEF Expected, Enough
    <3>2. CASE Enough(Known, taken[m].source)
      <4>1. CASE \E k \in Known \ Known' : taken[k].source = taken[m].source
        <5>1. Enough(Range(records'), taken[m].source)
          BY <2>2, <4>1
        <5>2. Enough(Known', taken[m].source)
          BY <2>3, <5>1
        <5> QED BY <1>1, <5>2 DEF Expected, Enough
      <4>2. CASE ~\E k \in Known \ Known' : taken[k].source = taken[m].source
        <5>1. Enough(Known', taken[m].source)
          BY <1>5, <3>2, <4>2, EnoughOfMore
        <5> QED BY <1>1, <5>1 DEF Expected, Enough
      <4> QED BY <4>1, <4>2
    <3> QED BY <1>4, <2>4, <3>1, <3>2 DEF Expected
  <2> QED BY <1>1, <2>4 DEF Awaited
<1> QED BY <1>2, <1>6, <1>7 DEF Shows

LEMMA ConnectKeeps ==
  ASSUME TypeInv, Awaited, Connect
  PROVE  Awaited'
<1> USE DEF windowVars, viewVars
<1>1. CASE pipe' = InOrder(ring)
  <2>1. ring' = ring /\ Range(pipe') = ring
    BY <1>1, ReplayIsTheRing DEF Connect
  <2> QED BY <2>1 DEF Awaited, Expected
<1>2. CASE UNCHANGED <<serving, pipe, lost>>
  <2>1. UNCHANGED <<taken, ring, records>>
    BY DEF Connect
  <2> QED BY <1>2, <2>1, SettledKeeps DEF Known
<1> QED BY <1>1, <1>2 DEF Connect

LEMMA AwaitedStep ==
  ASSUME TypeInv, RowsInv, Awaited, [Next]_vars
  PROVE  Awaited'
<1>1. CASE Quiet
  BY <1>1, SettledKeeps DEF Quiet, Known
<1>2. CASE Cutting
  BY <1>2 DEF Cutting, Cut, Awaited
<1>3. CASE Dropping
  <2>1. CASE Close
    BY <2>1 DEF Close, Awaited
  <2>2. CASE UNCHANGED <<pipe, serving>>
    <3>1. Known' = Known
      BY <1>3, DropRows DEF Dropping, Known
    <3> QED BY <1>3, <2>2, <3>1, SettledKeeps DEF Dropping
  <2> QED BY <1>3, <2>1, <2>2 DEF Dropping
<1>4. ASSUME NEW s \in Sources, Publish(s) PROVE Awaited'
  BY <1>4, PublishKeeps
<1>5. CASE OnRecord
  BY <1>5, OnRecordKeeps
<1>6. CASE Connect
  BY <1>6, ConnectKeeps
<1> QED BY <1>1, <1>2, <1>3, <1>4, <1>5, <1>6, ListMoves DEF Moves

(* A window that has read its stream to the end shows all that the daemon  *)
(* retains, but for what was not sent, what was thrown away, and what gave *)
(* way to the limit of rows, for every limit and every history of streams, *)
(* daemons and users (mergeRecord, the effect of the stream).              *)
THEOREM AllShown == Spec => []CaughtUp
<1>1. Init => Awaited
  BY DEF Init, Awaited
<1>2. (TypeInv /\ RowsInv) /\ Awaited /\ [Next]_vars => Awaited'
  BY AwaitedStep
<1>3. Awaited /\ TypeInv => CaughtUp
  <2> SUFFICES ASSUME TypeInv, Awaited, serving = "live", pipe = <<>>, NEW n \in ring \ Known
               PROVE  Enough(Known, taken[n].source)
    BY DEF CaughtUp, Known, Enough
  <2>1. Range(pipe) = {}
    BY RangeOfNothing
  <2> QED BY <2>1 DEF Awaited, Expected
<1> QED BY <1>1, <1>2, <1>3, Typed, PTL DEF Spec
-----------------------------------------------------------------------------
(* What the effects that ran last know must not be shown is not shown.     *)
Withheld ==
  /\ ran.required => records = <<>> /\ stream = "none"
  /\ ran.blockedSources # null =>
       /\ blockedSourcesRef = ran.blockedSources /\ blockedSources = ran.blockedSources
       /\ \A n \in Range(records) : taken[n].source \notin ran.blockedSources

LEMMA NoRows ==
  ASSUME NEW T, NEW rows \in Seq(T), \A n \in Range(rows) : FALSE
  PROVE  rows = <<>>
<1>1. \A i \in 1..Len(rows) : FALSE
  BY ElementsOf
<1>2. Len(rows) = 0
  BY <1>1, LenProperties
<1> QED BY <1>2, LenProperties, EmptySeq

LEMMA EffectsWithhold ==
  ASSUME TypeInv, RowsInv, Withheld, Effects
  PROVE  Withheld'
<1> DEFINE now == Dependencies
<1>1. /\ ran' = now /\ Drop(Forgets(now)) /\ UNCHANGED <<taken, blockedSources>>
      /\ now.blockedSources = blockedSources /\ blockedSources \in SUBSET Sources
      /\ blockedSourcesRef' = IF now.blockedSources # ran.blockedSources THEN now.blockedSources
                              ELSE blockedSourcesRef
  BY DEF Effects, daemonVars, Dependencies, TypeInv, ViewInv
<1>2. /\ records' \in Seq(Ids)
      /\ \A n \in Range(records') : n \in Range(records) /\ taken[n].source \notin Forgets(now)
  BY <1>1, DropRows
<1>3. ASSUME now.required PROVE records' = <<>> /\ stream' = "none"
  <2>1. CASE ran.required
    <3>1. records = <<>> /\ stream = "none"
      BY <2>1 DEF Withheld
    <3>2. stream' = "none"
      BY <1>3, <3>1 DEF Effects
    <3>3. \A n \in Range(records) : FALSE
      BY <3>1, RangeOfNothing
    <3>4. records' = <<>>
      BY <1>2, <3>3, NoRows
    <3> QED BY <3>2, <3>4
  <2>2. CASE ~ran.required
    <3>1. Sources \subseteq Forgets(now)
      BY <1>3, <2>2 DEF Forgets
    <3>2. Follows(now)
      BY <1>3, <2>2 DEF Follows
    <3>3. stream' = "none"
      BY <1>3, <3>2 DEF Effects
    <3>4. \A n \in Range(records') : taken[n].source \in Sources
      <4>1. \A n \in Ids : taken[n].source \in Sources
        <5> DEFINE T == [id : Nat, source : Sources]
        <5>1. taken \in Seq(T)
          BY DEF TypeInv, ListsInv
        <5> HIDE DEF T
        <5>2. \A n \in Ids : taken[n] \in T
          BY <5>1, ElementOfSeq DEF Ids
        <5> QED BY <5>2 DEF T
      <4> QED BY <4>1, <1>2, ElementsOf
    <3>5. records' = <<>>
      BY <1>2, <3>1, <3>4, NoRows
    <3> QED BY <3>3, <3>5
  <2> QED BY <2>1, <2>2
<1>4. /\ blockedSourcesRef' = blockedSources
      /\ \A n \in Range(records') : taken[n].source \notin blockedSources
  <2>1. CASE blockedSources = ran.blockedSources
    <3>1. ran.blockedSources # null
      BY <1>1, <2>1, ViewerAssumption
    <3> QED BY <1>1, <1>2, <2>1, <3>1 DEF Withheld
  <2>2. CASE blockedSources # ran.blockedSources
    <3>1. blockedSources \subseteq Forgets(now)
      BY <1>1, <2>2 DEF Forgets
    <3> QED BY <1>1, <1>2, <2>2, <3>1
  <2> QED BY <2>1, <2>2
<1> HIDE DEF now
<1> QED BY <1>1, <1>3, <1>4 DEF Withheld

LEMMA BlockedSteps == [Next]_vars =>
  \/ /\ UNCHANGED <<ran, blockedSources, blockedSourcesRef>>
     /\ stream = "none" => stream' = "none"
  \/ ran' = [ran EXCEPT !.blockedSources = null] /\ UNCHANGED stream
  \/ Effects
<1> DEFINE Goal ==
      \/ /\ UNCHANGED <<ran, blockedSources, blockedSourcesRef>>
         /\ stream = "none" => stream' = "none"
      \/ ran' = [ran EXCEPT !.blockedSources = null] /\ UNCHANGED stream
      \/ Effects
<1> SUFFICES ASSUME [Next]_vars PROVE Goal
  OBVIOUS
<1> USE DEF daemonVars, streamVars, windowVars, viewVars
<1>1. Join \/ OnRecord \/ Connect \/ OnError \/ Effects \/ UNCHANGED vars => Goal
  BY DEF Join, OnRecord, Connect, OnError, vars
<1>2. Restart \/ Lose \/ Crash \/ Others => Goal
  BY DEF Restart, Lose, Crash, Others
<1>3. AtGate \/ Manage \/ Expunge => Goal
  BY DEF AtGate, Manage, Expunge, Ask
<1>4. Clear \/ Pause \/ Block \/ SyncBlocked => Goal
  BY DEF Clear, ClearRows, Pause, Block, SyncBlocked, SetBlockedSources
<1>5. ASSUME NEW s \in Sources, Publish(s) PROVE Goal
  BY <1>5 DEF Publish
<1>6. ASSUME NEW i \in 1..MaxCalls, ServeSession(i) \/ ServeGuarded(i) PROVE Goal
  BY <1>6 DEF ServeSession, ServeGuarded
<1>7. ASSUME NEW i \in 1..MaxCalls, Unanswered(i) \/ UsersAnswered(i) \/ Failed(i) \/ LoseCall(i)
      PROVE  Goal
  BY <1>7 DEF Unanswered, UsersAnswered, Failed, LoseCall
<1>8. ASSUME NEW i \in 1..MaxCalls, StatusAnswered(i) \/ ExpungeAnswered(i) PROVE Goal
  BY <1>8 DEF StatusAnswered, ExpungeAnswered
<1> QED BY <1>1, <1>2, <1>3, <1>4, <1>5, <1>6, <1>7, <1>8 DEF Next, System, Requests

(* A row comes only with its record, and not while the stream is closed or *)
(* the source of the record is blocked.                                    *)
LEMMA RowsCome ==
  ASSUME TypeInv, RowsInv, Moves
  PROVE  /\ records' \in Seq(Ids') /\ \A n \in Ids : taken'[n] = taken[n]
         /\ \A n \in Range(records') :
              /\ n \in Ids
              /\ \/ n \in Range(records)
                 \/ stream # "none" /\ taken[n].source \notin blockedSourcesRef
<1>0. records \in Seq(Ids) /\ Range(records) \subseteq Ids
  <2>1. records \in Seq(Ids)
    BY DEF TypeInv, ListsInv, Ids
  <2> QED BY <2>1, ElementsOf
<1>1. CASE UNCHANGED <<taken, records>>
  BY <1>0, <1>1 DEF Ids
<1>2. CASE Quiet \/ Cutting \/ Connect
  BY <1>1, <1>2 DEF Quiet, Cutting, Connect, windowVars, viewVars
<1>3. CASE Dropping
  BY <1>0, <1>3, DropRows DEF Dropping, Ids
<1>4. ASSUME NEW s \in Sources, Publish(s)
      PROVE  /\ records' \in Seq(Ids') /\ \A n \in Ids : taken'[n] = taken[n]
             /\ Range(records') = Range(records)
  <2>1. records' = records
    BY <1>4 DEF Publish, windowVars, viewVars
  <2>2. \A n \in Ids : taken'[n] = taken[n]
    BY <1>4, PublishTakes
  <2>3. records' \in Seq(Ids')
    BY <1>4, PublishLists DEF ListsInv, Ids
  <2> QED BY <2>1, <2>2, <2>3
<1>5. CASE OnRecord
  <2>1. /\ taken' = taken /\ stream # "none" /\ Head(pipe) \in Ids
        /\ \/ records' = records
           \/ /\ records' = MergeRecord(records, Head(pipe))
              /\ taken[Head(pipe)].source \notin blockedSourcesRef
    BY <1>5, OnRecordShows DEF OnRecord, Shows
  <2>2. MergeRecord(records, Head(pipe)) \in Seq(Ids)
        /\ Range(MergeRecord(records, Head(pipe))) \subseteq Range(records) \cup {Head(pipe)}
    BY <1>0, <2>1, MergeRows DEF RowsInv
  <2> QED BY <1>0, <2>1, <2>2 DEF Ids
<1> QED BY <1>0, <1>2, <1>3, <1>4, <1>5 DEF Moves

LEMMA WithheldStep ==
  ASSUME TypeInv, RowsInv, Withheld, [Next]_vars
  PROVE  Withheld'
<1>0. DOMAIN ran = {"ready", "required", "user", "paused", "pausedSources", "blockedSources"}
  BY DEF TypeInv, ViewInv
<1>1. /\ records' \in Seq(Ids') /\ \A n \in Ids : taken'[n] = taken[n]
      /\ \A n \in Range(records') :
           /\ n \in Ids
           /\ n \in Range(records) \/ (stream # "none" /\ taken[n].source \notin blockedSourcesRef)
  BY ListMoves, RowsCome
<1>2. ASSUME records = <<>>, stream = "none"
      PROVE  records' = <<>>
  <2>1. \A n \in Range(records') : FALSE
    BY <1>1, <1>2, RangeOfNothing
  <2> QED BY <1>1, <2>1, NoRows
<1>3. CASE /\ UNCHANGED <<ran, blockedSources, blockedSourcesRef>>
           /\ stream = "none" => stream' = "none"
  BY <1>1, <1>2, <1>3 DEF Withheld
<1>4. CASE ran' = [ran EXCEPT !.blockedSources = null] /\ UNCHANGED stream
  BY <1>0, <1>2, <1>4 DEF Withheld
<1>5. CASE Effects
  BY <1>5, EffectsWithhold
<1> QED BY <1>3, <1>4, <1>5, BlockedSteps

(* Once its effects have run a window keeps nothing that it may not show,  *)
(* whatever the order of events, answers and clicks was before (the        *)
(* effects of loginRequired, blockedSources and the stream).               *)
THEOREM NothingKept == Spec => []NothingWithheldIsKept
<1>1. Init => Withheld
  <2> SUFFICES ASSUME Init PROVE Withheld
    OBVIOUS
  <2>1. /\ ran.required = FALSE /\ ran.blockedSources = {} /\ records = <<>>
        /\ blockedSources = {} /\ blockedSourcesRef = {}
    BY DEF Init, Dependencies, loginRequired
  <2>2. Range(records) = {}
    BY <2>1, RangeOfNothing
  <2> QED BY <2>1, <2>2 DEF Withheld
<1>2. (TypeInv /\ RowsInv) /\ Withheld /\ [Next]_vars => Withheld'
  BY WithheldStep
<1>3. TypeInv /\ Withheld => NothingWithheldIsKept
  <2> SUFFICES ASSUME TypeInv, Withheld, Settled
               PROVE  /\ loginRequired => records = <<>> /\ stream = "none"
                      /\ \A n \in Range(records) : taken[n].source \notin blockedSources
    BY DEF NothingWithheldIsKept
  <2>1. ran.required = loginRequired /\ ran.blockedSources = blockedSources
    BY DEF Settled, Dependencies
  <2>2. blockedSources # null
    BY ViewerAssumption DEF TypeInv, ViewInv
  <2> QED BY <2>1, <2>2 DEF Withheld
<1> QED BY <1>1, <1>2, <1>3, Typed, PTL DEF Spec
=============================================================================
