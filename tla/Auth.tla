-------------------------------- MODULE Auth --------------------------------
(***************************************************************************)
(* The authManager of devlogbusd (internal/devlogbusd/app/auth.go): the    *)
(* accounts, whether login is on, and the sessions, which are known by     *)
(* their tokens.  Every operator is one critical section of its lock.      *)
(***************************************************************************)
EXTENDS Naturals, Sequences, FiniteSets

CONSTANTS Users,   \* the names accounts have
          NoUser   \* nobody: a nil currentUser

ASSUME AuthAssumption == NoUser \notin Users

VARIABLES
  users,         \* m.users, and the setting they are persisted in
  loginEnabled,  \* m.loginEnabled, and its setting
  sessions,      \* m.sessions: the user of each token
  tokens         \* how many tokens were given out; 0 is no cookie

authVars == <<users, loginEnabled, sessions, tokens>>

(* A cookie may have outlived the page that signed in.                     *)
AuthInit ==
  /\ users \in SUBSET Users
  /\ loginEnabled \in BOOLEAN
  /\ \/ tokens = 0 /\ sessions = <<>>
     \/ tokens = 1 /\ \E u \in users : sessions = [t \in {1} |-> u]

LoginRequired == loginEnabled /\ users # {}

UserFromRequest(token) ==
  IF token \in DOMAIN sessions /\ sessions[token] \in users THEN sessions[token] ELSE NoUser

(* userFromRequest forgets the session of a user that is gone.             *)
Ended(ended) == sessions' = [t \in DOMAIN sessions \ ended |-> sessions[t]]

CheckRequest(token) ==
  Ended({t \in DOMAIN sessions : t = token /\ sessions[t] \notin users})

(* withHTTPAuth, which looks at the cookie only when login is required.    *)
Authorized(token) == LoginRequired => UserFromRequest(token) # NoUser

Guard(token) == IF LoginRequired THEN CheckRequest(token) ELSE UNCHANGED sessions

(* statusForRequest.                                                       *)
Status(token) == [required |-> LoginRequired, user |-> UserFromRequest(token)]

(* setLoginEnabled fails when it would lock everybody out.                 *)
SetLoginEnabledFails(on) == on /\ users = {}

SetLoginEnabled(on) == loginEnabled' = on

AddUser(u) == users' = users \cup {u}

DeleteUser(u) ==
  /\ users' = users \ {u}
  /\ Ended({t \in DOMAIN sessions : sessions[t] = u})

(* The second half of authenticate, which verified the password before,    *)
(* without the lock; the login that brought the cookie token is answered.  *)
StartSession(u, token) ==
  LET kept == {t \in DOMAIN sessions : t = token => sessions[t] \in users} IN
  /\ tokens' = tokens + 1
  /\ sessions' = [t \in kept \cup {tokens'} |-> IF t = tokens' THEN u ELSE sessions[t]]

Logout(token) == Ended({token})

(* The daemon starts with what is persisted.                               *)
ForgetSessions == Ended(DOMAIN sessions)

AuthTypeOK ==
  /\ users \subseteq Users /\ loginEnabled \in BOOLEAN
  /\ tokens \in Nat /\ DOMAIN sessions \subseteq 1..tokens
  /\ \A t \in DOMAIN sessions : sessions[t] \in Users
=============================================================================
