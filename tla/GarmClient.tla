----------------------------- MODULE GarmClient -----------------------------
(***************************************************************************)
(* The client that all reconcilers share (internal/garmclient/client.go):   *)
(* one bearer token behind a mutex, replaced by a new login when GARM        *)
(* answers 401, after which the call is made once more.                     *)
(***************************************************************************)
EXTENDS Naturals

CONSTANTS
  Callers,          \* goroutines that use the client: the controllers' workers
  MaxDisruptions,   \* bound: revocations and failures in a behaviour
  Nobody

ASSUME MaxDisruptionsAssumption == MaxDisruptions \in Nat
ASSUME NobodyAssumption == Nobody \notin Callers

VARIABLES
  auth,     \* the client's token; tokens are numbered as GARM issues them
  mu,       \* who holds the client's mutex
  at,       \* where each caller is in call and refreshAuth
  token,    \* the token each caller carries
  result,   \* what each caller's last call returned
  issued,   \* number of tokens GARM has issued
  valid,    \* tokens that GARM accepts
  lapsed,   \* history: callers in whose view a token was revoked since their login
  budget    \* disruptions left

vars == <<auth, mu, at, token, result, issued, valid, lapsed, budget>>

Steps == {"idle", "read", "first", "lock", "login", "store", "reread", "second"}
Results == {"none", "answered", "unauthorized", "noLogin"}

TypeOK ==
  /\ auth \in Nat /\ issued \in Nat
  /\ mu \in Callers \cup {Nobody}
  /\ at \in [Callers -> Steps]
  /\ token \in [Callers -> Nat]
  /\ result \in [Callers -> Results]
  /\ valid \in SUBSET (1 .. issued)
  /\ lapsed \in SUBSET Callers
  /\ budget \in 0 .. MaxDisruptions

\* New logs in before there is a client.
Init ==
  /\ auth = 1 /\ issued = 1 /\ valid = {1}
  /\ mu = Nobody
  /\ at = [c \in Callers |-> "idle"]
  /\ token = [c \in Callers |-> 1]
  /\ result = [c \in Callers |-> "none"]
  /\ lapsed = {}
  /\ budget = MaxDisruptions

Disrupt == budget > 0 /\ budget' = budget - 1

Goto(c, from, to) == at[c] = from /\ at' = [at EXCEPT ![c] = to]

Ends(c, from, r) == Goto(c, from, "idle") /\ result' = [result EXCEPT ![c] = r]

-----------------------------------------------------------------------------
(* call                                                                     *)

Begin(c) ==
  /\ Goto(c, "idle", "read")
  /\ UNCHANGED <<auth, mu, token, result, issued, valid, lapsed, budget>>

\* authInfo, before the first and before the second attempt.
AuthInfo(c) ==
  /\ mu = Nobody
  /\ Goto(c, "read", "first") \/ Goto(c, "reread", "second")
  /\ token' = [token EXCEPT ![c] = auth]
  /\ UNCHANGED <<auth, mu, result, issued, valid, lapsed, budget>>

\* fn: GARM answers (with success or an error other than 401) or refuses the
\* token; the first refusal leads to refreshAuth, the second is returned.
Invoke(c) ==
  /\ \/ token[c] \in valid /\ (Ends(c, "first", "answered") \/ Ends(c, "second", "answered"))
     \/ token[c] \notin valid /\ Goto(c, "first", "lock") /\ UNCHANGED result
     \/ token[c] \notin valid /\ Ends(c, "second", "unauthorized")
  /\ UNCHANGED <<auth, mu, token, issued, valid, lapsed, budget>>

-----------------------------------------------------------------------------
(* refreshAuth, under the mutex from Lock to Store.                         *)

Lock(c) ==
  /\ mu = Nobody /\ mu' = c
  /\ Goto(c, "lock", "login")
  /\ UNCHANGED <<auth, token, result, issued, valid, lapsed, budget>>

Issue == issued' = issued + 1 /\ valid' = valid \cup {issued + 1}

\* Mutants of Login: a failed login keeps the mutex; the mutex is released
\* before the new token is stored.
LoginKeepsMutex(c) ==
  /\ \/ /\ Goto(c, "login", "store") /\ Issue
        /\ token' = [token EXCEPT ![c] = issued + 1]
        /\ lapsed' = lapsed \ {c}
        /\ UNCHANGED <<mu, result, budget>>
     \/ /\ Disrupt /\ Ends(c, "login", "noLogin") /\ UNCHANGED mu
        /\ UNCHANGED <<token, issued, valid, lapsed>>
  /\ UNCHANGED auth

LoginUnlocked(c) ==
  /\ Goto(c, "login", "store") /\ Issue /\ mu' = Nobody
  /\ token' = [token EXCEPT ![c] = issued + 1]
  /\ lapsed' = lapsed \ {c}
  /\ UNCHANGED <<auth, result, budget>>

\* GARM issues a token, or the login fails, with or without one issued.
Login(c) ==
  /\ \/ /\ Goto(c, "login", "store") /\ Issue
        /\ token' = [token EXCEPT ![c] = issued + 1]
        /\ lapsed' = lapsed \ {c}
        /\ UNCHANGED <<mu, result, budget>>
     \/ /\ Disrupt /\ Ends(c, "login", "noLogin") /\ mu' = Nobody
        /\ Issue \/ UNCHANGED <<issued, valid>>
        /\ UNCHANGED <<token, lapsed>>
  /\ UNCHANGED auth

\* Mutant of Store: the new token does not reach the client.
StoreForgets(c) ==
  /\ Goto(c, "store", "reread")
  /\ mu' = Nobody
  /\ UNCHANGED <<auth, token, result, issued, valid, lapsed, budget>>

Store(c) ==
  /\ Goto(c, "store", "reread")
  /\ auth' = token[c] /\ mu' = Nobody
  /\ UNCHANGED <<token, result, issued, valid, lapsed, budget>>

-----------------------------------------------------------------------------
\* Tokens expire in the order in which they were issued; a restart of GARM with
\* another secret ends them all.
Revoke ==
  /\ Disrupt
  /\ \E last \in valid : valid' = {t \in valid : t > last}
  /\ lapsed' = Callers
  /\ UNCHANGED <<auth, mu, at, token, result, issued>>

Refresh(c) == Lock(c) \/ Login(c) \/ Store(c)

Next == (\E c \in Callers : Begin(c) \/ AuthInfo(c) \/ Invoke(c) \/ Refresh(c)) \/ Revoke

Spec == Init /\ [][Next]_vars

\* GARM answers every request, and the mutex is handed to those who wait in turn
\* (sync.Mutex starves nobody).  Nothing is assumed of when calls begin.
Fairness ==
  \A c \in Callers : /\ WF_vars(Invoke(c) \/ Login(c) \/ Store(c))
                     /\ SF_vars(AuthInfo(c)) /\ SF_vars(Lock(c))

FairSpec == Spec /\ Fairness

-----------------------------------------------------------------------------
\* Callers that meet a 401 together each log in; none of them puts an older
\* token in the place of a newer one ("Read under the lock to avoid racing a
\* concurrent refresh").
NeverBackwards == [][auth' >= auth]_vars

\* "If it returns 401, refresh once and retry": a call returns 401 to its
\* reconciler only if GARM revoked a token after the call's own login, whatever
\* other callers have done to the shared token since.
RetryIsFresh ==
  \A c \in Callers : result[c] = "unauthorized" /\ at[c] = "idle" => c \in lapsed

\* Only the holder of the mutex is between login and store, and what it is about
\* to store is newer than the client's token.
MutexOrder ==
  /\ auth \in 1 .. issued
  /\ \A c \in Callers : at[c] \in {"login", "store"} => mu = c
  /\ \A c \in Callers : at[c] = "store" => token[c] \in auth + 1 .. issued

\* From its login to the end of its retry a caller has a token that GARM accepts,
\* in hand or in the client, unless one was revoked since; a revocation that is
\* past for one caller is past for the one that stores the next token.
GoodToken ==
  /\ \A c \in Callers \ lapsed : at[c] \in {"store", "second"} => token[c] \in valid
  /\ \A c \in Callers \ lapsed : at[c] = "reread" => auth \in valid
  /\ \A c, d \in Callers : at[c] = "store" /\ c \in lapsed /\ at[d] = "reread" => d \in lapsed

TokenInv == TypeOK /\ MutexOrder /\ GoodToken

\* Every call returns: no caller waits for ever for the mutex or the token.
EveryCallEnds == \A c \in Callers : at[c] # "idle" ~> at[c] = "idle"
=============================================================================
