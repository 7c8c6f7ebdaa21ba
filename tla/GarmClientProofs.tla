-------------------------- MODULE GarmClientProofs --------------------------
(***************************************************************************)
(* Theorems about GarmClient, for any number of callers and disruptions.    *)
(***************************************************************************)
EXTENDS GarmClient, TLAPS

\* The invariant that carries the properties below.
LEMMA TokenInvInit == Init => TokenInv
  BY MaxDisruptionsAssumption, NobodyAssumption
     DEF Init, TokenInv, TypeOK, MutexOrder, GoodToken, Steps, Results

\* Types.
LEMMA TypeStep == TokenInv /\ [Next]_vars => TypeOK'
<1> SUFFICES ASSUME TokenInv, [Next]_vars PROVE TypeOK'
  OBVIOUS
<1> USE MaxDisruptionsAssumption, NobodyAssumption DEF TokenInv, TypeOK, Steps, Results
<1>1. ASSUME NEW c \in Callers, Begin(c) PROVE TypeOK'
  BY <1>1 DEF Begin, Goto
<1>2. ASSUME NEW c \in Callers, AuthInfo(c) PROVE TypeOK'
  BY <1>2 DEF AuthInfo, Goto
<1>3. ASSUME NEW c \in Callers, Invoke(c) PROVE TypeOK'
  BY <1>3 DEF Invoke, Ends, Goto
<1>4. ASSUME NEW c \in Callers, Lock(c) PROVE TypeOK'
  BY <1>4 DEF Lock, Goto
<1>5. ASSUME NEW c \in Callers, Login(c) PROVE TypeOK'
  <2>1. /\ auth' \in Nat /\ lapsed' \in SUBSET Callers
        /\ mu' \in Callers \cup {Nobody}
        /\ at' \in [Callers -> Steps] /\ result' \in [Callers -> Results]
    BY <1>5 DEF Login, Ends, Goto
  <2>2. issued' \in Nat /\ valid' \in SUBSET (1 .. issued')
    <3>1. CASE Issue
      <4>1. issued' = issued + 1 /\ valid' = valid \cup {issued + 1}
        BY <3>1 DEF Issue
      <4>2. \A t \in valid' : t \in 1 .. issued'
        BY <4>1
      <4> QED
        BY <4>1, <4>2
    <3>2. CASE UNCHANGED <<issued, valid>>
      BY <3>2
    <3> QED
      BY <1>5, <3>1, <3>2 DEF Login
  <2>3. token' \in [Callers -> Nat]
    BY <1>5 DEF Login
  <2>4. budget' \in 0 .. MaxDisruptions
    BY <1>5 DEF Login, Disrupt
  <2> QED
    BY <2>1, <2>2, <2>3, <2>4
<1>6. ASSUME NEW c \in Callers, Store(c) PROVE TypeOK'
  BY <1>6 DEF Store, Goto
<1>7. CASE Revoke
  <2>1. budget' \in 0 .. MaxDisruptions
    BY <1>7 DEF Revoke, Disrupt
  <2>2. valid' \in SUBSET (1 .. issued')
    BY <1>7 DEF Revoke
  <2> QED
    BY <1>7, <2>1, <2>2 DEF Revoke
<1>8. CASE UNCHANGED vars
  BY <1>8 DEF vars
<1> QED
  BY <1>1, <1>2, <1>3, <1>4, <1>5, <1>6, <1>7, <1>8 DEF Next, Refresh

\* The mutex, and the order of tokens.
LEMMA MutexStep == TokenInv /\ [Next]_vars => MutexOrder'
<1> SUFFICES ASSUME TokenInv, [Next]_vars PROVE MutexOrder'
  OBVIOUS
<1> USE NobodyAssumption DEF TokenInv, TypeOK, MutexOrder
<1>1. ASSUME NEW c \in Callers, Begin(c) PROVE MutexOrder'
  BY <1>1 DEF Begin, Goto
<1>2. ASSUME NEW c \in Callers, AuthInfo(c) PROVE MutexOrder'
  BY <1>2 DEF AuthInfo, Goto
<1>3. ASSUME NEW c \in Callers, Invoke(c) PROVE MutexOrder'
  BY <1>3 DEF Invoke, Ends, Goto
<1>4. ASSUME NEW c \in Callers, Lock(c) PROVE MutexOrder'
  BY <1>4 DEF Lock, Goto
<1>5. ASSUME NEW c \in Callers, Login(c) PROVE MutexOrder'
  BY <1>5 DEF Login, Ends, Goto, Issue, Disrupt
<1>6. ASSUME NEW c \in Callers, Store(c) PROVE MutexOrder'
  BY <1>6 DEF Store, Goto
<1>7. CASE Revoke
  BY <1>7 DEF Revoke, Disrupt
<1>8. CASE UNCHANGED vars
  BY <1>8 DEF vars
<1> QED
  BY <1>1, <1>2, <1>3, <1>4, <1>5, <1>6, <1>7, <1>8 DEF Next, Refresh

\* Tokens in hand.  A caller that has logged in finds that token, or a newer one
\* that another login has put in its place.
LEMMA GoodTokenStep == TokenInv /\ [Next]_vars => GoodToken'
<1> SUFFICES ASSUME TokenInv, [Next]_vars PROVE GoodToken'
  OBVIOUS
<1> USE NobodyAssumption DEF TokenInv, TypeOK, MutexOrder, GoodToken
<1>1. ASSUME NEW c \in Callers, Begin(c) PROVE GoodToken'
  BY <1>1 DEF Begin, Goto
<1>2. ASSUME NEW c \in Callers, AuthInfo(c) PROVE GoodToken'
  BY <1>2 DEF AuthInfo, Goto
<1>3. ASSUME NEW c \in Callers, Invoke(c) PROVE GoodToken'
  BY <1>3 DEF Invoke, Ends, Goto
<1>4. ASSUME NEW c \in Callers, Lock(c) PROVE GoodToken'
  BY <1>4 DEF Lock, Goto
<1>5. ASSUME NEW c \in Callers, Login(c) PROVE GoodToken'
  BY <1>5 DEF Login, Ends, Goto, Issue, Disrupt
<1>6. ASSUME NEW c \in Callers, Store(c) PROVE GoodToken'
  BY <1>6 DEF Store, Goto
<1>7. CASE Revoke
  BY <1>7 DEF Revoke, Disrupt
<1>8. CASE UNCHANGED vars
  BY <1>8 DEF vars
<1> QED
  BY <1>1, <1>2, <1>3, <1>4, <1>5, <1>6, <1>7, <1>8 DEF Next, Refresh

LEMMA TokenInvStep == TokenInv /\ [Next]_vars => TokenInv'
  BY TypeStep, MutexStep, GoodTokenStep DEF TokenInv

\* A login in progress excludes every other, and a token that is about to be
\* stored is newer than the client's.
THEOREM TokenInvariant == Spec => []TokenInv
  BY TokenInvInit, TokenInvStep, PTL DEF Spec

\* No caller puts an older token in the place of a newer one.
THEOREM TokensMoveForward == Spec => NeverBackwards
<1>1. TokenInv /\ [Next]_vars => [auth' >= auth]_vars
  <2> SUFFICES ASSUME TokenInv, Next PROVE auth' >= auth
    OBVIOUS
  <2>1. auth \in Nat /\ issued \in Nat
    BY DEF TokenInv, TypeOK
  <2>2. CASE auth' = auth
    BY <2>1, <2>2
  <2>3. ASSUME NEW c \in Callers, Store(c) PROVE auth' >= auth
    BY <2>1, <2>3 DEF Store, Goto, TokenInv, MutexOrder
  <2> QED
    BY <2>2, <2>3 DEF Next, Refresh, Begin, AuthInfo, Invoke, Lock, Login, Revoke
<1> QED
  BY <1>1, TokenInvariant, PTL DEF Spec, NeverBackwards

\* A call returns 401 only if a token was revoked after its own login.
THEOREM RetryUsesAFreshToken == Spec => []RetryIsFresh
<1>1. Init => RetryIsFresh
  BY DEF Init, RetryIsFresh
<1>2. TokenInv /\ RetryIsFresh /\ [Next]_vars => RetryIsFresh'
  <2> SUFFICES ASSUME TokenInv, RetryIsFresh, [Next]_vars,
                      NEW d \in Callers, (result[d] = "unauthorized" /\ at[d] = "idle")'
               PROVE  d \in lapsed'
    BY DEF RetryIsFresh
  <2> USE DEF RetryIsFresh, TokenInv, TypeOK, GoodToken
  <2>1. ASSUME NEW c \in Callers, Begin(c) PROVE d \in lapsed'
    BY <2>1 DEF Begin, Goto
  <2>2. ASSUME NEW c \in Callers, AuthInfo(c) PROVE d \in lapsed'
    BY <2>2 DEF AuthInfo, Goto
  <2>3. ASSUME NEW c \in Callers, Invoke(c) PROVE d \in lapsed'
    BY <2>3 DEF Invoke, Ends, Goto
  <2>4. ASSUME NEW c \in Callers, Lock(c) PROVE d \in lapsed'
    BY <2>4 DEF Lock, Goto
  <2>5. ASSUME NEW c \in Callers, Login(c) PROVE d \in lapsed'
    BY <2>5 DEF Login, Ends, Goto
  <2>6. ASSUME NEW c \in Callers, Store(c) PROVE d \in lapsed'
    BY <2>6 DEF Store, Goto
  <2>7. CASE Revoke
    BY <2>7 DEF Revoke
  <2>8. CASE UNCHANGED vars
    BY <2>8 DEF vars
  <2> QED
    BY <2>1, <2>2, <2>3, <2>4, <2>5, <2>6, <2>7, <2>8 DEF Next, Refresh
<1> QED
  BY <1>1, <1>2, TokenInvariant, PTL DEF Spec
=============================================================================
