----------------------------- MODULE OAuth_proofs -----------------------------
(***************************************************************************)
(* Refreshes of a token, for any number of requests, and authorization      *)
(* flows, for any number of flows and of stale tabs.                        *)
(*                                                                          *)
(* The argument about the locks (Locks) does not look at tokens: whoever    *)
(* waits for a lock or has it refers to the lock of the table, because the  *)
(* entry goes only when its last holder lets it go.  So the locks of two    *)
(* callers in the exchange would be one.  The argument about the tokens     *)
(* (Tokens) builds on it, and holds until a caller is overtaken.            *)
(*                                                                         *)
(* A flow takes the first message of its channel (Heard) and hears "code"   *)
(* only from its own tab (OwnCode); nothing that comes later changes either. *)
(* Servers do not meet, because a flow binds the port when it is free and a *)
(* server that was told to stop keeps it until its task has ended.          *)
(***************************************************************************)
EXTENDS OAuth, FiniteSetTheorems, TLAPS

Holding == {"wait", "recheck", "exchange", "count", "evict", "drop"}

TypedLocks ==
  /\ table \in 0 .. MaxLocks
  /\ at \in [Caller -> Places]
  /\ lock \in [Caller -> 0 .. MaxLocks]

TypedTokens ==
  /\ cache \in Token \cup {NoToken} /\ stale \subseteq Token
  /\ expired \in [Caller -> Token \cup {NoToken}]
  /\ spent \subseteq Token /\ apart \in {"yes", "no"}
  /\ issued \in Nat /\ auths \in Nat

Held == \A c \in Caller : lock[c] # 0 <=> at[c] \in Holding

\* Who waits for a lock or has it refers to the lock of the table.
OfTable ==
  \A c \in Caller : at[c] \in {"wait", "recheck", "exchange"} => lock[c] = table

\* A lock has one owner.
Exclusive ==
  \A c, d \in Caller : Locked(c) /\ Locked(d) /\ lock[c] = lock[d] => c = d

Locks == TypedLocks /\ Held /\ OfTable /\ Exclusive

\* A caller in the refresh knows the token it refreshes.
Known == \A c \in Caller : at[c] \in Refreshing => expired[c] # NoToken

\* Tokens are numbered up to issued, authorizations up to auths.
Numbered ==
  /\ cache # NoToken => cache.number <= issued /\ cache.auth <= auths
  /\ \A c \in Caller : expired[c] # NoToken =>
       expired[c].number <= issued /\ expired[c].auth <= auths
  /\ \A t \in spent \cup stale : t.number <= issued

\* Until a caller is overtaken, the cached token was not exchanged, a caller
\* that is about to store the token of the spec does no harm, and a caller in
\* the refresh wants the cached token replaced, or finds it replaced.
Current ==
  apart = "yes" =>
    /\ cache = NoToken => spent = {}
    /\ cache \notin spent
    /\ \A c \in Caller : at[c] = "seed" =>
         cache \in {NoToken, SpecToken} /\ spent = {}
    /\ \A c \in Caller : at[c] \in Refreshing => Valid \/ expired[c] = cache
    /\ \A c \in Caller : at[c] = "exchange" => ~Valid

Tokens == TypedTokens /\ Known /\ Numbered /\ Current

-----------------------------------------------------------------------------
(* Locks *)

\* Who counts two references to the lock of the table, its own and the
\* table's, is its only holder.
LEMMA OnlyHolder ==
  ASSUME NEW c \in Caller, table = lock[c], StrongCount(lock[c]) <= 2
  PROVE  \A d \in Caller : lock[d] = lock[c] => d = c
<1> DEFINE H == Holders(lock[c])
<1>1. IsFiniteSet(Caller)
  BY OAuthAssumption
<1>2. H \subseteq Caller /\ c \in H
  BY DEF Holders
<1>3. IsFiniteSet(H)
  BY <1>1, <1>2, FS_Subset
<1>4. Cardinality(H) \in Nat
  BY <1>3, FS_CardinalityType
<1>5. Cardinality(H) <= 1
  BY <1>4 DEF StrongCount
<1>6. Cardinality(H) = 1
  <2>1. Cardinality({c}) = 1
    BY FS_Singleton
  <2>2. Cardinality({c}) <= Cardinality(H)
    BY <1>2, <1>3, FS_Subset
  <2> QED
    BY <2>1, <2>2, <1>4, <1>5
<1>7. PICK x : H = {x}
  BY <1>3, <1>6, FS_Singleton
<1> QED
  BY <1>2, <1>7 DEF Holders

LEMMA LocksInit == Init => Locks
BY OAuthAssumption DEF Init, Locks, TypedLocks, Held, OfTable, Exclusive, Locked,
   Places, Holding

LEMMA LocksStep == Locks /\ [Next]_vars => Locks'
<1> SUFFICES ASSUME Locks, [Next]_vars PROVE Locks'
  OBVIOUS
<1> USE DEF Locks, TypedLocks, Held, OfTable, Exclusive, Locked, Places, Holding
<1>1. ASSUME NEW c \in Caller, Miss(c) PROVE Locks'
  BY <1>1 DEF Miss, Goto
<1>2. ASSUME NEW c \in Caller, CheckEmpty(c) PROVE Locks'
  BY <1>2 DEF CheckEmpty, Goto
<1>3. ASSUME NEW c \in Caller, Seed(c) PROVE Locks'
  BY <1>3 DEF Seed, Goto
<1>4. ASSUME NEW c \in Caller, Look(c) PROVE Locks'
  BY <1>4 DEF Look, Goto
<1>5. ASSUME NEW c \in Caller, GetLock(c) PROVE Locks'
  <2>1. table' \in 0 .. MaxLocks /\ table' # 0 /\ lock' = [lock EXCEPT ![c] = table']
    BY <1>5, OAuthAssumption DEF GetLock, Free
  <2>2. at[c] = "lock" /\ at' = [at EXCEPT ![c] = "wait"]
    BY <1>5 DEF GetLock, Goto
  <2>3. table # 0 => table' = table
    BY <1>5 DEF GetLock
  <2> QED
    BY <2>1, <2>2, <2>3
<1>6. ASSUME NEW c \in Caller, Acquire(c) PROVE Locks'
  BY <1>6 DEF Acquire, Goto
<1>7. ASSUME NEW c \in Caller, Recheck(c) PROVE Locks'
  BY <1>7 DEF Recheck, Goto
<1>8. ASSUME NEW c \in Caller, ExchangeDone(c) PROVE Locks'
  BY <1>8 DEF ExchangeDone, Goto
<1>9. ASSUME NEW c \in Caller, ExchangeFails(c) PROVE Locks'
  BY <1>9 DEF ExchangeFails, Goto
<1>10. ASSUME NEW c \in Caller, CountHolders(c) PROVE Locks'
  BY <1>10 DEF CountHolders, Goto
<1>11. ASSUME NEW c \in Caller, Evict(c) PROVE Locks'
  <2>1. at[c] = "evict" /\ at' = [at EXCEPT ![c] = "drop"] /\ lock' = lock
    BY <1>11 DEF Evict, Goto
  <2>2. CASE table' = table
    BY <2>1, <2>2
  <2>3. CASE table = lock[c] /\ StrongCount(lock[c]) <= 2 /\ table' = 0
    <3>1. \A d \in Caller : lock[d] = table => d = c
      BY <2>3, OnlyHolder
    <3> QED
      BY <2>1, <2>3, <3>1, OAuthAssumption
  <2> QED
    BY <1>11, <2>2, <2>3 DEF Evict
<1>12. ASSUME NEW c \in Caller, Drop(c) PROVE Locks'
  BY <1>12, OAuthAssumption DEF Drop, Goto
<1>13. CASE Authorize
  BY <1>13 DEF Authorize
<1>14. CASE Age
  BY <1>14 DEF Age
<1>15. CASE UNCHANGED vars
  BY <1>15 DEF vars
<1> QED
  BY <1>1, <1>2, <1>3, <1>4, <1>5, <1>6, <1>7, <1>8, <1>9, <1>10, <1>11, <1>12, <1>13, <1>14,
       <1>15 DEF Next, Run, Exchange

LEMMA LocksHold == Spec => []Locks
BY LocksInit, LocksStep, PTL DEF Spec

\* Refreshes of a key never overlap (refresh_with_dedupe, evict_refresh_lock).
THEOREM RefreshesApart == Spec => []OneExchange
<1>1. Locks => OneExchange
  BY DEF Locks, TypedLocks, OfTable, Exclusive, Locked, OneExchange
<1> QED
  BY <1>1, LocksHold, PTL

-----------------------------------------------------------------------------
(* Tokens *)

LEMMA TokensInit == Init => Tokens
<1> SUFFICES ASSUME Init PROVE Tokens
  OBVIOUS
<1>1. SpecToken \in Token /\ SpecToken.number = 0
  BY DEF SpecToken, Token
<1>2. stale \subseteq {SpecToken} /\ cache = NoToken /\ spent = {}
  BY DEF Init
<1>3. TypedTokens /\ Numbered
  BY <1>1, <1>2 DEF Init, TypedTokens, Numbered
<1>4. Known /\ Current
  BY <1>2 DEF Init, Known, Current, Refreshing
<1> QED
  BY <1>3, <1>4 DEF Tokens

LEMMA TokensStep == Locks /\ Tokens /\ [Next]_vars => Tokens'
<1> SUFFICES ASSUME Locks, Tokens, [Next]_vars PROVE Tokens'
  OBVIOUS
<1> USE DEF Tokens, TypedTokens, Known, Numbered, Current, Refreshing, Valid
<1>0. at \in [Caller -> Places] /\ NoToken \notin Token
  BY NoTokenIsNone DEF Locks, TypedLocks
<1>1. ASSUME NEW c \in Caller, Miss(c) PROVE Tokens'
  BY <1>0, <1>1 DEF Miss, Goto, counters
<1>2. ASSUME NEW c \in Caller, CheckEmpty(c) PROVE Tokens'
  BY <1>0, <1>2 DEF CheckEmpty, Goto, counters
<1>3. ASSUME NEW c \in Caller, Seed(c) PROVE Tokens'
  <2>1. SpecToken \in Token /\ SpecToken.number = 0 /\ SpecToken.auth = 0
    BY DEF SpecToken, Token
  <2>2. cache' = SpecToken /\ at[c] = "seed" /\ at' = [at EXCEPT ![c] = "look"]
    BY <1>3 DEF Seed, Goto
  <2>3. UNCHANGED <<stale, expired, spent, apart, issued, auths>>
    BY <1>3 DEF Seed, counters
  <2>4. TypedTokens' /\ Known' /\ Numbered'
    BY <1>0, <2>1, <2>2, <2>3
  <2>5. Current'
    BY <1>0, <2>1, <2>2, <2>3
  <2> QED
    BY <2>4, <2>5
<1>4. ASSUME NEW c \in Caller, Look(c) PROVE Tokens'
  BY <1>0, <1>4 DEF Look, Goto, counters
<1>5. ASSUME NEW c \in Caller, GetLock(c) PROVE Tokens'
  BY <1>0, <1>5 DEF GetLock, Goto, counters
<1>6. ASSUME NEW c \in Caller, Acquire(c) PROVE Tokens'
  BY <1>0, <1>6 DEF Acquire, Goto, counters
<1>7. ASSUME NEW c \in Caller, Recheck(c) PROVE Tokens'
  BY <1>0, <1>7 DEF Recheck, Goto, counters
<1>8. ASSUME NEW c \in Caller, ExchangeDone(c) PROVE Tokens'
  <2>1. at[c] = "exchange" /\ at' = [at EXCEPT ![c] = "count"]
    BY <1>8 DEF ExchangeDone, Goto
  <2>2. issued' = issued + 1
        /\ UNCHANGED <<stale, expired, auths>>
        /\ spent' = spent \cup {expired[c]}
    BY <1>8 DEF ExchangeDone
  <2>3. expired[c] \in Token
    BY <1>0, <2>1
  <2>4. cache' \in Token /\ cache'.number = issued + 1
        /\ cache'.auth = expired[c].auth
    BY <1>8, <2>2, <2>3 DEF ExchangeDone, Token
  <2>5. apart' \in {"yes", "no"}
        /\ (apart' = "yes" =>
              apart = "yes" /\ \A d \in Caller \ {c} : at[d] # "seed")
    BY <1>8 DEF ExchangeDone, Overtaken
  <2>6. \A d \in Caller : at[d] = "exchange" => d = c
    BY <2>1 DEF Locks, TypedLocks, OfTable, Exclusive, Locked
  <2>7. \A t \in Token : t.number \in Nat
    BY DEF Token
  <2>8. TypedTokens' /\ Known'
    BY <1>0, <2>1, <2>2, <2>3, <2>4, <2>5
  <2>9. Numbered'
    BY <1>0, <2>1, <2>2, <2>3, <2>4, <2>7
  <2>10. cache' \notin spent' /\ cache' \notin stale'
    BY <2>2, <2>3, <2>4, <2>7, <1>0, <2>1
  <2>11. Current'
    BY <1>0, <2>1, <2>4, <2>5, <2>6, <2>10
  <2> QED
    BY <2>8, <2>9, <2>11
<1>9. ASSUME NEW c \in Caller, ExchangeFails(c) PROVE Tokens'
  BY <1>0, <1>9 DEF ExchangeFails, Goto, counters
<1>10. ASSUME NEW c \in Caller, CountHolders(c) PROVE Tokens'
  BY <1>0, <1>10 DEF CountHolders, Goto, counters
<1>11. ASSUME NEW c \in Caller, Evict(c) PROVE Tokens'
  BY <1>0, <1>11 DEF Evict, Goto, counters
<1>12. ASSUME NEW c \in Caller, Drop(c) PROVE Tokens'
  BY <1>0, <1>12 DEF Drop, Goto, counters
<1>13. CASE Authorize
  <2>1. /\ auths' = auths + 1 /\ issued' = issued + 1
        /\ UNCHANGED <<stale, at, expired, spent>>
        /\ apart' \in {"yes", "no"}
        /\ apart' = "yes" =>
             apart = "yes" /\ \A d \in Caller : at[d] \notin {"seed"} \cup Refreshing
    BY <1>13 DEF Authorize
  <2>2. cache' \in Token /\ cache'.number = issued + 1 /\ cache'.auth = auths + 1
    BY <1>13, <2>1 DEF Authorize, Token
  <2>3. \A t \in Token : t.number \in Nat /\ t.auth \in Nat
    BY DEF Token
  <2>4. TypedTokens' /\ Known'
    BY <1>0, <2>1, <2>2
  <2>5. Numbered'
    BY <1>0, <2>1, <2>2, <2>3
  <2>6. cache' \notin spent
    BY <2>2, <2>3
  <2>7. Current'
    BY <1>0, <2>1, <2>2, <2>6
  <2> QED
    BY <2>4, <2>5, <2>7
<1>14. CASE Age
  BY <1>0, <1>14 DEF Age, counters
<1>15. CASE UNCHANGED vars
  BY <1>0, <1>15 DEF vars, counters
<1> QED
  BY <1>1, <1>2, <1>3, <1>4, <1>5, <1>6, <1>7, <1>8, <1>9, <1>10, <1>11, <1>12, <1>13, <1>14,
       <1>15 DEF Next, Run, Exchange

LEMMA TokensHold == Spec => []Tokens
BY LocksHold, TokensInit, TokensStep, PTL DEF Spec

\* Every variable keeps its type, and a caller holds a reference to a lock
\* exactly between taking it and letting it go.
THEOREM TypeCorrect == Spec => []TypeOK
<1>1. Locks /\ Tokens => TypeOK
  BY DEF Locks, TypedLocks, Held, Holding, Tokens, TypedTokens, Known, TypeOK
<1> QED
  BY <1>1, LocksHold, TokensHold, PTL

\* Until a caller is overtaken, no refresh token is exchanged twice: waiting
\* callers find the token of the one before (refresh_with_dedupe).
THEOREM RefreshShared == Spec => SharedRefresh
<1> DEFINE Once == \A c \in Caller : apart = "yes" /\ ExchangeDone(c) =>
                     expired[c] \notin spent
<1>1. Tokens => Once
  BY DEF Tokens, Current, ExchangeDone, Refreshing
<1>2. Tokens /\ [Next]_vars => [Once]_vars
  BY <1>1
<1> QED
  BY <1>2, TokensHold, PTL DEF Spec, SharedRefresh

\* Until a caller is overtaken, the cached token's authorization is only ever
\* replaced by a newer one (access_token_for, refresh_with_dedupe, authorize).
THEOREM AuthorizationKept == Spec => AuthorizationStays
<1> DEFINE Newer == apart = "yes" /\ apart' = "yes" /\ cache # NoToken =>
                      cache' # NoToken /\ cache'.auth >= cache.auth
<1>1. ASSUME Tokens, [Next]_vars PROVE Newer
  <2> SUFFICES ASSUME apart = "yes", apart' = "yes", cache # NoToken
               PROVE  cache' # NoToken /\ cache'.auth >= cache.auth
    OBVIOUS
  <2>1. cache \in Token /\ cache.auth \in Nat /\ cache.auth <= auths
        /\ auths \in Nat /\ issued \in Nat /\ NoToken \notin Token
    BY <1>1, NoTokenIsNone DEF Tokens, TypedTokens, Numbered, Token
  <2>2. CASE cache' = cache
    BY <2>1, <2>2
  <2>3. ASSUME NEW c \in Caller, Seed(c)
        PROVE  cache' # NoToken /\ cache'.auth >= cache.auth
    BY <1>1, <2>1, <2>3 DEF Seed, Tokens, Current
  <2>4. ASSUME NEW c \in Caller, ExchangeDone(c)
        PROVE  cache' # NoToken /\ cache'.auth >= cache.auth
    <3>1. expired[c] = cache
      BY <1>1, <2>4 DEF ExchangeDone, Tokens, Current, Refreshing
    <3>2. cache' \in Token /\ cache'.auth = cache.auth
      BY <2>1, <2>4, <3>1 DEF ExchangeDone, Token
    <3> QED
      BY <2>1, <3>2
  <2>5. CASE Authorize
    <3>1. cache' \in Token /\ cache'.auth = auths + 1
      BY <2>1, <2>5 DEF Authorize, Token
    <3> QED
      BY <2>1, <3>1
  <2> QED
    BY <1>1, <2>2, <2>3, <2>4, <2>5
    DEF Next, Run, Exchange, vars, Miss, CheckEmpty, Look, GetLock, Acquire,
        Recheck, ExchangeFails, CountHolders, Evict, Drop, Age
<1>2. Tokens /\ [Next]_vars => [Newer]_vars
  BY <1>1
<1> QED
  BY <1>2, TokensHold, PTL DEF Spec, AuthorizationStays

\* A token is refreshed once, and never in place of a newer authorization.
THEOREM RefreshedOnce == Spec => RefreshOnce
BY RefreshShared, AuthorizationKept DEF RefreshOnce

-----------------------------------------------------------------------------
(* Authorization flows *)

OwnCode == \A f \in Flow : inbox[f] = "code" => brought[f] = f
Heard == \A f \in Flow : where[f] \in {"close", "exchange", "done"} => inbox[f] = "code"

FlowIInv == F!TypeOK /\ OwnCode /\ Heard

\* The flow that is under way is the one that holds AUTHORIZE_LOCK.
LEMMA TypeStep ==
  ASSUME Nobody \notin Flow, F!TypeOK, [F!Next]_(F!vars)
  PROVE  F!TypeOK'
<1>1. ASSUME NEW f \in Flow, F!Begin(f) \/ F!Reject(f) PROVE F!TypeOK'
  BY <1>1 DEF F!TypeOK, F!Begin, F!Reject, F!Goto, F!Ended
<1>2. ASSUME NEW f \in Flow, F!Turn(f) \/ F!Elsewhere(f) PROVE F!TypeOK'
  BY <1>2 DEF F!TypeOK, F!Turn, F!Elsewhere, F!Goto, F!End, F!Ended
<1>3. ASSUME NEW f \in Flow, F!Bind(f) PROVE F!TypeOK'
  BY <1>3 DEF F!TypeOK, F!Bind, F!Goto, F!End, F!Becomes, F!Ended
<1>4. ASSUME NEW f \in Flow, F!Open(f) PROVE F!TypeOK'
  BY <1>4 DEF F!TypeOK, F!Open, F!Goto, F!End, F!Becomes, F!Aborts, F!Bound, F!Ended
<1>5. ASSUME NEW f \in Flow, F!Hear(f) \/ F!TimeOut(f) PROVE F!TypeOK'
  BY <1>5 DEF F!TypeOK, F!Hear, F!TimeOut, F!Goto, F!End, F!Becomes, F!Aborts, F!Bound, F!Ended
<1>6. ASSUME NEW f \in Flow, F!Close(f) PROVE F!TypeOK'
  BY <1>6 DEF F!TypeOK, F!Close, F!Goto, F!Becomes, F!Aborts, F!Bound, F!Ended
<1>7. ASSUME NEW f \in Flow, F!Exchange(f) PROVE F!TypeOK'
  BY <1>7 DEF F!TypeOK, F!Exchange, F!Goto, F!End, F!Ended
<1>8. ASSUME NEW f \in Flow, F!ServerGone(f) PROVE F!TypeOK'
  BY <1>8 DEF F!TypeOK, F!ServerGone, F!Becomes
<1>9. ASSUME NEW f \in Flow, NEW g \in Flow, NEW code \in BOOLEAN, F!Callback(f, g, code)
      PROVE  F!TypeOK'
  <2>1. F!Verdict(f, g, code) \in {"code", "refused"}
    BY DEF F!Verdict
  <2>2. inbox' \in [Flow -> {"none", "code", "refused"}] /\ brought' \in [Flow -> Flow \cup {Nobody}]
    BY <1>9, <2>1 DEF F!TypeOK, F!Callback
  <2>3. server' \in [Flow -> {"off", "on", "draining", "aborted"}]
    BY <1>9 DEF F!TypeOK, F!Callback, F!Becomes
  <2> QED
    BY <1>9, <2>2, <2>3 DEF F!TypeOK, F!Callback
<1>10. CASE F!OtherProgram
  BY <1>10 DEF F!TypeOK, F!OtherProgram
<1>11. CASE UNCHANGED F!vars
  BY <1>11 DEF F!TypeOK, F!vars
<1> QED
  BY <1>1, <1>2, <1>3, <1>4, <1>5, <1>6, <1>7, <1>8, <1>9, <1>10, <1>11 DEF F!Next, F!Run

\* What a flow has heard stays, and was brought by its own tab.
LEMMA CodeStep ==
  ASSUME FlowIInv, [F!Next]_(F!vars)
  PROVE  OwnCode' /\ Heard'
<1> USE DEF FlowIInv, OwnCode, Heard
<1>1. ASSUME NEW f \in Flow, F!Begin(f) \/ F!Reject(f) PROVE OwnCode' /\ Heard'
  BY <1>1 DEF F!TypeOK, F!Begin, F!Reject, F!Goto
<1>2. ASSUME NEW f \in Flow, F!Turn(f) \/ F!Elsewhere(f) PROVE OwnCode' /\ Heard'
  BY <1>2 DEF F!TypeOK, F!Turn, F!Elsewhere, F!Goto, F!End
<1>3. ASSUME NEW f \in Flow, F!Bind(f) \/ F!Open(f) PROVE OwnCode' /\ Heard'
  BY <1>3 DEF F!TypeOK, F!Bind, F!Open, F!Goto, F!End
<1>4. ASSUME NEW f \in Flow, F!Hear(f) \/ F!TimeOut(f) PROVE OwnCode' /\ Heard'
  BY <1>4 DEF F!TypeOK, F!Hear, F!TimeOut, F!Goto, F!End
<1>5. ASSUME NEW f \in Flow, F!Close(f) \/ F!Exchange(f) PROVE OwnCode' /\ Heard'
  BY <1>5 DEF F!TypeOK, F!Close, F!Exchange, F!Goto, F!End
<1>6. ASSUME NEW f \in Flow, NEW g \in Flow, NEW code \in BOOLEAN, F!Callback(f, g, code)
      PROVE  OwnCode' /\ Heard'
  BY <1>6 DEF F!TypeOK, F!Callback, F!Verdict
<1>7. ASSUME UNCHANGED <<where, inbox, brought>> PROVE OwnCode' /\ Heard'
  BY <1>7
<1> QED
  BY <1>1, <1>2, <1>3, <1>4, <1>5, <1>6, <1>7
  DEF F!Next, F!Run, F!ServerGone, F!OtherProgram, F!vars

\* One flow is under way at a time, and the code it exchanges was brought by the
\* tab it opened itself: of authorize_inner, whoever comes to the callback port.
THEOREM CodeIsAlwaysOwn == F!Spec => []CodeIsOwn
<1>1. F!Init => FlowIInv
  BY FlowAssumption DEF F!Init, FlowIInv, F!TypeOK, OwnCode, Heard, F!Ended
<1>2. FlowIInv /\ [F!Next]_(F!vars) => FlowIInv'
  BY FlowAssumption, TypeStep, CodeStep DEF FlowIInv
<1>3. FlowIInv => CodeIsOwn
  BY DEF FlowIInv, OwnCode, Heard, F!CodeIsOwn, CodeIsOwn
<1> QED
  BY <1>1, <1>2, <1>3, PTL DEF F!Spec

\* No two flows have a server at the callback port, and none has one while another
\* program has the port.
OneServer ==
  \A f \in Flow : F!Bound(f) => port = "free" /\ \A g \in Flow : F!Bound(g) => f = g

\* bind_callback_listener takes the port only when it is free, and a server that
\* was told to stop keeps it until it is gone.
THEOREM ServersApart == F!Spec => []OneServer
<1>1. F!Init => OneServer
  BY DEF F!Init, OneServer, F!Bound
<1>2. ASSUME F!TypeOK, OneServer, [F!Next]_(F!vars) PROVE OneServer'
  <2>1. ASSUME NEW f \in Flow, F!Bind(f) PROVE OneServer'
    BY <1>2, <2>1 DEF F!Bind, F!Becomes, OneServer, F!Bound, F!TypeOK
  <2>2. ASSUME port' = port, \A g \in Flow : F!Bound(g)' => F!Bound(g) PROVE OneServer'
    BY <1>2, <2>2 DEF OneServer
  <2>3. ASSUME NEW f \in Flow, server' = [server EXCEPT ![f] = "off"], port' = port PROVE OneServer'
    BY <1>2, <2>2, <2>3 DEF F!TypeOK, F!Bound
  <2>4. ASSUME NEW f \in Flow, F!Bound(f), NEW s, server' = [server EXCEPT ![f] = s], port' = port
        PROVE  OneServer'
    BY <1>2, <2>2, <2>4 DEF F!TypeOK, F!Bound
  <2>5. ASSUME UNCHANGED <<server, port>> PROVE OneServer'
    BY <1>2, <2>5 DEF OneServer, F!Bound
  <2>6. CASE F!OtherProgram
    BY <2>6 DEF F!OtherProgram, OneServer, F!Bound
  <2>7. ASSUME NEW f \in Flow, F!Aborts(f), port' = port PROVE OneServer'
    BY <2>4, <2>5, <2>7 DEF F!Aborts, F!Becomes
  <2>8. ASSUME NEW f \in Flow, F!ServerGone(f) PROVE OneServer'
    BY <2>3, <2>8 DEF F!ServerGone, F!Becomes
  <2>9. ASSUME NEW f \in Flow, NEW g \in Flow, NEW code \in BOOLEAN, F!Callback(f, g, code)
        PROVE  OneServer'
    BY <2>4, <2>9 DEF F!Callback, F!Becomes, F!Bound
  <2>10. ASSUME NEW f \in Flow, F!Open(f) \/ F!Hear(f) \/ F!TimeOut(f) \/ F!Close(f) PROVE OneServer'
    BY <2>5, <2>7, <2>10 DEF F!Open, F!Hear, F!TimeOut, F!Close
  <2>11. ASSUME NEW f \in Flow, F!Begin(f) \/ F!Reject(f) \/ F!Turn(f) \/ F!Elsewhere(f) \/ F!Exchange(f)
         PROVE  OneServer'
    BY <2>5, <2>11 DEF F!Begin, F!Reject, F!Turn, F!Elsewhere, F!Exchange
  <2> QED
    BY <1>2, <2>1, <2>5, <2>6, <2>8, <2>9, <2>10, <2>11 DEF F!Next, F!Run, F!vars
<1> QED
  BY <1>1, <1>2, CodeIsAlwaysOwn, PTL DEF F!Spec, CodeIsOwn
===============================================================================
