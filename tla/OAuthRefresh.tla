---------------------------- MODULE OAuthRefresh ----------------------------
(***************************************************************************)
(* Access tokens of crates/fox-oauth: the cache, the silent refresh and the *)
(* table of locks that keeps refreshes of one key apart.  Keys (client and  *)
(* token URL) do not meet, so one key is modelled.                          *)
(*                                                                          *)
(* Actors: requests that need a token, in parallel; the user, who may       *)
(* authorize again meanwhile; the token server; and time.  A step is one    *)
(* access to the cache, the table, a lock or its reference count.           *)
(*                                                                          *)
(* Left out: the authorization flow before it stores its token, and the     *)
(* contents of tokens and errors.                                           *)
(***************************************************************************)
EXTENDS Naturals, FiniteSets

CONSTANTS
  Caller,            \* requests that may overlap
  NoToken,           \* no token
  MaxLocks,          \* bound: locks that exist at a time
  MaxTokens,         \* bound: tokens issued by the server
  MaxAuthorizations  \* bound: authorizations by the user

ASSUME OAuthAssumption ==
  /\ IsFiniteSet(Caller)
  /\ {MaxLocks, MaxTokens, MaxAuthorizations} \subseteq Nat

\* A token: the authorization it descends from, its number at the server, and
\* whether it came with a refresh token.
Token == [auth : Nat, number : Nat, renews : BOOLEAN]

\* The token found in the AuthSpec.
SpecToken == [auth |-> 0, number |-> 0, renews |-> TRUE]

ASSUME NoTokenIsNone == NoToken \notin Token

VARIABLES
  cache,     \* CACHE: a token or NoToken
  stale,     \* tokens that expired or will within a minute
  table,     \* REFRESH_LOCKS: the lock of the key, 0 if there is no entry
  at,        \* where each caller is
  expired,   \* the token a caller wants to refresh
  lock,      \* the lock a caller has a reference to, 0 if none
  spent,     \* history: tokens whose refresh token was exchanged
  apart,     \* history: "yes" until a caller's decision was overtaken
  issued, auths  \* counters for numbers and bounds

counters == <<issued, auths>>
vars == <<cache, stale, table, at, expired, lock, spent, apart, counters>>

Init ==
  /\ cache = NoToken /\ stale \in {{}, {SpecToken}}
  /\ table = 0
  /\ at = [c \in Caller |-> "idle"]
  /\ expired = [c \in Caller |-> NoToken] /\ lock = [c \in Caller |-> 0]
  /\ spent = {} /\ apart = "yes"
  /\ issued = 0 /\ auths = 0

Goto(c, place) == at' = [at EXCEPT ![c] = place]

Valid == cache # NoToken /\ cache \notin stale

Overtaken(places, c) ==
  apart' = IF \E d \in Caller \ {c} : at[d] \in places THEN "no" ELSE apart

-----------------------------------------------------------------------------
(* access_token_for.  A call that finds a valid token at once leaves no     *)
(* trace; the others begin with Miss.                                       *)

Miss(c) ==
  /\ at[c] = "idle" /\ ~Valid /\ Goto(c, "check")
  /\ UNCHANGED <<cache, stale, table, expired, lock, spent, apart,
                 counters>>

\* Whether the cache is empty, so that the token of the spec is to be stored.
\* The spec may have none.
CheckEmpty(c) ==
  /\ at[c] = "check"
  /\ \E place \in IF cache = NoToken THEN {"seed", "look"} ELSE {"look"} :
       Goto(c, place)
  /\ UNCHANGED <<cache, stale, table, expired, lock, spent, apart,
                 counters>>

Seed(c) ==
  /\ at[c] = "seed" /\ Goto(c, "look")
  /\ cache' = SpecToken
  /\ UNCHANGED <<stale, table, expired, lock, spent, apart, counters>>

\* The call ends with the cached token, or unauthorized, or goes on to refresh.
Look(c) ==
  /\ at[c] = "look"
  /\ IF cache = NoToken \/ Valid
     THEN Goto(c, "idle") /\ UNCHANGED expired
     ELSE Goto(c, "lock") /\ expired' = [expired EXCEPT ![c] = cache]
  /\ UNCHANGED <<cache, stale, table, lock, spent, apart, counters>>

-----------------------------------------------------------------------------
(* refresh_with_dedupe *)

Holders(l) == {d \in Caller : lock[d] = l}

\* Addresses no lock has.  A new lock gets the lowest, which gives locks that
\* are gone no name.
Free == {l \in 1 .. MaxLocks : Holders(l) = {}}

\* refresh_lock: a reference to the lock of the table, made if need be.
GetLock(c) ==
  /\ at[c] = "lock" /\ Goto(c, "wait")
  /\ IF table = 0
     THEN \E l \in Free : table' = l /\ \A k \in Free : l <= k
     ELSE table' = table
  /\ lock' = [lock EXCEPT ![c] = table']
  /\ UNCHANGED <<cache, stale, expired, spent, apart, counters>>

Locked(c) == at[c] \in {"recheck", "exchange"}

Acquire(c) ==
  /\ at[c] = "wait" /\ Goto(c, "recheck")
  /\ \A d \in Caller : Locked(d) => lock[d] # lock[c]
  /\ UNCHANGED <<cache, stale, table, expired, lock, spent, apart,
                 counters>>

\* Slip: the cache is not looked at again under the lock.
RecheckNever(c) ==
  /\ at[c] = "recheck" /\ Goto(c, "exchange")
  /\ UNCHANGED <<cache, stale, table, expired, lock, spent, apart,
                 counters>>

\* Another caller may have refreshed meanwhile; without a refresh token the
\* call ends, too.
Recheck(c) ==
  /\ at[c] = "recheck"
  /\ Goto(c, IF ~Valid /\ expired[c].renews THEN "exchange" ELSE "count")
  /\ UNCHANGED <<cache, stale, table, expired, lock, spent, apart,
                 counters>>

\* The server answers with a token, which is stored, and the lock is free.
ExchangeDone(c) ==
  /\ at[c] = "exchange" /\ Goto(c, "count")
  /\ issued < MaxTokens /\ issued' = issued + 1
  /\ \E renews \in BOOLEAN :
       cache' = [auth |-> expired[c].auth, number |-> issued', renews |-> renews]
  /\ spent' = spent \cup {expired[c]}
  /\ Overtaken({"seed"}, c)
  /\ UNCHANGED <<stale, table, expired, lock, auths>>

\* Refused, failed on the way, or answered with something unreadable.
ExchangeFails(c) ==
  /\ at[c] = "exchange" /\ Goto(c, "count")
  /\ UNCHANGED <<cache, stale, table, expired, lock, spent, apart,
                 counters>>

-----------------------------------------------------------------------------
(* evict_refresh_lock, and the end of the call *)

StrongCount(l) == Cardinality(Holders(l)) + IF table = l THEN 1 ELSE 0

CountHolders(c) ==
  /\ at[c] = "count"
  /\ Goto(c, IF StrongCount(lock[c]) > 2 THEN "drop" ELSE "evict")
  /\ UNCHANGED <<cache, stale, table, expired, lock, spent, apart,
                 counters>>

\* Slip: the references are not counted again under the table's lock.
EvictUncounted(c) ==
  /\ at[c] = "evict" /\ Goto(c, "drop")
  /\ table' = IF table = lock[c] THEN 0 ELSE table
  /\ UNCHANGED <<cache, stale, expired, lock, spent, apart, counters>>

Evict(c) ==
  /\ at[c] = "evict" /\ Goto(c, "drop")
  /\ table' = IF table = lock[c] /\ StrongCount(lock[c]) <= 2 THEN 0 ELSE table
  /\ UNCHANGED <<cache, stale, expired, lock, spent, apart, counters>>

Drop(c) ==
  /\ at[c] = "drop" /\ Goto(c, "idle")
  /\ lock' = [lock EXCEPT ![c] = 0]
  /\ expired' = [expired EXCEPT ![c] = NoToken]
  /\ UNCHANGED <<cache, stale, table, spent, apart, counters>>

-----------------------------------------------------------------------------
(* The user and time *)

Refreshing == {"lock", "wait", "recheck", "exchange"}

\* authorize stores the token of a new authorization.
Authorize ==
  /\ auths < MaxAuthorizations /\ auths' = auths + 1
  /\ issued < MaxTokens /\ issued' = issued + 1
  /\ \E renews \in BOOLEAN :
       cache' = [auth |-> auths', number |-> issued', renews |-> renews]
  /\ apart' = IF \E d \in Caller : at[d] \in {"seed"} \cup Refreshing
              THEN "no" ELSE apart
  /\ UNCHANGED <<stale, table, at, expired, lock, spent>>

\* The cached token comes within a minute of its end, maybe under callers that
\* still wait to refresh the one before.
Age ==
  /\ Valid /\ stale' = stale \cup {cache}
  /\ apart' = IF \E d \in Caller : at[d] \in Refreshing THEN "no" ELSE apart
  /\ UNCHANGED <<cache, table, at, expired, lock, spent, counters>>

-----------------------------------------------------------------------------

Exchange(c) == ExchangeDone(c) \/ ExchangeFails(c)

\* Steps of a caller that need nobody else.
Run(c) ==
  \/ CheckEmpty(c) \/ Seed(c) \/ Look(c) \/ GetLock(c) \/ Acquire(c)
  \/ Recheck(c) \/ CountHolders(c) \/ Evict(c) \/ Drop(c)

Next == Authorize \/ Age \/ \E c \in Caller : Miss(c) \/ Run(c) \/ Exchange(c)

Spec == Init /\ [][Next]_vars

\* Callers are polled, and tokio's mutex serves its waiters in turn.  That the
\* server answers is an assumption: the code sets no limit to it, the token
\* client has a timeout for connecting only.
Fairness ==
  \A c \in Caller : WF_vars(Run(c)) /\ SF_vars(Acquire(c)) /\ WF_vars(Exchange(c))

FairSpec == Spec /\ Fairness

-----------------------------------------------------------------------------
(* Properties *)

Places == {"idle", "check", "seed", "look", "lock", "wait", "recheck",
           "exchange", "count", "evict", "drop"}

TypeOK ==
  /\ cache \in Token \cup {NoToken} /\ stale \subseteq Token
  /\ table \in 0 .. MaxLocks
  /\ at \in [Caller -> Places]
  /\ expired \in [Caller -> Token \cup {NoToken}]
  /\ lock \in [Caller -> 0 .. MaxLocks]
  /\ \A c \in Caller : lock[c] # 0 <=>
       at[c] \in {"wait", "recheck", "exchange", "count", "evict", "drop"}
  /\ \A c \in Caller : at[c] \in Refreshing => expired[c] # NoToken
  /\ spent \subseteq Token /\ apart \in {"yes", "no"}
  /\ {issued, auths} \subseteq Nat

\* Refreshes of a key never overlap, although the lock that keeps them apart is
\* thrown away and made anew all the time.
OneExchange ==
  \A c, d \in Caller : at[c] = "exchange" /\ at[d] = "exchange" => c = d

\* Calls that want to refresh the same token share one refresh: as long as no
\* caller was overtaken, no refresh token is exchanged a second time.
SharedRefresh ==
  [][\A c \in Caller : apart = "yes" /\ ExchangeDone(c) =>
       expired[c] \notin spent]_vars

\* As long as no caller was overtaken, a token of a new authorization is never
\* replaced by one of an older.
AuthorizationStays ==
  [][apart = "yes" /\ apart' = "yes" /\ cache # NoToken =>
       cache' # NoToken /\ cache'.auth >= cache.auth]_vars

\* A call for a token ends, if the server answers.
CallsEnd ==
  \A c \in Caller : at[c] # "idle" ~> at[c] = "idle"

\* A token is refreshed once, and never in place of a newer authorization.
RefreshOnce == SharedRefresh /\ AuthorizationStays
=============================================================================
