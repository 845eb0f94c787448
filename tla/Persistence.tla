------------------------------ MODULE Persistence ------------------------------
(***************************************************************************)
(* What the application keeps over restarts and what it does not: the       *)
(* counters, beside the master key with the columns it seals, the snapshots *)
(* and logs of a start, and the jar and proxy of HTTP requests.  They share *)
(* the data directory and no state that one changes and another reads.      *)
(***************************************************************************)
EXTENDS SeqCounters

CONSTANTS
  Thread,      \* commands that may need the key at a time
  Other,       \* data directories besides the default one
  Slot,        \* sealed columns
  MaxKeys,     \* bound: keys
  MaxStarts,   \* bound: starts
  Retention,   \* SNAPSHOT_RETENTION
  MaxSecond,   \* bound: seconds a clock shows
  MaxDay,      \* bound: days
  Keeps,       \* days for which logs can be kept
  Req,         \* HTTP requests
  Setter,      \* calls of set_http_proxy
  Proxy,       \* addresses of proxies
  Direct,      \* no proxy
  Host,        \* hosts and domains
  Above,       \* pairs of a domain and one below it
  Content,     \* values of cookies
  NoValue,     \* the empty one
  MaxHour,     \* bound: hours
  MaxCame      \* bound: cookies that come

ASSUME PersistenceAssumption ==
  /\ "none" \notin Thread \cup Other \cup {"home"} /\ MaxKeys \in Nat \ {0} /\ MaxStarts \in Nat
  /\ Retention \in Nat \ {0} /\ MaxSecond \in Nat \ {0} /\ MaxDay \in Nat /\ Keeps \subseteq Nat \ {0}
  /\ MaxHour \in Nat /\ MaxCame \in Nat

VARIABLES
  override, legacy, keys, rows, open, cache, lock, thread, starts, settled,
  phase, database, snapshots, now, since, onward, logs, writing, day, ahead, keep,
  jar, newest, came, clock, place, client, pair, setting, step, asked, calm

vault == <<override, legacy, keys, rows, open, cache, lock, thread, starts, settled>>
boot == <<phase, database, snapshots, now, since, onward, logs, writing, day, ahead, keep>>
shared == <<jar, newest, came, clock, place, client, pair, setting, step, asked, calm>>

V == INSTANCE Vault WITH held <- lock
S == INSTANCE Startup WITH MaxTime <- MaxSecond
H == INSTANCE HttpSession WITH MaxTime <- MaxHour, Value <- Content, at <- place

\* All threads have one key, which opens what was sealed, after a restart too.
KeyFits == V!TypeOK /\ V!OneKey /\ V!OpensAgain /\ V!ReadsOpen

\* A request carries the cookies that were set last, and the proxy that is saved
\* is the one in use.
SharedIsTrue == H!CarriesNewest /\ H!SerialProxyRestored

\* A start leaves a snapshot to go back to, and the log file that is written to.
StartKeeps == []S!WayBack /\ S!OpenLogStays
================================================================================
