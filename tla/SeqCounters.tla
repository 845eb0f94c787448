----------------------------- MODULE SeqCounters -----------------------------
(***************************************************************************)
(* The counters behind {{$seq}} and {{$seq:key}}: the map in memory         *)
(* (crates/fox-core/src/variable.rs), its copy in the settings table        *)
(* (crates/fox-tauri/src/commands/seq.rs) and the merge of a restored       *)
(* backup (commands/backup.rs).                                             *)
(*                                                                          *)
(* Actors: callers running requests and commands in parallel, the settings  *)
(* table, and the process, which may exit and start again.  A step of a     *)
(* caller is one locked section or one query.                               *)
(*                                                                          *)
(* Left out: the request between taking numbers and saving them, and the    *)
(* rest of a backup.                                                        *)
(***************************************************************************)
EXTENDS Naturals

CONSTANTS
  Key,          \* counter names; the empty name is one of them
  Caller,       \* requests and commands that may overlap
  Absent,       \* the key has no entry
  Width,        \* counters count modulo Width (u64, release build)
  Starts,       \* values a user sets a counter to
  BackupMaps,   \* counters found in backup files
  MaxTakes,     \* bound: numbers given out
  MaxChanges,   \* bound: counters set or deleted, backups restored
  MaxFailures,  \* bound: failed writes to the settings table
  MaxRestarts   \* bound: process restarts

Value == 0 .. Width - 1
Counters == [Key -> Value \cup {Absent}]
NoCounters == [k \in Key |-> Absent]

ASSUME SeqAssumption ==
  /\ Width \in Nat /\ Width > 2
  /\ Absent \notin Nat
  /\ Starts \subseteq Value \ {0}
  /\ BackupMaps \subseteq Counters
  /\ {MaxTakes, MaxChanges, MaxFailures, MaxRestarts} \subseteq Nat

VARIABLES
  next,      \* SEQ_COUNTERS: the number each key gives out next
  dirty,     \* SEQ_DIRTY: "dirty" or "clean"
  disk,      \* setting seq_counters
  at,        \* where each caller is
  held,      \* the map a caller has copied and not yet written or loaded
  last,      \* history: last number given out since the key was last changed
             \* by a user, wrapped, or cut off by a restart, 0 if none
  writers,   \* history: "apart" as long as no caller copied the map while
             \* another held a copy, and none changed it during a restore
  takes, changes, failures, restarts   \* counters for the bounds

bounds == <<takes, changes, failures, restarts>>
vars == <<next, dirty, disk, at, held, last, writers, bounds>>

-----------------------------------------------------------------------------

Init ==
  /\ next = NoCounters /\ disk = NoCounters /\ dirty = "clean"
  /\ at = [c \in Caller |-> "idle"] /\ held = [c \in Caller |-> NoCounters]
  /\ last = [k \in Key |-> 0] /\ writers = "apart"
  /\ takes = 0 /\ changes = 0 /\ failures = 0 /\ restarts = 0

Goto(c, place) == at' = [at EXCEPT ![c] = place]

\* The caller is done and drops its copy.
Return(c) == Goto(c, "idle") /\ held' = [held EXCEPT ![c] = NoCounters]

\* A caller holds a copy between copying the map and its last use of the copy.
Holding(c) == at[c] \in {"write", "store", "load"}
Restoring(c) == at[c] \in {"store", "load"}

Copied(c) ==
  writers' = IF \E d \in Caller \ {c} : Holding(d) THEN "crossed" ELSE writers

Changed ==
  writers' = IF \E d \in Caller : Restoring(d) THEN "crossed" ELSE writers

-----------------------------------------------------------------------------
(* A request resolves its variables, is sent, and then saves the counters   *)
(* if they were marked dirty, whether it was answered or not.               *)

StartRequest(c) ==
  /\ at[c] = "idle" /\ Goto(c, "resolve")
  /\ UNCHANGED <<next, dirty, disk, held, last, writers, bounds>>

\* Slip: a wrapped counter gives out its 0.
OutputOfEntry(k) == IF next[k] = Absent THEN 1 ELSE next[k]

\* seq_value: an entry of 0 counts as none, and numbers start at 1.
Output(k) == IF next[k] \in {Absent, 0} THEN 1 ELSE next[k]

TakeNumber(c, k) ==
  /\ at[c] = "resolve" /\ takes < MaxTakes /\ takes' = takes + 1
  /\ next' = [next EXCEPT ![k] = (Output(k) + 1) % Width]
  /\ dirty' = "dirty"
  /\ last' = [last EXCEPT ![k] = IF Output(k) = Width - 1 THEN 0 ELSE Output(k)]
  /\ Changed
  /\ UNCHANGED <<disk, at, held, changes, failures, restarts>>

FinishRequest(c) ==
  /\ at[c] = "resolve" /\ Goto(c, "check")
  /\ UNCHANGED <<next, dirty, disk, held, last, writers, bounds>>

\* take_seq_dirty
CheckDirty(c) ==
  /\ at[c] = "check"
  /\ dirty' = "clean"
  /\ Goto(c, IF dirty = "dirty" THEN "copy" ELSE "idle")
  /\ UNCHANGED <<next, disk, held, last, writers, bounds>>

\* sync_seq_counters: copy the map, then write it.
CopyCounters(c) ==
  /\ at[c] = "copy"
  /\ held' = [held EXCEPT ![c] = next]
  /\ Copied(c)
  /\ Goto(c, "write")
  /\ UNCHANGED <<next, dirty, disk, last, bounds>>

\* Slip: the mark is cleared when the write is done.
WriteClearsMark(c) ==
  /\ at[c] = "write"
  /\ disk' = held[c] /\ dirty' = "clean"
  /\ Return(c)
  /\ UNCHANGED <<next, last, writers, bounds>>

WriteCopy(c) ==
  /\ at[c] = "write"
  /\ disk' = held[c]
  /\ Return(c)
  /\ UNCHANGED <<next, dirty, last, writers, bounds>>

\* The write fails: logged after a request, an error of a command.
WriteFails(c) ==
  /\ at[c] = "write" /\ failures < MaxFailures /\ failures' = failures + 1
  /\ Return(c)
  /\ UNCHANGED <<next, dirty, disk, last, writers, takes, changes, restarts>>

-----------------------------------------------------------------------------
(* The commands set_seq_counter and delete_seq_counter: change the entry    *)
(* under the lock, mark after its release, then save whatever the mark says.*)

Change(c, k, v) ==
  /\ at[c] = "idle" /\ changes < MaxChanges /\ changes' = changes + 1
  /\ next' = [next EXCEPT ![k] = v]
  /\ last' = [last EXCEPT ![k] = 0]
  /\ Changed
  /\ Goto(c, "mark")
  /\ UNCHANGED <<dirty, disk, held, takes, failures, restarts>>

Mark(c) ==
  /\ at[c] = "mark" /\ dirty' = "dirty"
  /\ Goto(c, "copy")
  /\ UNCHANGED <<next, disk, held, last, writers, bounds>>

SetCounter(c) == \E k \in Key, v \in Starts : Change(c, k, v)
DeleteCounter(c) == \E k \in Key : Change(c, k, Absent)

-----------------------------------------------------------------------------
(* restore_globals: copy the map and merge the file into it, write the      *)
(* merged map, then load it over the map in memory.  Neither marks dirty.   *)

Merged(m, file) ==
  [k \in Key |->
     IF file[k] = Absent THEN m[k]
     ELSE IF m[k] = Absent \/ m[k] < file[k] THEN file[k] ELSE m[k]]

RestoreBackup(c) ==
  /\ at[c] = "idle" /\ changes < MaxChanges /\ changes' = changes + 1
  /\ \E file \in BackupMaps : held' = [held EXCEPT ![c] = Merged(next, file)]
  /\ Copied(c)
  /\ Goto(c, "store")
  /\ UNCHANGED <<next, dirty, disk, last, takes, failures, restarts>>

StoreMerged(c) ==
  /\ at[c] = "store"
  /\ disk' = held[c]
  /\ Goto(c, "load")
  /\ UNCHANGED <<next, dirty, held, last, writers, bounds>>

StoreFails(c) ==
  /\ at[c] = "store" /\ failures < MaxFailures /\ failures' = failures + 1
  /\ Return(c)
  /\ UNCHANGED <<next, dirty, disk, last, writers, takes, changes, restarts>>

\* load_seq_counters: an entry of the copy replaces the one in the map.
LoadMerged(c) ==
  /\ at[c] = "load"
  /\ next' = [k \in Key |-> IF held[c][k] = Absent THEN next[k] ELSE held[c][k]]
  /\ Return(c)
  /\ UNCHANGED <<dirty, disk, last, writers, bounds>>

-----------------------------------------------------------------------------

AtRest == \A c \in Caller : at[c] = "idle"

\* The process ends and starts: apply_saved_seq_counters into an empty map.  A
\* restart that cuts something off, or comes after a failed write, excuses
\* numbers that are given out again.
Restart ==
  /\ restarts < MaxRestarts /\ restarts' = restarts + 1
  /\ next' = disk /\ dirty' = "clean"
  /\ at' = [c \in Caller |-> "idle"]
  /\ held' = [c \in Caller |-> NoCounters]
  /\ last' = IF AtRest /\ failures = 0 THEN last ELSE [k \in Key |-> 0]
  /\ UNCHANGED <<disk, writers, takes, changes, failures>>

Step(c) ==
  \/ StartRequest(c) \/ (\E k \in Key : TakeNumber(c, k)) \/ FinishRequest(c)
  \/ CheckDirty(c) \/ CopyCounters(c) \/ WriteCopy(c) \/ WriteFails(c)
  \/ SetCounter(c) \/ DeleteCounter(c) \/ Mark(c)
  \/ RestoreBackup(c) \/ StoreMerged(c) \/ StoreFails(c) \/ LoadMerged(c)

Next == Restart \/ \E c \in Caller : Step(c)

Spec == Init /\ [][Next]_vars

-----------------------------------------------------------------------------
(* Properties *)

TypeOK ==
  /\ next \in Counters /\ disk \in Counters
  /\ dirty \in {"dirty", "clean"}
  /\ at \in [Caller -> {"idle", "resolve", "check", "mark", "copy", "write",
                        "store", "load"}]
  /\ held \in [Caller -> Counters]
  /\ last \in [Key -> Value] /\ writers \in {"apart", "crossed"}
  /\ {takes, changes, failures, restarts} \subseteq Nat

\* When no request or command is running, the table holds what the user sees,
\* so a restart shows the same numbers.
SavedAtRest == AtRest /\ failures = 0 => disk = next

\* The same, for callers whose copies did not cross.
SavedAtRestApart == writers = "apart" => SavedAtRest

\* A change is never forgotten: as long as the table differs from the map, the
\* mark is set or a caller is about to mark, copy, write or load the map as it
\* is.
NothingForgotten ==
  writers = "apart" /\ failures = 0 =>
    \/ disk = next \/ dirty = "dirty"
    \/ \E c \in Caller :
         \/ at[c] \in {"mark", "copy"}
         \/ at[c] = "write" /\ held[c] = next
         \/ at[c] \in {"store", "load"}

\* The same, for callers whose copies did not cross.
NumbersAscendApart ==
  [][\A c \in Caller, k \in Key : writers = "apart" /\ TakeNumber(c, k) =>
       Output(k) > last[k]]_vars

\* The table holds the counters, or somebody is about to see to it.
CountersSaved == TypeOK /\ SavedAtRestApart /\ NothingForgotten
=============================================================================
