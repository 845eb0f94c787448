-------------------------- MODULE Persistence_proofs --------------------------
(***************************************************************************)
(* What is written to disk and read again, for any number of callers,      *)
(* requests, changes, failures and starts: the counters of {{$seq}}, the   *)
(* snapshots that a start makes, the key of the data directory, and the    *)
(* cookies and the proxy that are loaded when the application starts.      *)
(***************************************************************************)
EXTENDS Persistence, FiniteSetTheorems, TLAPS

\* The part of TypeOK the invariants rest on.
Typed ==
  /\ next \in Counters /\ disk \in Counters
  /\ dirty \in {"dirty", "clean"}
  /\ at \in [Caller -> {"idle", "resolve", "check", "mark", "copy", "write",
                        "store", "load"}]
  /\ held \in [Caller -> Counters]
  /\ last \in [Key -> Value] /\ writers \in {"apart", "crossed"}

Counted == {takes, changes, failures, restarts} \subseteq Nat

LEMMA ValueFacts ==
  /\ 0 \in Value
  /\ Value \subseteq Nat
  /\ NoCounters \in Counters
  /\ \A n \in Nat : n % Width \in Value
<1>1. Width \in Nat /\ Width > 2
  BY SeqAssumption
<1>2. 0 \in Value /\ Value \subseteq Nat
  BY <1>1 DEF Value
<1>3. \A n \in Nat : n % Width \in Value
  BY <1>1 DEF Value
<1>4. QED  BY <1>2, <1>3 DEF NoCounters, Counters

LEMMA BelowWidth ==
  ASSUME NEW n \in Nat, NEW w \in Nat, n < w, n # w - 1
  PROVE  (n + 1) % w = n + 1
<1>1. n + 1 \in Nat /\ n + 1 < w
  OBVIOUS
<1>2. ASSUME NEW m \in Nat, m < w PROVE m % w = m
  BY <1>2
<1>3. QED  BY <1>1, <1>2

\* A number given out is a counter value of at least 1.
LEMMA OutputValue ==
  ASSUME Typed, NEW k \in Key
  PROVE  Output(k) \in Value /\ Output(k) > 0
<1>1. next[k] \in Value \cup {Absent}
  BY DEF Typed, Counters
<1>2. 1 \in Value
  BY SeqAssumption DEF Value
<1>3. CASE next[k] \in {Absent, 0}
  BY <1>2, <1>3 DEF Output
<1>4. CASE next[k] \notin {Absent, 0}
  <2>1. next[k] \in Value /\ next[k] # 0 /\ next[k] \in Nat
    BY <1>1, <1>4, ValueFacts
  <2>2. Output(k) = next[k]
    BY <1>4 DEF Output
  <2>3. QED  BY <2>1, <2>2
<1>5. QED  BY <1>3, <1>4

LEMMA NextValue ==
  ASSUME Typed, NEW k \in Key
  PROVE  /\ Output(k) \in Value
         /\ (Output(k) + 1) % Width \in Value
<1>1. Output(k) \in Value
  BY OutputValue
<1>2. Output(k) \in Nat
  BY <1>1, ValueFacts
<1>4. Output(k) + 1 \in Nat
  BY <1>2
<1>3. QED  BY <1>1, <1>4, ValueFacts

\* The merge of a map with a backup is a map, and dominates the map.
LEMMA MergedFacts ==
  ASSUME Typed, NEW file \in BackupMaps
  PROVE  /\ Merged(next, file) \in Counters
         /\ \A k \in Key : next[k] # Absent =>
              /\ Merged(next, file)[k] # Absent
              /\ Merged(next, file)[k] >= next[k]
<1>1. file \in Counters
  BY SeqAssumption
<1>2. ASSUME NEW k \in Key
      PROVE  /\ Merged(next, file)[k] \in Value \cup {Absent}
             /\ next[k] # Absent => /\ Merged(next, file)[k] # Absent
                                    /\ Merged(next, file)[k] >= next[k]
  <2>1. /\ next[k] \in Value \cup {Absent} /\ file[k] \in Value \cup {Absent}
        /\ Value \subseteq Nat /\ Absent \notin Nat
    BY <1>1, ValueFacts, SeqAssumption DEF Typed, Counters
  <2>2. Merged(next, file)[k] =
          IF file[k] = Absent THEN next[k]
          ELSE IF next[k] = Absent \/ next[k] < file[k] THEN file[k]
          ELSE next[k]
    BY DEF Merged
  <2>3. CASE file[k] = Absent
    <3>1. next[k] # Absent => next[k] \in Nat
      BY <2>1
    <3>2. Merged(next, file)[k] = next[k]
      BY <2>2, <2>3
    <3>3. QED  BY <2>1, <3>1, <3>2
  <2>4. CASE file[k] # Absent /\ next[k] = Absent
    BY <2>1, <2>2, <2>4
  <2>5. CASE file[k] # Absent /\ next[k] # Absent
    <3>1. file[k] \in Nat /\ next[k] \in Nat
      BY <2>1, <2>5
    <3>2. CASE next[k] < file[k]
      BY <2>1, <2>2, <2>5, <3>1, <3>2
    <3>3. CASE ~(next[k] < file[k])
      BY <2>1, <2>2, <2>5, <3>1, <3>3
    <3>4. QED  BY <3>2, <3>3
  <2>6. QED  BY <2>3, <2>4, <2>5
<1>3. QED  BY <1>2 DEF Merged, Counters

-----------------------------------------------------------------------------
(* Type correctness *)

LEMMA TypedStep ==
  ASSUME Typed, [Next]_vars
  PROVE  Typed'
<1> USE ValueFacts DEF Typed, Counters, Goto, Return, bounds
<1>1. ASSUME NEW c \in Caller, StartRequest(c) PROVE Typed'
  BY <1>1 DEF StartRequest
<1>2. ASSUME NEW c \in Caller, NEW k \in Key, TakeNumber(c, k) PROVE Typed'
  <2>1. Output(k) \in Value /\ (Output(k) + 1) % Width \in Value
    BY NextValue
  <2>2. writers' \in {"apart", "crossed"}
    BY <1>2 DEF TakeNumber, Changed
  <2>3. QED  BY <1>2, <2>1, <2>2 DEF TakeNumber
<1>3. ASSUME NEW c \in Caller, FinishRequest(c) PROVE Typed'
  BY <1>3 DEF FinishRequest
<1>4. ASSUME NEW c \in Caller, CheckDirty(c) PROVE Typed'
  BY <1>4 DEF CheckDirty
<1>5. ASSUME NEW c \in Caller, CopyCounters(c) PROVE Typed'
  BY <1>5 DEF CopyCounters, Copied
<1>6. ASSUME NEW c \in Caller, WriteCopy(c) PROVE Typed'
  BY <1>6 DEF WriteCopy
<1>7. ASSUME NEW c \in Caller, WriteFails(c) PROVE Typed'
  BY <1>7 DEF WriteFails
<1>8. ASSUME NEW c \in Caller, NEW k \in Key, NEW v \in Value \cup {Absent},
             Change(c, k, v)
      PROVE  Typed'
  BY <1>8 DEF Change, Changed
<1>9. ASSUME NEW c \in Caller, SetCounter(c) PROVE Typed'
  BY <1>8, <1>9, SeqAssumption DEF SetCounter
<1>10. ASSUME NEW c \in Caller, DeleteCounter(c) PROVE Typed'
  BY <1>8, <1>10 DEF DeleteCounter
<1>11. ASSUME NEW c \in Caller, RestoreBackup(c) PROVE Typed'
  <2>1. PICK file \in BackupMaps :
          held' = [held EXCEPT ![c] = Merged(next, file)]
    BY <1>11 DEF RestoreBackup
  <2>2. Merged(next, file) \in Counters
    BY MergedFacts
  <2>3. QED  BY <1>11, <2>1, <2>2 DEF RestoreBackup, Copied
<1>12. ASSUME NEW c \in Caller, StoreMerged(c) PROVE Typed'
  BY <1>12 DEF StoreMerged
<1>13. ASSUME NEW c \in Caller, StoreFails(c) PROVE Typed'
  BY <1>13 DEF StoreFails
<1>14. ASSUME NEW c \in Caller, LoadMerged(c) PROVE Typed'
  BY <1>14 DEF LoadMerged
<1>15. ASSUME NEW c \in Caller, Mark(c) PROVE Typed'
  BY <1>15 DEF Mark
<1>16. CASE Restart
  BY <1>16 DEF Restart
<1>17. CASE UNCHANGED vars
  BY <1>17 DEF vars
<1>18. QED
  BY <1>1, <1>2, <1>3, <1>4, <1>5, <1>6, <1>7, <1>9, <1>10, <1>11, <1>12,
     <1>13, <1>14, <1>15, <1>16, <1>17 DEF Next, Step

LEMMA CountedStep ==
  ASSUME Counted, [Next]_vars
  PROVE  Counted'
BY DEF Counted, Next, Step, Restart, StartRequest, TakeNumber, FinishRequest,
       CheckDirty, CopyCounters, WriteCopy, WriteFails, SetCounter,
       DeleteCounter, Mark, Change, RestoreBackup, StoreMerged, StoreFails,
       LoadMerged, bounds, vars

\* Every variable keeps its type; a counter always fits its width.
THEOREM TypeCorrect == Spec => []TypeOK
<1>1. Init => TypeOK
  BY ValueFacts DEF Init, TypeOK, Counters
<1>2. TypeOK /\ [Next]_vars => TypeOK'
  BY TypedStep, CountedStep DEF TypeOK, Typed, Counted
<1>3. QED  BY <1>1, <1>2, PTL DEF Spec

-----------------------------------------------------------------------------
(* While no copies crossed, nothing is forgotten and numbers ascend.        *)

\* The holder of a copy is alone; the copy of a restore dominates the map and,
\* once stored, is what the table holds.
CopiesApart ==
  /\ \A c, d \in Caller : Holding(c) /\ Holding(d) => c = d
  /\ \A c \in Caller : Restoring(c) => \A k \in Key : next[k] # Absent =>
       held[c][k] # Absent /\ held[c][k] >= next[k]
  /\ \A c \in Caller : at[c] = "load" => disk = held[c]

\* A number given out is below the next one.
LastBelowNext == \A k \in Key :
  last[k] # 0 => next[k] # Absent /\ next[k] > last[k]

\* Somebody is going to save the map as it is, unless it is saved already and
\* nobody is about to write an older one.
BeingSaved ==
  \/ disk = next /\ \A c \in Caller : at[c] = "write" => held[c] = next
  \/ dirty = "dirty" /\ \E c \in Caller : at[c] \in {"resolve", "check"}
  \/ \E c \in Caller :
       \/ at[c] \in {"mark", "copy"}
       \/ at[c] = "write" /\ held[c] = next
       \/ at[c] \in {"store", "load"}

ApartInv ==
  writers = "apart" =>
    CopiesApart /\ LastBelowNext /\ (failures = 0 => BeingSaved)

LEMMA ApartOnlyLost ==
  ASSUME Typed, [Next]_vars, writers' = "apart"
  PROVE  writers = "apart"
<1> USE DEF Typed, bounds
<1>1. ASSUME NEW c \in Caller, Copied(c) \/ Changed PROVE writers = "apart"
  BY <1>1 DEF Copied, Changed
<1>2. QED
  BY <1>1 DEF Next, Step, Restart, StartRequest, TakeNumber, FinishRequest,
       CheckDirty, CopyCounters, WriteCopy, WriteFails, SetCounter,
       DeleteCounter, Mark, Change, RestoreBackup, StoreMerged, StoreFails,
       LoadMerged, vars

LEMMA CopiesApartStep ==
  ASSUME Typed, Typed', CopiesApart,
         writers = "apart", writers' = "apart", NEW c \in Caller, Step(c)
  PROVE  CopiesApart'
<1> USE DEF Typed, Counters, CopiesApart, Goto, Return, bounds, Holding,
            Restoring
<1>1. ASSUME StartRequest(c) PROVE CopiesApart'
  BY <1>1 DEF StartRequest
<1>2. ASSUME NEW k \in Key, TakeNumber(c, k) PROVE CopiesApart'
  BY <1>2 DEF TakeNumber, Changed
<1>3. ASSUME FinishRequest(c) PROVE CopiesApart'
  BY <1>3 DEF FinishRequest
<1>4. ASSUME CheckDirty(c) PROVE CopiesApart'
  BY <1>4 DEF CheckDirty
<1>5. ASSUME CopyCounters(c) PROVE CopiesApart'
  BY <1>5 DEF CopyCounters, Copied
<1>6. ASSUME WriteCopy(c) PROVE CopiesApart'
  BY <1>6 DEF WriteCopy
<1>7. ASSUME WriteFails(c) PROVE CopiesApart'
  BY <1>7 DEF WriteFails
<1>8. ASSUME NEW k \in Key, NEW v \in Value \cup {Absent}, Change(c, k, v)
      PROVE  CopiesApart'
  BY <1>8 DEF Change, Changed
<1>9. ASSUME RestoreBackup(c) PROVE CopiesApart'
  <2>1. PICK file \in BackupMaps :
          held' = [held EXCEPT ![c] = Merged(next, file)]
    BY <1>9 DEF RestoreBackup
  <2>2. \A k \in Key : next[k] # Absent =>
          held'[c][k] # Absent /\ held'[c][k] >= next[k]
    BY <2>1, MergedFacts
  <2>3. \A d \in Caller : Holding(d) => d = c
    BY <1>9 DEF RestoreBackup, Copied
  <2>4. at' = [at EXCEPT ![c] = "store"] /\ next' = next /\ disk' = disk
    BY <1>9 DEF RestoreBackup
  <2>5. \A d \in Caller : d # c => held'[d] = held[d] /\ at'[d] = at[d]
    BY <2>1, <2>4
  <2>6. at'[c] = "store"
    BY <2>4
  <2>7. \A d \in Caller : Holding(d)' => d = c
    BY <2>3, <2>5
  <2>8. QED  BY <2>2, <2>4, <2>6, <2>7
<1>10. ASSUME StoreMerged(c) PROVE CopiesApart'
  BY <1>10 DEF StoreMerged
<1>11. ASSUME StoreFails(c) PROVE CopiesApart'
  BY <1>11 DEF StoreFails
<1>12. ASSUME LoadMerged(c) PROVE CopiesApart'
  BY <1>12 DEF LoadMerged
<1>13. ASSUME Mark(c) PROVE CopiesApart'
  BY <1>13 DEF Mark
<1>14. QED
  BY <1>1, <1>2, <1>3, <1>4, <1>5, <1>6, <1>7, <1>8, <1>9, <1>10, <1>11,
     <1>12, <1>13, SeqAssumption DEF Step, SetCounter, DeleteCounter

LEMMA LastBelowNextStep ==
  ASSUME Typed, Typed', CopiesApart, LastBelowNext,
         writers = "apart", writers' = "apart", NEW c \in Caller, Step(c)
  PROVE  LastBelowNext'
<1> USE DEF Typed, Counters, LastBelowNext, Goto, Return, bounds, Holding,
            Restoring
<1>1. ASSUME StartRequest(c) PROVE LastBelowNext'
  BY <1>1 DEF StartRequest
<1>2. ASSUME NEW k \in Key, TakeNumber(c, k) PROVE LastBelowNext'
  <2>1. Output(k) \in Nat /\ Width \in Nat /\ Output(k) < Width
    <3>1. Output(k) \in Value /\ Width \in Nat
      BY OutputValue, SeqAssumption
    <3>2. QED  BY <3>1 DEF Value
  <2>2. Output(k) # Width - 1 => (Output(k) + 1) % Width = Output(k) + 1
    BY <2>1, BelowWidth
  <2>3. next'[k] = (Output(k) + 1) % Width
        /\ last'[k] = IF Output(k) = Width - 1 THEN 0 ELSE Output(k)
    BY <1>2 DEF TakeNumber
  <2>4. Output(k) + 1 \in Nat /\ Absent \notin Nat
    BY <2>1, SeqAssumption
  <2>5. last'[k] # 0 => next'[k] # Absent /\ next'[k] > last'[k]
    <3>1. CASE Output(k) = Width - 1
      BY <2>3, <3>1
    <3>2. CASE Output(k) # Width - 1
      <4>1. next'[k] = Output(k) + 1 /\ last'[k] = Output(k)
        BY <2>2, <2>3, <3>2
      <4>2. QED  BY <2>1, <2>4, <4>1
    <3>3. QED  BY <3>1, <3>2
  <2>6. \A l \in Key : l # k => next'[l] = next[l] /\ last'[l] = last[l]
    BY <1>2 DEF TakeNumber
  <2>7. QED  BY <2>5, <2>6
<1>3. ASSUME FinishRequest(c) PROVE LastBelowNext'
  BY <1>3 DEF FinishRequest
<1>4. ASSUME CheckDirty(c) PROVE LastBelowNext'
  BY <1>4 DEF CheckDirty
<1>5. ASSUME CopyCounters(c) PROVE LastBelowNext'
  BY <1>5 DEF CopyCounters, Copied
<1>6. ASSUME WriteCopy(c) PROVE LastBelowNext'
  BY <1>6 DEF WriteCopy
<1>7. ASSUME WriteFails(c) PROVE LastBelowNext'
  BY <1>7 DEF WriteFails
<1>8. ASSUME NEW k \in Key, NEW v \in Value \cup {Absent}, Change(c, k, v)
      PROVE  LastBelowNext'
  BY <1>8 DEF Change, Changed
<1>9. ASSUME RestoreBackup(c) PROVE LastBelowNext'
  BY <1>9 DEF RestoreBackup, Copied
<1>10. ASSUME StoreMerged(c) PROVE LastBelowNext'
  BY <1>10 DEF StoreMerged
<1>11. ASSUME StoreFails(c) PROVE LastBelowNext'
  BY <1>11 DEF StoreFails
<1>12. ASSUME LoadMerged(c) PROVE LastBelowNext'
  <2> SUFFICES ASSUME NEW k \in Key, last'[k] # 0
               PROVE  next'[k] # Absent /\ next'[k] > last'[k]
    OBVIOUS
  <2>1. last'[k] = last[k]
    BY <1>12 DEF LoadMerged
  <2>2. next[k] # Absent /\ next[k] > last[k]
    BY <2>1
  <2>3. held[c][k] # Absent /\ held[c][k] >= next[k]
    BY <1>12, <2>2 DEF LoadMerged, CopiesApart
  <2>4. next'[k] = held[c][k]
    BY <1>12, <2>3 DEF LoadMerged
  <2>5. next[k] \in Nat /\ held[c][k] \in Nat /\ last[k] \in Nat
    <3>1. /\ next[k] \in Value \cup {Absent} /\ last[k] \in Value
          /\ held[c][k] \in Value \cup {Absent}
      OBVIOUS
    <3>2. QED  BY <2>2, <2>3, <3>1, ValueFacts
  <2>6. QED  BY <2>1, <2>2, <2>3, <2>4, <2>5
<1>13. ASSUME Mark(c) PROVE LastBelowNext'
  BY <1>13 DEF Mark
<1>14. QED
  BY <1>1, <1>2, <1>3, <1>4, <1>5, <1>6, <1>7, <1>8, <1>9, <1>10, <1>11,
     <1>12, <1>13, SeqAssumption DEF Step, SetCounter, DeleteCounter

LEMMA BeingSavedStep ==
  ASSUME Typed, Counted, Typed', CopiesApart, failures = 0 => BeingSaved,
         writers = "apart", writers' = "apart", NEW c \in Caller, Step(c),
         failures' = 0
  PROVE  BeingSaved'
<1> USE DEF Typed, Counters, BeingSaved, Goto, Return, bounds, Holding,
            Restoring, CopiesApart
<1>1. ASSUME StartRequest(c) PROVE BeingSaved'
  BY <1>1 DEF StartRequest
<1>2. ASSUME NEW k \in Key, TakeNumber(c, k) PROVE BeingSaved'
  BY <1>2 DEF TakeNumber, Changed
<1>3. ASSUME FinishRequest(c) PROVE BeingSaved'
  BY <1>3 DEF FinishRequest
<1>4. ASSUME CheckDirty(c) PROVE BeingSaved'
  BY <1>4 DEF CheckDirty
<1>5. ASSUME CopyCounters(c) PROVE BeingSaved'
  BY <1>5 DEF CopyCounters, Copied
<1>6. ASSUME WriteCopy(c) PROVE BeingSaved'
  <2>1. \A d \in Caller : at[d] \in {"write", "store", "load"} => d = c
    BY <1>6 DEF WriteCopy
  <2>2. CASE held[c] = next
    BY <1>6, <2>2 DEF WriteCopy
  <2>3. CASE held[c] # next
    <3>1. \/ dirty = "dirty" /\ \E d \in Caller : at[d] \in {"resolve", "check"}
          \/ \E d \in Caller : at[d] \in {"mark", "copy"}
      BY <1>6, <2>1, <2>3 DEF WriteCopy
    <3>2. /\ dirty' = dirty /\ at[c] = "write"
          /\ \A d \in Caller : d # c => at'[d] = at[d]
      BY <1>6 DEF WriteCopy
    <3>3. QED  BY <3>1, <3>2
  <2>4. QED  BY <2>2, <2>3
<1>7. ASSUME WriteFails(c) PROVE BeingSaved'
  <2>1. failures \in Nat /\ failures' = failures + 1
    BY <1>7 DEF WriteFails, Counted
  <2>2. QED  BY <2>1
<1>8. ASSUME NEW k \in Key, NEW v \in Value \cup {Absent}, Change(c, k, v)
      PROVE  BeingSaved'
  BY <1>8 DEF Change, Changed
<1>9. ASSUME RestoreBackup(c) PROVE BeingSaved'
  BY <1>9 DEF RestoreBackup, Copied
<1>10. ASSUME StoreMerged(c) PROVE BeingSaved'
  BY <1>10 DEF StoreMerged
<1>11. ASSUME StoreFails(c) PROVE BeingSaved'
  <2>1. failures \in Nat /\ failures' = failures + 1
    BY <1>11 DEF StoreFails, Counted
  <2>2. QED  BY <2>1
<1>12. ASSUME LoadMerged(c) PROVE BeingSaved'
  BY <1>12 DEF LoadMerged
<1>13. ASSUME Mark(c) PROVE BeingSaved'
  BY <1>13 DEF Mark
<1>14. QED
  BY <1>1, <1>2, <1>3, <1>4, <1>5, <1>6, <1>7, <1>8, <1>9, <1>10, <1>11,
     <1>12, <1>13, SeqAssumption DEF Step, SetCounter, DeleteCounter

LEMMA ApartInit ==
  ASSUME Init
  PROVE  ApartInv
<1> USE DEF Init
<1>1. CopiesApart
  BY DEF CopiesApart, Holding, Restoring
<1>2. LastBelowNext
  BY DEF LastBelowNext
<1>3. BeingSaved
  BY DEF BeingSaved
<1>4. QED  BY <1>1, <1>2, <1>3 DEF ApartInv

\* At rest the table has the map, so the numbers go on where they were.
LEMMA ApartRestart ==
  ASSUME Typed, ApartInv, Restart
  PROVE  ApartInv'
<1> USE DEF Typed, Restart
<1>1. CopiesApart'
  BY DEF CopiesApart, Holding, Restoring
<1>2. ASSUME writers = "apart" PROVE LastBelowNext'
  <2>1. CASE AtRest /\ failures = 0
    <3>1. disk = next /\ LastBelowNext
      BY <1>2, <2>1 DEF ApartInv, BeingSaved, AtRest
    <3>2. QED  BY <2>1, <3>1 DEF LastBelowNext
  <2>2. CASE ~(AtRest /\ failures = 0)
    BY <2>2 DEF LastBelowNext
  <2>3. QED  BY <2>1, <2>2
<1>3. BeingSaved'
  BY DEF BeingSaved
<1>4. QED  BY <1>1, <1>2, <1>3 DEF ApartInv

LEMMA ApartStutter ==
  ASSUME ApartInv, UNCHANGED vars
  PROVE  ApartInv'
<1> USE DEF vars, bounds
<1>1. writers' = writers /\ failures' = failures
  OBVIOUS
<1>2. CopiesApart => CopiesApart'
  BY DEF CopiesApart, Holding, Restoring
<1>3. LastBelowNext => LastBelowNext'
  BY DEF LastBelowNext
<1>4. BeingSaved => BeingSaved'
  BY DEF BeingSaved
<1>5. QED  BY <1>1, <1>2, <1>3, <1>4 DEF ApartInv

\* A step without a failed write has no earlier failures to excuse it.
LEMMA FailuresStay ==
  ASSUME Counted, NEW c \in Caller, Step(c),
         failures' = 0
  PROVE  failures = 0
BY DEF Counted, Step, StartRequest, TakeNumber, FinishRequest, CheckDirty,
       CopyCounters, WriteCopy, WriteFails, SetCounter, DeleteCounter, Mark,
       Change,
       RestoreBackup, StoreMerged, StoreFails, LoadMerged, bounds

LEMMA ApartStep ==
  ASSUME Typed, Counted, ApartInv, [Next]_vars
  PROVE  ApartInv'
<1>1. CASE Restart
  BY <1>1, ApartRestart
<1>2. CASE UNCHANGED vars
  BY <1>2, ApartStutter
<1>3. ASSUME NEW c \in Caller, Step(c) PROVE ApartInv'
  <2> SUFFICES ASSUME writers' = "apart"
               PROVE  CopiesApart' /\ LastBelowNext'
                      /\ (failures' = 0 => BeingSaved')
    BY DEF ApartInv
  <2>1. writers = "apart"
    BY <1>3, ApartOnlyLost DEF Next
  <2>2. CopiesApart /\ LastBelowNext /\ (failures = 0 => BeingSaved)
    BY <2>1 DEF ApartInv
  <2>3. Typed'
    BY TypedStep
  <2>4. CopiesApart'
    BY <1>3, <2>1, <2>2, <2>3, CopiesApartStep
  <2>5. LastBelowNext'
    BY <1>3, <2>1, <2>2, <2>3, LastBelowNextStep
  <2>6. ASSUME failures' = 0 PROVE BeingSaved'
    BY <1>3, <2>1, <2>2, <2>3, <2>6, BeingSavedStep
  <2>7. QED  BY <2>4, <2>5, <2>6
<1>4. QED  BY <1>1, <1>2, <1>3 DEF Next

LEMMA ApartInvariant == Spec => [](Typed /\ Counted /\ ApartInv)
<1>1. Init => Typed /\ Counted
  BY ValueFacts DEF Init, Typed, Counted, Counters
<1>2. Init => ApartInv
  BY ApartInit
<1>3. Typed /\ Counted /\ ApartInv /\ [Next]_vars =>
        Typed' /\ Counted' /\ ApartInv'
  BY TypedStep, CountedStep, ApartStep
<1>4. QED  BY <1>1, <1>2, <1>3, PTL DEF Spec

-----------------------------------------------------------------------------
(* The properties *)

\* As long as no copies crossed, what a restart shows is what the user saw.
THEOREM SavedAtRestHolds == Spec => []SavedAtRestApart
<1>1. Typed /\ Counted /\ ApartInv => SavedAtRestApart
  BY DEF ApartInv, BeingSaved, SavedAtRestApart, SavedAtRest, AtRest
<1>2. QED  BY <1>1, ApartInvariant, PTL

\* As long as no copies crossed, no change is left without somebody to save it.
THEOREM NothingForgottenHolds == Spec => []NothingForgotten
<1>1. Typed /\ Counted /\ ApartInv => NothingForgotten
  BY DEF ApartInv, BeingSaved, NothingForgotten
<1>2. QED  BY <1>1, ApartInvariant, PTL

\* As long as no copies crossed, a key's numbers go up.
THEOREM NumbersAscendHolds == Spec => NumbersAscendApart
<1>1. ASSUME Typed, ApartInv, NEW k \in Key, writers = "apart"
      PROVE  Output(k) > last[k]
  <2>1. LastBelowNext
    BY <1>1 DEF ApartInv
  <2>2. CASE last[k] = 0
    BY <1>1, <2>2, OutputValue
  <2>3. CASE last[k] # 0
    <3>1. next[k] # Absent /\ next[k] > last[k]
      BY <2>1, <2>3 DEF LastBelowNext
    <3>2. last[k] \in Nat /\ next[k] \in Nat
      <4>1. last[k] \in Value /\ next[k] \in Value \cup {Absent}
        BY <1>1 DEF Typed, Counters
      <4>2. QED  BY <3>1, <4>1, ValueFacts
    <3>3. Output(k) = next[k]
      BY <3>1, <3>2 DEF Output
    <3>4. QED  BY <3>1, <3>3
  <2>4. QED  BY <2>2, <2>3
<1>2. Typed /\ Counted /\ ApartInv /\ [Next]_vars =>
        [\A c \in Caller, k \in Key : writers = "apart" /\ TakeNumber(c, k) =>
           Output(k) > last[k]]_vars
  BY <1>1
<1>3. QED
  BY <1>2, ApartInvariant, PTL DEF Spec, NumbersAscendApart

\* The table holds the counters, or somebody is about to see to it.
THEOREM CountersAreSaved == Spec => []CountersSaved
BY TypeCorrect, SavedAtRestHolds, NothingForgottenHolds, PTL DEF CountersSaved

-----------------------------------------------------------------------------
(***************************************************************************)
(* A start of the application (Startup)                                     *)
(***************************************************************************)
\* What a start has left behind.
StartTyped ==
  /\ now \in Nat /\ since \in 0 .. Retention /\ onward \in BOOLEAN
  /\ logs \subseteq Nat /\ writing \in Nat /\ day \in Nat /\ ahead \in BOOLEAN
  /\ IsFiniteSet(DOMAIN snapshots) /\ DOMAIN snapshots \subseteq Nat
  /\ snapshots = [n \in DOMAIN snapshots |-> snapshots[n]]

\* The snapshots that are later than one.
Later(D, n) == {k \in D : k > n}

\* One of a whole database has no more after it than starts on a broken one.
WholeIsNear ==
  onward /\ since < Retention =>
    \E n \in DOMAIN snapshots :
      snapshots[n] = "whole" /\ Cardinality(Later(DOMAIN snapshots, n)) <= since

StartInv == StartTyped /\ WholeIsNear

\* The instance names the operators anew.
LEMMA SameCardinality == \A T : S!Cardinality(T) = Cardinality(T)
  BY DEF S!Cardinality, Cardinality

\* A snapshot with fewer than Retention later ones is among those that are kept.
LEMMA KeptHas ==
  ASSUME NEW D, NEW n \in D, Cardinality(Later(D, n)) < Retention
  PROVE  n \in S!Kept(D)
  BY SameCardinality DEF S!Kept, Later

\* A new second adds at most one to the later ones, and none after itself.
LEMMA LaterGrows ==
  ASSUME NEW D, IsFiniteSet(D), D \subseteq Nat, NEW m \in Nat, NEW n \in D,
         NEW K, K \subseteq D \cup {m}
  PROVE  /\ IsFiniteSet(K) /\ K \subseteq Nat
         /\ Cardinality(Later(K, n)) \in Nat
         /\ Cardinality(Later(K, n)) <= Cardinality(Later(D, n)) + 1
<1>1. IsFiniteSet(Later(D, n))
  <2>1. Later(D, n) \subseteq D
    BY DEF Later
  <2> QED  BY <2>1, FS_Subset
<1>2. IsFiniteSet(Later(D, n) \cup {m}) /\ Cardinality(Later(D, n)) \in Nat
      /\ Cardinality(Later(D, n) \cup {m}) <= Cardinality(Later(D, n)) + 1
  <2> DEFINE L == Later(D, n)
  <2>0. IsFiniteSet(L)
    BY <1>1
  <2>1. Cardinality(L) \in Nat
    BY <1>1, FS_CardinalityType
  <2>2. /\ IsFiniteSet(L \cup {m})
        /\ Cardinality(L \cup {m}) = IF m \in L THEN Cardinality(L) ELSE Cardinality(L) + 1
    <3> HIDE DEF L
    <3> QED  BY <2>0, FS_AddElement
  <2> QED  BY <2>1, <2>2
<1>3. Later(K, n) \subseteq Later(D, n) \cup {m}
  BY DEF Later
<1>4. IsFiniteSet(Later(K, n)) /\ Cardinality(Later(K, n)) <= Cardinality(Later(D, n) \cup {m})
  BY <1>2, <1>3, FS_Subset
<1>5. Cardinality(Later(K, n)) \in Nat /\ Cardinality(Later(D, n) \cup {m}) \in Nat
  BY <1>2, <1>4, FS_CardinalityType
<1>6. IsFiniteSet(K) /\ K \subseteq Nat
  BY FS_AddElement, FS_Subset
<1> QED  BY <1>2, <1>4, <1>5, <1>6

LEMMA InitStartInv == S!Init => StartInv
<1> SUFFICES ASSUME S!Init PROVE StartInv
  OBVIOUS
<1>1. DOMAIN snapshots = {} /\ IsFiniteSet({})
  BY FS_EmptySet DEF S!Init
<1> QED  BY <1>1, PersistenceAssumption DEF S!Init, StartInv, StartTyped, WholeIsNear

\* The snapshot of a start.
LEMMA SnapshotStartInv == StartInv /\ S!Snapshot => StartInv'
<1> SUFFICES ASSUME StartInv, S!Snapshot PROVE StartInv'
  OBVIOUS
<1>0. UNCHANGED <<logs, writing, now, day, ahead>>
  BY DEF S!Snapshot, S!time
<1>1. CASE UNCHANGED <<snapshots, since, onward>>
  BY <1>0, <1>1 DEF StartInv, StartTyped, WholeIsNear
<1>2. CASE ~ UNCHANGED <<snapshots, since, onward>>
  <2> DEFINE D == DOMAIN snapshots
             K == S!Kept(D \cup {now})
  <2>1. /\ snapshots' = [n \in K |-> IF n = now THEN database ELSE snapshots[n]]
        /\ since' = IF database = "whole" THEN 0 ELSE IF since < Retention THEN since + 1 ELSE since
        /\ onward' = (onward /\ \A n \in D : n < now)
    BY <1>2 DEF S!Snapshot, S!shots
  <2>2. K \subseteq D \cup {now}
    BY DEF S!Kept
  <2>3. IsFiniteSet(D) /\ D \subseteq Nat /\ now \in Nat /\ since \in 0 .. Retention /\ onward \in BOOLEAN
    BY DEF StartInv, StartTyped
  <2>4. DOMAIN snapshots' = K
    BY <2>1
  <2>5. IsFiniteSet(K) /\ K \subseteq Nat
    <3>1. IsFiniteSet(D \cup {now})
      BY <2>3, FS_AddElement
    <3> HIDE DEF K
    <3> QED  BY <3>1, <2>2, <2>3, FS_Subset
  <2> HIDE DEF K
  <2>6. since' \in 0 .. Retention
    BY <2>1, <2>3, PersistenceAssumption
  <2>7. StartTyped'
    <3>1. onward' \in BOOLEAN
      BY <2>1, <2>3
    <3>2. snapshots' = [n \in DOMAIN snapshots' |-> snapshots'[n]]
      BY <2>1
    <3> QED  BY <3>1, <3>2, <1>0, <2>4, <2>5, <2>6 DEF StartInv, StartTyped
  <2>8. ASSUME onward', since' < Retention
        PROVE  \E n \in DOMAIN snapshots' :
                 snapshots'[n] = "whole" /\ Cardinality(Later(DOMAIN snapshots', n)) <= since'
    <3>0. onward /\ \A n \in D : n < now
      BY <2>8, <2>1
    <3>1. CASE database = "whole"
      <4>1. Later(D \cup {now}, now) = {} /\ Later(K, now) = {}
        BY <3>0, <2>2, <2>3 DEF Later
      <4>2. now \in K
        <5>1. Cardinality(Later(D \cup {now}, now)) < Retention
          BY <4>1, FS_EmptySet, PersistenceAssumption
        <5> QED  BY <5>1, KeptHas DEF K
      <4>3. snapshots'[now] = "whole"
        BY <4>2, <3>1, <2>1
      <4>4. Cardinality(Later(K, now)) <= since'
        BY <4>1, <3>1, <2>1, FS_EmptySet
      <4> QED  BY <4>2, <4>3, <4>4, <2>4
    <3>2. CASE database # "whole"
      <4>1. since < Retention /\ since' = since + 1
        BY <3>2, <2>1, <2>3, <2>8, PersistenceAssumption
      <4>2. PICK n \in D : snapshots[n] = "whole" /\ Cardinality(Later(D, n)) <= since
        BY <4>1, <3>0 DEF StartInv, WholeIsNear
      <4>3. /\ Cardinality(Later(D \cup {now}, n)) \in Nat /\ Cardinality(Later(K, n)) \in Nat
            /\ Cardinality(Later(D \cup {now}, n)) <= Cardinality(Later(D, n)) + 1
            /\ Cardinality(Later(K, n)) <= Cardinality(Later(D, n)) + 1
        BY <2>2, <2>3, LaterGrows
      <4>4. Cardinality(Later(D, n)) \in Nat
        <5>1. Later(D, n) \subseteq D
          BY DEF Later
        <5> QED  BY <5>1, <2>3, FS_Subset, FS_CardinalityType
      <4>5. n \in K
        <5>1. Cardinality(Later(D \cup {now}, n)) < Retention
          BY <4>1, <4>2, <4>3, <4>4, <2>3, <2>8, PersistenceAssumption
        <5> QED  BY <5>1, KeptHas DEF K
      <4>6. snapshots'[n] = "whole"
        BY <4>5, <4>2, <2>1, <3>0, <2>3
      <4>7. Cardinality(Later(K, n)) <= since'
        BY <4>1, <4>2, <4>3, <4>4, <2>3
      <4> QED  BY <4>5, <4>6, <4>7, <2>4
    <3> QED  BY <3>1, <3>2
  <2> QED  BY <2>7, <2>8 DEF StartInv, WholeIsNear
<1> QED  BY <1>1, <1>2

LEMMA NextStartInv == StartInv /\ [S!Next]_(S!vars) => StartInv'
<1> SUFFICES ASSUME StartInv, [S!Next]_(S!vars) PROVE StartInv'
  OBVIOUS
<1> USE DEF StartInv, StartTyped, WholeIsNear, S!shots, S!time
<1>1. CASE S!OpenLog
  BY <1>1 DEF S!OpenLog
<1>2. CASE S!Snapshot
  BY <1>2, SnapshotStartInv
<1>3. CASE S!Migrate
  BY <1>3 DEF S!Migrate
<1>4. CASE S!Write
  BY <1>4 DEF S!Write
<1>5. CASE S!Stop
  BY <1>5 DEF S!Stop
<1>6. CASE S!Midnight
  <2>1. UNCHANGED <<snapshots, since, onward, now, logs, writing>>
    BY <1>6 DEF S!Midnight
  <2>2. (ahead' = TRUE /\ day' = day) \/ (ahead' = FALSE /\ day' = day + 1)
    BY ONLY <1>6, Zenon DEF S!Midnight
  <2>3. ahead' \in BOOLEAN
    BY ONLY <2>2, Zenon
  <2>4. day' \in Nat
    <3>1. day' = day \/ day' = day + 1
      BY ONLY <2>2, Zenon
    <3> QED  BY <3>1
  <2> QED  BY <2>1, <2>3, <2>4
<1>7. ASSUME NEW days \in Keeps, S!Cleanup(days) PROVE StartInv'
  BY <1>7 DEF S!Cleanup
<1>8. ASSUME NEW n \in DOMAIN snapshots, S!PutBack(n) PROVE StartInv'
  BY <1>8 DEF S!PutBack
<1>9. ASSUME NEW n \in 1 .. MaxSecond, S!Clock(n) PROVE StartInv'
  BY <1>9 DEF S!Clock
<1>10. CASE UNCHANGED S!vars
  BY <1>10 DEF S!vars
<1> QED  BY <1>1, <1>2, <1>3, <1>4, <1>5, <1>6, <1>7, <1>8, <1>9, <1>10 DEF S!Next

\* The file of the day goes only where the local day is ahead and one day is kept.
LEMMA OpenLogKept ==
  ASSUME StartInv, [S!Next]_(S!vars), writing = day, day \in logs, day \notin logs'
  PROVE  ahead /\ keep' = 1
<1> USE DEF S!shots, S!time
<1>1. PICK days \in Keeps : S!Cleanup(days)
  BY DEF S!Next, S!vars, S!OpenLog, S!Snapshot, S!Migrate, S!Write, S!Stop, S!Midnight, S!PutBack,
       S!Clock
<1>2. keep' = days /\ S!Expired(day, days)
  BY <1>1 DEF S!Cleanup
<1>3. days \in Nat \ {0} /\ day \in Nat /\ ahead \in BOOLEAN
  BY PersistenceAssumption DEF StartInv, StartTyped
<1> QED  BY <1>2, <1>3 DEF S!Expired, S!Today

\* As long as snapshots are named in the order of time, fewer than Retention starts on
\* a broken database leave a snapshot of the whole one; and the log that is written
\* to stays: for any retention, days and settings (snapshot_database,
\* cleanup_logs_on_startup).
THEOREM StartAlwaysKeeps == S!Spec => StartKeeps
<1>1. S!Spec => []StartInv
  BY InitStartInv, NextStartInv, PTL DEF S!Spec
<1>2. StartInv => S!WayBack
  BY DEF StartInv, WholeIsNear, S!WayBack
<1>3. StartInv /\ [S!Next]_(S!vars) =>
        [writing = day /\ day \in logs /\ day \notin logs' => ahead /\ keep' = 1]_<<logs, keep, writing, day, ahead>>
  BY OpenLogKept
<1>4. S!Spec => S!OpenLogStays
  BY <1>1, <1>3, PTL DEF S!Spec, S!OpenLogStays
<1> QED  BY <1>1, <1>2, <1>4, PTL DEF StartKeeps

-----------------------------------------------------------------------------
(***************************************************************************)
(* The data directory and the key in it (Vault)                             *)
(***************************************************************************)
\* Who needs the key, and who makes one while nobody has it.
NeedKnown ==
  /\ open = "none" => cache = V!Missing /\ lock = "none"
  /\ \A t \in Thread :
       /\ thread[t].at # "rest" =>
            open # "none" /\ thread[t].slot \in Slot /\ thread[t].does \in {"save", "read"}
       /\ thread[t].at = "create" => thread[t].path \in V!Dir
       /\ thread[t].at \in {"load", "create"} => lock = t /\ cache = V!Missing

\* Until the key is known the directory is that of the database; then the key of the
\* directory is the one in use.  A new key is made only where none is found.
OwnDirectory ==
  settled /\ open # "none" =>
    /\ cache = V!Missing => V!DataDir = open
    /\ cache # V!Missing => V!KeyOf(open) = cache
    /\ \A t \in Thread : thread[t].at = "create" =>
         thread[t].path = open /\ keys[open] = V!Missing /\ keys[legacy] = V!Missing

VaultInv == V!TypeOK /\ NeedKnown /\ V!OneKey /\ OwnDirectory /\ V!OpensAgain

LEMMA VaultConstants ==
  /\ "none" \notin Thread /\ "none" \notin V!Dir /\ V!Dir \subseteq V!Place /\ "home" \in V!Dir
  /\ V!Missing \notin V!KeyId /\ V!Torn \notin V!KeyId /\ V!Torn # V!Missing
<1>1. "none" \notin Thread /\ "none" \notin V!Dir /\ V!Dir \subseteq V!Place /\ "home" \in V!Dir
  BY PersistenceAssumption DEF V!Dir, V!Place
<1>2. V!Missing \notin V!KeyId /\ V!Torn \notin V!KeyId /\ V!Torn # V!Missing
  BY PersistenceAssumption DEF V!Missing, V!KeyId, V!Torn
<1> QED  BY <1>1, <1>2

\* The directory in force is one.
LEMMA DataDirIsDir == V!TypeOK => V!DataDir \in V!Dir
  BY VaultConstants DEF V!TypeOK, V!DataDir, V!Dir


\* What is known of a thread.
Row == [at : {"rest", "wait", "load", "create", "use"}, does : {"none", "save", "read"},
        slot : Slot \cup {"none"}, key : V!KeyId \cup {V!Missing}, path : V!Dir \cup {"none"}]

LEMMA RestingIsRow == V!Resting \in Row
  BY DEF V!Resting, Row

LEMMA InitVaultInv == V!Init => VaultInv
<1> SUFFICES ASSUME V!Init PROVE VaultInv
  OBVIOUS
<1>1. PICK old \in BOOLEAN :
       /\ keys = [p \in V!Place |-> IF old /\ p = legacy THEN 1 ELSE V!Missing]
       /\ rows = [d \in V!Dir |-> [s \in Slot |->
                   IF old /\ d = "home" THEN V!Sealed(1, "row") ELSE V!Empty]]
  BY DEF V!Init
<1>2. 1 \in V!KeyId
  BY PersistenceAssumption DEF V!KeyId
<1>3. thread = [t \in Thread |-> V!Resting] /\ open = "none" /\ cache = V!Missing /\ lock = "none"
      /\ starts = 0 /\ settled = TRUE /\ override = "none" /\ legacy \in {"home", "local"}
  BY DEF V!Init
<1>4. V!TypeOK
  <2>1. keys \in [V!Place -> V!KeyId \cup {V!Missing, V!Torn}]
    BY <1>1, <1>2
  <2>2. rows \in [V!Dir -> [Slot -> {V!Empty, V!Plain("row")} \cup {V!Sealed(k, "row") : k \in V!KeyId}]]
    BY <1>1, <1>2
  <2>3. thread \in [Thread -> Row]
    BY <1>3, RestingIsRow
  <2>4. legacy \in V!Place
    BY <1>3 DEF V!Place, V!Dir
  <2>5. starts \in 0 .. MaxStarts
    BY <1>3, PersistenceAssumption
  <2> QED  BY <1>3, <2>1, <2>2, <2>3, <2>4, <2>5 DEF V!TypeOK, Row
<1>5. NeedKnown /\ V!OneKey /\ OwnDirectory
  BY <1>3, VaultConstants DEF NeedKnown, V!OneKey, OwnDirectory, V!Resting
<1>6. V!OpensAgain
  <2> SUFFICES ASSUME NEW d \in V!Dir, NEW s \in Slot, rows[d][s].by # V!Missing
               PROVE  V!KeyOf(d) \in {rows[d][s].by, V!Torn}
    BY DEF V!OpensAgain
  <2>1. old /\ d = "home" /\ rows[d][s].by = 1
    BY <1>1 DEF V!Sealed, V!Empty
  <2>2. keys[legacy] = 1
    BY <1>1, <1>3, <2>1 DEF V!Place, V!Dir
  <2>3. keys["home"] \in {1, V!Missing}
    BY <1>1, VaultConstants
  <2> QED  BY <2>1, <2>2, <2>3 DEF V!KeyOf
<1> QED  BY <1>4, <1>5, <1>6 DEF VaultInv

\* A thread moves and the others stay.
Moved(t, r) == thread' \in [Thread -> Row] /\ thread'[t] = r /\ \A u \in Thread \ {t} : thread'[u] = thread[u]

LEMMA MoveTo ==
  ASSUME thread \in [Thread -> Row], NEW t \in Thread, NEW r \in Row, thread' = [thread EXCEPT ![t] = r]
  PROVE  Moved(t, r)
  BY DEF Moved

LEMMA GotoMoves ==
  ASSUME thread \in [Thread -> Row], NEW t \in Thread, NEW a \in {"rest", "wait", "load", "create", "use"},
         V!Goto(t, a)
  PROVE  Moved(t, [thread[t] EXCEPT !.at = a])
<1>1. [thread[t] EXCEPT !.at = a] \in Row
  BY DEF Row
<1>2. thread' = [thread EXCEPT ![t] = [thread[t] EXCEPT !.at = a]]
  BY DEF V!Goto
<1> QED  BY <1>1, <1>2, MoveTo

LEMMA UseMoves ==
  ASSUME thread \in [Thread -> Row], NEW t \in Thread, NEW k \in V!KeyId \cup {V!Missing},
         thread' = [thread EXCEPT ![t].at = "use", ![t].key = k]
  PROVE  Moved(t, [thread[t] EXCEPT !.at = "use", !.key = k])
<1>1. [thread[t] EXCEPT !.at = "use", !.key = k] \in Row
  BY DEF Row
<1>2. thread' = [thread EXCEPT ![t] = [thread[t] EXCEPT !.at = "use", !.key = k]]
  BY DEF Row
<1> QED  BY <1>1, <1>2, MoveTo
LEMMA VaultNeed ==
  ASSUME VaultInv, NEW t \in Thread, NEW does \in {"save", "read"}, NEW slot \in Slot, V!Need(t, does, slot)
  PROVE  VaultInv'
<1> DEFINE r == [at |-> IF cache = V!Missing THEN "wait" ELSE "use", does |-> does, slot |-> slot,
                 key |-> cache, path |-> "none"]
<1>1. open # "none" /\ thread' = [thread EXCEPT ![t] = r]
      /\ UNCHANGED <<override, legacy, keys, rows, open, cache, lock, starts, settled>>
  BY DEF V!Need, V!disk
<1>2. r \in Row
  BY DEF VaultInv, V!TypeOK, Row
<1>3. Moved(t, r)
  BY <1>1, <1>2, MoveTo DEF VaultInv, V!TypeOK, Row
<1> HIDE DEF r
<1>4. r.at \in {"wait", "use"} /\ r.does = does /\ r.slot = slot /\ r.key = cache
  BY DEF r
<1>5. V!TypeOK'
  BY <1>1, <1>3 DEF VaultInv, V!TypeOK, Moved, Row
<1>6. NeedKnown'
  BY <1>1, <1>3, <1>4 DEF VaultInv, NeedKnown, Moved
<1>7. V!OneKey'
  BY <1>1, <1>3, <1>4 DEF VaultInv, V!OneKey, Moved
<1>8. OwnDirectory'
  BY <1>1, <1>3, <1>4 DEF VaultInv, OwnDirectory, Moved, V!DataDir, V!KeyOf
<1>9. V!OpensAgain'
  BY <1>1 DEF VaultInv, V!OpensAgain, V!KeyOf
<1> QED  BY <1>5, <1>6, <1>7, <1>8, <1>9 DEF VaultInv

LEMMA VaultLock == ASSUME VaultInv, NEW t \in Thread, V!Lock(t) PROVE VaultInv'
<1>1. UNCHANGED <<override, legacy, keys, rows, open, cache, starts, settled>> /\ thread[t].at = "wait" /\ lock = "none"
  BY DEF V!Lock, V!disk
<1>0. thread \in [Thread -> Row] /\ cache \in V!KeyId \cup {V!Missing} /\ thread[t] \in Row
  BY DEF VaultInv, V!TypeOK, Row
<1>2. PICK r \in Row :
        /\ Moved(t, r) /\ r.does = thread[t].does /\ r.slot = thread[t].slot /\ r.path = thread[t].path
        /\ \/ cache # V!Missing /\ r.at = "use" /\ r.key = cache /\ lock' = lock
           \/ cache = V!Missing /\ r.at = "load" /\ r.key = thread[t].key /\ lock' = t
  <2>1. CASE cache # V!Missing
    <3> DEFINE r == [thread[t] EXCEPT !.at = "use", !.key = cache]
    <3>1. Moved(t, r)
      BY <2>1, <1>0, UseMoves DEF V!Lock
    <3>2. r \in Row /\ r.does = thread[t].does /\ r.slot = thread[t].slot /\ r.path = thread[t].path
          /\ r.at = "use" /\ r.key = cache
      BY <1>0 DEF Row
    <3>3. lock' = lock
      BY <2>1 DEF V!Lock
    <3> QED  BY <2>1, <3>1, <3>2, <3>3
  <2>2. CASE cache = V!Missing
    <3> DEFINE r == [thread[t] EXCEPT !.at = "load"]
    <3>1. Moved(t, r)
      BY <2>2, <1>0, GotoMoves DEF V!Lock
    <3>2. r \in Row /\ r.does = thread[t].does /\ r.slot = thread[t].slot /\ r.path = thread[t].path
          /\ r.at = "load" /\ r.key = thread[t].key
      BY <1>0 DEF Row
    <3>3. lock' = t
      BY <2>2 DEF V!Lock
    <3> QED  BY <2>2, <3>1, <3>2, <3>3
  <2> QED  BY <2>1, <2>2
<1>5. V!TypeOK'
  BY <1>1, <1>2 DEF VaultInv, V!TypeOK, Moved, Row
<1>6. NeedKnown'
  BY <1>1, <1>2, VaultConstants DEF VaultInv, NeedKnown, Moved
<1>7. V!OneKey'
  BY <1>1, <1>2 DEF VaultInv, V!OneKey, Moved
<1>8. OwnDirectory'
  BY <1>1, <1>2 DEF VaultInv, OwnDirectory, Moved, V!DataDir, V!KeyOf
<1>9. V!OpensAgain'
  BY <1>1 DEF VaultInv, V!OpensAgain, V!KeyOf
<1> QED  BY <1>5, <1>6, <1>7, <1>8, <1>9 DEF VaultInv

\* A thread that has the lock got a key, or none.
LEMMA GotFacts ==
  ASSUME VaultInv, NEW t \in Thread, NEW k \in V!KeyId \cup {V!Missing}, V!Got(t, k),
         thread[t].at \in {"load", "create"}
  PROVE  /\ cache = V!Missing /\ cache' = k /\ lock' = "none"
         /\ \E r \in Row :
              /\ Moved(t, r) /\ r.at = "use" /\ r.key = k
              /\ r.does = thread[t].does /\ r.slot = thread[t].slot /\ r.path = thread[t].path
<1>0. thread \in [Thread -> Row] /\ thread[t] \in Row
  BY DEF VaultInv, V!TypeOK, Row
<1>1. cache = V!Missing
  BY DEF VaultInv, NeedKnown
<1>2. cache' = k /\ lock' = "none"
  BY <1>1 DEF V!Got
<1> DEFINE r == [thread[t] EXCEPT !.at = "use", !.key = k]
<1>3. Moved(t, r)
  BY <1>0, UseMoves DEF V!Got
<1>4. r \in Row /\ r.does = thread[t].does /\ r.slot = thread[t].slot /\ r.path = thread[t].path
      /\ r.at = "use" /\ r.key = k
  BY <1>0 DEF Row
<1> QED  BY <1>1, <1>2, <1>3, <1>4

\* After a thread got a key, if it is the one of the directory.
LEMMA GotKeeps ==
  ASSUME VaultInv, NEW t \in Thread, NEW k \in V!KeyId \cup {V!Missing}, V!Got(t, k),
         thread[t].at \in {"load", "create"},
         UNCHANGED <<override, legacy, rows, open, starts, settled>>,
         keys' \in [V!Place -> V!KeyId \cup {V!Missing, V!Torn}],
         settled => k = V!Missing \/ k = IF keys'[open] # V!Missing THEN keys'[open] ELSE keys'[legacy],
         V!OpensAgain'
  PROVE  VaultInv'
<1>1. /\ cache = V!Missing /\ cache' = k /\ lock' = "none"
      /\ \E r \in Row :
              /\ Moved(t, r) /\ r.at = "use" /\ r.key = k
              /\ r.does = thread[t].does /\ r.slot = thread[t].slot /\ r.path = thread[t].path
  BY GotFacts
<1>2. PICK r \in Row :
              /\ Moved(t, r) /\ r.at = "use" /\ r.key = k
              /\ r.does = thread[t].does /\ r.slot = thread[t].slot /\ r.path = thread[t].path
  BY <1>1
<1>3. lock = t /\ open # "none"
  BY DEF VaultInv, NeedKnown
<1>4. \A u \in Thread \ {t} : thread[u].at \notin {"load", "create"} /\ thread[u].key = V!Missing
  BY <1>1, <1>3 DEF VaultInv, NeedKnown, V!OneKey
<1>5. V!TypeOK'
  BY <1>1, <1>2 DEF VaultInv, V!TypeOK, Moved, Row
<1>6. NeedKnown'
  BY <1>1, <1>2, <1>3, <1>4 DEF VaultInv, NeedKnown, Moved
<1>7. V!OneKey'
  BY <1>1, <1>2, <1>4 DEF V!OneKey, Moved
<1>8. OwnDirectory'
  BY <1>1, <1>2, <1>3, <1>4 DEF VaultInv, OwnDirectory, Moved, V!DataDir, V!KeyOf
<1> QED  BY <1>5, <1>6, <1>7, <1>8 DEF VaultInv

LEMMA VaultLoad == ASSUME VaultInv, NEW t \in Thread, V!Load(t) PROVE VaultInv'
<1> DEFINE dir == V!DataDir
           found == IF keys[dir] # V!Missing THEN keys[dir] ELSE keys[legacy]
<1>0. thread \in [Thread -> Row] /\ thread[t] \in Row /\ dir \in V!Dir /\ dir \in V!Place
      /\ keys \in [V!Place -> V!KeyId \cup {V!Missing, V!Torn}] /\ legacy \in V!Place
  BY DataDirIsDir, VaultConstants DEF VaultInv, V!TypeOK, Row
<1> HIDE DEF dir
<1>1. /\ thread[t].at = "load" /\ UNCHANGED <<override, legacy, rows, open, starts, settled>>
      /\ (keys' = keys \/ (found \in V!KeyId /\ keys' = [keys EXCEPT ![dir] = found]))
      /\ found = V!Missing => V!CreateIn(t, dir) /\ UNCHANGED <<cache, lock>>
      /\ found # V!Missing => V!Got(t, IF found = V!Torn THEN V!Missing ELSE found)
  BY DEF V!Load, dir
<1>2. lock = t /\ open # "none" /\ cache = V!Missing
  BY <1>1 DEF VaultInv, NeedKnown
<1>3. settled => dir = open
  BY <1>2 DEF VaultInv, OwnDirectory, dir
<1>4. found \in V!KeyId \cup {V!Missing, V!Torn}
  BY <1>0
<1>5. V!OpensAgain'
  <2> SUFFICES ASSUME settled, NEW d \in V!Dir, NEW s \in Slot, rows[d][s].by # V!Missing
               PROVE  (IF keys'[d] # V!Missing THEN keys'[d] ELSE keys'[legacy]) \in {rows[d][s].by, V!Torn}
    BY <1>1 DEF V!OpensAgain, V!KeyOf
  <2>1. (IF keys[d] # V!Missing THEN keys[d] ELSE keys[legacy]) \in {rows[d][s].by, V!Torn}
    BY DEF VaultInv, V!OpensAgain, V!KeyOf
  <2>2. d \in V!Place
    BY VaultConstants
  <2>3. CASE keys' = keys
    BY <2>1, <2>3
  <2>4. CASE found \in V!KeyId /\ keys' = [keys EXCEPT ![dir] = found]
    <3>1. found # V!Missing /\ keys'[dir] = found /\ \A p \in V!Place \ {dir} : keys'[p] = keys[p]
      BY <2>4, <1>0, VaultConstants
    <3>2. legacy = dir => keys[dir] = found
      BY <3>1
    <3> QED  BY <3>1, <3>2, <2>1, <2>2, <1>0
  <2> QED  BY <1>1, <2>3, <2>4
<1>6. CASE found = V!Missing
  <2>1. keys' = keys
    BY <1>1, <1>6, VaultConstants
  <2> DEFINE r == [thread[t] EXCEPT !.at = "create", !.path = dir]
  <2>2. r \in Row /\ r.does = thread[t].does /\ r.slot = thread[t].slot /\ r.path = dir
        /\ r.at = "create" /\ r.key = thread[t].key
    BY <1>0 DEF Row
  <2>3. thread' = [thread EXCEPT ![t] = r]
    BY <1>1, <1>6, <1>0 DEF V!CreateIn, Row
  <2> HIDE DEF r
  <2>4. Moved(t, r)
    BY <2>2, <2>3, <1>0, MoveTo
  <2>5. UNCHANGED <<cache, lock>>
    BY <1>1, <1>6
  <2>6. V!TypeOK'
    BY <1>1, <2>1, <2>4, <2>5 DEF VaultInv, V!TypeOK, Moved, Row
  <2>7. NeedKnown'
    BY <1>0, <1>1, <1>2, <2>2, <2>4, <2>5 DEF VaultInv, NeedKnown, Moved
  <2>8. V!OneKey'
    BY <2>2, <2>4, <2>5 DEF VaultInv, V!OneKey, Moved
  <2>9. settled => keys[open] = V!Missing /\ keys[legacy] = V!Missing
    BY <1>3, <1>6
  <2>10. OwnDirectory'
    BY <1>1, <1>2, <1>3, <2>1, <2>2, <2>4, <2>5, <2>9 DEF VaultInv, OwnDirectory, Moved,
         V!DataDir, V!KeyOf
  <2> QED  BY <1>5, <2>6, <2>7, <2>8, <2>10 DEF VaultInv
<1>7. CASE found # V!Missing
  <2> DEFINE k == IF found = V!Torn THEN V!Missing ELSE found
  <2>1. k \in V!KeyId \cup {V!Missing}
    BY <1>4
  <2>2. V!Got(t, k)
    BY <1>1, <1>7
  <2>3. keys' \in [V!Place -> V!KeyId \cup {V!Missing, V!Torn}]
    BY <1>0, <1>1
  <2>4. settled => k = V!Missing \/ k = IF keys'[open] # V!Missing THEN keys'[open] ELSE keys'[legacy]
    <3>1. CASE keys' = keys
      BY <3>1, <1>3
    <3>2. CASE found \in V!KeyId /\ keys' = [keys EXCEPT ![dir] = found]
      BY <3>2, <1>3, <1>0, <1>7
    <3> QED  BY <1>1, <3>1, <3>2
  <2> HIDE DEF k
  <2> QED  BY <1>1, <1>5, <2>1, <2>2, <2>3, <2>4, GotKeeps
<1> QED  BY <1>6, <1>7

LEMMA VaultCreate == ASSUME VaultInv, NEW t \in Thread, V!Create(t) PROVE VaultInv'
<1> DEFINE path == thread[t].path
<1>1. /\ thread[t].at = "create" /\ UNCHANGED <<override, legacy, rows, open, starts, settled>>
      /\ \/ \E k \in V!KeyId : keys' = [keys EXCEPT ![path] = k] /\ V!Got(t, k)
         \/ UNCHANGED keys /\ V!Got(t, V!Missing)
  BY DEF V!Create
<1>2. lock = t /\ open # "none" /\ cache = V!Missing /\ path \in V!Dir
  BY <1>1 DEF VaultInv, NeedKnown
<1>3. settled => path = open /\ keys[open] = V!Missing /\ keys[legacy] = V!Missing
  BY <1>1, <1>2 DEF VaultInv, OwnDirectory
<1>4. keys \in [V!Place -> V!KeyId \cup {V!Missing, V!Torn}] /\ path \in V!Place /\ legacy \in V!Place
  BY <1>2, VaultConstants DEF VaultInv, V!TypeOK
<1> HIDE DEF path
<1>5. CASE UNCHANGED keys /\ V!Got(t, V!Missing)
  <2>1. V!OpensAgain'
    BY <1>1, <1>5 DEF VaultInv, V!OpensAgain, V!KeyOf
  <2> QED  BY <1>1, <1>4, <1>5, <2>1, GotKeeps
<1>6. ASSUME NEW k \in V!KeyId, keys' = [keys EXCEPT ![path] = k], V!Got(t, k) PROVE VaultInv'
  <2>1. k # V!Missing /\ keys'[path] = k /\ \A p \in V!Place \ {path} : keys'[p] = keys[p]
    BY <1>4, <1>6, VaultConstants
  <2>2. V!OpensAgain'
    <3> SUFFICES ASSUME settled, NEW d \in V!Dir, NEW s \in Slot, rows[d][s].by # V!Missing
                 PROVE  (IF keys'[d] # V!Missing THEN keys'[d] ELSE keys'[legacy]) \in {rows[d][s].by, V!Torn}
      BY <1>1 DEF V!OpensAgain, V!KeyOf
    <3>1. (IF keys[d] # V!Missing THEN keys[d] ELSE keys[legacy]) \in {rows[d][s].by, V!Torn}
      BY DEF VaultInv, V!OpensAgain, V!KeyOf
    <3>2. d \in V!Place
      BY VaultConstants
    <3>3. keys[d] # V!Missing
      BY <3>1, <1>3, VaultConstants
    <3>4. d # path
      BY <3>3, <1>3
    <3> QED  BY <3>1, <3>2, <3>3, <3>4, <2>1
  <2>3. settled => k = IF keys'[open] # V!Missing THEN keys'[open] ELSE keys'[legacy]
    BY <1>3, <2>1
  <2>4. keys' \in [V!Place -> V!KeyId \cup {V!Missing, V!Torn}]
    BY <1>4, <1>6
  <2> QED  BY <1>1, <1>6, <2>2, <2>3, <2>4, GotKeeps
<1> QED  BY <1>1, <1>5, <1>6

LEMMA VaultSave == ASSUME VaultInv, NEW t \in Thread, V!Save(t) PROVE VaultInv'
<1> DEFINE slot == thread[t].slot
           b == V!Seal(thread[t].key, "row")
<1>1. /\ thread[t].at = "use" /\ UNCHANGED <<override, legacy, keys, open, cache, lock, starts, settled>>
      /\ thread' = [thread EXCEPT ![t] = V!Resting]
      /\ rows' = [rows EXCEPT ![open] = [@ EXCEPT ![slot] = b]]
  BY DEF V!Save
<1>2. open # "none" /\ open \in V!Dir /\ slot \in Slot /\ thread[t] \in Row /\ thread \in [Thread -> Row]
  BY <1>1 DEF VaultInv, NeedKnown, V!TypeOK, Row
<1>3. Moved(t, V!Resting)
  BY <1>1, <1>2, RestingIsRow, MoveTo
<1>4. b \in {V!Empty, V!Plain("row")} \cup {V!Sealed(k, "row") : k \in V!KeyId}
      /\ b.by = thread[t].key
  BY <1>2 DEF V!Seal, Row, V!Plain, V!Sealed
<1>5. thread[t].key # V!Missing => cache = thread[t].key /\ cache # V!Missing
  BY DEF VaultInv, V!OneKey
<1> HIDE DEF slot, b
<1>6. V!TypeOK'
  <2>1. rows' \in [V!Dir -> [Slot -> {V!Empty, V!Plain("row")} \cup {V!Sealed(k, "row") : k \in V!KeyId}]]
    BY <1>1, <1>2, <1>4 DEF VaultInv, V!TypeOK
  <2> QED  BY <1>1, <1>3, <2>1 DEF VaultInv, V!TypeOK, Moved, Row
<1>7. NeedKnown'
  BY <1>1, <1>2, <1>3 DEF VaultInv, NeedKnown, Moved, V!Resting
<1>8. V!OneKey'
  BY <1>1, <1>3 DEF VaultInv, V!OneKey, Moved, V!Resting
<1>9. OwnDirectory'
  BY <1>1, <1>3 DEF VaultInv, OwnDirectory, Moved, V!DataDir, V!KeyOf, V!Resting
<1>10. V!OpensAgain'
  <2> SUFFICES ASSUME settled, NEW d \in V!Dir, NEW s \in Slot, rows'[d][s].by # V!Missing
               PROVE  V!KeyOf(d) \in {rows'[d][s].by, V!Torn}
    BY <1>1 DEF V!OpensAgain, V!KeyOf
  <2>1. rows \in [V!Dir -> [Slot -> {V!Empty, V!Plain("row")} \cup {V!Sealed(k, "row") : k \in V!KeyId}]]
    BY DEF VaultInv, V!TypeOK
  <2>2. CASE d = open /\ s = slot
    <3>1. rows'[d][s] = b
      BY <1>1, <1>2, <2>1, <2>2
    <3> QED  BY <3>1, <2>2, <1>2, <1>4, <1>5 DEF VaultInv, OwnDirectory
  <2>3. CASE ~ (d = open /\ s = slot)
    <3>1. rows'[d][s] = rows[d][s]
      BY <1>1, <1>2, <2>1, <2>3
    <3> QED  BY <3>1 DEF VaultInv, V!OpensAgain
  <2> QED  BY <2>2, <2>3
<1> QED  BY <1>6, <1>7, <1>8, <1>9, <1>10 DEF VaultInv

LEMMA VaultRead == ASSUME VaultInv, NEW t \in Thread, V!Read(t) PROVE VaultInv'
<1>1. /\ UNCHANGED <<override, legacy, keys, rows, open, cache, lock, starts, settled>>
      /\ thread' = [thread EXCEPT ![t] = V!Resting]
  BY DEF V!Read, V!disk
<1>2. thread \in [Thread -> Row]
  BY DEF VaultInv, V!TypeOK, Row
<1>3. Moved(t, V!Resting)
  BY <1>1, <1>2, RestingIsRow, MoveTo
<1>6. V!TypeOK'
  BY <1>1, <1>3 DEF VaultInv, V!TypeOK, Moved, Row
<1>7. NeedKnown'
  BY <1>1, <1>3 DEF VaultInv, NeedKnown, Moved, V!Resting
<1>8. V!OneKey'
  BY <1>1, <1>3 DEF VaultInv, V!OneKey, Moved, V!Resting
<1>9. OwnDirectory'
  BY <1>1, <1>3 DEF VaultInv, OwnDirectory, Moved, V!DataDir, V!KeyOf, V!Resting
<1>10. V!OpensAgain'
  BY <1>1 DEF VaultInv, V!OpensAgain, V!KeyOf
<1> QED  BY <1>6, <1>7, <1>8, <1>9, <1>10 DEF VaultInv
LEMMA VaultStart == ASSUME VaultInv, V!Start PROVE VaultInv'
<1>1. /\ open = "none" /\ open' = V!DataDir /\ starts' = starts + 1 /\ starts < MaxStarts
      /\ UNCHANGED <<override, legacy, keys, rows, cache, lock, thread, settled>>
  BY DEF V!Start, V!disk
<1>2. V!DataDir \in V!Dir
  BY DataDirIsDir DEF VaultInv
<1>3. starts' \in 0 .. MaxStarts
  BY <1>1, PersistenceAssumption DEF VaultInv, V!TypeOK
<1>4. cache = V!Missing /\ \A t \in Thread : thread[t].at = "rest"
  BY <1>1 DEF VaultInv, NeedKnown
<1>5. V!TypeOK'
  BY <1>1, <1>2, <1>3 DEF VaultInv, V!TypeOK
<1>6. NeedKnown'
  BY <1>1, <1>4 DEF VaultInv, NeedKnown
<1>7. V!OneKey'
  BY <1>1 DEF VaultInv, V!OneKey
<1>8. OwnDirectory'
  BY <1>1, <1>4 DEF OwnDirectory, V!DataDir
<1>9. V!OpensAgain'
  BY <1>1 DEF VaultInv, V!OpensAgain, V!KeyOf
<1> QED  BY <1>5, <1>6, <1>7, <1>8, <1>9 DEF VaultInv

\* The process ends; a key file that was being written may be cut short.
LEMMA VaultStop == ASSUME VaultInv, V!Stop PROVE VaultInv'
<1>1. /\ open # "none" /\ open' = "none" /\ cache' = V!Missing /\ lock' = "none"
      /\ thread' = [t \in Thread |-> V!Resting]
      /\ UNCHANGED <<override, legacy, rows, starts, settled>>
  BY DEF V!Stop
<1>2. PICK p \in V!Dir :
        \/ keys' = keys
        \/ /\ keys' = [keys EXCEPT ![p] = V!Torn]
           /\ settled => p = open /\ keys[p] = V!Missing
  <2>1. CASE UNCHANGED keys
    BY <2>1, VaultConstants
  <2>2. ASSUME NEW t \in Thread, thread[t].at = "create", keys' = [keys EXCEPT ![thread[t].path] = V!Torn]
        PROVE  \E p \in V!Dir :
                 /\ keys' = [keys EXCEPT ![p] = V!Torn]
                 /\ settled => p = open /\ keys[p] = V!Missing
    BY <2>2, <1>1 DEF VaultInv, NeedKnown, OwnDirectory
  <2>3. ASSUME NEW t \in Thread, thread[t].at = "load", keys[V!DataDir] = V!Missing,
               keys' = [keys EXCEPT ![V!DataDir] = V!Torn]
        PROVE  \E p \in V!Dir :
                 /\ keys' = [keys EXCEPT ![p] = V!Torn]
                 /\ settled => p = open /\ keys[p] = V!Missing
    <3>1. V!DataDir \in V!Dir
      BY DataDirIsDir DEF VaultInv
    <3>2. settled => V!DataDir = open
      BY <2>3, <1>1 DEF VaultInv, NeedKnown, OwnDirectory
    <3> QED  BY <3>1, <3>2, <2>3
  <2> QED  BY <2>1, <2>2, <2>3 DEF V!Stop
<1>3. keys \in [V!Place -> V!KeyId \cup {V!Missing, V!Torn}] /\ p \in V!Place /\ legacy \in V!Place
  BY VaultConstants DEF VaultInv, V!TypeOK
<1>4. keys' \in [V!Place -> V!KeyId \cup {V!Missing, V!Torn}]
  BY <1>2, <1>3
<1>5. V!TypeOK'
  BY <1>1, <1>4, RestingIsRow DEF VaultInv, V!TypeOK, Row
<1>6. NeedKnown' /\ V!OneKey' /\ OwnDirectory'
  BY <1>1 DEF NeedKnown, V!OneKey, OwnDirectory, V!Resting
<1>7. V!OpensAgain'
  <2> SUFFICES ASSUME settled, NEW d \in V!Dir, NEW s \in Slot, rows[d][s].by # V!Missing
               PROVE  (IF keys'[d] # V!Missing THEN keys'[d] ELSE keys'[legacy]) \in {rows[d][s].by, V!Torn}
    BY <1>1 DEF V!OpensAgain, V!KeyOf
  <2>1. (IF keys[d] # V!Missing THEN keys[d] ELSE keys[legacy]) \in {rows[d][s].by, V!Torn}
    BY DEF VaultInv, V!OpensAgain, V!KeyOf
  <2>2. d \in V!Place
    BY VaultConstants
  <2> QED  BY <1>2, <1>3, <2>1, <2>2, VaultConstants
<1> QED  BY <1>5, <1>6, <1>7 DEF VaultInv

LEMMA VaultRedirect == ASSUME VaultInv, NEW d \in Other \cup {"none"}, V!Redirect(d) PROVE VaultInv'
<1>1. /\ open # "none" /\ override' = d
      /\ settled' = (settled /\ (cache # V!Missing \/ V!DataDir' = open))
      /\ UNCHANGED <<legacy, keys, rows, open, cache, lock, thread, starts>>
  BY DEF V!Redirect
<1>2. settled' \in BOOLEAN
  BY ONLY <1>1, Zenon
<1>3. settled' => settled /\ (cache # V!Missing \/ V!DataDir' = open)
  BY <1>1
<1>5. V!TypeOK'
  BY <1>1, <1>2 DEF VaultInv, V!TypeOK
<1>6. NeedKnown' /\ V!OneKey'
  BY <1>1 DEF VaultInv, NeedKnown, V!OneKey
<1>7. OwnDirectory'
  BY <1>1, <1>3 DEF VaultInv, OwnDirectory, V!KeyOf
<1>8. V!OpensAgain'
  BY <1>1, <1>3 DEF VaultInv, V!OpensAgain, V!KeyOf
<1> QED  BY <1>5, <1>6, <1>7, <1>8 DEF VaultInv

LEMMA NextVaultInv == VaultInv /\ [V!Next]_(V!vars) => VaultInv'
<1> SUFFICES ASSUME VaultInv, [V!Next]_(V!vars) PROVE VaultInv'
  OBVIOUS
<1>1. CASE V!Start
  BY <1>1, VaultStart
<1>2. CASE V!Stop
  BY <1>2, VaultStop
<1>3. CASE V!ResetDataDir
  BY <1>3, VaultRedirect DEF V!ResetDataDir
<1>4. ASSUME NEW d \in V!Dir, V!SetDataDir(d) PROVE VaultInv'
  BY <1>4, VaultRedirect DEF V!SetDataDir, V!Dir
<1>5. ASSUME NEW t \in Thread, NEW does \in {"save", "read"}, NEW s \in Slot, V!Need(t, does, s)
      PROVE  VaultInv'
  BY <1>5, VaultNeed
<1>6. ASSUME NEW t \in Thread, V!Lock(t) \/ V!Load(t) \/ V!Create(t) \/ V!Save(t) \/ V!Read(t)
      PROVE  VaultInv'
  BY <1>6, VaultLock, VaultLoad, VaultCreate, VaultSave, VaultRead
<1>7. CASE UNCHANGED V!vars
  <2> USE <1>7 DEF V!vars, V!disk
  <2>1. V!TypeOK'
    BY DEF VaultInv, V!TypeOK
  <2>2. NeedKnown' /\ V!OneKey'
    BY DEF VaultInv, NeedKnown, V!OneKey
  <2>3. OwnDirectory'
    BY DEF VaultInv, OwnDirectory, V!DataDir, V!KeyOf
  <2>4. V!OpensAgain'
    BY DEF VaultInv, V!OpensAgain, V!KeyOf
  <2> QED  BY <2>1, <2>2, <2>3, <2>4 DEF VaultInv
<1> QED  BY <1>1, <1>2, <1>3, <1>4, <1>5, <1>6, <1>7 DEF V!Next

\* Whoever has a key opens what is there.
LEMMA VaultOpens == VaultInv => V!ReadsOpen
<1> SUFFICES ASSUME VaultInv, settled, NEW t \in Thread,
                    thread[t].at = "use", thread[t].does = "read", thread[t].key # V!Missing
             PROVE  V!Opens(thread[t].key, rows[open][thread[t].slot])
  BY DEF V!ReadsOpen
<1>1. open # "none" /\ thread[t].slot \in Slot
  BY DEF VaultInv, NeedKnown
<1>2. open \in V!Dir /\ cache = thread[t].key /\ cache \in V!KeyId
  BY <1>1 DEF VaultInv, V!TypeOK, V!OneKey
<1>3. V!KeyOf(open) = cache
  BY <1>1, <1>2 DEF VaultInv, OwnDirectory
<1>4. rows[open][thread[t].slot].by # V!Missing => V!KeyOf(open) \in {rows[open][thread[t].slot].by, V!Torn}
  BY <1>1, <1>2 DEF VaultInv, V!OpensAgain
<1> QED  BY <1>2, <1>3, <1>4, VaultConstants DEF V!Opens

\* All threads of a process have one key, and what was sealed in a directory is opened
\* by the key found there, after any number of restarts, if the directory did not
\* change before the key was known: for any threads, directories, columns and keys.
\* (ensure_master_key, load_or_create_key, decrypt_env_json)
THEOREM KeyAlwaysFits == V!Spec => []KeyFits
<1>1. V!Spec => []VaultInv
  BY InitVaultInv, NextVaultInv, PTL DEF V!Spec
<1>2. VaultInv => KeyFits
  BY VaultOpens DEF VaultInv, KeyFits
<1> QED  BY <1>1, <1>2, PTL

-----------------------------------------------------------------------------
(***************************************************************************)
(* The jar and the proxy that HTTP requests share (HttpSession)             *)
(***************************************************************************)
Cookie == [domain : Host, name : H!Name, path : H!Path, value : Content, ends : Nat]
Entry == [value : Content, ends : Nat]

SharedTyped ==
  /\ jar \in [Host -> SUBSET Cookie] /\ DOMAIN newest \subseteq Host \X H!Name \X H!Path
  /\ newest = [k \in DOMAIN newest |-> newest[k]]
  /\ clock \in Nat
  /\ \A k \in DOMAIN newest : newest[k] \in Entry
  /\ place \in [Req -> {"idle", "sent", "done"}] /\ step \in [Setter -> {"idle", "applied", "done"}]
  /\ asked \in [Setter -> Proxy \cup {Direct}] /\ pair \in Proxy \cup {Direct}
  /\ setting \in Proxy \cup {Direct} /\ calm \in {"yes", "no"}

KeyIs(c, k) == c.domain = k[1] /\ c.name = k[2] /\ c.path = k[3]

\* A cookie in the jar is the one that was set last under its domain, name and path.
JarIsNewest ==
  \A d \in Host : \A c \in jar[d] :
    /\ c.domain = d /\ <<d, c.name, c.path>> \in DOMAIN newest
    /\ c.value = newest[<<d, c.name, c.path>>].value
    /\ c.ends = newest[<<d, c.name, c.path>>].ends

\* What was set last and has not ended is in the jar.
NewestInJar ==
  \A k \in DOMAIN newest : newest[k].ends > clock => \E c \in jar[k[1]] : c.name = k[2] /\ c.path = k[3]

\* While commands do not overlap, the one that has applied its proxy is to write it.
OneSetter ==
  calm = "yes" =>
    /\ \A s, o \in Setter : step[s] = "applied" /\ step[o] = "applied" => s = o
    /\ \A s \in Setter : step[s] = "applied" => pair = asked[s]
    /\ H!SerialProxyRestored

SharedInv == SharedTyped /\ JarIsNewest /\ NewestInJar /\ OneSetter

LEMMA InitSharedInv == H!Init => SharedInv
<1> SUFFICES ASSUME H!Init PROVE SharedInv
  OBVIOUS
<1>1. SharedTyped
  BY DEF H!Init, SharedTyped
<1>2. JarIsNewest /\ NewestInJar
  BY DEF H!Init, JarIsNewest, NewestInJar
<1>3. OneSetter
  BY DEF H!Init, OneSetter, H!SerialProxyRestored
<1> QED  BY <1>1, <1>2, <1>3 DEF SharedInv

\* What leaves the proxy alone.
LEMMA SameSetter ==
  ASSUME OneSetter, UNCHANGED <<pair, setting, step, asked, calm>> PROVE OneSetter'
  BY DEF OneSetter, H!SerialProxyRestored

LEMMA ReadKeeps ==
  ASSUME SharedTyped, JarIsNewest, NewestInJar, NEW D \in SUBSET Host, H!Read(D), UNCHANGED <<newest, clock>>
  PROVE  jar' \in [Host -> SUBSET Cookie] /\ JarIsNewest' /\ NewestInJar'
<1>1. jar' = [d \in Host |-> IF d \in D THEN {c \in jar[d] : c.ends > clock} ELSE jar[d]]
  BY DEF H!Read, H!Fresh
<1>2. \A d \in Host : jar'[d] \subseteq jar[d] /\ \A c \in jar[d] : c.ends > clock => c \in jar'[d]
  BY <1>1
<1>3. jar' \in [Host -> SUBSET Cookie]
  <2>1. \A d \in Host : jar[d] \subseteq Cookie
    BY DEF SharedTyped
  <2>2. \A d \in Host : (IF d \in D THEN {c \in jar[d] : c.ends > clock} ELSE jar[d]) \in SUBSET Cookie
    BY ONLY <2>1
  <2> QED  BY ONLY <1>1, <2>2
<1>4. JarIsNewest'
  BY <1>2 DEF JarIsNewest
<1>5. NewestInJar'
  <2> SUFFICES ASSUME NEW k \in DOMAIN newest, newest[k].ends > clock
               PROVE  \E c \in jar'[k[1]] : c.name = k[2] /\ c.path = k[3]
    BY DEF NewestInJar
  <2>1. k = <<k[1], k[2], k[3]>> /\ k[1] \in Host
    BY DEF SharedTyped
  <2>2. PICK c \in jar[k[1]] : c.name = k[2] /\ c.path = k[3]
    BY DEF NewestInJar
  <2>3. c.ends = newest[k].ends
    BY <2>1, <2>2 DEF JarIsNewest
  <2> QED  BY <1>2, <2>1, <2>2, <2>3
<1> QED  BY <1>3, <1>4, <1>5

LEMMA SharedBegin == ASSUME SharedInv, NEW r \in Req, NEW h \in Host, H!Begin(r, h) PROVE SharedInv'
<1>1. UNCHANGED <<newest, came, clock, pair, setting, step, asked, calm>> /\ place' = [place EXCEPT ![r] = "sent"]
      /\ (UNCHANGED jar \/ H!Read({d \in Host : H!Matches(h, d)}))
  BY DEF H!Begin, H!proxies
<1>2. jar' \in [Host -> SUBSET Cookie] /\ JarIsNewest' /\ NewestInJar'
  <2>1. CASE UNCHANGED jar
    BY <2>1, <1>1 DEF SharedInv, SharedTyped, JarIsNewest, NewestInJar
  <2>2. CASE H!Read({d \in Host : H!Matches(h, d)})
    BY <2>2, <1>1, ReadKeeps DEF SharedInv
  <2> QED  BY <1>1, <2>1, <2>2
<1>3. SharedTyped'
  BY <1>1, <1>2 DEF SharedInv, SharedTyped
<1> QED  BY <1>1, <1>2, <1>3, SameSetter DEF SharedInv

LEMMA SharedRespond ==
  ASSUME SharedInv, NEW r \in Req, NEW h \in Host, H!Respond(r, h)
  PROVE  SharedInv'
<1>1. UNCHANGED <<clock, client, pair, setting, step, asked, calm>>
      /\ place' \in {place, [place EXCEPT ![r] = "done"]}
  BY DEF H!Respond, H!proxies
<1>2. /\ jar' \in [Host -> SUBSET Cookie] /\ JarIsNewest' /\ NewestInJar'
      /\ DOMAIN newest' \subseteq Host \X H!Name \X H!Path /\ newest' = [k \in DOMAIN newest' |-> newest'[k]]
      /\ \A k \in DOMAIN newest' : newest'[k] \in Entry
  <2>1. CASE UNCHANGED <<jar, newest>>
    BY <2>1, <1>1 DEF SharedInv, SharedTyped, JarIsNewest, NewestInJar
  <2>2. CASE ~ UNCHANGED <<jar, newest>>
    <3>1. PICK c \in H!Cookies(h) :
            /\ jar' = [jar EXCEPT ![c.domain] = H!Stored(@, c)]
            /\ newest' = [k \in DOMAIN newest \cup {<<c.domain, c.name, c.path>>} |->
                            IF k = <<c.domain, c.name, c.path>>
                            THEN [value |-> c.value, ends |-> c.ends] ELSE newest[k]]
      BY <2>2 DEF H!Respond, H!cookies
    <3> DEFINE key == <<c.domain, c.name, c.path>>
    <3>2. c \in Cookie
      BY PersistenceAssumption DEF H!Cookies, Cookie, H!Session
    <3>3. c.domain \in Host /\ key \in Host \X H!Name \X H!Path
      BY <3>2 DEF Cookie
    <3>4. /\ \A d \in Host : d # c.domain => jar'[d] = jar[d]
          /\ jar'[c.domain] = {k \in jar[c.domain] : ~ (k.name = c.name /\ k.path = c.path)} \cup {c}
      BY <3>1, <3>3 DEF SharedInv, SharedTyped, H!Stored, H!Same
    <3>5. /\ DOMAIN newest' = DOMAIN newest \cup {key}
          /\ newest'[key] = [value |-> c.value, ends |-> c.ends]
          /\ \A k \in DOMAIN newest : k # key => newest'[k] = newest[k]
      BY <3>1
    <3>6. jar' \in [Host -> SUBSET Cookie]
      BY <3>1, <3>2, <3>4, <3>3 DEF SharedInv, SharedTyped
    <3>7. DOMAIN newest' \subseteq Host \X H!Name \X H!Path
      BY <3>5, <3>3 DEF SharedInv, SharedTyped
    <3>8. newest' = [k \in DOMAIN newest' |-> newest'[k]]
      BY <3>1
    <3>9. \A k \in DOMAIN newest' : newest'[k] \in Entry
      <4>1. newest'[key] \in Entry
        BY <3>5, <3>2 DEF Entry, Cookie
      <4> QED  BY <4>1, <3>5 DEF SharedInv, SharedTyped
    <3>10. JarIsNewest'
      <4> SUFFICES ASSUME NEW d \in Host, NEW k \in jar'[d]
                   PROVE  /\ k.domain = d /\ <<d, k.name, k.path>> \in DOMAIN newest'
                          /\ k.value = newest'[<<d, k.name, k.path>>].value
                          /\ k.ends = newest'[<<d, k.name, k.path>>].ends
        BY DEF JarIsNewest
      <4>1. CASE k = c
        <5>1. d = c.domain
          BY <4>1, <3>4 DEF SharedInv, JarIsNewest
        <5> QED  BY <4>1, <5>1, <3>5
      <4>2. CASE k # c
        <5>1. k \in jar[d] /\ <<d, k.name, k.path>> # key
          BY <4>2, <3>4
        <5>2. /\ k.domain = d /\ <<d, k.name, k.path>> \in DOMAIN newest
              /\ k.value = newest[<<d, k.name, k.path>>].value
              /\ k.ends = newest[<<d, k.name, k.path>>].ends
          BY <5>1 DEF SharedInv, JarIsNewest
        <5> QED  BY <5>1, <5>2, <3>5
      <4> QED  BY <4>1, <4>2
    <3>11. NewestInJar'
      <4> SUFFICES ASSUME NEW k \in DOMAIN newest', newest'[k].ends > clock
                   PROVE  \E b \in jar'[k[1]] : b.name = k[2] /\ b.path = k[3]
        BY <1>1 DEF NewestInJar
      <4>1. CASE k = key
        BY <4>1, <3>4
      <4>2. CASE k # key
        <5>1. k \in DOMAIN newest /\ newest'[k] = newest[k]
          BY <4>2, <3>5
        <5>2. k = <<k[1], k[2], k[3]>> /\ k[1] \in Host
          BY <5>1 DEF SharedInv, SharedTyped
        <5>3. PICK b \in jar[k[1]] : b.name = k[2] /\ b.path = k[3]
          BY <5>1 DEF SharedInv, NewestInJar
        <5>4. b \in jar'[k[1]]
          BY <5>2, <5>3, <4>2, <3>4
        <5> QED  BY <5>3, <5>4
      <4> QED  BY <4>1, <4>2
    <3> QED  BY <3>6, <3>7, <3>8, <3>9, <3>10, <3>11
  <2> QED  BY <2>1, <2>2
<1>3. place' \in [Req -> {"idle", "sent", "done"}]
  BY <1>1 DEF SharedInv, SharedTyped
<1>4. SharedTyped'
  BY <1>1, <1>2, <1>3 DEF SharedInv, SharedTyped
<1> QED  BY <1>1, <1>2, <1>4, SameSetter DEF SharedInv

LEMMA SharedList == ASSUME SharedInv, NEW D \in SUBSET Host, H!List(D) PROVE SharedInv'
<1>1. UNCHANGED <<newest, came, clock, place, client, pair, setting, step, asked, calm>> /\ H!Read(D)
  BY DEF H!List, H!proxies
<1>2. jar' \in [Host -> SUBSET Cookie] /\ JarIsNewest' /\ NewestInJar'
  BY <1>1, ReadKeeps DEF SharedInv
<1>3. SharedTyped'
  BY <1>1, <1>2 DEF SharedInv, SharedTyped
<1> QED  BY <1>1, <1>2, <1>3, SameSetter DEF SharedInv

LEMMA SharedClear == ASSUME SharedInv, NEW d \in Host, H!Clear(d) PROVE SharedInv'
<1>1. /\ jar' = [e \in Host |-> IF e \in H!Covered(d) THEN {} ELSE jar[e]]
      /\ newest' = [k \in {k \in DOMAIN newest : ~ H!Matches(k[1], d)} |-> newest[k]]
      /\ UNCHANGED <<came, clock, place, client, pair, setting, step, asked, calm>>
  BY DEF H!Clear, H!proxies
<1>2. \A e \in Host : e \in H!Covered(d) <=> H!Matches(e, d)
  BY DEF H!Covered, H!Matches
<1> DEFINE left == {k \in DOMAIN newest : ~ H!Matches(k[1], d)}
<1>3. DOMAIN newest' = left /\ \A k \in left : newest'[k] = newest[k]
  BY <1>1
<1>4. SharedTyped'
  <2>1. jar' \in [Host -> SUBSET Cookie]
    BY <1>1 DEF SharedInv, SharedTyped
  <2>2. newest' = [k \in DOMAIN newest' |-> newest'[k]]
    BY <1>1
  <2> QED  BY <1>1, <1>3, <2>1, <2>2 DEF SharedInv, SharedTyped
<1>5. JarIsNewest'
  <2> SUFFICES ASSUME NEW e \in Host, NEW c \in jar'[e]
               PROVE  /\ c.domain = e /\ <<e, c.name, c.path>> \in DOMAIN newest'
                      /\ c.value = newest'[<<e, c.name, c.path>>].value
                      /\ c.ends = newest'[<<e, c.name, c.path>>].ends
    BY DEF JarIsNewest
  <2>1. c \in jar[e] /\ ~ H!Matches(e, d)
    BY <1>1, <1>2
  <2>2. <<e, c.name, c.path>> \in left
    BY <2>1 DEF SharedInv, JarIsNewest
  <2> QED  BY <2>1, <2>2, <1>3 DEF SharedInv, JarIsNewest
<1>6. NewestInJar'
  <2> SUFFICES ASSUME NEW k \in DOMAIN newest', newest'[k].ends > clock
               PROVE  \E b \in jar'[k[1]] : b.name = k[2] /\ b.path = k[3]
    BY <1>1 DEF NewestInJar
  <2>1. k \in DOMAIN newest /\ newest[k].ends > clock /\ ~ H!Matches(k[1], d)
    BY <1>3
  <2>2. k[1] \in Host
    BY <2>1 DEF SharedInv, SharedTyped
  <2>3. jar'[k[1]] = jar[k[1]]
    BY <2>1, <2>2, <1>1, <1>2
  <2> QED  BY <2>1, <2>3 DEF SharedInv, NewestInJar
<1> QED  BY <1>1, <1>4, <1>5, <1>6, SameSetter DEF SharedInv

LEMMA SharedPass == ASSUME SharedInv, H!Pass PROVE SharedInv'
<1>1. clock' = clock + 1 /\ UNCHANGED <<jar, newest, came, place, client, pair, setting, step, asked, calm>>
  BY DEF H!Pass, H!cookies, H!proxies
<1>2. SharedTyped'
  BY <1>1 DEF SharedInv, SharedTyped
<1>3. JarIsNewest'
  BY <1>1 DEF SharedInv, JarIsNewest
<1>4. \A k \in DOMAIN newest : newest[k].ends > clock' => newest[k].ends > clock
  BY <1>1 DEF SharedInv, SharedTyped, Entry
<1>5. NewestInJar'
  BY <1>1, <1>4 DEF SharedInv, NewestInJar
<1> QED  BY <1>1, <1>2, <1>3, <1>5, SameSetter DEF SharedInv

\* The proxy.
LEMMA SharedSet ==
  ASSUME SharedInv, NEW s \in Setter, H!Apply(s) \/ H!Persist(s) \/ H!PersistFails(s) PROVE SharedInv'
<1>1. UNCHANGED <<jar, newest, came, clock, place, client>>
  BY DEF H!Apply, H!Persist, H!PersistFails, H!cookies
<1>2. JarIsNewest' /\ NewestInJar'
  BY <1>1 DEF SharedInv, JarIsNewest, NewestInJar
<1>3. SharedTyped'
  <2>1. CASE H!Apply(s)
    BY <2>1, <1>1 DEF H!Apply, SharedInv, SharedTyped
  <2>2. CASE H!Persist(s)
    BY <2>2, <1>1 DEF H!Persist, SharedInv, SharedTyped
  <2>3. CASE H!PersistFails(s)
    BY <2>3, <1>1 DEF H!PersistFails, SharedInv, SharedTyped
  <2> QED  BY <2>1, <2>2, <2>3
<1>4. OneSetter'
  <2>1. CASE H!Apply(s)
    BY <2>1 DEF H!Apply, H!Busy, SharedInv, SharedTyped, OneSetter, H!SerialProxyRestored
  <2>2. CASE H!Persist(s)
    BY <2>2 DEF H!Persist, SharedInv, SharedTyped, OneSetter, H!SerialProxyRestored
  <2>3. CASE H!PersistFails(s)
    BY <2>3 DEF H!PersistFails, OneSetter
  <2> QED  BY <2>1, <2>2, <2>3
<1> QED  BY <1>2, <1>3, <1>4 DEF SharedInv

LEMMA SharedRestart == ASSUME SharedInv, H!Restart PROVE SharedInv'
<1>1. SharedTyped'
  BY DEF H!Restart, SharedInv, SharedTyped
<1>2. JarIsNewest' /\ NewestInJar'
  BY DEF H!Restart, JarIsNewest, NewestInJar
<1>3. OneSetter'
  BY DEF H!Restart, OneSetter, H!SerialProxyRestored
<1> QED  BY <1>1, <1>2, <1>3 DEF SharedInv

LEMMA NextSharedInv == SharedInv /\ [H!Next]_(H!vars) => SharedInv'
<1> SUFFICES ASSUME SharedInv, [H!Next]_(H!vars) PROVE SharedInv'
  OBVIOUS
<1>1. ASSUME NEW r \in Req, NEW h \in Host, H!Begin(r, h) \/ H!Respond(r, h) PROVE SharedInv'
  BY <1>1, SharedBegin, SharedRespond
<1>2. ASSUME NEW d \in Host, H!Clear(d) PROVE SharedInv'
  BY <1>2, SharedClear
<1>3. ASSUME NEW D \in SUBSET Host, H!List(D) PROVE SharedInv'
  BY <1>3, SharedList
<1>4. ASSUME NEW s \in Setter, H!Apply(s) \/ H!Persist(s) \/ H!PersistFails(s) PROVE SharedInv'
  BY <1>4, SharedSet
<1>5. CASE H!Pass
  BY <1>5, SharedPass
<1>6. CASE H!Restart
  BY <1>6, SharedRestart
<1>7. CASE UNCHANGED H!vars
  BY <1>7 DEF H!vars, H!cookies, H!proxies, SharedInv, SharedTyped, JarIsNewest, NewestInJar,
       OneSetter,
              H!SerialProxyRestored
<1> QED  BY <1>1, <1>2, <1>3, <1>4, <1>5, <1>6, <1>7 DEF H!Next

\* A request carries what the jar holds, and that is what was set last.
LEMMA NewestIsCarried == SharedInv => H!CarriesNewest
<1> SUFFICES ASSUME SharedInv, NEW h \in Host
             PROVE  H!HeaderFor(h) =
               {[domain |-> k[1], name |-> k[2], path |-> k[3], value |-> newest[k].value] :
                 k \in {k \in DOMAIN newest :
                          H!Matches(h, k[1]) /\ newest[k].ends > clock /\ newest[k].value # NoValue}}
  BY DEF H!CarriesNewest
<1> DEFINE told == {[domain |-> k[1], name |-> k[2], path |-> k[3], value |-> newest[k].value] :
                     k \in {k \in DOMAIN newest :
                              H!Matches(h, k[1]) /\ newest[k].ends > clock /\ newest[k].value # NoValue}}
<1>1. ASSUME NEW x \in H!HeaderFor(h) PROVE x \in told
  <2>1. PICK d \in Host : H!Matches(h, d) /\
          \E c \in jar[d] : /\ c.ends > clock /\ c.value # NoValue
                            /\ x = [domain |-> d, name |-> c.name, path |-> c.path, value |-> c.value]
    BY DEF H!HeaderFor, H!Fresh
  <2>2. PICK c \in jar[d] : /\ c.ends > clock /\ c.value # NoValue
                            /\ x = [domain |-> d, name |-> c.name, path |-> c.path, value |-> c.value]
    BY <2>1
  <2> DEFINE k == <<d, c.name, c.path>>
  <2>3. k \in DOMAIN newest /\ c.value = newest[k].value /\ c.ends = newest[k].ends
    BY DEF SharedInv, JarIsNewest
  <2>4. H!Matches(h, k[1]) /\ newest[k].ends > clock /\ newest[k].value # NoValue
    BY <2>1, <2>2, <2>3
  <2>5. x = [domain |-> k[1], name |-> k[2], path |-> k[3], value |-> newest[k].value]
    BY <2>2, <2>3
  <2> HIDE DEF k
  <2> QED  BY <2>3, <2>4, <2>5
<1>2. ASSUME NEW x \in told PROVE x \in H!HeaderFor(h)
  <2>1. PICK k \in DOMAIN newest :
          /\ H!Matches(h, k[1]) /\ newest[k].ends > clock /\ newest[k].value # NoValue
          /\ x = [domain |-> k[1], name |-> k[2], path |-> k[3], value |-> newest[k].value]
    OBVIOUS
  <2>2. k = <<k[1], k[2], k[3]>> /\ k[1] \in Host
    BY DEF SharedInv, SharedTyped
  <2>3. PICK c \in jar[k[1]] : c.name = k[2] /\ c.path = k[3]
    BY <2>1 DEF SharedInv, NewestInJar
  <2>4. c.value = newest[k].value /\ c.ends = newest[k].ends
    BY <2>2, <2>3 DEF SharedInv, JarIsNewest
  <2>5. c \in H!Fresh(jar[k[1]]) /\ c.value # NoValue
    BY <2>1, <2>3, <2>4 DEF H!Fresh
  <2>6. x = [domain |-> k[1], name |-> c.name, path |-> c.path, value |-> c.value]
    BY <2>1, <2>3, <2>4
  <2> QED  BY <2>1, <2>2, <2>5, <2>6 DEF H!HeaderFor
<1> QED  BY <1>1, <1>2

\* A request carries exactly what was set last and neither ended nor was cleared, and
\* the proxy in use is the one that is saved: for any requests, hosts, cookies and
\* commands. (cookie.rs, set_http_proxy)
THEOREM SharedAlwaysTrue == H!Spec => []SharedIsTrue
<1>1. H!Spec => []SharedInv
  BY InitSharedInv, NextSharedInv, PTL DEF H!Spec
<1>2. SharedInv => SharedIsTrue
  <2>1. SharedInv => H!SerialProxyRestored
    BY DEF SharedInv, OneSetter, H!SerialProxyRestored
  <2> QED  BY <2>1, NewestIsCarried DEF SharedIsTrue
<1> QED  BY <1>1, <1>2, PTL

===============================================================================
