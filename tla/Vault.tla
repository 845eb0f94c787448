--------------------------------- MODULE Vault ---------------------------------
(***************************************************************************)
(* The data directory, the master key in it and what is sealed with the key *)
(* (crates/fox-secret, fox-core/paths.rs, the encrypted columns of          *)
(* fox-storage).  A process opens the database of the directory in force    *)
(* when it starts, but looks for the key when it first needs it, in the     *)
(* directory in force then.  Several threads may need it at once.           *)
(*                                                                         *)
(* Keys are numbered in the order they are made in.  The environment        *)
(* variable RUSTFOX_DATA_DIR is left out: it fixes the directory.           *)
(***************************************************************************)
EXTENDS Naturals, FiniteSets

CONSTANTS
  Thread,     \* commands that may run at a time
  Other,      \* directories besides the default one
  Slot,       \* the sealed columns: environments, global variables
  MaxKeys,    \* keys there can be, a bound
  MaxStarts   \* starts of the application, a bound

Dir == Other \cup {"home"}
Place == Dir \cup {"local"}         \* where a key file can be

Missing == 0
Torn == MaxKeys + 1   \* a file whose writing a crash cut short
KeyId == 1..MaxKeys
Empty == [by |-> Missing, row |-> "none"]
Plain(x) == [by |-> Missing, row |-> x]
Sealed(k, x) == [by |-> k, row |-> x]

VARIABLES
  override,  \* data_dir.txt: a directory, or "none"
  legacy,    \* where older versions kept the key: the default directory or "local"
  keys,      \* the key files
  rows,      \* by directory, the sealed columns of its database
  open,      \* the directory of the database in use, or "none" when not running
  cache,     \* KEY_CACHE
  held,      \* KEY_INIT_LOCK: the thread that holds it, or "none"
  thread,    \* by thread: [at, does, slot, key, path]
  starts,
  settled    \* history: the directory never changed before the key was known

disk == <<override, legacy, keys, rows>>
vars == <<disk, open, cache, held, thread, starts, settled>>

Resting == [at |-> "rest", does |-> "none", slot |-> "none", key |-> Missing, path |-> "none"]

\* data_dir_override
DataDir == IF override = "none" THEN "home" ELSE override

----------------------------------------------------------------------------
(* The process and its directory *)

Start ==
  /\ open = "none" /\ starts < MaxStarts
  /\ open' = DataDir /\ starts' = starts + 1
  /\ UNCHANGED <<disk, cache, held, thread, settled>>

\* The process ends, at any point; writing a key file may be cut short.
Stop ==
  /\ open # "none"
  /\ open' = "none" /\ cache' = Missing /\ held' = "none"
  /\ thread' = [t \in Thread |-> Resting]
  /\ \/ UNCHANGED keys
     \/ \E t \in Thread : thread[t].at = "create" /\ keys' = [keys EXCEPT ![thread[t].path] = Torn]
     \/ /\ keys[DataDir] = Missing /\ keys[legacy] # Missing
        /\ \E t \in Thread : thread[t].at = "load"
        /\ keys' = [keys EXCEPT ![DataDir] = Torn]
  /\ UNCHANGED <<override, legacy, rows, starts, settled>>

Redirect(d) ==
  /\ open # "none" /\ override' = d
  /\ settled' = (settled /\ (cache # Missing \/ DataDir' = open))
  /\ UNCHANGED <<legacy, keys, rows, open, cache, held, thread, starts>>

\* set_data_dir takes effect for the database at the next start.
SetDataDir(d) == d # "home" /\ Redirect(d)
ResetDataDir == Redirect("none")

----------------------------------------------------------------------------
(* ensure_master_key *)

Goto(t, place) == thread' = [thread EXCEPT ![t].at = place]
CreateIn(t, d) == thread' = [thread EXCEPT ![t].at = "create", ![t].path = d]

\* A command needs the key: to save a column, or to read one that is there.
Need(t, does, slot) ==
  /\ open # "none" /\ thread[t].at = "rest"
  /\ does = "read" => rows[open][slot] # Empty
  /\ thread' = [thread EXCEPT ![t] =
       [at |-> IF cache = Missing THEN "wait" ELSE "use", does |-> does, slot |-> slot, key |-> cache,
        path |-> "none"]]
  /\ UNCHANGED <<disk, open, cache, held, starts, settled>>

\* Slip: nobody waits for the lock.
LockNever(t) ==
  /\ thread[t].at = "wait"
  /\ held' = held
  /\ Goto(t, "load")
  /\ UNCHANGED <<disk, open, cache, starts, settled>>

\* Under the lock the cache is looked at again.
Lock(t) ==
  /\ thread[t].at = "wait" /\ held = "none"
  /\ IF cache # Missing
     THEN thread' = [thread EXCEPT ![t].at = "use", ![t].key = cache] /\ UNCHANGED held
     ELSE held' = t /\ Goto(t, "load")
  /\ UNCHANGED <<disk, open, cache, starts, settled>>

\* KEY_CACHE.set keeps what it has; the caller goes on with its own key.
Got(t, k) ==
  /\ cache' = IF cache = Missing THEN k ELSE cache
  /\ held' = "none"
  /\ thread' = [thread EXCEPT ![t].at = "use", ![t].key = k]

\* load_or_create_key: the file of the directory, else the legacy one, which is
\* copied if it can be, else a new key.
Load(t) ==
  LET found == IF keys[DataDir] # Missing THEN keys[DataDir] ELSE keys[legacy]
  IN /\ thread[t].at = "load"
     /\ IF found = Missing THEN CreateIn(t, DataDir) /\ UNCHANGED <<cache, held>>
        ELSE Got(t, IF found = Torn THEN Missing ELSE found)
     /\ \/ UNCHANGED keys
        \/ found \in KeyId /\ keys' = [keys EXCEPT ![DataDir] = found]
     /\ UNCHANGED <<override, legacy, rows, open, starts, settled>>

\* A new key is written to the file, or cannot be.
Create(t) ==
  LET made == {keys[p] : p \in Place} \cap KeyId
      k    == Cardinality(made) + 1
  IN /\ thread[t].at = "create"
     /\ \/ k \in KeyId /\ keys' = [keys EXCEPT ![thread[t].path] = k] /\ Got(t, k)
        \/ UNCHANGED keys /\ Got(t, Missing)
     /\ UNCHANGED <<override, legacy, rows, open, starts, settled>>

----------------------------------------------------------------------------
(* Sealed columns *)

\* encrypt_env_json: plain where there is no key.
Seal(k, x) == IF k = Missing THEN Plain(x) ELSE Sealed(k, x)

\* decrypt_env_json needs a key for plain rows too.
Opens(k, b) == k # Missing /\ b.by \in {Missing, k}

Save(t) ==
  /\ thread[t].at = "use" /\ thread[t].does = "save"
  /\ rows' = [rows EXCEPT ![open] = [@ EXCEPT ![thread[t].slot] = Seal(thread[t].key, "row")]]
  /\ thread' = [thread EXCEPT ![t] = Resting]
  /\ UNCHANGED <<override, legacy, keys, open, cache, held, starts, settled>>

\* Environments that cannot be opened are an error, global variables are as if
\* there were none: what the interface then saves replaces them.
Read(t) ==
  /\ thread[t].at = "use" /\ thread[t].does = "read"
  /\ thread' = [thread EXCEPT ![t] = Resting]
  /\ UNCHANGED <<disk, open, cache, held, starts, settled>>

----------------------------------------------------------------------------
\* A first start, or one on what an older version left, its key and rows.
Init ==
  /\ override = "none" /\ legacy \in {"home", "local"}
  /\ \E old \in BOOLEAN :
       /\ keys = [p \in Place |-> IF old /\ p = legacy THEN 1 ELSE Missing]
       /\ rows = [d \in Dir |-> [s \in Slot |->
                   IF old /\ d = "home" THEN Sealed(1, "row") ELSE Empty]]
  /\ open = "none" /\ cache = Missing /\ held = "none"
  /\ thread = [t \in Thread |-> Resting]
  /\ starts = 0 /\ settled = TRUE

Next ==
  \/ Start \/ Stop \/ ResetDataDir \/ \E d \in Dir : SetDataDir(d)
  \/ \E t \in Thread :
       \/ \E does \in {"save", "read"}, s \in Slot : Need(t, does, s)
       \/ Lock(t) \/ Load(t) \/ Create(t) \/ Save(t) \/ Read(t)

Spec == Init /\ [][Next]_vars

----------------------------------------------------------------------------
TypeOK ==
  /\ override \in Other \cup {"none"} /\ legacy \in Place
  /\ keys \in [Place -> KeyId \cup {Missing, Torn}]
  /\ rows \in [Dir -> [Slot -> {Empty, Plain("row")} \cup {Sealed(k, "row") : k \in KeyId}]]
  /\ open \in Dir \cup {"none"} /\ cache \in KeyId \cup {Missing}
  /\ held \in Thread \cup {"none"} /\ starts \in 0..MaxStarts /\ settled \in BOOLEAN
  /\ thread \in [Thread -> [at : {"rest", "wait", "load", "create", "use"}, does : {"none", "save", "read"},
                            slot : Slot \cup {"none"}, key : KeyId \cup {Missing},
                            path : Dir \cup {"none"}]]

\* All threads of a process that have a key have the same one.
OneKey == \A t \in Thread : thread[t].key \in {Missing, cache}

\* The key a process that opens d would find.
KeyOf(d) == IF keys[d] # Missing THEN keys[d] ELSE keys[legacy]

\* What was sealed in a directory is opened by the key found there, now and
\* after any restart, if the directory never changed under a running process
\* that had not loaded its key yet, and unless a crash tore the file.
OpensAgain ==
  settled => \A d \in Dir, s \in Slot :
    rows[d][s].by # Missing => KeyOf(d) \in {rows[d][s].by, Torn}

\* Whoever has a key opens what is there, so global variables are never read
\* as none while there are some.
ReadsOpen ==
  settled => \A t \in Thread :
    thread[t].at = "use" /\ thread[t].does = "read" /\ thread[t].key # Missing =>
      Opens(thread[t].key, rows[open][thread[t].slot])

=============================================================================
