-------------------------------- MODULE Startup --------------------------------
(***************************************************************************)
(* What the application does with its database and its logs when it starts  *)
(* (fox-storage/db.rs, commands/log.rs): a snapshot before migrations, of   *)
(* which the last few are kept, a check of the database after them, and the *)
(* removal of logs past their days.                                        *)
(*                                                                         *)
(* A snapshot is named by the second it is made in, a log file by the day.  *)
(* Days of log files are those of UTC (tracing_appender); the removal       *)
(* counts local days, which begin earlier east of Greenwich.                *)
(***************************************************************************)
EXTENDS Naturals, FiniteSets

CONSTANTS
  Retention,   \* SNAPSHOT_RETENTION
  MaxTime,     \* seconds there can be, a bound
  MaxDay,      \* days there can be, a bound
  Keeps        \* settings of how many days of logs to keep

VARIABLES
  phase,     \* "off", or of a start: "log", "snapshot", "migrate", "clean", "running", "failed"
  database,  \* "none", "whole" or "broken"
  snapshots, \* by the second it was made in
  now,       \* the second, as the local clock has it
  since,     \* history: snapshots of a broken database since the last of a whole one
  onward,    \* history: every snapshot is later than those before it
  logs,      \* days with a file
  writing,   \* the day of the file that is open
  day,       \* the day in UTC
  ahead,     \* the local day has begun and that of UTC has not
  keep       \* log_retention_days

shots == <<snapshots, since, onward>>
time == <<now, day, ahead>>
vars == <<phase, database, shots, logs, writing, time, keep>>

----------------------------------------------------------------------------
(* setup of the plugin, in its order *)

\* init_tracing opens the file of the day.
OpenLog ==
  /\ phase = "off"
  /\ phase' = IF database = "none" THEN "migrate" ELSE "snapshot"
  /\ logs' = logs \cup {day} /\ writing' = day
  /\ UNCHANGED <<database, shots, time, keep>>

\* The latest by name.
Kept(S) == {n \in S : Cardinality({k \in S : k > n}) < Retention}

\* snapshot_database; nothing where the file cannot be copied.
Snapshot ==
  /\ phase = "snapshot" /\ phase' = "migrate"
  /\ \/ /\ snapshots' = [n \in Kept(DOMAIN snapshots \cup {now}) |->
                           IF n = now THEN database ELSE snapshots[n]]
        /\ since' = IF database = "whole" THEN 0 ELSE IF since < Retention THEN since + 1 ELSE since
        /\ onward' = (onward /\ \A n \in DOMAIN snapshots : n < now)
     \/ UNCHANGED shots
  /\ UNCHANGED <<database, logs, writing, time, keep>>

\* Migrations go through, are refused and undone, or leave a broken database,
\* which integrity_check finds.
Migrate ==
  /\ phase = "migrate"
  /\ \/ /\ database' \in IF database = "none" THEN {"whole"} ELSE {database, "broken"}
        /\ phase' = IF database' = "whole" THEN "clean" ELSE "failed"
     \/ UNCHANGED database /\ phase' = "failed"
  /\ UNCHANGED <<shots, logs, writing, time, keep>>

\* Local days.
Today == IF ahead THEN day + 1 ELSE day

\* Slip: the last day of those kept goes too.
ExpiredEarly(d, days) == Today >= d /\ Today - d + 1 >= days

\* is_expired_rolled; a day in the future is kept.
Expired(d, days) == Today >= d /\ Today - d >= days

\* cleanup_logs_on_startup, and set_log_retention_days later on
Cleanup(days) ==
  /\ (phase = "clean" /\ days = keep) \/ phase = "running"
  /\ phase' = "running" /\ keep' = days
  /\ logs' = {d \in logs : ~Expired(d, days)}
  /\ UNCHANGED <<database, shots, writing, time>>

----------------------------------------------------------------------------
\* A line is written, to a new file if the day is another one.
Write ==
  /\ phase = "running" /\ writing # day
  /\ logs' = logs \cup {day} /\ writing' = day
  /\ UNCHANGED <<phase, database, shots, time, keep>>

Stop ==
  /\ phase # "off" /\ phase' = "off"
  /\ UNCHANGED <<database, shots, logs, writing, time, keep>>

\* The user copies a snapshot back, as the message of the check says.
PutBack(n) ==
  /\ phase = "off" /\ database' = snapshots[n]
  /\ UNCHANGED <<phase, shots, logs, writing, time, keep>>

Midnight ==
  /\ \/ ~ahead /\ ahead' = TRUE /\ UNCHANGED day
     \/ day < MaxDay /\ day' = day + 1 /\ ahead' = FALSE
  /\ UNCHANGED <<phase, database, shots, logs, writing, now, keep>>

\* Local clocks may be turned back.
Clock(n) == n # now /\ now' = n /\ UNCHANGED <<phase, database, shots, logs, writing, day, ahead, keep>>

----------------------------------------------------------------------------
Init ==
  /\ phase = "off" /\ database = "none" /\ snapshots = <<>>
  /\ now = 1 /\ since = Retention /\ onward = TRUE
  /\ logs = {} /\ writing = 0 /\ day = 1 /\ ahead \in BOOLEAN /\ keep \in Keeps

Next ==
  \/ OpenLog \/ Snapshot \/ Migrate \/ Write \/ Stop \/ Midnight
  \/ \E days \in Keeps : Cleanup(days)
  \/ \E n \in DOMAIN snapshots : PutBack(n)
  \/ \E n \in 1..MaxTime : Clock(n)

Spec == Init /\ [][Next]_vars

----------------------------------------------------------------------------
\* Fewer than Retention starts on a broken database leave a snapshot of the
\* whole one to go back to, as long as their names follow time.
WayBack ==
  onward /\ since < Retention => \E n \in DOMAIN snapshots : snapshots[n] = "whole"

\* The file that is written to is removed only where the local day is ahead of
\* UTC and one day is kept.
OpenLogStays ==
  [][writing = day /\ day \in logs /\ day \notin logs' => ahead /\ keep' = 1]_<<logs, keep, writing, day, ahead>>

=============================================================================
