------------------------------- MODULE Backup -------------------------------
(***************************************************************************)
(* The backup manager of backup/backup.c.                                  *)
(*                                                                         *)
(* An entry keeps id, status and time stamp.  Its type, path, description, *)
(* file count and size decide nothing and are left out; restoring changes  *)
(* no state.  Time is counted in days.  The code reads no clock: every     *)
(* "current time" in it is 0.  The real day is a variable of the model,    *)
(* and an entry also remembers, for the properties only, on which one it   *)
(* was taken.  As in Containers, a call that returns -1 or 0 is no step.   *)
(***************************************************************************)
EXTENDS IdTable

CONSTANTS
    MAX_BACKUPS,        \* length of the array
    DefaultConfig,      \* what backup_init sets
    Configs,            \* what backup_set_config is called with
    BackupCreations,    \* bound: backup_create succeeds at most this often
    Days                \* bound: the real day runs up to this one

ASSUME BackupAssumption ==
    /\ MAX_BACKUPS \in Nat
    /\ BackupCreations \in Nat
    /\ Days \in Nat \ {0}
    /\ Configs \cup {DefaultConfig} \subseteq
          [enabled : BOOLEAN, retention_days : Nat, max_backups : Nat,
           schedule_interval : Nat]

VARIABLES
    backups,            \* backups[0] .. backups[backup_count - 1]
    next_backup_id,
    config,
    day,                \* the real day
    checked             \* the scheduled check has run on it

backup_vars == <<backups, next_backup_id, config, day, checked>>

\* The time stamp and every current_time: "Should be current time".
current_time == 0

Entries ==
    [id : 1 .. BackupCreations,
     status : {"PENDING", "COMPLETED"},
     timestamp : Nat,
     taken : 1 .. Days]

BackupTypeOK ==
    /\ backups \in Seq(Entries)
    /\ Len(backups) <= MAX_BACKUPS
    /\ next_backup_id \in 1 .. BackupCreations + 1
    /\ config \in Configs \cup {DefaultConfig}
    /\ day \in 1 .. Days
    /\ checked \in BOOLEAN

backup_init ==
    /\ backups = << >>
    /\ next_backup_id = 1
    /\ config = DefaultConfig
    /\ day = 1
    /\ checked = FALSE

-----------------------------------------------------------------------------
\* Mutant: the array is taken to be one entry longer.
RoomForOneMore == Len(backups) <= MAX_BACKUPS

Room == Len(backups) < MAX_BACKUPS

NewId == next_backup_id

\* backup_create, leaving the new backup in the given status.
Create(status) ==
    /\ Room
    /\ next_backup_id <= BackupCreations
    /\ backups' = Append(backups,
          [id |-> NewId, status |-> status, timestamp |-> current_time,
           taken |-> day])
    /\ next_backup_id' = next_backup_id + 1
    /\ UNCHANGED <<config, day>>

backup_create == Create("PENDING") /\ UNCHANGED checked

\* Any backup is executed, a completed one again; IN_PROGRESS does not outlast
\* the call.
backup_execute(id) ==
    \E i \in Found(backups, id) :
        /\ backups' = [backups EXCEPT ![i].status = "COMPLETED"]
        /\ UNCHANGED <<next_backup_id, config, day, checked>>

backup_delete(id) ==
    \E i \in Found(backups, id) :
        /\ backups' = ShiftOut(backups, i)
        /\ UNCHANGED <<next_backup_id, config, day, checked>>

\* Mutant: the comparison of time stamps is <= instead of <.
LastOldest(table) ==
    CHOOSE i \in 1 .. Len(table) :
        \A j \in 1 .. Len(table) :
            \/ table[i].timestamp < table[j].timestamp
            \/ table[i].timestamp = table[j].timestamp /\ j <= i

\* The first of the entries with the least time stamp.
Oldest(table) ==
    CHOOSE i \in 1 .. Len(table) :
        \A j \in 1 .. Len(table) :
            \/ table[i].timestamp < table[j].timestamp
            \/ table[i].timestamp = table[j].timestamp /\ i <= j

Recent(b) == current_time - b.timestamp <= config.retention_days

\* What the loop over retention_days leaves of the table, entry by entry.
WithinRetention(table) ==
    LET left[n \in 0 .. Len(table)] ==
            IF n = 0 THEN << >>
            ELSE IF Recent(table[n]) THEN Append(left[n - 1], table[n])
            ELSE left[n - 1]
    IN  left[Len(table)]

\* What the loop over max_backups leaves: the oldest entry goes, again and
\* again, while there are too many.
WithinMaximum(table) ==
    LET without[n \in 0 .. Len(table)] ==
            IF n = 0 THEN table
            ELSE ShiftOut(without[n - 1], Oldest(without[n - 1]))
    IN  IF Len(table) <= config.max_backups
        THEN table
        ELSE without[Len(table) - config.max_backups]

backup_cleanup_old ==
    /\ backups' = WithinMaximum(WithinRetention(backups))
    /\ UNCHANGED <<next_backup_id, config, day, checked>>

\* The first of the entries with the greatest time stamp.
Latest ==
    CHOOSE i \in 1 .. Len(backups) :
        \A j \in 1 .. Len(backups) :
            \/ backups[i].timestamp > backups[j].timestamp
            \/ backups[i].timestamp = backups[j].timestamp /\ i <= j

Due ==
    \/ backups = << >>
    \/ current_time - backups[Latest].timestamp > config.schedule_interval

\* The check that makes a backup at once, when it is due and there is room.
backup_schedule_check ==
    /\ config.enabled
    /\ IF Due /\ Room
       THEN Create("COMPLETED")
       ELSE UNCHANGED <<backups, next_backup_id, config, day>>
    /\ checked' = TRUE

backup_set_config(new_config) ==
    /\ config' = new_config
    /\ UNCHANGED <<backups, next_backup_id, day, checked>>

\* The world: a day passes.
NextDay ==
    /\ day < Days
    /\ day' = day + 1
    /\ checked' = FALSE
    /\ UNCHANGED <<backups, next_backup_id, config>>

Operation(id) == backup_execute(id) \/ backup_delete(id)

BackupNext ==
    \/ backup_create
    \/ \E id \in 1 .. BackupCreations : Operation(id)
    \/ backup_cleanup_old
    \/ backup_schedule_check
    \/ \E new_config \in Configs : backup_set_config(new_config)
    \/ NextDay

BackupSpec == backup_init /\ [][BackupNext]_backup_vars

-----------------------------------------------------------------------------
\* The table stays ordered by ids that are never given twice, whatever order of
\* deletions, cleanups and scheduled backups: an id kept by an administrator
\* never comes to mean another backup.
IdsAscending ==
    /\ Ascending(backups)
    /\ \A id \in Ids(backups) : id < next_backup_id

\* Executing or deleting a backup leaves every other one as it was.
OthersKept(id) ==
    \A x \in Ids(backups) \ {id} :
        x \in Ids(backups') /\ Entry(backups', x) = Entry(backups, x)

OneBackupAtATime ==
    [][\A id \in 1 .. BackupCreations : Operation(id) => OthersKept(id)]_backup_vars

\* A cleanup removes the backups taken longest ago, though all time stamps are
\* equal: down to max_backups (backup.c:163), and no further unless they have
\* outlived retention_days.
CleanupKeepsMostRecent ==
    [][backup_cleanup_old =>
          /\ Ids(backups') \subseteq Ids(backups)
          /\ Len(backups') <= config.max_backups
          /\ \A gone \in Ids(backups) \ Ids(backups') :
                /\ \A kept \in Ids(backups') : gone < kept
                /\ \/ Len(backups') = config.max_backups
                   \/ day - Entry(backups, gone).taken > config.retention_days
      ]_backup_vars

\* docs/FAQ.md line 96: backups are kept for 7 days (retention_days).  What a
\* cleanup leaves is no older than that.
RetentionHonoured ==
    [][backup_cleanup_old =>
          \A i \in 1 .. Len(backups') :
              day - backups'[i].taken <= config.retention_days]_backup_vars

\* docs/technical.md:362 promises daily backups: after a scheduled check there is
\* a backup no older than the interval.
DailyBackups ==
    [][backup_schedule_check =>
          \E i \in 1 .. Len(backups') :
              day - backups'[i].taken <= config.schedule_interval]_backup_vars
=============================================================================
