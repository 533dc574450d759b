------------------------------- MODULE Startup -------------------------------
(***************************************************************************)
(* From the start of the app to its end: the backup, the migrations and    *)
(* the restore of services/database.ts, the startup sequence and the       *)
(* windows of main.ts, quitting, dying at any point, and updates of the    *)
(* app that bring new migrations.                                          *)
(*                                                                         *)
(* SQLite is modelled from how the code uses it: every statement commits   *)
(* on its own; in WAL mode commits reach the database file itself only at  *)
(* a checkpoint, which closing the last connection makes.                  *)
(***************************************************************************)
EXTENDS Naturals, FiniteSets

CONSTANTS
  Versions,   \* bound: versions of the app; version v brings migration v
  Statements, \* statements of a migration
  MaxCommits, \* bound: transactions of the running app
  MaxCrashes, \* bound: how often the process dies
  MaxFaults   \* bound: errors of SQLite, the disk and the renderer

ASSUME StartupAssumption ==
  /\ Versions \in Nat \ {0} /\ Statements \in Nat \ {0}
  /\ MaxCommits \in Nat /\ MaxCrashes \in Nat /\ MaxFaults \in Nat

Migration == 1 .. Versions

VARIABLES
  version,  \* the app that is installed; its migrations are 1 .. version
  db,       \* what a reader of the database sees
  file,     \* what the database file itself holds, without the WAL
  wal,      \* the database is in WAL mode
  backups,  \* the backup files on disk, kept and mine
  mine,     \* the backup of this start
  pc,       \* step of the process
  todo,     \* migrations this start has still to apply
  skipped,  \* migrations this start found no SQL of
  window,   \* mainWindow: none, hidden, main, failure
  failed,   \* startupFailureWindowShown
  mac,      \* the platform is darwin
  commits, crashes, faults, \* bounds
  closed    \* history: transactions that no restore may take back

diskVars == <<db, file, wal, backups>>
procVars == <<mine, pc, todo, skipped>>
windowVars == <<window, failed>>
boundVars == <<commits, crashes, faults>>
vars == <<version, diskVars, procVars, windowVars, mac, boundVars, closed>>

(* A database file: its transactions, the statements of each migration it  *)
(* has seen and the migrations _prisma_migrations says are finished.       *)
Database == [kind : {"absent", "torn", "sqlite"},
             data : SUBSET (1 .. MaxCommits),
             ran : [Migration -> 0 .. Statements],
             recorded : SUBSET Migration]
Empty == [kind |-> "sqlite", data |-> {},
          ran |-> [m \in Migration |-> 0], recorded |-> {}]

Absent == [Empty EXCEPT !.kind = "absent"]
Torn == [Empty EXCEPT !.kind = "torn"]
Usable == db.kind = "sqlite"

Starting == {"connect", "read", "apply", "exec", "verify", "restore", "copy",
             "open", "recover"}

Init ==
  /\ version = 1
  /\ db = Absent /\ file = Absent /\ wal = FALSE
  /\ backups = {} /\ mine = Absent
  /\ pc = "off" /\ todo = {} /\ skipped = {}
  /\ window = "none" /\ failed = FALSE /\ mac \in BOOLEAN
  /\ commits = 0 /\ crashes = 0 /\ faults = 0
  /\ closed = {}

Fault == faults < MaxFaults /\ faults' = faults + 1

(* A write: it goes to the WAL, or to the file.                            *)
Write(d) == db' = d /\ file' = IF wal THEN file ELSE d
Checkpoint == file' = db

-----------------------------------------------------------------------------
(* runMigrations                                                           *)

(* Variant: a backup that is there already is not written over.            *)
BackupOnce ==
  /\ pc = "off" /\ pc' = "connect"
  /\ mine' = IF backups = {} THEN file ELSE CHOOSE b \in backups : TRUE
  /\ backups' = (backups \cup {mine'}) \ {Absent}
  /\ closed' = closed \cup file.data
  /\ UNCHANGED <<version, db, file, wal, todo, skipped, windowVars, mac,
                 boundVars>>

(* createBackup copies the database file; what only the WAL holds is not   *)
(* in the copy.                                                            *)
CreateBackup == mine' = file

(* A fresh database needs none.                                            *)
Backup ==
  /\ pc = "off" /\ pc' = "connect"
  /\ CreateBackup
  /\ backups' = (backups \cup {mine'}) \ {Absent}
  /\ closed' = closed \cup file.data
  /\ UNCHANGED <<version, db, file, wal, todo, skipped, windowVars, mac,
                 boundVars>>

(* The migration client opens and closes the database, which creates the   *)
(* file and empties the WAL: the file now has what the backup may lack.    *)
Connect ==
  /\ pc = "connect" /\ db # Torn
  /\ db' = (IF db = Absent THEN Empty ELSE db) /\ file' = db'
  /\ pc' = "read"
  /\ UNCHANGED <<version, wal, backups, mine, todo, skipped, windowVars, mac,
                 boundVars, closed>>

(* A file that is no database, or an error.                                *)
ConnectFails ==
  /\ pc = "connect"
  /\ IF db = Torn THEN UNCHANGED faults ELSE Fault
  /\ pc' = "restore"
  /\ UNCHANGED <<version, diskVars, mine, todo, skipped, windowVars, mac,
                 commits, crashes, closed>>

(* Variant: a migration that was started is not tried again.               *)
ReadStarted ==
  /\ pc = "read" /\ pc' = "apply"
  /\ todo' = {m \in 1 .. version : db.ran[m] = 0}
  /\ UNCHANGED <<version, diskVars, mine, skipped, windowVars, mac, boundVars,
                 closed>>

(* The migrations that are not finished; without the directory, nothing.   *)
ReadApplied ==
  /\ pc = "read"
  /\ \/ /\ todo' = (1 .. version) \ db.recorded
        /\ pc' = "apply"
        /\ UNCHANGED <<skipped, faults>>
     \/ /\ Fault
        /\ todo' = {} /\ skipped' = 1 .. version /\ pc' = "verify"
  /\ UNCHANGED <<version, diskVars, mine, windowVars, mac, commits, crashes,
                 closed>>

Current == CHOOSE m \in todo : \A n \in todo : m <= n

(* The next migration by name, or the end, which closes the database.  The *)
(* first statement fails on what a start that died has left behind.        *)
Apply ==
  /\ pc = "apply"
  /\ IF todo = {} THEN pc' = "verify" /\ Checkpoint
     ELSE IF db.ran[Current] = 0 THEN pc' = "exec" /\ UNCHANGED file
     ELSE pc' = "restore" /\ Checkpoint
  /\ UNCHANGED <<version, db, wal, backups, mine, todo, skipped, windowVars,
                 mac, boundVars, closed>>

(* Its folder has no migration.sql: a warning, and the next one's turn.    *)
PassOver ==
  /\ pc = "apply" /\ todo # {} /\ Fault
  /\ todo' = todo \ {Current} /\ skipped' = skipped \cup {Current}
  /\ UNCHANGED <<version, diskVars, mine, pc, windowVars, mac, commits,
                 crashes, closed>>

(* Variant: the migration is marked as finished before it runs.            *)
ExecRecordsFirst ==
  /\ pc = "exec" /\ db.ran[Current] < Statements
  /\ Write([db EXCEPT !.ran[Current] = @ + 1,
                      !.recorded = @ \cup {Current}])
  /\ UNCHANGED <<version, wal, backups, procVars, windowVars, mac, boundVars,
                 closed>>

(* sqlite.exec: one statement after the other, no transaction around them. *)
Exec ==
  /\ pc = "exec" /\ db.ran[Current] < Statements
  /\ Write([db EXCEPT !.ran[Current] = @ + 1])
  /\ UNCHANGED <<version, wal, backups, procVars, windowVars, mac, boundVars,
                 closed>>

MarkFinished ==
  /\ pc = "exec" /\ db.ran[Current] = Statements
  /\ Write([db EXCEPT !.recorded = @ \cup {Current}])
  /\ todo' = todo \ {Current} /\ pc' = "apply"
  /\ UNCHANGED <<version, wal, backups, mine, skipped, windowVars, mac,
                 boundVars, closed>>

(* A statement fails; the database is closed.                              *)
ExecFails ==
  /\ pc = "exec" /\ Fault
  /\ Checkpoint /\ pc' = "restore"
  /\ UNCHANGED <<version, db, wal, backups, mine, todo, skipped, windowVars,
                 mac, commits, crashes, closed>>

(* verifyIntegrity looks whether the file is there.                        *)
VerifyIntegrity == file # Absent

(* The backup of a start that succeeded goes.                              *)
Verify ==
  /\ pc = "verify" /\ VerifyIntegrity /\ pc' = "open"
  /\ backups' = backups \ {mine}
  /\ closed' = closed \cup db.data
  /\ UNCHANGED <<version, db, file, wal, mine, todo, skipped, windowVars, mac,
                 boundVars>>

(* showStartupFailure: in the window that is there, or in a new one.  The  *)
(* report it writes first is taken to succeed.                             *)
ShowFailure == window' = "failure" /\ failed' = TRUE

(* The catch of runMigrations: nothing to restore, or the copy begins.  A  *)
(* copy that fails is logged.                                              *)
Restore ==
  /\ pc = "restore"
  /\ \/ /\ mine = Absent
        /\ pc' = "failed" /\ ShowFailure
        /\ UNCHANGED <<db, file, faults>>
     \/ /\ mine # Absent
        /\ pc' = "copy" /\ db' = Torn /\ file' = Torn
        /\ UNCHANGED <<windowVars, faults>>
     \/ /\ mine # Absent /\ Fault
        /\ pc' = "failed" /\ ShowFailure
        /\ UNCHANGED <<db, file>>
  /\ UNCHANGED <<version, wal, backups, mine, todo, skipped, mac, commits,
                 crashes, closed>>

(* Variant: after a restore the migrations are tried again.                *)
RestoreRetries ==
  /\ pc = "copy"
  /\ db' = mine /\ file' = mine
  /\ pc' = "connect"
  /\ UNCHANGED <<version, wal, backups, mine, todo, skipped, windowVars, mac,
                 boundVars, closed>>

RestoreDone ==
  /\ pc = "copy"
  /\ db' = mine /\ file' = mine
  /\ pc' = "failed" /\ ShowFailure
  /\ UNCHANGED <<version, wal, backups, mine, todo, skipped, mac, boundVars,
                 closed>>

-----------------------------------------------------------------------------
(* The rest of the startup and the windows.                                *)

(* WAL mode, once set, is kept in the file; that it fails is logged.       *)
ApplySqlitePragmas == wal' \in {wal, TRUE}

(* The client is opened.                                                   *)
Open ==
  /\ pc = "open" /\ pc' = "recover"
  /\ ApplySqlitePragmas
  /\ UNCHANGED <<version, db, file, backups, mine, todo, skipped, windowVars,
                 mac, boundVars, closed>>

(* createWindow: a failure that was shown keeps the new window hidden.     *)
CreateWindow == window' = IF failed THEN "hidden" ELSE "main"

(* Recovery, worker and settings read the tables, then the window comes.   *)
Recover ==
  /\ pc = "recover" /\ 1 \in db.recorded
  /\ pc' = "ready" /\ CreateWindow
  /\ UNCHANGED <<version, diskVars, mine, todo, skipped, failed, mac,
                 boundVars, closed>>

(* A table is missing or a statement fails: Startup Error, and the         *)
(* database stays open.                                                    *)
RecoverFails ==
  /\ pc = "recover"
  /\ IF 1 \notin db.recorded THEN UNCHANGED faults ELSE Fault
  /\ pc' = "failed" /\ ShowFailure
  /\ UNCHANGED <<version, diskVars, mine, todo, skipped, mac, commits, crashes,
                 closed>>

(* The renderer or a load fails, index.html is missing, or an error that   *)
(* nobody caught reaches the process.                                      *)
Uncaught ==
  /\ pc # "off" /\ Fault
  /\ ShowFailure
  /\ UNCHANGED <<version, diskVars, procVars, mac, commits, crashes, closed>>

(* Variant: activate shows what it creates.                                *)
ActivateShown ==
  /\ mac /\ pc \in {"ready", "failed"} /\ window = "none"
  /\ window' = "main"
  /\ UNCHANGED <<version, diskVars, procVars, failed, mac, boundVars, closed>>

(* macOS: the app goes on without a window, and activate creates one       *)
(* whatever became of the startup.                                         *)
CloseWindow ==
  /\ mac /\ window # "none" /\ window' = "none"
  /\ UNCHANGED <<version, diskVars, procVars, failed, mac, boundVars, closed>>

Activate ==
  /\ mac /\ pc \in {"ready", "failed"} /\ window = "none"
  /\ CreateWindow
  /\ UNCHANGED <<version, diskVars, procVars, failed, mac, boundVars, closed>>

(* The running app writes.                                                 *)
Commit ==
  /\ pc = "ready" /\ commits < MaxCommits
  /\ commits' = commits + 1
  /\ Write([db EXCEPT !.data = @ \cup {commits'}])
  /\ UNCHANGED <<version, wal, backups, procVars, windowVars, mac, crashes,
                 faults, closed>>

(* SQLite moves the WAL to the file in its own time.                       *)
AutoCheckpoint ==
  /\ pc = "ready" /\ wal /\ file # db
  /\ Checkpoint /\ closed' = closed \cup db.data
  /\ UNCHANGED <<version, db, wal, backups, procVars, windowVars, mac,
                 boundVars>>

Gone == pc' = "off" /\ todo' = {} /\ skipped' = {} /\ mine' = Absent
        /\ window' = "none" /\ failed' = FALSE

CloseDatabase == Usable /\ Checkpoint /\ closed' = closed \cup db.data

(* before-quit starts to close the database; the process may end before it *)
(* is closed.                                                              *)
Quit ==
  /\ pc \in {"ready", "failed"}
  /\ Gone
  /\ \/ CloseDatabase
     \/ UNCHANGED <<file, closed>>
  /\ UNCHANGED <<version, db, wal, backups, mac, boundVars>>

Crash ==
  /\ pc # "off" /\ crashes < MaxCrashes
  /\ crashes' = crashes + 1
  /\ Gone
  /\ UNCHANGED <<version, diskVars, mac, commits, faults, closed>>

Update ==
  /\ pc = "off" /\ version < Versions
  /\ version' = version + 1
  /\ UNCHANGED <<diskVars, procVars, windowVars, mac, boundVars, closed>>

-----------------------------------------------------------------------------
Starts ==
  \/ Connect \/ ConnectFails \/ ReadApplied \/ Apply \/ PassOver \/ Exec
  \/ MarkFinished \/ ExecFails \/ Verify \/ Restore \/ RestoreDone
  \/ Open \/ Recover \/ RecoverFails

Next ==
  \/ Backup \/ Starts \/ Uncaught \/ CloseWindow \/ Activate
  \/ Commit \/ AutoCheckpoint \/ Quit \/ Crash \/ Update

Spec == Init /\ [][Next]_vars

(* A process that starts goes on.                                          *)
FairSpec == Spec /\ WF_vars(Starts)

-----------------------------------------------------------------------------
(* "Execute each pending migration's SQL, then record it as applied": what *)
(* _prisma_migrations says is finished has run to its last statement, in   *)
(* the database and in every backup, whatever died and was restored.       *)
RecordedIsWhole ==
  \A d \in {db, file} \cup backups :
    \A m \in d.recorded : d.ran[m] = Statements

(* The app is ready only with every migration of its version whose SQL it  *)
(* found: whatever died, was restored or is older than the app, a start    *)
(* passes over nothing that is there to be applied.                        *)
ReadyIsMigrated ==
  pc \in {"open", "recover", "ready"} =>
    (1 .. version) \ skipped \subseteq db.recorded

(* "On migration failure the backup is restored": a transaction that was   *)
(* in the file when a start made its backup, when the migrations of a      *)
(* start were through, at a checkpoint of the running app or at its end is *)
(* in the database or in a backup for ever, through failed migrations,     *)
(* failed restores and a process that dies in the middle of any of them.   *)
(* Not so one that only the WAL had when the app died: it reaches the file *)
(* after the backup, and a restore by that start takes it away.            *)
ClosedDataKept ==
  \E d \in {db} \cup backups : closed \subseteq d.data

(* A main window that can be seen belongs to an app that is ready.         *)
VisibleIsReady == window = "main" => pc = "ready"

(* A start comes to its end: the app is ready, or the failure is shown.    *)
StartEnds == pc \in Starting ~> pc \in {"ready", "failed", "off"}
=============================================================================
