---------------------------- MODULE StartupProofs -----------------------------
(***************************************************************************)
(* Proofs about Startup, for any number of versions, statements, crashes,  *)
(* faults and transactions: its four safety properties are invariants.     *)
(***************************************************************************)
EXTENDS Startup, WellFoundedInduction, TLAPS

-----------------------------------------------------------------------------
(* Where the variables range; a migration that runs is one of todo.        *)
Types ==
  /\ version \in Migration
  /\ db \in Database /\ file \in Database /\ mine \in Database
  /\ backups \in SUBSET Database
  /\ todo \in SUBSET Migration /\ skipped \in SUBSET Migration
  /\ pc \in Starting \cup {"off", "ready", "failed"}
  /\ pc = "exec" => todo # {}
  /\ commits \in 0 .. MaxCommits
  /\ closed \in SUBSET (1 .. MaxCommits)

(* The window of a start that failed stays hidden.                         *)
Windows ==
  /\ VisibleIsReady
  /\ pc = "failed" => failed
  /\ pc = "off" => window = "none"

Whole(d) == \A m \in d.recorded : d.ran[m] = Statements

(* The backup of this start, which a restore would copy, is whole too.     *)
AllWhole == RecordedIsWhole /\ Whole(mine)

(* What is not recorded yet is still to do or was passed over, up to the   *)
(* end of the start.                                                       *)
Migrated ==
  /\ pc \in {"apply", "exec"} =>
       1 .. version \subseteq db.recorded \cup todo \cup skipped
  /\ pc \in {"verify", "open", "recover", "ready"} =>
       1 .. version \subseteq db.recorded \cup skipped

(* A database that is not torn has what was closed, and so has the file    *)
(* without its WAL and the backup a restore would copy; of a torn one the  *)
(* backup is kept.  The file is behind the database until that is closed.  *)
Opened == {"read", "apply", "exec", "verify", "open", "recover", "ready"}
BeforeVerified ==
  {"connect", "read", "apply", "exec", "verify", "restore", "copy"}

Shapes ==
  /\ \A d \in {db, file, mine} :
       /\ d.kind = "torn" => d = Torn
       /\ d.kind = "absent" => d = Absent
  /\ file.kind = db.kind
  /\ mine.kind = "torn" => db.kind = "torn"
  /\ pc \in Opened => db.kind = "sqlite"
  /\ Absent \notin backups
  /\ pc \in BeforeVerified /\ mine # Absent => mine \in backups
  /\ pc = "copy" => mine # Absent

Closing == {"read", "verify"}
Kept ==
  /\ file.data \subseteq db.data
  /\ pc \in Closing => file = db
  /\ db.kind # "torn" => closed \subseteq db.data
  /\ file.kind # "torn" => closed \subseteq file.data
  /\ pc \in BeforeVerified /\ mine.kind = "sqlite"
       => closed \subseteq mine.data
  /\ db.kind = "torn" => \E b \in backups : closed \subseteq b.data

IInv == Types /\ Windows /\ AllWhole /\ Migrated /\ Shapes /\ Kept
-----------------------------------------------------------------------------
(* The least number of a set: Current is one of the migrations to do.      *)

Less == {ss \in Nat \X Nat : ss[1] < ss[2]}

LEMMA LessWellFounded == IsWellFoundedOn(Less, Nat)
  BY NatLessThanWellFounded DEF OpToRel, Less

LEMMA Smallest ==
  ASSUME NEW S \in SUBSET Nat, S # {}
  PROVE  \E m \in S : \A n \in S : m <= n
<1>1. PICK m \in S : \A n \in S : <<n, m>> \notin Less
  BY LessWellFounded, WFMin
<1>2. \A n \in S : ~(n < m)
  BY <1>1 DEF Less
<1> QED
  BY <1>1, <1>2

LEMMA CurrentIsTodo ==
  ASSUME Types, todo # {}
  PROVE  Current \in todo /\ Current \in Migration
<1>1. todo \in SUBSET Nat
  BY DEF Types, Migration
<1>2. \E m \in todo : \A n \in todo : m <= n
  BY <1>1, Smallest
<1> QED
  BY <1>2 DEF Current, Types

-----------------------------------------------------------------------------
(* Databases                                                               *)

LEMMA MadeUp ==
  /\ Empty \in Database /\ Absent \in Database /\ Torn \in Database
  /\ Empty.kind = "sqlite" /\ Absent.kind = "absent" /\ Torn.kind = "torn"
  /\ Empty.data = {} /\ Absent.data = {} /\ Torn.data = {}
  /\ Whole(Empty) /\ Whole(Absent) /\ Whole(Torn)
  BY StartupAssumption DEF Empty, Absent, Torn, Database, Whole

LEMMA DatabaseParts ==
  ASSUME NEW d \in Database
  PROVE  /\ d.kind \in {"absent", "torn", "sqlite"}
         /\ d.data \in SUBSET (1 .. MaxCommits)
         /\ d.recorded \in SUBSET Migration
         /\ \A m \in Migration : d.ran[m] \in 0 .. Statements
  BY DEF Database

(* A statement of a migration, its record, a transaction of the app.       *)
LEMMA StatementRuns ==
  ASSUME NEW d \in Database, NEW m \in Migration, d.ran[m] < Statements,
         NEW e, e = [d EXCEPT !.ran[m] = @ + 1]
  PROVE  /\ e \in Database
         /\ e.kind = d.kind /\ e.data = d.data /\ e.recorded = d.recorded
         /\ Whole(d) => Whole(e)
<1>1. d.ran \in [Migration -> 0 .. Statements]
  BY DEF Database
<1>2. d.ran[m] + 1 \in 0 .. Statements
  BY <1>1, StartupAssumption
<1>3. e = [kind |-> d.kind, data |-> d.data,
           ran |-> [d.ran EXCEPT ![m] = @ + 1], recorded |-> d.recorded]
  BY DEF Database
<1>4. [d.ran EXCEPT ![m] = @ + 1] \in [Migration -> 0 .. Statements]
  BY <1>1, <1>2
<1>5. e \in Database
  BY <1>3, <1>4 DEF Database
<1>6. Whole(d) => Whole(e)
  <2> SUFFICES ASSUME Whole(d), NEW n \in d.recorded
               PROVE  e.ran[n] = Statements
    BY <1>3 DEF Whole
  <2>1. d.ran[n] = Statements /\ n \in Migration
    BY DEF Whole, Database
  <2>2. n # m
    BY <2>1, StartupAssumption
  <2> QED
    BY <1>1, <1>3, <2>1, <2>2
<1> QED
  BY <1>3, <1>5, <1>6

LEMMA MigrationRecorded ==
  ASSUME NEW d \in Database, NEW m \in Migration, d.ran[m] = Statements,
         NEW e, e = [d EXCEPT !.recorded = @ \cup {m}]
  PROVE  /\ e \in Database
         /\ e.kind = d.kind /\ e.data = d.data
         /\ e.recorded = d.recorded \cup {m}
         /\ Whole(d) => Whole(e)
<1>1. e = [kind |-> d.kind, data |-> d.data, ran |-> d.ran,
           recorded |-> d.recorded \cup {m}]
  BY DEF Database
<1> QED
  BY <1>1 DEF Database, Whole

LEMMA DataWritten ==
  ASSUME NEW d \in Database, NEW n \in 1 .. MaxCommits,
         NEW e, e = [d EXCEPT !.data = @ \cup {n}]
  PROVE  /\ e \in Database
         /\ e.kind = d.kind /\ e.data = d.data \cup {n}
         /\ e.recorded = d.recorded
         /\ Whole(d) => Whole(e)
<1>1. e = [kind |-> d.kind, data |-> d.data \cup {n}, ran |-> d.ran,
           recorded |-> d.recorded]
  BY DEF Database
<1> QED
  BY <1>1 DEF Database, Whole

(* What the three writes do to the database.                               *)
Writes ==
  /\ db' \in Database /\ db'.kind = db.kind
  /\ file' \in {file, db'}
  /\ Whole(db) => Whole(db')
  /\ UNCHANGED <<version, backups, mine, closed>>

LEMMA ExecWrites ==
  ASSUME Types, Exec
  PROVE  /\ Writes
         /\ db'.data = db.data /\ db'.recorded = db.recorded
         /\ pc = "exec" /\ UNCHANGED <<pc, todo, skipped, commits, windowVars>>
<1>1. Current \in Migration
  BY CurrentIsTodo DEF Exec, Types
<1>2. /\ db' = [db EXCEPT !.ran[Current] = @ + 1]
      /\ file' \in {file, db'}
      /\ db.ran[Current] < Statements
  BY DEF Exec, Write
<1>3. db \in Database
  BY DEF Types
<1>4. /\ db' \in Database
      /\ db'.kind = db.kind /\ db'.data = db.data
      /\ db'.recorded = db.recorded
      /\ Whole(db) => Whole(db')
  BY <1>1, <1>2, <1>3, StatementRuns
<1> QED
  BY <1>2, <1>4 DEF Exec, Writes, procVars, boundVars, windowVars

LEMMA MarkWrites ==
  ASSUME Types, MarkFinished
  PROVE  /\ Writes
         /\ db'.data = db.data /\ db'.recorded = db.recorded \cup {Current}
         /\ pc = "exec" /\ pc' = "apply" /\ todo' = todo \ {Current}
         /\ UNCHANGED <<skipped, commits, windowVars>>
<1>1. Current \in Migration
  BY CurrentIsTodo DEF MarkFinished, Types
<1>2. /\ db' = [db EXCEPT !.recorded = @ \cup {Current}]
      /\ file' \in {file, db'}
      /\ db.ran[Current] = Statements
  BY DEF MarkFinished, Write
<1>3. db \in Database
  BY DEF Types
<1>4. /\ db' \in Database
      /\ db'.kind = db.kind /\ db'.data = db.data
      /\ db'.recorded = db.recorded \cup {Current}
      /\ Whole(db) => Whole(db')
  BY <1>1, <1>2, <1>3, MigrationRecorded
<1> QED
  BY <1>2, <1>4 DEF MarkFinished, Writes, boundVars

LEMMA CommitWrites ==
  ASSUME Types, Commit
  PROVE  /\ Writes
         /\ db.data \subseteq db'.data /\ db'.recorded = db.recorded
         /\ pc = "ready" /\ commits' \in 0 .. MaxCommits
         /\ UNCHANGED <<pc, todo, skipped, windowVars>>
<1>1. commits' \in 1 .. MaxCommits
  BY StartupAssumption DEF Commit, Types
<1>2. /\ db' = [db EXCEPT !.data = @ \cup {commits'}]
      /\ file' \in {file, db'}
  BY DEF Commit, Write
<1>3. db \in Database
  BY DEF Types
<1>4. /\ db' \in Database
      /\ db'.kind = db.kind /\ db'.data = db.data \cup {commits'}
      /\ db'.recorded = db.recorded
      /\ Whole(db) => Whole(db')
  BY <1>1, <1>2, <1>3, DataWritten
<1> QED
  BY <1>1, <1>2, <1>4 DEF Commit, Writes, procVars

-----------------------------------------------------------------------------
(* Types: every value that is copied is a database, Current is a migration.*)

LEMMA TypesInit == Init => Types
  BY MadeUp, StartupAssumption DEF Init, Types, Migration, Starting

LEMMA TypesStep ==
  ASSUME Types, [Next]_vars
  PROVE  Types'
<1> USE DEF Types
<1>1. CASE Backup
  BY <1>1, DatabaseParts DEF Backup, CreateBackup, Starting, boundVars
<1>2. CASE Connect
  BY <1>2, MadeUp DEF Connect, Starting, boundVars
<1>3. CASE ConnectFails
  BY <1>3 DEF ConnectFails, Starting, diskVars
<1>4. CASE ReadApplied
  <2>1. 1 .. version \subseteq Migration
    BY StartupAssumption DEF Migration
  <2> QED
    BY <1>4, <2>1 DEF ReadApplied, Starting, diskVars
<1>5. CASE Apply
  BY <1>5 DEF Apply, Starting, Checkpoint, boundVars
<1>22. CASE PassOver
  <2>1. Current \in Migration
    BY <1>22, CurrentIsTodo DEF PassOver
  <2> QED
    BY <1>22, <2>1 DEF PassOver, diskVars
<1>6. CASE Exec
  BY <1>6, ExecWrites DEF Writes
<1>7. CASE MarkFinished
  BY <1>7, MarkWrites DEF Writes, Starting
<1>8. CASE ExecFails
  BY <1>8 DEF ExecFails, Starting, Checkpoint
<1>9. CASE Verify
  BY <1>9, DatabaseParts DEF Verify, Starting, boundVars
<1>10. CASE Restore
  BY <1>10, MadeUp DEF Restore, Starting
<1>11. CASE RestoreDone
  BY <1>11 DEF RestoreDone, Starting, boundVars
<1>12. CASE Open
  BY <1>12 DEF Open, Starting, boundVars
<1>13. CASE Recover
  BY <1>13 DEF Recover, Starting, diskVars, boundVars
<1>14. CASE RecoverFails
  BY <1>14 DEF RecoverFails, diskVars
<1>15. CASE Uncaught \/ CloseWindow \/ Activate
  BY <1>15 DEF Uncaught, CloseWindow, Activate, diskVars, procVars, boundVars
<1>16. CASE Commit
  BY <1>16, CommitWrites DEF Writes
<1>17. CASE AutoCheckpoint
  BY <1>17, DatabaseParts
  DEF AutoCheckpoint, Checkpoint, procVars, boundVars
<1>18. CASE Quit
  BY <1>18, MadeUp, DatabaseParts
  DEF Quit, Gone, CloseDatabase, Checkpoint, boundVars
<1>19. CASE Crash
  BY <1>19, MadeUp DEF Crash, Gone, diskVars
<1>20. CASE Update
  BY <1>20, StartupAssumption
  DEF Update, Migration, diskVars, procVars, boundVars
<1>21. CASE UNCHANGED vars
  BY <1>21 DEF vars, diskVars, procVars, boundVars
<1> QED
  BY <1>1, <1>2, <1>3, <1>4, <1>5, <1>6, <1>7, <1>8, <1>9, <1>10, <1>11,
     <1>12, <1>13, <1>14, <1>15, <1>16, <1>17, <1>18, <1>19, <1>20, <1>21,
     <1>22
  DEF Next, Starts

-----------------------------------------------------------------------------
(* Windows: a window is created as main only where no failure was shown,   *)
(* which is where the app is ready.                                        *)

LEMMA WindowsInit == Init => Windows
  BY DEF Init, Windows, VisibleIsReady

LEMMA WindowsStep ==
  ASSUME Types, Windows, [Next]_vars
  PROVE  Windows'
<1> USE DEF Windows, VisibleIsReady, windowVars
<1>1. CASE Backup \/ Connect \/ ConnectFails \/ ReadApplied \/ Apply
           \/ PassOver \/ ExecFails \/ Verify \/ Open
  BY <1>1 DEF Backup, Connect, ConnectFails, ReadApplied, Apply, PassOver,
              ExecFails, Verify, Open
<1>2. CASE Exec
  BY <1>2, ExecWrites
<1>3. CASE MarkFinished
  BY <1>3, MarkWrites
<1>4. CASE Restore
  BY <1>4 DEF Restore, ShowFailure
<1>5. CASE RestoreDone
  BY <1>5 DEF RestoreDone, ShowFailure
<1>6. CASE Recover
  BY <1>6 DEF Recover, CreateWindow
<1>7. CASE RecoverFails \/ Uncaught
  BY <1>7 DEF RecoverFails, Uncaught, ShowFailure, procVars
<1>8. CASE CloseWindow
  BY <1>8 DEF CloseWindow, procVars
<1>9. CASE Activate
  BY <1>9 DEF Activate, CreateWindow, procVars
<1>10. CASE Commit
  BY <1>10, CommitWrites
<1>11. CASE AutoCheckpoint
  BY <1>11 DEF AutoCheckpoint, procVars
<1>12. CASE Quit \/ Crash
  BY <1>12 DEF Quit, Crash, Gone
<1>13. CASE Update \/ UNCHANGED vars
  BY <1>13 DEF Update, vars, procVars
<1> QED
  BY <1>1, <1>2, <1>3, <1>4, <1>5, <1>6, <1>7, <1>8, <1>9, <1>10, <1>11,
     <1>12, <1>13 DEF Next, Starts

-----------------------------------------------------------------------------
(* AllWhole: a migration is recorded after its last statement, and what is *)
(* recorded never runs again.                                              *)

LEMMA WholeAgain ==
  RecordedIsWhole <=>
    Whole(db) /\ Whole(file) /\ \A b \in backups : Whole(b)
  BY DEF RecordedIsWhole, Whole

LEMMA WholeInit == Init => AllWhole
  BY MadeUp, WholeAgain DEF Init, AllWhole

LEMMA WholeStep ==
  ASSUME Types, AllWhole, [Next]_vars
  PROVE  AllWhole'
<1> DEFINE Parts == /\ Whole(db) /\ Whole(file) /\ Whole(mine)
                    /\ \A b \in backups : Whole(b)
<1>1. Parts
  BY WholeAgain DEF AllWhole
<1>2. SUFFICES Parts'
  BY DEF AllWhole, RecordedIsWhole, Whole
<1>3. CASE Backup
  BY <1>1, <1>3 DEF Backup, CreateBackup, Whole
<1>4. CASE Connect
  BY <1>1, <1>4, MadeUp DEF Connect, Whole
<1>5. CASE ConnectFails \/ ReadApplied \/ PassOver \/ Recover \/ RecoverFails
           \/ Uncaught \/ CloseWindow \/ Activate \/ Update \/ UNCHANGED vars
  BY <1>1, <1>5
  DEF ConnectFails, ReadApplied, PassOver, Recover, RecoverFails, Uncaught,
      CloseWindow, Activate, Update, vars, diskVars, procVars, Whole
<1>6. CASE Apply \/ ExecFails
  BY <1>1, <1>6 DEF Apply, ExecFails, Checkpoint, Whole
<1>7. CASE Exec \/ MarkFinished \/ Commit
  BY <1>1, <1>7, ExecWrites, MarkWrites, CommitWrites DEF Writes, Whole
<1>8. CASE Verify \/ Open
  BY <1>1, <1>8 DEF Verify, Open, Whole
<1>9. CASE Restore
  BY <1>1, <1>9, MadeUp DEF Restore, Whole
<1>10. CASE RestoreDone
  BY <1>1, <1>10 DEF RestoreDone, Whole
<1>11. CASE AutoCheckpoint
  BY <1>1, <1>11 DEF AutoCheckpoint, Checkpoint, procVars, Whole
<1>12. CASE Quit \/ Crash
  BY <1>1, <1>12, MadeUp
  DEF Quit, Crash, Gone, CloseDatabase, Checkpoint, diskVars, Whole
<1> QED
  BY <1>3, <1>4, <1>5, <1>6, <1>7, <1>8, <1>9, <1>10, <1>11, <1>12
  DEF Next, Starts

-----------------------------------------------------------------------------
(* Migrated                                                                *)

LEMMA MigratedInit == Init => Migrated
  BY DEF Init, Migrated

LEMMA MigratedStep ==
  ASSUME Types, Migrated, [Next]_vars
  PROVE  Migrated'
<1> USE DEF Migrated
<1>1. CASE Backup \/ Connect \/ ConnectFails \/ ExecFails
  BY <1>1 DEF Backup, Connect, ConnectFails, ExecFails
<1>2. CASE ReadApplied
  BY <1>2 DEF ReadApplied, diskVars
<1>3. CASE Apply \/ PassOver
  BY <1>3 DEF Apply, PassOver, diskVars
<1>4. CASE Exec
  BY <1>4, ExecWrites DEF Writes
<1>5. CASE MarkFinished
  BY <1>5, MarkWrites DEF Writes
<1>6. CASE Verify \/ Open
  BY <1>6 DEF Verify, Open
<1>7. CASE Restore \/ RestoreDone \/ RecoverFails
  BY <1>7 DEF Restore, RestoreDone, RecoverFails
<1>8. CASE Recover \/ Uncaught \/ CloseWindow \/ Activate \/ UNCHANGED vars
  BY <1>8
  DEF Recover, Uncaught, CloseWindow, Activate, vars, diskVars, procVars
<1>9. CASE Commit
  BY <1>9, CommitWrites DEF Writes
<1>10. CASE AutoCheckpoint
  BY <1>10 DEF AutoCheckpoint, procVars
<1>11. CASE Quit \/ Crash
  BY <1>11 DEF Quit, Crash, Gone
<1>12. CASE Update
  BY <1>12 DEF Update, procVars
<1> QED
  BY <1>1, <1>2, <1>3, <1>4, <1>5, <1>6, <1>7, <1>8, <1>9, <1>10, <1>11,
     <1>12 DEF Next, Starts

-----------------------------------------------------------------------------
(* Shapes: the file is what the database is, and a torn backup is one of a *)
(* torn database, which no start gets past.                                *)

LEMMA ShapesInit == Init => Shapes
  BY MadeUp DEF Init, Shapes, Opened, BeforeVerified

(* A write keeps the database usable, and with it the file.                *)
LEMMA ShapesWrite ==
  ASSUME Types, Shapes, Writes, pc \in Opened, pc' \in Opened,
         pc' \in BeforeVerified => pc \in BeforeVerified
  PROVE  Shapes'
  BY MadeUp DEF Shapes, Writes, Opened

LEMMA ShapesStep ==
  ASSUME Types, Shapes, [Next]_vars
  PROVE  Shapes'
<1> USE DEF Shapes, Opened, BeforeVerified
<1>1. CASE Backup
  BY <1>1, MadeUp DEF Backup, CreateBackup
<1>2. CASE Connect
  <2>1. db # Torn /\ pc = "connect" /\ pc' = "read" /\ file' = db'
        /\ db' = (IF db = Absent THEN Empty ELSE db)
        /\ UNCHANGED <<mine, backups>>
    BY <1>2 DEF Connect
  <2>2. db.kind # "torn"
    BY <2>1
  <2>3. db'.kind = "sqlite"
    BY <2>1, <2>2, MadeUp, DatabaseParts DEF Types
  <2> QED
    BY <2>1, <2>2, <2>3
<1>3. CASE ConnectFails
  BY <1>3 DEF ConnectFails, diskVars
<1>4. CASE ReadApplied \/ PassOver
  BY <1>4 DEF ReadApplied, PassOver, diskVars
<1>5. CASE Apply \/ ExecFails
  BY <1>5, MadeUp DEF Apply, ExecFails, Checkpoint
<1>6. CASE Exec
  BY <1>6, ExecWrites, ShapesWrite
<1>7. CASE MarkFinished
  BY <1>7, MarkWrites, ShapesWrite
<1>8. CASE Commit
  BY <1>8, CommitWrites, ShapesWrite
<1>9. CASE Verify \/ Open
  BY <1>9 DEF Verify, Open
<1>10. CASE Restore
  BY <1>10, MadeUp DEF Restore
<1>11. CASE RestoreDone
  BY <1>11, MadeUp DEF RestoreDone
<1>12. CASE Recover \/ RecoverFails
  BY <1>12 DEF Recover, RecoverFails, diskVars
<1>13. CASE Uncaught \/ CloseWindow \/ Activate \/ UNCHANGED vars
  BY <1>13 DEF Uncaught, CloseWindow, Activate, vars, diskVars, procVars
<1>14. CASE AutoCheckpoint
  BY <1>14, MadeUp DEF AutoCheckpoint, Checkpoint, procVars
<1>15. CASE Quit
  BY <1>15, MadeUp DEF Quit, Gone, CloseDatabase, Checkpoint
<1>16. CASE Crash
  BY <1>16, MadeUp DEF Crash, Gone, diskVars
<1>17. CASE Update
  BY <1>17 DEF Update, diskVars, procVars
<1> QED
  BY <1>1, <1>2, <1>3, <1>4, <1>5, <1>6, <1>7, <1>8, <1>9, <1>10, <1>11,
     <1>12, <1>13, <1>14, <1>15, <1>16, <1>17 DEF Next, Starts

-----------------------------------------------------------------------------
(* Kept: the copy that tears the database is made of a backup that stays.  *)

LEMMA KeptInit == Init => Kept
  BY MadeUp DEF Init, Kept

LEMMA KeptWrite ==
  ASSUME Types, Shapes, Kept, Writes, db.data \subseteq db'.data,
         pc' \in BeforeVerified => pc \in BeforeVerified, pc' \notin Closing
  PROVE  Kept'
  BY DEF Kept, Writes, Shapes

LEMMA KeptStep ==
  ASSUME Types, Shapes, Kept, [Next]_vars
  PROVE  Kept'
<1> USE DEF Kept, BeforeVerified, Closing
<1>1. CASE Backup
  <2>1. /\ mine' = file /\ closed' = closed \cup file.data
        /\ backups' = (backups \cup {mine'}) \ {Absent}
        /\ UNCHANGED <<db, file>> /\ pc' = "connect"
    BY <1>1 DEF Backup, CreateBackup
  <2>2. backups \subseteq backups'
    BY <2>1 DEF Shapes
  <2>3. file.kind = db.kind /\ (file.kind = "torn" => file.data = {})
    BY MadeUp DEF Shapes
  <2>4. db.kind # "torn" => closed' \subseteq file.data
    BY <2>1, <2>3
  <2>5. db.kind = "torn" => closed' = closed
    BY <2>1, <2>3
  <2> QED
    BY <2>1, <2>2, <2>3, <2>4, <2>5
<1>2. CASE Connect
  <2>1. db # Torn /\ pc = "connect" /\ pc' = "read" /\ file' = db'
        /\ db' = (IF db = Absent THEN Empty ELSE db)
        /\ UNCHANGED <<mine, backups, closed>>
    BY <1>2 DEF Connect
  <2>2. db.kind # "torn"
    BY <2>1 DEF Shapes
  <2>3. closed \subseteq db'.data /\ db'.kind # "torn"
    BY <2>1, <2>2, MadeUp
  <2> QED
    BY <2>1, <2>3
<1>3. CASE ConnectFails \/ ReadApplied \/ PassOver \/ Recover \/ RecoverFails
           \/ Update \/ UNCHANGED vars
  BY <1>3 DEF ConnectFails, ReadApplied, PassOver, Recover, RecoverFails,
              Update, vars, diskVars, procVars
<1>4. CASE Apply \/ ExecFails
  BY <1>4 DEF Apply, ExecFails, Checkpoint
<1>5. CASE Exec
  BY <1>5, ExecWrites, KeptWrite
<1>6. CASE MarkFinished
  BY <1>6, MarkWrites, KeptWrite
<1>7. CASE Commit
  BY <1>7, CommitWrites, KeptWrite
<1>8. CASE Verify
  BY <1>8 DEF Verify, Shapes, Opened
<1>9. CASE Open
  BY <1>9 DEF Open
<1>10. CASE Restore
  <2>1. CASE pc' = "copy"
    <3>1. /\ mine # Absent /\ db' = Torn /\ file' = Torn /\ pc = "restore"
          /\ UNCHANGED <<mine, backups, closed>>
      BY <1>10, <2>1 DEF Restore
    <3>2. mine \in backups
      BY <3>1 DEF Shapes
    <3>3. CASE mine.kind = "sqlite"
      BY <3>1, <3>2, <3>3, MadeUp
    <3>4. CASE mine.kind = "torn"
      <4>1. db.kind = "torn"
        BY <3>4 DEF Shapes
      <4> QED
        BY <3>1, <3>4, <4>1, MadeUp
    <3>5. mine.kind # "absent"
      BY <3>1 DEF Shapes
    <3> QED
      BY <3>3, <3>4, <3>5, DatabaseParts DEF Types
  <2>2. CASE pc' # "copy"
    BY <1>10, <2>2 DEF Restore
  <2> QED
    BY <2>1, <2>2
<1>11. CASE RestoreDone
  <2>1. /\ pc = "copy" /\ db' = mine /\ file' = mine /\ pc' = "failed"
        /\ UNCHANGED <<mine, backups, closed>>
    BY <1>11 DEF RestoreDone
  <2>2. mine.kind = "torn" => db.kind = "torn"
    BY DEF Shapes
  <2>3. mine.kind # "absent"
    BY <2>1 DEF Shapes
  <2>4. mine.kind \in {"torn", "sqlite"}
    BY <2>3, DatabaseParts DEF Types
  <2> QED
    BY <2>1, <2>2, <2>4
<1>12. CASE Uncaught \/ CloseWindow \/ Activate
  BY <1>12 DEF Uncaught, CloseWindow, Activate, diskVars, procVars
<1>13. CASE AutoCheckpoint
  BY <1>13 DEF AutoCheckpoint, Checkpoint, procVars, Shapes, Opened
<1>14. CASE Quit
  BY <1>14 DEF Quit, Gone, CloseDatabase, Checkpoint, Usable
<1>15. CASE Crash
  BY <1>15 DEF Crash, Gone, diskVars
<1> QED
  BY <1>1, <1>2, <1>3, <1>4, <1>5, <1>6, <1>7, <1>8, <1>9, <1>10, <1>11,
     <1>12, <1>13, <1>14, <1>15 DEF Next, Starts

-----------------------------------------------------------------------------
THEOREM StartupInvariance == Spec => []IInv
<1>1. Init => IInv
  BY TypesInit, WindowsInit, WholeInit, MigratedInit, ShapesInit, KeptInit
  DEF IInv
<1>2. IInv /\ [Next]_vars => IInv'
  BY TypesStep, WindowsStep, WholeStep, MigratedStep, ShapesStep, KeptStep
  DEF IInv
<1> QED
  BY <1>1, <1>2, PTL DEF Spec

(* What _prisma_migrations says is finished has run to its last statement, *)
(* in the database, its file and every backup (RecordedIsWhole).           *)
THEOREM OnlyWholeIsRecorded == Spec => []RecordedIsWhole
<1>1. IInv => RecordedIsWhole
  BY DEF IInv, AllWhole
<1> QED
  BY <1>1, StartupInvariance, PTL

(* The app becomes ready only with the migrations of its version whose SQL *)
(* it found, whatever died and was restored before (ReadyIsMigrated).      *)
THEOREM ReadyOnlyMigrated == Spec => []ReadyIsMigrated
<1>1. IInv => ReadyIsMigrated
  BY DEF IInv, Migrated, ReadyIsMigrated
<1> QED
  BY <1>1, StartupInvariance, PTL

(* Data the file had when a start made its backup, when it was through     *)
(* with its migrations, at a checkpoint of the running app or at its end   *)
(* is in the database or a backup through any number of failed migrations, *)
(* restores and crashes (ClosedDataKept).                                  *)
THEOREM ClosedDataStays == Spec => []ClosedDataKept
<1>1. IInv => ClosedDataKept
  BY DEF IInv, Kept, ClosedDataKept
<1> QED
  BY <1>1, StartupInvariance, PTL

(* A main window that can be seen belongs to an app that is ready          *)
(* (VisibleIsReady).                                                       *)
THEOREM OnlyReadyIsVisible == Spec => []VisibleIsReady
<1>1. IInv => VisibleIsReady
  BY DEF IInv, Windows
<1> QED
  BY <1>1, StartupInvariance, PTL
=============================================================================
