------------------------------- MODULE Backup --------------------------------
(***************************************************************************)
(* Backup and restore (services/backup.ts) over the tables that Study      *)
(* works on, while its handlers run and while the app dies.                *)
(*                                                                         *)
(* createBackup reads the tables one by one, outside a transaction, and    *)
(* writes one file.  restoreBackup clears every table and creates courses, *)
(* lectures, segments and flashcards in one transaction, whose atomicity   *)
(* and foreign keys are those of SQLite.                                   *)
(***************************************************************************)
EXTENDS Study, Archive, Exports, TLC

CONSTANT MaxWork  \* bound: handlers, backups and restores together

ASSUME BackupAssumption == MaxWork \in Nat

VARIABLES
  file,  \* the newest backup file: none, torn (Archive cannot load it) or
         \* whole, and what it holds
  job,   \* the backup or restore in progress
  jobs   \* bound

backupVars == <<file, job, jobs>>
vars == <<studyVars, backupVars>>

Table == {"lecture", "segs", "card"}
Tables == [lecture |-> lecture, segs |-> segs, card |-> card]
EmptyTables == [lecture |-> [l \in Lecture |-> "new"], segs |-> {},
                card |-> [i \in Card |-> NoCard]]

(* was: history, the tables when the backup began, unless they were        *)
(* written to before all of them were read.                                *)
NoFile == [kind |-> "none", data |-> EmptyTables, was |-> {}]
Torn == [NoFile EXCEPT !.kind = "torn"]
NoJob == [pc |-> "idle", todo |-> {}, data |-> EmptyTables, was |-> {}]

Init == StudyInit /\ file = NoFile /\ job = NoJob /\ jobs = 0

-----------------------------------------------------------------------------
(* createBackup                                                            *)

Begin(j) == /\ job.pc = "idle" /\ calls + jobs < MaxWork
            /\ jobs' = jobs + 1 /\ job' = j

StartBackup ==
  /\ Begin([NoJob EXCEPT !.pc = "read", !.todo = Table, !.was = {Tables}])
  /\ UNCHANGED <<studyVars, file>>

(* Promise.all: the queries run in any order, others write between them.   *)
ReadTable ==
  /\ job.pc = "read"
  /\ \E t \in job.todo :
       job' = [job EXCEPT !.todo = @ \ {t},
                 !.data = [@ EXCEPT ![t] = Tables[t]],
                 !.pc = IF job.todo = {t} THEN "write" ELSE "read"]
  /\ UNCHANGED <<studyVars, file, jobs>>

(* The archive is built in memory and written to its own file.             *)
Written == [kind |-> "whole", data |-> job.data, was |-> job.was]

WriteArchive ==
  /\ job.pc = "write"
  /\ file' = Written
  /\ job' = NoJob
  /\ UNCHANGED <<studyVars, jobs>>

-----------------------------------------------------------------------------
(* restoreBackup                                                           *)

StartRestore ==
  /\ file.kind # "none"
  /\ Begin([NoJob EXCEPT !.pc = "load"])
  /\ UNCHANGED <<studyVars, file>>

(* A file Archive cannot load is an error.                                 *)
LoadArchive ==
  /\ job.pc = "load"
  /\ job' = IF file.kind = "torn" THEN NoJob ELSE [job EXCEPT !.pc = "commit"]
  /\ UNCHANGED <<studyVars, file, jobs>>

(* A row that was in use and is not restored is gone.                      *)
HadLecture(d, l) == d.lecture[l] \in {"pending", "ready"}

RestoredLecture(d, l) ==
  IF HadLecture(d, l) THEN d.lecture[l]
  ELSE IF lecture[l] = "new" THEN "new" ELSE "deleted"

(* Creating a card fails, and is passed over, where its lecture is missing.*)
RestoredCard(d, i) ==
  LET r == d.card[i]
  IN  IF r.reps >= 0 /\ (r.lecture = NoLecture \/ HadLecture(d, r.lecture))
      THEN r
      ELSE IF i \in Free THEN NoCard ELSE GoneCard

(* Variant: the segments are created before their lectures.                *)
CommitSegmentsFirst ==
  /\ job.pc = "commit"
  /\ LET d == file.data
     IN  /\ lecture' = [l \in Lecture |-> RestoredLecture(d, l)]
         /\ segs' = {}
         /\ card' = [i \in Card |-> RestoredCard(d, i)]
  /\ summary' = [l \in Lecture |-> "none"]
  /\ quiz' = [i \in Quiz |-> IF quiz[i] = "none" THEN "none" ELSE "gone"]
  /\ wiped' = TRUE
  /\ job' = [NoJob EXCEPT !.pc = "restored"]
  /\ UNCHANGED <<call, calls, crashes, asked, unfilled, file, jobs>>

(* Summaries, quizzes, chats and sessions are cleared and not created      *)
(* again; the handlers in progress are not told.                           *)
Commit ==
  /\ job.pc = "commit"
  /\ LET d == file.data
     IN  /\ lecture' = [l \in Lecture |-> RestoredLecture(d, l)]
         /\ segs' = {l \in d.segs : HadLecture(d, l)}
         /\ card' = [i \in Card |-> RestoredCard(d, i)]
  /\ summary' = [l \in Lecture |-> "none"]
  /\ quiz' = [i \in Quiz |-> IF quiz[i] = "none" THEN "none" ELSE "gone"]
  /\ wiped' = TRUE
  /\ job' = [NoJob EXCEPT !.pc = "restored"]
  /\ UNCHANGED <<call, calls, crashes, asked, unfilled, file, jobs>>

(* An interactive transaction has five seconds: the rest is rolled back.   *)
RollBack ==
  /\ job.pc = "commit"
  /\ job' = NoJob
  /\ UNCHANGED <<studyVars, file, jobs>>

RestoreDone ==
  /\ job.pc = "restored"
  /\ job' = NoJob
  /\ UNCHANGED <<studyVars, file, jobs>>

-----------------------------------------------------------------------------
(* A step of Study, seen by a backup that is reading.                      *)
Seen ==
  /\ job' = IF job.pc = "read" /\ Tables' # Tables
            THEN [job EXCEPT !.was = {}] ELSE job
  /\ UNCHANGED <<file, jobs>>

Studies == StudyNext /\ Seen /\ calls' + jobs <= MaxWork

(* Writing the file may leave it cut off.  Behind its entries nothing that *)
(* is needed is missing (Archive, CutIsRefused).                           *)
Crash ==
  /\ Die
  /\ job' = NoJob
  /\ \/ UNCHANGED file
     \/ job.pc = "write" /\ file' \in {Torn, Written}
  /\ UNCHANGED jobs

Proceeds == \/ ReadTable \/ WriteArchive \/ LoadArchive
            \/ Commit \/ RollBack \/ RestoreDone

Next == Studies \/ StartBackup \/ StartRestore \/ Proceeds \/ Crash

Spec == Init /\ [][Next]_vars

Callers == Permutations(Caller)

-----------------------------------------------------------------------------
(* A backup during which nothing was written gives back the lectures, the  *)
(* segments and the cards with their schedules, all of them and nothing    *)
(* else, whatever was done, deleted or reviewed since, and whichever       *)
(* handler still runs; a file that was cut off gives back nothing.         *)
SameRows(was) ==
  /\ \A l \in Lecture : IF HadLecture(was, l) THEN lecture[l] = was.lecture[l]
                        ELSE ~Exists(l)
  /\ segs = was.segs
  /\ \A i \in Card : IF was.card[i].reps >= 0 THEN card[i] = was.card[i]
                     ELSE i \notin Row

RestoreGivesBack ==
  [][job.pc = "commit" /\ job'.pc = "restored"
       => file.kind = "whole" /\ \A was \in file.was : SameRows(was)']_vars
=============================================================================
