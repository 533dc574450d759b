--------------------------- MODULE JobQueueProofs ---------------------------
(***************************************************************************)
(* Proofs about JobQueue, for every number of jobs, polling loops, callers *)
(* and retries.                                                            *)
(*                                                                         *)
(* None of the safety properties of JobQueue is inductive by itself.  That *)
(* a retryCount stays within maxRetries rests on the row a loop holds      *)
(* still having retries left; that rests on nobody else having settled or  *)
(* failed it, so on the loops being exclusive; and that rests on a held    *)
(* row never being PENDING, which startup would break if a loop were       *)
(* holding a job while recoverStalledJobs runs.  IInv puts these together. *)
(*                                                                         *)
(* On IInv rest two more: a caller that looks before it creates leaves no  *)
(* two open jobs with one payload, and the queue is a pool of tasks whose  *)
(* jobs are taken while a loop holds them (JobPool).                       *)
(***************************************************************************)
EXTENDS JobQueue, TLAPS

(* A loop has no job while the app is down. *)
DownIdle == ~up => \A w \in Poller : poller[w] = Polling

(* The row of a held job: locked or cancelled under its loop, with at least *)
(* one retry left, and the retryCount that fail read is still the row's.    *)
HeldRow(w) ==
  LET row == jobs[poller[w].job]
  IN  /\ row.status \in {"RUNNING", "CANCELLED"}
      /\ row.retryCount < MaxRetries
      /\ poller[w].pc = "fail" => poller[w].nextRetry = row.retryCount + 1

HeldRows == \A w \in Poller : poller[w].pc # "poll" => HeldRow(w)

(* A job that may still be claimed has a retry left. *)
OpenRows == \A j \in Job :
  jobs[j].status \in Open => jobs[j].retryCount < MaxRetries

(* Runs are paid for by retries and crashes; the run in progress is not    *)
(* paid yet.                                                               *)
RunsOf(j) ==
  /\ jobs[j].status = "ABSENT" => runs[j] = 0
  /\ jobs[j].status \in Open /\ ~Held(j)
       => runs[j] <= jobs[j].retryCount + crashes
  /\ Held(j) => runs[j] <= jobs[j].retryCount + 1 + crashes
  /\ runs[j] <= MaxRetries + crashes

RunsPaid == \A j \in Job : RunsOf(j)

IInv ==
  /\ TypeOK
  /\ DownIdle
  /\ OneWorkerPerJob
  /\ HeldRows
  /\ OpenRows
  /\ RunsPaid
-----------------------------------------------------------------------------
(* The statements of jobQueue.ts keep a row a row.                         *)

(* What the statements write into a row is in the range of its column.     *)
LEMMA Columns ==
  /\ Status = {"ABSENT"} \cup Open \cup Settled
  /\ {"ABSENT", "PENDING", "RUNNING", "DONE", "FAILED", "CANCELLED"}
       \subseteq Status
  /\ Poller \subseteq Poller \cup {NoPoller}
  /\ NoPoller \in Poller \cup {NoPoller}
  /\ LockAgeCap \in Nat
  /\ 0 \in 0 .. LockAgeCap
  /\ 0 \in 0 .. MaxRetries
  /\ 1 .. MaxRetries \subseteq 0 .. MaxRetries
BY JobTableAssumption, BackoffAssumption
   DEF Status, Open, Settled, LockAgeCap

LEMMA NewRowType ==
  ASSUME NEW p \in Payload
  PROVE  /\ NewRow(p) \in Row
         /\ NewRow(p).status = "PENDING"
         /\ NewRow(p).retryCount = 0
         /\ NewRow(p).payload = p
BY Columns DEF NewRow, Row

LEMMA AbsentRowType == AbsentRow \in Row /\ AbsentRow.status = "ABSENT"
<1> DEFINE p == CHOOSE q \in Payload : TRUE
<1>1. p \in Payload
  BY JobTableAssumption DEF Payload
<1>2. NewRow(p) \in Row
  BY <1>1, NewRowType
<1>3. AbsentRow = [NewRow(p) EXCEPT !.status = "ABSENT"]
  BY DEF AbsentRow
<1> QED
  BY <1>2, <1>3, Columns DEF Row

LEMMA ClaimedRowType ==
  ASSUME NEW row \in Row, NEW w \in Poller
  PROVE  /\ ClaimedRow(row, w) \in Row
         /\ ClaimedRow(row, w).status = "RUNNING"
         /\ ClaimedRow(row, w).retryCount = row.retryCount
<1>1. w \in Poller \cup {NoPoller}
  OBVIOUS
<1> QED
  BY <1>1, Columns DEF ClaimedRow, Row

LEMMA CompletedRowType ==
  ASSUME NEW row \in Row
  PROVE  CompletedRow(row) \in Row /\ CompletedRow(row).status = "DONE"
BY Columns DEF CompletedRow, Row

LEMMA CancelledRowType ==
  ASSUME NEW row \in Row
  PROVE  /\ CancelledRow(row) \in Row
         /\ CancelledRow(row).status = "CANCELLED"
         /\ CancelledRow(row).retryCount = row.retryCount
BY Columns DEF CancelledRow, Row

(* fail settles the job at the limit and frees it before the limit.        *)
LEMMA FailedRowType ==
  ASSUME NEW row \in Row, NEW n \in 1 .. MaxRetries
  PROVE  /\ FailedRow(row, n) \in Row
         /\ FailedRow(row, n).retryCount = n
         /\ \/ FailedRow(row, n).status = "FAILED"
            \/ FailedRow(row, n).status = "PENDING" /\ n < MaxRetries
<1>1. Backoff(n) \in Nat /\ n \in 0 .. MaxRetries
  BY BackoffAssumption, Columns
<1>2. CASE n >= MaxRetries
  BY <1>1, <1>2, Columns DEF FailedRow, Row
<1>3. CASE ~(n >= MaxRetries)
  <2>1. n < MaxRetries
    BY <1>3, JobTableAssumption
  <2> QED
    BY <1>1, <1>3, <2>1, Columns DEF FailedRow, Row
<1> QED
  BY <1>2, <1>3

LEMMA RecoveredRowType ==
  ASSUME NEW row \in Row
  PROVE  /\ RecoveredRow(row) \in Row
         /\ RecoveredRow(row).retryCount = row.retryCount
         /\ \/ RecoveredRow(row) = row
            \/ row.status = "RUNNING" /\ RecoveredRow(row).status = "PENDING"
<1>1. CASE Stalled(row)
  <2>1. row.status = "RUNNING"
    BY <1>1 DEF Stalled
  <2> QED
    BY <1>1, <2>1, Columns DEF RecoveredRow, Row
<1>2. CASE ~Stalled(row)
  BY <1>2 DEF RecoveredRow
<1> QED
  BY <1>1, <1>2

LEMMA AgedRowType ==
  ASSUME NEW row \in Row
  PROVE  /\ AgedRow(row) \in Row
         /\ AgedRow(row).retryCount = row.retryCount
         /\ AgedRow(row).status = row.status
<1> DEFINE wait == IF row.wait > 0 THEN row.wait - 1 ELSE 0
           age == IF row.status = "RUNNING" /\ row.age < LockAgeCap
                  THEN row.age + 1 ELSE row.age
<1>1. wait \in Nat /\ age \in 0 .. LockAgeCap
  <2>1. row.wait \in Nat /\ row.age \in 0 .. LockAgeCap
    BY DEF Row
  <2> QED
    BY <2>1, Columns
<1>2. AgedRow(row) = [row EXCEPT !.wait = wait, !.age = age]
  BY DEF AgedRow
<1> HIDE DEF wait, age
<1> QED
  BY <1>1, <1>2 DEF Row

-----------------------------------------------------------------------------
(* The invariant holds initially and every action keeps it.                *)

LEMMA InitInv == Init => IInv
<1> SUFFICES ASSUME Init PROVE IInv
  OBVIOUS
<1>1. TypeOK
  <2>1. Idle \in [pc : {"idle", "create"}, payload : Payload]
    BY JobTableAssumption DEF Idle, Payload
  <2>2. Polling \in [pc : {"poll", "run", "fail"}, job : Job \cup {0},
                     nextRetry : 0 .. MaxRetries]
    BY Columns DEF Polling
  <2>3. \A w \in Poller : poller[w].pc = "poll"
    BY DEF Init, Polling
  <2> QED
    BY <2>1, <2>2, <2>3, AbsentRowType, JobQueueAssumption DEF Init, TypeOK
<1>2. \A w \in Poller : poller[w].pc = "poll"
  BY DEF Init, Polling
<1>3. DownIdle /\ OneWorkerPerJob /\ HeldRows
  BY <1>2 DEF Init, DownIdle, OneWorkerPerJob, Holds, HeldRows
<1>4. OpenRows
  BY AbsentRowType DEF Init, OpenRows, Open
<1>5. RunsPaid
  <2> SUFFICES ASSUME NEW j \in Job PROVE RunsOf(j)
    BY DEF RunsPaid
  <2>1. jobs[j].status = "ABSENT" /\ runs[j] = 0 /\ crashes = 0
    BY AbsentRowType DEF Init
  <2>2. ~Held(j)
    BY <1>2 DEF Held, Holds
  <2> QED
    BY <2>1, <2>2, JobTableAssumption DEF RunsOf, Open
<1> QED
  BY <1>1, <1>3, <1>4, <1>5 DEF IInv

LEMMA EnqueueFindInv ==
  ASSUME IInv, NEW c \in Caller, NEW p \in Payload, EnqueueFind(c, p)
  PROVE  IInv'
<1>1. caller' \in [Caller -> [pc : {"idle", "create"}, payload : Payload]]
  <2>1. [pc |-> "create", payload |-> p]
          \in [pc : {"idle", "create"}, payload : Payload]
    OBVIOUS
  <2> QED
    BY <2>1 DEF IInv, TypeOK, EnqueueFind
<1>2. UNCHANGED <<jobs, poller, up, crashes, cancels, runs>>
  BY DEF EnqueueFind
<1> QED
  BY <1>1, <1>2 DEF IInv, TypeOK, DownIdle, OneWorkerPerJob, Holds, HeldRows,
                    HeldRow, OpenRows, RunsPaid, RunsOf, Held

(* The new row was ABSENT, so no loop holds it and it never ran.           *)
LEMMA EnqueueCreateInv ==
  ASSUME IInv, NEW c \in Caller, EnqueueCreate(c)
  PROVE  IInv'
<1>1. PICK j \in Job : /\ jobs[j].status = "ABSENT"
                       /\ jobs' =
                            [jobs EXCEPT ![j] = NewRow(caller[c].payload)]
  BY DEF EnqueueCreate
<1>2. UNCHANGED <<poller, up, crashes, cancels, runs>>
  BY DEF EnqueueCreate
<1>3. caller[c].payload \in Payload
  BY DEF IInv, TypeOK
<1> DEFINE new == NewRow(caller[c].payload)
<1>4. /\ new \in Row
      /\ new.status = "PENDING"
      /\ new.retryCount = 0
  BY <1>3, NewRowType
<1>5. /\ jobs'[j] = new
      /\ \A k \in Job : k # j => jobs'[k] = jobs[k]
  BY <1>1 DEF IInv, TypeOK
<1>6. TypeOK'
  <2>1. Idle \in [pc : {"idle", "create"}, payload : Payload]
    BY JobTableAssumption DEF Idle, Payload
  <2>2. caller' \in [Caller -> [pc : {"idle", "create"}, payload : Payload]]
    BY <2>1 DEF IInv, TypeOK, EnqueueCreate
  <2>3. jobs' \in [Job -> Row]
    BY <1>1, <1>4 DEF IInv, TypeOK
  <2> QED
    BY <1>2, <2>2, <2>3 DEF IInv, TypeOK
<1>7. ~Held(j)
  BY <1>1 DEF IInv, HeldRows, HeldRow, Held, Holds
<1>8. \A w \in Poller : poller[w].pc # "poll" => jobs'[poller[w].job]
                                                = jobs[poller[w].job]
  BY <1>5, <1>7 DEF IInv, TypeOK, Held, Holds
<1>9. DownIdle' /\ OneWorkerPerJob'
  BY <1>2 DEF IInv, DownIdle, OneWorkerPerJob, Holds
<1>10. HeldRows'
  BY <1>2, <1>8 DEF IInv, HeldRows, HeldRow
<1>11. OpenRows'
  <2>1. new.retryCount < MaxRetries
    BY <1>4, JobTableAssumption
  <2> QED
    BY <1>5, <2>1 DEF IInv, OpenRows
<1>12. RunsPaid'
  <2> SUFFICES ASSUME NEW k \in Job PROVE RunsOf(k)'
    BY DEF RunsPaid
  <2>1. Held(k)' <=> Held(k)
    BY <1>2 DEF Held, Holds
  <2>2. CASE k = j
    <3>1. runs[j] = 0 /\ ~Held(j)'
      BY <1>1, <1>7, <2>1, <2>2 DEF IInv, RunsPaid, RunsOf
    <3> QED
      BY <1>2, <1>4, <1>5, <2>2, <3>1, JobTableAssumption
         DEF IInv, TypeOK, RunsOf
  <2>3. CASE k # j
    BY <1>2, <1>5, <2>1, <2>3 DEF IInv, RunsPaid, RunsOf
  <2> QED
    BY <2>2, <2>3
<1> QED
  BY <1>6, <1>9, <1>10, <1>11, <1>12 DEF IInv

(* The claimed row was PENDING, so no other loop holds it, and it has a    *)
(* retry left for the run that starts.                                     *)
LEMMA ClaimNextInv ==
  ASSUME IInv, NEW w \in Poller, ClaimNext(w)
  PROVE  IInv'
<1>1. PICK j \in NextDue(jobs, Wanted(w)) :
        /\ jobs' = [jobs EXCEPT ![j] = ClaimedRow(@, w)]
        /\ poller' = [poller EXCEPT ![w] =
                        [pc |-> "run", job |-> j, nextRetry |-> 0]]
        /\ runs' = [runs EXCEPT ![j] = @ + 1]
  BY DEF ClaimNext
<1>2. up /\ UNCHANGED <<caller, up, crashes, cancels>>
  BY DEF ClaimNext
<1>3. j \in Job /\ jobs[j].status = "PENDING"
  BY DEF NextDue, Due
<1>4. jobs[j] \in Row /\ runs[j] \in Nat /\ crashes \in Nat
  BY <1>3, JobQueueAssumption DEF IInv, TypeOK
<1> DEFINE new == ClaimedRow(jobs[j], w)
<1>5. /\ new \in Row
      /\ new.status = "RUNNING"
      /\ new.retryCount = jobs[j].retryCount
  BY <1>4, ClaimedRowType
<1>6. /\ jobs' \in [Job -> Row]
      /\ jobs'[j] = new
      /\ \A k \in Job : k # j => jobs'[k] = jobs[k]
  BY <1>1, <1>3, <1>5 DEF IInv, TypeOK
<1>7. /\ poller'[w] = [pc |-> "run", job |-> j, nextRetry |-> 0]
      /\ \A v \in Poller : v # w => poller'[v] = poller[v]
  BY <1>1 DEF IInv, TypeOK
<1>8. /\ runs' \in [Job -> Nat]
      /\ runs'[j] = runs[j] + 1
      /\ \A k \in Job : k # j => runs'[k] = runs[k]
  BY <1>1, <1>3, <1>4 DEF IInv, TypeOK
<1>9. ~Held(j)
  BY <1>3 DEF IInv, HeldRows, HeldRow, Held, Holds
<1>10. TypeOK'
  <2>1. [pc |-> "run", job |-> j, nextRetry |-> 0]
          \in [pc : {"poll", "run", "fail"}, job : Job \cup {0},
              nextRetry : 0 .. MaxRetries]
    BY <1>3, Columns
  <2>2. poller' \in [Poller -> [pc : {"poll", "run", "fail"},
                               job : Job \cup {0},
                               nextRetry : 0 .. MaxRetries]]
    BY <1>1, <2>1 DEF IInv, TypeOK
  <2>3. \A v \in Poller : poller'[v].pc # "poll" => poller'[v].job \in Job
    BY <1>3, <1>7 DEF IInv, TypeOK
  <2> QED
    BY <1>2, <1>6, <1>8, <2>2, <2>3 DEF IInv, TypeOK
<1>11. DownIdle'
  BY <1>2 DEF DownIdle
<1>12. \A v \in Poller, k \in Job :
         Holds(v, k)' <=> (v = w /\ k = j) \/ (v # w /\ Holds(v, k))
  BY <1>7 DEF Holds
<1>13. OneWorkerPerJob'
  BY <1>9, <1>12 DEF IInv, OneWorkerPerJob, Held
<1>14. jobs[j].retryCount < MaxRetries
  BY <1>3 DEF IInv, OpenRows, Open
<1>15. HeldRows'
  <2> SUFFICES ASSUME NEW v \in Poller, poller'[v].pc # "poll"
               PROVE  HeldRow(v)'
    BY DEF HeldRows
  <2>1. CASE v = w
    BY <1>5, <1>6, <1>7, <1>14, <2>1 DEF HeldRow
  <2>2. CASE v # w
    <3>1. poller'[v] = poller[v] /\ poller[v].job \in Job
      BY <1>7, <2>2 DEF IInv, TypeOK
    <3>2. poller[v].job # j
      BY <1>7, <1>9, <2>2 DEF Held, Holds
    <3>3. HeldRow(v)
      BY <3>1 DEF IInv, HeldRows
    <3> QED
      BY <1>6, <3>1, <3>2, <3>3 DEF HeldRow
  <2> QED
    BY <2>1, <2>2
<1>16. OpenRows'
  BY <1>5, <1>6, <1>14 DEF IInv, OpenRows
<1>17. RunsPaid'
  <2> SUFFICES ASSUME NEW k \in Job PROVE RunsOf(k)'
    BY DEF RunsPaid
  <2>1. CASE k = j
    <3>1. runs[j] <= jobs[j].retryCount + crashes
      BY <1>3, <1>9 DEF IInv, RunsPaid, RunsOf, Open
    <3>2. Held(j)'
      BY <1>3, <1>12 DEF Held
    <3>3. jobs[j].retryCount \in Nat
      BY <1>4 DEF Row
    <3>4. /\ runs'[j] <= jobs'[j].retryCount + 1 + crashes'
          /\ runs'[j] <= MaxRetries + crashes'
      BY <1>2, <1>4, <1>5, <1>6, <1>8, <1>14, <3>1, <3>3, JobTableAssumption
    <3> QED
      BY <1>5, <1>6, <2>1, <3>2, <3>4 DEF RunsOf
  <2>2. CASE k # j
    <3>1. Held(k)' <=> Held(k)
      <4>1. ~Holds(w, k)
        BY DEF ClaimNext, Holds
      <4>2. \A v \in Poller : Holds(v, k)' <=> Holds(v, k)
        BY <1>12, <2>2, <4>1
      <4> QED
        BY <4>2 DEF Held
    <3> QED
      BY <1>2, <1>6, <1>8, <2>2, <3>1 DEF IInv, RunsPaid, RunsOf
  <2> QED
    BY <2>1, <2>2
<1> QED
  BY <1>10, <1>11, <1>13, <1>15, <1>16, <1>17 DEF IInv

(* A loop that lets go of its job leaves it settled, or PENDING with the   *)
(* run that just ended counted as a retry.                                 *)
LEMMA ReleaseInv ==
  ASSUME IInv, NEW w \in Poller, poller[w].pc # "poll",
         NEW new \in Row,
         jobs' = [jobs EXCEPT ![poller[w].job] = new],
         poller' = [poller EXCEPT ![w] = Polling],
         UNCHANGED <<caller, up, crashes, cancels, runs>>,
         \/ new.status \in {"DONE", "FAILED"}
         \/ /\ new.status = "PENDING"
            /\ new.retryCount = jobs[poller[w].job].retryCount + 1
            /\ new.retryCount < MaxRetries
  PROVE  IInv'
<1>0. PICK j \in Job : j = poller[w].job
  BY DEF IInv, TypeOK
<1>1. Holds(w, j)
  BY <1>0 DEF Holds
<1>2. /\ jobs' \in [Job -> Row]
      /\ jobs'[j] = new
      /\ \A k \in Job : k # j => jobs'[k] = jobs[k]
  BY <1>0 DEF IInv, TypeOK
<1>3. /\ poller'[w] = Polling
      /\ \A v \in Poller : v # w => poller'[v] = poller[v]
  BY DEF IInv, TypeOK
<1>4. \A v \in Poller, k \in Job :
        Holds(v, k)' <=> v # w /\ Holds(v, k)
  BY <1>3 DEF Holds, Polling
<1>5. TypeOK'
  <2>1. Polling \in [pc : {"poll", "run", "fail"}, job : Job \cup {0},
                     nextRetry : 0 .. MaxRetries]
    BY Columns DEF Polling
  <2>2. poller' \in [Poller -> [pc : {"poll", "run", "fail"},
                               job : Job \cup {0},
                               nextRetry : 0 .. MaxRetries]]
    BY <2>1 DEF IInv, TypeOK
  <2>3. \A v \in Poller : poller'[v].pc # "poll" => poller'[v].job \in Job
    BY <1>3 DEF IInv, TypeOK, Polling
  <2> QED
    BY <1>2, <2>2, <2>3 DEF IInv, TypeOK
<1>6. DownIdle'
  BY <1>3 DEF IInv, DownIdle
<1>7. OneWorkerPerJob'
  BY <1>4 DEF IInv, OneWorkerPerJob
<1>8. \A v \in Poller : v # w => ~Holds(v, j)
  BY <1>1 DEF IInv, OneWorkerPerJob
<1>9. HeldRows'
  <2> SUFFICES ASSUME NEW v \in Poller, poller'[v].pc # "poll"
               PROVE  HeldRow(v)'
    BY DEF HeldRows
  <2>1. v # w
    BY <1>3 DEF Polling
  <2>2. poller'[v] = poller[v] /\ poller[v].job \in Job
    BY <1>3, <2>1 DEF IInv, TypeOK
  <2>3. poller[v].job # j
    BY <1>8, <2>1, <2>2 DEF Holds
  <2>4. HeldRow(v)
    BY <2>2 DEF IInv, HeldRows
  <2> QED
    BY <1>2, <2>2, <2>3, <2>4 DEF HeldRow
<1>10. OpenRows'
  BY <1>2 DEF IInv, OpenRows, Open
<1>11. RunsPaid'
  <2> SUFFICES ASSUME NEW k \in Job PROVE RunsOf(k)'
    BY DEF RunsPaid
  <2>1. CASE k = j
    <3>1. ~Held(j)'
      BY <1>1, <1>4, <1>8 DEF Held
    <3>2. /\ runs[j] <= jobs[j].retryCount + 1 + crashes
          /\ runs[j] <= MaxRetries + crashes
      BY <1>1 DEF IInv, RunsPaid, RunsOf, Held
    <3> QED
      BY <1>0, <1>2, <2>1, <3>1, <3>2 DEF RunsOf, Open
  <2>2. CASE k # j
    <3>1. Held(k)' <=> Held(k)
      <4>1. ~Holds(w, k)
        BY <1>0, <2>2 DEF Holds
      <4> QED
        BY <1>4, <4>1 DEF Held
    <3> QED
      BY <1>2, <2>2, <3>1 DEF IInv, RunsPaid, RunsOf
  <2> QED
    BY <2>1, <2>2
<1> QED
  BY <1>5, <1>6, <1>7, <1>9, <1>10, <1>11 DEF IInv

LEMMA CompleteInv ==
  ASSUME IInv, NEW w \in Poller, Complete(w)
  PROVE  IInv'
<1>1. poller[w].pc # "poll" /\ poller[w].job \in Job
  BY DEF IInv, TypeOK, Complete
<1>2. jobs[poller[w].job] \in Row
  BY <1>1 DEF IInv, TypeOK
<1> DEFINE new == CompletedRow(jobs[poller[w].job])
<1>3. new \in Row /\ new.status = "DONE"
  BY <1>2, CompletedRowType
<1>4. /\ jobs' = [jobs EXCEPT ![poller[w].job] = new]
      /\ poller' = [poller EXCEPT ![w] = Polling]
      /\ UNCHANGED <<caller, up, crashes, cancels, runs>>
  BY DEF Complete
<1> HIDE DEF new
<1> QED
  BY <1>1, <1>3, <1>4, ReleaseInv

LEMMA FailWriteInv ==
  ASSUME IInv, NEW w \in Poller, FailWrite(w)
  PROVE  IInv'
<1>1. poller[w].pc # "poll" /\ poller[w].job \in Job
  BY DEF IInv, TypeOK, FailWrite
<1> DEFINE row == jobs[poller[w].job]
           new == FailedRow(row, poller[w].nextRetry)
<1>2. row \in Row
  BY <1>1 DEF IInv, TypeOK
<1>3. poller[w].nextRetry = row.retryCount + 1 /\ row.retryCount < MaxRetries
  BY <1>1 DEF IInv, HeldRows, HeldRow, FailWrite
<1>4. poller[w].nextRetry \in 1 .. MaxRetries
  BY <1>2, <1>3, JobTableAssumption DEF Row
<1>5. /\ new \in Row
      /\ new.retryCount = row.retryCount + 1
      /\ \/ new.status = "FAILED"
         \/ new.status = "PENDING" /\ new.retryCount < MaxRetries
  BY <1>2, <1>3, <1>4, FailedRowType
<1>6. /\ jobs' = [jobs EXCEPT ![poller[w].job] = new]
      /\ poller' = [poller EXCEPT ![w] = Polling]
      /\ UNCHANGED <<caller, up, crashes, cancels, runs>>
  BY DEF FailWrite
<1> HIDE DEF new
<1> QED
  BY <1>1, <1>5, <1>6, ReleaseInv

(* fail reads the row it holds; a retry is left, so nextRetry is in range. *)
LEMMA FailReadInv ==
  ASSUME IInv, NEW w \in Poller, FailRead(w)
  PROVE  IInv'
<1> DEFINE row == jobs[poller[w].job]
<1>1. poller[w].pc = "run" /\ poller[w].job \in Job
  BY DEF IInv, TypeOK, FailRead
<1>2. row \in Row /\ HeldRow(w)
  BY <1>1 DEF IInv, TypeOK, HeldRows
<1>3. row.retryCount + 1 \in 0 .. MaxRetries
  BY <1>2, JobTableAssumption DEF Row, HeldRow
<1>4. UNCHANGED <<jobs, caller, up, crashes, cancels, runs>>
  BY DEF FailRead
<1>5. poller' = [poller EXCEPT ![w] = [@ EXCEPT !.pc = "fail",
                                             !.nextRetry = row.retryCount + 1]]
  BY DEF IInv, TypeOK, FailRead
<1>6. /\ poller'[w] = [poller[w] EXCEPT !.pc = "fail",
                                       !.nextRetry = row.retryCount + 1]
      /\ \A v \in Poller : v # w => poller'[v] = poller[v]
  BY <1>5 DEF IInv, TypeOK
<1>7. /\ poller'[w].pc = "fail"
      /\ poller'[w].job = poller[w].job
      /\ poller'[w].nextRetry = row.retryCount + 1
  BY <1>6 DEF IInv, TypeOK
<1>8. TypeOK'
  <2>1. poller'[w] \in [pc : {"poll", "run", "fail"}, job : Job \cup {0},
                        nextRetry : 0 .. MaxRetries]
    <3> DEFINE PC == {"poll", "run", "fail"}
    <3>1. "fail" \in PC
      OBVIOUS
    <3>2. poller[w] \in [pc : PC, job : Job \cup {0},
                        nextRetry : 0 .. MaxRetries]
      BY DEF IInv, TypeOK
    <3> HIDE DEF PC
    <3>3. poller'[w] \in [pc : PC, job : Job \cup {0},
                         nextRetry : 0 .. MaxRetries]
      BY <1>3, <1>6, <3>1, <3>2
    <3> QED
      BY <3>3 DEF PC
  <2>2. poller' \in [Poller -> [pc : {"poll", "run", "fail"},
                               job : Job \cup {0},
                               nextRetry : 0 .. MaxRetries]]
    BY <1>5, <1>6, <2>1 DEF IInv, TypeOK
  <2>3. \A v \in Poller : poller'[v].pc # "poll" => poller'[v].job \in Job
    BY <1>1, <1>6, <1>7 DEF IInv, TypeOK
  <2> QED
    BY <1>4, <2>2, <2>3 DEF IInv, TypeOK
<1>9. \A v \in Poller, k \in Job : Holds(v, k)' <=> Holds(v, k)
  BY <1>1, <1>6, <1>7 DEF Holds
<1>10. up
  BY <1>1 DEF IInv, DownIdle, Polling
<1>11. DownIdle' /\ OneWorkerPerJob' /\ OpenRows'
  BY <1>4, <1>9, <1>10 DEF IInv, DownIdle, OneWorkerPerJob, OpenRows
<1>12. HeldRows'
  <2> SUFFICES ASSUME NEW v \in Poller, poller'[v].pc # "poll"
               PROVE  HeldRow(v)'
    BY DEF HeldRows
  <2>1. CASE v = w
    BY <1>2, <1>4, <1>7, <2>1 DEF HeldRow
  <2>2. CASE v # w
    BY <1>4, <1>6, <2>2 DEF IInv, HeldRows, HeldRow
  <2> QED
    BY <2>1, <2>2
<1>13. RunsPaid'
  BY <1>4, <1>9 DEF IInv, RunsPaid, RunsOf, Held
<1> QED
  BY <1>8, <1>11, <1>12, <1>13 DEF IInv

(* A cancelled job may still be held; it keeps its retryCount.             *)
LEMMA CancelInv ==
  ASSUME IInv, NEW j \in Job, Cancel(j)
  PROVE  IInv'
<1> DEFINE new == CancelledRow(jobs[j])
<1>1. /\ new \in Row
      /\ new.status = "CANCELLED"
      /\ new.retryCount = jobs[j].retryCount
  BY CancelledRowType DEF IInv, TypeOK
<1>2. /\ jobs' \in [Job -> Row]
      /\ jobs'[j] = new
      /\ \A k \in Job : k # j => jobs'[k] = jobs[k]
  BY <1>1 DEF IInv, TypeOK, Cancel
<1>3. UNCHANGED <<poller, caller, up, crashes, runs>>
  BY DEF Cancel
<1> HIDE DEF new
<1>4. TypeOK'
  <2>1. cancels' \in 0 .. MaxCancels
    BY JobQueueAssumption DEF IInv, TypeOK, Cancel
  <2> QED
    BY <1>2, <1>3, <2>1 DEF IInv, TypeOK
<1>5. DownIdle' /\ OneWorkerPerJob'
  BY <1>3 DEF IInv, DownIdle, OneWorkerPerJob, Holds
<1>6. HeldRows'
  <2> SUFFICES ASSUME NEW v \in Poller, poller[v].pc # "poll"
               PROVE  HeldRow(v)'
    BY <1>3 DEF HeldRows
  <2>1. HeldRow(v) /\ poller[v].job \in Job
    BY DEF IInv, TypeOK, HeldRows
  <2>2. CASE poller[v].job = j
    BY <1>1, <1>2, <1>3, <2>1, <2>2 DEF HeldRow
  <2>3. CASE poller[v].job # j
    BY <1>2, <1>3, <2>1, <2>3 DEF HeldRow
  <2> QED
    BY <2>2, <2>3
<1>7. OpenRows'
  BY <1>1, <1>2 DEF IInv, OpenRows, Open
<1>8. RunsPaid'
  <2> SUFFICES ASSUME NEW k \in Job PROVE RunsOf(k)'
    BY DEF RunsPaid
  <2>1. Held(k)' <=> Held(k)
    BY <1>3 DEF Held, Holds
  <2>2. CASE k = j
    BY <1>1, <1>2, <1>3, <2>1, <2>2 DEF IInv, RunsPaid, RunsOf, Open
  <2>3. CASE k # j
    BY <1>2, <1>3, <2>1, <2>3 DEF IInv, RunsPaid, RunsOf
  <2> QED
    BY <2>2, <2>3
<1> QED
  BY <1>4, <1>5, <1>6, <1>7, <1>8 DEF IInv

(* A crash drops every job that was held; the crash pays for its run.      *)
LEMMA CrashInv ==
  ASSUME IInv, Crash
  PROVE  IInv'
<1>1. /\ UNCHANGED <<jobs, cancels, runs>>
      /\ up' = FALSE
      /\ crashes' = crashes + 1
      /\ \A w \in Poller : poller'[w] = Polling
      /\ \A w \in Poller : poller'[w].pc = "poll"
  BY DEF Crash, Polling
<1>2. TypeOK'
  <2>1. Polling \in [pc : {"poll", "run", "fail"}, job : Job \cup {0},
                     nextRetry : 0 .. MaxRetries]
    BY Columns DEF Polling
  <2>2. Idle \in [pc : {"idle", "create"}, payload : Payload]
    BY JobTableAssumption DEF Idle, Payload
  <2>3. crashes' \in 0 .. MaxCrashes
    BY JobQueueAssumption DEF IInv, TypeOK, Crash
  <2>4. /\ poller' \in [Poller -> [pc : {"poll", "run", "fail"},
                                  job : Job \cup {0},
                                  nextRetry : 0 .. MaxRetries]]
        /\ caller' \in [Caller -> [pc : {"idle", "create"}, payload : Payload]]
    BY <2>1, <2>2 DEF Crash
  <2> QED
    BY <1>1, <2>3, <2>4 DEF IInv, TypeOK
<1>3. DownIdle' /\ OneWorkerPerJob' /\ HeldRows'
  BY <1>1 DEF DownIdle, OneWorkerPerJob, Holds, HeldRows
<1>4. OpenRows'
  BY <1>1 DEF IInv, OpenRows
<1>5. RunsPaid'
  <2> SUFFICES ASSUME NEW k \in Job PROVE RunsOf(k)'
    BY DEF RunsPaid
  <2>1. ~Held(k)'
    BY <1>1 DEF Held, Holds
  <2>2. /\ jobs[k].retryCount \in Nat
        /\ runs[k] \in Nat
        /\ crashes \in Nat
        /\ MaxRetries \in Nat
    BY JobQueueAssumption, JobTableAssumption DEF IInv, TypeOK, Row
  <2>3. RunsOf(k)
    BY DEF IInv, RunsPaid
  <2>4. jobs[k].status \in Open => runs[k] <= jobs[k].retryCount + crashes'
    <3>1. CASE Held(k)
      BY <1>1, <2>2, <2>3, <3>1 DEF RunsOf
    <3>2. CASE ~Held(k)
      BY <1>1, <2>2, <2>3, <3>2 DEF RunsOf
    <3> QED
      BY <3>1, <3>2
  <2>5. runs[k] <= MaxRetries + crashes'
    BY <1>1, <2>2, <2>3 DEF RunsOf
  <2> QED
    BY <1>1, <2>1, <2>3, <2>4, <2>5 DEF RunsOf
<1> QED
  BY <1>2, <1>3, <1>4, <1>5 DEF IInv

(* Startup frees rows while no loop holds a job.                           *)
LEMMA RestartInv ==
  ASSUME IInv, Restart
  PROVE  IInv'
<1>1. UNCHANGED <<poller, caller, crashes, cancels, runs>> /\ up' = TRUE
  BY DEF Restart
<1>2. \A w \in Poller : poller[w].pc = "poll"
  BY DEF IInv, DownIdle, Restart, Polling
<1>3. \A j \in Job :
        /\ jobs'[j] \in Row
        /\ jobs'[j].retryCount = jobs[j].retryCount
        /\ \/ jobs'[j] = jobs[j]
           \/ jobs[j].status = "RUNNING" /\ jobs'[j].status = "PENDING"
  BY RecoveredRowType DEF IInv, TypeOK, Restart
<1>4. TypeOK'
  <2>1. jobs' \in [Job -> Row]
    BY <1>3 DEF Restart
  <2> QED
    BY <1>1, <2>1 DEF IInv, TypeOK
<1>5. DownIdle' /\ OneWorkerPerJob' /\ HeldRows'
  BY <1>1, <1>2 DEF DownIdle, OneWorkerPerJob, Holds, HeldRows
<1>6. OpenRows'
  BY <1>3 DEF IInv, OpenRows, Open
<1>7. RunsPaid'
  <2> SUFFICES ASSUME NEW k \in Job PROVE RunsOf(k)'
    BY DEF RunsPaid
  <2>1. ~Held(k) /\ ~Held(k)'
    BY <1>1, <1>2 DEF Held, Holds
  <2> QED
    BY <1>1, <1>3, <2>1 DEF IInv, RunsPaid, RunsOf, Open
<1> QED
  BY <1>4, <1>5, <1>6, <1>7 DEF IInv

LEMMA TickInv ==
  ASSUME IInv, Tick
  PROVE  IInv'
<1>1. UNCHANGED <<poller, caller, up, crashes, cancels, runs>>
  BY DEF Tick
<1>2. \A j \in Job : /\ jobs'[j] \in Row
                     /\ jobs'[j].status = jobs[j].status
                     /\ jobs'[j].retryCount = jobs[j].retryCount
  BY AgedRowType DEF IInv, TypeOK, Tick
<1>3. TypeOK'
  <2>1. jobs' \in [Job -> Row]
    BY <1>2 DEF Tick
  <2> QED
    BY <1>1, <2>1 DEF IInv, TypeOK
<1>4. DownIdle' /\ OneWorkerPerJob'
  BY <1>1 DEF IInv, DownIdle, OneWorkerPerJob, Holds
<1>5. HeldRows'
  BY <1>1, <1>2 DEF IInv, TypeOK, HeldRows, HeldRow
<1>6. OpenRows' /\ RunsPaid'
  BY <1>1, <1>2 DEF IInv, OpenRows, RunsPaid, RunsOf, Held, Holds
<1> QED
  BY <1>3, <1>4, <1>5, <1>6 DEF IInv

LEMMA StepInv == IInv /\ [Next]_vars => IInv'
<1> SUFFICES ASSUME IInv, [Next]_vars PROVE IInv'
  OBVIOUS
<1>1. ASSUME NEW c \in Caller, NEW p \in Payload, EnqueueFind(c, p)
      PROVE  IInv'
  BY <1>1, EnqueueFindInv
<1>2. ASSUME NEW c \in Caller, EnqueueCreate(c) PROVE IInv'
  BY <1>2, EnqueueCreateInv
<1>3. ASSUME NEW w \in Poller, ClaimNext(w) PROVE IInv'
  BY <1>3, ClaimNextInv
<1>4. ASSUME NEW w \in Poller, Complete(w) PROVE IInv'
  BY <1>4, CompleteInv
<1>5. ASSUME NEW w \in Poller, FailRead(w) PROVE IInv'
  BY <1>5, FailReadInv
<1>6. ASSUME NEW w \in Poller, FailWrite(w) PROVE IInv'
  BY <1>6, FailWriteInv
<1>7. ASSUME NEW j \in Job, Cancel(j) PROVE IInv'
  BY <1>7, CancelInv
<1>8. CASE Crash
  BY <1>8, CrashInv
<1>9. CASE Restart
  BY <1>9, RestartInv
<1>10. CASE Tick
  BY <1>10, TickInv
<1>11. CASE UNCHANGED vars
  BY <1>11 DEF vars, IInv, TypeOK, DownIdle, OneWorkerPerJob, Holds, HeldRows,
               HeldRow, OpenRows, RunsPaid, RunsOf, Held
<1> QED
  BY <1>1, <1>2, <1>3, <1>4, <1>5, <1>6, <1>7, <1>8, <1>9, <1>10, <1>11
     DEF Next

-----------------------------------------------------------------------------
(* The results.                                                            *)

(* The inductive invariant holds in every reachable state. *)
THEOREM Invariance == Spec => []IInv
BY InitInv, StepInv, PTL DEF Spec

(* Rows, loop positions and counters stay in their domains; in particular  *)
(* no retryCount passes maxRetries, although the limit is only checked     *)
(* against a value read before an await.                                   *)
THEOREM TypeCorrect == Spec => []TypeOK
<1>1. IInv => TypeOK
  BY DEF IInv
<1> QED
  BY <1>1, Invariance, PTL

(* Claims are exclusive: the two polling loops never work on one job.      *)
THEOREM ExclusiveClaims == Spec => []OneWorkerPerJob
<1>1. IInv => OneWorkerPerJob
  BY DEF IInv
<1> QED
  BY <1>1, Invariance, PTL

(* A job runs at most maxRetries times plus once per crash of the app.     *)
THEOREM BoundedRuns == Spec => []RunBudget
<1>1. IInv => RunBudget
  BY DEF IInv, RunsPaid, RunsOf, RunBudget
<1> QED
  BY <1>1, Invariance, PTL

(* A job that is DONE or FAILED never goes back to the queue.              *)
THEOREM SettledForGood == Spec => SettledStaysSettled
<1> DEFINE Stays(j) == jobs[j].status \in {"DONE", "FAILED"}
                         => jobs'[j].status \in Settled
<1>1. IInv /\ [Next]_vars => [\A j \in Job : Stays(j)]_vars
  <2> SUFFICES ASSUME IInv, Next, NEW j \in Job,
                      jobs[j].status \in {"DONE", "FAILED"}
               PROVE  jobs'[j].status \in Settled
    OBVIOUS
  <2>1. jobs \in [Job -> Row] /\ jobs[j] \in Row
    BY DEF IInv, TypeOK
  <2>2. CASE UNCHANGED jobs
    BY <2>2 DEF Settled
  <2>3. ASSUME NEW c \in Caller, EnqueueCreate(c)
        PROVE  jobs'[j].status \in Settled
    BY <2>1, <2>3 DEF EnqueueCreate, Settled
  <2>4. ASSUME NEW w \in Poller, ClaimNext(w)
        PROVE  jobs'[j].status \in Settled
    BY <2>1, <2>4 DEF ClaimNext, NextDue, Due, Settled
  <2>5. ASSUME NEW w \in Poller, Complete(w) \/ FailWrite(w)
        PROVE  jobs'[j].status \in Settled
    <3>1. HeldRow(w)
      BY <2>5 DEF IInv, HeldRows, Complete, FailWrite
    <3>2. poller[w].job # j
      BY <3>1 DEF HeldRow
    <3> QED
      BY <2>1, <2>5, <3>2 DEF Complete, FailWrite, Settled
  <2>6. ASSUME NEW k \in Job, Cancel(k)
        PROVE  jobs'[j].status \in Settled
    <3>1. CASE k = j
      BY <2>1, <2>6, <3>1, CancelledRowType DEF Cancel, Settled
    <3>2. CASE k # j
      BY <2>1, <2>6, <3>2 DEF Cancel, Settled
    <3> QED
      BY <3>1, <3>2
  <2>7. CASE Restart
    BY <2>1, <2>7, RecoveredRowType DEF Restart, Settled
  <2>8. CASE Tick
    BY <2>1, <2>8, AgedRowType DEF Tick, Settled
  <2> QED
    BY <2>2, <2>3, <2>4, <2>5, <2>6, <2>7, <2>8
       DEF Next, EnqueueFind, FailRead, Crash
<1> QED
  BY <1>1, Invariance, PTL DEF Spec, SettledStaysSettled

-----------------------------------------------------------------------------
(* Duplicates.  Two callers can both miss the row the other is about to    *)
(* create; one cannot.                                                     *)

(* What the caller looked for and did not find is still not there when it  *)
(* creates its row: an open row was open all along, under its payload.     *)
Undoubled ==
  cancels = 0 =>
    /\ \A j \in Job : jobs[j].status # "CANCELLED"
    /\ \A c \in Caller :
         caller[c].pc = "create" /\ Deduplicates(caller[c].payload)
           => Duplicate(jobs, caller[c].payload) = {}
    /\ NoDuplicateOpenJobs

LEMMA NothingOpens ==
  ASSUME Undoubled,
         cancels' = 0 => cancels = 0,
         \A j \in Job :
           /\ jobs'[j].status = "CANCELLED" =>
                jobs[j].status = "CANCELLED" \/ cancels' # 0
           /\ jobs'[j].status \in Open =>
                jobs[j].status \in Open /\ jobs'[j].payload = jobs[j].payload,
         \A c \in Caller : caller'[c].pc = "create" => caller'[c] = caller[c]
  PROVE  Undoubled'
<1> SUFFICES ASSUME cancels' = 0
             PROVE  /\ \A j \in Job : jobs'[j].status # "CANCELLED"
                    /\ \A c \in Caller :
                         caller'[c].pc = "create"
                           /\ Deduplicates(caller'[c].payload)
                           => Duplicate(jobs', caller'[c].payload) = {}
                    /\ NoDuplicateOpenJobs'
  BY DEF Undoubled
<1>1. \A j \in Job : jobs'[j].status # "CANCELLED"
  BY DEF Undoubled
<1>2. \A c \in Caller :
        caller'[c].pc = "create" /\ Deduplicates(caller'[c].payload)
          => Duplicate(jobs', caller'[c].payload) = {}
  BY DEF Undoubled, Duplicate
<1>3. NoDuplicateOpenJobs'
  BY DEF Undoubled, NoDuplicateOpenJobs
<1> QED
  BY <1>1, <1>2, <1>3

LEMMA SettlesOrFrees ==
  ASSUME IInv, Undoubled, NEW w \in Poller, Complete(w) \/ FailWrite(w)
  PROVE  Undoubled'
<1> DEFINE j == poller[w].job
<1>1. /\ j \in Job /\ jobs[j] \in Row
      /\ jobs[j].status \in {"RUNNING", "CANCELLED"}
  BY DEF IInv, TypeOK, HeldRows, HeldRow, Complete, FailWrite
<1>2. /\ \A k \in Job : k # j => jobs'[k] = jobs[k]
      /\ jobs'[j].status \in {"DONE", "FAILED", "PENDING"}
      /\ jobs'[j].payload = jobs[j].payload
      /\ UNCHANGED <<caller, cancels>>
  <2>1. CASE Complete(w)
    BY <1>1, <2>1 DEF IInv, TypeOK, Complete, CompletedRow, Row
  <2>2. CASE FailWrite(w)
    BY <1>1, <2>2 DEF IInv, TypeOK, FailWrite, FailedRow, Row
  <2> QED
    BY <2>1, <2>2
<1> HIDE DEF j
<1>3. CASE cancels = 0
  <2>1. jobs[j].status = "RUNNING"
    BY <1>1, <1>3 DEF Undoubled
  <2> QED
    BY <1>1, <1>2, <2>1, NothingOpens DEF Open
<1>4. CASE cancels # 0
  BY <1>2, <1>4 DEF Undoubled
<1> QED
  BY <1>3, <1>4

LEMMA UndoubledStep ==
  ASSUME \A c, d \in Caller : c = d, IInv, Undoubled, [Next]_vars
  PROVE  Undoubled'
<1>0. jobs \in [Job -> Row]
  BY DEF IInv, TypeOK
<1>1. ASSUME NEW c \in Caller, NEW p \in Payload, EnqueueFind(c, p)
      PROVE  Undoubled'
  <2>1. /\ UNCHANGED <<jobs, cancels>>
        /\ caller'[c].payload = p
        /\ Deduplicates(p) => Duplicate(jobs, p) = {}
    BY <1>1 DEF EnqueueFind, IInv, TypeOK
  <2>2. \A d \in Caller : d = c
    OBVIOUS
  <2> QED
    BY <2>1, <2>2 DEF Undoubled, NoDuplicateOpenJobs
<1>2. ASSUME NEW c \in Caller, EnqueueCreate(c)
      PROVE  Undoubled'
  <2> DEFINE p == caller[c].payload
  <2>1. PICK j \in Job : jobs[j].status = "ABSENT"
                         /\ jobs' = [jobs EXCEPT ![j] = NewRow(p)]
    BY <1>2 DEF EnqueueCreate
  <2>2. /\ UNCHANGED cancels /\ caller'[c].pc = "idle"
        /\ caller[c].pc = "create" /\ p \in Payload
    BY <1>2 DEF EnqueueCreate, Idle, IInv, TypeOK
  <2>3. /\ jobs'[j].status = "PENDING" /\ jobs'[j].payload = p
        /\ \A k \in Job : k # j => jobs'[k] = jobs[k]
    BY <1>0, <2>1, <2>2, NewRowType
  <2>4. \A d \in Caller : caller'[d].pc # "create"
    BY <2>2
  <2> HIDE DEF p
  <2>5. ASSUME cancels = 0 PROVE NoDuplicateOpenJobs'
    <3>1. Deduplicates(p)
            => \A k \in Job : jobs[k].status \in Open => jobs[k].payload # p
      BY <2>2, <2>5 DEF Undoubled, Duplicate, p
    <3>2. NoDuplicateOpenJobs
      BY <2>5 DEF Undoubled
    <3> SUFFICES ASSUME NEW k \in Job, NEW l \in Job,
                        jobs'[k].status \in Open, jobs'[l].status \in Open,
                        jobs'[k].payload = jobs'[l].payload,
                        Deduplicates(jobs'[k].payload)
                 PROVE  k = l
      BY DEF NoDuplicateOpenJobs
    <3> QED
      BY <2>3, <2>5, <3>1, <3>2 DEF NoDuplicateOpenJobs
  <2>6. cancels = 0 => \A k \in Job : jobs'[k].status # "CANCELLED"
    BY <2>3 DEF Undoubled
  <2> QED
    BY <2>2, <2>4, <2>5, <2>6 DEF Undoubled
<1>3. ASSUME NEW w \in Poller, ClaimNext(w) PROVE Undoubled'
  <2>1. PICK j \in Job : jobs[j].status = "PENDING"
                         /\ jobs' = [jobs EXCEPT ![j] = ClaimedRow(@, w)]
    BY <1>3 DEF ClaimNext, NextDue, Due
  <2>2. /\ jobs'[j].status = "RUNNING" /\ jobs'[j].payload = jobs[j].payload
        /\ \A k \in Job : k # j => jobs'[k] = jobs[k]
    BY <1>0, <2>1 DEF ClaimedRow, Row
  <2>3. UNCHANGED <<caller, cancels>>
    BY <1>3 DEF ClaimNext
  <2> QED
    BY <2>1, <2>2, <2>3, NothingOpens DEF Open
<1>4. ASSUME NEW w \in Poller, Complete(w) \/ FailWrite(w) PROVE Undoubled'
  BY <1>4, SettlesOrFrees
<1>5. ASSUME NEW w \in Poller, FailRead(w) PROVE Undoubled'
  BY <1>5 DEF FailRead, Undoubled, NoDuplicateOpenJobs
<1>6. ASSUME NEW j \in Job, Cancel(j) PROVE Undoubled'
  <2>1. cancels' # 0
    BY <1>6 DEF Cancel, IInv, TypeOK
  <2> QED
    BY <2>1 DEF Undoubled
<1>7. CASE Crash
  BY <1>7, NothingOpens DEF Crash, Idle
<1>8. CASE Restart
  <2>1. \A j \in Job : /\ jobs'[j].payload = jobs[j].payload
                       /\ \/ jobs'[j].status = jobs[j].status
                          \/ /\ jobs[j].status = "RUNNING"
                             /\ jobs'[j].status = "PENDING"
    BY <1>0, <1>8 DEF Restart, RecoveredRow, Stalled, Row
  <2> QED
    BY <1>8, <2>1, NothingOpens DEF Restart, Open
<1>9. CASE Tick
  <2>1. \A j \in Job : /\ jobs'[j].payload = jobs[j].payload
                       /\ jobs'[j].status = jobs[j].status
    BY <1>0, <1>9 DEF Tick, AgedRow, Row
  <2> QED
    BY <1>9, <2>1, NothingOpens DEF Tick
<1>10. CASE UNCHANGED vars
  BY <1>10 DEF vars, Undoubled, NoDuplicateOpenJobs
<1> QED
  BY <1>1, <1>2, <1>3, <1>4, <1>5, <1>6, <1>7, <1>8, <1>9, <1>10 DEF Next

(* A single caller of enqueue never leaves two open jobs with one payload  *)
(* that is deduplicated, whatever is claimed, fails, is retried, crashes   *)
(* and is recovered between its look and its create.                       *)
THEOREM OpenOnce ==
  ASSUME \A c, d \in Caller : c = d
  PROVE  Spec => []NoDuplicateOpenJobs
<1>1. Init => Undoubled
  BY AbsentRowType DEF Init, Undoubled, NoDuplicateOpenJobs, Idle, Open
<1>2. IInv /\ Undoubled /\ [Next]_vars => Undoubled'
  BY UndoubledStep
<1>3. Undoubled => NoDuplicateOpenJobs
  BY DEF Undoubled, NoDuplicateOpenJobs
<1> QED
  BY <1>1, <1>2, <1>3, Invariance, PTL DEF Spec

-----------------------------------------------------------------------------
(* The queue implements the pool: every step of JobQueue is a step of      *)
(* JobPool, or changes nothing there, under the mapping PoolTask, PoolHold *)
(* of JobQueue.  IInv makes the mapping work: no loop holds a job that is  *)
(* ABSENT, PENDING or over in the table, and no two loops hold one job.    *)

(* What the pool sees of one job. *)
Shown(k) == IF Held(k) THEN "taken" ELSE TaskOf(jobs[k].status)

LEMMA TaskOfStatus ==
  /\ TaskOf("ABSENT") = "none"
  /\ TaskOf("PENDING") = "waiting"
  /\ TaskOf("RUNNING") = "lost"
  /\ TaskOf("DONE") = "over"
  /\ TaskOf("FAILED") = "over"
  /\ TaskOf("CANCELLED") = "over"
BY DEF TaskOf

LEMMA NeverTaken ==
  ASSUME NEW row \in Row
  PROVE  /\ TaskOf(row.status) \in {"none", "waiting", "lost", "over"}
         /\ TaskOf(row.status) = "waiting" => row.status = "PENDING"
         /\ TaskOf(row.status) = "lost" => row.status = "RUNNING"
         /\ TaskOf(row.status) = "none" => row.status = "ABSENT"
<1>1. row.status \in Status
  BY DEF Row
<1> QED
  BY <1>1 DEF TaskOf, Status

(* A loop that polls holds nothing, any other exactly its job.             *)
LEMMA HoldOf ==
  ASSUME TypeOK, NEW w \in Poller
  PROVE  PoolHold[w] = IF poller[w].pc = "poll" THEN {} ELSE {poller[w].job}
BY DEF PoolHold, Holds, TypeOK

(* A step that moves no loop shows in the pool only in the table.          *)
LEMMA SameHold ==
  ASSUME UNCHANGED poller
  PROVE  PoolHold' = PoolHold /\ \A k \in Job : Held(k)' <=> Held(k)
BY DEF PoolHold, Held, Holds

LEMMA SameTask ==
  ASSUME \A k \in Job : Shown(k)' = Shown(k)
  PROVE  PoolTask' = PoolTask
BY DEF PoolTask, Shown

LEMMA InitPool == Init => Pool!Init
<1> SUFFICES ASSUME Init PROVE Pool!Init
  OBVIOUS
<1>1. \A w \in Poller : poller[w].pc = "poll"
  BY DEF Init, Polling
<1>2. \A k \in Job : ~Held(k) /\ jobs[k].status = "ABSENT"
  BY <1>1, AbsentRowType DEF Init, Held, Holds
<1>3. PoolTask = [k \in Job |-> "none"]
  BY <1>2, TaskOfStatus DEF PoolTask
<1>4. PoolHold = [w \in Poller |-> {}]
  BY <1>1 DEF PoolHold, Holds
<1> QED
  BY <1>3, <1>4 DEF Pool!Init

LEMMA EnqueueCreateSubmits ==
  ASSUME IInv, NEW c \in Caller, EnqueueCreate(c)
  PROVE  \E j \in Job : Pool!Submit(j)
<1>1. PICK j \in Job : /\ jobs[j].status = "ABSENT"
                       /\ jobs' =
                            [jobs EXCEPT ![j] = NewRow(caller[c].payload)]
  BY DEF EnqueueCreate
<1>2. UNCHANGED poller
  BY DEF EnqueueCreate
<1>3. NewRow(caller[c].payload).status = "PENDING"
  BY NewRowType DEF IInv, TypeOK
<1>4. /\ jobs'[j].status = "PENDING"
      /\ \A k \in Job : k # j => jobs'[k] = jobs[k]
  BY <1>1, <1>3 DEF IInv, TypeOK
<1>5. ~Held(j)
  BY <1>1 DEF IInv, HeldRows, HeldRow, Held, Holds
<1>6. PoolHold' = PoolHold /\ \A k \in Job : Held(k)' <=> Held(k)
  BY <1>2, SameHold
<1>7. PoolTask[j] = "none"
  BY <1>1, <1>5, TaskOfStatus DEF PoolTask
<1>8. PoolTask' = [PoolTask EXCEPT ![j] = "waiting"]
  BY <1>4, <1>5, <1>6, TaskOfStatus DEF PoolTask
<1> QED
  BY <1>6, <1>7, <1>8 DEF Pool!Submit

LEMMA ClaimNextTakes ==
  ASSUME IInv, IInv', NEW w \in Poller, ClaimNext(w)
  PROVE  \E j \in Job : Pool!Take(w, j)
<1>1. PICK j \in NextDue(jobs, Wanted(w)) :
        /\ jobs' = [jobs EXCEPT ![j] = ClaimedRow(@, w)]
        /\ poller' = [poller EXCEPT ![w] =
                        [pc |-> "run", job |-> j, nextRetry |-> 0]]
  BY DEF ClaimNext
<1>2. j \in Job /\ jobs[j].status = "PENDING"
  BY DEF NextDue, Due
<1>3. \A k \in Job : k # j => jobs'[k] = jobs[k]
  BY <1>1 DEF IInv, TypeOK
<1>4. /\ poller[w].pc = "poll"
      /\ poller'[w].pc = "run" /\ poller'[w].job = j
      /\ \A v \in Poller : v # w => poller'[v] = poller[v]
  BY <1>1 DEF IInv, TypeOK, ClaimNext
<1>5. \A v \in Poller, k \in Job :
        Holds(v, k)' <=> (v = w /\ k = j) \/ Holds(v, k)
  BY <1>4 DEF Holds
<1>6. ~Held(j)
  BY <1>2 DEF IInv, HeldRows, HeldRow, Held, Holds
<1>7. PoolTask[j] = "waiting"
  BY <1>2, <1>6, TaskOfStatus DEF PoolTask
<1>8. \A k \in Job : Held(k)' <=> k = j \/ Held(k)
  BY <1>2, <1>5 DEF Held
<1>9. PoolTask' = [PoolTask EXCEPT ![j] = "taken"]
  BY <1>2, <1>3, <1>8 DEF PoolTask
<1>10. PoolHold[w] = {} /\ PoolHold'[w] = {j}
  BY <1>2, <1>4 DEF PoolHold, Holds
<1>11. PoolHold' = [PoolHold EXCEPT ![w] = {j}]
  <2>1. \A v \in Poller : v # w => PoolHold'[v] = PoolHold[v]
    BY <1>4 DEF PoolHold, Holds
  <2>2. DOMAIN PoolHold = Poller /\ DOMAIN PoolHold' = Poller
    BY DEF PoolHold
  <2>3. /\ PoolHold = [v \in Poller |-> PoolHold[v]]
        /\ PoolHold' = [v \in Poller |-> PoolHold'[v]]
    BY DEF PoolHold
  <2> QED
    BY <1>10, <2>1, <2>2, <2>3
<1> QED
  BY <1>2, <1>7, <1>9, <1>10, <1>11 DEF Pool!Take

(* Whatever a loop writes when it lets go of its job, it is a release as   *)
(* long as the row ends PENDING, DONE or FAILED.                           *)
LEMMA LettingGo ==
  ASSUME IInv, NEW w \in Poller, poller[w].pc # "poll",
         NEW new \in Row, new.status \in {"PENDING", "DONE", "FAILED"},
         jobs' = [jobs EXCEPT ![poller[w].job] = new],
         poller' = [poller EXCEPT ![w] = Polling]
  PROVE  \E j \in Job : Pool!Release(w, j)
<1>1. PICK j \in Job : j = poller[w].job
  BY DEF IInv, TypeOK
<1>2. /\ jobs'[j] = new
      /\ \A k \in Job : k # j => jobs'[k] = jobs[k]
  BY <1>1 DEF IInv, TypeOK
<1>3. /\ poller'[w].pc = "poll"
      /\ \A v \in Poller : v # w => poller'[v] = poller[v]
  BY DEF IInv, TypeOK, Polling
<1>4. Holds(w, j) /\ \A k \in Job : Holds(w, k) => k = j
  BY <1>1 DEF Holds
<1>5. \A v \in Poller, k \in Job : Holds(v, k)' <=> v # w /\ Holds(v, k)
  BY <1>3 DEF Holds
<1>6. \A v \in Poller : v # w => ~Holds(v, j)
  BY <1>4 DEF IInv, OneWorkerPerJob
<1>7. \A k \in Job : Held(k)' <=> k # j /\ Held(k)
  BY <1>4, <1>5, <1>6 DEF Held
<1>8. \E s \in {"waiting", "over"} : TaskOf(new.status) = s
  BY TaskOfStatus
<1>9. PICK s \in {"waiting", "over"} : TaskOf(new.status) = s
  BY <1>8
<1>10. PoolTask' = [PoolTask EXCEPT ![j] = s]
  <2>1. PoolTask'[j] = s
    BY <1>2, <1>7, <1>9 DEF PoolTask
  <2>2. \A k \in Job : k # j => PoolTask'[k] = PoolTask[k]
    BY <1>2, <1>7 DEF PoolTask
  <2>3. /\ PoolTask = [k \in Job |-> PoolTask[k]]
        /\ PoolTask' = [k \in Job |-> PoolTask'[k]]
    BY DEF PoolTask
  <2> QED
    BY <2>1, <2>2, <2>3
<1>11. j \in PoolHold[w] /\ PoolHold'[w] = {}
  BY <1>4, <1>5 DEF PoolHold
<1>12. PoolHold' = [PoolHold EXCEPT ![w] = {}]
  <2>1. \A v \in Poller : v # w => PoolHold'[v] = PoolHold[v]
    BY <1>5 DEF PoolHold
  <2>2. /\ PoolHold = [v \in Poller |-> PoolHold[v]]
        /\ PoolHold' = [v \in Poller |-> PoolHold'[v]]
    BY DEF PoolHold
  <2> QED
    BY <1>11, <2>1, <2>2
<1> QED
  BY <1>10, <1>11, <1>12 DEF Pool!Release

LEMMA CompleteReleases ==
  ASSUME IInv, NEW w \in Poller, Complete(w)
  PROVE  \E j \in Job : Pool!Release(w, j)
<1> DEFINE new == CompletedRow(jobs[poller[w].job])
<1>1. poller[w].pc # "poll" /\ poller[w].job \in Job
  BY DEF IInv, TypeOK, Complete
<1>2. new \in Row /\ new.status \in {"PENDING", "DONE", "FAILED"}
  BY <1>1, CompletedRowType DEF IInv, TypeOK
<1>3. /\ jobs' = [jobs EXCEPT ![poller[w].job] = new]
      /\ poller' = [poller EXCEPT ![w] = Polling]
  BY DEF Complete
<1> HIDE DEF new
<1> QED
  BY <1>1, <1>2, <1>3, LettingGo

LEMMA FailWriteReleases ==
  ASSUME IInv, NEW w \in Poller, FailWrite(w)
  PROVE  \E j \in Job : Pool!Release(w, j)
<1> DEFINE row == jobs[poller[w].job]
           new == FailedRow(row, poller[w].nextRetry)
<1>1. poller[w].pc # "poll" /\ poller[w].job \in Job
  BY DEF IInv, TypeOK, FailWrite
<1>2. row \in Row /\ poller[w].nextRetry \in 1 .. MaxRetries
  <2>1. row \in Row
    BY <1>1 DEF IInv, TypeOK
  <2>2. poller[w].nextRetry = row.retryCount + 1 /\ row.retryCount < MaxRetries
    BY <1>1 DEF IInv, HeldRows, HeldRow, FailWrite
  <2> QED
    BY <2>1, <2>2, JobTableAssumption DEF Row
<1>3. new \in Row /\ new.status \in {"PENDING", "DONE", "FAILED"}
  BY <1>2, FailedRowType
<1>4. /\ jobs' = [jobs EXCEPT ![poller[w].job] = new]
      /\ poller' = [poller EXCEPT ![w] = Polling]
  BY DEF FailWrite
<1> HIDE DEF new
<1> QED
  BY <1>1, <1>3, <1>4, LettingGo

(* Reading the row is not seen by the pool. *)
LEMMA FailReadStutters ==
  ASSUME IInv, NEW w \in Poller, FailRead(w)
  PROVE  UNCHANGED <<PoolTask, PoolHold>>
<1>1. poller' = [poller EXCEPT ![w] = [@ EXCEPT !.pc = "fail",
                   !.nextRetry = jobs[poller[w].job].retryCount + 1]]
  BY DEF IInv, TypeOK, FailRead
<1>2. /\ poller[w].pc = "run"
      /\ poller'[w].pc = "fail" /\ poller'[w].job = poller[w].job
      /\ \A v \in Poller : v # w => poller'[v] = poller[v]
  BY <1>1 DEF IInv, TypeOK, FailRead
<1>3. \A v \in Poller, k \in Job : Holds(v, k)' <=> Holds(v, k)
  BY <1>2 DEF Holds
<1>4. PoolHold' = PoolHold
  BY <1>3 DEF PoolHold
<1>5. jobs' = jobs /\ \A k \in Job : Held(k)' <=> Held(k)
  BY <1>3 DEF FailRead, Held
<1> QED
  BY <1>4, <1>5 DEF PoolTask

(* Cancelling a job nobody holds withdraws it; cancelling a held job, or   *)
(* one that is over, is not seen.                                          *)
LEMMA CancelWithdraws ==
  ASSUME IInv, NEW j \in Job, Cancel(j)
  PROVE  Pool!Withdraw(j) \/ UNCHANGED <<PoolTask, PoolHold>>
<1>1. UNCHANGED poller /\ jobs[j].status # "ABSENT"
  BY DEF Cancel
<1>2. PoolHold' = PoolHold /\ \A k \in Job : Held(k)' <=> Held(k)
  BY <1>1, SameHold
<1>3. /\ jobs'[j].status = "CANCELLED"
      /\ \A k \in Job : k # j => jobs'[k] = jobs[k]
  BY CancelledRowType DEF IInv, TypeOK, Cancel
<1>4. CASE Held(j) \/ TaskOf(jobs[j].status) = "over"
  BY <1>2, <1>3, <1>4, TaskOfStatus DEF PoolTask
<1>5. CASE ~Held(j) /\ TaskOf(jobs[j].status) # "over"
  <2>1. TaskOf(jobs[j].status) \in {"waiting", "lost"}
    BY <1>1, <1>5, NeverTaken DEF IInv, TypeOK
  <2>2. PoolTask[j] \in {"waiting", "lost"}
    BY <1>5, <2>1 DEF PoolTask
  <2>3. PoolTask' = [PoolTask EXCEPT ![j] = "over"]
    BY <1>2, <1>3, <1>5, TaskOfStatus DEF PoolTask
  <2> QED
    BY <1>2, <2>2, <2>3 DEF Pool!Withdraw
<1> QED
  BY <1>4, <1>5

(* In a crash the jobs that were held are lost, or over when they had been *)
(* cancelled.                                                              *)
LEMMA CrashDies ==
  ASSUME IInv, Crash
  PROVE  Pool!Die
<1>1. /\ jobs' = jobs
      /\ \A w \in Poller : poller'[w].pc = "poll"
  BY DEF Crash, Polling
<1>2. \A k \in Job : ~Held(k)'
  BY <1>1 DEF Held, Holds
<1>3. PoolHold' = [w \in Poller |-> {}]
  BY <1>1 DEF PoolHold, Holds
<1> DEFINE calledOff == {k \in Job : jobs[k].status = "CANCELLED"}
<1>4. ASSUME NEW k \in Job
      PROVE  TaskOf(jobs[k].status) =
               IF PoolTask[k] # "taken" THEN PoolTask[k]
               ELSE IF k \in calledOff THEN "over" ELSE "lost"
  <2>1. CASE Held(k)
    <3>1. jobs[k].status \in {"RUNNING", "CANCELLED"}
      BY <2>1 DEF IInv, HeldRows, HeldRow, Held, Holds
    <3> QED
      BY <2>1, <3>1, TaskOfStatus DEF PoolTask
  <2>2. CASE ~Held(k)
    <3>1. PoolTask[k] = TaskOf(jobs[k].status)
      BY <2>2 DEF PoolTask
    <3>2. TaskOf(jobs[k].status) # "taken"
      BY NeverTaken DEF IInv, TypeOK
    <3> QED
      BY <3>1, <3>2
  <2> QED
    BY <2>1, <2>2
<1>5. PoolTask' = [k \in Job |-> TaskOf(jobs[k].status)]
  BY <1>1, <1>2 DEF PoolTask
<1>6. PoolTask' = [k \in Job |-> IF PoolTask[k] # "taken" THEN PoolTask[k]
                                 ELSE IF k \in calledOff
                                      THEN "over" ELSE "lost"]
  BY <1>4, <1>5
<1>7. calledOff \in SUBSET Job
  OBVIOUS
<1> HIDE DEF calledOff
<1> QED
  BY <1>3, <1>6, <1>7 DEF Pool!Die

(* Startup reissues what it finds stalled, all of it lost.                 *)
LEMMA RestartReissues ==
  ASSUME IInv, Restart
  PROVE  Pool!Reissue
<1>1. poller' = poller /\ \A k \in Job : jobs'[k] = RecoveredRow(jobs[k])
  BY DEF Restart
<1>2. PoolHold' = PoolHold /\ \A k \in Job : Held(k)' <=> Held(k)
  BY <1>1, SameHold
<1>3. \A k \in Job : ~Held(k)
  BY DEF IInv, DownIdle, Restart, Polling, Held, Holds
<1> DEFINE found == {k \in Job : jobs'[k] # jobs[k]}
<1>4. ASSUME NEW k \in Job
      PROVE  TaskOf(jobs'[k].status) =
               IF PoolTask[k] = "lost" /\ k \in found
               THEN "waiting" ELSE PoolTask[k]
  <2>1. PoolTask[k] = TaskOf(jobs[k].status)
    BY <1>3 DEF PoolTask
  <2>2. \/ jobs'[k] = jobs[k]
        \/ jobs[k].status = "RUNNING" /\ jobs'[k].status = "PENDING"
    BY <1>1, RecoveredRowType DEF IInv, TypeOK
  <2>3. CASE jobs'[k] = jobs[k]
    BY <2>1, <2>3
  <2>4. CASE jobs[k].status = "RUNNING" /\ jobs'[k].status = "PENDING"
    BY <2>1, <2>4, TaskOfStatus
  <2> QED
    BY <2>2, <2>3, <2>4
<1>5. PoolTask' = [k \in Job |-> TaskOf(jobs'[k].status)]
  BY <1>2, <1>3 DEF PoolTask
<1>6. PoolTask' = [k \in Job |-> IF PoolTask[k] = "lost" /\ k \in found
                                 THEN "waiting" ELSE PoolTask[k]]
  BY <1>4, <1>5
<1>7. found \in SUBSET Job
  OBVIOUS
<1> HIDE DEF found
<1> QED
  BY <1>2, <1>6, <1>7 DEF Pool!Reissue

LEMMA TickStutters ==
  ASSUME IInv, Tick
  PROVE  UNCHANGED <<PoolTask, PoolHold>>
<1>1. UNCHANGED poller
  BY DEF Tick
<1>2. \A k \in Job : jobs'[k].status = jobs[k].status
  BY AgedRowType DEF IInv, TypeOK, Tick
<1> QED
  BY <1>1, <1>2, SameHold DEF PoolTask

LEMMA StepPool == IInv /\ IInv' /\ [Next]_vars
                    => [Pool!Next]_<<PoolTask, PoolHold>>
<1> SUFFICES ASSUME IInv, IInv', [Next]_vars
             PROVE  Pool!Next \/ UNCHANGED <<PoolTask, PoolHold>>
  OBVIOUS
<1>1. ASSUME NEW c \in Caller, NEW p \in Payload, EnqueueFind(c, p)
      PROVE  UNCHANGED <<PoolTask, PoolHold>>
  BY <1>1 DEF EnqueueFind, PoolTask, PoolHold, Held, Holds
<1>2. ASSUME NEW c \in Caller, EnqueueCreate(c) PROVE Pool!Next
  BY <1>2, EnqueueCreateSubmits DEF Pool!Next
<1>3. ASSUME NEW w \in Poller, ClaimNext(w) PROVE Pool!Next
  BY <1>3, ClaimNextTakes DEF Pool!Next
<1>4. ASSUME NEW w \in Poller, Complete(w) PROVE Pool!Next
  BY <1>4, CompleteReleases DEF Pool!Next
<1>5. ASSUME NEW w \in Poller, FailRead(w)
      PROVE  UNCHANGED <<PoolTask, PoolHold>>
  BY <1>5, FailReadStutters
<1>6. ASSUME NEW w \in Poller, FailWrite(w) PROVE Pool!Next
  BY <1>6, FailWriteReleases DEF Pool!Next
<1>7. ASSUME NEW j \in Job, Cancel(j)
      PROVE  Pool!Next \/ UNCHANGED <<PoolTask, PoolHold>>
  BY <1>7, CancelWithdraws DEF Pool!Next
<1>8. CASE Crash
  BY <1>8, CrashDies DEF Pool!Next
<1>9. CASE Restart
  BY <1>9, RestartReissues DEF Pool!Next
<1>10. CASE Tick
  BY <1>10, TickStutters
<1>11. CASE UNCHANGED vars
  BY <1>11 DEF vars, PoolTask, PoolHold, Held, Holds
<1> QED
  BY <1>1, <1>2, <1>3, <1>4, <1>5, <1>6, <1>7, <1>8, <1>9, <1>10, <1>11
     DEF Next

(* Every behavior of the queue is one of the pool.                         *)
THEOREM QueueImplementsPool == Spec => PoolSpec
BY InitPool, StepPool, Invariance, PTL DEF Spec, PoolSpec, Pool!Spec
=============================================================================
