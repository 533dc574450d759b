------------------------------ MODULE JobPool -------------------------------
(***************************************************************************)
(* What the job queue promises to those who use it, without its table: a   *)
(* pool of tasks that workers take one at a time, each task by one worker, *)
(* until it is over for good.  Workers may all die at once; what they had  *)
(* taken is lost until somebody finds it, and may be submitted again.      *)
(***************************************************************************)
CONSTANTS Job, Worker

VARIABLES
  task,  \* none, waiting, taken, lost or over, by job
  hold   \* the jobs a worker has taken: none or one

State == {"none", "waiting", "taken", "lost", "over"}

Init ==
  /\ task = [j \in Job |-> "none"]
  /\ hold = [w \in Worker |-> {}]

Submit(j) ==
  /\ task[j] = "none"
  /\ task' = [task EXCEPT ![j] = "waiting"]
  /\ UNCHANGED hold

Take(w, j) ==
  /\ hold[w] = {}
  /\ task[j] = "waiting"
  /\ task' = [task EXCEPT ![j] = "taken"]
  /\ hold' = [hold EXCEPT ![w] = {j}]

(* The worker is done with its job: over, or waiting for another attempt.  *)
Release(w, j) ==
  /\ j \in hold[w]
  /\ \E s \in {"waiting", "over"} : task' = [task EXCEPT ![j] = s]
  /\ hold' = [hold EXCEPT ![w] = {}]

(* A job nobody works on is called off. *)
Withdraw(j) ==
  /\ task[j] \in {"waiting", "lost"}
  /\ task' = [task EXCEPT ![j] = "over"]
  /\ UNCHANGED hold

(* All workers die.  What they held is lost, or called off already.        *)
Die ==
  /\ hold' = [w \in Worker |-> {}]
  /\ \E calledOff \in SUBSET Job :
       task' = [j \in Job |-> IF task[j] # "taken" THEN task[j]
                              ELSE IF j \in calledOff THEN "over" ELSE "lost"]

(* Some of the lost jobs are found and wait again. *)
Reissue ==
  /\ \E found \in SUBSET Job :
       task' = [j \in Job |-> IF task[j] = "lost" /\ j \in found
                              THEN "waiting" ELSE task[j]]
  /\ UNCHANGED hold

Next ==
  \/ \E j \in Job : Submit(j) \/ Withdraw(j)
  \/ \E w \in Worker, j \in Job : Take(w, j) \/ Release(w, j)
  \/ Die \/ Reissue

Spec == Init /\ [][Next]_<<task, hold>>
=============================================================================
