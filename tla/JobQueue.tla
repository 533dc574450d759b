------------------------------ MODULE JobQueue ------------------------------
(***************************************************************************)
(* services/jobQueue.ts by itself: IPC handlers and services enqueue and   *)
(* cancel jobs, the two polling loops of services/whisperWorker.ts claim   *)
(* and settle them, the app dies and starts again (main.ts).               *)
(*                                                                         *)
(* The main process is one JavaScript thread, so what interleaves are the  *)
(* stretches between two awaits.  Every database statement is awaited:     *)
(* enqueue is two steps (findFirst, create), fail is two (findUnique,      *)
(* update); claimNext is one, its two statements being one transaction.    *)
(* What a worker does with a claimed job is left open here: it completes   *)
(* or it fails.  Capture refines that.                                     *)
(***************************************************************************)
EXTENDS JobTable

CONSTANTS
  Caller,       \* concurrent callers of enqueue (IPC handlers, services)
  LivePoller,   \* the poller that runs liveTick (the others run tick)
  MaxCrashes,   \* bound: how often the app dies
  MaxCancels    \* bound: how often the user cancels a job

ASSUME JobQueueAssumption ==
  /\ LivePoller \in Poller
  /\ MaxCrashes \in Nat
  /\ MaxCancels \in Nat

VARIABLES
  jobs,     \* the ProcessingJob table
  poller,   \* per polling loop: where it is, its job, the retryCount it read
  caller,   \* per caller: idle, or between findFirst and create
  up,       \* the app is running (the loops started, handlers registered)
  crashes,  \* how often it died so far
  cancels,  \* how often a job was cancelled so far
  runs      \* history: how often each job was claimed

vars == <<jobs, poller, caller, up, crashes, cancels, runs>>

Polling == [pc |-> "poll", job |-> 0, nextRetry |-> 0]
Idle == [pc |-> "idle", payload |-> CHOOSE p \in Payload : TRUE]

Init ==
  /\ jobs = [j \in Job |-> AbsentRow]
  /\ poller = [w \in Poller |-> Polling]
  /\ caller = [c \in Caller |-> Idle]
  /\ up = TRUE
  /\ crashes = 0
  /\ cancels = 0
  /\ runs = [j \in Job |-> 0]

Holds(w, j) == poller[w].pc # "poll" /\ poller[w].job = j
Held(j) == \E w \in Poller : Holds(w, j)

-----------------------------------------------------------------------------
(* enqueue.                                                                *)

(* Variant: only PENDING rows count as duplicates.                         *)
EnqueueFindPendingOnly(c, p) ==
  /\ up
  /\ caller[c].pc = "idle"
  /\ Deduplicates(p) =>
       {j \in Duplicate(jobs, p) : jobs[j].status = "PENDING"} = {}
  /\ caller' = [caller EXCEPT ![c] = [pc |-> "create", payload |-> p]]
  /\ UNCHANGED <<jobs, poller, up, crashes, cancels, runs>>

(* The lookup found no open row with this payload, or was not wanted.      *)
(* (When it finds one, enqueue returns that row and changes nothing.)      *)
EnqueueFind(c, p) ==
  /\ up
  /\ caller[c].pc = "idle"
  /\ Deduplicates(p) => Duplicate(jobs, p) = {}
  /\ caller' = [caller EXCEPT ![c] = [pc |-> "create", payload |-> p]]
  /\ UNCHANGED <<jobs, poller, up, crashes, cancels, runs>>

(* create takes the next id, so that ids follow createdAt.                 *)
EnqueueCreate(c) ==
  /\ caller[c].pc = "create"
  /\ \E j \in Job :
       /\ jobs[j].status = "ABSENT"
       /\ \A k \in Job : k < j => jobs[k].status # "ABSENT"
       /\ jobs' = [jobs EXCEPT ![j] = NewRow(caller[c].payload)]
  /\ caller' = [caller EXCEPT ![c] = Idle]
  /\ UNCHANGED <<poller, up, crashes, cancels, runs>>

-----------------------------------------------------------------------------
(* The polling loops.                                                      *)

(* Variant: the live loop's text search never matches a stored payload.    *)
WantedUnmatched(w) == IF w = LivePoller THEN {} ELSE Payload

(* tick takes TRANSCRIBE jobs of every kind, liveTick those whose payload  *)
(* text contains "live":true.                                              *)
Wanted(w) == IF w = LivePoller THEN LivePayload ELSE Payload

(* Variant: the update of a claim without its status guard, run against    *)
(* the row as an earlier find saw it.                                      *)
ClaimNextUnguarded(w) ==
  /\ up
  /\ poller[w].pc = "poll"
  /\ \E j \in Job :
       /\ jobs[j].status \in Open
       /\ jobs[j].payload \in Wanted(w)
       /\ jobs[j].wait = 0
       /\ jobs' = [jobs EXCEPT ![j] = ClaimedRow(@, w)]
       /\ poller' = [poller EXCEPT ![w] =
                       [pc |-> "run", job |-> j, nextRetry |-> 0]]
       /\ runs' = [runs EXCEPT ![j] = @ + 1]
  /\ UNCHANGED <<caller, up, crashes, cancels>>

(* claimNext and the transaction of liveTick: the first due row becomes    *)
(* RUNNING under this loop's lock.                                         *)
ClaimNext(w) ==
  /\ up
  /\ poller[w].pc = "poll"
  /\ \E j \in NextDue(jobs, Wanted(w)) :
       /\ jobs' = [jobs EXCEPT ![j] = ClaimedRow(@, w)]
       /\ poller' = [poller EXCEPT ![w] =
                       [pc |-> "run", job |-> j, nextRetry |-> 0]]
       /\ runs' = [runs EXCEPT ![j] = @ + 1]
  /\ UNCHANGED <<caller, up, crashes, cancels>>

(* complete *)
Complete(w) ==
  /\ poller[w].pc = "run"
  /\ jobs' = [jobs EXCEPT ![poller[w].job] = CompletedRow(@)]
  /\ poller' = [poller EXCEPT ![w] = Polling]
  /\ UNCHANGED <<caller, up, crashes, cancels, runs>>

(* fail, up to its first await: the row is read.                           *)
FailRead(w) ==
  /\ poller[w].pc = "run"
  /\ poller' = [poller EXCEPT
       ![w].pc = "fail",
       ![w].nextRetry = jobs[poller[w].job].retryCount + 1]
  /\ UNCHANGED <<jobs, caller, up, crashes, cancels, runs>>

(* fail, from there on: the row is written.                                *)
FailWrite(w) ==
  /\ poller[w].pc = "fail"
  /\ jobs' = [jobs EXCEPT ![poller[w].job] =
                FailedRow(@, poller[w].nextRetry)]
  /\ poller' = [poller EXCEPT ![w] = Polling]
  /\ UNCHANGED <<caller, up, crashes, cancels, runs>>

-----------------------------------------------------------------------------
(* The JOB_CANCEL handler: cancel and nothing else; the loop that runs the *)
(* job is not told (no caller of WhisperWorker.cancelJob exists).          *)
Cancel(j) ==
  /\ up
  /\ cancels < MaxCancels
  /\ jobs[j].status # "ABSENT"
  /\ jobs' = [jobs EXCEPT ![j] = CancelledRow(@)]
  /\ cancels' = cancels + 1
  /\ UNCHANGED <<poller, caller, up, crashes, runs>>

(* The process dies, or quits: before-quit stops the timers and closes the *)
(* database without waiting for a job in progress, which leaves the table  *)
(* as a crash does.  Everything in memory is gone.                         *)
Crash ==
  /\ up
  /\ crashes < MaxCrashes
  /\ up' = FALSE
  /\ crashes' = crashes + 1
  /\ poller' = [w \in Poller |-> Polling]
  /\ caller' = [c \in Caller |-> Idle]
  /\ UNCHANGED <<jobs, cancels, runs>>

(* Startup: recoverStalledJobs, then the loops start.                      *)
Restart ==
  /\ ~up
  /\ jobs' = [j \in Job |-> RecoveredRow(jobs[j])]
  /\ up' = TRUE
  /\ UNCHANGED <<poller, caller, crashes, cancels, runs>>

(* Time passes, whether the app runs or not.                               *)
Tick ==
  /\ jobs' = [j \in Job |-> AgedRow(jobs[j])]
  /\ UNCHANGED <<poller, caller, up, crashes, cancels, runs>>

Next ==
  \/ \E c \in Caller, p \in Payload : EnqueueFind(c, p)
  \/ \E c \in Caller : EnqueueCreate(c)
  \/ \E w \in Poller : ClaimNext(w)
  \/ \E w \in Poller : Complete(w)
  \/ \E w \in Poller : FailRead(w)
  \/ \E w \in Poller : FailWrite(w)
  \/ \E j \in Job : Cancel(j)
  \/ Crash
  \/ Restart
  \/ Tick

Spec == Init /\ [][Next]_vars

-----------------------------------------------------------------------------
(* Fairness.  A loop re-arms its timer after every job (finally, then      *)
(* setTimeout), so an idle loop polls again, and JOB_TIMEOUT_MS aborts a   *)
(* job that hangs, so a claimed job completes or fails.  Nobody has to     *)
(* enqueue, cancel, crash or restart.                                      *)
Works(w) == ClaimNext(w) \/ Complete(w) \/ FailRead(w) \/ FailWrite(w)

(* Only the live loop is scheduled: a regular job may keep tick busy.      *)
LiveLoopSpec == Spec /\ WF_vars(Tick) /\ WF_vars(Works(LivePoller))

-----------------------------------------------------------------------------
(* The state is made of table rows, loop positions and counters, and a     *)
(* retryCount never passes maxRetries.                                     *)
TypeOK ==
  /\ jobs \in [Job -> Row]
  /\ poller \in [Poller -> [pc : {"poll", "run", "fail"},
                            job : Job \cup {0},
                            nextRetry : 0 .. MaxRetries]]
  /\ \A w \in Poller : poller[w].pc # "poll" => poller[w].job \in Job
  /\ caller \in [Caller -> [pc : {"idle", "create"}, payload : Payload]]
  /\ up \in BOOLEAN
  /\ crashes \in 0 .. MaxCrashes
  /\ cancels \in 0 .. MaxCancels
  /\ runs \in [Job -> Nat]

(* No job is worked on by both loops, whatever is cancelled, retried or    *)
(* recovered in between: the claim of jobQueue.ts is exclusive.            *)
OneWorkerPerJob ==
  \A v, w \in Poller : \A j \in Job :
    Holds(v, j) /\ Holds(w, j) => v = w

(* A job is run at most maxRetries times, and once more for every time the *)
(* app died: no order of cancels, retries and recoveries gives it another  *)
(* run.                                                                    *)
RunBudget == \A j \in Job : runs[j] <= MaxRetries + crashes

(* A job that is DONE or FAILED is never put back in the queue: fail's     *)
(* write, which comes after an await, never lands on a job that another    *)
(* run has settled.                                                        *)
SettledStaysSettled ==
  [][\A j \in Job : jobs[j].status \in {"DONE", "FAILED"}
                      => jobs'[j].status \in Settled]_vars

(* With one caller at a time, and until something is cancelled, two open   *)
(* jobs never carry the same deduplicated payload.                         *)
NoDuplicateOpenJobs ==
  cancels = 0 => \A j, k \in Job :
    /\ {jobs[j].status, jobs[k].status} \subseteq Open
    /\ jobs[j].payload = jobs[k].payload
    /\ Deduplicates(jobs[j].payload)
    => j = k

(* When both loops keep working and the app does not die, every job that   *)
(* was queued ends up settled, for good.                                   *)
QueueDrains ==
  (\A w \in Poller : WF_vars(Works(w))) /\ [](crashes = 0)
    => \A j \in Job :
         jobs[j].status = "PENDING" ~> [](jobs[j].status \in Settled)

(* A live job is taken even when tick is busy for ever with a regular job, *)
(* unless the app dies first.                                              *)
LiveNotBlocked ==
  \A j \in Job :
    jobs[j].status = "PENDING" /\ jobs[j].payload \in LivePayload
      ~> jobs[j].status # "PENDING" \/ ~up

-----------------------------------------------------------------------------
(* The queue as a pool of tasks.  Whether a job is taken is decided by the *)
(* loops, not by the status column: a cancelled job that a loop still      *)
(* holds is taken, and a RUNNING job that no loop holds is lost.           *)
TaskOf(status) ==
  CASE status = "ABSENT" -> "none"
    [] status = "PENDING" -> "waiting"
    [] status = "RUNNING" -> "lost"
    [] OTHER -> "over"

PoolTask ==
  [j \in Job |-> IF Held(j) THEN "taken" ELSE TaskOf(jobs[j].status)]

PoolHold == [w \in Poller |-> {j \in Job : Holds(w, j)}]

Pool == INSTANCE JobPool WITH Worker <- Poller,
                              task <- PoolTask, hold <- PoolHold

(* The queue implements the pool: a job is taken by one loop at a time,    *)
(* only a waiting job is taken, only its holder releases it, and what is   *)
(* over stays over, for everyone who looks at the loops and not only at    *)
(* the table.                                                              *)
PoolSpec == Pool!Spec
=============================================================================
