------------------------------ MODULE JobTable ------------------------------
(***************************************************************************)
(* The ProcessingJob table of the desktop app, as the statements of        *)
(* services/jobQueue.ts read and write it.  One operator per statement,    *)
(* on a row or on the whole table; the state machines that run these       *)
(* statements are JobQueue (the queue by itself) and Capture (the queue    *)
(* driven by recording and transcription).                                 *)
(*                                                                         *)
(* The row keeps two instants, scheduledAfter and lockedAt, which the code *)
(* only ever compares with the clock.  They are held relative to it:       *)
(*   wait  - ticks until scheduledAfter is reached (0: due now);           *)
(*   age   - ticks since lockedAt, counted up to LockAgeCap.               *)
(* A tick is TickMs milliseconds.                                          *)
(***************************************************************************)
EXTENDS Integers

CONSTANTS
  Job,          \* row ids; a smaller id has an earlier createdAt
  LivePayload,  \* payloads of live chunk jobs ("live":true)
  FinalPayload, \* payloads of full passes queued by stop or by the user
  RecoverPayload, \* payloads queued by crash recovery (recovered: true)
  Poller,       \* the two polling loops of whisperWorker.ts
  NoPoller,     \* lockedBy = null
  MaxRetries,   \* maxRetries; every caller takes the default, 3
  TickMs        \* the length of one tick, in milliseconds

Payload == LivePayload \cup FinalPayload \cup RecoverPayload

Status == {"ABSENT", "PENDING", "RUNNING", "DONE", "FAILED", "CANCELLED"}

(* Statuses whose rows a worker may still touch (dedup looks at these).    *)
Open == {"PENDING", "RUNNING"}
Settled == {"DONE", "FAILED", "CANCELLED"}

(* 30_000 * 4^nextRetry milliseconds, in ticks. *)
Backoff(nextRetry) == (30000 * 4^nextRetry) \div TickMs

(* recoverStalledJobs takes rows locked more than ten minutes ago.         *)
StaleAfter == (10 * 60 * 1000) \div TickMs
LockAgeCap == StaleAfter + 1

ASSUME JobTableAssumption ==
  /\ Job \subseteq Nat
  /\ NoPoller \notin Poller
  /\ FinalPayload # {}
  /\ LivePayload \cap FinalPayload = {}
  /\ RecoverPayload \cap (LivePayload \cup FinalPayload) = {}
  /\ MaxRetries \in Nat \ {0}
  /\ TickMs \in Nat \ {0}

(* 30_000 * 4^n is a number of ticks for every retry the queue can reach.  *)
ASSUME BackoffAssumption ==
  /\ StaleAfter \in Nat
  /\ \A n \in 1 .. MaxRetries : Backoff(n) \in Nat

-----------------------------------------------------------------------------
(* The priority each caller of enqueue passes: 1 for a live chunk, 3 for a  *)
(* full pass, 4 for a recovered session.                                   *)
Priority(p) ==
  IF p \in LivePayload THEN 1 ELSE IF p \in FinalPayload THEN 3 ELSE 4

(* A live job is queued with deduplicate: false, every other with true.    *)
Deduplicates(p) == p \notin LivePayload

Row == [status : Status, payload : Payload, retryCount : 0 .. MaxRetries,
        lockedBy : Poller \cup {NoPoller}, wait : Nat, age : 0 .. LockAgeCap]

(* The row findFirst returns to enqueue: same hash, not yet settled.       *)
Duplicate(table, p) ==
  {j \in Job : table[j].status \in Open /\ table[j].payload = p}

(* processingJob.create: a PENDING row, due at once.                       *)
NewRow(p) ==
  [status |-> "PENDING", payload |-> p, retryCount |-> 0,
   lockedBy |-> NoPoller, wait |-> 0, age |-> 0]

(* A row id no create has used yet. *)
AbsentRow == [NewRow(CHOOSE p \in Payload : TRUE) EXCEPT !.status = "ABSENT"]

(* Rows a poll may take: PENDING, scheduledAfter reached, and in the       *)
(* payload set the loop asks for.                                          *)
Due(table, wanted) ==
  {j \in Job : /\ table[j].status = "PENDING"
               /\ table[j].wait = 0
               /\ table[j].payload \in wanted}

(* orderBy priority asc, createdAt asc.                                    *)
ClaimOrder(table, j, k) ==
  LET pj == Priority(table[j].payload)
      pk == Priority(table[k].payload)
  IN  pj < pk \/ (pj = pk /\ j <= k)

NextDue(table, wanted) ==
  {j \in Due(table, wanted) :
     \A k \in Due(table, wanted) : ClaimOrder(table, j, k)}

-----------------------------------------------------------------------------
(* The update of a claim: PENDING -> RUNNING, locked now.                  *)
ClaimedRow(row, w) ==
  [row EXCEPT !.status = "RUNNING", !.lockedBy = w, !.age = 0]

(* complete: status DONE whatever the row says by now.                     *)
CompletedRow(row) ==
  [row EXCEPT !.status = "DONE", !.lockedBy = NoPoller, !.age = 0]

(* Variant: a retry that forgets to store the new retryCount.              *)
FailedRowUncounted(row, nextRetry) ==
  IF nextRetry >= MaxRetries
  THEN [row EXCEPT !.status = "FAILED", !.retryCount = nextRetry,
                   !.lockedBy = NoPoller, !.age = 0]
  ELSE [row EXCEPT !.status = "PENDING", !.lockedBy = NoPoller, !.age = 0,
                   !.wait = Backoff(nextRetry)]

(* Variant: a retry that leaves the row RUNNING.                           *)
FailedRowStillRunning(row, nextRetry) ==
  IF nextRetry >= MaxRetries
  THEN [row EXCEPT !.status = "FAILED", !.retryCount = nextRetry,
                   !.lockedBy = NoPoller, !.age = 0]
  ELSE [row EXCEPT !.retryCount = nextRetry, !.lockedBy = NoPoller,
                   !.age = 0, !.wait = Backoff(nextRetry)]

(* fail's update, given nextRetry = retryCount + 1 computed from the row    *)
(* it read before: FAILED at the limit, else PENDING after the backoff.     *)
FailedRow(row, nextRetry) ==
  IF nextRetry >= MaxRetries
  THEN [row EXCEPT !.status = "FAILED", !.retryCount = nextRetry,
                   !.lockedBy = NoPoller, !.age = 0]
  ELSE [row EXCEPT !.status = "PENDING", !.retryCount = nextRetry,
                   !.lockedBy = NoPoller, !.age = 0,
                   !.wait = Backoff(nextRetry)]

(* cancel: status CANCELLED whatever the row says.                         *)
CancelledRow(row) ==
  [row EXCEPT !.status = "CANCELLED", !.lockedBy = NoPoller, !.age = 0]

(* recoverStalledJobs: RUNNING rows locked more than StaleAfter ago.       *)
Stalled(row) == row.status = "RUNNING" /\ row.age > StaleAfter

RecoveredRow(row) ==
  IF Stalled(row)
  THEN [row EXCEPT !.status = "PENDING", !.lockedBy = NoPoller, !.age = 0]
  ELSE row

(* One tick of the clock, as seen by a row.                                *)
AgedRow(row) ==
  [row EXCEPT !.wait = IF @ > 0 THEN @ - 1 ELSE 0,
              !.age = IF row.status = "RUNNING" /\ @ < LockAgeCap
                      THEN @ + 1 ELSE @]
=============================================================================
