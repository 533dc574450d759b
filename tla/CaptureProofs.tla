---------------------------- MODULE CaptureProofs ----------------------------
(***************************************************************************)
(* Proofs about Capture, for any number of chunks, jobs, loops, errors,    *)
(* requests and crashes: privacy queues nothing and a crashed session is   *)
(* recovered, with any number of takes; in one take audio goes only after  *)
(* its text is written, a full pass finds what is not heard, and a pass    *)
(* over a private recording writes every chunk in its place; and whatever  *)
(* happens, the job table is used as a pool of tasks.                      *)
(***************************************************************************)
EXTENDS Capture, FiniteSetTheorems, WellFoundedInduction, TLAPS

-----------------------------------------------------------------------------
(* Where the variables range.                                              *)

JobRow == [status : Status, payload : Payload, retryCount : Nat,
           lockedBy : Poller \cup {NoPoller}, wait : Nat, age : Nat]

Resting == {"off", "flush"}
Saving == [pc : {"idle", "write", "row", "enqueue"}, take : 0 .. MaxTakes,
           privacy : BOOLEAN]
Serving == [pc : {"idle", "start", "lecture", "finalize", "find", "create"},
            rows : SUBSET Chunk]
Working == [pc : {"poll", "begin", "chunk", "infer", "cleanup", "unlink",
                  "complete"},
            job : Nat, plan : SUBSET Chunk, todo : SUBSET Chunk,
            seg : Nat, take : 0 .. MaxTakes]

RecTypes ==
  /\ mic \in [state : Resting \cup {"on", "paused", "resumed"},
              take : 0 .. MaxTakes, next : Nat]
  /\ session \in [state : {"NONE", "ACTIVE", "PAUSED", "STOPPED", "CRASHED",
                           "RECOVERED"},
                  privacy : BOOLEAN]
  /\ saver \in [Chunk -> Saving]
  /\ ipc \in Serving
  /\ mic.state # "off" => mic.take \in Take
  /\ \A i \in Chunk : saver[i].pc # "idle" => saver[i].take \in Take
  /\ boot \in {"up", "down", "count", "create", "recovered", "stalled"}
  /\ crashes \in 0 .. MaxCrashes

AudioTypes ==
  /\ row \in [Chunk -> {"NONE", "COMPLETE", "DELETED"}]
  /\ file \in [Chunk -> 0 .. MaxTakes]
  /\ transcript \in [Chunk -> Piece \cup {NoPiece}]
  /\ saved \in SUBSET Piece /\ heard \in SUBSET Piece

JobTypes ==
  /\ jobs \in [Job -> JobRow]
  /\ worker \in [Poller -> Working]
  /\ \A w \in Poller :
       /\ worker[w].pc # "poll" => worker[w].job \in Job
       /\ worker[w].pc \in {"infer", "cleanup", "unlink"}
            => worker[w].todo # {}
       /\ worker[w].pc = "infer" => worker[w].take \in Take

Types == RecTypes /\ AudioTypes /\ JobTypes

-----------------------------------------------------------------------------
(* The least number of a set: the chunk whose turn it is is one to do.     *)

Less == {ss \in Nat \X Nat : ss[1] < ss[2]}

LEMMA LessWellFounded == IsWellFoundedOn(Less, Nat)
  BY NatLessThanWellFounded DEF OpToRel, Less

LEMMA Smallest ==
  ASSUME NEW S \in SUBSET Nat, S # {}
  PROVE  Min(S) \in S /\ \A n \in S : Min(S) <= n
<1>1. PICK m \in S : \A n \in S : <<n, m>> \notin Less
  BY LessWellFounded, WFMin
<1>2. \A n \in S : ~(n < m)
  BY <1>1 DEF Less
<1>3. \E x \in S : \A y \in S : x <= y
  BY <1>1, <1>2
<1> QED
  BY <1>3 DEF Min

LEMMA TurnIsTodo ==
  ASSUME JobTypes, NEW w \in Poller, worker[w].todo # {}
  PROVE  /\ Turn(w) \in worker[w].todo /\ Turn(w) \in Chunk
         /\ \A i \in worker[w].todo : Turn(w) <= i
<1>1. worker[w].todo \in SUBSET Chunk
  BY DEF JobTypes, Working
<1>2. worker[w].todo \in SUBSET Nat
  BY <1>1, CaptureAssumption DEF Chunk
<1> QED
  BY <1>1, <1>2, Smallest DEF Turn

-----------------------------------------------------------------------------
(* The statements of JobTable: each leaves the payload alone and a row in  *)
(* its place.                                                              *)

LEMMA Statuses ==
  {"ABSENT", "PENDING", "RUNNING", "DONE", "FAILED", "CANCELLED"} = Status
  BY DEF Status

LEMMA Payloads ==
  /\ \A i \in Chunk : Live(i) \in Payload /\ Live(i).kind = "live"
                      /\ Live(i).chunk = i
                      /\ Live(i) \notin {StopPass, ManualPass, RecoveryPass}
  /\ StopPass \in Payload /\ StopPass.kind = "stop"
  /\ ManualPass \in Payload /\ ManualPass.kind = "manual"
  /\ RecoveryPass \in Payload /\ RecoveryPass.kind = "recovery"
  /\ \A p \in Payload :
       p.kind = "live" => p \in LivePayload /\ p.chunk \in Chunk
  BY DEF Payload, LivePayload, FinalPayload, RecoverPayload, Live, StopPass,
         ManualPass, RecoveryPass

LEMMA NewRowIs ==
  ASSUME NEW p \in Payload
  PROVE  NewRow(p) \in JobRow /\ NewRow(p).status = "PENDING"
         /\ NewRow(p).payload = p
  BY Statuses DEF NewRow, JobRow

LEMMA AbsentRowIs ==
  AbsentRow \in JobRow /\ AbsentRow.status = "ABSENT"
<1>1. PICK p \in Payload : AbsentRow = [NewRow(p) EXCEPT !.status = "ABSENT"]
  BY Payloads DEF AbsentRow
<1> QED
  BY <1>1, Statuses DEF NewRow, JobRow

LEMMA ClaimedRowIs ==
  ASSUME NEW r \in JobRow, NEW w \in Poller
  PROVE  /\ ClaimedRow(r, w) \in JobRow
         /\ ClaimedRow(r, w).payload = r.payload
         /\ ClaimedRow(r, w).status = "RUNNING"
  BY Statuses DEF ClaimedRow, JobRow

LEMMA CompletedRowIs ==
  ASSUME NEW r \in JobRow
  PROVE  /\ CompletedRow(r) \in JobRow
         /\ CompletedRow(r).payload = r.payload
         /\ CompletedRow(r).status = "DONE"
  BY Statuses DEF CompletedRow, JobRow

LEMMA FailedRowIs ==
  ASSUME NEW r \in JobRow, NEW n \in Nat \ {0}
  PROVE  /\ FailedRow(r, n) \in JobRow
         /\ FailedRow(r, n).payload = r.payload
         /\ FailedRow(r, n).status \in {"FAILED", "PENDING"}
<1>1. CASE n >= MaxRetries
  BY <1>1, Statuses DEF FailedRow, JobRow
<1>2. CASE ~(n >= MaxRetries)
  <2>1. Backoff(n) \in Nat
    BY <1>2, DelaysAssumption, CaptureAssumption
  <2> QED
    BY <1>2, <2>1, Statuses DEF FailedRow, JobRow
<1> QED
  BY <1>1, <1>2

LEMMA RecoveredRowIs ==
  ASSUME NEW r \in JobRow
  PROVE  /\ RecoveredRow(r) \in JobRow
         /\ RecoveredRow(r).payload = r.payload
         /\ \/ RecoveredRow(r).status = r.status
            \/ r.status = "RUNNING" /\ RecoveredRow(r).status = "PENDING"
  BY Statuses DEF RecoveredRow, Stalled, JobRow

LEMMA AgedRowIs ==
  ASSUME NEW r \in JobRow
  PROVE  /\ AgedRow(r) \in JobRow
         /\ AgedRow(r).payload = r.payload
         /\ AgedRow(r).status = r.status
<1> DEFINE w == IF r.wait > 0 THEN r.wait - 1 ELSE 0
           a == IF r.status = "RUNNING" /\ r.age < LockAgeCap
                THEN r.age + 1 ELSE r.age
<1>1. w \in Nat /\ a \in Nat
  BY DEF JobRow
<1>2. AgedRow(r) = [r EXCEPT !.wait = w, !.age = a]
  BY DEF AgedRow, JobRow
<1> HIDE DEF w, a
<1> QED
  BY <1>1, <1>2 DEF JobRow

-----------------------------------------------------------------------------
(* What the actions do to the table and to the loops.                      *)

Busy(w) == worker[w].pc # "poll"

(* A job is created: a PENDING row with this payload.                      *)
Created(p) ==
  /\ jobs' \in [Job -> JobRow]
  /\ \E j \in Job :
       /\ jobs[j].status = "ABSENT"
       /\ jobs'[j].status = "PENDING" /\ jobs'[j].payload = p
       /\ \A k \in Job \ {j} : jobs'[k] = jobs[k]

LEMMA CreateCreates ==
  ASSUME JobTypes, NEW p \in Payload, Create(p)
  PROVE  Created(p)
<1>1. PICK j \in Job : /\ jobs[j].status = "ABSENT"
                       /\ jobs' = [jobs EXCEPT ![j] = NewRow(p)]
  BY DEF Create
<1> QED
  BY <1>1, NewRowIs DEF Created, JobTypes

(* A loop is done with its job.                                            *)
Released(w) ==
  /\ worker' \in [Poller -> Working] /\ worker'[w] = Polling
  /\ \A v \in Poller \ {w} : worker'[v] = worker[v]
  /\ jobs' \in [Job -> JobRow]
  /\ jobs'[worker[w].job].payload = jobs[worker[w].job].payload
  /\ jobs'[worker[w].job].status \in {"DONE", "FAILED", "PENDING"}
  /\ \A j \in Job \ {worker[w].job} : jobs'[j] = jobs[j]

LEMMA PollingIs ==
  /\ Polling \in Working /\ Polling.pc = "poll"
  /\ Polling.plan = {} /\ Polling.todo = {}
  BY CaptureAssumption DEF Polling, Working

LEMMA SettleReleases ==
  ASSUME JobTypes, NEW w \in Poller, Busy(w), NEW r \in JobRow,
         r.payload = Current(w).payload,
         r.status \in {"DONE", "FAILED", "PENDING"},
         Settle(w, r)
  PROVE  Released(w)
  BY PollingIs DEF JobTypes, Busy, Current, Settle, Released

LEMMA CurrentIs ==
  ASSUME JobTypes, NEW w \in Poller, Busy(w)
  PROVE  Current(w) \in JobRow /\ worker[w].job \in Job
  BY DEF JobTypes, Busy, Current

LEMMA FailReleases ==
  ASSUME JobTypes, NEW w \in Poller, Busy(w), Fail(w)
  PROVE  Released(w)
<1> DEFINE n == Current(w).retryCount + 1
<1>1. n \in Nat \ {0}
  BY CurrentIs DEF JobRow
<1>2. Settle(w, FailedRow(Current(w), n))
  BY DEF Fail
<1> HIDE DEF n
<1> QED
  BY <1>1, <1>2, CurrentIs, FailedRowIs, SettleReleases

LEMMA CompleteReleases ==
  ASSUME JobTypes, NEW w \in Poller, Busy(w),
         Settle(w, CompletedRow(Current(w)))
  PROVE  Released(w)
  BY CurrentIs, CompletedRowIs, SettleReleases

(* A loop goes on with its job.                                            *)
Advanced(w) ==
  /\ worker' \in [Poller -> Working]
  /\ \A v \in Poller \ {w} : worker'[v] = worker[v]
  /\ worker'[w].job = worker[w].job
  /\ Busy(w) /\ worker'[w].pc # "poll"
  /\ worker'[w].pc \in {"infer", "cleanup", "unlink"}
       => worker'[w].todo # {}
  /\ worker'[w].pc = "infer" => worker'[w].take \in Take
  /\ UNCHANGED jobs

LEMMA AdvancedIs ==
  ASSUME JobTypes, NEW w \in Poller, NEW x \in Working, Busy(w),
         worker' = [worker EXCEPT ![w] = x], UNCHANGED jobs,
         x.job = worker[w].job, x.pc # "poll",
         x.pc \in {"infer", "cleanup", "unlink"} => x.todo # {},
         x.pc = "infer" => x.take \in Take
  PROVE  Advanced(w) /\ worker'[w] = x
  BY DEF JobTypes, Advanced

LEMMA ClaimIs ==
  ASSUME JobTypes, NEW w \in Poller, Claim(w)
  PROVE  \E j \in Job :
           /\ jobs[j].status = "PENDING" /\ jobs[j].payload \in Wanted(w)
           /\ jobs' \in [Job -> JobRow]
           /\ jobs'[j].payload = jobs[j].payload
           /\ jobs'[j].status = "RUNNING"
           /\ \A k \in Job \ {j} : jobs'[k] = jobs[k]
           /\ worker' \in [Poller -> Working]
           /\ worker'[w] = [Polling EXCEPT !.pc = "begin", !.job = j]
           /\ \A v \in Poller \ {w} : worker'[v] = worker[v]
<1>1. PICK j \in NextDue(jobs, Wanted(w)) :
        /\ jobs' = [jobs EXCEPT ![j] = ClaimedRow(@, w)]
        /\ worker' = [worker EXCEPT
             ![w] = [Polling EXCEPT !.pc = "begin", !.job = j]]
  BY DEF Claim
<1>2. j \in Job /\ jobs[j].status = "PENDING" /\ jobs[j].payload \in Wanted(w)
  BY DEF NextDue, Due
<1> DEFINE x == [Polling EXCEPT !.pc = "begin", !.job = j]
<1>3. x \in Working
  <2>1. Polling \in Working /\ j \in Nat
    BY <1>2, PollingIs, CaptureAssumption
  <2> QED
    BY <2>1 DEF Working
<1>4. jobs[j] \in JobRow /\ jobs' = [jobs EXCEPT ![j] = ClaimedRow(jobs[j], w)]
  BY <1>1, <1>2 DEF JobTypes
<1> HIDE DEF x
<1>5. worker' \in [Poller -> Working] /\ worker'[w] = x
      /\ \A v \in Poller \ {w} : worker'[v] = worker[v]
  BY <1>1, <1>3 DEF JobTypes, x
<1>6. /\ jobs' \in [Job -> JobRow]
      /\ jobs'[j].payload = jobs[j].payload
      /\ jobs'[j].status = "RUNNING"
      /\ \A k \in Job \ {j} : jobs'[k] = jobs[k]
  BY <1>2, <1>4, ClaimedRowIs DEF JobTypes
<1> QED
  BY <1>2, <1>5, <1>6 DEF x

LEMMA ResolveLiveIs ==
  ASSUME JobTypes, NEW w \in Poller, ResolveLive(w)
  PROVE  \/ Released(w)
         \/ /\ Advanced(w) /\ IsLive(w)
            /\ worker'[w].pc = "chunk"
            /\ worker'[w].plan = worker[w].plan
<1>1. Busy(w) /\ worker[w].pc = "begin" /\ IsLive(w)
  BY DEF ResolveLive, At, Busy
<1> DEFINE i == Current(w).payload.chunk
           x == [worker[w] EXCEPT !.pc = "chunk", !.todo = {i}]
<1>2. i \in Chunk
  BY <1>1, CurrentIs, Payloads DEF IsLive, JobRow
<1>3. CASE Fail(w) \/ Settle(w, CompletedRow(Current(w)))
  BY <1>1, <1>3, FailReleases, CompleteReleases
<1>4. CASE /\ worker' = [worker EXCEPT ![w].pc = "chunk", ![w].todo = {i}]
           /\ UNCHANGED jobs
  <2>1. worker[w] \in Working
    BY DEF JobTypes
  <2>2. x \in Working /\ x.pc = "chunk" /\ x.job = worker[w].job
        /\ x.plan = worker[w].plan
    BY <1>2, <2>1 DEF Working
  <2>3. worker' = [worker EXCEPT ![w] = x]
    BY <1>4 DEF JobTypes
  <2> HIDE DEF x
  <2> QED
    BY <1>1, <1>4, <2>2, <2>3, AdvancedIs
<1> QED
  BY <1>3, <1>4 DEF ResolveLive

LEMMA ResolveFullIs ==
  ASSUME JobTypes, NEW w \in Poller, ResolveFull(w)
  PROVE  \/ Released(w)
         \/ /\ Advanced(w) /\ ~IsLive(w)
            /\ worker'[w].pc = "chunk"
            /\ worker'[w].plan = {i \in Chunk : row[i] = "COMPLETE"}
            /\ worker'[w].todo = worker'[w].plan
            /\ worker'[w].seg = worker[w].seg /\ worker[w].pc = "begin"
            /\ worker'[w].todo # {}
<1>1. Busy(w) /\ worker[w].pc = "begin" /\ ~IsLive(w)
  BY DEF ResolveFull, At, Busy
<1> DEFINE t == {i \in Chunk : row[i] = "COMPLETE"}
           x == [worker[w] EXCEPT !.pc = "chunk", !.todo = t, !.plan = t]
<1>3. CASE Fail(w)
  BY <1>1, <1>3, FailReleases
<1>4. CASE /\ worker' = [worker EXCEPT ![w].pc = "chunk", ![w].todo = t,
                                      ![w].plan = t]
           /\ t # {} /\ UNCHANGED jobs
  <2>1. worker[w] \in Working /\ t \in SUBSET Chunk
    BY DEF JobTypes
  <2>3. worker' = [worker EXCEPT ![w] = x]
    BY <1>4 DEF JobTypes
  <2> HIDE DEF t
  <2>2. x \in Working /\ x.pc = "chunk" /\ x.job = worker[w].job
        /\ x.plan = t /\ x.todo = t /\ x.seg = worker[w].seg
    BY <2>1 DEF Working
  <2> HIDE DEF x
  <2> QED
    BY <1>1, <1>4, <2>2, <2>3, AdvancedIs DEF t
<1> QED
  BY <1>3, <1>4 DEF ResolveFull

(* A chunk that is not there is passed over, another is heard.             *)
LEMMA ConvertIs ==
  ASSUME AudioTypes, JobTypes, NEW w \in Poller, Convert(w)
  PROVE  /\ Advanced(w)
         /\ worker[w].pc = "chunk" /\ worker[w].todo # {}
         /\ worker'[w].plan = worker[w].plan /\ worker'[w].seg = worker[w].seg
         /\ \/ /\ worker'[w].pc = "chunk" /\ worker'[w].todo = Rest(w)
               /\ file[Turn(w)] = 0
            \/ /\ worker'[w].pc = "infer"
               /\ worker'[w].todo = worker[w].todo
               /\ worker'[w].take = file[Turn(w)]
<1>1. /\ Busy(w) /\ worker[w].pc = "chunk" /\ worker[w].todo # {}
      /\ UNCHANGED jobs
  BY DEF Convert, At, Busy
<1>2. worker[w] \in Working /\ Rest(w) \in SUBSET Chunk
  BY DEF JobTypes, Working, Rest
<1>3. file[Turn(w)] \in 0 .. MaxTakes
  BY <1>1, TurnIsTodo DEF AudioTypes
<1>4. CASE file[Turn(w)] = 0
  <2> DEFINE x == [worker[w] EXCEPT !.todo = Rest(w)]
  <2>1. x \in Working /\ x.pc = "chunk" /\ x.job = worker[w].job
        /\ x.plan = worker[w].plan /\ x.seg = worker[w].seg
        /\ x.todo = Rest(w)
    BY <1>1, <1>2 DEF Working
  <2>2. worker' = [worker EXCEPT ![w] = x]
    BY <1>4 DEF Convert, JobTypes
  <2> HIDE DEF x
  <2> QED
    BY <1>1, <1>4, <2>1, <2>2, AdvancedIs
<1>5. CASE file[Turn(w)] # 0
  <2> DEFINE x == [worker[w] EXCEPT !.pc = "infer", !.take = file[Turn(w)]]
  <2>1. x \in Working /\ x.pc = "infer" /\ x.job = worker[w].job
        /\ x.plan = worker[w].plan /\ x.seg = worker[w].seg
        /\ x.todo = worker[w].todo /\ x.take = file[Turn(w)]
    BY <1>1, <1>2, <1>3 DEF Working
  <2>2. worker' = [worker EXCEPT ![w] = x]
    BY <1>5 DEF Convert, JobTypes
  <2>3. x.take \in Take
    BY <1>3, <1>5, <2>1, CaptureAssumption DEF Take
  <2> HIDE DEF x
  <2> QED
    BY <1>1, <2>1, <2>2, <2>3, AdvancedIs
<1> QED
  BY <1>4, <1>5

(* The text is written at the loop's segment index.                        *)
LEMMA PersistIs ==
  ASSUME JobTypes, NEW w \in Poller, Persist(w)
  PROVE  /\ Advanced(w)
         /\ worker[w].pc = "infer" /\ worker[w].todo # {}
         /\ worker[w].take \in Take
         /\ worker'[w].plan = worker[w].plan
         /\ worker'[w].seg = worker[w].seg + 1
         /\ \/ /\ IsLive(w) /\ worker'[w].pc = "cleanup"
               /\ worker'[w].todo = worker[w].todo
            \/ /\ ~IsLive(w) /\ worker'[w].pc = "chunk"
               /\ worker'[w].todo = Rest(w)
<1>1. /\ Busy(w) /\ worker[w].pc = "infer" /\ worker[w].todo # {}
      /\ worker[w].take \in Take
      /\ UNCHANGED jobs
  BY DEF Persist, At, Busy, JobTypes
<1>2. worker[w] \in Working /\ Rest(w) \in SUBSET Chunk
      /\ worker[w].seg + 1 \in Nat
  BY DEF JobTypes, Working, Rest
<1>3. CASE IsLive(w)
  <2> DEFINE x == [worker[w] EXCEPT !.pc = "cleanup",
                                    !.seg = worker[w].seg + 1]
  <2>1. x \in Working /\ x.pc = "cleanup" /\ x.job = worker[w].job
        /\ x.plan = worker[w].plan /\ x.seg = worker[w].seg + 1
        /\ x.todo = worker[w].todo
    BY <1>2 DEF Working
  <2>2. worker' = [worker EXCEPT ![w] = x]
    BY <1>3 DEF Persist, JobTypes
  <2> HIDE DEF x
  <2> QED
    BY <1>1, <1>3, <2>1, <2>2, AdvancedIs
<1>4. CASE ~IsLive(w)
  <2> DEFINE x == [worker[w] EXCEPT !.pc = "chunk", !.todo = Rest(w),
                                    !.seg = worker[w].seg + 1]
  <2>1. x \in Working /\ x.pc = "chunk" /\ x.job = worker[w].job
        /\ x.plan = worker[w].plan /\ x.seg = worker[w].seg + 1
        /\ x.todo = Rest(w)
    BY <1>2 DEF Working
  <2>2. worker' = [worker EXCEPT ![w] = x]
    BY <1>4 DEF Persist, JobTypes
  <2> HIDE DEF x
  <2> QED
    BY <1>1, <1>4, <2>1, <2>2, AdvancedIs
<1> QED
  BY <1>3, <1>4

(* The two halves of cleanupChunk, whether they work or not.               *)
LEMMA CleanupIs ==
  ASSUME JobTypes, NEW w \in Poller,
         CleanupRow(w) \/ Unlink(w) \/ CleanupError(w)
  PROVE  /\ Advanced(w) /\ worker[w].todo # {}
         /\ \/ /\ worker[w].pc = "cleanup" /\ worker'[w].pc = "unlink"
               /\ worker'[w].todo = worker[w].todo
            \/ worker[w].pc = "unlink" /\ worker'[w].pc = "chunk"
<1>1. /\ Busy(w) /\ worker[w].pc \in {"cleanup", "unlink"}
      /\ worker[w].todo # {} /\ UNCHANGED jobs
  BY DEF CleanupRow, Unlink, CleanupError, At, Busy, JobTypes
<1>2. worker[w] \in Working /\ Rest(w) \in SUBSET Chunk
  BY DEF JobTypes, Working, Rest
<1>3. CASE worker[w].pc = "cleanup"
  <2> DEFINE x == [worker[w] EXCEPT !.pc = "unlink"]
  <2>1. x \in Working /\ x.pc = "unlink" /\ x.job = worker[w].job
        /\ x.todo = worker[w].todo
    BY <1>2 DEF Working
  <2>2. worker' = [worker EXCEPT ![w] = x]
    BY <1>3 DEF CleanupRow, Unlink, CleanupError, At, JobTypes
  <2> HIDE DEF x
  <2> QED
    BY <1>1, <1>3, <2>1, <2>2, AdvancedIs
<1>4. CASE worker[w].pc = "unlink"
  <2> DEFINE x == [worker[w] EXCEPT !.pc = "chunk", !.todo = Rest(w)]
  <2>1. x \in Working /\ x.pc = "chunk" /\ x.job = worker[w].job
    BY <1>2 DEF Working
  <2>2. worker' = [worker EXCEPT ![w] = x]
    BY <1>4 DEF CleanupRow, Unlink, CleanupError, At, JobTypes
  <2> HIDE DEF x
  <2> QED
    BY <1>1, <1>4, <2>1, <2>2, AdvancedIs
<1> QED
  BY <1>1, <1>3, <1>4

LEMMA MarkReadyIs ==
  ASSUME JobTypes, NEW w \in Poller, MarkReady(w)
  PROVE  /\ Advanced(w)
         /\ worker[w].pc = "chunk" /\ worker[w].todo = {}
         /\ worker'[w].pc = "complete" /\ worker'[w].plan = worker[w].plan
         /\ worker'[w].todo = worker[w].todo
         /\ worker'[w].seg = worker[w].seg
<1>1. /\ Busy(w) /\ worker[w].pc = "chunk" /\ worker[w].todo = {}
      /\ UNCHANGED jobs
  BY DEF MarkReady, At, Busy
<1> DEFINE x == [worker[w] EXCEPT !.pc = "complete"]
<1>2. x \in Working /\ x.pc = "complete" /\ x.job = worker[w].job
      /\ x.todo = worker[w].todo /\ x.plan = worker[w].plan
      /\ x.seg = worker[w].seg
  BY DEF JobTypes, Working
<1>3. worker' = [worker EXCEPT ![w] = x]
  BY DEF MarkReady, JobTypes
<1> HIDE DEF x
<1> QED
  BY <1>1, <1>2, <1>3, AdvancedIs

LEMMA EndIs ==
  ASSUME JobTypes, NEW w \in Poller, Complete(w) \/ Abort(w)
  PROVE  Busy(w) /\ Released(w)
<1>1. Busy(w)
  BY DEF Complete, Abort, At, Busy
<1> QED
  BY <1>1, FailReleases, CompleteReleases DEF Complete, Abort

-----------------------------------------------------------------------------
(* The loops: none works while the app is down, a job that is held is      *)
(* RUNNING, and no two loops hold one.                                     *)

Held ==
  /\ boot # "up" => \A w \in Poller : worker[w].pc = "poll"
  /\ \A w \in Poller : Busy(w) => jobs[worker[w].job].status = "RUNNING"
  /\ \A v, w \in Poller :
       Busy(v) /\ Busy(w) /\ worker[v].job = worker[w].job => v = w

Loops == JobTypes /\ Held

LEMMA LoopsInit == Init => Loops
<1> SUFFICES ASSUME Init PROVE Loops
  OBVIOUS
<1>1. \A w \in Poller : worker[w] = Polling
  BY DEF Init
<1>2. JobTypes
  BY <1>1, PollingIs, AbsentRowIs DEF Init, JobTypes
<1> QED
  BY <1>1, <1>2, PollingIs DEF Loops, Held, Busy

LEMMA LoopsCreate ==
  ASSUME Loops, NEW p \in Payload, Created(p), UNCHANGED worker,
         boot' # "up" => boot # "up"
  PROVE  Loops'
  BY DEF Loops, JobTypes, Held, Busy, Created

LEMMA LoopsRelease ==
  ASSUME Loops, NEW w \in Poller, Busy(w), Released(w), UNCHANGED boot
  PROVE  Loops'
<1>1. JobTypes'
  BY PollingIs DEF Loops, JobTypes, Released
<1>2. \A v \in Poller : Busy(v)' => v # w /\ Busy(v) /\ worker'[v] = worker[v]
  BY PollingIs DEF Released, Busy
<1>3. \A v \in Poller : Busy(v)' => jobs'[worker'[v].job].status = "RUNNING"
  BY <1>2 DEF Loops, Held, JobTypes, Busy, Released
<1> QED
  BY <1>1, <1>2, <1>3 DEF Loops, Held, Busy, Released

LEMMA LoopsAdvance ==
  ASSUME Loops, NEW w \in Poller, Advanced(w), UNCHANGED boot
  PROVE  Loops'
<1>1. JobTypes'
  BY DEF Loops, JobTypes, Advanced, Busy
<1>2. \A v \in Poller :
        (Busy(v)' <=> Busy(v)) /\ worker'[v].job = worker[v].job
  BY DEF Advanced, Busy
<1> QED
  BY <1>1, <1>2 DEF Loops, Held, Advanced, Busy

LEMMA LoopsClaim ==
  ASSUME Loops, NEW w \in Poller, Claim(w)
  PROVE  Loops'
<1>1. PICK j \in Job :
        /\ jobs[j].status = "PENDING"
        /\ jobs' \in [Job -> JobRow]
        /\ jobs'[j].status = "RUNNING"
        /\ \A k \in Job \ {j} : jobs'[k] = jobs[k]
        /\ worker' \in [Poller -> Working]
        /\ worker'[w] = [Polling EXCEPT !.pc = "begin", !.job = j]
        /\ \A v \in Poller \ {w} : worker'[v] = worker[v]
  BY ClaimIs DEF Loops
<1>2. worker'[w].pc = "begin" /\ worker'[w].job = j
  BY <1>1 DEF Polling
<1>3. boot = "up" /\ boot' = "up" /\ ~Busy(w)
  BY DEF Claim, Up, At, Busy
<1>4. \A v \in Poller \ {w} : Busy(v) => worker[v].job # j
  BY <1>1 DEF Loops, Held
<1>5. JobTypes'
  BY <1>1, <1>2 DEF Loops, JobTypes
<1>6. \A v \in Poller : Busy(v)' => jobs'[worker'[v].job].status = "RUNNING"
  <2> SUFFICES ASSUME NEW v \in Poller, Busy(v)'
               PROVE  jobs'[worker'[v].job].status = "RUNNING"
    OBVIOUS
  <2>1. CASE v = w
    BY <2>1, <1>1, <1>2
  <2>2. CASE v # w
    <3>1. Busy(v) /\ worker'[v] = worker[v]
      BY <2>2, <1>1 DEF Busy
    <3>2. /\ worker[v].job \in Job /\ worker[v].job # j
          /\ jobs[worker[v].job].status = "RUNNING"
      BY <2>2, <3>1, <1>4 DEF Loops, Held, JobTypes, Busy
    <3>3. jobs'[worker[v].job] = jobs[worker[v].job]
      BY <3>2, <1>1
    <3> QED
      BY <3>1, <3>2, <3>3
  <2> QED
    BY <2>1, <2>2
<1>7. \A u, v \in Poller :
        Busy(u)' /\ Busy(v)' /\ worker'[u].job = worker'[v].job => u = v
  <2>1. /\ worker'[w].job = j
        /\ \A v \in Poller \ {w} :
             (Busy(v)' <=> Busy(v)) /\ worker'[v].job = worker[v].job
    BY <1>1, <1>2 DEF Busy
  <2>2. \A u, v \in Poller :
          Busy(u) /\ Busy(v) /\ worker[u].job = worker[v].job => u = v
    BY DEF Loops, Held
  <2> QED
    BY <1>4, <2>1, <2>2, Zenon
<1> QED
  BY <1>3, <1>5, <1>6, <1>7 DEF Loops, Held

LEMMA LoopsStep ==
  ASSUME AudioTypes, Loops, [Next]_vars
  PROVE  Loops'
<1>1. CASE \/ Start \/ Pause \/ Resume \/ Stop \/ NothingToFlush
           \/ StartLecture \/ StopProcessing \/ Finalize \/ StopFind
           \/ BootMark \/ BootCount \/ BootRecovered \/ UNCHANGED vars
           \/ \E i \in Chunk : SendChunk(i) \/ RefuseWrite(i)
                               \/ WriteFile(i) \/ UpsertRow(i)
  <2>1. UNCHANGED <<jobs, worker>> /\ (boot' # "up" => boot # "up")
    BY <1>1 DEF Start, Pause, Resume, Stop, NothingToFlush, StartLecture,
                StopProcessing, Finalize, StopFind, BootMark, BootCount,
                BootRecovered, SendChunk, RefuseWrite, WriteFile, UpsertRow,
                vars
  <2> QED
    BY <2>1 DEF Loops, JobTypes, Held, Busy
<1>2. ASSUME NEW i \in Chunk, EnqueueLive(i)
      PROVE  Loops'
  BY <1>2, Payloads, CreateCreates, LoopsCreate DEF EnqueueLive, Loops
<1>3. CASE StopCreate \/ TranscribeNow \/ BootCreate
  BY <1>3, Payloads, CreateCreates, LoopsCreate
  DEF StopCreate, TranscribeNow, BootCreate, Loops
<1>4. ASSUME NEW w \in Poller,
             Works(w) \/ Abort(w) \/ CleanupError(w)
      PROVE  Loops'
  <2>1. CASE Claim(w)
    BY <2>1, LoopsClaim
  <2>2. CASE ResolveLive(w)
    <3>1. Busy(w) /\ UNCHANGED boot
      BY <2>2 DEF ResolveLive, At, Busy
    <3> QED
      BY <2>2, <3>1, ResolveLiveIs, LoopsRelease, LoopsAdvance DEF Loops
  <2>3. CASE ResolveFull(w)
    <3>1. Busy(w) /\ UNCHANGED boot
      BY <2>3 DEF ResolveFull, At, Busy
    <3> QED
      BY <2>3, <3>1, ResolveFullIs, LoopsRelease, LoopsAdvance DEF Loops
  <2>4. CASE Convert(w) \/ Persist(w) \/ CleanupRow(w) \/ Unlink(w)
             \/ CleanupError(w) \/ MarkReady(w)
    <3>1. UNCHANGED boot
      BY <2>4 DEF Convert, Persist, CleanupRow, Unlink, CleanupError,
                  MarkReady
    <3> QED
      BY <2>4, <3>1, ConvertIs, PersistIs, CleanupIs, MarkReadyIs,
         LoopsAdvance DEF Loops
  <2>5. CASE Complete(w) \/ Abort(w)
    <3>1. UNCHANGED boot
      BY <2>5 DEF Complete, Abort
    <3> QED
      BY <2>5, <3>1, EndIs, LoopsRelease DEF Loops
  <2> QED
    BY <1>4, <2>1, <2>2, <2>3, <2>4, <2>5 DEF Works
<1>5. CASE Crash
  <2>1. worker' = [w \in Poller |-> Polling] /\ UNCHANGED jobs
    BY <1>5 DEF Crash
  <2> QED
    BY <2>1, PollingIs DEF Loops, JobTypes, Held, Busy
<1>6. CASE LongPause
  <2>1. \A j \in Job : AgedRow(jobs[j]) \in JobRow
    BY AgedRowIs DEF Loops, JobTypes
  <2> QED
    BY <1>6, <2>1 DEF LongPause, Loops, JobTypes, Held, Busy
<1>7. CASE BootStalled
  <2>1. \A j \in Job : RecoveredRow(jobs[j]) \in JobRow
    BY RecoveredRowIs DEF Loops, JobTypes
  <2> QED
    BY <1>7, <2>1 DEF BootStalled, Loops, JobTypes, Held, Busy
<1> QED
  BY <1>1, <1>2, <1>3, <1>4, <1>5, <1>6, <1>7
  DEF Next, Handles, Saves, Boots
-----------------------------------------------------------------------------
(* What a step does to the jobs that are there.                            *)

Keeps ==
  \A j \in Job : /\ jobs'[j].payload = jobs[j].payload
                 /\ jobs'[j].status = "ABSENT" <=> jobs[j].status = "ABSENT"
                 /\ jobs'[j].status \in Open => jobs[j].status \in Open

LEMMA ReleaseKeeps ==
  ASSUME Loops, NEW w \in Poller, Busy(w), Released(w)
  PROVE  Keeps
<1>1. worker[w].job \in Job /\ jobs[worker[w].job].status = "RUNNING"
  BY DEF Loops, JobTypes, Held, Busy
<1>2. jobs'[worker[w].job].status # "ABSENT"
  BY DEF Released
<1> QED
  BY <1>1, <1>2 DEF Released, Keeps, Open

LEMMA WorkKeeps ==
  ASSUME AudioTypes, Loops, NEW w \in Poller,
         Works(w) \/ Abort(w) \/ CleanupError(w)
  PROVE  Keeps
<1>1. CASE Claim(w)
  <2>1. PICK j \in Job :
          /\ jobs[j].status = "PENDING"
          /\ jobs'[j].payload = jobs[j].payload
          /\ jobs'[j].status = "RUNNING"
          /\ \A k \in Job \ {j} : jobs'[k] = jobs[k]
    BY <1>1, ClaimIs DEF Loops
  <2> QED
    BY <2>1 DEF Keeps, Open
<1>2. CASE ResolveLive(w) \/ ResolveFull(w)
  <2>1. Busy(w)
    BY <1>2 DEF ResolveLive, ResolveFull, At, Busy
  <2>2. Released(w) \/ UNCHANGED jobs
    BY <1>2, ResolveLiveIs, ResolveFullIs DEF Loops, Advanced
  <2> QED
    BY <2>1, <2>2, ReleaseKeeps DEF Keeps
<1>3. CASE Complete(w) \/ Abort(w)
  BY <1>3, EndIs, ReleaseKeeps DEF Loops
<1>4. CASE Convert(w) \/ Persist(w) \/ CleanupRow(w) \/ Unlink(w)
           \/ CleanupError(w) \/ MarkReady(w)
  <2>1. UNCHANGED jobs
    BY <1>4 DEF Convert, Persist, CleanupRow, Unlink, CleanupError, MarkReady
  <2> QED
    BY <2>1 DEF Keeps
<1> QED
  BY <1>1, <1>2, <1>3, <1>4 DEF Works

Creates ==
  \/ TranscribeNow /\ Created(ManualPass)
  \/ \E i \in Chunk : EnqueueLive(i) /\ Created(Live(i))
  \/ StopCreate /\ Created(StopPass)
  \/ BootCreate /\ Created(RecoveryPass)

LEMMA KeepsOrCreates ==
  ASSUME AudioTypes, Loops, [Next]_vars
  PROVE  Keeps \/ Creates
<1>1. CASE \/ Start \/ Pause \/ Resume \/ Stop \/ NothingToFlush
           \/ StartLecture \/ StopProcessing \/ Finalize \/ StopFind
           \/ BootMark \/ BootCount \/ BootRecovered \/ UNCHANGED vars
           \/ Crash
           \/ \E i \in Chunk : SendChunk(i) \/ RefuseWrite(i)
                               \/ WriteFile(i) \/ UpsertRow(i)
  <2>1. UNCHANGED jobs
    BY <1>1 DEF Start, Pause, Resume, Stop, NothingToFlush, StartLecture,
                StopProcessing, Finalize, StopFind, BootMark, BootCount,
                BootRecovered, SendChunk, RefuseWrite, WriteFile, UpsertRow,
                Crash, vars
  <2> QED
    BY <2>1 DEF Keeps
<1>2. ASSUME NEW i \in Chunk, EnqueueLive(i)
      PROVE  Creates
  BY <1>2, Payloads, CreateCreates DEF EnqueueLive, Loops, Creates
<1>3. CASE StopCreate \/ TranscribeNow \/ BootCreate
  BY <1>3, Payloads, CreateCreates
  DEF StopCreate, TranscribeNow, BootCreate, Loops, Creates
<1>4. CASE LongPause
  BY <1>4, AgedRowIs DEF LongPause, Loops, JobTypes, Keeps
<1>5. CASE BootStalled
  <2>1. \A j \in Job : /\ jobs'[j] = RecoveredRow(jobs[j])
                       /\ jobs[j] \in JobRow
    BY <1>5 DEF BootStalled, Loops, JobTypes
  <2> QED
    BY <2>1, RecoveredRowIs DEF Keeps, Open
<1> QED
  BY <1>1, <1>2, <1>3, <1>4, <1>5, WorkKeeps
  DEF Next, Handles, Saves, Boots

-----------------------------------------------------------------------------
(* The recording side: nothing of it runs while the app is down, a call    *)
(* that is under way belongs to a session and knows its privacy mode, and  *)
(* in privacy mode it never comes to a create.                             *)

Asleep ==
  /\ mic.state = "off" /\ ipc.pc = "idle"
  /\ \A i \in Chunk : saver[i].pc = "idle"

Calls ==
  /\ boot # "up" => Asleep
  /\ session.state = "NONE"
       => ~session.privacy /\ Asleep /\ boot \in {"up", "down", "stalled"}
  /\ \A i \in Chunk :
       /\ saver[i].pc # "idle" => saver[i].privacy = session.privacy
       /\ saver[i].pc = "enqueue" => ~session.privacy
  /\ ipc.pc \in {"find", "create"} \/ boot = "create" => ~session.privacy

Recording == RecTypes /\ Calls

LEMMA QuietIs ==
  /\ Quiet \in Saving /\ Quiet.pc = "idle"
  /\ IdleIpc \in Serving /\ IdleIpc.pc = "idle"
  BY CaptureAssumption DEF Quiet, Saving, IdleIpc, Serving

LEMMA RecordingInit == Init => Recording
<1> SUFFICES ASSUME Init PROVE Recording
  OBVIOUS
<1>1. /\ mic \in [state : Resting \cup {"on", "paused", "resumed"},
                  take : 0 .. MaxTakes, next : Nat]
      /\ mic.state = "off"
  BY CaptureAssumption DEF Init, Resting
<1>2. saver \in [Chunk -> Saving] /\ \A i \in Chunk : saver[i].pc = "idle"
  BY QuietIs DEF Init
<1>3. ipc \in Serving /\ ipc.pc = "idle"
  BY QuietIs DEF Init
<1>4. /\ session \in [state : {"NONE", "ACTIVE", "PAUSED", "STOPPED",
                               "CRASHED", "RECOVERED"}, privacy : BOOLEAN]
      /\ session.privacy = FALSE
  BY DEF Init
<1>5. boot = "up" /\ crashes \in 0 .. MaxCrashes
  BY CaptureAssumption DEF Init
<1>6. RecTypes
  BY <1>1, <1>2, <1>3, <1>4, <1>5 DEF RecTypes
<1>7. Calls
  BY <1>1, <1>2, <1>3, <1>4, <1>5 DEF Calls, Asleep
<1> QED
  BY <1>6, <1>7 DEF Recording

(* One saver moves on.                                                     *)
LEMMA SaverMoves ==
  ASSUME Recording, NEW i \in Chunk, NEW x \in Saving, boot = "up",
         saver' = [saver EXCEPT ![i] = x],
         x.pc # "idle" => /\ x.take \in Take
                          /\ x.privacy = session.privacy
                          /\ session.state # "NONE",
         x.pc = "enqueue" => ~x.privacy,
         UNCHANGED <<mic, session, ipc, boot, crashes>>
  PROVE  Recording'
<1>1. saver' \in [Chunk -> Saving] /\ saver'[i] = x
      /\ \A k \in Chunk \ {i} : saver'[k] = saver[k]
  BY DEF Recording, RecTypes
<1>2. RecTypes'
  BY <1>1 DEF Recording, RecTypes
<1>3. Calls'
  BY <1>1 DEF Recording, Calls, Asleep
<1> QED
  BY <1>2, <1>3 DEF Recording

(* One handler moves on.                                                   *)
LEMMA HandlerMoves ==
  ASSUME Recording, NEW x \in Serving, ipc' = x, ipc.pc # "idle",
         x.pc \in {"find", "create"} => ~session.privacy,
         UNCHANGED <<mic, session, saver, boot, crashes>>
  PROVE  Recording'
<1>1. RecTypes'
  BY DEF Recording, RecTypes
<1>2. Calls'
  BY DEF Recording, Calls, Asleep
<1> QED
  BY <1>1, <1>2 DEF Recording

LEMMA SaversStep ==
  ASSUME Recording, NEW i \in Chunk,
         RefuseWrite(i) \/ WriteFile(i) \/ UpsertRow(i) \/ EnqueueLive(i)
  PROVE  Recording'
<1>1. /\ saver[i] \in Saving /\ saver[i].pc # "idle" /\ boot = "up"
      /\ saver[i].take \in Take /\ saver[i].privacy = session.privacy
      /\ session.state # "NONE"
      /\ UNCHANGED <<mic, session, ipc, boot, crashes>>
  <2>1. saver[i].pc # "idle"
        /\ UNCHANGED <<mic, session, ipc, boot, crashes>>
    BY DEF RefuseWrite, WriteFile, UpsertRow, EnqueueLive, boundVars
  <2> QED
    BY <2>1 DEF Recording, RecTypes, Calls, Asleep
<1>2. CASE RefuseWrite(i) \/ EnqueueLive(i)
  BY <1>1, <1>2, QuietIs, SaverMoves DEF RefuseWrite, EnqueueLive
<1>3. CASE WriteFile(i)
  <2> DEFINE x == [saver[i] EXCEPT !.pc = "row"]
  <2>1. x \in Saving /\ x.pc = "row" /\ x.take = saver[i].take
        /\ x.privacy = saver[i].privacy
    BY <1>1 DEF Saving
  <2>2. saver' = [saver EXCEPT ![i] = x]
    BY <1>3 DEF WriteFile
  <2> HIDE DEF x
  <2> QED
    BY <1>1, <2>1, <2>2, SaverMoves
<1>4. CASE UpsertRow(i) /\ saver[i].privacy
  BY <1>1, <1>4, QuietIs, SaverMoves DEF UpsertRow
<1>5. CASE UpsertRow(i) /\ ~saver[i].privacy
  <2> DEFINE x == [saver[i] EXCEPT !.pc = "enqueue"]
  <2>1. x \in Saving /\ x.pc = "enqueue" /\ x.take = saver[i].take
        /\ x.privacy = saver[i].privacy
    BY <1>1 DEF Saving
  <2>2. saver' = [saver EXCEPT ![i] = x]
    BY <1>5 DEF UpsertRow
  <2> HIDE DEF x
  <2> QED
    BY <1>1, <1>5, <2>1, <2>2, SaverMoves
<1> QED
  BY <1>2, <1>3, <1>4, <1>5

LEMMA HandlersStep ==
  ASSUME Recording, Handles
  PROVE  Recording'
<1>1. /\ ipc \in Serving /\ ipc.pc # "idle"
      /\ UNCHANGED <<mic, session, saver, boot, crashes>>
  BY DEF Handles, StartLecture, StopProcessing, Finalize, StopFind,
         StopCreate, Recording, RecTypes, boundVars
<1>2. CASE ipc' = IdleIpc
  BY <1>1, <1>2, QuietIs, HandlerMoves
<1>3. CASE StopProcessing /\ ipc' # IdleIpc
  <2> DEFINE r == {i \in Chunk : row[i] \in {"COMPLETE", "DELETED"}}
  <2>1. ipc' = [pc |-> "finalize", rows |-> r] /\ r \in SUBSET Chunk
    BY <1>3 DEF StopProcessing
  <2> HIDE DEF r
  <2>2. ipc' \in Serving /\ ipc'.pc = "finalize"
    BY <2>1 DEF Serving
  <2> QED
    BY <1>1, <2>2, HandlerMoves
<1>4. CASE Finalize /\ ipc' # IdleIpc
  <2>1. ipc' = [ipc EXCEPT !.pc = "find"] /\ ~session.privacy
    BY <1>4 DEF Finalize
  <2>2. ipc' \in Serving /\ ipc'.pc = "find"
    BY <1>1, <2>1 DEF Serving
  <2> QED
    BY <1>1, <2>1, <2>2, HandlerMoves
<1>5. CASE StopFind /\ ipc' # IdleIpc
  <2>1. ipc' = [ipc EXCEPT !.pc = "create"] /\ ~session.privacy
    BY <1>5 DEF StopFind, Recording, Calls
  <2>2. ipc' \in Serving /\ ipc'.pc = "create"
    BY <1>1, <2>1 DEF Serving
  <2> QED
    BY <1>1, <2>1, <2>2, HandlerMoves
<1> QED
  BY <1>2, <1>3, <1>4, <1>5 DEF Handles, StartLecture, StopCreate

(* The user at the recorder.                                               *)
LEMMA UserStep ==
  ASSUME Recording,
         Start \/ Pause \/ Resume \/ Stop \/ NothingToFlush
         \/ \E i \in Chunk : SendChunk(i)
  PROVE  Recording'
<1> DEFINE Mic == [state : Resting \cup {"on", "paused", "resumed"},
                   take : 0 .. MaxTakes, next : Nat]
           Session == [state : {"NONE", "ACTIVE", "PAUSED", "STOPPED",
                                "CRASHED", "RECOVERED"}, privacy : BOOLEAN]
<1>1. mic \in Mic /\ session \in Session /\ ipc \in Serving
      /\ saver \in [Chunk -> Saving]
  BY DEF Recording, RecTypes
<1>2. CASE Start
  <2>1. PICK wish \in PrivacyChoices :
          session' = [state |-> "ACTIVE",
                      privacy |-> IF session.state = "NONE"
                                  THEN wish ELSE session.privacy]
    BY <1>2 DEF Start
  <2>2. session' \in Session /\ session'.state = "ACTIVE"
        /\ (session.state # "NONE" => session'.privacy = session.privacy)
    BY <1>1, <2>1, CaptureAssumption
  <2>3. mic' \in Mic /\ mic'.state # "off" /\ mic'.take \in Take
    BY <1>1, <1>2, CaptureAssumption DEF Start, Resting, Take
  <2>4. ipc' \in Serving /\ ipc'.pc \in {"idle", "start"}
    BY <1>1, <1>2, QuietIs DEF Start, Serving
  <2>5. boot = "up" /\ UNCHANGED <<saver, boot, crashes>>
    BY <1>2 DEF Start, Up, boundVars
  <2>6. RecTypes'
    BY <2>2, <2>3, <2>4, <2>5 DEF Recording, RecTypes
  <2>7. Calls'
    BY <2>2, <2>4, <2>5 DEF Recording, Calls, Asleep
  <2> QED
    BY <2>6, <2>7 DEF Recording
<1>3. ASSUME NEW i \in Chunk, SendChunk(i)
      PROVE  Recording'
  <2> DEFINE x == [pc |-> "write", take |-> mic.take,
                   privacy |-> session.privacy]
  <2>1. x \in Saving /\ x.pc = "write" /\ x.take \in Take
        /\ x.privacy = session.privacy
    <3>1. mic.take \in Take /\ mic.take \in 0 .. MaxTakes
          /\ session.privacy \in BOOLEAN
      BY <1>1, <1>3 DEF SendChunk, Recording, RecTypes
    <3> QED
      BY <3>1 DEF Saving
  <2>2. mic' \in Mic /\ mic'.take = mic.take
    <3>1. mic' = [mic EXCEPT !.next = mic.next + 1,
                             !.state = IF mic.state = "flush"
                                       THEN "off" ELSE mic.state]
      BY <1>1, <1>3 DEF SendChunk
    <3>2. mic.next + 1 \in Nat
          /\ (IF mic.state = "flush" THEN "off" ELSE mic.state)
               \in Resting \cup {"on", "paused", "resumed"}
      BY <1>1 DEF Resting
    <3> QED
      BY <1>1, <3>1, <3>2
  <2>3. saver' = [saver EXCEPT ![i] = x] /\ boot = "up"
        /\ UNCHANGED <<session, ipc, boot, crashes>>
    BY <1>3 DEF SendChunk, Up, boundVars
  <2>4. session.state # "NONE" /\ mic.take \in Take
    BY <1>3 DEF SendChunk, Recording, RecTypes, Calls, Asleep
  <2> HIDE DEF x
  <2>5. saver' \in [Chunk -> Saving] /\ saver'[i] = x
        /\ \A k \in Chunk \ {i} : saver'[k] = saver[k]
    BY <1>1, <2>1, <2>3
  <2>6. RecTypes'
    BY <2>1, <2>2, <2>3, <2>4, <2>5 DEF Recording, RecTypes
  <2>7. Calls'
    BY <2>1, <2>3, <2>4, <2>5 DEF Recording, Calls, Asleep
  <2> QED
    BY <2>6, <2>7 DEF Recording
<1>4. CASE Pause \/ Resume \/ Stop \/ NothingToFlush
  <2>1. mic' \in Mic /\ mic.state # "off" /\ mic'.take = mic.take
    BY <1>1, <1>4 DEF Pause, Resume, Stop, NothingToFlush, Resting
  <2>2. session' \in Session /\ session'.privacy = session.privacy
        /\ (session'.state = "NONE" => session.state = "NONE")
    BY <1>1, <1>4 DEF Pause, Resume, Stop, NothingToFlush
  <2>3. ipc' \in Serving /\ (ipc'.pc = ipc.pc \/ ipc'.pc = "lecture")
    BY <1>1, <1>4 DEF Pause, Resume, Stop, NothingToFlush, Serving
  <2>4. UNCHANGED <<saver, boot, crashes>>
    BY <1>4 DEF Pause, Resume, Stop, NothingToFlush, boundVars
  <2>5. RecTypes'
    BY <2>1, <2>2, <2>3, <2>4 DEF Recording, RecTypes
  <2>6. boot = "up" /\ session.state # "NONE"
    BY <2>1 DEF Recording, Calls, Asleep
  <2>7. Calls'
    BY <2>2, <2>3, <2>4, <2>6 DEF Recording, Calls, Asleep
  <2> QED
    BY <2>5, <2>7 DEF Recording
<1> QED
  BY <1>2, <1>3, <1>4

(* The app dies, and the steps in which it starts again.                   *)
LEMMA BootStep ==
  ASSUME Recording, Crash \/ Boots
  PROVE  Recording'
<1> DEFINE Mic == [state : Resting \cup {"on", "paused", "resumed"},
                   take : 0 .. MaxTakes, next : Nat]
           Session == [state : {"NONE", "ACTIVE", "PAUSED", "STOPPED",
                                "CRASHED", "RECOVERED"}, privacy : BOOLEAN]
<1>1. mic \in Mic /\ session \in Session /\ crashes \in 0 .. MaxCrashes
  BY DEF Recording, RecTypes
<1>2. CASE Crash
  <2>1. mic' \in Mic /\ mic'.state = "off"
    BY <1>1, <1>2 DEF Crash, Resting
  <2>2. saver' \in [Chunk -> Saving] /\ \A i \in Chunk : saver'[i].pc = "idle"
    BY <1>2, QuietIs DEF Crash
  <2>3. ipc' \in Serving /\ ipc'.pc = "idle" /\ boot' = "down"
        /\ crashes' \in 0 .. MaxCrashes /\ UNCHANGED session
    BY <1>1, <1>2, QuietIs, CaptureAssumption DEF Crash
  <2>4. RecTypes'
    BY <1>1, <2>1, <2>2, <2>3 DEF RecTypes
  <2>5. Calls'
    BY <2>1, <2>2, <2>3 DEF Recording, Calls, Asleep
  <2> QED
    BY <2>4, <2>5 DEF Recording
<1>3. CASE Boots
  <2>1. UNCHANGED <<mic, saver, ipc, crashes>> /\ boot # "up"
        /\ boot' \in {"up", "count", "create", "recovered", "stalled"}
    BY <1>3 DEF Boots, BootMark, BootCount, BootCreate, BootRecovered,
                BootStalled, recVars, boundVars
  <2>2. session' \in Session /\ session'.privacy = session.privacy
        /\ (session'.state = "NONE" => session.state = "NONE")
    BY <1>1, <1>3 DEF Boots, BootMark, BootCount, BootCreate, BootRecovered,
                      BootStalled, recVars
  <2>3. /\ session'.state = "NONE" => boot' \in {"up", "down", "stalled"}
        /\ boot' = "create" => ~session.privacy
    BY <1>1, <1>3 DEF Boots, BootMark, BootCount, BootCreate, BootRecovered,
                      BootStalled, recVars, Recording, Calls
  <2>4. RecTypes'
    BY <2>1, <2>2 DEF Recording, RecTypes
  <2>5. Calls'
    BY <2>1, <2>2, <2>3 DEF Recording, Calls, Asleep
  <2> QED
    BY <2>4, <2>5 DEF Recording
<1> QED
  BY <1>2, <1>3

LEMMA RecordingStep ==
  ASSUME Recording, [Next]_vars
  PROVE  Recording'
<1>1. CASE \/ UNCHANGED vars \/ TranscribeNow \/ LongPause
           \/ \E w \in Poller : Works(w) \/ Abort(w) \/ CleanupError(w)
  <2>1. UNCHANGED <<mic, session, saver, ipc, boot, crashes>>
    BY <1>1 DEF vars, recVars, boundVars, TranscribeNow, LongPause, Works,
                Abort, CleanupError, Claim, ResolveLive, ResolveFull, Convert,
                Persist, CleanupRow, Unlink, MarkReady, Complete
  <2> QED
    BY <2>1 DEF Recording, RecTypes, Calls, Asleep
<1> QED
  BY <1>1, UserStep, SaversStep, HandlersStep, BootStep
  DEF Next, Saves

-----------------------------------------------------------------------------
(* The audio: rows, files, texts.                                          *)

LEMMA AudioInit == Init => AudioTypes
  BY CaptureAssumption DEF Init, AudioTypes, NoPiece

LEMMA AudioStep ==
  ASSUME AudioTypes, Recording, Loops, [Next]_vars
  PROVE  AudioTypes'
<1>1. CASE UNCHANGED <<row, file, transcript, saved, heard>>
  BY <1>1 DEF AudioTypes
<1>2. ASSUME NEW i \in Chunk, WriteFile(i)
      PROVE  AudioTypes'
  <2>1. saver[i].take \in 0 .. MaxTakes
    BY DEF Recording, RecTypes, Saving
  <2> QED
    BY <1>2, <2>1 DEF WriteFile, AudioTypes, textVars
<1>3. ASSUME NEW i \in Chunk, UpsertRow(i)
      PROVE  AudioTypes'
  <2>1. PieceOf(i, saver[i].take) \in Piece
    BY <1>3 DEF UpsertRow, Recording, RecTypes, PieceOf, Piece
  <2> QED
    BY <1>3, <2>1 DEF UpsertRow, AudioTypes, textVars
<1>4. ASSUME NEW w \in Poller, Persist(w)
      PROVE  AudioTypes'
  <2>1. PieceOf(Turn(w), worker[w].take) \in Piece
    BY <1>4, PersistIs, TurnIsTodo DEF Loops, PieceOf, Piece
  <2> DEFINE p == PieceOf(Turn(w), worker[w].take)
  <2>2. /\ transcript' = [transcript EXCEPT ![worker[w].seg] = p]
        /\ heard' = heard \cup {p}
        /\ UNCHANGED <<row, file, saved>>
    BY <1>4 DEF Persist, audioVars
  <2> HIDE DEF p
  <2> QED
    BY <2>1, <2>2 DEF AudioTypes, p
<1>5. ASSUME NEW w \in Poller, CleanupRow(w) \/ Unlink(w)
      PROVE  AudioTypes'
  BY <1>5, CaptureAssumption DEF CleanupRow, Unlink, AudioTypes, textVars
<1>6. CASE \/ Start \/ Pause \/ Resume \/ Stop \/ NothingToFlush
           \/ TranscribeNow \/ Handles \/ Crash \/ LongPause \/ Boots
           \/ UNCHANGED vars
           \/ \E i \in Chunk : SendChunk(i) \/ RefuseWrite(i)
                               \/ EnqueueLive(i)
           \/ \E w \in Poller : \/ Claim(w) \/ ResolveLive(w)
                                \/ ResolveFull(w) \/ Convert(w)
                                \/ MarkReady(w) \/ Complete(w) \/ Abort(w)
                                \/ CleanupError(w)
  BY <1>1, <1>6
  DEF Start, Pause, Resume, Stop, NothingToFlush, TranscribeNow, Handles,
      StartLecture, StopProcessing, Finalize, StopFind, StopCreate, Crash,
      LongPause, Boots, BootMark, BootCount, BootCreate, BootRecovered,
      BootStalled, vars, SendChunk, RefuseWrite, EnqueueLive, Claim,
      ResolveLive, ResolveFull, Convert, MarkReady, Complete, Abort,
      CleanupError, audioVars, textVars
<1> QED
  BY <1>2, <1>3, <1>4, <1>5, <1>6 DEF Next, Saves, Works

(* What holds of any recording, any loops and any number of crashes.       *)
Grounds == Recording /\ AudioTypes /\ Loops

(* Every reachable state of the pipeline is well formed: its variables     *)
(* range where they should, nothing runs while the app is down, and a job  *)
(* that a loop holds is RUNNING and held by no other loop.                 *)
THEOREM CaptureInvariance == Spec => []Grounds
<1>1. Init => Grounds
  BY RecordingInit, AudioInit, LoopsInit DEF Grounds
<1>2. Grounds /\ [Next]_vars => Grounds'
  BY RecordingStep, AudioStep, LoopsStep DEF Grounds
<1> QED
  BY <1>1, <1>2, PTL DEF Spec

-----------------------------------------------------------------------------
(* Privacy.                                                                *)

(* Before the first session nothing but requests of the user can be        *)
(* queued, so a session that is private from its start begins with none.   *)
QuietQueue ==
  session.privacy \/ session.state = "NONE" =>
    \A j \in Job : jobs[j].status # "ABSENT" => jobs[j].payload = ManualPass

LEMMA SessionKept ==
  ASSUME Recording, [Next]_vars
  PROVE  /\ session'.state = "NONE" => session.state = "NONE"
         /\ session'.privacy = session.privacy \/ session.state = "NONE"
<1>1. session \in [state : {"NONE", "ACTIVE", "PAUSED", "STOPPED", "CRASHED",
                            "RECOVERED"}, privacy : BOOLEAN]
  BY DEF Recording, RecTypes
<1>2. CASE Start \/ Pause \/ Resume \/ Stop \/ BootMark \/ BootRecovered
  BY <1>1, <1>2
  DEF Start, Pause, Resume, Stop, BootMark, BootRecovered
<1>3. CASE UNCHANGED session
  BY <1>3
<1>4. CASE \/ NothingToFlush \/ TranscribeNow \/ Handles \/ Crash \/ LongPause
           \/ BootCount \/ BootCreate \/ BootStalled \/ UNCHANGED vars
           \/ \E i \in Chunk : SendChunk(i) \/ RefuseWrite(i) \/ Saves(i)
           \/ \E w \in Poller : Works(w) \/ Abort(w) \/ CleanupError(w)
  BY <1>3, <1>4
  DEF NothingToFlush, TranscribeNow, Handles, StartLecture, StopProcessing,
      Finalize, StopFind, StopCreate, Crash, LongPause, BootCount,
      BootCreate, BootStalled, vars, recVars, SendChunk, RefuseWrite, Saves,
      WriteFile, UpsertRow, EnqueueLive, Works, Claim, ResolveLive,
      ResolveFull, Convert, Persist, CleanupRow, Unlink, MarkReady, Complete,
      Abort, CleanupError
<1> QED
  BY <1>2, <1>4 DEF Next, Boots

LEMMA QuietStep ==
  ASSUME Grounds, QuietQueue, [Next]_vars
  PROVE  QuietQueue'
<1> SUFFICES ASSUME session'.privacy \/ session'.state = "NONE",
                    NEW j \in Job, jobs'[j].status # "ABSENT"
             PROVE  jobs'[j].payload = ManualPass
  BY DEF QuietQueue
<1>1. session.privacy \/ session.state = "NONE"
  BY SessionKept DEF Grounds
<1>2. CASE Keeps
  BY <1>1, <1>2 DEF Keeps, QuietQueue
<1>3. CASE TranscribeNow /\ Created(ManualPass)
  BY <1>1, <1>3 DEF Created, QuietQueue
<1>4. ASSUME NEW i \in Chunk, EnqueueLive(i)
      PROVE  FALSE
  BY <1>1, <1>4 DEF EnqueueLive, Grounds, Recording, Calls, Asleep
<1>5. CASE StopCreate \/ BootCreate
  BY <1>1, <1>5 DEF StopCreate, BootCreate, Grounds, Recording, Calls, Asleep
<1> QED
  BY <1>2, <1>3, <1>4, <1>5, KeepsOrCreates DEF Grounds, Creates

(* In privacy mode the queue holds nothing but what the user asked for,    *)
(* for any number of takes, stops, crashes, errors and loops.              *)
THEOREM PrivacyKept == Spec => []PrivacyQueuesNothing
<1>1. Init => QuietQueue
  BY AbsentRowIs DEF Init, QuietQueue
<1>2. Grounds /\ QuietQueue /\ [Next]_vars => QuietQueue'
  BY QuietStep
<1>3. QuietQueue => PrivacyQueuesNothing
  BY DEF QuietQueue, PrivacyQueuesNothing
<1> QED
  BY <1>1, <1>2, <1>3, CaptureInvariance, PTL DEF Spec

-----------------------------------------------------------------------------
(* Audio and text, in a lecture that is recorded once.                     *)

HeardFirst ==
  /\ AudioGoneOnlyAfterHeard
  /\ UnheardIsFound
  /\ \A i \in Chunk : saver[i].pc = "row"
                        => file[i] # 0 \/ PieceOf(i, 1) \in heard
  /\ \A w \in Poller : worker[w].pc \in {"cleanup", "unlink"}
                         => PieceOf(Turn(w), 1) \in heard

LEMMA OneTake ==
  ASSUME MaxTakes = 1, Grounds
  PROVE  /\ Take = {1}
         /\ \A p \in saved : p = PieceOf(p.chunk, 1)
         /\ \A i \in Chunk : saver[i].pc # "idle" => saver[i].take = 1
         /\ \A w \in Poller : worker[w].pc = "infer" => worker[w].take = 1
<1>1. Take = {1}
  BY DEF Take
<1>2. \A p \in saved : p \in Piece
  BY DEF Grounds, AudioTypes
<1> QED
  BY <1>1, <1>2 DEF Grounds, Recording, RecTypes, Loops, JobTypes, PieceOf,
     Piece

(* The loops leave the todo of all but one of them alone.                  *)
LEMMA TurnKept ==
  ASSUME NEW w \in Poller, worker'[w].todo = worker[w].todo
  PROVE  Turn(w)' = Turn(w)
  BY DEF Turn

LEMMA HeardStep ==
  ASSUME MaxTakes = 1, Grounds, HeardFirst, [Next]_vars
  PROVE  HeardFirst'
<1> USE DEF HeardFirst, AudioGoneOnlyAfterHeard, UnheardIsFound
<1>1. CASE \/ UNCHANGED <<saver, worker, row, file, saved, heard>>
           \/ \E i \in Chunk : SendChunk(i) \/ RefuseWrite(i)
                               \/ EnqueueLive(i)
  <2>1. UNCHANGED <<worker, row, file, saved, heard>>
    BY <1>1 DEF SendChunk, RefuseWrite, EnqueueLive, audioVars, textVars
  <2>2. \A k \in Chunk : saver'[k].pc = "row" => saver[k].pc = "row"
    BY <1>1 DEF SendChunk, RefuseWrite, EnqueueLive, Grounds, Recording,
                RecTypes, Quiet
  <2> QED
    BY <2>1, <2>2, TurnKept
<1>2. ASSUME NEW i \in Chunk, WriteFile(i)
      PROVE  HeardFirst'
  <2>1. /\ file' = [file EXCEPT ![i] = 1] /\ file \in [Chunk -> 0 .. MaxTakes]
        /\ \A k \in Chunk \ {i} : saver'[k] = saver[k]
        /\ UNCHANGED <<worker, row, saved, heard>>
    BY <1>2, OneTake DEF WriteFile, textVars, Grounds, AudioTypes, Recording,
                         RecTypes
  <2>2. \A k \in Chunk : file'[k] = IF k = i THEN 1 ELSE file[k]
    BY <2>1
  <2>3. \A p \in saved : p.chunk \in Chunk
    BY DEF Grounds, AudioTypes, Piece
  <2> QED
    BY <2>1, <2>2, <2>3, TurnKept
<1>3. ASSUME NEW i \in Chunk, UpsertRow(i)
      PROVE  HeardFirst'
  <2>1. /\ saved' = saved \cup {PieceOf(i, 1)}
        /\ row' = [row EXCEPT ![i] = "COMPLETE"]
        /\ \A k \in Chunk : saver'[k].pc = "row" => saver[k].pc = "row"
        /\ UNCHANGED <<worker, file, heard>>
    BY <1>3, OneTake DEF UpsertRow, textVars, Grounds, Recording, RecTypes,
                         Quiet, Saving
  <2>2. file[i] = 0 => PieceOf(i, 1) \in heard
    BY <1>3 DEF UpsertRow
  <2>3. PieceOf(i, 1).chunk = i
    BY DEF PieceOf
  <2>4. \A k \in Chunk : row[k] = "COMPLETE" \/ k = i => row'[k] = "COMPLETE"
    BY <2>1 DEF Grounds, AudioTypes
  <2>5. \A p \in saved : p.chunk \in Chunk
    BY DEF Grounds, AudioTypes, Piece
  <2> QED
    BY <2>1, <2>2, <2>3, <2>4, <2>5, TurnKept
<1>4. ASSUME NEW w \in Poller, Persist(w)
      PROVE  HeardFirst'
  <2>1. heard' = heard \cup {PieceOf(Turn(w), 1)}
        /\ UNCHANGED <<saver, row, file, saved>>
    BY <1>4, OneTake DEF Persist, At, audioVars, recVars
  <2>2. /\ \A v \in Poller \ {w} : worker'[v] = worker[v]
        /\ worker'[w].pc = "cleanup" => worker'[w].todo = worker[w].todo
        /\ worker'[w].pc \in {"cleanup", "chunk"}
    BY <1>4, PersistIs DEF Grounds, Loops, Advanced
  <2> QED
    BY <2>1, <2>2, TurnKept
<1>5. ASSUME NEW w \in Poller, CleanupRow(w) \/ Unlink(w) \/ CleanupError(w)
      PROVE  HeardFirst'
  <2>1. /\ UNCHANGED <<saver, saved, heard>>
        /\ \/ UNCHANGED file
           \/ Unlink(w) /\ file' = [file EXCEPT ![Turn(w)] = 0]
        /\ \/ UNCHANGED row
           \/ CleanupRow(w) /\ row' = [row EXCEPT ![Turn(w)] = "DELETED"]
    BY <1>5 DEF CleanupRow, Unlink, CleanupError, audioVars, textVars, recVars
  <2>2. /\ \A v \in Poller \ {w} : worker'[v] = worker[v]
        /\ worker[w].pc \in {"cleanup", "unlink"}
        /\ worker'[w].pc = "unlink" => worker'[w].todo = worker[w].todo
        /\ worker'[w].pc \in {"unlink", "chunk"}
    BY <1>5, CleanupIs DEF Grounds, Loops, Advanced
  <2>3. \A v \in Poller : worker'[v].pc \in {"cleanup", "unlink"}
                            => PieceOf(Turn(v)', 1) \in heard
    BY <2>2, TurnKept
  <2>4. \A i \in Chunk : i # Turn(w) => file'[i] = file[i] /\ row'[i] = row[i]
    <3>1. /\ row \in [Chunk -> {"NONE", "COMPLETE", "DELETED"}]
          /\ file \in [Chunk -> 0 .. MaxTakes]
      BY DEF Grounds, AudioTypes
    <3> HIDE DEF HeardFirst, AudioGoneOnlyAfterHeard, UnheardIsFound
    <3> QED
      BY <2>1, <3>1
  <2>5. PieceOf(Turn(w), 1) \in heard
    BY <2>2
  <2>6. \A p \in saved : p.chunk \in Chunk /\ p = PieceOf(p.chunk, 1)
    BY OneTake DEF Grounds, AudioTypes, Piece
  <2>7. AudioGoneOnlyAfterHeard' /\ UnheardIsFound'
    BY <2>1, <2>4, <2>5, <2>6
  <2>8. \A i \in Chunk : saver'[i].pc = "row"
                           => file'[i] # 0 \/ PieceOf(i, 1) \in heard
    BY <2>1, <2>4, <2>5
  <2> QED
    BY <2>1, <2>3, <2>7, <2>8
<1>6. ASSUME NEW w \in Poller,
             \/ Claim(w) \/ ResolveLive(w) \/ ResolveFull(w) \/ Convert(w)
             \/ MarkReady(w) \/ Complete(w) \/ Abort(w)
      PROVE  HeardFirst'
  <2>1. UNCHANGED <<saver, row, file, saved, heard>>
    BY <1>6 DEF Claim, ResolveLive, ResolveFull, Convert, MarkReady, Complete,
                Abort, audioVars, textVars, recVars
  <2>2. /\ \A v \in Poller \ {w} : worker'[v] = worker[v]
        /\ worker'[w].pc \notin {"cleanup", "unlink"}
    <3>1. CASE Claim(w)
      <4>1. PICK j \in Job :
              /\ worker'[w] = [Polling EXCEPT !.pc = "begin", !.job = j]
              /\ \A v \in Poller \ {w} : worker'[v] = worker[v]
        BY <3>1, ClaimIs DEF Grounds, Loops
      <4> QED
        BY <4>1 DEF Polling
    <3>2. CASE Released(w)
      BY <3>2, PollingIs DEF Released
    <3>3. CASE Convert(w) \/ MarkReady(w)
      BY <3>3, ConvertIs, MarkReadyIs DEF Grounds, Loops, Advanced
    <3>4. CASE ResolveLive(w) \/ ResolveFull(w)
      BY <3>2, <3>4, ResolveLiveIs, ResolveFullIs
      DEF Grounds, Loops, Advanced
    <3>5. CASE Complete(w) \/ Abort(w)
      BY <3>2, <3>5, EndIs DEF Grounds, Loops
    <3> QED
      BY <1>6, <3>1, <3>3, <3>4, <3>5
  <2> QED
    BY <2>1, <2>2, TurnKept
<1>7. CASE Crash
  <2>1. /\ UNCHANGED <<row, file, saved, heard>>
        /\ \A i \in Chunk : saver'[i].pc = "idle"
        /\ \A w \in Poller : worker'[w].pc = "poll"
    BY <1>7, QuietIs, PollingIs DEF Crash, audioVars, textVars
  <2> QED
    BY <2>1
<1>8. CASE \/ Start \/ Pause \/ Resume \/ Stop \/ NothingToFlush
           \/ TranscribeNow \/ Handles \/ LongPause \/ Boots
           \/ UNCHANGED vars
  BY <1>1, <1>8
  DEF Start, Pause, Resume, Stop, NothingToFlush, TranscribeNow, Handles,
      StartLecture, StopProcessing, Finalize, StopFind, StopCreate,
      LongPause, Boots, BootMark, BootCount, BootCreate, BootRecovered,
      BootStalled, vars, recVars, audioVars, textVars
<1> QED
  BY <1>1, <1>2, <1>3, <1>4, <1>5, <1>6, <1>7, <1>8 DEF Next, Saves, Works

(* In a lecture that is recorded once no audio leaves the disk before the  *)
(* text made of it is written, for any number of chunks, loops, jobs,      *)
(* crashes and errors.                                                     *)
THEOREM AudioKeptUntilHeard ==
  ASSUME MaxTakes = 1
  PROVE  Spec => []AudioGoneOnlyAfterHeard
<1>1. Init => HeardFirst
  BY QuietIs, PollingIs
  DEF Init, HeardFirst, AudioGoneOnlyAfterHeard, UnheardIsFound
<1>2. Grounds /\ HeardFirst /\ [Next]_vars => HeardFirst'
  BY HeardStep
<1>3. HeardFirst => AudioGoneOnlyAfterHeard
  BY DEF HeardFirst
<1> QED
  BY <1>1, <1>2, <1>3, CaptureInvariance, PTL DEF Spec

(* What is saved and not heard in a lecture that is recorded once, a full  *)
(* pass finds: no cleanup, error, retry or crash hides the row of a chunk  *)
(* whose text is missing, so NO_AUDIO means that nothing is.               *)
THEOREM UnheardStaysFound ==
  ASSUME MaxTakes = 1
  PROVE  Spec => []UnheardIsFound
<1>1. Init => HeardFirst
  BY QuietIs, PollingIs
  DEF Init, HeardFirst, AudioGoneOnlyAfterHeard, UnheardIsFound
<1>2. Grounds /\ HeardFirst /\ [Next]_vars => HeardFirst'
  BY HeardStep
<1>3. HeardFirst => UnheardIsFound
  BY DEF HeardFirst
<1> QED
  BY <1>1, <1>2, <1>3, CaptureInvariance, PTL DEF Spec

-----------------------------------------------------------------------------
(* Recovery after a crash.                                                 *)

Passed ==
  \E j \in Job : jobs[j].status # "ABSENT" /\ jobs[j].payload = RecoveryPass

Unsought ==
  \/ boot \in {"count", "create"}
  \/ ~session.privacy => \A i \in Chunk : row[i] # "COMPLETE"

(* From the mark on nothing is recorded, so a session that is CRASHED has  *)
(* no chunk left, has its pass, or is at the step that looks or creates,   *)
(* unless that start was interrupted.                                      *)
Recovering ==
  /\ boot = "recovered" \/ session.state = "RECOVERED" => Passed
  /\ boot \in {"count", "create"} \/ session.state = "CRASHED" => Asleep
  /\ session.state = "CRASHED" /\ ~interrupted => Unsought \/ Passed

(* A pass that is in the table stays there.                                *)
LEMMA PassedStays ==
  ASSUME Grounds, [Next]_vars
  PROVE  /\ Passed => Passed'
         /\ BootCreate => Passed'
<1>1. BootCreate => Passed'
  BY Payloads, CreateCreates
  DEF BootCreate, Created, Passed, Grounds, Loops
<1>2. CASE Keeps
  BY <1>1, <1>2 DEF Keeps, Passed
<1>3. ASSUME NEW p \in Payload, Created(p)
      PROVE  Passed => Passed'
  BY <1>3 DEF Created, Passed
<1> QED
  BY <1>1, <1>2, <1>3, Payloads, KeepsOrCreates DEF Grounds, Creates

LEMMA RecoveringStep ==
  ASSUME Grounds, Recovering, [Next]_vars
  PROVE  Recovering'
<1> USE DEF Recovering, Unsought
<1>0. /\ session.state \in {"NONE", "ACTIVE", "PAUSED", "STOPPED", "CRASHED",
                            "RECOVERED"}
      /\ session = [state |-> session.state, privacy |-> session.privacy]
  BY DEF Grounds, Recording, RecTypes
<1>1. CASE Crash
  <2>1. /\ UNCHANGED <<session, row>> /\ boot' = "down"
        /\ interrupted' = (interrupted \/ boot \in {"count", "create"})
    BY <1>1 DEF Crash, audioVars
  <2>2. Asleep'
    BY <1>1, QuietIs DEF Crash, Asleep, Grounds, Recording, RecTypes
  <2> QED
    BY <2>1, <2>2, PassedStays
<1>2. CASE BootMark
  <2>1. session'.state = "CRASHED"
          => session.state = "CRASHED" \/ boot' = "count"
    BY <1>0, <1>2 DEF BootMark
  <2>2. /\ UNCHANGED <<mic, saver, ipc, row>> /\ boot # "up"
        /\ boot' \in {"count", "stalled"}
        /\ boot' = "stalled" => UNCHANGED <<session, interrupted>>
        /\ session'.state \in {session.state, "CRASHED"}
        /\ boot = "down"
    BY <1>0, <1>2 DEF BootMark, audioVars
  <2>3. Asleep'
    BY <2>2 DEF Grounds, Recording, Calls, Asleep
  <2> QED
    BY <2>1, <2>2, <2>3, PassedStays
<1>3. CASE BootCount
  <2>1. UNCHANGED <<session, row, interrupted>> /\ boot = "count"
    BY <1>3 DEF BootCount, recVars, audioVars, boundVars
  <2>2. Asleep /\ Asleep'
    BY <1>3, <2>1 DEF BootCount, recVars, Asleep
  <2>3. boot' = "recovered" => Passed
    BY <1>3 DEF BootCount, Duplicate, Open, Passed
  <2>4. boot' \in {"create", "recovered"}
        \/ session.privacy \/ \A i \in Chunk : row[i] # "COMPLETE"
    BY <1>3 DEF BootCount
  <2> QED
    BY <2>1, <2>2, <2>3, <2>4, PassedStays
<1>4. CASE BootCreate \/ BootStalled
  <2>1. UNCHANGED <<session, row, interrupted>> /\ (Asleep => Asleep')
        /\ boot' \in {"recovered", "up"}
    BY <1>4 DEF BootCreate, BootStalled, recVars, audioVars, boundVars, Asleep
  <2>2. BootCreate \/ (boot = "stalled" /\ boot' = "up")
    BY <1>4 DEF BootStalled
  <2> QED
    BY <2>1, <2>2, PassedStays
<1>5. CASE BootRecovered
  <2>1. session'.state = "RECOVERED" /\ boot = "recovered"
        /\ boot' = "stalled"
    BY <1>0, <1>5 DEF BootRecovered
  <2> QED
    BY <2>1, PassedStays
<1>6. CASE Start
  <2>1. session'.state = "ACTIVE" /\ boot = "up" /\ boot' = "up"
    BY <1>6 DEF Start, Up
  <2> QED
    BY <2>1
<1>7. CASE \/ Pause \/ Resume \/ Stop \/ NothingToFlush \/ Handles
           \/ \E i \in Chunk : SendChunk(i) \/ RefuseWrite(i) \/ Saves(i)
  <2>1. ~Asleep /\ UNCHANGED boot
    BY <1>7 DEF Pause, Resume, Stop, NothingToFlush, Handles, StartLecture,
                StopProcessing, Finalize, StopFind, StopCreate, SendChunk,
                RefuseWrite, Saves, WriteFile, UpsertRow, EnqueueLive, Asleep
  <2>2. session.state # "CRASHED" /\ boot = "up"
    BY <2>1 DEF Grounds, Recording, Calls
  <2>3. session'.state # "CRASHED"
        /\ (session'.state = "RECOVERED" => session.state = "RECOVERED")
    BY <1>0, <1>7, <2>2
    DEF Pause, Resume, Stop, NothingToFlush, Handles, StartLecture,
        StopProcessing, Finalize, StopFind, StopCreate, SendChunk,
        RefuseWrite, Saves, WriteFile, UpsertRow, EnqueueLive
  <2> QED
    BY <2>1, <2>2, <2>3, PassedStays
<1>8. ASSUME NEW w \in Poller, Works(w) \/ Abort(w) \/ CleanupError(w)
      PROVE  Recovering'
  <2>1. UNCHANGED <<mic, session, saver, ipc, boot, interrupted>>
    BY <1>8 DEF Works, Abort, CleanupError, Claim, ResolveLive, ResolveFull,
                Convert, Persist, CleanupRow, Unlink, MarkReady, Complete,
                recVars, boundVars
  <2>2. \A i \in Chunk : row'[i] = "COMPLETE" => row[i] = "COMPLETE"
    BY <1>8 DEF Works, Abort, CleanupError, Claim, ResolveLive, ResolveFull,
                Convert, Persist, CleanupRow, Unlink, MarkReady, Complete,
                audioVars, Grounds, AudioTypes
  <2> QED
    BY <2>1, <2>2, PassedStays DEF Asleep
<1>9. CASE TranscribeNow \/ LongPause \/ UNCHANGED vars
  <2>1. UNCHANGED <<mic, session, saver, ipc, boot, interrupted, row>>
    BY <1>9 DEF TranscribeNow, LongPause, vars, recVars, audioVars, boundVars
  <2> QED
    BY <2>1, PassedStays DEF Asleep
<1> QED
  BY <1>1, <1>2, <1>3, <1>4, <1>5, <1>6, <1>7, <1>8, <1>9 DEF Next, Boots

(* Whatever number of crashes, stops and takes, a session that is not      *)
(* private and still has chunks when the app is up after a crash has a     *)
(* recovery pass in the table, unless the start that marked it CRASHED did *)
(* not come as far as the create.                                          *)
THEOREM CrashRecovered == Spec => []CrashedSessionsRecovered
<1>1. Init => Recovering
  BY DEF Init, Recovering
<1>2. Grounds /\ Recovering /\ [Next]_vars => Recovering'
  BY RecoveringStep
<1>3. Recovering => CrashedSessionsRecovered
  BY DEF Recovering, Unsought, Passed, CrashedSessionsRecovered, Up
<1> QED
  BY <1>1, <1>2, <1>3, CaptureInvariance, PTL DEF Spec

-----------------------------------------------------------------------------
(* A pass over a private recording.                                        *)

(* The chunks of a pass lie in order: how many are done is the place of    *)
(* the next one, no earlier one has that place, and it is a place.         *)
LEMMA NextPlace ==
  ASSUME NEW P \in SUBSET Chunk, NEW T \in SUBSET P, T # {},
         \A i \in P \ T, k \in T : i < k
  PROVE  /\ Min(T) \in T
         /\ Cardinality(P \ T) \in Chunk
         /\ P \ (T \ {Min(T)}) = (P \ T) \cup {Min(T)}
         /\ Cardinality(P \ (T \ {Min(T)})) = Cardinality(P \ T) + 1
         /\ \A i \in P \ (T \ {Min(T)}), k \in T \ {Min(T)} : i < k
         /\ P \ T = {k \in P : k < Min(T)}
         /\ \A i \in P \ T :
              Cardinality({k \in P : k < i}) # Cardinality(P \ T)
<1> DEFINE m == Min(T)
           D == P \ T
<1>1. Chunk \subseteq Nat /\ IsFiniteSet(Chunk) /\ Cardinality(Chunk) = NChunks
  <2>1. /\ 0 \in Int /\ NChunks - 1 \in Int /\ ~(0 > NChunks - 1)
        /\ Chunk \subseteq Nat
    BY CaptureAssumption DEF Chunk
  <2>2. IsFiniteSet(0 .. NChunks - 1)
        /\ Cardinality(0 .. NChunks - 1) = NChunks - 1 - 0 + 1
    BY <2>1, FS_Interval
  <2> QED
    BY <2>1, <2>2, CaptureAssumption DEF Chunk
<1>2. m \in T /\ \A k \in T : m <= k
  <2>1. T \in SUBSET Nat
    BY <1>1
  <2> QED
    BY <2>1, Smallest
<1> HIDE DEF m
<1>3. P \subseteq Nat /\ m \in Nat /\ m \in Chunk
  BY <1>1, <1>2
<1>4. D = {k \in P : k < m}
  <2>1. \A k \in D : k < m
    BY <1>2
  <2>2. \A k \in T : ~(k < m)
    BY <1>2, <1>3
  <2> QED
    BY <2>1, <2>2
<1>5. P \ (T \ {m}) = D \cup {m} /\ m \notin D
  BY <1>2
<1>6. IsFiniteSet(D) /\ Cardinality(D) \in Nat
  BY <1>1, FS_Subset, FS_CardinalityType
<1>7. Cardinality(D \cup {m}) = Cardinality(D) + 1
  BY <1>5, <1>6, FS_AddElement
<1>8. Cardinality(D) \in Chunk
  <2>1. D \cup {m} \in SUBSET Chunk
    BY <1>3
  <2>2. Cardinality(D \cup {m}) <= NChunks
    BY <2>1, <1>1, FS_Subset
  <2> QED
    BY <2>2, <1>6, <1>7, CaptureAssumption DEF Chunk
<1>9. ASSUME NEW i \in D
      PROVE  Cardinality({k \in P : k < i}) # Cardinality(D)
  <2> DEFINE E == {k \in P : k < i}
  <2>1. i \in P /\ i < m
    BY <1>4
  <2>2. E \in SUBSET D /\ i \notin E
    <3>1. \A k \in P : k < i => k < m
      BY <2>1, <1>3
    <3>2. ~(i < i)
      BY <2>1, <1>3
    <3> HIDE DEF D
    <3> QED
      BY <1>4, <3>1, <3>2
  <2>3. E # D
    BY <2>2, <1>9
  <2> HIDE DEF E, D
  <2>4. Cardinality(E) # Cardinality(D)
    BY <2>2, <2>3, <1>6, FS_Subset
  <2> QED
    BY <2>4 DEF E
<1>10. \A i \in P \ (T \ {m}), k \in T \ {m} : i < k
  <2>1. \A k \in T \ {m} : m < k
    BY <1>2, <1>3
  <2> QED
    BY <1>5, <2>1
<1> QED
  BY <1>2, <1>4, <1>5, <1>7, <1>8, <1>9, <1>10 DEF m

(* The deduplication of transcribeNow: one open request at most.           *)
OneRequest ==
  \A j, k \in Job :
    /\ jobs[j].status \in Open /\ jobs[j].payload = ManualPass
    /\ jobs[k].status \in Open /\ jobs[k].payload = ManualPass
    => j = k

LEMMA OneRequestStep ==
  ASSUME Grounds, OneRequest, [Next]_vars
  PROVE  OneRequest'
<1>1. CASE Keeps
  BY <1>1 DEF Keeps, OneRequest
<1>2. CASE TranscribeNow /\ Created(ManualPass)
  <2>1. \A j \in Job :
          ~(jobs[j].status \in Open /\ jobs[j].payload = ManualPass)
    BY <1>2 DEF TranscribeNow, Duplicate
  <2> QED
    BY <1>2, <2>1 DEF Created, OneRequest
<1>3. ASSUME NEW p \in Payload, p # ManualPass, Created(p)
      PROVE  OneRequest'
  BY <1>3 DEF Created, OneRequest
<1>4. /\ \A i \in Chunk : Live(i) \in Payload /\ Live(i) # ManualPass
      /\ StopPass \in Payload /\ StopPass # ManualPass
      /\ RecoveryPass \in Payload /\ RecoveryPass # ManualPass
  BY Payloads
<1> QED
  BY <1>1, <1>2, <1>3, <1>4, KeepsOrCreates DEF Grounds, Creates

(* A session that is private, or not there yet.                            *)
Private == session.privacy \/ session.state = "NONE"

(* The loops of such a session: only requests of the user are RUNNING, so  *)
(* one loop works at most, and it never removes audio.                     *)
LEMMA OneWorks ==
  ASSUME Grounds, QuietQueue, OneRequest, Private
  PROVE  /\ \A v, w \in Poller : Busy(v) /\ Busy(w) => v = w
         /\ \A w \in Poller : Busy(w) => ~IsLive(w)
<1>1. \A w \in Poller : Busy(w) =>
        /\ worker[w].job \in Job
        /\ jobs[worker[w].job].status = "RUNNING"
        /\ jobs[worker[w].job].payload = ManualPass
  BY DEF Grounds, Loops, JobTypes, Held, Busy, QuietQueue, Private
<1>2. \A v, w \in Poller : Busy(v) /\ Busy(w) =>
        worker[v].job = worker[w].job
  BY <1>1 DEF OneRequest, Open
<1> QED
  BY <1>1, <1>2, Payloads DEF Grounds, Loops, Held, IsLive, Current

Done(w) == worker[w].plan \ worker[w].todo

(* How far the pass of a loop is.                                          *)
PassAt(w) ==
  /\ worker[w].pc \in {"chunk", "infer", "complete"}
  /\ worker[w].todo \subseteq worker[w].plan
  /\ \A i \in worker[w].plan : file[i] # 0
  /\ \A i \in Done(w), k \in worker[w].todo : i < k
  /\ worker[w].seg = Cardinality(Done(w))
  /\ \A i \in Done(w) :
       transcript[Cardinality({k \in worker[w].plan : k < i})] = PieceOf(i, 1)
  /\ worker[w].pc = "complete" => worker[w].todo = {}

Fresh(w) == worker[w].pc \in {"poll", "begin"}

PrivateFiles ==
  /\ session.state = "NONE" => \A i \in Chunk : row[i] = "NONE"
  /\ Private =>
       \A i \in Chunk : row[i] = "COMPLETE" \/ saver[i].pc = "row"
                          => file[i] # 0

PrivatePasses ==
  /\ \A w \in Poller : Fresh(w) => worker[w].seg = 0
  /\ Private => \A w \in Poller : Fresh(w) \/ PassAt(w)

PrivateAll == QuietQueue /\ OneRequest /\ PrivateFiles /\ PrivatePasses

LEMMA PrivateBefore ==
  ASSUME Grounds, [Next]_vars, Private'
  PROVE  Private
  BY SessionKept DEF Grounds, Private

LEMMA PrivateFilesStep ==
  ASSUME MaxTakes = 1, Grounds, PrivateAll, [Next]_vars
  PROVE  PrivateFiles'
<1>0. /\ row \in [Chunk -> {"NONE", "COMPLETE", "DELETED"}]
      /\ file \in [Chunk -> 0 .. MaxTakes]
      /\ saver \in [Chunk -> Saving]
      /\ session'.state = "NONE" => session.state = "NONE"
  BY SessionKept DEF Grounds, AudioTypes, Recording, RecTypes
<1>1. CASE UNCHANGED <<row, file, saver>>
  BY <1>0, <1>1, PrivateBefore DEF PrivateFiles, PrivateAll
<1>2. ASSUME NEW i \in Chunk,
             SendChunk(i) \/ RefuseWrite(i) \/ EnqueueLive(i)
      PROVE  PrivateFiles'
  <2>1. UNCHANGED <<row, file>>
        /\ \A k \in Chunk : saver'[k].pc = "row" => saver[k].pc = "row"
    BY <1>0, <1>2, QuietIs DEF SendChunk, RefuseWrite, EnqueueLive, audioVars
  <2> QED
    BY <1>0, <2>1, PrivateBefore DEF PrivateFiles, PrivateAll
<1>3. ASSUME NEW i \in Chunk, WriteFile(i)
      PROVE  PrivateFiles'
  <2>1. file' = [file EXCEPT ![i] = 1] /\ UNCHANGED row
        /\ \A k \in Chunk \ {i} : saver'[k] = saver[k]
    BY <1>0, <1>3, OneTake DEF WriteFile
  <2>2. \A k \in Chunk : file'[k] = IF k = i THEN 1 ELSE file[k]
    BY <1>0, <2>1
  <2> QED
    BY <1>0, <2>1, <2>2, PrivateBefore DEF PrivateFiles, PrivateAll
<1>4. ASSUME NEW i \in Chunk, UpsertRow(i)
      PROVE  PrivateFiles'
  <2>1. /\ row' = [row EXCEPT ![i] = "COMPLETE"] /\ UNCHANGED file
        /\ \A k \in Chunk : saver'[k].pc = "row" => saver[k].pc = "row"
        /\ saver[i].pc = "row"
    BY <1>0, <1>4, QuietIs DEF UpsertRow, Saving
  <2>2. session.state # "NONE"
    BY <2>1 DEF Grounds, Recording, Calls, Asleep
  <2>3. \A k \in Chunk : row'[k] = IF k = i THEN "COMPLETE" ELSE row[k]
    BY <1>0, <2>1
  <2> QED
    BY <1>0, <2>1, <2>2, <2>3, PrivateBefore DEF PrivateFiles, PrivateAll
<1>5. ASSUME NEW w \in Poller, CleanupRow(w) \/ Unlink(w)
      PROVE  PrivateFiles'
  <2>1. worker[w].pc \in {"cleanup", "unlink"}
    BY <1>5 DEF CleanupRow, Unlink, At
  <2>2. ~Private
    BY <2>1 DEF PrivateAll, PrivatePasses, Fresh, PassAt
  <2>3. ~Private' /\ session'.state # "NONE"
    BY <2>2, PrivateBefore DEF Private
  <2> QED
    BY <2>3 DEF PrivateFiles
<1>6. CASE Crash
  BY <1>0, <1>6, QuietIs, PrivateBefore
  DEF Crash, audioVars, PrivateFiles, PrivateAll
<1>7. CASE \/ Start \/ Pause \/ Resume \/ Stop \/ NothingToFlush
           \/ TranscribeNow \/ Handles \/ LongPause \/ Boots
           \/ UNCHANGED vars
           \/ \E w \in Poller : \/ Claim(w) \/ ResolveLive(w)
                                \/ ResolveFull(w) \/ Convert(w) \/ Persist(w)
                                \/ MarkReady(w) \/ Complete(w) \/ Abort(w)
                                \/ CleanupError(w)
  BY <1>1, <1>7
  DEF Start, Pause, Resume, Stop, NothingToFlush, TranscribeNow, Handles,
      StartLecture, StopProcessing, Finalize, StopFind, StopCreate,
      LongPause, Boots, BootMark, BootCount, BootCreate, BootRecovered,
      BootStalled, vars, Claim, ResolveLive, ResolveFull, Convert, Persist,
      MarkReady, Complete, Abort, CleanupError, audioVars, recVars
<1> QED
  BY <1>2, <1>3, <1>4, <1>5, <1>6, <1>7 DEF Next, Saves, Works

(* The pass of a loop that does not move is not disturbed: no audio goes,  *)
(* and only the loop that moves writes text.                               *)
LEMMA PassUndisturbed ==
  ASSUME NEW w \in Poller, PassAt(w), worker'[w] = worker[w],
         \A i \in Chunk : file[i] # 0 => file'[i] # 0,
         worker[w].plan \subseteq Chunk, UNCHANGED transcript
  PROVE  PassAt(w)'
  BY DEF PassAt, Done

(* The pass writes the next chunk at the next place.                       *)
LEMMA PassWrites ==
  ASSUME MaxTakes = 1, Grounds, NEW w \in Poller, PassAt(w), ~IsLive(w),
         Persist(w)
  PROVE  PassAt(w)'
<1> DEFINE P == worker[w].plan
           T == worker[w].todo
           m == Turn(w)
           s == worker[w].seg
<1>1. P \in SUBSET Chunk /\ T \in SUBSET P /\ T # {}
  <2>1. worker[w].plan \in SUBSET Chunk
    BY DEF Grounds, Loops, JobTypes, Working
  <2> QED
    BY <2>1, PersistIs DEF Grounds, Loops, PassAt
<1>2. \A i \in P \ T, k \in T : i < k
  BY DEF PassAt, Done
<1>3. m = Min(T)
  BY DEF Turn
<1>4. /\ m \in T /\ s \in Chunk
      /\ P \ (T \ {m}) = (P \ T) \cup {m}
      /\ Cardinality(P \ (T \ {m})) = s + 1
      /\ \A i \in P \ (T \ {m}), k \in T \ {m} : i < k
      /\ s = Cardinality({k \in P : k < m})
      /\ \A i \in P \ T : Cardinality({k \in P : k < i}) # s
  <2>1. s = Cardinality(P \ T)
    BY DEF PassAt, Done
  <2> HIDE DEF P, T, m, s
  <2>2. /\ Min(T) \in T
        /\ Cardinality(P \ T) \in Chunk
        /\ P \ (T \ {Min(T)}) = (P \ T) \cup {Min(T)}
        /\ Cardinality(P \ (T \ {Min(T)})) = Cardinality(P \ T) + 1
        /\ \A i \in P \ (T \ {Min(T)}), k \in T \ {Min(T)} : i < k
        /\ P \ T = {k \in P : k < Min(T)}
        /\ \A i \in P \ T :
             Cardinality({k \in P : k < i}) # Cardinality(P \ T)
    BY <1>1, <1>2, NextPlace
  <2>3. Cardinality({k \in P : k < m}) = Cardinality(P \ T)
    BY <1>3, <2>2
  <2>4. /\ m \in T /\ s \in Chunk
        /\ P \ (T \ {m}) = (P \ T) \cup {m}
        /\ Cardinality(P \ (T \ {m})) = s + 1
        /\ \A i \in P \ (T \ {m}), k \in T \ {m} : i < k
    BY <1>3, <2>1, <2>2
  <2>5. \A i \in P \ T : Cardinality({k \in P : k < i}) # s
    BY <2>1, <2>2
  <2> QED
    BY <2>1, <2>3, <2>4, <2>5
<1>5. /\ worker'[w].pc = "chunk" /\ worker'[w].plan = P
      /\ worker'[w].todo = T \ {m} /\ worker'[w].seg = s + 1
  BY PersistIs DEF Grounds, Loops, Rest
<1>6. /\ transcript' = [transcript EXCEPT ![s] = PieceOf(m, 1)]
      /\ UNCHANGED file
  <2>1. worker[w].take = 1
    BY OneTake DEF Persist, At
  <2> QED
    BY <2>1 DEF Persist, audioVars
<1>7. /\ transcript'[s] = PieceOf(m, 1)
      /\ \A k : k # s => transcript'[k] = transcript[k]
  BY <1>4, <1>6 DEF Grounds, AudioTypes
<1>8. \A i \in P \ T :
        transcript[Cardinality({k \in P : k < i})] = PieceOf(i, 1)
  BY DEF PassAt, Done
<1>9. \A i \in P : file[i] # 0
  BY DEF PassAt
<1>10. \A i \in P \ (T \ {m}) :
         transcript'[Cardinality({k \in P : k < i})] = PieceOf(i, 1)
  <2> SUFFICES ASSUME NEW i \in P \ (T \ {m})
               PROVE  transcript'[Cardinality({k \in P : k < i})]
                        = PieceOf(i, 1)
    OBVIOUS
  <2>1. CASE i = m
    BY <2>1, <1>4, <1>7
  <2>2. CASE i \in P \ T
    BY <2>2, <1>4, <1>7, <1>8
  <2> QED
    BY <2>1, <2>2
<1> HIDE DEF P, T, m, s
<1> QED
  BY <1>1, <1>4, <1>5, <1>6, <1>9, <1>10 DEF PassAt, Done

LEMMA PassStarts ==
  ASSUME Grounds, PrivateFiles, Private, NEW w \in Poller,
         worker[w].seg = 0, Advanced(w), ResolveFull(w),
         worker'[w].pc = "chunk",
         worker'[w].plan = {i \in Chunk : row[i] = "COMPLETE"},
         worker'[w].todo = worker'[w].plan, worker'[w].seg = worker[w].seg
  PROVE  PassAt(w)'
<1>1. UNCHANGED <<file, transcript>>
  BY DEF ResolveFull, audioVars, textVars
<1>2. \A i \in worker'[w].plan : file'[i] # 0
  BY <1>1 DEF PrivateFiles
<1>3. worker'[w].plan \ worker'[w].todo = {}
  OBVIOUS
<1>4. Cardinality({}) = 0
  BY FS_EmptySet
<1> QED
  BY <1>2, <1>3, <1>4 DEF PassAt, Done

LEMMA PassesStep ==
  ASSUME MaxTakes = 1, Grounds, PrivateAll, [Next]_vars
  PROVE  PrivatePasses'
<1> DEFINE Seg0 == \A w \in Poller : Fresh(w) => worker[w].seg = 0
           Alive == \A w \in Poller : Fresh(w) \/ PassAt(w)
<1>0. \A w \in Poller : worker[w].plan \subseteq Chunk
  BY DEF Grounds, Loops, JobTypes, Working
<1>1. ASSUME UNCHANGED <<worker, transcript>>,
             \A i \in Chunk : file[i] # 0 => file'[i] # 0
      PROVE  PrivatePasses'
  BY <1>0, <1>1, PassUndisturbed, PrivateBefore
  DEF PrivatePasses, PrivateAll, Fresh
<1>2. ASSUME NEW w \in Poller, Fresh(w)' => worker'[w].seg = 0,
             Private /\ Private' => Fresh(w)' \/ PassAt(w)',
             \A v \in Poller \ {w} : worker'[v] = worker[v],
             UNCHANGED file,
             Private => UNCHANGED transcript
                        \/ \A v \in Poller \ {w} : Fresh(v)
      PROVE  PrivatePasses'
  <2>1. Seg0'
    BY <1>2 DEF PrivatePasses, PrivateAll, Fresh
  <2>2. ASSUME Private', NEW v \in Poller \ {w}
        PROVE  Fresh(v)' \/ PassAt(v)'
    <3>1. Private
      BY <2>2, PrivateBefore
    <3>2. CASE Fresh(v)
      BY <1>2, <2>2, <3>2 DEF Fresh
    <3>3. CASE ~Fresh(v)
      <4>1. PassAt(v) /\ UNCHANGED transcript
        BY <1>2, <3>1, <3>3 DEF PrivateAll, PrivatePasses
      <4> QED
        BY <1>0, <1>2, <2>2, <4>1, PassUndisturbed
    <3> QED
      BY <3>2, <3>3
  <2> QED
    BY <1>2, <2>1, <2>2, PrivateBefore DEF PrivatePasses
<1>3. ASSUME NEW w \in Poller, Released(w), UNCHANGED <<file, transcript>>
      PROVE  PrivatePasses'
  <2>1. Fresh(w)' /\ worker'[w].seg = 0
        /\ \A v \in Poller \ {w} : worker'[v] = worker[v]
    BY <1>3 DEF Released, Polling, Fresh
  <2> QED
    BY <1>2, <1>3, <2>1
<1>4. ASSUME NEW w \in Poller, Claim(w)
      PROVE  PrivatePasses'
  <2>1. PICK j \in Job :
          /\ worker'[w] = [Polling EXCEPT !.pc = "begin", !.job = j]
          /\ \A v \in Poller \ {w} : worker'[v] = worker[v]
    BY <1>4, ClaimIs DEF Grounds, Loops
  <2>2. Fresh(w)' /\ worker'[w].seg = 0
    BY <2>1 DEF Polling, Fresh
  <2>3. UNCHANGED <<file, transcript>>
    BY <1>4 DEF Claim, audioVars, textVars
  <2> QED
    BY <1>2, <2>1, <2>2, <2>3
<1>5. ASSUME NEW w \in Poller, ResolveLive(w)
      PROVE  PrivatePasses'
  <2>1. UNCHANGED <<file, transcript>> /\ Busy(w) /\ IsLive(w)
    BY <1>5 DEF ResolveLive, audioVars, textVars, At, Busy
  <2>2. ~Private
    BY <2>1, OneWorks DEF PrivateAll
  <2>3. CASE /\ Advanced(w) /\ worker'[w].pc = "chunk"
    <3>1. ~Fresh(w)' /\ \A v \in Poller \ {w} : worker'[v] = worker[v]
      BY <2>3 DEF Advanced, Fresh
    <3> QED
      BY <1>2, <2>1, <2>2, <3>1
  <2> QED
    BY <1>3, <1>5, <2>1, <2>3, ResolveLiveIs DEF Grounds, Loops
<1>6. ASSUME NEW w \in Poller, ResolveFull(w)
      PROVE  PrivatePasses'
  <2>1. UNCHANGED <<file, transcript>>
    BY <1>6 DEF ResolveFull, audioVars, textVars
  <2>2. CASE /\ Advanced(w) /\ worker'[w].pc = "chunk"
             /\ worker'[w].plan = {i \in Chunk : row[i] = "COMPLETE"}
             /\ worker'[w].todo = worker'[w].plan
             /\ worker'[w].seg = worker[w].seg /\ worker[w].pc = "begin"
    <3>1. ~Fresh(w)' /\ \A v \in Poller \ {w} : worker'[v] = worker[v]
      BY <2>2 DEF Advanced, Fresh
    <3>2. worker[w].seg = 0
      BY <2>2 DEF PrivateAll, PrivatePasses, Fresh
    <3>3. Private => PassAt(w)'
      BY <1>6, <2>2, <3>2, PassStarts DEF PrivateAll
    <3> QED
      BY <1>2, <2>1, <3>1, <3>3
  <2> QED
    BY <1>3, <1>6, <2>1, <2>2, ResolveFullIs DEF Grounds, Loops
<1>7. ASSUME NEW w \in Poller, Convert(w)
      PROVE  PrivatePasses'
  <2>1. UNCHANGED <<file, transcript>> /\ Advanced(w)
    BY <1>7, ConvertIs DEF Convert, audioVars, textVars, Grounds, Loops
  <2>2. /\ worker[w].pc = "chunk" /\ worker[w].todo # {}
        /\ worker'[w].plan = worker[w].plan /\ worker'[w].seg = worker[w].seg
        /\ worker'[w].pc \in {"chunk", "infer"}
        /\ file[Turn(w)] # 0 => worker'[w].todo = worker[w].todo
    BY <1>7, ConvertIs DEF Grounds, Loops
  <2>3. ASSUME Private
        PROVE  PassAt(w)'
    <3>1. PassAt(w)
      BY <2>2, <2>3 DEF PrivateAll, PrivatePasses, Fresh
    <3>2. Turn(w) \in worker[w].todo
      BY <2>2, TurnIsTodo DEF Grounds, Loops
    <3>3. worker'[w].todo = worker[w].todo
      BY <2>2, <3>1, <3>2 DEF PassAt
    <3> QED
      BY <2>1, <2>2, <3>1, <3>3 DEF PassAt, Done
  <2>4. ~Fresh(w)' /\ \A v \in Poller \ {w} : worker'[v] = worker[v]
    BY <2>1, <2>2 DEF Advanced, Fresh
  <2> QED
    BY <1>2, <2>1, <2>3, <2>4
<1>8. ASSUME NEW w \in Poller, Persist(w)
      PROVE  PrivatePasses'
  <2>1. UNCHANGED file /\ Advanced(w) /\ worker[w].pc = "infer"
        /\ worker'[w].pc \in {"cleanup", "chunk"}
    BY <1>8, PersistIs DEF Persist, audioVars, Grounds, Loops
  <2>2. ASSUME Private
        PROVE  PassAt(w)' /\ \A v \in Poller \ {w} : Fresh(v)
    <3>1. PassAt(w) /\ Busy(w)
      BY <2>1, <2>2 DEF PrivateAll, PrivatePasses, Fresh, Busy
    <3>2. ~IsLive(w) /\ \A v \in Poller \ {w} : ~Busy(v)
      BY <2>2, <3>1, OneWorks DEF PrivateAll
    <3> QED
      BY <1>8, <3>1, <3>2, PassWrites DEF Busy, Fresh
  <2>3. ~Fresh(w)' /\ \A v \in Poller \ {w} : worker'[v] = worker[v]
    BY <2>1 DEF Advanced, Fresh
  <2> QED
    BY <1>2, <2>1, <2>2, <2>3
<1>9. ASSUME NEW w \in Poller, CleanupRow(w) \/ Unlink(w) \/ CleanupError(w)
      PROVE  PrivatePasses'
  <2>1. worker[w].pc \in {"cleanup", "unlink"} /\ Advanced(w)
        /\ worker'[w].pc \in {"unlink", "chunk"}
    BY <1>9, CleanupIs DEF Grounds, Loops
  <2>2. ~Private'
    BY <2>1, PrivateBefore DEF PrivateAll, PrivatePasses, Fresh, PassAt
  <2> QED
    BY <2>1, <2>2 DEF PrivatePasses, PrivateAll, Advanced, Fresh
<1>10. ASSUME NEW w \in Poller, MarkReady(w)
       PROVE  PrivatePasses'
  <2>1. UNCHANGED <<file, transcript>> /\ Advanced(w)
    BY <1>10, MarkReadyIs DEF MarkReady, audioVars, textVars, Grounds, Loops
  <2>2. /\ worker[w].pc = "chunk" /\ worker[w].todo = {}
        /\ worker'[w].plan = worker[w].plan /\ worker'[w].seg = worker[w].seg
        /\ worker'[w].pc = "complete" /\ worker'[w].todo = worker[w].todo
    BY <1>10, MarkReadyIs DEF Grounds, Loops
  <2>3. Private => PassAt(w)
    BY <2>2 DEF PrivateAll, PrivatePasses, Fresh
  <2>4. Private => PassAt(w)'
    BY <2>1, <2>2, <2>3 DEF PassAt, Done
  <2>5. ~Fresh(w)' /\ \A v \in Poller \ {w} : worker'[v] = worker[v]
    BY <2>1, <2>2 DEF Advanced, Fresh
  <2> QED
    BY <1>2, <2>1, <2>4, <2>5
<1>11. ASSUME NEW w \in Poller, Complete(w) \/ Abort(w)
       PROVE  PrivatePasses'
  <2>1. UNCHANGED <<file, transcript>>
    BY <1>11 DEF Complete, Abort, audioVars, textVars
  <2> QED
    BY <1>3, <1>11, <2>1, EndIs DEF Grounds, Loops
<1>12. ASSUME NEW i \in Chunk, WriteFile(i)
       PROVE  PrivatePasses'
  <2>1. file' = [file EXCEPT ![i] = 1] /\ UNCHANGED <<worker, transcript>>
    BY <1>12, OneTake DEF WriteFile, textVars
  <2>2. \A k \in Chunk : file[k] # 0 => file'[k] # 0
    BY <2>1 DEF Grounds, AudioTypes
  <2> QED
    BY <1>1, <2>1, <2>2
<1>13. CASE Crash
  <2>1. \A w \in Poller : worker'[w] = Polling
    BY <1>13 DEF Crash
  <2> QED
    BY <2>1 DEF PrivatePasses, Fresh, Polling
<1>14. CASE \/ Start \/ Pause \/ Resume \/ Stop \/ NothingToFlush
            \/ TranscribeNow \/ Handles \/ LongPause \/ Boots
            \/ UNCHANGED vars
            \/ \E i \in Chunk : SendChunk(i) \/ RefuseWrite(i) \/ UpsertRow(i)
                                \/ EnqueueLive(i)
  <2>1. UNCHANGED <<file, worker, transcript>>
    BY <1>14
    DEF Start, Pause, Resume, Stop, NothingToFlush, TranscribeNow, Handles,
        StartLecture, StopProcessing, Finalize, StopFind, StopCreate,
        LongPause, Boots, BootMark, BootCount, BootCreate, BootRecovered,
        BootStalled, vars, SendChunk, RefuseWrite, UpsertRow, EnqueueLive,
        audioVars, textVars
  <2> QED
    BY <1>1, <2>1
<1> QED
  BY <1>4, <1>5, <1>6, <1>7, <1>8, <1>9, <1>10, <1>11, <1>12, <1>13, <1>14
  DEF Next, Saves, Works

(* A pass over a private recording that ran to its end has left the text   *)
(* of its k-th chunk in the k-th place, for any number of chunks, requests *)
(* and loops, whatever died, failed or was saved meanwhile.                *)
THEOREM PrivatePassComplete ==
  ASSUME MaxTakes = 1
  PROVE  Spec => []PrivatePassWritten
<1>1. Init => PrivateAll
  BY AbsentRowIs, QuietIs
  DEF Init, PrivateAll, QuietQueue, OneRequest, PrivateFiles, PrivatePasses,
      Private, Fresh, Polling, Open
<1>2. Grounds /\ PrivateAll /\ [Next]_vars => PrivateAll'
  BY QuietStep, OneRequestStep, PrivateFilesStep, PassesStep DEF PrivateAll
<1>3. PrivateAll => PrivatePassWritten
  BY DEF PrivateAll, PrivatePasses, PrivatePassWritten, Private, Fresh, PassAt,
         Done, At
<1> QED
  BY <1>1, <1>2, <1>3, CaptureInvariance, PTL DEF Spec

-----------------------------------------------------------------------------
(* The pipeline uses its table as a pool: every step of Capture is a step  *)
(* of JobPool, or changes nothing there, under the mapping PoolTask,       *)
(* PoolHold of Capture.  Loops makes the mapping work: what a loop holds   *)
(* is RUNNING, no other loop holds it, and none does while the app is      *)
(* down.                                                                   *)

Taken(k) == \E w \in Poller : HoldsJob(w, k)

LEMMA TaskOfStatus ==
  /\ TaskOf("ABSENT") = "none" /\ TaskOf("PENDING") = "waiting"
  /\ TaskOf("RUNNING") = "lost" /\ TaskOf("DONE") = "over"
  /\ TaskOf("FAILED") = "over" /\ TaskOf("CANCELLED") = "over"
BY DEF TaskOf

LEMMA TakenIs ==
  /\ PoolTask = [k \in Job |-> IF Taken(k) THEN "taken"
                               ELSE TaskOf(jobs[k].status)]
  /\ PoolHold = [w \in Poller |-> {k \in Job : HoldsJob(w, k)}]
  /\ PoolTask' = [k \in Job |-> IF Taken(k)' THEN "taken"
                                ELSE TaskOf(jobs'[k].status)]
  /\ PoolHold' = [w \in Poller |-> {k \in Job : HoldsJob(w, k)'}]
BY DEF PoolTask, PoolHold, Taken

LEMMA TakenRuns ==
  ASSUME Loops, NEW k \in Job, Taken(k)
  PROVE  jobs[k].status = "RUNNING"
BY DEF Loops, Held, Taken, HoldsJob, Busy

(* A step that neither moves a loop to another job nor changes a status.   *)
LEMMA PoolStutters ==
  ASSUME \A w \in Poller, k \in Job : HoldsJob(w, k)' <=> HoldsJob(w, k),
         \A k \in Job : jobs'[k].status = jobs[k].status
  PROVE  UNCHANGED <<PoolTask, PoolHold>>
<1>1. \A k \in Job : Taken(k)' <=> Taken(k)
  BY DEF Taken
<1> QED
  BY <1>1, TakenIs

LEMMA PoolInit == Init => Pool!Init
<1> SUFFICES ASSUME Init PROVE Pool!Init
  OBVIOUS
<1>1. \A w \in Poller : worker[w].pc = "poll"
  BY PollingIs DEF Init
<1>2. \A k \in Job : ~Taken(k) /\ jobs[k].status = "ABSENT"
  BY <1>1, AbsentRowIs DEF Init, Taken, HoldsJob
<1>3. PoolTask = [k \in Job |-> "none"]
  BY <1>2, TakenIs, TaskOfStatus
<1>4. PoolHold = [w \in Poller |-> {}]
  BY <1>1, TakenIs DEF HoldsJob
<1> QED
  BY <1>3, <1>4 DEF Pool!Init

LEMMA CreatedSubmits ==
  ASSUME Loops, NEW p, Created(p), UNCHANGED worker
  PROVE  \E j \in Job : Pool!Submit(j)
<1>1. PICK j \in Job :
        /\ jobs[j].status = "ABSENT" /\ jobs'[j].status = "PENDING"
        /\ \A k \in Job \ {j} : jobs'[k] = jobs[k]
  BY DEF Created
<1>2. ~Taken(j)
  BY <1>1, TakenRuns
<1>3. PoolHold' = PoolHold /\ \A k \in Job : Taken(k)' <=> Taken(k)
  BY TakenIs DEF Taken, HoldsJob
<1>4. PoolTask[j] = "none"
  BY <1>1, <1>2, TakenIs, TaskOfStatus
<1>5. PoolTask' = [PoolTask EXCEPT ![j] = "waiting"]
  BY <1>1, <1>2, <1>3, TakenIs, TaskOfStatus
<1> QED
  BY <1>3, <1>4, <1>5 DEF Pool!Submit

LEMMA ClaimTakes ==
  ASSUME Loops, NEW w \in Poller, Claim(w)
  PROVE  \E j \in Job : Pool!Take(w, j)
<1>1. PICK j \in Job :
        /\ jobs[j].status = "PENDING"
        /\ \A k \in Job \ {j} : jobs'[k] = jobs[k]
        /\ worker'[w] = [Polling EXCEPT !.pc = "begin", !.job = j]
        /\ \A v \in Poller \ {w} : worker'[v] = worker[v]
  BY ClaimIs DEF Loops
<1>2. worker'[w].pc = "begin" /\ worker'[w].job = j /\ worker[w].pc = "poll"
  BY <1>1 DEF Polling, Claim, At
<1>3. \A v \in Poller, k \in Job :
        HoldsJob(v, k)' <=> (v = w /\ k = j) \/ HoldsJob(v, k)
  BY <1>1, <1>2 DEF HoldsJob
<1>4. ~Taken(j)
  BY <1>1, TakenRuns
<1>5. \A k \in Job : Taken(k)' <=> k = j \/ Taken(k)
  BY <1>3 DEF Taken
<1>6. PoolTask[j] = "waiting"
  BY <1>1, <1>4, TakenIs, TaskOfStatus
<1>7. PoolTask' = [PoolTask EXCEPT ![j] = "taken"]
  BY <1>1, <1>5, TakenIs
<1>8. /\ PoolHold[w] = {} /\ PoolHold'[w] = {j}
      /\ \A v \in Poller : v # w => PoolHold'[v] = PoolHold[v]
  BY <1>2, <1>3, TakenIs DEF HoldsJob
<1>9. PoolHold' = [PoolHold EXCEPT ![w] = {j}]
  <2>1. /\ PoolHold = [v \in Poller |-> PoolHold[v]]
        /\ PoolHold' = [v \in Poller |-> PoolHold'[v]]
    BY TakenIs
  <2> QED
    BY <1>8, <2>1
<1> QED
  BY <1>6, <1>7, <1>8, <1>9 DEF Pool!Take

LEMMA ReleasedReleases ==
  ASSUME Loops, NEW w \in Poller, Busy(w), Released(w)
  PROVE  \E j \in Job : Pool!Release(w, j)
<1> DEFINE j == worker[w].job
<1>1. /\ j \in Job /\ jobs'[j].status \in {"DONE", "FAILED", "PENDING"}
      /\ \A k \in Job \ {j} : jobs'[k] = jobs[k]
      /\ worker'[w].pc = "poll" /\ worker[w].pc # "poll"
      /\ \A v \in Poller \ {w} : worker'[v] = worker[v]
  BY PollingIs DEF Loops, JobTypes, Busy, Released
<1>2. \A v \in Poller : v # w => ~HoldsJob(v, j)
  BY <1>1 DEF Loops, Held, Busy, HoldsJob
<1>3. HoldsJob(w, j) /\ \A k \in Job : HoldsJob(w, k) => k = j
  BY <1>1 DEF HoldsJob
<1> HIDE DEF j
<1>4. \A v \in Poller, k \in Job :
        HoldsJob(v, k)' <=> v # w /\ HoldsJob(v, k)
  BY <1>1 DEF HoldsJob
<1>5. \A k \in Job : Taken(k)' <=> k # j /\ Taken(k)
  BY <1>1, <1>2, <1>3, <1>4 DEF Taken
<1>6. PICK s \in {"waiting", "over"} : TaskOf(jobs'[j].status) = s
  BY <1>1, TaskOfStatus
<1>7. PoolTask' = [PoolTask EXCEPT ![j] = s]
  <2>1. PoolTask'[j] = s
    BY <1>1, <1>5, <1>6, TakenIs
  <2>2. \A k \in Job : k # j => PoolTask'[k] = PoolTask[k]
    BY <1>1, <1>5, TakenIs
  <2>3. /\ PoolTask = [k \in Job |-> PoolTask[k]]
        /\ PoolTask' = [k \in Job |-> PoolTask'[k]]
    BY TakenIs
  <2> QED
    BY <2>1, <2>2, <2>3
<1>8. /\ j \in PoolHold[w] /\ PoolHold'[w] = {}
      /\ \A v \in Poller : v # w => PoolHold'[v] = PoolHold[v]
  BY <1>1, <1>3, <1>4, TakenIs
<1>9. PoolHold' = [PoolHold EXCEPT ![w] = {}]
  <2>1. /\ PoolHold = [v \in Poller |-> PoolHold[v]]
        /\ PoolHold' = [v \in Poller |-> PoolHold'[v]]
    BY TakenIs
  <2> QED
    BY <1>8, <2>1
<1> QED
  BY <1>1, <1>7, <1>8, <1>9 DEF Pool!Release

LEMMA AdvancedStutters ==
  ASSUME NEW w \in Poller, Advanced(w)
  PROVE  UNCHANGED <<PoolTask, PoolHold>>
<1>1. \A v \in Poller, k \in Job : HoldsJob(v, k)' <=> HoldsJob(v, k)
  BY DEF Advanced, Busy, HoldsJob
<1> QED
  BY <1>1, PoolStutters DEF Advanced

LEMMA CrashDies ==
  ASSUME Loops, Crash
  PROVE  Pool!Die
<1>1. UNCHANGED jobs /\ \A w \in Poller : worker'[w].pc = "poll"
  BY PollingIs DEF Crash
<1>2. PoolHold' = [w \in Poller |-> {}] /\ \A k \in Job : ~Taken(k)'
  BY <1>1, TakenIs DEF Taken, HoldsJob
<1>3. ASSUME NEW k \in Job
      PROVE  TaskOf(jobs[k].status) =
               IF PoolTask[k] # "taken" THEN PoolTask[k]
               ELSE IF k \in {} THEN "over" ELSE "lost"
  <2>1. CASE Taken(k)
    BY <2>1, TakenIs, TakenRuns, TaskOfStatus
  <2>2. CASE ~Taken(k)
    <3>1. jobs[k].status \in Status
      BY Statuses DEF Loops, JobTypes, JobRow
    <3>2. TaskOf(jobs[k].status) # "taken"
      BY <3>1, Statuses, TaskOfStatus
    <3> QED
      BY <2>2, <3>2, TakenIs
  <2> QED
    BY <2>1, <2>2
<1>4. PoolTask' = [k \in Job |-> TaskOf(jobs[k].status)]
  BY <1>1, <1>2, TakenIs
<1>5. PoolTask' = [k \in Job |-> IF PoolTask[k] # "taken" THEN PoolTask[k]
                                 ELSE IF k \in {} THEN "over" ELSE "lost"]
  BY <1>3, <1>4
<1> QED
  BY <1>2, <1>5 DEF Pool!Die

LEMMA BootReissues ==
  ASSUME Loops, BootStalled
  PROVE  Pool!Reissue
<1>1. /\ UNCHANGED worker /\ boot = "stalled"
      /\ \A k \in Job : jobs'[k] = RecoveredRow(jobs[k])
  BY DEF BootStalled
<1>2. \A w \in Poller : worker[w].pc = "poll"
  BY <1>1 DEF Loops, Held
<1>3. PoolHold' = PoolHold /\ \A k \in Job : ~Taken(k) /\ ~Taken(k)'
  BY <1>1, <1>2, TakenIs DEF Taken, HoldsJob
<1> DEFINE found == {k \in Job : jobs'[k].status # jobs[k].status}
<1>4. ASSUME NEW k \in Job
      PROVE  TaskOf(jobs'[k].status) =
               IF PoolTask[k] = "lost" /\ k \in found
               THEN "waiting" ELSE PoolTask[k]
  <2>1. PoolTask[k] = TaskOf(jobs[k].status)
    BY <1>3, TakenIs
  <2>2. \/ jobs'[k].status = jobs[k].status
        \/ jobs[k].status = "RUNNING" /\ jobs'[k].status = "PENDING"
    BY <1>1, RecoveredRowIs DEF Loops, JobTypes
  <2> QED
    BY <2>1, <2>2, TaskOfStatus
<1>5. PoolTask' = [k \in Job |-> TaskOf(jobs'[k].status)]
  BY <1>3, TakenIs
<1>6. PoolTask' = [k \in Job |-> IF PoolTask[k] = "lost" /\ k \in found
                                 THEN "waiting" ELSE PoolTask[k]]
  BY <1>4, <1>5
<1>7. found \in SUBSET Job
  OBVIOUS
<1> HIDE DEF found
<1> QED
  BY <1>3, <1>6, <1>7 DEF Pool!Reissue

LEMMA PoolStep ==
  Grounds /\ [Next]_vars => [Pool!Next]_<<PoolTask, PoolHold>>
<1> SUFFICES ASSUME AudioTypes, Loops, [Next]_vars
             PROVE  Pool!Next \/ UNCHANGED <<PoolTask, PoolHold>>
  BY DEF Grounds
<1>1. CASE \/ Start \/ Pause \/ Resume \/ Stop \/ NothingToFlush
           \/ StartLecture \/ StopProcessing \/ Finalize \/ StopFind
           \/ BootMark \/ BootCount \/ BootRecovered \/ UNCHANGED vars
           \/ \E i \in Chunk : SendChunk(i) \/ RefuseWrite(i)
                               \/ WriteFile(i) \/ UpsertRow(i)
  <2>1. UNCHANGED <<jobs, worker>>
    BY <1>1 DEF Start, Pause, Resume, Stop, NothingToFlush, StartLecture,
                StopProcessing, Finalize, StopFind, BootMark, BootCount,
                BootRecovered, SendChunk, RefuseWrite, WriteFile, UpsertRow,
                vars
  <2> QED
    BY <2>1, PoolStutters DEF HoldsJob
<1>2. ASSUME NEW i \in Chunk, EnqueueLive(i)
      PROVE  Pool!Next
  BY <1>2, Payloads, CreateCreates, CreatedSubmits
     DEF EnqueueLive, Loops, Pool!Next
<1>3. CASE StopCreate \/ TranscribeNow \/ BootCreate
  BY <1>3, Payloads, CreateCreates, CreatedSubmits
     DEF StopCreate, TranscribeNow, BootCreate, Loops, Pool!Next
<1>4. ASSUME NEW w \in Poller,
             Works(w) \/ Abort(w) \/ CleanupError(w)
      PROVE  Pool!Next \/ UNCHANGED <<PoolTask, PoolHold>>
  <2>1. CASE Claim(w)
    BY <2>1, ClaimTakes DEF Pool!Next
  <2>2. ASSUME Busy(w), Released(w)
        PROVE  Pool!Next
    BY <2>2, ReleasedReleases DEF Pool!Next
  <2>3. CASE ResolveLive(w) \/ ResolveFull(w)
    <3>1. Busy(w)
      BY <2>3 DEF ResolveLive, ResolveFull, At, Busy
    <3> QED
      BY <2>2, <2>3, <3>1, ResolveLiveIs, ResolveFullIs, AdvancedStutters
         DEF Loops
  <2>4. CASE Convert(w) \/ Persist(w) \/ CleanupRow(w) \/ Unlink(w)
             \/ CleanupError(w) \/ MarkReady(w)
    BY <2>4, ConvertIs, PersistIs, CleanupIs, MarkReadyIs,
       AdvancedStutters DEF Loops
  <2>5. CASE Complete(w) \/ Abort(w)
    BY <2>2, <2>5, EndIs DEF Loops
  <2> QED
    BY <1>4, <2>1, <2>3, <2>4, <2>5 DEF Works
<1>5. CASE Crash
  BY <1>5, CrashDies DEF Pool!Next
<1>6. CASE LongPause
  <2>1. \A k \in Job : jobs'[k].status = jobs[k].status
    BY <1>6, AgedRowIs DEF LongPause, Loops, JobTypes
  <2>2. UNCHANGED worker
    BY <1>6 DEF LongPause
  <2> QED
    BY <2>1, <2>2, PoolStutters DEF HoldsJob
<1>7. CASE BootStalled
  BY <1>7, BootReissues DEF Pool!Next
<1> QED
  BY <1>1, <1>2, <1>3, <1>4, <1>5, <1>6, <1>7
  DEF Next, Handles, Saves, Boots

(* Recording, transcription, stops, requests, crashes and recoveries use   *)
(* the job table as a pool of tasks (JobPool), whatever their bounds: one  *)
(* loop works on a job at a time, it alone lets go of it, a job lost in a  *)
(* crash waits again or stays lost, and none that is over comes back.      *)
THEOREM CaptureImplementsPool == Spec => PoolSpec
BY PoolInit, PoolStep, CaptureInvariance, PTL DEF Spec, PoolSpec, Pool!Spec
=============================================================================
