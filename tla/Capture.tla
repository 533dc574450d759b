------------------------------ MODULE Capture -------------------------------
(***************************************************************************)
(* From microphone to transcript for one lecture: services/recording.ts    *)
(* (session, chunks, crash recovery), services/whisperWorker.ts (the two   *)
(* polling loops and processTranscribeJob) and services/transcript.ts      *)
(* (bulkInsert), meeting in the ProcessingJob table (JobTable), the        *)
(* SQLite rows and the audio directory.                                    *)
(*                                                                         *)
(* An audio chunk is identified by the take it was recorded in (how often  *)
(* the renderer started recording this lecture) and its index; whisper     *)
(* makes one segment of it.  Steps are the stretches between two awaits.   *)
(***************************************************************************)
EXTENDS Integers, FiniteSetsExt

CONSTANTS
  NChunks,      \* bound: chunks per take
  MaxTakes,     \* bound: how often recording is started for the lecture
  Job, Poller, LivePoller, NoPoller, MaxRetries,
  TickMs,       \* long enough to pass the stale threshold in one tick
  PrivacyChoices, \* what the user may ask for: a set of booleans
  MaxCrashes,   \* bound: how often the app dies
  MaxErrors,    \* bound: aborts, ffmpeg, whisper, model and disk errors
  MaxManual, MaxManualPrivate \* bounds: whisper:transcribeNow requests of a
                \* recording, and of one in privacy mode

Chunk == 0 .. NChunks - 1
NoChunk == -1

(* Job payloads, as far as the worker looks at them. *)
Live(i) == [kind |-> "live", chunk |-> i]
StopPass == [kind |-> "stop", chunk |-> NoChunk]
ManualPass == [kind |-> "manual", chunk |-> NoChunk]
RecoveryPass == [kind |-> "recovery", chunk |-> NoChunk]
LivePayload == {Live(i) : i \in Chunk}
FinalPayload == {StopPass, ManualPass}
RecoverPayload == {RecoveryPass}

INSTANCE JobTable

ASSUME CaptureAssumption ==
  /\ NChunks \in Nat \ {0}
  /\ MaxTakes \in Nat \ {0}
  /\ Job \subseteq Nat
  /\ LivePoller \in Poller
  /\ NoPoller \notin Poller
  /\ MaxRetries \in Nat \ {0}
  /\ TickMs \in Nat \ {0}
  /\ PrivacyChoices \subseteq BOOLEAN
  /\ {MaxCrashes, MaxErrors, MaxManual, MaxManualPrivate} \subseteq Nat

(* The delays of jobQueue.ts are numbers of ticks, as in JobTable.         *)
ASSUME DelaysAssumption ==
  /\ StaleAfter \in Nat
  /\ \A n \in 1 .. MaxRetries : Backoff(n) \in Nat

VARIABLES
  mic,        \* the renderer: recording or not, take, next chunk index
  session,    \* the RecordingSession row
  lecture,    \* Lecture.state
  row,        \* AudioChunk.state, by index
  file,       \* the chunk file: the take whose audio it holds, 0: no file
  playback,   \* the pieces concatenated into <lectureId>.webm
  transcript, \* TranscriptSegment: the piece heard, by segmentIndex
  jobs,       \* the ProcessingJob table
  saver,      \* per chunk: the RECORDING_CHUNK_SAVE call in progress
  ipc,        \* the recording:start or recording:stop call in progress
  worker,     \* the two polling loops: job held, chunks to do (todo), next
              \* segment index, take being heard; plan, the chunks chosen
              \* by a full pass, is history
  boot,       \* "up", "down", or a step of the startup sequence
  interrupted, \* history: a start died after it marked the session CRASHED
              \* and before its recovery pass was in the table
  crashes, errors, manuals, \* counters of the bounds
  saved,      \* history: pieces whose row was written
  heard       \* history: pieces whose text was ever persisted

recVars == <<mic, session, lecture, saver, ipc>>
audioVars == <<row, file, playback, saved>>
textVars == <<transcript, heard>>
boundVars == <<interrupted, crashes, errors, manuals>>
vars == <<recVars, audioVars, textVars, jobs, worker, boot, boundVars>>

Take == 1 .. MaxTakes
Piece == [chunk : Chunk, take : Take]
PieceOf(i, t) == [chunk |-> i, take |-> t]
NoPiece == [chunk |-> NoChunk, take |-> 0]

Up == boot = "up"
Quiet == [pc |-> "idle", take |-> 0, privacy |-> FALSE]
IdleIpc == [pc |-> "idle", rows |-> {}]
Polling == [pc |-> "poll", job |-> 0, plan |-> {}, todo |-> {},
            seg |-> 0, take |-> 0]

Init ==
  /\ mic = [state |-> "off", take |-> 0, next |-> 0]
  /\ session = [state |-> "NONE", privacy |-> FALSE]
  /\ lecture = "PENDING"
  /\ row = [i \in Chunk |-> "NONE"]
  /\ file = [i \in Chunk |-> 0]
  /\ playback = {}
  /\ transcript = [k \in Chunk |-> NoPiece]
  /\ jobs = [j \in Job |-> AbsentRow]
  /\ saver = [i \in Chunk |-> Quiet]
  /\ ipc = IdleIpc
  /\ worker = [w \in Poller |-> Polling]
  /\ boot = "up"
  /\ interrupted = FALSE
  /\ crashes = 0 /\ errors = 0 /\ manuals = 0
  /\ saved = {}
  /\ heard = {}

(* processingJob.create into the next free id. *)
Create(p) ==
  \E j \in Job :
    /\ jobs[j].status = "ABSENT"
    /\ \A k \in Job : k < j => jobs[k].status # "ABSENT"
    /\ jobs' = [jobs EXCEPT ![j] = NewRow(p)]

-----------------------------------------------------------------------------
(* Recording: start, pause, resume.                                        *)

(* startSession, session row: an ACTIVE session is returned as it is;      *)
(* otherwise the row is set ACTIVE, and only a new row takes privacyMode.  *)
Start ==
  /\ Up /\ mic.state = "off" /\ mic.take < MaxTakes /\ ipc.pc = "idle"
  /\ \E wish \in PrivacyChoices :
       session' = [state |-> "ACTIVE",
                   privacy |-> IF session.state = "NONE"
                               THEN wish ELSE session.privacy]
  /\ mic' = [state |-> "on", take |-> mic.take + 1, next |-> 0]
  /\ ipc' = IF session.state = "ACTIVE"
            THEN IdleIpc ELSE [ipc EXCEPT !.pc = "start"]
  /\ UNCHANGED <<lecture, saver, audioVars, textVars, jobs, worker, boot,
                 boundVars>>

(* startSession, lecture row. *)
StartLecture ==
  /\ ipc.pc = "start"
  /\ lecture' = "RECORDING"
  /\ ipc' = IdleIpc
  /\ UNCHANGED <<mic, session, saver, audioVars, textVars, jobs,
                 worker, boot, boundVars>>

(* pauseSession *)
Pause ==
  /\ Up /\ mic.state \in {"on", "resumed"} /\ ipc.pc = "idle"
  /\ mic' = [mic EXCEPT !.state = "paused"]
  /\ session' = [session EXCEPT !.state = "PAUSED"]
  /\ UNCHANGED <<lecture, saver, ipc, audioVars, textVars, jobs,
                 worker, boot, boundVars>>

(* resumeSession.  The pause cleared the chunk timer of the renderer and    *)
(* nothing sets it again, so what follows is one chunk, sent by stop.      *)
Resume ==
  /\ Up /\ mic.state = "paused"
  /\ mic' = [mic EXCEPT !.state = "resumed"]
  /\ session' = [session EXCEPT !.state = "ACTIVE"]
  /\ UNCHANGED <<lecture, saver, ipc, audioVars, textVars, jobs,
                 worker, boot, boundVars>>

-----------------------------------------------------------------------------
(* RECORDING_CHUNK_SAVE: saveChunkAndEnqueueLive.                          *)

(* The renderer sends the next chunk (also the one MediaRecorder flushes   *)
(* while stop is under way); the handler looks the session up.             *)
SendChunk(i) ==
  /\ Up /\ ipc.pc # "start"
  /\ mic.state \in {"on", "flush"} /\ i = mic.next
  /\ saver[i].pc = "idle"
  /\ saver' = [saver EXCEPT ![i] = [pc |-> "write", take |-> mic.take,
                                    privacy |-> session.privacy]]
  /\ mic' = [mic EXCEPT !.next = @ + 1,
                        !.state = IF @ = "flush" THEN "off" ELSE @]
  /\ UNCHANGED <<session, lecture, ipc, audioVars, textVars, jobs,
                 worker, boot, boundVars>>

(* saveChunk, file: tmp and rename, one stretch without an await.          *)
WriteFile(i) ==
  /\ saver[i].pc = "write"
  /\ file' = [file EXCEPT ![i] = saver[i].take]
  /\ saver' = [saver EXCEPT ![i].pc = "row"]
  /\ UNCHANGED <<mic, session, lecture, ipc, row, playback, saved,
                 textVars, jobs, worker, boot, boundVars>>

(* saveChunk, INSUFFICIENT_DISK_SPACE: nothing is stored. *)
RefuseWrite(i) ==
  /\ saver[i].pc = "write" /\ errors < MaxErrors
  /\ saver' = [saver EXCEPT ![i] = Quiet]
  /\ errors' = errors + 1
  /\ UNCHANGED <<mic, session, lecture, ipc, audioVars, textVars,
                 jobs, worker, boot, interrupted, crashes, manuals>>

(* Variant: the live job is queued in privacy mode too.                    *)
UpsertRowIgnoringPrivacy(i) ==
  /\ saver[i].pc = "row"
  /\ row' = [row EXCEPT ![i] = "COMPLETE"]
  /\ saved' = saved \cup {PieceOf(i, saver[i].take)}
  /\ saver' = [saver EXCEPT ![i].pc = "enqueue"]
  /\ UNCHANGED <<mic, session, lecture, ipc, file, playback,
                 textVars, jobs, worker, boot, boundVars>>

(* saveChunk, upsert by (sessionId, index) and session totals; privacy     *)
(* mode ends the call here.                                                *)
UpsertRow(i) ==
  /\ saver[i].pc = "row"
  /\ row' = [row EXCEPT ![i] = "COMPLETE"]
  /\ saved' = saved \cup {PieceOf(i, saver[i].take)}
  /\ saver' = [saver EXCEPT
       ![i] = IF saver[i].privacy THEN Quiet ELSE [@ EXCEPT !.pc = "enqueue"]]
  /\ UNCHANGED <<mic, session, lecture, ipc, file, playback,
                 textVars, jobs, worker, boot, boundVars>>

(* Variant: the live job is deduplicated by lecture.                       *)
EnqueueLiveOncePerLecture(i) ==
  /\ saver[i].pc = "enqueue"
  /\ IF \E k \in Chunk : Duplicate(jobs, Live(k)) # {}
     THEN UNCHANGED jobs ELSE Create(Live(i))
  /\ saver' = [saver EXCEPT ![i] = Quiet]
  /\ UNCHANGED <<mic, session, lecture, ipc, audioVars, textVars,
                 worker, boot, boundVars>>

(* The live job of the chunk, deduplicate: false. *)
EnqueueLive(i) ==
  /\ saver[i].pc = "enqueue"
  /\ Create(Live(i))
  /\ saver' = [saver EXCEPT ![i] = Quiet]
  /\ UNCHANGED <<mic, session, lecture, ipc, audioVars, textVars,
                 worker, boot, boundVars>>

-----------------------------------------------------------------------------
(* stopSession                                                             *)

(* The session is STOPPED.  The renderer stopped its MediaRecorder just    *)
(* before, so the last chunk may still be on its way.                      *)
Stop ==
  /\ Up /\ mic.state \in {"on", "paused", "resumed"} /\ ipc.pc = "idle"
  /\ mic' = [mic EXCEPT !.state = "flush"]
  /\ session' = [session EXCEPT !.state = "STOPPED"]
  /\ ipc' = [pc |-> "lecture", rows |-> {}]
  /\ UNCHANGED <<lecture, saver, audioVars, textVars, jobs, worker,
                 boot, boundVars>>

(* The lecture is PROCESSING; finalizeLectureRecording reads the rows and  *)
(* throws when there is none, which ends the call.                         *)
StopProcessing ==
  /\ ipc.pc = "lecture"
  /\ lecture' = "PROCESSING"
  /\ LET rows == {i \in Chunk : row[i] \in {"COMPLETE", "DELETED"}}
     IN  ipc' = IF rows = {} THEN IdleIpc
                ELSE [pc |-> "finalize", rows |-> rows]
  /\ UNCHANGED <<mic, session, saver, audioVars, textVars, jobs,
                 worker, boot, boundVars>>

(* The files that are still there are concatenated into <lectureId>.webm;  *)
(* none at all is an error that ends the call.  Privacy mode ends it too.  *)
Finalize ==
  /\ ipc.pc = "finalize"
  /\ LET there == {i \in ipc.rows : file[i] # 0}
     IN  IF there = {}
         THEN /\ ipc' = IdleIpc
              /\ UNCHANGED playback
         ELSE /\ playback' = {PieceOf(i, file[i]) : i \in there}
              /\ ipc' = IF session.privacy THEN IdleIpc
                        ELSE [ipc EXCEPT !.pc = "find"]
  /\ UNCHANGED <<mic, session, lecture, saver, row, file, saved,
                 textVars, jobs, worker, boot, boundVars>>

(* enqueue of the full pass: dedup lookup, then create. *)
StopFind ==
  /\ ipc.pc = "find"
  /\ ipc' = IF Duplicate(jobs, StopPass) = {}
            THEN [ipc EXCEPT !.pc = "create"] ELSE IdleIpc
  /\ UNCHANGED <<mic, session, lecture, saver, audioVars, textVars,
                 jobs, worker, boot, boundVars>>

StopCreate ==
  /\ ipc.pc = "create"
  /\ Create(StopPass)
  /\ ipc' = IdleIpc
  /\ UNCHANGED <<mic, session, lecture, saver, audioVars, textVars,
                 worker, boot, boundVars>>

(* Nothing was left to flush (a second data event never comes). *)
NothingToFlush ==
  /\ mic.state = "flush"
  /\ mic' = [mic EXCEPT !.state = "off"]
  /\ UNCHANGED <<session, lecture, saver, ipc, audioVars, textVars,
                 jobs, worker, boot, boundVars>>

(* whisper:transcribeNow; its dedup lookup and create in one step, the     *)
(* race between them being JobQueue's subject.                             *)
TranscribeNow ==
  /\ Up
  /\ manuals < IF session.privacy THEN MaxManualPrivate ELSE MaxManual
  /\ Duplicate(jobs, ManualPass) = {}
  /\ Create(ManualPass)
  /\ manuals' = manuals + 1
  /\ UNCHANGED <<recVars, audioVars, textVars, worker, boot, interrupted,
                 crashes, errors>>

-----------------------------------------------------------------------------
(* The polling loops.                                                      *)

Wanted(w) == IF w = LivePoller THEN LivePayload ELSE Payload
Current(w) == jobs[worker[w].job]
IsLive(w) == Current(w).payload.kind = "live"
At(w, pc) == worker[w].pc = pc

Settle(w, newRow) ==
  /\ jobs' = [jobs EXCEPT ![worker[w].job] = newRow]
  /\ worker' = [worker EXCEPT ![w] = Polling]

(* fail of the job this loop holds.  Its read and its write are one step   *)
(* here: only the holder of a job writes its retryCount (JobQueue).        *)
Fail(w) == Settle(w, FailedRow(Current(w), Current(w).retryCount + 1))

Claim(w) ==
  /\ Up /\ At(w, "poll")
  /\ \E j \in NextDue(jobs, Wanted(w)) :
       /\ jobs' = [jobs EXCEPT ![j] = ClaimedRow(@, w)]
       /\ worker' = [worker EXCEPT
            ![w] = [Polling EXCEPT !.pc = "begin", !.job = j]]
  /\ UNCHANGED <<recVars, audioVars, textVars, boot, boundVars>>

(* A live job: CHUNK_MISSING when its row is DELETED, done at once when    *)
(* the file is gone, else one chunk to do.                                 *)
ResolveLive(w) ==
  /\ At(w, "begin") /\ IsLive(w)
  /\ LET i == Current(w).payload.chunk
     IN  IF row[i] = "DELETED" THEN Fail(w)
         ELSE IF file[i] = 0 THEN Settle(w, CompletedRow(Current(w)))
         ELSE /\ worker' = [worker EXCEPT ![w].pc = "chunk",
                                          ![w].todo = {i}]
              /\ UNCHANGED jobs
  /\ UNCHANGED <<recVars, audioVars, textVars, boot, boundVars>>

(* A full pass: every COMPLETE chunk in index order, NO_AUDIO when none.   *)
ResolveFull(w) ==
  /\ At(w, "begin") /\ ~IsLive(w)
  /\ LET todo == {i \in Chunk : row[i] = "COMPLETE"}
     IN  IF todo = {} THEN Fail(w)
         ELSE /\ worker' = [worker EXCEPT ![w].pc = "chunk", ![w].todo = todo,
                                          ![w].plan = todo]
              /\ UNCHANGED jobs
  /\ UNCHANGED <<recVars, audioVars, textVars, boot, boundVars>>

(* Chunks are taken in index order.                                        *)
Turn(w) == Min(worker[w].todo)
Rest(w) == worker[w].todo \ {Turn(w)}

(* The next chunk is converted, or skipped when its file is missing.       *)
Convert(w) ==
  /\ At(w, "chunk") /\ worker[w].todo # {}
  /\ LET t == file[Turn(w)]
     IN  worker' = IF t = 0
                   THEN [worker EXCEPT ![w].todo = Rest(w)]
                   ELSE [worker EXCEPT ![w].pc = "infer", ![w].take = t]
  /\ UNCHANGED <<recVars, audioVars, textVars, jobs, boot, boundVars>>

(* Variant: the text is written only after the audio is gone.              *)
PersistAfterCleanup(w) ==
  /\ At(w, "infer")
  /\ worker' = IF IsLive(w)
               THEN [worker EXCEPT ![w].pc = "cleanup", ![w].seg = @ + 1]
               ELSE [worker EXCEPT ![w].pc = "chunk", ![w].seg = @ + 1,
                                   ![w].todo = Rest(w)]
  /\ UNCHANGED <<recVars, audioVars, textVars, jobs, boot, boundVars>>

(* Variant: every chunk of the pass is written at segment index 0.         *)
PersistAtZero(w) ==
  /\ At(w, "infer")
  /\ LET p == PieceOf(Turn(w), worker[w].take)
     IN  /\ transcript' = [transcript EXCEPT ![0] = p]
         /\ heard' = heard \cup {p}
  /\ worker' = IF IsLive(w) THEN [worker EXCEPT ![w].pc = "cleanup"]
               ELSE [worker EXCEPT ![w].pc = "chunk", ![w].todo = Rest(w)]
  /\ UNCHANGED <<recVars, audioVars, jobs, boot, boundVars>>

(* whisper is done: bulkInsert upserts the text at globalSegmentIndex,     *)
(* which every job counts from 0.                                          *)
Persist(w) ==
  /\ At(w, "infer")
  /\ LET p == PieceOf(Turn(w), worker[w].take)
     IN  /\ transcript' = [transcript EXCEPT ![worker[w].seg] = p]
         /\ heard' = heard \cup {p}
  /\ worker' = IF IsLive(w)
               THEN [worker EXCEPT ![w].pc = "cleanup", ![w].seg = @ + 1]
               ELSE [worker EXCEPT ![w].pc = "chunk", ![w].seg = @ + 1,
                                   ![w].todo = Rest(w)]
  /\ UNCHANGED <<recVars, audioVars, jobs, boot, boundVars>>

(* cleanupChunk: the row first, then, after the await, the file.           *)
CleanupRow(w) ==
  /\ At(w, "cleanup")
  /\ row' = [row EXCEPT ![Turn(w)] = "DELETED"]
  /\ worker' = [worker EXCEPT ![w].pc = "unlink"]
  /\ UNCHANGED <<recVars, file, playback, saved, textVars, jobs, boot,
                 boundVars>>

Unlink(w) ==
  /\ At(w, "unlink")
  /\ file' = [file EXCEPT ![Turn(w)] = 0]
  /\ worker' = [worker EXCEPT ![w].pc = "chunk", ![w].todo = Rest(w)]
  /\ UNCHANGED <<recVars, row, playback, saved, textVars, jobs, boot,
                 boundVars>>

(* Both halves of cleanupChunk log their error and go on.                  *)
CleanupError(w) ==
  /\ worker[w].pc \in {"cleanup", "unlink"} /\ errors < MaxErrors
  /\ errors' = errors + 1
  /\ worker' = IF At(w, "cleanup")
               THEN [worker EXCEPT ![w].pc = "unlink"]
               ELSE [worker EXCEPT ![w].pc = "chunk", ![w].todo = Rest(w)]
  /\ UNCHANGED <<recVars, audioVars, textVars, jobs, boot, interrupted,
                 crashes, manuals>>

(* After the last chunk a full pass makes the lecture READY.               *)
MarkReady(w) ==
  /\ At(w, "chunk") /\ worker[w].todo = {} /\ ~IsLive(w)
  /\ lecture' = "READY"
  /\ worker' = [worker EXCEPT ![w].pc = "complete"]
  /\ UNCHANGED <<mic, session, saver, ipc, audioVars, textVars, jobs,
                 boot, boundVars>>

Complete(w) ==
  /\ \/ At(w, "complete")
     \/ At(w, "chunk") /\ worker[w].todo = {} /\ IsLive(w)
  /\ Settle(w, CompletedRow(Current(w)))
  /\ UNCHANGED <<recVars, audioVars, textVars, boot, boundVars>>

(* The ways a job ends in fail other than by what it finds in the tables:  *)
(* timeout, no model, bad checksum, ffmpeg, whisper.  cleanupChunk         *)
(* swallows its errors and looks at no signal.                             *)
Abort(w) ==
  /\ worker[w].pc \in {"begin", "chunk", "infer"} /\ errors < MaxErrors
  /\ Fail(w)
  /\ errors' = errors + 1
  /\ UNCHANGED <<recVars, audioVars, textVars, boot, interrupted, crashes,
                 manuals>>

-----------------------------------------------------------------------------
(* The app dies and starts again.  A step of a start that throws ends the  *)
(* start, which is the same.                                               *)

Crash ==
  /\ boot # "down" /\ crashes < MaxCrashes
  /\ boot' = "down"
  /\ crashes' = crashes + 1
  /\ interrupted' = (interrupted \/ boot \in {"count", "create"})
  /\ mic' = [mic EXCEPT !.state = "off"]
  /\ saver' = [i \in Chunk |-> Quiet]
  /\ ipc' = IdleIpc
  /\ worker' = [w \in Poller |-> Polling]
  /\ UNCHANGED <<session, lecture, audioVars, textVars, jobs, errors,
                 manuals>>

(* The app stays closed long enough for every lock to go stale.            *)
LongPause ==
  /\ boot = "down"
  /\ jobs' = [j \in Job |-> AgedRow(jobs[j])]
  /\ UNCHANGED <<recVars, audioVars, textVars, worker, boot, boundVars>>

(* recoverCrashedSessions: an ACTIVE session is marked CRASHED.            *)
BootMark ==
  /\ boot = "down"
  /\ IF session.state = "ACTIVE"
     THEN /\ session' = [session EXCEPT !.state = "CRASHED"]
          /\ boot' = "count"
          /\ interrupted' = FALSE
     ELSE /\ boot' = "stalled"
          /\ UNCHANGED <<session, interrupted>>
  /\ UNCHANGED <<mic, lecture, saver, ipc, audioVars, textVars, jobs,
                 worker, crashes, errors, manuals>>

(* Variant: recovery looks for chunks before any row can be COMPLETE, that *)
(* is, it never finds one.                                                 *)
BootCountNothing ==
  /\ boot = "count"
  /\ boot' = "stalled"
  /\ UNCHANGED <<recVars, audioVars, textVars, jobs, worker, boundVars>>

(* Its COMPLETE chunks are counted; a recovery pass is due unless there is *)
(* none, the session is private, or the same pass is queued already.       *)
BootCount ==
  /\ boot = "count"
  /\ boot' = IF session.privacy \/ \A i \in Chunk : row[i] # "COMPLETE"
             THEN "stalled"
             ELSE IF Duplicate(jobs, RecoveryPass) = {} THEN "create"
             ELSE "recovered"
  /\ UNCHANGED <<recVars, audioVars, textVars, jobs, worker, boundVars>>

BootCreate ==
  /\ boot = "create"
  /\ Create(RecoveryPass)
  /\ boot' = "recovered"
  /\ UNCHANGED <<recVars, audioVars, textVars, worker, boundVars>>

BootRecovered ==
  /\ boot = "recovered"
  /\ session' = [session EXCEPT !.state = "RECOVERED"]
  /\ boot' = "stalled"
  /\ UNCHANGED <<mic, lecture, saver, ipc, audioVars, textVars, jobs,
                 worker, boundVars>>

(* recoverStalledJobs; then the loops start and the window opens.          *)
BootStalled ==
  /\ boot = "stalled"
  /\ jobs' = [j \in Job |-> RecoveredRow(jobs[j])]
  /\ boot' = "up"
  /\ UNCHANGED <<recVars, audioVars, textVars, worker, boundVars>>

-----------------------------------------------------------------------------
Saves(i) == WriteFile(i) \/ UpsertRow(i) \/ EnqueueLive(i)
Handles == StartLecture \/ StopProcessing \/ Finalize \/ StopFind \/ StopCreate
Works(w) ==
  \/ Claim(w) \/ ResolveLive(w) \/ ResolveFull(w) \/ Convert(w) \/ Persist(w)
  \/ CleanupRow(w) \/ Unlink(w) \/ MarkReady(w) \/ Complete(w)
Boots == BootMark \/ BootCount \/ BootCreate \/ BootRecovered \/ BootStalled

Next ==
  \/ Start \/ Pause \/ Resume \/ Stop \/ NothingToFlush \/ TranscribeNow
  \/ Handles
  \/ \E i \in Chunk : SendChunk(i) \/ RefuseWrite(i) \/ Saves(i)
  \/ \E w \in Poller : Works(w) \/ Abort(w) \/ CleanupError(w)
  \/ Crash \/ LongPause \/ Boots

Spec == Init /\ [][Next]_vars

(* Fairness: a handler that was called runs on to its end, the loops keep  *)
(* polling (JobQueue), a started app finishes starting.  Nobody has to     *)
(* record, stop, close or open the app, and nothing has to fail.           *)
FairSpec ==
  /\ Spec
  /\ WF_vars(Handles)
  /\ WF_vars(Boots)
  /\ \A i \in Chunk : WF_vars(Saves(i))
  /\ \A w \in Poller : WF_vars(Works(w))

-----------------------------------------------------------------------------
(* Properties.                                                             *)

HoldsJob(w, j) == worker[w].pc # "poll" /\ worker[w].job = j
OnDisk(p) == file[p.chunk] = p.take

(* A chunk whose audio is no longer on disk has been through whisper and   *)
(* its text was written first, whatever died, failed or was retried.       *)
AudioGoneOnlyAfterHeard ==
  \A p \in saved : file[p.chunk] = 0 => p \in heard

(* Privacy mode: "chunks are written but not transcribed automatically":   *)
(* no job but the user's own, through stops, crashes and recoveries.       *)
PrivacyQueuesNothing ==
  session.privacy =>
    \A j \in Job : jobs[j].status # "ABSENT" => jobs[j].payload = ManualPass

(* "on startup, any ACTIVE session with complete chunks is recoverable":   *)
(* once the app is up after a crash, a recovery pass is in the table for a *)
(* session that has chunks left, however often the app died, unless the    *)
(* very start that found the session died between two of its steps.        *)
CrashedSessionsRecovered ==
  (/\ Up /\ session.state \in {"CRASHED", "RECOVERED"}
   /\ ~session.privacy /\ ~interrupted
   /\ \E i \in Chunk : row[i] = "COMPLETE")
    => \E j \in Job : /\ jobs[j].status # "ABSENT"
                      /\ jobs[j].payload = RecoveryPass

(* What no text was written for, a full pass still finds, whatever was     *)
(* cleaned up, failed or died before it: a pass that comes to NO_AUDIO     *)
(* leaves nothing unheard.                                                 *)
UnheardIsFound ==
  \A p \in saved : p \in heard \/ row[p.chunk] = "COMPLETE"

(* A pass over a private recording that ran to its end has left the text   *)
(* of its k-th chunk in the k-th place, whatever attempts failed or died   *)
(* before it and whatever chunks were saved while it ran.                  *)
PrivatePassWritten ==
  \A w \in Poller :
    session.privacy /\ At(w, "complete") =>
      \A i \in worker[w].plan :
        transcript[Cardinality({k \in worker[w].plan : k < i})] =
          PieceOf(i, 1)

(* Every chunk that was saved in a session that is not private is          *)
(* eventually transcribed.                                                 *)
EveryChunkHeard ==
  \A p \in Piece : p \in saved /\ ~session.privacy ~> p \in heard

-----------------------------------------------------------------------------
(* The table as the pool of tasks that JobQueue implements: a job is taken *)
(* while a loop works on it, and lost when its row is RUNNING without one. *)
TaskOf(status) ==
  CASE status = "ABSENT" -> "none"
    [] status = "PENDING" -> "waiting"
    [] status = "RUNNING" -> "lost"
    [] OTHER -> "over"

PoolTask ==
  [j \in Job |-> IF \E w \in Poller : HoldsJob(w, j) THEN "taken"
                ELSE TaskOf(jobs[j].status)]

PoolHold == [w \in Poller |-> {j \in Job : HoldsJob(w, j)}]

Pool == INSTANCE JobPool WITH Worker <- Poller,
                              task <- PoolTask, hold <- PoolHold

(* Recording and transcription use the queue as a pool: whatever a stop, a *)
(* request, a recovery, an error or a crash does to the table, one loop    *)
(* works on a job at a time, it alone lets go of it, and a job that is     *)
(* over never comes back.                                                  *)
PoolSpec == Pool!Spec
=============================================================================
