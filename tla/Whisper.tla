------------------------------- MODULE Whisper --------------------------------
(***************************************************************************)
(* One transcription job of services/whisperWorker.ts from the inside:     *)
(* ffmpeg and whisper.cpp as child processes, the WAV file between them,   *)
(* the timeout that aborts the job, and the segments it writes             *)
(* (services/transcript.ts).  Capture takes all this for one step.         *)
(*                                                                         *)
(* A chunk has one segment of text or is silent; segments are numbered in  *)
(* the order they are written.                                             *)
(***************************************************************************)
EXTENDS Naturals, Sequences, FiniteSets

CONSTANTS
  Lecture,   \* lectures that may exist
  Old,       \* those transcribed before the application was started
  NChunks,   \* bound: audio chunks of a lecture
  MaxPasses  \* bound: jobs that are claimed

Chunk == 1 .. NChunks
Index == 0 .. NChunks - 1

ASSUME WhisperAssumption ==
  /\ NChunks \in Nat \ {0} /\ MaxPasses \in Nat
  /\ IsFiniteSet(Lecture) /\ Old \subseteq Lecture

VARIABLES
  state,  \* Lecture.state, "NONE" before the row exists
  text,   \* TranscriptSegment.text by lecture and index: the chunk it was
          \* heard in, 0 without a row
  edited, \* TranscriptSegment.editedText, 0 for null
  pass,   \* the job in progress: lecture, chunks that were not heard yet,
          \* next segment index, AbortSignal, the WAV file on disk; of one
          \* that is DONE, what it left unheard
  passes

passVars == <<pass, passes>>
whisperVars == <<state, text, edited, passVars>>

Fresh == [pc |-> "idle", lecture |-> 0, live |-> FALSE, todo |-> <<>>,
          seg |-> 0, aborted |-> FALSE, wav |-> FALSE, done |-> FALSE]

WhisperInit ==
  /\ state = [l \in Lecture |-> IF l \in Old THEN "READY" ELSE "NONE"]
  /\ text = [l \in Lecture |-> [k \in Index |-> IF l \in Old THEN k + 1
                                              ELSE 0]]
  /\ edited = [l \in Lecture |-> [k \in Index |-> 0]]
  /\ pass = Fresh /\ passes = 0

At(pc) == pass.pc = pc
Step(pc) == pass' = [pass EXCEPT !.pc = pc]

(* JobQueue.fail, JobQueue.complete; the timer and controller are dropped. *)
Failed == [Fresh EXCEPT !.wav = pass.wav]
Completed == [Failed EXCEPT !.done = TRUE, !.todo = pass.todo]

-----------------------------------------------------------------------------
(* processTranscribeJob                                                    *)

(* A job of a lecture that was recorded.                                   *)
Claim(l) ==
  /\ At("idle") /\ passes < MaxPasses
  /\ state[l] \notin {"NONE", "PENDING"}
  /\ passes' = passes + 1
  /\ \E live \in BOOLEAN :
       pass' = [Fresh EXCEPT !.pc = "resolve", !.lecture = l, !.live = live]
  /\ UNCHANGED <<state, text, edited>>

(* No model that is ready and sound, no chunk, no lecture.                 *)
Refuse ==
  /\ At("resolve")
  /\ pass' = Failed
  /\ UNCHANGED <<state, text, edited, passes>>

(* The chunk of a live job, or the complete ones in the order recorded.    *)
Resolve ==
  /\ At("resolve")
  /\ \E plan \in SUBSET Chunk \ {{}} :
       /\ pass.live => Cardinality(plan) = 1
       /\ pass' = [pass EXCEPT
            !.pc = "chunk",
            !.todo = SelectSeq([i \in Chunk |-> i], LAMBDA i : i \in plan)]
  /\ UNCHANGED <<state, text, edited, passes>>

(* The next chunk; one whose file is missing is passed over.               *)
NextChunk ==
  /\ At("chunk") /\ pass.todo # <<>> /\ ~pass.aborted
  /\ \/ Step("convert")
     \/ pass' = [pass EXCEPT !.todo = Tail(@)]
  /\ UNCHANGED <<state, text, edited, passes>>

(* ffmpeg ends well.                                                       *)
Converted ==
  /\ At("convert") /\ ~pass.aborted
  /\ pass' = [pass EXCEPT !.pc = "infer", !.wav = TRUE]
  /\ UNCHANGED <<state, text, edited, passes>>

(* There is none, it cannot be started, it fails, or the abort killed it;  *)
(* what it wrote so far may be there.                                      *)
ConvertFails ==
  /\ At("convert")
  /\ \E w \in BOOLEAN : pass' = [pass EXCEPT !.pc = "catch", !.wav = w]
  /\ UNCHANGED <<state, text, edited, passes>>

(* whisper.cpp ends well and its output is read; the WAV file is removed.  *)
(* A silent chunk has no segments and is not written.                      *)
Inferred ==
  /\ At("infer") /\ ~pass.aborted
  /\ \/ pass' = [pass EXCEPT !.pc = "insert", !.wav = FALSE]
     \/ pass' = [pass EXCEPT !.pc = "chunk", !.wav = FALSE, !.todo = Tail(@)]
  /\ UNCHANGED <<state, text, edited, passes>>

(* There is no binary, it fails, its output is no JSON, or it was killed.  *)
InferFails ==
  /\ At("infer")
  /\ Step("catch")
  /\ UNCHANGED <<state, text, edited, passes>>

(* Variant: the upsert replaces the row, its editedText included.          *)
InsertReplaces ==
  /\ At("insert")
  /\ LET l == pass.lecture
         c == Head(pass.todo)
     IN  /\ text' = [text EXCEPT ![l][pass.seg] = c]
         /\ edited' = [edited EXCEPT ![l][pass.seg] = 0]
  /\ pass' = [pass EXCEPT !.pc = "chunk", !.todo = Tail(@), !.seg = @ + 1]
  /\ UNCHANGED <<state, passes>>

(* bulkInsert: upsert at the next index; editedText is left alone.         *)
Insert ==
  /\ At("insert")
  /\ LET l == pass.lecture
         c == Head(pass.todo)
     IN  text' = [text EXCEPT ![l][pass.seg] = c]
  /\ pass' = [pass EXCEPT !.pc = "chunk", !.todo = Tail(@), !.seg = @ + 1]
  /\ UNCHANGED <<state, edited, passes>>

InsertFails ==
  /\ At("insert")
  /\ Step("catch")
  /\ UNCHANGED <<state, text, edited, passes>>

(* Variant: an aborted loop is taken for one that came to its end.         *)
FinishAnyway ==
  /\ At("chunk") /\ (pass.todo = <<>> \/ pass.aborted)
  /\ pass' = Completed
  /\ state' = IF pass.live THEN state
              ELSE [state EXCEPT ![pass.lecture] = "READY"]
  /\ UNCHANGED <<text, edited, passes>>

(* After the loop: an aborted job has failed, whatever it wrote; a full    *)
(* pass makes its lecture READY.                                           *)
Finish ==
  /\ At("chunk") /\ (pass.todo = <<>> \/ pass.aborted)
  /\ pass' = IF pass.aborted THEN Failed ELSE Completed
  /\ state' = IF pass.live \/ pass.aborted THEN state
              ELSE [state EXCEPT ![pass.lecture] = "READY"]
  /\ UNCHANGED <<text, edited, passes>>

(* catch: the WAV file that was being worked on is removed.                *)
Catch ==
  /\ At("catch")
  /\ pass' = Fresh
  /\ UNCHANGED <<state, text, edited, passes>>

(* Ten minutes after the claim, wherever the job is.                       *)
Timeout ==
  /\ ~At("idle") /\ ~pass.aborted
  /\ pass' = [pass EXCEPT !.aborted = TRUE]
  /\ UNCHANGED <<state, text, edited, passes>>

Transcribes ==
  \/ \E l \in Lecture : Claim(l)
  \/ Refuse \/ Resolve \/ NextChunk \/ Converted \/ ConvertFails
  \/ Inferred \/ InferFails \/ Insert \/ InsertFails \/ Finish \/ Catch
  \/ Timeout

-----------------------------------------------------------------------------
(* A job that ended left no WAV file behind, and one that is DONE, after   *)
(* which its lecture is READY, heard every chunk that had audio: an abort  *)
(* between two steps never passes for the end of the loop.                 *)
PassEndsWell ==
  At("idle") => ~pass.wav /\ (pass.done => pass.todo = <<>>)
=============================================================================
