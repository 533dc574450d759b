------------------------------ MODULE Recorder -------------------------------
(***************************************************************************)
(* The recorder page: its status, the MediaRecorder it drives, the         *)
(* interval that rotates chunks, the one that counts seconds and stops at  *)
(* the limit, the flushes on their way to the main process, and the calls  *)
(* of stopRecording in progress (apps/web/src/pages/RecorderPage.tsx).     *)
(*                                                                         *)
(* React hands a callback the values of the render that made it: whether a *)
(* stopRecording knows the session depends on who calls it.  The page's    *)
(* IPC calls reach the main process in the order they are made and take    *)
(* effect there at once; what happens inside it is the subject of Capture. *)
(***************************************************************************)
EXTENDS Naturals, FiniteSets

CONSTANTS
  ChunkUnits, \* data events between two rotations
  Limit,      \* maxRecordingSeconds
  MaxTakes,   \* bound: how often Record is pressed
  MaxPauses,  \* bound: how often Pause is pressed
  MaxFaults   \* bound: errors of devices, disk and IPC

ASSUME RecorderAssumption ==
  /\ ChunkUnits \in Nat \ {0} /\ Limit \in Nat \ {0}
  /\ MaxTakes \in Nat /\ MaxPauses \in Nat /\ MaxFaults \in Nat

VARIABLES
  status, error, open,  \* what the page shows; whether it is mounted
  sid,      \* the page has a session id
  start,    \* startRecording waits for: none, mic, ipc
  rec,      \* the MediaRecorder: none, inactive, recording, paused
  event,    \* its stop event is still to come
  ticks,    \* the seconds interval: off, blind, sees (the session)
  rotates,  \* the chunk interval is set
  stray,    \* intervals of an earlier take that nobody can clear
  seconds, elapsed, \* secondsRef; data events since the last rotation
  units,    \* data events so far, over all takes
  buf, index, \* currentChunkRef, chunkIndexRef
  saves,    \* flushes in progress: index and data
  disk,     \* chunk files of the lecture, by index
  lost,     \* data that was reported lost or dropped
  stops,    \* calls of stopRecording in progress
  session,  \* state of the RecordingSession
  takes, first, resumed, pauses, faults \* bounds and history

pageVars == <<status, error, open>>
timeVars == <<ticks, rotates, stray, seconds, elapsed>>
dataVars == <<units, buf, index, saves, disk, lost>>
histVars == <<takes, first, resumed, pauses, faults>>
vars == <<pageVars, sid, start, rec, event, timeVars, dataVars, stops, session,
          histVars>>

Index == 0 .. (MaxTakes * (Limit + 2))

Init ==
  /\ status = "idle" /\ error = FALSE /\ open = TRUE
  /\ sid = FALSE /\ start = "none" /\ rec = "none" /\ event = FALSE
  /\ ticks = "off" /\ rotates = FALSE /\ stray = FALSE
  /\ seconds = 0 /\ elapsed = 0
  /\ units = 0 /\ buf = {} /\ index = 0 /\ saves = {}
  /\ disk = [i \in Index |-> {}] /\ lost = {}
  /\ stops = {} /\ session = "none"
  /\ takes = 0 /\ first = 1 /\ resumed = FALSE /\ pauses = 0 /\ faults = 0

Fault == faults < MaxFaults /\ faults' = faults + 1

(* The buttons the page shows.                                             *)
ShowsRecord == open /\ status \in {"idle", "error"}
ShowsPause == open /\ status = "recording"
ShowsResume == open /\ status = "paused"
ShowsStop == ShowsPause \/ ShowsResume
ShowsBack == open /\ status = "done"
ShowsRetry == open /\ error

-----------------------------------------------------------------------------
(* startRecording                                                          *)

Record ==
  /\ ShowsRecord /\ takes < MaxTakes
  /\ status' = "requesting" /\ error' = FALSE
  /\ start' = "mic" /\ takes' = takes + 1
  /\ UNCHANGED <<open, sid, rec, event, timeVars, dataVars, stops, session,
                 first, resumed, pauses, faults>>

(* No permission, no track, or the session cannot be started.              *)
StartFails ==
  /\ start # "none" /\ Fault
  /\ start' = "none"
  /\ status' = "error" /\ error' = TRUE
  /\ UNCHANGED <<open, sid, rec, event, timeVars, dataVars, stops, session,
                 takes, first, resumed, pauses>>

(* The microphone is granted and the main process starts the session.      *)
MicGranted ==
  /\ start = "mic"
  /\ start' = "ipc" /\ session' = "ACTIVE"
  /\ UNCHANGED <<pageVars, sid, rec, event, timeVars, dataVars, stops,
                 histVars>>

(* Its answer: the session id is kept, the refs are reset, a MediaRecorder *)
(* records and the intervals are set.  Intervals that are still running    *)
(* are forgotten, not cleared, and nobody asks whether the page is open.   *)
(* A stop event of the take before was delivered in the meantime.          *)
SessionStarted ==
  /\ start = "ipc" /\ ~event
  /\ start' = "none" /\ sid' = TRUE
  /\ rec' = "recording"
  /\ stray' = (stray \/ ticks # "off")
  /\ ticks' = "blind" /\ rotates' = TRUE
  /\ seconds' = 0 /\ elapsed' = 0
  /\ buf' = {} /\ lost' = lost \cup buf /\ index' = 0
  /\ status' = "recording"
  /\ first' = units + 1 /\ resumed' = FALSE
  /\ UNCHANGED <<error, open, event, units, saves, disk, stops, session, takes,
                 pauses, faults>>

(* new MediaRecorder throws: the session stays as it is.                   *)
RecorderFails ==
  /\ start = "ipc" /\ Fault
  /\ start' = "none" /\ sid' = TRUE
  /\ status' = "error" /\ error' = TRUE
  /\ UNCHANGED <<open, rec, event, timeVars, dataVars, stops, session, takes,
                 first, resumed, pauses>>

-----------------------------------------------------------------------------
(* stopRecording                                                           *)

(* Up to its await: intervals are cleared and the recorder is stopped.  If *)
(* it is inactive already and its event was delivered, none will come.     *)
StopRecording(knows) ==
  /\ ticks' = "off" /\ rotates' = FALSE
  /\ status' = "stopping"
  /\ event' = (event \/ rec \in {"recording", "paused"})
  /\ rec' = IF rec = "none" THEN rec ELSE "inactive"
  /\ stops' = stops \cup {[pc |-> IF event' THEN "event" ELSE "hung",
                           knows |-> knows]}

(* Variant: the button's callback is that of the first render.             *)
StopPressedBlind ==
  /\ ShowsStop
  /\ StopRecording(FALSE)
  /\ UNCHANGED <<error, open, sid, start, stray, seconds, elapsed, dataVars,
                 session, histVars>>

(* The button belongs to the last render.                                  *)
StopPressed ==
  /\ ShowsStop
  /\ StopRecording(sid)
  /\ UNCHANGED <<error, open, sid, start, stray, seconds, elapsed, dataVars,
                 session, histVars>>

(* onstop: the last data is flushed under the current index.               *)
Flush(data) == saves' = saves \cup {[index |-> index, data |-> data]}

(* The last data event, onstop, and every stopRecording that waits for it: *)
(* one that knows the session sends recording:stop, another is done.       *)
StopEvent ==
  /\ event
  /\ event' = FALSE /\ units' = units + 1
  /\ Flush(buf \cup {units + 1}) /\ buf' = {}
  /\ LET waits == {s \in stops : s.pc = "event"}
         knows == {s \in waits : s.knows}
     IN  /\ stops' = (stops \ waits)
                         \cup {[s EXCEPT !.pc = "ipc"] : s \in knows}
         /\ session' = IF knows # {} THEN "STOPPED" ELSE session
         /\ status' = IF waits # knows THEN "done" ELSE status
  /\ UNCHANGED <<error, open, sid, start, rec, timeVars, index, disk, lost,
                 histVars>>

(* The main process answers; nobody looks at what.                         *)
StopAnswered ==
  /\ \E s \in stops : s.pc = "ipc" /\ stops' = stops \ {s}
  /\ status' = "done"
  /\ UNCHANGED <<error, open, sid, start, rec, event, timeVars, dataVars,
                 session, histVars>>

-----------------------------------------------------------------------------
(* Recording                                                               *)

RotationDue == rotates /\ elapsed >= ChunkUnits

(* A second passes: data of a recorder that records; the counter, which    *)
(* stops at the limit with the stopRecording its interval was made with.   *)
Second ==
  /\ ticks # "off" /\ ~RotationDue
  /\ seconds' = seconds + 1
  /\ IF rec = "recording"
     THEN units' = units + 1 /\ buf' = buf \cup {units + 1}
     ELSE UNCHANGED <<units, buf>>
  /\ elapsed' = IF rotates THEN elapsed + 1 ELSE 0
  /\ IF seconds' >= Limit THEN StopRecording(ticks = "sees")
     ELSE UNCHANGED <<status, event, rec, ticks, rotates, stops>>
  /\ UNCHANGED <<error, open, sid, start, stray, index, saves, disk, lost,
                 session, histVars>>

(* The same of a counter that survived its take; its callback is that of   *)
(* the first render.                                                       *)
StrayTick ==
  /\ stray /\ seconds < Limit
  /\ seconds' = seconds + 1
  /\ IF seconds' >= Limit THEN StopRecording(FALSE)
     ELSE UNCHANGED <<status, event, rec, ticks, rotates, stops>>
  /\ UNCHANGED <<error, open, sid, start, stray, elapsed, dataVars, session,
                 histVars>>

(* Variant: the index is counted when the chunk was saved, not before.     *)
RotateSameIndex ==
  /\ RotationDue \/ (stray /\ buf # {})
  /\ elapsed' = IF RotationDue THEN 0 ELSE elapsed
  /\ Flush(buf) /\ buf' = {}
  /\ index' \in {index, index + 1}
  /\ UNCHANGED <<pageVars, sid, start, rec, event, ticks, rotates, stray,
                 seconds, units, disk, lost, stops, session, histVars>>

(* Variant: what was flushed stays in the buffer.                          *)
RotateCopy ==
  /\ RotationDue \/ (stray /\ buf # {})
  /\ elapsed' = IF RotationDue THEN 0 ELSE elapsed
  /\ Flush(buf) /\ index' = index + 1
  /\ UNCHANGED <<pageVars, sid, start, rec, event, ticks, rotates, stray,
                 seconds, units, buf, disk, lost, stops, session, histVars>>

(* The chunk interval: empty the buffer, count the index, then flush.      *)
Rotate ==
  /\ RotationDue \/ (stray /\ buf # {})
  /\ elapsed' = IF RotationDue THEN 0 ELSE elapsed
  /\ IF buf = {} THEN UNCHANGED saves ELSE Flush(buf)
  /\ buf' = {} /\ index' = index + 1
  /\ UNCHANGED <<pageVars, sid, start, rec, event, ticks, rotates, stray,
                 seconds, units, disk, lost, stops, session, histVars>>

(* flushChunk after its await: without a session id the chunk is lost,     *)
(* else it is written; of one that is not, the page keeps nothing.         *)
Save(s) ==
  /\ saves' = saves \ {s}
  /\ IF sid THEN disk' = [disk EXCEPT ![s.index] = s.data] /\ UNCHANGED lost
     ELSE lost' = lost \cup s.data /\ UNCHANGED disk
  /\ UNCHANGED <<pageVars, sid, start, rec, event, timeVars, units, buf, index,
                 stops, session, histVars>>

SaveFails(s) ==
  /\ sid /\ Fault
  /\ saves' = saves \ {s} /\ lost' = lost \cup s.data
  /\ UNCHANGED <<pageVars, sid, start, rec, event, timeVars, units, buf, index,
                 disk, stops, session, takes, first, resumed, pauses>>

(* For want of space: the recording is stopped with the stopRecording of   *)
(* the first render.                                                       *)
DiskFull(s) ==
  /\ sid /\ Fault
  /\ saves' = saves \ {s} /\ lost' = lost \cup s.data
  /\ error' = TRUE
  /\ StopRecording(FALSE)
  /\ UNCHANGED <<open, sid, start, stray, seconds, elapsed, units, buf, index,
                 disk, session, takes, first, resumed, pauses>>

(* recorder.onerror, then its last data and onstop.                        *)
RecorderError ==
  /\ rec \in {"recording", "paused"} /\ Fault
  /\ rec' = "inactive"
  /\ status' = "error" /\ error' = TRUE
  /\ units' = units + 1
  /\ Flush(buf \cup {units + 1}) /\ buf' = {}
  /\ UNCHANGED <<open, sid, start, event, timeVars, index, disk, lost, stops,
                 session, takes, first, resumed, pauses>>

(* The microphone goes away: last data and onstop, and nobody is told.     *)
MicEnds ==
  /\ rec \in {"recording", "paused"} /\ Fault
  /\ rec' = "inactive"
  /\ units' = units + 1
  /\ Flush(buf \cup {units + 1}) /\ buf' = {}
  /\ UNCHANGED <<pageVars, sid, start, event, timeVars, index, disk, lost,
                 stops, session, takes, first, resumed, pauses>>

-----------------------------------------------------------------------------
(* The buttons.  pause and resume of a recorder that is inactive throw.    *)

PausePressed ==
  /\ ShowsPause /\ rec = "recording" /\ pauses < MaxPauses
  /\ pauses' = pauses + 1
  /\ rec' = "paused" /\ ticks' = "off" /\ rotates' = FALSE
  /\ status' = "paused"
  /\ session' = IF sid THEN "PAUSED" ELSE session
  /\ UNCHANGED <<error, open, sid, start, event, stray, seconds, elapsed,
                 dataVars, stops, takes, first, resumed, faults>>

(* Only the seconds interval is set again.                                 *)
ResumePressed ==
  /\ ShowsResume /\ rec = "paused"
  /\ rec' = "recording" /\ status' = "recording"
  /\ ticks' = IF sid THEN "sees" ELSE "blind"
  /\ session' = IF sid THEN "ACTIVE" ELSE session
  /\ resumed' = TRUE
  /\ UNCHANGED <<error, open, sid, start, event, rotates, stray, seconds,
                 elapsed, dataVars, stops, takes, first, pauses, faults>>

(* reset: Back when done, Retry in the error alert, whatever the status.   *)
Reset ==
  /\ ShowsBack \/ ShowsRetry
  /\ status' = "idle" /\ error' = FALSE
  /\ sid' = FALSE /\ seconds' = 0
  /\ UNCHANGED <<open, start, rec, event, ticks, rotates, stray, elapsed,
                 dataVars, stops, session, histVars>>

(* The page is left: its intervals are cleared and the tracks stopped,     *)
(* which stops the recorder; the session is not.                           *)
Leave ==
  /\ open /\ open' = FALSE
  /\ ticks' = "off" /\ rotates' = FALSE
  /\ event' = (event \/ rec \in {"recording", "paused"})
  /\ rec' = IF rec = "none" THEN rec ELSE "inactive"
  /\ UNCHANGED <<status, error, sid, start, stray, seconds, elapsed, dataVars,
                 stops, session, histVars>>

-----------------------------------------------------------------------------
Next ==
  \/ Record \/ StartFails \/ MicGranted \/ SessionStarted \/ RecorderFails
  \/ StopPressed \/ StopEvent \/ StopAnswered
  \/ Second \/ StrayTick \/ Rotate
  \/ \E s \in saves : Save(s) \/ SaveFails(s) \/ DiskFull(s)
  \/ RecorderError \/ MicEnds
  \/ PausePressed \/ ResumePressed \/ Reset \/ Leave

Spec == Init /\ [][Next]_vars

-----------------------------------------------------------------------------
(* "Chunks written directly to disk": in the first take of a lecture no    *)
(* data disappears unreported, however rotations, pauses, the stop event,  *)
(* saves in flight, errors and leaving the page interleave: no two flushes *)
(* share an index.                                                         *)
AudioKept ==
  takes <= 1 =>
    1 .. units = buf \cup lost \cup (UNION {s.data : s \in saves})
                     \cup (UNION {disk[i] : i \in Index})

(* "Rotate chunk": the buffer of a take that was never paused holds no     *)
(* more than one chunk, and before the first pause each flush on its way   *)
(* to the disk holds one at most, with the data of the stop: what a crash  *)
(* loses is that much and no more for each of them.  How many flushes a    *)
(* slow disk keeps waiting nothing bounds.                                 *)
MemoryBounded ==
  /\ ~resumed => Cardinality(buf) <= ChunkUnits
  /\ pauses = 0 => \A s \in saves : Cardinality(s.data) <= ChunkUnits + 1

(* Without faults, and before the limit, a recording that is shown as      *)
(* saved has ended its session, although the page is done in two ways.     *)
DoneIsStopped ==
  status = "done" /\ faults = 0 /\ seconds < Limit => session = "STOPPED"

(* "Recording saved. Transcription queued.": a page that is done has ended *)
(* its session, which is what queues the transcription.                    *)
DoneMeansStopped == status = "done" /\ faults = 0 => session = "STOPPED"
=============================================================================
