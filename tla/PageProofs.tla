----------------------------- MODULE PageProofs -----------------------------
(***************************************************************************)
(* Proofs about the two pages that talk to the main process all the time.  *)
(*                                                                         *)
(* Recorder, for any length of chunks and recordings and any number of     *)
(* takes, pauses and faults: what the page holds in memory, what becomes   *)
(* of the data of the first take, and what "done" means.                   *)
(*                                                                         *)
(* Chat, for any courses, questions and history calls in flight together:  *)
(* what the table keeps of a question and its reply, and what the page     *)
(* comes to show of the table.                                             *)
(***************************************************************************)
EXTENDS Recorder, Chat, FiniteSetTheorems, WellFoundedInduction, TLAPS

Active == rec \in {"recording", "paused"}

(* One action at a time: the flush of one save, whatever becomes of it.    *)
Saves == \E s \in saves : Save(s) \/ SaveFails(s) \/ DiskFull(s)

-----------------------------------------------------------------------------
(* Memory.                                                                 *)

(* While a take was never paused its two intervals are set and cleared     *)
(* together, so data comes only while it is being rotated, and there is no *)
(* more of it than seconds since the last rotation.                        *)
Rotated ==
  /\ elapsed \in 0 .. ChunkUnits
  /\ IsFiniteSet(buf)
  /\ ~resumed => /\ ticks # "off" => rotates
                 /\ Cardinality(buf) <= elapsed

LEMMA RotatedInit == Init => Rotated
  BY FS_EmptySet, RecorderAssumption DEF Init, Rotated

LEMMA RotatedStep ==
  ASSUME Rotated, [Next]_vars
  PROVE  Rotated'
<1> USE RecorderAssumption
<1>0. Cardinality({}) = 0 /\ IsFiniteSet({}) /\ Cardinality(buf) \in Nat
  BY FS_EmptySet, FS_CardinalityType DEF Rotated
<1>1. CASE SessionStarted
  BY <1>0, <1>1 DEF SessionStarted, Rotated
<1>2. CASE Second
  <2>1. /\ rotates => elapsed < ChunkUnits
        /\ elapsed' = IF rotates THEN elapsed + 1 ELSE 0
        /\ ticks # "off" /\ UNCHANGED resumed
    BY <1>2 DEF Second, RotationDue, Rotated, histVars
  <2>2. IsFiniteSet(buf') /\ Cardinality(buf') <= Cardinality(buf) + 1
    <3>1. buf' = buf \cup {units + 1} \/ buf' = buf
      BY <1>2 DEF Second
    <3>2. /\ IsFiniteSet(buf \cup {units + 1})
          /\ Cardinality(buf \cup {units + 1}) <= Cardinality(buf) + 1
      <4>1. IsFiniteSet(buf)
        BY DEF Rotated
      <4>2. Cardinality(buf \cup {units + 1}) =
              IF units + 1 \in buf THEN Cardinality(buf)
              ELSE Cardinality(buf) + 1
        BY <4>1, FS_AddElement
      <4>3. IsFiniteSet(buf \cup {units + 1})
        BY <4>1, FS_AddElement
      <4> QED
        BY <1>0, <4>2, <4>3
    <3> QED
      BY <1>0, <3>1, <3>2 DEF Rotated
  <2>3. ticks' # "off" => UNCHANGED rotates
    BY <1>2 DEF Second, StopRecording
  <2>4. Cardinality(buf') \in Nat
    BY <2>2, FS_CardinalityType
  <2> QED
    BY <1>0, <2>1, <2>2, <2>3, <2>4 DEF Rotated
<1>3. CASE StopEvent \/ Rotate \/ RecorderError \/ MicEnds
  <2>1. buf' = {} /\ UNCHANGED <<ticks, rotates, resumed>>
        /\ (elapsed' = elapsed \/ elapsed' = 0)
    BY <1>3 DEF StopEvent, Rotate, RecorderError, MicEnds, timeVars, histVars
  <2> QED
    BY <1>0, <2>1 DEF Rotated
<1>4. CASE \/ StopPressed \/ StrayTick \/ PausePressed \/ Leave \/ Saves
           \/ ResumePressed
  <2>1. /\ UNCHANGED <<buf, elapsed>>
        /\ UNCHANGED <<ticks, rotates, resumed>> \/ ticks' = "off"
           \/ resumed'
        /\ ~resumed' => ~resumed
    BY <1>4 DEF StopPressed, StrayTick, PausePressed, Leave, Saves, Save,
                SaveFails, DiskFull, ResumePressed, StopRecording, timeVars,
                dataVars, histVars
  <2> QED
    BY <2>1 DEF Rotated
<1>5. CASE \/ Record \/ StartFails \/ MicGranted \/ RecorderFails
           \/ StopAnswered \/ Reset \/ UNCHANGED vars
  <2>1. UNCHANGED <<buf, elapsed, ticks, rotates, resumed>>
    BY <1>5 DEF Record, StartFails, MicGranted, RecorderFails, StopAnswered,
                Reset, vars, timeVars, dataVars, histVars
  <2> QED
    BY <2>1 DEF Rotated
<1> QED
  BY <1>1, <1>2, <1>3, <1>4, <1>5 DEF Next, Saves

(* Before the first pause a flush takes what the buffer held, and one data *)
(* event more when the recorder stops.                                     *)
Small(data) == IsFiniteSet(data) /\ Cardinality(data) <= ChunkUnits + 1
Flushed ==
  /\ pauses \in Nat
  /\ pauses = 0 => ~resumed /\ rec # "paused" /\ \A s \in saves : Small(s.data)

LEMMA SmallFlush ==
  ASSUME Rotated, ~resumed
  PROVE  Small(buf) /\ Small(buf \cup {units + 1})
<1>1. IsFiniteSet(buf) /\ Cardinality(buf) <= ChunkUnits
      /\ Cardinality(buf) \in Nat
  BY FS_CardinalityType, RecorderAssumption DEF Rotated
<1>2. /\ IsFiniteSet(buf \cup {units + 1})
      /\ Cardinality(buf \cup {units + 1}) =
           IF units + 1 \in buf THEN Cardinality(buf)
           ELSE Cardinality(buf) + 1
  BY <1>1, FS_AddElement
<1> QED
  BY <1>1, <1>2, RecorderAssumption DEF Small

LEMMA FlushedStep ==
  ASSUME Rotated, Flushed, [Next]_vars
  PROVE  Flushed'
<1>1. CASE StopEvent \/ RecorderError \/ MicEnds \/ Rotate
  <2>1. /\ UNCHANGED <<pauses, resumed>> /\ rec' \in {rec, "inactive"}
        /\ \/ saves' = saves
           \/ saves' = saves \cup {[index |-> index, data |-> buf]}
           \/ saves' = saves \cup
                          {[index |-> index, data |-> buf \cup {units + 1}]}
    BY <1>1 DEF StopEvent, RecorderError, MicEnds, Rotate, Flush, histVars
  <2> QED
    BY <2>1, SmallFlush DEF Flushed
<1>2. CASE PausePressed
  BY <1>2 DEF PausePressed, Flushed
<1>3. CASE ResumePressed
  BY <1>3 DEF ResumePressed, Flushed, dataVars
<1>4. CASE SessionStarted
  BY <1>4 DEF SessionStarted, Flushed
<1>5. CASE \/ Record \/ StartFails \/ MicGranted \/ RecorderFails
           \/ StopPressed \/ StopAnswered \/ Second \/ StrayTick \/ Saves
           \/ Reset \/ Leave \/ UNCHANGED vars
  <2>1. /\ UNCHANGED <<pauses, resumed>> /\ saves' \subseteq saves
        /\ rec' \in {rec, "none", "inactive"}
    BY <1>5 DEF Record, StartFails, MicGranted, RecorderFails, StopPressed,
                StopAnswered, Second, StrayTick, Saves, Save, SaveFails,
                DiskFull, Reset, Leave, StopRecording, vars, dataVars,
                histVars
  <2> QED
    BY <2>1 DEF Flushed
<1> QED
  BY <1>1, <1>2, <1>3, <1>4, <1>5 DEF Next, Saves

(* The buffer of a take that was never paused holds no more than one       *)
(* chunk, and before the first pause each flush in flight no more than one *)
(* with the data of the stop, however takes, faults, stray intervals and   *)
(* flushes follow each other.                                              *)
THEOREM MemoryIsBounded == Spec => []MemoryBounded
<1>1. Init => Rotated /\ Flushed
  BY RotatedInit DEF Init, Flushed
<1>2. Rotated /\ Flushed /\ [Next]_vars => (Rotated /\ Flushed)'
  BY RotatedStep, FlushedStep
<1>3. Rotated /\ Flushed => MemoryBounded
  BY FS_CardinalityType, RecorderAssumption
     DEF Rotated, Flushed, Small, MemoryBounded
<1> QED
  BY <1>1, <1>2, <1>3, PTL DEF Spec

-----------------------------------------------------------------------------
(* Ranges.                                                                 *)

Stopper == [pc : {"event", "ipc", "hung"}, knows : BOOLEAN]
FlushType == [index : Nat, data : SUBSET Nat]

(* Where the variables range, as far as the proofs ask.                    *)
Types ==
  /\ sid \in BOOLEAN /\ stops \in SUBSET Stopper
  /\ rec \in {"none", "inactive", "recording", "paused"}
  /\ units \in Nat /\ index \in Nat
  /\ seconds \in Nat /\ elapsed \in Nat /\ faults \in Nat
  /\ takes \in 0 .. MaxTakes
  /\ saves \in SUBSET FlushType /\ disk \in [Index -> SUBSET Nat]
  /\ buf \in SUBSET Nat

LEMMA TypesInit == Init => Types
<1> SUFFICES ASSUME Init PROVE Types
  OBVIOUS
<1>1. disk \in [Index -> SUBSET Nat]
  BY DEF Init
<1>2. takes \in 0 .. MaxTakes
  BY RecorderAssumption DEF Init
<1> QED
  BY <1>1, <1>2 DEF Init, Types

LEMMA FlushTyped ==
  ASSUME Types, NEW data \in SUBSET Nat, Flush(data)
  PROVE  /\ saves' \in SUBSET FlushType
         /\ saves' = saves \cup {[index |-> index, data |-> data]}
         /\ [index |-> index, data |-> data] \in FlushType
<1>1. index \in Nat
  BY DEF Types
<1>2. [index |-> index, data |-> data] \in FlushType
  BY <1>1 DEF FlushType
<1> QED
  BY <1>2 DEF Types, Flush

(* stopRecording leaves the recorder inactive with its stop event to come, *)
(* if it was not stopped before, and is one more call under way.           *)
LEMMA StopRecordingIs ==
  ASSUME Types, NEW k \in BOOLEAN, StopRecording(k)
  PROVE  /\ stops' \in SUBSET Stopper
         /\ \E s \in Stopper :
              /\ stops' = stops \cup {s} /\ s.knows = k
              /\ s.pc = IF event' THEN "event" ELSE "hung"
         /\ ticks' = "off" /\ ~rotates' /\ status' = "stopping"
         /\ event' <=> event \/ Active
         /\ rec' = IF rec = "none" THEN rec ELSE "inactive"
<1> DEFINE s == [pc |-> IF event' THEN "event" ELSE "hung", knows |-> k]
<1>1. s \in Stopper /\ s.knows = k /\ s.pc = IF event' THEN "event" ELSE "hung"
  BY DEF Stopper
<1>2. stops' = stops \cup {s}
  BY DEF StopRecording
<1> HIDE DEF s
<1>3. stops' \in SUBSET Stopper
  BY <1>1, <1>2 DEF Types
<1> QED
  BY <1>1, <1>2, <1>3 DEF StopRecording, Active

(* The recorder's last data is flushed.                                    *)
LastData ==
  /\ units' = units + 1
  /\ Flush(buf \cup {units + 1}) /\ buf' = {}
  /\ UNCHANGED <<index, disk, lost, ticks, rotates, stray, seconds, elapsed,
                 resumed, takes, start, sid, open>>

LEMMA LastDataTyped ==
  ASSUME Types, LastData
  PROVE  /\ units' \in Nat
         /\ saves' \in SUBSET FlushType /\ buf' \in SUBSET Nat
<1>1. units + 1 \in Nat /\ buf \cup {units + 1} \in SUBSET Nat
  BY DEF Types
<1> QED
  BY <1>1, FlushTyped DEF LastData

LEMMA TypesStep ==
  ASSUME Types, [Next]_vars
  PROVE  Types'
<1> USE RecorderAssumption
<1>1. CASE Second
  <2>1. /\ UNCHANGED <<sid, index, saves, disk, takes, faults>>
        /\ seconds' = seconds + 1
        /\ elapsed' = elapsed + 1 \/ elapsed' = 0
        /\ \/ units' = units + 1 /\ buf' = buf \cup {units + 1}
           \/ UNCHANGED <<units, buf>>
        /\ StopRecording(ticks = "sees") \/ UNCHANGED <<stops, rec>>
    BY <1>1 DEF Second, histVars
  <2>2. stops' \in SUBSET Stopper
        /\ rec' \in {"none", "inactive", "recording", "paused"}
    BY <2>1, StopRecordingIs DEF Types
  <2>3. units' \in Nat /\ buf' \in SUBSET Nat
    <3>1. units \in Nat /\ units + 1 \in Nat /\ buf \in SUBSET Nat
      BY DEF Types
    <3>2. buf \cup {units + 1} \in SUBSET Nat
      BY <3>1
    <3> QED
      BY <2>1, <3>1, <3>2
  <2>4. seconds' \in Nat /\ elapsed' \in Nat
    BY <2>1 DEF Types
  <2> QED
    BY <2>1, <2>2, <2>3, <2>4 DEF Types
<1>2. CASE StrayTick
  <2>1. /\ UNCHANGED <<sid, index, saves, disk, takes, faults, units, buf,
                       elapsed>>
        /\ seconds' = seconds + 1
        /\ StopRecording(FALSE) \/ UNCHANGED <<stops, rec>>
    BY <1>2 DEF StrayTick, histVars, dataVars
  <2>2. stops' \in SUBSET Stopper
        /\ rec' \in {"none", "inactive", "recording", "paused"}
    BY <2>1, StopRecordingIs DEF Types
  <2> QED
    BY <2>1, <2>2 DEF Types
<1>3. CASE StopPressed
  <2>1. /\ UNCHANGED <<sid, index, saves, disk, takes, faults, units, buf,
                       elapsed, seconds>>
        /\ StopRecording(sid)
    BY <1>3 DEF StopPressed, histVars, dataVars
  <2> QED
    BY <2>1, StopRecordingIs DEF Types
<1>4. ASSUME NEW s \in saves, Save(s) \/ SaveFails(s) \/ DiskFull(s)
      PROVE  Types'
  <2>1. /\ UNCHANGED <<sid, index, takes, units, buf, elapsed, seconds>>
        /\ saves' = saves \ {s}
        /\ faults' \in {faults, faults + 1}
        /\ StopRecording(FALSE) \/ UNCHANGED <<stops, rec>>
        /\ disk' = [disk EXCEPT ![s.index] = s.data] \/ UNCHANGED disk
    BY <1>4 DEF Save, SaveFails, DiskFull, histVars, timeVars, Fault
  <2>2. stops' \in SUBSET Stopper
        /\ rec' \in {"none", "inactive", "recording", "paused"}
    BY <2>1, StopRecordingIs DEF Types
  <2>3. s.data \in SUBSET Nat
    BY DEF Types, FlushType
  <2>4. disk' \in [Index -> SUBSET Nat]
    BY <2>1, <2>3 DEF Types
  <2> QED
    BY <2>1, <2>2, <2>4 DEF Types
<1>5. CASE StopEvent
  <2>1. /\ LastData
        /\ UNCHANGED <<rec, faults>>
    BY <1>5 DEF StopEvent, LastData, timeVars, histVars
  <2>2. \A s \in Stopper : [s EXCEPT !.pc = "ipc"] \in Stopper
    BY DEF Stopper
  <2>3. stops' \in SUBSET Stopper
    <3> DEFINE waits == {s \in stops : s.pc = "event"}
               knows == {s \in waits : s.knows}
    <3>1. stops' = (stops \ waits) \cup {[s EXCEPT !.pc = "ipc"] : s \in knows}
      BY <1>5 DEF StopEvent
    <3> QED
      BY <2>2, <3>1 DEF Types
  <2> QED
    BY <2>1, <2>3, LastDataTyped DEF Types, LastData
<1>6. CASE RecorderError \/ MicEnds
  <2>1. /\ LastData /\ UNCHANGED stops /\ rec' = "inactive"
        /\ faults' = faults + 1
    BY <1>6 DEF RecorderError, MicEnds, LastData, timeVars, Fault, pageVars
  <2> QED
    BY <2>1, LastDataTyped DEF Types, LastData
<1>7. CASE Rotate
  <2>1. /\ UNCHANGED <<sid, rec, stops, units, seconds, faults, takes, disk>>
        /\ index' = index + 1 /\ buf' = {} /\ elapsed' \in {elapsed, 0}
        /\ Flush(buf) \/ UNCHANGED saves
    BY <1>7 DEF Rotate, histVars
  <2>2. saves' \in SUBSET FlushType
    BY <2>1, FlushTyped DEF Types
  <2> QED
    BY <2>1, <2>2 DEF Types
<1>8. CASE \/ Record \/ StartFails \/ MicGranted \/ SessionStarted
           \/ RecorderFails \/ StopAnswered \/ PausePressed \/ ResumePressed
           \/ Reset \/ Leave \/ UNCHANGED vars
  <2>1. /\ UNCHANGED <<units, saves, disk>>
        /\ index' \in {index, 0} /\ seconds' \in {seconds, 0}
        /\ elapsed' \in {elapsed, 0} /\ faults' \in {faults, faults + 1}
        /\ buf' \subseteq buf /\ stops' \subseteq stops
        /\ sid' \in {sid, TRUE, FALSE}
        /\ rec' \in {rec, "inactive", "recording", "paused"}
    BY <1>8 DEF Record, StartFails, MicGranted, SessionStarted, RecorderFails,
                StopAnswered, PausePressed, ResumePressed, Reset, Leave, vars,
                Fault, timeVars, dataVars, histVars
  <2>2. takes' \in 0 .. MaxTakes
    BY <1>8 DEF Record, StartFails, MicGranted, SessionStarted, RecorderFails,
                StopAnswered, PausePressed, ResumePressed, Reset, Leave, vars,
                histVars, Types
  <2>3. sid' \in BOOLEAN /\ stops' \in SUBSET Stopper
        /\ buf' \in SUBSET Nat
    BY <2>1 DEF Types
  <2>4. index' \in Nat /\ seconds' \in Nat /\ elapsed' \in Nat
        /\ faults' \in Nat
    BY <2>1 DEF Types
  <2>5. rec' \in {"none", "inactive", "recording", "paused"}
    BY <2>1 DEF Types
  <2> QED
    BY <2>1, <2>2, <2>3, <2>4, <2>5 DEF Types
<1> QED
  BY <1>1, <1>2, <1>3, <1>4, <1>5, <1>6, <1>7, <1>8 DEF Next

-----------------------------------------------------------------------------
(* Done.                                                                   *)

(* Without faults the page knows its session from the moment it records,   *)
(* nothing outlives a take, and one stopRecording at most is under way.    *)
(* One that does not know the session was called at the limit.             *)
Orderly ==
  /\ ~error /\ ~stray
  /\ status = "requesting" <=> start # "none"
  /\ status # "error"
  /\ status \in {"recording", "paused"} => sid
  /\ Active => status \in {"recording", "paused"}
  /\ ticks # "off" => status = "recording"
  /\ \A s, t \in stops : s.pc # "hung" /\ t.pc # "hung" => s = t
  /\ \A s \in stops : s.pc # "hung" =>
       /\ status = "stopping"
       /\ s.pc = "event" => s.knows \/ seconds >= Limit
       /\ s.pc = "ipc" => session = "STOPPED"
  /\ status = "done" => session = "STOPPED" \/ seconds >= Limit

Healthy == faults = 0 => Orderly

LEMMA HealthyStep ==
  ASSUME Types, Healthy, [Next]_vars
  PROVE  Healthy'
<1> SUFFICES ASSUME faults' = 0
             PROVE  Orderly'
  BY DEF Healthy
<1> USE RecorderAssumption
<1>0. /\ ~Fault /\ faults = 0 /\ Orderly
  <2>1. ~Fault
    BY DEF Fault, Types
  <2>2. faults = 0
    BY <2>1 DEF Next, Record, StartFails, MicGranted, SessionStarted,
                RecorderFails, StopPressed, StopEvent, StopAnswered, Second,
                StrayTick, Rotate, Save, SaveFails, DiskFull, RecorderError,
                MicEnds, PausePressed, ResumePressed, Reset, Leave, vars,
                histVars
  <2> QED
    BY <2>1, <2>2 DEF Healthy
<1> USE DEF Active, Orderly
<1>1. CASE Record
  BY <1>0, <1>1 DEF Record, ShowsRecord, timeVars
<1>2. CASE MicGranted
  BY <1>0, <1>2 DEF MicGranted, pageVars, timeVars
<1>3. CASE SessionStarted
  BY <1>0, <1>3 DEF SessionStarted
<1>4. CASE StopPressed
  <2>1. StopRecording(sid) /\ sid
        /\ UNCHANGED <<error, stray, sid, start, seconds, session>>
    BY <1>0, <1>4 DEF StopPressed, ShowsStop, ShowsPause, ShowsResume
  <2>2. PICK s \in Stopper : stops' = stops \cup {s} /\ s.knows = sid
                             /\ s.pc = IF event' THEN "event" ELSE "hung"
    BY <2>1, StopRecordingIs
  <2>3. /\ ticks' = "off" /\ status' = "stopping"
        /\ rec' \notin {"recording", "paused"}
    BY <2>1, StopRecordingIs
  <2>4. \A t \in stops : t.pc = "hung"
    BY <1>0, <1>4 DEF StopPressed, ShowsStop, ShowsPause, ShowsResume
  <2>5. start = "none"
    BY <1>0, <1>4 DEF StopPressed, ShowsStop, ShowsPause, ShowsResume
  <2> QED
    BY <1>0, <2>1, <2>2, <2>3, <2>4, <2>5
<1>5. CASE Second
  <2>1. CASE seconds' >= Limit
    <3>1. StopRecording(ticks = "sees") /\ status = "recording"
          /\ UNCHANGED <<error, stray, sid, start, session>>
      BY <1>0, <1>5, <2>1 DEF Second
    <3>2. PICK s \in Stopper : stops' = stops \cup {s}
                               /\ s.pc = IF event' THEN "event" ELSE "hung"
      BY <3>1, StopRecordingIs
    <3>3. /\ ticks' = "off" /\ status' = "stopping"
          /\ rec' \notin {"recording", "paused"}
      BY <3>1, StopRecordingIs
    <3>4. \A t \in stops : t.pc = "hung"
      BY <1>0, <3>1
    <3> QED
      BY <1>0, <2>1, <3>1, <3>2, <3>3, <3>4
  <2>2. CASE ~(seconds' >= Limit)
    <3>1. UNCHANGED <<error, stray, sid, start, session, status, rec, ticks,
                      stops>> /\ status = "recording"
      BY <1>0, <1>5, <2>2 DEF Second
    <3> QED
      BY <1>0, <3>1
  <2> QED
    BY <2>1, <2>2
<1>6. CASE StopEvent
  <2> DEFINE waits == {s \in stops : s.pc = "event"}
             knows == {s \in waits : s.knows}
  <2>1. /\ UNCHANGED <<error, stray, sid, start, rec, ticks, seconds>>
        /\ stops' = (stops \ waits)
                        \cup {[s EXCEPT !.pc = "ipc"] : s \in knows}
        /\ session' = IF knows # {} THEN "STOPPED" ELSE session
        /\ status' = IF waits # knows THEN "done" ELSE status
    BY <1>6 DEF StopEvent, timeVars
  <2>2. CASE waits = {}
    <3>1. knows = {} /\ stops' = stops
      BY <2>1, <2>2
    <3> QED
      BY <1>0, <2>1, <2>2, <3>1
  <2>3. CASE waits # {}
    <3>1. PICK w \in waits : TRUE
      BY <2>3
    <3>2. /\ w \in stops /\ w.pc = "event" /\ status = "stopping"
          /\ \A t \in stops : t.pc # "hung" => t = w
      BY <1>0, <3>1
    <3>3. waits = {w}
      BY <3>1, <3>2
    <3>4. CASE w.knows
      <4>1. knows = {w}
        BY <3>3, <3>4
      <4>2. session' = "STOPPED" /\ status' = "stopping"
        BY <2>1, <3>2, <3>3, <4>1
      <4>3. \A t \in stops' : t.pc # "hung" => t = [w EXCEPT !.pc = "ipc"]
        BY <2>1, <3>2, <3>3, <4>1
      <4>4. [w EXCEPT !.pc = "ipc"].pc = "ipc"
        BY <3>2 DEF Types, Stopper
      <4> QED
        BY <1>0, <2>1, <3>2, <4>2, <4>3, <4>4
    <3>5. CASE ~w.knows
      <4>1. knows = {}
        BY <3>3, <3>5
      <4>2. session' = session /\ status' = "done" /\ seconds >= Limit
        BY <1>0, <2>1, <3>2, <3>3, <3>5, <4>1
      <4>3. \A t \in stops' : t.pc = "hung"
        BY <2>1, <3>2, <3>3, <4>1
      <4> QED
        BY <1>0, <2>1, <3>2, <4>2, <4>3
    <3> QED
      BY <3>4, <3>5
  <2> QED
    BY <2>2, <2>3
<1>7. CASE StopAnswered
  <2>1. PICK s \in stops : s.pc = "ipc" /\ stops' = stops \ {s}
    BY <1>7 DEF StopAnswered
  <2>2. /\ status' = "done"
        /\ UNCHANGED <<error, stray, sid, start, rec, ticks, seconds, session>>
    BY <1>7 DEF StopAnswered, timeVars
  <2>3. status = "stopping" /\ session = "STOPPED"
        /\ \A t \in stops' : t.pc = "hung"
    BY <1>0, <2>1
  <2> QED
    BY <1>0, <2>2, <2>3
<1>8. CASE StrayTick
  BY <1>0, <1>8 DEF StrayTick
<1>9. CASE Rotate
  BY <1>0, <1>9 DEF Rotate, pageVars
<1>10. ASSUME NEW s \in saves, Save(s) \/ SaveFails(s) \/ DiskFull(s)
       PROVE  Orderly'
  <2>1. Save(s)
    BY <1>0, <1>10 DEF SaveFails, DiskFull
  <2> QED
    BY <1>0, <2>1 DEF Save, pageVars, timeVars
<1>11. CASE StartFails \/ RecorderFails \/ RecorderError \/ MicEnds
  BY <1>0, <1>11 DEF StartFails, RecorderFails, RecorderError, MicEnds
<1>12. CASE PausePressed
  BY <1>0, <1>12 DEF PausePressed, ShowsPause
<1>13. CASE ResumePressed
  BY <1>0, <1>13 DEF ResumePressed, ShowsResume
<1>14. CASE Reset
  BY <1>0, <1>14 DEF Reset, ShowsBack, ShowsRetry
<1>15. CASE Leave
  BY <1>0, <1>15 DEF Leave
<1>16. CASE UNCHANGED vars
  BY <1>0, <1>16 DEF vars, pageVars, timeVars
<1> QED
  BY <1>1, <1>2, <1>3, <1>4, <1>5, <1>6, <1>7, <1>8, <1>9, <1>10, <1>11,
     <1>12, <1>13, <1>14, <1>15, <1>16 DEF Next

(* Without faults and before the limit, a recording that is shown as saved *)
(* has ended its session, for any number of takes, pauses and resets.      *)
THEOREM DoneIsSaved == Spec => []DoneIsStopped
<1>1. Init => Healthy
  BY DEF Init, Healthy, Orderly, Active
<1>2. Types /\ Healthy /\ [Next]_vars => Healthy'
  BY HealthyStep
<1>3. Types /\ Healthy => DoneIsStopped
  BY RecorderAssumption DEF Types, Healthy, Orderly, DoneIsStopped
<1> QED
  BY <1>1, <1>2, <1>3, TypesInit, TypesStep, PTL DEF Spec

-----------------------------------------------------------------------------
(* The data of the first take.                                             *)

(* A flush of the recorder is still to come.                               *)
Flushable == Active \/ event

(* Before the first recorder there is nothing.                             *)
Blank ==
  rec = "none" =>
    /\ ticks = "off" /\ ~rotates /\ ~event
    /\ status \notin {"recording", "paused"}
    /\ stops = {} /\ saves = {} /\ buf = {} /\ lost = {} /\ units = 0
    /\ \A i \in Index : disk[i] = {}

(* There is one recorder, and once it is stopped it stays so.              *)
Once ==
  /\ ~stray
  /\ start # "none" => rec = "none" /\ ~error
  /\ takes = 0 => rec = "none" /\ start = "none"
  /\ event => rec = "inactive" /\ ~rotates
  /\ Active => /\ stops = {} /\ ~error /\ status \in {"recording", "paused"}
               /\ index + elapsed <= seconds /\ seconds < Limit

(* What is flushed next goes where nothing was flushed before.             *)
Places ==
  /\ Flushable => /\ index <= Limit
                  /\ \A s \in saves : s.index < index
                  /\ \A i \in Index : i >= index => disk[i] = {}
  /\ ~Flushable => buf = {}
  /\ \A s \in saves : s.index \in Index /\ disk[s.index] = {}
  /\ \A s, t \in saves : s.index = t.index => s = t

(* Every unit is in one of the places it can be.                           *)
Stored == (UNION {s.data : s \in saves})
            \cup (UNION {disk[i] : i \in Index})
AllKept == 1 .. units = buf \cup lost \cup Stored

Parts == Blank /\ Once /\ Places /\ AllKept
FirstTake == takes <= 1 => Parts

LEMMA UnionIs ==
  ASSUME NEW S, NEW D
  PROVE  \A x : x \in (UNION {s.data : s \in S})
                           \cup (UNION {D[i] : i \in Index})
                 <=> \/ \E s \in S : x \in s.data
                     \/ \E i \in Index : x \in D[i]
<1>1. \A x : x \in UNION {s.data : s \in S} <=> \E s \in S : x \in s.data
  BY Zenon
<1>2. \A x : x \in UNION {D[i] : i \in Index} <=> \E i \in Index : x \in D[i]
  BY SMT
<1> QED
  BY <1>1, <1>2

LEMMA StoredIs ==
  \A x : x \in Stored <=> \/ \E s \in saves : x \in s.data
                          \/ \E i \in Index : x \in disk[i]
  BY UnionIs DEF Stored

LEMMA PlacesFit ==
  ASSUME Types, takes # 0
  PROVE  \A i \in Nat : i <= Limit => i \in Index
<1>1. MaxTakes \in Nat \ {0}
  BY RecorderAssumption DEF Types
<1>2. Limit + 2 \in Nat
  BY RecorderAssumption
<1>3. ASSUME NEW a \in Nat \ {0}, NEW b \in Nat
      PROVE  b <= a * b
  OBVIOUS
<1>4. Limit + 2 <= MaxTakes * (Limit + 2) /\ MaxTakes * (Limit + 2) \in Nat
  BY <1>1, <1>2, <1>3
<1> DEFINE top == MaxTakes * (Limit + 2)
<1> HIDE DEF top
<1> QED
  BY <1>4, RecorderAssumption DEF Index, top

(* The last flush of the recorder goes to its place.                       *)
LEMMA LastFlush ==
  ASSUME Types, Parts, takes # 0, LastData, Flushable, rec' = "inactive",
         ~event', takes <= 1,
         event => UNCHANGED <<rec>>, UNCHANGED takes
  PROVE  Parts'
<1> DEFINE d == buf \cup {units + 1}
           f == [index |-> index, data |-> d]
<1>1. d \in SUBSET Nat /\ units + 1 \in Nat /\ units \in Nat /\ index \in Nat
  <2>1. /\ units \in Nat /\ units + 1 \in Nat
        /\ buf \in SUBSET Nat /\ index \in Nat
    BY DEF Types
  <2>2. buf \cup {units + 1} \in SUBSET Nat
    BY <2>1
  <2> QED
    BY <2>1, <2>2
<1>2. /\ saves' = saves \cup {f} /\ f.index = index /\ f.data = d
      /\ units' = units + 1 /\ buf' = {}
      /\ UNCHANGED <<index, disk, lost, stray, start>>
  BY DEF LastData, Flush
<1>3. index \in Index /\ disk[index] = {} /\ \A s \in saves : s.index < index
  BY <1>1, PlacesFit DEF Parts, Places, Types
<1> HIDE DEF d, f
<1>4. \A s \in saves' : s.index \in Index /\ disk[s.index] = {}
  BY <1>2, <1>3 DEF Parts, Places
<1>5. \A s, t \in saves' : s.index = t.index => s = t
  <2>1. \A s \in saves : s.index # index
    BY <1>1, <1>3 DEF Types, FlushType
  <2> QED
    BY <1>2, <2>1 DEF Parts, Places
<1>6. Places'
  BY <1>2, <1>4, <1>5 DEF Places, Flushable, Active
<1>7. Stored' = Stored \cup d
  <2>1. \A x : x \in Stored' <=> x \in Stored \/ x \in d
    <3>1. \A x : (\E s \in saves' : x \in s.data)
                   <=> (\E s \in saves : x \in s.data) \/ x \in d
      BY <1>2
    <3>2. \A x : x \in Stored' <=> \/ \E s \in saves' : x \in s.data
                                   \/ \E i \in Index : x \in disk'[i]
      BY UnionIs DEF Stored
    <3> QED
      BY <1>2, <3>1, <3>2, StoredIs
  <2> QED
    BY <2>1
<1>8. AllKept'
  <2>1. 1 .. units + 1 = (1 .. units) \cup {units + 1}
    BY <1>1
  <2>2. 1 .. units = buf \cup lost \cup Stored
    BY DEF Parts, AllKept
  <2>3. 1 .. units + 1 = {} \cup lost \cup (Stored \cup d)
    BY <2>1, <2>2 DEF d
  <2> QED
    BY <1>2, <1>7, <2>3 DEF AllKept
<1>9. Once'
  BY <1>2, RecorderAssumption DEF Parts, Once, Flushable, Active
<1>10. Blank'
  BY DEF Blank
<1> QED
  BY <1>6, <1>8, <1>9, <1>10 DEF Parts

(* stopRecording, while nothing is flushed.                                *)
LEMMA StopKeeps ==
  ASSUME Types, Parts, NEW k \in BOOLEAN, StopRecording(k), rec # "none",
         UNCHANGED <<stray, start, index, buf, lost, units, disk, saves,
                     takes>>
  PROVE  Parts'
<1>1. /\ ~rotates' /\ (event' <=> event \/ Active) /\ rec' = "inactive"
  BY StopRecordingIs
<1>2. Flushable' <=> Flushable
  BY <1>1 DEF Flushable, Active
<1>3. Places'
  BY <1>2 DEF Parts, Places
<1>4. Blank' /\ Once'
  BY <1>1 DEF Parts, Blank, Once, Active
<1>5. AllKept'
  BY DEF Parts, AllKept, Stored
<1> QED
  BY <1>3, <1>4, <1>5 DEF Parts

(* A flush arrives: in a file, or among what is lost.                      *)
LEMMA SaveKeeps ==
  ASSUME Types, Parts, NEW s \in saves, saves' = saves \ {s},
         \/ disk' = [disk EXCEPT ![s.index] = s.data] /\ UNCHANGED lost
         \/ lost' = lost \cup s.data /\ UNCHANGED disk,
         Flushable' <=> Flushable, UNCHANGED <<units, buf, index>>
  PROVE  Places' /\ AllKept' /\ rec # "none"
<1>0. rec # "none"
  BY DEF Parts, Blank
<1>1. /\ s.index \in Index /\ disk[s.index] = {}
      /\ \A t \in saves : t.index \in Nat
      /\ \A t \in saves' : t \in saves /\ t.index # s.index
      /\ disk \in [Index -> SUBSET Nat]
  BY DEF Parts, Places, Types, FlushType
<1>4. \A x : (\E t \in saves : x \in t.data)
               <=> x \in s.data \/ \E t \in saves' : x \in t.data
  <2>1. \A t : t \in saves <=> t = s \/ t \in saves'
    OBVIOUS
  <2> QED
    BY <2>1, Zenon
<1>2. CASE disk' = [disk EXCEPT ![s.index] = s.data] /\ UNCHANGED lost
  <2>1. \A i \in Index : disk'[i] = IF i = s.index THEN s.data ELSE disk[i]
    BY <1>1, <1>2
  <2>2. Places'
    <3>1. Flushable => s.index < index /\ index \in Nat
      BY DEF Parts, Places, Types
    <3>2. \A i \in Index : Flushable /\ i >= index => disk'[i] = {}
      BY <1>1, <2>1, <3>1 DEF Parts, Places
    <3> QED
      BY <1>1, <2>1, <3>2 DEF Parts, Places
  <2>3. \A x : x \in Stored' <=> x \in Stored
    <3>1. \A x : x \in Stored' <=> \/ \E t \in saves' : x \in t.data
                                   \/ \E i \in Index : x \in disk'[i]
      BY UnionIs DEF Stored
    <3>2. ASSUME NEW x
          PROVE  (\E i \in Index : x \in disk'[i])
                   <=> x \in s.data \/ \E i \in Index : x \in disk[i]
      BY <1>1, <2>1
    <3>3. \A x : (\E t \in saves : x \in t.data)
                   <=> x \in s.data \/ \E t \in saves' : x \in t.data
      BY <1>4
    <3> QED
      BY <3>1, <3>2, <3>3, StoredIs
  <2>4. Stored' = Stored
    BY <2>3
  <2> QED
    BY <1>0, <1>2, <2>2, <2>4 DEF Parts, AllKept
<1>3. CASE lost' = lost \cup s.data /\ UNCHANGED disk
  <2>1. Places'
    BY <1>1, <1>3 DEF Parts, Places
  <2>2. \A x : x \in lost' \cup Stored' <=> x \in lost \cup Stored
    <3>1. \A x : x \in Stored' <=> \/ \E t \in saves' : x \in t.data
                                   \/ \E i \in Index : x \in disk'[i]
      BY UnionIs DEF Stored
    <3>2. \A x : (\E t \in saves : x \in t.data)
                   <=> x \in s.data \/ \E t \in saves' : x \in t.data
      BY <1>4
    <3> QED
      BY <1>3, <3>1, <3>2, StoredIs
  <2>3. buf \cup lost' \cup Stored' = buf \cup lost \cup Stored
    BY <2>2
  <2> QED
    BY <1>0, <2>1, <2>3 DEF Parts, AllKept
<1> QED
  BY <1>2, <1>3

(* A chunk is rotated out while the recorder records.                      *)
LEMMA RotateKeeps ==
  ASSUME Types, Parts, takes # 0, Rotate
  PROVE  Parts'
<1> USE RecorderAssumption
<1>1. /\ RotationDue /\ rotates /\ elapsed >= ChunkUnits
      /\ elapsed' = 0 /\ index' = index + 1 /\ buf' = {}
      /\ UNCHANGED <<rec, event, stray, start, error, status, seconds, stops,
                     units, disk, lost, takes, ticks, rotates>>
  BY DEF Rotate, RotationDue, Parts, Once, pageVars, histVars
<1>2. index \in Nat /\ elapsed \in Nat /\ seconds \in Nat
  BY DEF Types
<1>3. rec # "none" /\ ~event
  BY <1>1 DEF Parts, Blank, Once
<1>4. Active => index' + elapsed' <= seconds /\ index' <= Limit
                /\ index + elapsed <= seconds /\ index <= Limit
  BY <1>1, <1>2 DEF Parts, Once
<1>5. Blank' /\ Once'
  BY <1>1, <1>3, <1>4 DEF Parts, Blank, Once, Active
<1>6. Flushable' <=> Flushable
  BY <1>1 DEF Flushable, Active
<1>7. CASE buf = {}
  <2>1. UNCHANGED <<saves, buf>>
    BY <1>1, <1>7 DEF Rotate
  <2>2. AllKept'
    BY <1>1, <2>1 DEF Parts, AllKept, Stored
  <2>3. Places'
    BY <1>1, <1>2, <1>3, <1>4, <1>6, <2>1
    DEF Parts, Places, Flushable, Types, FlushType, Index
  <2> QED
    BY <1>5, <2>2, <2>3 DEF Parts
<1>8. CASE buf # {}
  <2> DEFINE f == [index |-> index, data |-> buf]
  <2>1. saves' = saves \cup {f} /\ f.index = index /\ f.data = buf
    BY <1>8 DEF Rotate, Flush
  <2> HIDE DEF f
  <2>2. Active /\ Flushable
    BY <1>3, <1>8 DEF Parts, Places, Flushable
  <2>3. /\ index \in Index /\ disk[index] = {}
        /\ \A s \in saves : s.index < index /\ s.index \in Nat
    BY <1>2, <1>4, <2>2, PlacesFit DEF Parts, Places, Types, FlushType
  <2>4. \A s \in saves' : s.index < index' /\ s.index \in Index
                          /\ disk[s.index] = {}
    BY <1>1, <1>2, <2>1, <2>3 DEF Parts, Places
  <2>5. \A s, t \in saves' : s.index = t.index => s = t
    BY <1>2, <2>1, <2>3 DEF Parts, Places
  <2>6. \A i \in Index : i >= index' => disk[i] = {}
    BY <1>1, <1>2, <2>2 DEF Parts, Places, Index
  <2>7. Places'
    BY <1>1, <1>4, <1>6, <2>2, <2>4, <2>5, <2>6 DEF Places
  <2>8. \A x : x \in Stored' <=> x \in Stored \/ x \in buf
    <3>1. \A x : (\E s \in saves' : x \in s.data)
                   <=> (\E s \in saves : x \in s.data) \/ x \in buf
      BY <2>1
    <3>2. \A x : x \in Stored' <=> \/ \E s \in saves' : x \in s.data
                                   \/ \E i \in Index : x \in disk'[i]
      BY UnionIs DEF Stored
    <3> QED
      BY <1>1, <3>1, <3>2, StoredIs
  <2>9. {} \cup lost \cup Stored' = buf \cup lost \cup Stored
    BY <2>8
  <2> QED
    BY <1>1, <1>5, <2>7, <2>9 DEF Parts, AllKept
<1> QED
  BY <1>7, <1>8

(* A second passes: the recorder adds to the buffer.                       *)
LEMMA SecondKeeps ==
  ASSUME Types, Parts, Second
  PROVE  Parts'
<1> USE RecorderAssumption
<1>1. /\ ticks # "off" /\ ~RotationDue /\ seconds' = seconds + 1
      /\ elapsed' = IF rotates THEN elapsed + 1 ELSE 0
      /\ UNCHANGED <<error, start, stray, index, saves, disk, lost, takes>>
  BY DEF Second, histVars
<1>2. index \in Nat /\ elapsed \in Nat /\ seconds \in Nat /\ units \in Nat
  BY DEF Types
<1>3. rec # "none"
  BY <1>1 DEF Parts, Blank
<1>4. /\ rec' # "none" /\ (Flushable' <=> Flushable)
      /\ event' => rec' = "inactive" /\ ~rotates'
      /\ Active' => /\ Active /\ stops' = {} /\ status' = status
                    /\ seconds' < Limit
  <2>1. CASE seconds' >= Limit
    <3>1. StopRecording(ticks = "sees")
      BY <2>1 DEF Second
    <3>2. /\ ~rotates' /\ (event' <=> event \/ Active) /\ rec' = "inactive"
      BY <1>3, <3>1, StopRecordingIs
    <3> QED
      BY <3>2 DEF Flushable, Active
  <2>2. CASE ~(seconds' >= Limit)
    <3>1. UNCHANGED <<status, event, rec, ticks, rotates, stops>>
      BY <2>2 DEF Second
    <3> QED
      BY <1>1, <1>2, <1>3, <2>2, <3>1 DEF Flushable, Active, Parts, Once
  <2> QED
    BY <2>1, <2>2
<1>5. index + elapsed <= seconds => index + elapsed' <= seconds'
  BY <1>1, <1>2
<1>6. Blank' /\ Once'
  BY <1>1, <1>3, <1>4, <1>5 DEF Parts, Blank, Once
<1>7. Places'
  <2>1. ~Flushable => buf' = {}
    BY DEF Second, Flushable, Active, Parts, Places
  <2> QED
    BY <1>1, <1>4, <2>1 DEF Parts, Places
<1>8. AllKept'
  <2>1. CASE units' = units + 1 /\ buf' = buf \cup {units + 1}
    <3>1. 1 .. units + 1 = (1 .. units) \cup {units + 1}
      BY <1>2
    <3> QED
      BY <1>1, <2>1, <3>1 DEF Parts, AllKept, Stored
  <2>2. CASE UNCHANGED <<units, buf>>
    BY <1>1, <2>2 DEF Parts, AllKept, Stored
  <2> QED
    BY <2>1, <2>2 DEF Second
<1> QED
  BY <1>6, <1>7, <1>8 DEF Parts

LEMMA FirstTakeStep ==
  ASSUME Types, FirstTake, [Next]_vars
  PROVE  FirstTake'
<1> SUFFICES ASSUME takes' <= 1
             PROVE  Parts'
  BY DEF FirstTake
<1> USE RecorderAssumption
<1>1. takes \in Nat /\ takes <= 1 /\ (takes' = takes \/ Record)
  <2>1. takes \in Nat
    BY DEF Types
  <2>2. CASE Record
    BY <2>1, <2>2 DEF Record
  <2>3. takes' = takes \/ Record
    BY DEF Next, StartFails, MicGranted, SessionStarted, RecorderFails,
           StopPressed, StopEvent, StopAnswered, Second, StrayTick, Rotate,
           Save, SaveFails, DiskFull, RecorderError, MicEnds, PausePressed,
           ResumePressed, Reset, Leave, vars, histVars
  <2> QED
    BY <2>1, <2>2, <2>3
<1>2. Parts /\ (rec # "none" => takes # 0)
  BY <1>1 DEF FirstTake, Parts, Once
<1>3. CASE Record
  <2>1. takes = 0 /\ rec = "none"
    BY <1>1, <1>2, <1>3 DEF Record
  <2> QED
    BY <1>2, <1>3, <2>1 DEF Record, timeVars, dataVars, Parts, Blank, Once,
       Places, AllKept, Stored, Flushable, Active
<1>4. CASE StartFails \/ MicGranted \/ RecorderFails
  <2>1. rec = "none" /\ takes # 0
    BY <1>2, <1>4 DEF StartFails, MicGranted, RecorderFails, Parts, Once
  <2> QED
    BY <1>1, <1>2, <1>4, <2>1
    DEF StartFails, MicGranted, RecorderFails, timeVars, dataVars, pageVars,
        histVars, Parts, Blank, Once, Places, AllKept, Stored, Flushable,
        Active
<1>5. CASE SessionStarted
  <2>1. rec = "none" /\ ~error /\ takes # 0
    BY <1>2, <1>5 DEF SessionStarted, Parts, Once
  <2>2. /\ rec' = "recording" /\ start' = "none" /\ status' = "recording"
        /\ index' = 0 /\ seconds' = 0 /\ elapsed' = 0 /\ buf' = {}
        /\ lost' = {} /\ saves' = {} /\ units' = 0 /\ stops' = {}
        /\ ~event' /\ ~stray' /\ ~error' /\ takes' # 0
        /\ \A i \in Index : disk'[i] = {}
    BY <1>2, <1>5, <2>1 DEF SessionStarted, Parts, Blank, Once
  <2>3. Blank' /\ Once' /\ Places'
    BY <2>2 DEF Blank, Once, Places, Flushable, Active
  <2>4. Stored' = {}
    <3>1. \A x : x \notin Stored'
      BY <2>2, UnionIs DEF Stored
    <3> QED
      BY <3>1
  <2>5. AllKept'
    BY <2>2, <2>4 DEF AllKept
  <2> QED
    BY <2>3, <2>5 DEF Parts
<1>6. CASE StopPressed
  <2>1. /\ StopRecording(sid) /\ rec # "none"
        /\ UNCHANGED <<stray, start, index, buf, lost, units, disk, saves,
                       takes>>
    BY <1>2, <1>6 DEF StopPressed, dataVars, histVars, ShowsStop, ShowsPause,
                      ShowsResume, Parts, Blank
  <2> QED
    BY <1>2, <2>1, StopKeeps DEF Types
<1>7. CASE StopEvent \/ RecorderError \/ MicEnds
  <2>1. /\ LastData /\ Flushable /\ rec' = "inactive" /\ ~event'
        /\ takes # 0 /\ UNCHANGED takes /\ (event => UNCHANGED rec)
    BY <1>2, <1>7 DEF StopEvent, RecorderError, MicEnds, LastData, timeVars,
       histVars, pageVars, Flushable, Active, Parts, Once
  <2> QED
    BY <1>1, <1>2, <2>1, LastFlush
<1>8. CASE Second
  BY <1>2, <1>8, SecondKeeps
<1>9. CASE Rotate
  <2>1. takes # 0
    BY <1>2, <1>9 DEF Rotate, RotationDue, Parts, Blank, Once
  <2> QED
    BY <1>2, <1>9, <2>1, RotateKeeps
<1>10. CASE StrayTick
  BY <1>2, <1>10 DEF StrayTick, Parts, Once
<1>11. ASSUME NEW s \in saves, Save(s) \/ SaveFails(s)
       PROVE  Parts'
  <2>1. /\ saves' = saves \ {s}
        /\ \/ disk' = [disk EXCEPT ![s.index] = s.data] /\ UNCHANGED lost
           \/ lost' = lost \cup s.data /\ UNCHANGED disk
        /\ UNCHANGED <<units, buf, index, rec, event, stray, start, error,
                       status, seconds, elapsed, stops, ticks, rotates, takes>>
    BY <1>11 DEF Save, SaveFails, pageVars, timeVars, histVars
  <2>2. Flushable' <=> Flushable
    BY <2>1 DEF Flushable, Active
  <2>3. Places' /\ AllKept' /\ rec # "none"
    BY <1>2, <2>1, <2>2, SaveKeeps
  <2> QED
    BY <1>2, <2>1, <2>3 DEF Parts, Blank, Once, Active
<1>12. ASSUME NEW s \in saves, DiskFull(s)
       PROVE  Parts'
  <2>1. /\ saves' = saves \ {s} /\ lost' = lost \cup s.data
        /\ StopRecording(FALSE)
        /\ UNCHANGED <<disk, units, buf, index, stray, start, takes>>
    BY <1>12 DEF DiskFull
  <2>2. /\ ~rotates' /\ (event' <=> event \/ Active)
        /\ rec' = IF rec = "none" THEN rec ELSE "inactive"
    BY <2>1, StopRecordingIs
  <2>3. Flushable' <=> Flushable
    BY <2>2 DEF Flushable, Active, Parts, Blank
  <2>4. Places' /\ AllKept' /\ rec # "none"
    BY <1>2, <2>1, <2>3, SaveKeeps
  <2> QED
    BY <1>2, <2>1, <2>2, <2>4 DEF Parts, Blank, Once, Active
<1>13. CASE PausePressed
  BY <1>2, <1>13 DEF PausePressed, ShowsPause, dataVars, Parts, Blank, Once,
     Places, AllKept, Stored, Flushable, Active
<1>14. CASE ResumePressed
  BY <1>2, <1>14 DEF ResumePressed, ShowsResume, dataVars, Parts, Blank, Once,
     Places, AllKept, Stored, Flushable, Active
<1>15. CASE Reset
  <2>1. ~Active
    BY <1>2, <1>15 DEF Reset, ShowsBack, ShowsRetry, Parts, Once
  <2> QED
    BY <1>2, <1>15, <2>1 DEF Reset, dataVars, histVars, Parts, Blank, Once,
       Places, AllKept, Stored, Flushable, Active
<1>16. CASE Leave
  <2>1. /\ ~rotates' /\ (event' <=> event \/ Active) /\ ~Active'
        /\ rec' = IF rec = "none" THEN rec ELSE "inactive"
        /\ ticks' = "off"
    BY <1>16 DEF Leave, Active
  <2>2. UNCHANGED <<status, error, stray, start, index, buf, lost, units,
                    disk, saves, stops, takes>>
    BY <1>16 DEF Leave, dataVars, histVars
  <2>3. Flushable' <=> Flushable
    BY <2>1 DEF Flushable
  <2>4. Places' /\ AllKept'
    BY <1>2, <2>2, <2>3 DEF Parts, Places, AllKept, Stored
  <2>5. Blank' /\ Once'
    BY <1>2, <2>1, <2>2 DEF Parts, Blank, Once, Active
  <2> QED
    BY <2>4, <2>5 DEF Parts
<1>17. CASE StopAnswered
  <2>1. ~Active
    BY <1>2, <1>17 DEF StopAnswered, Parts, Once
  <2> QED
    BY <1>2, <1>17, <2>1 DEF StopAnswered, timeVars, dataVars, histVars,
       Parts, Blank, Once, Places, AllKept, Stored, Flushable, Active
<1>18. CASE UNCHANGED vars
  BY <1>2, <1>18 DEF vars, pageVars, timeVars, dataVars, histVars, Parts,
     Blank, Once, Places, AllKept, Stored, Flushable, Active
<1> QED
  BY <1>3, <1>4, <1>5, <1>6, <1>7, <1>8, <1>9, <1>10, <1>11, <1>12, <1>13,
     <1>14, <1>15, <1>16, <1>17, <1>18 DEF Next

(* In the first take of a lecture no data disappears unreported, for any   *)
(* length, any rotations, pauses, faults and saves in flight.              *)
THEOREM FirstTakeKept == Spec => []AudioKept
<1>1. Init => FirstTake
  <2> SUFFICES ASSUME Init PROVE Parts
    BY DEF FirstTake
  <2>1. \A x : x \notin Stored
    BY StoredIs DEF Init
  <2>2. Stored = {}
    BY <2>1
  <2>3. AllKept
    BY <2>2 DEF Init, AllKept
  <2> QED
    BY <2>3 DEF Init, Parts, Blank, Once, Places, Flushable, Active
<1>2. Types /\ FirstTake /\ [Next]_vars => FirstTake'
  BY FirstTakeStep
<1>3. FirstTake => AudioKept
  BY DEF FirstTake, Parts, AllKept, Stored, AudioKept
<1> QED
  BY <1>1, <1>2, <1>3, TypesInit, TypesStep, PTL DEF Spec

-----------------------------------------------------------------------------
(* Questions and replies.                                                  *)

Question == [send : Send, role : {"user", "assistant"}, course : Shown]
Sent == [pc : {"idle", "user", "ground", "reply", "answer", "error",
               "refuse", "refused", "done", "failed"},
         course : Shown, mine : BOOLEAN]

(* Where the variables of the chat range, as far as the proof asks.        *)
ChatTypes ==
  /\ send \in [Send -> Sent]
  /\ rows \in Seq(Question)
  /\ page = [open |-> page.open, course |-> page.course,
             list |-> page.list, loading |-> page.loading,
             options |-> page.options]
  /\ page.course \in Shown /\ page.options \in SUBSET Course
  /\ table \in SUBSET Course /\ courses.rows \in SUBSET Course

(* A call whose question is not kept yet, or was refused, has no message   *)
(* in the table, one that is waiting for its reply has that question       *)
(* alone, in its course.                                                   *)
Unkept == {"idle", "user", "refuse", "refused"}
AtMostOnce(s) ==
  \A i, j \in DOMAIN rows :
    rows[i].send = s /\ rows[j].send = s /\ i < j =>
      /\ rows[i].role = "user" /\ rows[j].role = "assistant"
      /\ rows[i].course = rows[j].course
Alone(s) ==
  \E i \in DOMAIN rows :
    /\ rows[i] = [send |-> s, role |-> "user", course |-> send[s].course]
    /\ \A j \in DOMAIN rows : rows[j].send = s => j = i
Told(s) ==
  /\ AtMostOnce(s)
  /\ send[s].pc \in Unkept => \A i \in DOMAIN rows : rows[i].send # s
  /\ send[s].pc \notin Unkept => Has(rows, s, "user")
  /\ send[s].pc \in {"ground", "reply"} => Alone(s)

LEMMA ChatInits == ASSUME ChatInit
                   PROVE  ChatTypes /\ \A s \in Send : Told(s)
<1>1. send = [s \in Send |-> Quiet] /\ rows = <<>> /\ page = Closed
      /\ table \in SUBSET Course /\ courses = NotAsked
  BY DEF ChatInit
<1>2. ChatTypes
  BY <1>1 DEF ChatTypes, Quiet, Closed, NotAsked, Sent, Shown
<1>3. \A s \in Send : Told(s)
  BY <1>1 DEF Told, AtMostOnce, Quiet, Unkept
<1> QED
  BY <1>2, <1>3

(* What happens to the messages of a call when another row is appended.    *)
LEMMA AppendedRow ==
  ASSUME ChatTypes, NEW m \in Question, rows' = Append(rows, m)
  PROVE  /\ rows' \in Seq(Question) /\ Len(rows) \in Nat
         /\ DOMAIN rows = 1 .. Len(rows)
         /\ DOMAIN rows' = 1 .. Len(rows) + 1
         /\ rows'[Len(rows) + 1] = m
         /\ \A i \in DOMAIN rows : rows'[i] = rows[i]
BY DEF ChatTypes

(* A call with whose messages nothing happens.                             *)
LEMMA StaysTold ==
  ASSUME ChatTypes, NEW s \in Send, Told(s), UNCHANGED rows,
         \/ UNCHANGED <<send[s].pc, send[s].course>>
         \/ {send[s].pc, send'[s].pc} \subseteq Unkept
         \/ /\ send[s].pc \notin Unkept
            /\ send'[s].pc \notin Unkept \cup {"ground", "reply"}
         \/ /\ send[s].pc = "ground" /\ send'[s].pc = "reply"
            /\ send'[s].course = send[s].course
  PROVE  Told(s)'
BY DEF Told, AtMostOnce, Alone, Has, Unkept

LEMMA OthersTold ==
  ASSUME ChatTypes, NEW s \in Send, Told(s), NEW m \in Question,
         m.send # s, rows' = Append(rows, m),
         UNCHANGED <<send[s].pc, send[s].course>>
  PROVE  Told(s)'
<1>1. /\ DOMAIN rows \subseteq DOMAIN rows'
      /\ \A i \in DOMAIN rows' : rows'[i].send = s =>
           i \in DOMAIN rows
      /\ \A i \in DOMAIN rows : rows'[i] = rows[i]
  BY AppendedRow
<1>2. AtMostOnce(s)'
  BY <1>1 DEF Told, AtMostOnce
<1>3. Has(rows, s, "user") => Has(rows, s, "user")'
  BY <1>1 DEF Has
<1>4. Alone(s) => Alone(s)'
  BY <1>1 DEF Alone
<1> QED
  BY <1>1, <1>2, <1>3, <1>4 DEF Told

LEMMA KeepQuestionTold ==
  ASSUME ChatTypes, \A s \in Send : Told(s), NEW c \in Send, KeepQuestion(c)
  PROVE  ChatTypes' /\ \A s \in Send : Told(s)'
<1> DEFINE m == [send |-> c, role |-> "user", course |-> send[c].course]
<1>1. m \in Question /\ m.send = c /\ m.role = "user"
      /\ m.course = send[c].course
  BY DEF ChatTypes, Question, Sent
<1>2. rows' = Append(rows, m) /\ send[c].pc = "user"
      /\ UNCHANGED <<page, courses, table>>
  BY DEF KeepQuestion, Message
<1>3. /\ send' \in [Send -> Sent] /\ send'[c].pc = "ground"
      /\ send'[c].course = send[c].course
      /\ \A s \in Send : s # c => send'[s] = send[s]
  BY DEF KeepQuestion, Goes, ChatTypes, Sent
<1>m. m = [send |-> c, role |-> "user", course |-> send[c].course]
  OBVIOUS
<1> HIDE DEF m
<1>4. /\ DOMAIN rows = 1 .. Len(rows) /\ Len(rows) \in Nat
      /\ DOMAIN rows' = 1 .. Len(rows) + 1 /\ rows'[Len(rows) + 1] = m
      /\ \A i \in DOMAIN rows : rows'[i] = rows[i]
      /\ rows' \in Seq(Question)
  BY <1>1, <1>2, AppendedRow
<1>5. ChatTypes'
  BY <1>2, <1>3, <1>4 DEF ChatTypes
<1>6. \A i \in DOMAIN rows : rows[i].send # c
  BY <1>2 DEF Told, Unkept
<1>7. \A i \in DOMAIN rows' : rows'[i].send = c => i = Len(rows) + 1
  BY <1>4, <1>6
<1>8. Told(c)'
  <2>1. AtMostOnce(c)'
    BY <1>4, <1>7 DEF AtMostOnce
  <2>2. Has(rows, c, "user")'
    BY <1>1, <1>4 DEF Has
  <2>3. Alone(c)'
    BY <1>3, <1>4, <1>7, <1>m DEF Alone
  <2> QED
    BY <1>3, <2>1, <2>2, <2>3 DEF Told, Unkept
<1>9. ASSUME NEW s \in Send, s # c
      PROVE  Told(s)'
  BY <1>1, <1>2, <1>3, <1>9, OthersTold
<1> QED
  BY <1>5, <1>8, <1>9

LEMMA KeepReplyTold ==
  ASSUME ChatTypes, \A s \in Send : Told(s), NEW c \in Send, KeepReply(c)
  PROVE  ChatTypes' /\ \A s \in Send : Told(s)'
<1> DEFINE m == [send |-> c, role |-> "assistant",
                 course |-> send[c].course]
<1>1. m \in Question /\ m.send = c /\ m.role = "assistant"
      /\ m.course = send[c].course
  BY DEF ChatTypes, Question, Sent
<1>2. rows' = Append(rows, m) /\ send[c].pc = "reply"
      /\ UNCHANGED <<page, courses, table>>
  BY DEF KeepReply, Message
<1>3. /\ send' \in [Send -> Sent] /\ send'[c].pc = "answer"
      /\ \A s \in Send : s # c => send'[s] = send[s]
  BY DEF KeepReply, Goes, ChatTypes, Sent
<1> HIDE DEF m
<1>4. /\ DOMAIN rows = 1 .. Len(rows) /\ Len(rows) \in Nat
      /\ DOMAIN rows' = 1 .. Len(rows) + 1 /\ rows'[Len(rows) + 1] = m
      /\ \A i \in DOMAIN rows : rows'[i] = rows[i]
      /\ rows' \in Seq(Question)
  BY <1>1, <1>2, AppendedRow
<1>5. ChatTypes'
  BY <1>2, <1>3, <1>4 DEF ChatTypes
<1>6. Alone(c)
  BY <1>2 DEF Told
<1>7. PICK i \in DOMAIN rows :
        /\ rows[i] = [send |-> c, role |-> "user", course |-> send[c].course]
        /\ \A j \in DOMAIN rows : rows[j].send = c => j = i
  BY <1>6 DEF Alone
<1>8. /\ rows'[i].role = "user" /\ rows'[i].course = send[c].course
      /\ rows'[i].send = c /\ i \in DOMAIN rows'
  BY <1>4, <1>7
<1>9. \A j \in DOMAIN rows' : rows'[j].send = c =>
        j = i \/ j = Len(rows) + 1
  BY <1>4, <1>7
<1>10. Told(c)'
  <2>1. AtMostOnce(c)'
    BY <1>1, <1>4, <1>7, <1>8, <1>9 DEF AtMostOnce
  <2>2. Has(rows, c, "user")'
    BY <1>8 DEF Has
  <2> QED
    BY <1>3, <2>1, <2>2 DEF Told, Unkept
<1>11. ASSUME NEW s \in Send, s # c
       PROVE  Told(s)'
  BY <1>1, <1>2, <1>3, <1>11, OthersTold
<1> QED
  BY <1>5, <1>10, <1>11

LEMMA AskHistoryLeaves ==
  ASSUME ChatTypes, NEW c \in Course, NEW options \in SUBSET Course,
         Select(c, options)
  PROVE  /\ page' = [open |-> page'.open, course |-> page'.course,
                     list |-> page'.list, loading |-> page'.loading,
                     options |-> page'.options]
         /\ page'.course \in Shown /\ page'.options \in SUBSET Course
         /\ UNCHANGED <<table, gone, rows, send>>
BY DEF Select, ChatTypes, Shown, tables

LEMMA ChatStep ==
  ASSUME ChatTypes, \A s \in Send : Told(s), [ChatNext]_chatVars
  PROVE  ChatTypes' /\ \A s \in Send : Told(s)'
<1>1. CASE UNCHANGED <<rows, send, page, courses, table>>
  BY <1>1 DEF ChatTypes, Told, AtMostOnce, Alone
<1>2. CASE OpenPage
  <2>1. UNCHANGED <<rows, send, table>>
        /\ page' = [Closed EXCEPT !.open = TRUE]
        /\ courses'.rows = {}
    BY <1>2 DEF OpenPage, tables, NotAsked
  <2>2. ChatTypes'
    BY <2>1 DEF ChatTypes, Closed, Shown
  <2>3. \A s \in Send : Told(s)'
    BY <2>1, StaysTold
  <2> QED
    BY <2>2, <2>3
<1>3. CASE ClosePage
  <2>1. UNCHANGED <<rows, table>> /\ page' = Closed /\ courses'.rows = {}
    BY <1>3 DEF ClosePage, tables, NotAsked
  <2>2. \A s \in Send :
          /\ send'[s] \in Sent
          /\ \/ send'[s].pc = send[s].pc /\ send'[s].course = send[s].course
             \/ send[s].pc = "failed" /\ send'[s].pc = "done"
    <3>1. ASSUME NEW s \in Send
          PROVE  /\ send'[s] \in Sent
                 /\ \/ /\ send'[s].pc = send[s].pc
                       /\ send'[s].course = send[s].course
                    \/ send[s].pc = "failed" /\ send'[s].pc = "done"
      <4>1. send[s] \in Sent
        BY DEF ChatTypes
      <4>2. send'[s] = IF send[s].pc = "failed" THEN Done
                       ELSE [send[s] EXCEPT !.mine = FALSE]
        BY <1>3 DEF ClosePage
      <4> QED
        BY <4>1, <4>2 DEF Sent, Done, Quiet, Shown
    <3> QED
      BY <3>1
  <2>3. send' \in [Send -> Sent]
    <3>1. send' = [s \in Send |-> send'[s]]
      BY <1>3 DEF ClosePage
    <3> QED
      BY <2>2, <3>1
  <2>4. ChatTypes'
    BY <2>1, <2>3 DEF ChatTypes, Closed, Shown
  <2>5. \A s \in Send : Told(s)'
    BY <2>1, <2>2, StaysTold DEF Unkept
  <2> QED
    BY <2>4, <2>5
<1>4. CASE ReadCourses
  <2>1. /\ UNCHANGED <<rows, send, table, page>>
        /\ courses'.rows \in SUBSET Course
    BY <1>4 DEF ReadCourses, tables, NotAsked, ChatTypes
  <2> QED
    BY <2>1 DEF ChatTypes, Told, AtMostOnce, Alone
<1>5. CASE CoursesLoaded \/ SelectCourse
  <2>1. courses'.rows \in SUBSET Course
    BY <1>5 DEF CoursesLoaded, SelectCourse, NotAsked, ChatTypes
  <2>2. \/ UNCHANGED <<table, gone, rows, page, send>>
        \/ \E c \in Course : \E options \in SUBSET Course :
             Select(c, options)
    BY <1>5 DEF CoursesLoaded, SelectCourse, ChatTypes, tables
  <2>3. CASE UNCHANGED <<table, gone, rows, page, send>>
    BY <2>1, <2>3 DEF ChatTypes, Told, AtMostOnce, Alone
  <2>4. ASSUME NEW c \in Course, NEW options \in SUBSET Course,
               Select(c, options)
        PROVE  ChatTypes' /\ \A s \in Send : Told(s)'
    BY <2>1, <2>4, AskHistoryLeaves
       DEF ChatTypes, Told, AtMostOnce, Alone
  <2> QED
    BY <2>2, <2>3, <2>4
<1>6. CASE SendPressed
  <2>1. PICK s \in Send :
          /\ send[s].pc = "idle"
          /\ send' = [send EXCEPT ![s] = [pc |-> "user",
                        course |-> page.course, mine |-> TRUE]]
          /\ page' = [page EXCEPT
               !.list = Append(@, [send |-> s, role |-> "user",
                                   course |-> page.course]),
               !.loading = TRUE]
    BY <1>6 DEF SendPressed
  <2>2. UNCHANGED <<rows, table, courses>>
    BY <1>6 DEF SendPressed, tables
  <2>3. /\ send' \in [Send -> Sent] /\ send'[s].pc = "user"
        /\ \A d \in Send : d # s => send'[d] = send[d]
    BY <2>1 DEF ChatTypes, Sent
  <2>4. /\ page' = [open |-> page'.open, course |-> page'.course,
                    list |-> page'.list, loading |-> page'.loading,
                    options |-> page'.options]
        /\ page'.course = page.course /\ page'.options = page.options
    <3> DEFINE l == Append(page.list, [send |-> s, role |-> "user",
                                       course |-> page.course])
    <3>1. page' = [page EXCEPT !.list = l, !.loading = TRUE]
      BY <2>1
    <3> HIDE DEF l
    <3> QED
      BY <3>1 DEF ChatTypes
  <2>5. ChatTypes'
    BY <2>2, <2>3, <2>4 DEF ChatTypes
  <2>6. \A d \in Send : Told(d)'
    BY <2>1, <2>2, <2>3, StaysTold DEF Unkept
  <2> QED
    BY <2>5, <2>6
<1>7. ASSUME NEW l \in Load, ReadHistory(l)
      PROVE  UNCHANGED <<rows, send, page, courses, table>>
  BY <1>7 DEF ReadHistory, tables
<1>8. ASSUME NEW l \in Load, HistoryShown(l)
      PROVE  ChatTypes' /\ \A s \in Send : Told(s)'
  <2>1. UNCHANGED <<rows, table, courses>>
        /\ page' = [page EXCEPT !.list = load[l].rows]
    BY <1>8 DEF HistoryShown, tables
  <2>2. send' = [s \in Send |-> IF send[s].pc = "failed" THEN Done
                                ELSE send[s]]
    BY <1>8 DEF HistoryShown
  <2>3. Done \in Sent /\ Done.pc = "done"
    BY DEF Done, Quiet, Sent, Shown
  <2>4. /\ send' \in [Send -> Sent]
        /\ \A s \in Send :
             \/ send'[s] = send[s]
             \/ send[s].pc = "failed" /\ send'[s].pc = "done"
    BY <2>2, <2>3 DEF ChatTypes
  <2>5. ChatTypes'
    BY <2>1, <2>4 DEF ChatTypes
  <2>6. \A s \in Send : Told(s)'
    BY <2>1, <2>4, StaysTold DEF Unkept
  <2> QED
    BY <2>5, <2>6
<1>9. ASSUME NEW c \in Send, Ground(c) \/ RefuseQuestion(c)
      PROVE  ChatTypes' /\ \A s \in Send : Told(s)'
  <2>1. UNCHANGED <<rows, table, courses, page>>
    BY <1>9 DEF Ground, RefuseQuestion, tables
  <2>2. /\ send' \in [Send -> Sent]
        /\ \/ send[c].pc = "ground" /\ send'[c].pc \in {"reply", "error"}
           \/ send[c].pc = "user" /\ send'[c].pc = "refuse"
        /\ send'[c].course = send[c].course
        /\ \A s \in Send : s # c => send'[s] = send[s]
    BY <1>9 DEF Ground, RefuseQuestion, Goes, ChatTypes, Sent
  <2>3. ChatTypes'
    BY <2>1, <2>2 DEF ChatTypes
  <2>4. \A s \in Send : Told(s)'
    BY <2>1, <2>2, StaysTold DEF Unkept
  <2> QED
    BY <2>3, <2>4
<1>10. ASSUME NEW c \in Send, ReplyShown(c) \/ ErrorShown(c)
       PROVE  ChatTypes' /\ \A s \in Send : Told(s)'
  <2>1. /\ UNCHANGED <<rows, table, courses>>
        /\ send[c].pc \in {"answer", "error", "refuse"}
    BY <1>10 DEF ReplyShown, ErrorShown, tables
  <2>2. /\ send' \in [Send -> Sent]
        /\ send'[c].pc \in IF send[c].pc = "refuse" THEN {"refused"}
                           ELSE {"done", "failed"}
        /\ \A s \in Send : s # c => send'[s] = send[s]
    <3>1. Done \in Sent /\ Failed(c) \in Sent /\ Done.pc = "done"
          /\ Failed(c).pc \in IF send[c].pc = "refuse" THEN {"refused"}
                             ELSE {"done", "failed"}
      BY DEF Done, Failed, Quiet, Sent, Shown
    <3>2. \/ send[c].pc = "answer" /\ send' = [send EXCEPT ![c] = Done]
          \/ send' = [send EXCEPT ![c] = Failed(c)]
      BY <1>10 DEF ReplyShown, ErrorShown
    <3> QED
      BY <3>1, <3>2 DEF ChatTypes
  <2>3. \/ page' = page
        \/ \E l : page' = [page EXCEPT !.list = l, !.loading = FALSE]
        \/ \E l : page' = [page EXCEPT !.loading = FALSE, !.list = l]
    BY <1>10 DEF ReplyShown, ErrorShown
  <2>4. /\ page' = [open |-> page'.open, course |-> page'.course,
                    list |-> page'.list, loading |-> page'.loading,
                    options |-> page'.options]
        /\ page'.course = page.course /\ page'.options = page.options
    BY <2>3 DEF ChatTypes
  <2>5. ChatTypes'
    BY <2>1, <2>2, <2>4 DEF ChatTypes
  <2>6. \A s \in Send : Told(s)'
    BY <2>1, <2>2, StaysTold DEF Unkept
  <2> QED
    BY <2>5, <2>6
<1>11. ASSUME NEW c \in Course, CreateCourse(c) \/ DeleteCourse(c)
       PROVE  ChatTypes' /\ \A s \in Send : Told(s)'
  <2>1. UNCHANGED <<rows, send, page, courses>> /\ table' \in SUBSET Course
    BY <1>11 DEF CreateCourse, DeleteCourse, ChatTypes
  <2> QED
    BY <2>1 DEF ChatTypes, Told, AtMostOnce, Alone
<1>12. CASE UNCHANGED chatVars
  BY <1>1, <1>12 DEF chatVars, tables
<1> QED
  BY <1>1, <1>2, <1>3, <1>4, <1>5, <1>6, <1>7, <1>8, <1>9, <1>10, <1>11,
     <1>12, KeepQuestionTold, KeepReplyTold
     DEF ChatNext, Serves

(* Once it was not refused, whatever a question comes to, whether its page *)
(* is open or not and however calls overlap, it is in the table once, and  *)
(* its reply, if there is one, after it in the same course; a question     *)
(* that was refused has neither (CHAT_SEND).                               *)
THEOREM QuestionsStay == ChatSpec => []QuestionsKept
<1> DEFINE Inv == ChatTypes /\ \A s \in Send : Told(s)
<1>1. ChatInit => Inv
  BY ChatInits
<1>2. Inv /\ [ChatNext]_chatVars => Inv'
  BY ChatStep
<1>3. Inv => QuestionsKept
  BY DEF Told, AtMostOnce, QuestionsKept, Unkept
<1> HIDE DEF Inv
<1> QED
  BY <1>1, <1>2, <1>3, PTL DEF ChatSpec

-----------------------------------------------------------------------------
(* Induction, from the least number for which something fails.             *)

Less == {ss \in Nat \X Nat : ss[1] < ss[2]}

LEMMA LessWellFounded == IsWellFoundedOn(Less, Nat)
  BY NatLessThanWellFounded DEF OpToRel, Less

LEMMA NatUp ==
  ASSUME NEW S \in SUBSET Nat, 0 \in S, \A n \in S : n + 1 \in S
  PROVE  S = Nat
<1> SUFFICES ASSUME Nat \ S # {}
             PROVE  FALSE
  OBVIOUS
<1>1. PICK m \in Nat \ S : \A n \in Nat \ S : <<n, m>> \notin Less
  BY LessWellFounded, WFMin
<1>2. m - 1 \in Nat /\ m - 1 < m /\ m = (m - 1) + 1
  OBVIOUS
<1>3. m - 1 \in S
  BY <1>1, <1>2 DEF Less
<1> QED
  BY <1>1, <1>2, <1>3

(* A function can be defined by recursion on a number.                     *)
Iterates(f, e, step) ==
  f[0] = e /\ \A n \in Nat : f[n + 1] = step[<<n, f[n]>>]

LEMMA Recursion ==
  ASSUME NEW X, NEW e \in X, NEW step \in [Nat \X X -> X]
  PROVE  \E f \in [Nat -> X] : Iterates(f, e, step)
<1> DEFINE Up(n, g) == /\ g[0] = e
                       /\ \A k \in 0 .. n - 1 : g[k + 1] = step[<<k, g[k]>>]
           Runs(n) == \E g \in [0 .. n -> X] : Up(n, g)
<1>1. Runs(0)
  <2>1. [k \in 0 .. 0 |-> e] \in [0 .. 0 -> X] /\ Up(0, [k \in 0 .. 0 |-> e])
    OBVIOUS
  <2> QED
    BY <2>1
<1>2. ASSUME NEW n \in Nat, Runs(n)
      PROVE  Runs(n + 1)
  <2>1. PICK g \in [0 .. n -> X] : Up(n, g)
    BY <1>2
  <2> DEFINE h == [k \in 0 .. n + 1 |->
                     IF k = n + 1 THEN step[<<n, g[n]>>] ELSE g[k]]
  <2>2. h \in [0 .. n + 1 -> X]
    BY <2>1
  <2>3. /\ h[n + 1] = step[<<n, g[n]>>]
        /\ \A k \in 0 .. n : h[k] = g[k]
    OBVIOUS
  <2> HIDE DEF h
  <2>4. \A k \in 0 .. n : h[k + 1] = step[<<k, h[k]>>]
    <3>1. ASSUME NEW k \in 0 .. n - 1
          PROVE  h[k + 1] = step[<<k, h[k]>>]
      <4>1. k + 1 \in 0 .. n /\ k \in 0 .. n
        OBVIOUS
      <4> QED
        BY <2>1, <2>3, <4>1
    <3>2. h[n + 1] = step[<<n, h[n]>>]
      BY <2>3
    <3>3. \A k \in 0 .. n : k \in 0 .. n - 1 \/ k = n
      OBVIOUS
    <3> QED
      BY <3>1, <3>2, <3>3
  <2>5. h[0] = e
    BY <2>1, <2>3
  <2>6. (n + 1) - 1 = n
    OBVIOUS
  <2> QED
    BY <2>2, <2>4, <2>5, <2>6
<1>3. \A n \in Nat : Runs(n)
  <2> DEFINE S == {n \in Nat : Runs(n)}
  <2> HIDE DEF Runs
  <2>1. 0 \in S /\ \A n \in S : n + 1 \in S
    BY <1>1, <1>2
  <2>2. S \in SUBSET Nat
    OBVIOUS
  <2> HIDE DEF S
  <2>3. S = Nat
    BY <2>1, <2>2, NatUp
  <2> QED
    BY <2>3 DEF S
<1>4. ASSUME NEW m \in Nat, NEW n \in Nat,
             NEW g \in [0 .. m -> X], NEW h \in [0 .. n -> X],
             Up(m, g), Up(n, h)
      PROVE  \A k \in Nat : k <= m /\ k <= n => g[k] = h[k]
  <2> DEFINE S == {k \in Nat : k <= m /\ k <= n => g[k] = h[k]}
  <2>1. 0 \in S
    BY <1>4
  <2>2. ASSUME NEW k \in S
        PROVE  k + 1 \in S
    <3>1. CASE k + 1 <= m /\ k + 1 <= n
      <4>1. k \in 0 .. m - 1 /\ k \in 0 .. n - 1 /\ g[k] = h[k]
        BY <3>1, <2>2
      <4>2. g[k + 1] = step[<<k, g[k]>>] /\ h[k + 1] = step[<<k, h[k]>>]
        BY <4>1, <1>4
      <4> QED
        BY <4>1, <4>2
    <3>2. CASE ~(k + 1 <= m /\ k + 1 <= n)
      BY <3>2
    <3> QED
      BY <3>1, <3>2
  <2>3. S \in SUBSET Nat
    OBVIOUS
  <2>4. S = Nat
    <3> HIDE DEF S
    <3> QED
      BY <2>1, <2>2, <2>3, NatUp
  <2> QED
    BY <2>4
<1> DEFINE part == [n \in Nat |-> CHOOSE g \in [0 .. n -> X] : Up(n, g)]
           f == [n \in Nat |-> part[n][n]]
<1>5. \A n \in Nat : part[n] \in [0 .. n -> X] /\ Up(n, part[n])
  <2>1. \A n \in Nat : \E g \in [0 .. n -> X] : Up(n, g)
    BY <1>3
  <2>2. ASSUME NEW n \in Nat
        PROVE  part[n] \in [0 .. n -> X] /\ Up(n, part[n])
    <3>1. part[n] = CHOOSE g \in [0 .. n -> X] : Up(n, g)
      OBVIOUS
    <3>2. \E g \in [0 .. n -> X] : Up(n, g)
      BY <2>1
    <3> HIDE DEF part, Up
    <3> QED
      BY <3>1, <3>2
  <2> QED
    BY <2>2
<1>6. \A n \in Nat : f[n] = part[n][n]
  OBVIOUS
<1>7. f \in [Nat -> X]
  BY <1>5
<1>8. f[0] = e
  BY <1>5, <1>6
<1>9. ASSUME NEW n \in Nat
      PROVE  f[n + 1] = step[<<n, f[n]>>]
  <2> HIDE DEF f, part
  <2>1. n \in 0 .. (n + 1) - 1 /\ n + 1 \in Nat /\ n <= n /\ n <= n + 1
    OBVIOUS
  <2>2. part[n + 1][n + 1] = step[<<n, part[n + 1][n]>>]
    BY <1>5, <2>1
  <2>3. part[n + 1][n] = part[n][n]
    <3> HIDE DEF Up
    <3> QED
      BY <1>4, <1>5, <2>1
  <2> QED
    BY <1>6, <2>1, <2>2, <2>3
<1> QED
  BY <1>7, <1>8, <1>9 DEF Iterates

-----------------------------------------------------------------------------
(* The messages of a list that are in a set.                               *)

Contents(list) == {list[i] : i \in DOMAIN list}
OnceEach(list) == \A i, j \in DOMAIN list : list[i] = list[j] => i = j

(* One message after another.                                              *)
Sifts(only, list, set) ==
  /\ only[0] = <<>>
  /\ \A n \in 0 .. Len(list) - 1 :
       only[n + 1] = IF list[n + 1] \in set
                     THEN Append(only[n], list[n + 1]) ELSE only[n]

LEMMA OnlySifts ==
  ASSUME NEW X, NEW list \in Seq(X), NEW set
  PROVE  \E only \in [0 .. Len(list) -> Seq(X)] :
           Sifts(only, list, set) /\ Only(list, set) = only[Len(list)]
<1> DEFINE N == Len(list)
           next(n, q) == IF n < N /\ list[n + 1] \in set
                         THEN Append(q, list[n + 1]) ELSE q
<1>1. N \in Nat /\ \A n \in 1 .. N : list[n] \in X
  OBVIOUS
<1>2. \A n \in Nat, q \in Seq(X) : next(n, q) \in Seq(X)
  <2>1. ASSUME NEW n \in Nat, NEW q \in Seq(X)
        PROVE  next(n, q) \in Seq(X)
    <3>1. CASE n < N /\ list[n + 1] \in set
      <4>1. n + 1 \in 1 .. N
        BY <1>1, <3>1
      <4>2. list[n + 1] \in X
        BY <1>1, <4>1
      <4> QED
        BY <3>1, <4>2
    <3>2. CASE ~(n < N /\ list[n + 1] \in set)
      BY <3>2
    <3> QED
      BY <3>1, <3>2
  <2> QED
    BY <2>1
<1>3. PICK step \in [Nat \X Seq(X) -> Seq(X)] :
        \A n \in Nat, q \in Seq(X) : step[<<n, q>>] = next(n, q)
  <2> HIDE DEF next
  <2> DEFINE st == [a \in Nat \X Seq(X) |-> next(a[1], a[2])]
  <2>1. st \in [Nat \X Seq(X) -> Seq(X)]
    BY <1>2
  <2>2. \A n \in Nat, q \in Seq(X) : st[<<n, q>>] = next(n, q)
    OBVIOUS
  <2> QED
    BY <2>1, <2>2
<1>5. <<>> \in Seq(X)
  OBVIOUS
<1>6. PICK f \in [Nat -> Seq(X)] :
        f[0] = <<>> /\ \A n \in Nat : f[n + 1] = step[<<n, f[n]>>]
  <2>1. \E f \in [Nat -> Seq(X)] : Iterates(f, <<>>, step)
    BY <1>3, <1>5, Recursion
  <2> QED
    BY <2>1 DEF Iterates
<1>7. \A n \in 0 .. N - 1 :
        f[n + 1] = IF list[n + 1] \in set
                   THEN Append(f[n], list[n + 1]) ELSE f[n]
  <2>1. ASSUME NEW n \in 0 .. N - 1
        PROVE  f[n + 1] = IF list[n + 1] \in set
                          THEN Append(f[n], list[n + 1]) ELSE f[n]
    <3>1. n \in Nat /\ n < N /\ f[n] \in Seq(X)
      BY <1>1
    <3>2. f[n + 1] = next(n, f[n])
      BY <1>3, <1>6, <3>1
    <3> QED
      BY <3>1, <3>2
  <2> QED
    BY <2>1
<1> DEFINE g == [n \in 0 .. N |-> f[n]]
           Eq(only) ==
             only = [n \in 0 .. N |->
                       IF n = 0 THEN <<>>
                       ELSE IF list[n] \in set
                            THEN Append(only[n - 1], list[n])
                       ELSE only[n - 1]]
<1>8. g \in [0 .. N -> Seq(X)] /\ \A n \in 0 .. N : g[n] = f[n]
  BY <1>6, <1>1
<1>9. Eq(g)
  <2>1. ASSUME NEW n \in 0 .. N
        PROVE  f[n] = IF n = 0 THEN <<>>
                      ELSE IF list[n] \in set
                           THEN Append(g[n - 1], list[n]) ELSE g[n - 1]
    <3>1. CASE n = 0
      BY <3>1, <1>6
    <3>2. CASE n # 0
      <4>1. n - 1 \in 0 .. N - 1 /\ n - 1 \in 0 .. N /\ (n - 1) + 1 = n
        BY <3>2, <1>1
      <4>2. g[n - 1] = f[n - 1]
        BY <1>8, <4>1
      <4> HIDE DEF g
      <4> QED
        BY <1>7, <3>2, <4>1, <4>2
    <3> QED
      BY <3>1, <3>2
  <2> QED
    BY <2>1
<1>10. PICK only : Eq(only) /\ Only(list, set) = only[N]
  <2>1. Only(list, set) = (CHOOSE only : Eq(only))[N]
    BY DEF Only
  <2>2. Eq(CHOOSE only : Eq(only))
    BY <1>9
  <2> HIDE DEF Eq
  <2> QED
    BY <2>1, <2>2
<1>11. only[0] = <<>>
  BY <1>1, <1>10
<1>12. \A n \in 0 .. N - 1 :
         only[n + 1] = IF list[n + 1] \in set
                       THEN Append(only[n], list[n + 1]) ELSE only[n]
  <2>1. ASSUME NEW n \in 0 .. N - 1
        PROVE  only[n + 1] = IF list[n + 1] \in set
                             THEN Append(only[n], list[n + 1]) ELSE only[n]
    <3>1. n + 1 \in 0 .. N /\ n + 1 # 0 /\ (n + 1) - 1 = n
      BY <1>1
    <3> QED
      BY <1>10, <3>1
  <2> QED
    BY <2>1
<1>13. only = [n \in 0 .. N |-> only[n]]
  <2>1. \E q : only = [n \in 0 .. N |-> q[n]]
    <3> DEFINE q == [n \in 0 .. N |->
                       IF n = 0 THEN <<>>
                       ELSE IF list[n] \in set
                            THEN Append(only[n - 1], list[n])
                       ELSE only[n - 1]]
    <3>1. only = q
      BY <1>10
    <3>2. q = [n \in 0 .. N |-> q[n]]
      OBVIOUS
    <3> HIDE DEF q
    <3> QED
      BY <3>1, <3>2
  <2> QED
    BY <2>1
<1>14. \A n \in 0 .. N : only[n] \in Seq(X)
  <2> DEFINE S == {n \in Nat : n <= N => only[n] = f[n]}
  <2>1. 0 \in S
    BY <1>6, <1>11
  <2>2. ASSUME NEW n \in S
        PROVE  n + 1 \in S
    <3>1. CASE n + 1 <= N
      <4>1. n \in 0 .. N - 1 /\ only[n] = f[n]
        BY <1>1, <2>2, <3>1
      <4>2. only[n + 1] = f[n + 1]
        BY <1>7, <1>12, <4>1
      <4> QED
        BY <4>2
    <3>2. CASE ~(n + 1 <= N)
      BY <3>2
    <3> QED
      BY <3>1, <3>2
  <2>3. S \in SUBSET Nat
    OBVIOUS
  <2>4. S = Nat
    <3> HIDE DEF S
    <3> QED
      BY <2>1, <2>2, <2>3, NatUp
  <2>5. ASSUME NEW n \in 0 .. N
        PROVE  only[n] \in Seq(X)
    <3>1. n <= N /\ n \in Nat
      BY <1>1
    <3>2. n \in S
      BY <2>4, <3>1 DEF S
    <3>3. only[n] = f[n] /\ f[n] \in Seq(X)
      BY <1>6, <3>1, <3>2
    <3> QED
      BY <3>3
  <2> QED
    BY <2>5
<1>15. only \in [0 .. N -> Seq(X)]
  BY <1>13, <1>14
<1> QED
  BY <1>10, <1>11, <1>12, <1>15 DEF Sifts

(* What is left are the messages of the list that are in the set, and each *)
(* of them as often as in the list if that is once.                        *)
LEMMA OnlyIs ==
  ASSUME NEW X, NEW list \in Seq(X), NEW set
  PROVE  /\ Only(list, set) \in Seq(X)
         /\ Contents(Only(list, set)) = Contents(list) \cap set
         /\ OnceEach(list) => OnceEach(Only(list, set))
<1> DEFINE N == Len(list)
<1>1. PICK only \in [0 .. N -> Seq(X)] :
        Sifts(only, list, set) /\ Only(list, set) = only[N]
  BY OnlySifts
<1> DEFINE least(n) == {list[i] : i \in 1 .. n}
           Fits(n) == /\ Contents(only[n]) = least(n) \cap set
                      /\ OnceEach(list) => OnceEach(only[n])
           S == {n \in Nat : n <= N => Fits(n)}
<1>2. 0 \in S
  <2>1. only[0] = <<>> /\ least(0) = {}
    BY <1>1 DEF Sifts
  <2> QED
    BY <2>1 DEF Contents, OnceEach
<1>3. ASSUME NEW n \in S
      PROVE  n + 1 \in S
  <2>1. CASE n + 1 <= N
    <3>1. /\ n \in 0 .. N - 1 /\ n \in 0 .. N /\ n + 1 \in 1 .. N
          /\ Fits(n) /\ n \in Nat
      BY <1>3, <2>1
    <3>2. only[n] \in Seq(X) /\ list[n + 1] \in X
      BY <3>1
    <3>3. only[n + 1] = IF list[n + 1] \in set
                        THEN Append(only[n], list[n + 1]) ELSE only[n]
      BY <1>1, <3>1 DEF Sifts
    <3>4. least(n + 1) = least(n) \cup {list[n + 1]}
      <4>1. 1 .. n + 1 = (1 .. n) \cup {n + 1}
        BY <3>1
      <4> QED
        BY <4>1
    <3>5. CASE list[n + 1] \notin set
      <4>1. only[n + 1] = only[n] /\ least(n + 1) \cap set = least(n) \cap set
        BY <3>3, <3>4, <3>5
      <4> QED
        BY <3>1, <4>1
    <3>6. CASE list[n + 1] \in set
      <4> DEFINE q == only[n]
                 m == list[n + 1]
                 r == only[n + 1]
      <4>1. r = Append(q, m) /\ q \in Seq(X) /\ m \in X
        BY <3>2, <3>3, <3>6
      <4> HIDE DEF q, r, m
      <4>2. /\ Len(q) \in Nat /\ DOMAIN q = 1 .. Len(q)
            /\ DOMAIN r = 1 .. Len(q) + 1 /\ r[Len(q) + 1] = m
            /\ \A i \in 1 .. Len(q) : r[i] = q[i]
        BY <4>1
      <4>3. Contents(r) = Contents(q) \cup {m}
        BY <4>2 DEF Contents
      <4>4. Contents(r) = least(n + 1) \cap set
        BY <4>3, <3>1, <3>4, <3>6 DEF q, m
      <4>5. ASSUME OnceEach(list)
            PROVE  OnceEach(r)
        <5>1. m \notin least(n)
          BY <3>1, <4>5 DEF m, OnceEach
        <5>2. m \notin Contents(q) /\ OnceEach(q)
          BY <3>1, <4>5, <5>1 DEF q
        <5> QED
          BY <4>2, <5>2 DEF OnceEach, Contents
      <4> QED
        BY <4>4, <4>5, <2>1, <3>1 DEF r
    <3> QED
      BY <3>5, <3>6
  <2>2. CASE ~(n + 1 <= N)
    BY <2>2
  <2> QED
    BY <2>1, <2>2
<1>4. S = Nat
  <2>1. S \in SUBSET Nat
    OBVIOUS
  <2> HIDE DEF S
  <2> QED
    BY <1>2, <1>3, <2>1, NatUp
<1>5. N \in Nat /\ N <= N /\ N \in 0 .. N /\ DOMAIN list = 1 .. N
  OBVIOUS
<1>6. Fits(N)
  BY <1>4, <1>5
<1> QED
  BY <1>1, <1>5, <1>6 DEF Contents

LEMMA OnlyAppend ==
  ASSUME NEW X, NEW list \in Seq(X), NEW m \in X, NEW set
  PROVE  Only(Append(list, m), set) =
           IF m \in set THEN Append(Only(list, set), m) ELSE Only(list, set)
<1> DEFINE N == Len(list)
           longer == Append(list, m)
<1>1. /\ N \in Nat /\ longer \in Seq(X) /\ Len(longer) = N + 1
      /\ longer[N + 1] = m /\ \A i \in 1 .. N : longer[i] = list[i]
  OBVIOUS
<1>2. PICK f \in [0 .. N -> Seq(X)] :
        Sifts(f, list, set) /\ Only(list, set) = f[N]
  BY OnlySifts
<1>3. PICK g \in [0 .. N + 1 -> Seq(X)] :
        Sifts(g, longer, set) /\ Only(longer, set) = g[N + 1]
  <2> HIDE DEF longer
  <2>1. \E g \in [0 .. Len(longer) -> Seq(X)] :
          Sifts(g, longer, set) /\ Only(longer, set) = g[Len(longer)]
    BY <1>1, OnlySifts
  <2> QED
    BY <1>1, <2>1
<1> HIDE DEF longer
<1> DEFINE S == {n \in Nat : n <= N => g[n] = f[n]}
<1>4. 0 \in S
  BY <1>2, <1>3 DEF Sifts
<1>5. ASSUME NEW n \in S
      PROVE  n + 1 \in S
  <2>1. CASE n + 1 <= N
    <3>1. /\ n \in 0 .. N - 1 /\ n \in 0 .. Len(longer) - 1
          /\ n + 1 \in 1 .. N /\ g[n] = f[n]
      BY <1>1, <1>5, <2>1
    <3>2. longer[n + 1] = list[n + 1]
      BY <1>1, <3>1
    <3>3. g[n + 1] = f[n + 1]
      BY <1>2, <1>3, <3>1, <3>2 DEF Sifts
    <3> QED
      BY <3>3, <1>5
  <2>2. CASE ~(n + 1 <= N)
    BY <2>2
  <2> QED
    BY <2>1, <2>2
<1>6. S = Nat
  <2>1. S \in SUBSET Nat
    OBVIOUS
  <2> HIDE DEF S
  <2> QED
    BY <1>4, <1>5, <2>1, NatUp
<1>7. g[N] = f[N]
  BY <1>1, <1>6
<1>8. N \in 0 .. Len(longer) - 1
  BY <1>1
<1>9. g[N + 1] = IF m \in set THEN Append(g[N], m) ELSE g[N]
  BY <1>1, <1>3, <1>8 DEF Sifts
<1> QED
  BY <1>2, <1>3, <1>7, <1>9 DEF longer

(* Lists without doubles of the same messages are as long as one another.  *)
LEMMA SameLength ==
  ASSUME NEW X, NEW a \in Seq(X), NEW b \in Seq(X),
         OnceEach(a), OnceEach(b), Contents(a) = Contents(b)
  PROVE  Len(a) = Len(b)
<1>1. ASSUME NEW q \in Seq(X), OnceEach(q)
      PROVE  Cardinality(Contents(q)) = Len(q)
  <2>1. Len(q) \in Nat /\ DOMAIN q = 1 .. Len(q)
    OBVIOUS
  <2>2. /\ q \in [1 .. Len(q) -> Contents(q)] /\ IsInjective(q)
        /\ \A m \in Contents(q) : \E i \in 1 .. Len(q) : q[i] = m
    BY <1>1, <2>1 DEF Contents, OnceEach, IsInjective
  <2>3. ExistsBijection(1 .. Len(q), Contents(q))
    BY <2>2 DEF ExistsBijection, Bijection, Injection, Surjection
  <2> QED
    BY <2>1, <2>3, FS_CountingElements
<1> QED
  BY <1>1

-----------------------------------------------------------------------------
(* The list of the page.                                                   *)

Call == [pc : {"idle", "read", "answer"}, course : Shown,
         rows : Seq(Question)]

ListTypes ==
  /\ page.list \in Seq(Question)
  /\ load \in [Load -> Call]

Calm == Open /\ ~mixed

(* A page that is not open waits for no history; one that is open and has  *)
(* not mixed its calls waits for one history, of the course it shows, or   *)
(* for replies of that course, and a history that was read is still what   *)
(* the table has.                                                          *)
ClosedIsQuiet == ~Open => \A l \in Load : load[l].pc = "idle"
Apart == Calm /\ Sending # {} => Loading = {} /\ courses = NotAsked
OneLoad ==
  Calm => \A l \in Loading :
    /\ \A k \in Loading : k = l
    /\ load[l].course = page.course
    /\ load[l].pc = "answer" =>
         load[l].rows = Oldest(HistoryLimit, Kept(page.course))
MineHere ==
  Calm => \A s \in Sending : send[s].mine /\ send[s].course = page.course

(* A reply on its way to the page is in the table.                         *)
Replied ==
  \A s \in Send : send[s].pc = "answer" =>
    Message(s, "assistant") \in Contents(rows)

(* What is to be on the page: the messages of its course, without the      *)
(* questions that failed and the replies that have not arrived, and the    *)
(* questions that are not in the table yet or whose refusal has not        *)
(* arrived.                                                                *)
Due(m) ==
  \/ /\ m \in Contents(rows) /\ m.course = page.course
     /\ send[m.send].pc # "failed"
     /\ send[m.send].pc = "answer" => m.role = "user"
  \/ /\ send[m.send].pc \in {"user", "refuse"} /\ m.role = "user"
     /\ m.course = send[m.send].course
Listed ==
  Calm /\ ~stale /\ Loading = {} /\ Len(Kept(page.course)) <= HistoryLimit =>
    /\ OnceEach(page.list)
    /\ \A m \in Question : m \in Contents(page.list) <=> Due(m)

Calls == ClosedIsQuiet /\ Apart /\ OneLoad /\ MineHere
ListInv == ListTypes /\ Calls /\ Replied /\ Listed
ChatInv == ChatTypes /\ (\A s \in Send : Told(s)) /\ ListInv

LEMMA Waiting ==
  ASSUME ChatTypes, ListTypes
  PROVE  /\ Sending = {s \in Send : send[s].pc \in
                         {"user", "ground", "reply", "answer", "error",
                          "refuse"}}
         /\ Loading = {l \in Load : load[l].pc \in {"read", "answer"}}
BY DEF ChatTypes, ListTypes, Sending, Loading, Over, Sent, Call

LEMMA SameMessage ==
  ASSUME NEW m \in Question, NEW n \in Question,
         m.send = n.send, m.role = n.role, m.course = n.course
  PROVE  m = n
BY DEF Question

LEMMA MessageIs ==
  ASSUME ChatTypes, NEW s \in Send, NEW role \in {"user", "assistant"}
  PROVE  /\ Message(s, role) \in Question
         /\ Message(s, role).send = s /\ Message(s, role).role = role
         /\ Message(s, role).course = send[s].course
BY DEF ChatTypes, Message, Question, Sent

LEMMA KeptIs ==
  ASSUME ChatTypes, NEW c
  PROVE  /\ Kept(c) \in Seq(Question)
         /\ Contents(Kept(c)) = {m \in Contents(rows) : m.course = c}
         /\ OnceEach(rows) => OnceEach(Kept(c))
<1>1. rows \in Seq(Question)
  BY DEF ChatTypes
<1>2. /\ Kept(c) \in Seq(Question)
      /\ Contents(Kept(c)) = Contents(rows) \cap Said(Send, {c})
      /\ OnceEach(rows) => OnceEach(Kept(c))
  BY <1>1, OnlyIs DEF Kept
<1>3. Contents(rows) \subseteq Question
  BY <1>1 DEF Contents
<1>4. \A m \in Question : m \in Said(Send, {c}) <=> m.course = c
  BY DEF Question, Said
<1> QED
  BY <1>2, <1>3, <1>4

LEMMA RowsOnce ==
  ASSUME ChatTypes, \A s \in Send : Told(s)
  PROVE  OnceEach(rows)
<1> SUFFICES ASSUME NEW i \in DOMAIN rows, NEW j \in DOMAIN rows,
                    rows[i] = rows[j], i < j
             PROVE  FALSE
  BY DEF OnceEach, ChatTypes
<1>0. rows[i] \in Question
  BY DEF ChatTypes
<1>1. rows[i].send \in Send
  BY <1>0 DEF Question
<1>2. AtMostOnce(rows[i].send)
  BY <1>1 DEF Told
<1> QED
  BY <1>2 DEF AtMostOnce

(* The table only grows.                                                   *)
LEMMA KeptGrows ==
  ASSUME ChatTypes, NEW m \in Question, rows' = Append(rows, m), NEW c
  PROVE  /\ Contents(rows') = Contents(rows) \cup {m}
         /\ Len(Kept(c)) <= Len(Kept(c)')
         /\ Len(Kept(c)) \in Nat /\ Len(Kept(c)') \in Nat
<1>1. rows \in Seq(Question)
  BY DEF ChatTypes
<1>2. Contents(rows') = Contents(rows) \cup {m}
  BY <1>1, AppendedRow DEF Contents
<1>3. \/ Kept(c)' = Append(Kept(c), m)
      \/ Kept(c)' = Kept(c)
  BY <1>1, OnlyAppend DEF Kept
<1>4. Kept(c) \in Seq(Question)
  BY KeptIs
<1> QED
  BY <1>2, <1>3, <1>4

LEMMA AppendedList ==
  ASSUME NEW list \in Seq(Question), NEW m \in Question
  PROVE  /\ Append(list, m) \in Seq(Question)
         /\ Contents(Append(list, m)) = Contents(list) \cup {m}
         /\ OnceEach(list) /\ m \notin Contents(list) =>
              OnceEach(Append(list, m))
<1> DEFINE longer == Append(list, m)
<1>1. /\ longer \in Seq(Question) /\ Len(list) \in Nat
      /\ DOMAIN list = 1 .. Len(list)
      /\ DOMAIN longer = 1 .. Len(list) + 1 /\ longer[Len(list) + 1] = m
      /\ \A i \in 1 .. Len(list) : longer[i] = list[i]
  OBVIOUS
<1> HIDE DEF longer
<1>2. Contents(longer) = Contents(list) \cup {m}
  BY <1>1 DEF Contents
<1>3. OnceEach(list) /\ m \notin Contents(list) => OnceEach(longer)
  BY <1>1 DEF OnceEach, Contents
<1> QED
  BY <1>1, <1>2, <1>3 DEF longer

-----------------------------------------------------------------------------
(* The steps of the page.                                                  *)

Asked(c) == [Unasked EXCEPT !.pc = "read", !.course = c]

LEMMA AskedIs ==
  ASSUME NEW c \in Shown
  PROVE  Asked(c) \in Call /\ Asked(c).pc = "read" /\ Asked(c).course = c
<1> DEFINE none == <<>>
<1>1. none \in Seq(Question)
  OBVIOUS
<1>2. Asked(c) = [[pc |-> "idle", course |-> MockCourse, rows |-> none]
                    EXCEPT !.pc = "read", !.course = c]
  BY DEF Asked, Unasked
<1> HIDE DEF none
<1>3. Asked(c) = [pc |-> "read", course |-> c, rows |-> none]
  BY <1>2
<1> QED
  BY <1>1, <1>3 DEF Call

LEMMA OpenPageLists ==
  ASSUME ChatInv, OpenPage
  PROVE  ListInv'
<1> USE DEF ChatInv, ListInv, Calls
<1>1. /\ ~Open /\ UNCHANGED <<rows, send>>
      /\ page' = [Closed EXCEPT !.open = TRUE]
      /\ mixed' = (Sending # {})
  BY DEF OpenPage, tables
<1>2. PICK l \in Load :
        load' = [load EXCEPT ![l] = [Unasked EXCEPT !.pc = "read",
                                       !.course = MockCourse]]
  BY DEF OpenPage, AskHistory
<1>3. page'.open /\ page'.course = MockCourse /\ page'.list = <<>>
  BY <1>1 DEF Closed
<1>4. /\ load'[l].pc = "read" /\ load'[l].course = MockCourse
      /\ load' \in [Load -> Call]
      /\ \A k \in Load : k # l => load'[k].pc = "idle"
  <2>1. load' = [load EXCEPT ![l] = Asked(MockCourse)]
    BY <1>2 DEF Asked
  <2>2. MockCourse \in Shown
    BY DEF Shown
  <2> QED
    BY <1>1, <2>1, <2>2, AskedIs DEF ListTypes, ClosedIsQuiet
<1>5. Loading' = {l}
  BY <1>4 DEF Loading, Over
<1>6. ListTypes'
  BY <1>3, <1>4 DEF ListTypes
<1>7. Sending' = Sending /\ (Calm' => Sending = {})
  BY <1>1 DEF Sending, Calm
<1>8. Calls'
  BY <1>3, <1>4, <1>5, <1>7
     DEF ClosedIsQuiet, Apart, OneLoad, MineHere, Open
<1>9. Replied'
  BY <1>1 DEF Replied, Message
<1>10. Listed'
  BY <1>5 DEF Listed
<1> QED
  BY <1>6, <1>8, <1>9, <1>10

LEMMA ClosePageLists ==
  ASSUME ChatInv, ClosePage
  PROVE  ListInv'
<1> USE DEF ChatInv, ListInv, Calls
<1>1. /\ UNCHANGED rows /\ page' = Closed
      /\ load' = [l \in Load |-> Unasked]
      /\ send' = [s \in Send |-> IF send[s].pc = "failed" THEN Done
                               ELSE [send[s] EXCEPT !.mine = FALSE]]
  BY DEF ClosePage, tables
<1>2. ~Open' /\ page'.list = <<>>
  BY <1>1 DEF Closed, Open
<1>3. Unasked \in Call /\ Unasked.pc = "idle"
  BY DEF Unasked, Call, Shown
<1>4. ListTypes' /\ ClosedIsQuiet'
  BY <1>1, <1>2, <1>3 DEF ListTypes, ClosedIsQuiet
<1>5. \A s \in Send : send'[s].pc = "answer" =>
        send[s].pc = "answer" /\ send'[s].course = send[s].course
  <2>1. ASSUME NEW s \in Send, send'[s].pc = "answer"
        PROVE  send[s].pc = "answer" /\ send'[s].course = send[s].course
    <3>1. send[s] \in Sent
      BY DEF ChatTypes
    <3> QED
      BY <1>1, <2>1, <3>1 DEF Sent, Done, Quiet
  <2> QED
    BY <2>1
<1>6. Replied'
  BY <1>1, <1>5 DEF Replied, Message
<1> QED
  BY <1>2, <1>4, <1>6 DEF Apart, OneLoad, MineHere, Listed, Calm

LEMMA SelectLists ==
  ASSUME ChatInv, Open, NEW c \in Course, NEW options, Select(c, options)
  PROVE  ListInv'
<1> USE DEF ChatInv, ListInv, Calls
<1>1. /\ UNCHANGED <<rows, send>>
      /\ page' = [page EXCEPT !.course = c, !.options = options]
      /\ mixed' = (mixed \/ Loading \cup Sending # {})
  BY DEF Select, tables
<1>2. PICK l \in Load :
        /\ load[l].pc = "idle"
        /\ load' = [load EXCEPT ![l] = [Unasked EXCEPT !.pc = "read",
                                       !.course = c]]
  BY DEF Select, AskHistory
<1>3. page'.open = page.open /\ page'.course = c /\ page'.list = page.list
  BY <1>1 DEF ChatTypes
<1>4. /\ load'[l].pc = "read" /\ load'[l].course = c
      /\ load' \in [Load -> Call]
      /\ \A k \in Load : k # l => load'[k] = load[k]
  <2>1. load' = [load EXCEPT ![l] = Asked(c)]
    BY <1>2 DEF Asked
  <2>2. c \in Shown
    BY DEF Shown
  <2> QED
    BY <2>1, <2>2, AskedIs DEF ListTypes
<1>5. Loading' = Loading \cup {l}
  BY <1>2, <1>4 DEF Loading, Over
<1>6. ListTypes'
  BY <1>3, <1>4 DEF ListTypes
<1>7. Sending' = Sending /\ (Calm' => Sending = {} /\ Loading = {})
  BY <1>1 DEF Sending, Calm
<1>8. Calls'
  BY <1>3, <1>4, <1>5, <1>7
     DEF ClosedIsQuiet, Apart, OneLoad, MineHere, Open
<1>9. Replied'
  BY <1>1 DEF Replied, Message
<1>10. Listed'
  BY <1>5 DEF Listed
<1> QED
  BY <1>6, <1>8, <1>9, <1>10

LEMMA SendPressedLists ==
  ASSUME ChatInv, SendPressed
  PROVE  ListInv'
<1> USE DEF ChatInv, ListInv, Calls
<1>1. PICK s \in Send :
        /\ send[s].pc = "idle"
        /\ send' = [send EXCEPT ![s] = [pc |-> "user",
                      course |-> page.course, mine |-> TRUE]]
        /\ page' = [page EXCEPT
             !.list = Append(@, [send |-> s, role |-> "user",
                                 course |-> page.course]),
             !.loading = TRUE]
  BY DEF SendPressed
<1>2. /\ UNCHANGED <<rows, courses, load, stale>> /\ Open
      /\ mixed' = (mixed \/ Loading # {} \/ courses # NotAsked)
  BY DEF SendPressed, tables
<1> DEFINE m == [send |-> s, role |-> "user", course |-> page.course]
<1>3. m \in Question /\ m.send = s /\ m.role = "user"
      /\ m.course = page.course
  BY DEF ChatTypes, Question
<1>4. /\ page'.open = page.open /\ page'.course = page.course
      /\ page'.list = Append(page.list, m)
  <2> DEFINE l == Append(page.list, m)
  <2>1. page' = [page EXCEPT !.list = l, !.loading = TRUE]
    BY <1>1
  <2> HIDE DEF l
  <2>2. page'.open = page.open /\ page'.course = page.course
        /\ page'.list = l
    BY <2>1 DEF ChatTypes
  <2> QED
    BY <2>2 DEF l
<1> HIDE DEF m
<1>5. /\ send' \in [Send -> Sent] /\ send'[s].pc = "user"
      /\ send'[s].course = page.course /\ send'[s].mine
      /\ \A d \in Send : d # s => send'[d] = send[d]
  BY <1>1 DEF ChatTypes, Sent
<1>6. ListTypes'
  BY <1>2, <1>3, <1>4 DEF ListTypes
<1>7. Loading' = Loading /\ Sending' = Sending \cup {s}
  BY <1>1, <1>2, <1>5 DEF Loading, Sending, Over
<1>8. Calm' => Calm /\ Loading = {} /\ courses = NotAsked
  BY <1>2, <1>4 DEF Calm, Open
<1>9. Calls'
  <2>1. ClosedIsQuiet'
    BY <1>2, <1>4 DEF ClosedIsQuiet, Open
  <2>2. Apart' /\ OneLoad'
    BY <1>2, <1>7, <1>8 DEF Apart, OneLoad
  <2>3. MineHere'
    <3>1. \A d \in Sending : d # s
      BY <1>1 DEF Sending, Over
    <3>2. Sending \subseteq Send
      BY DEF Sending
    <3> QED
      BY <1>4, <1>5, <1>7, <1>8, <3>1, <3>2 DEF MineHere
  <2> QED
    BY <2>1, <2>2, <2>3
<1>10. Replied'
  BY <1>2, <1>5 DEF Replied, Message
<1>11. ASSUME Calm', ~stale', Len(Kept(page.course)') <= HistoryLimit
       PROVE  OnceEach(page'.list)
              /\ \A n \in Question : n \in Contents(page'.list) <=> Due(n)'
  <2>1. Kept(page.course)' = Kept(page.course)
    BY <1>2, <1>4 DEF Kept
  <2>2. /\ OnceEach(page.list)
        /\ \A n \in Question : n \in Contents(page.list) <=> Due(n)
    BY <1>2, <1>8, <1>11, <2>1 DEF Listed
  <2>3. \A n \in Contents(rows) : n.send # s
    <3>1. Told(s)
      OBVIOUS
    <3> QED
      BY <1>1, <3>1 DEF Told, Unkept, Contents
  <2>4. m \notin Contents(page.list)
    BY <1>1, <1>3, <2>2, <2>3 DEF Due
  <2>5. page.list \in Seq(Question)
    BY DEF ListTypes
  <2>6. /\ OnceEach(page'.list)
        /\ Contents(page'.list) = Contents(page.list) \cup {m}
    BY <1>3, <1>4, <2>2, <2>4, <2>5, AppendedList
  <2>7. ASSUME NEW n \in Question
        PROVE  Due(n)' <=> Due(n) \/ n = m
    <3>0. n.send \in Send
      BY DEF Question
    <3>1. CASE n.send = s
      <4>1. ~Due(n)
        BY <1>1, <2>3, <3>1 DEF Due
      <4>2. Due(n)' <=> n.role = "user" /\ n.course = page.course
        BY <1>2, <1>4, <1>5, <2>3, <3>1 DEF Due
      <4>3. n = m <=> n.role = "user" /\ n.course = page.course
        BY <1>3, <3>1, SameMessage
      <4> QED
        BY <4>1, <4>2, <4>3
    <3>2. CASE n.send # s
      BY <1>2, <1>3, <1>4, <1>5, <3>0, <3>2 DEF Due
    <3> QED
      BY <3>1, <3>2
  <2> QED
    BY <2>2, <2>6, <2>7
<1>12. Listed'
  BY <1>4, <1>11 DEF Listed
<1> QED
  BY <1>6, <1>9, <1>10, <1>12

LEMMA HistoryShownLists ==
  ASSUME ChatInv, NEW l \in Load, HistoryShown(l)
  PROVE  ListInv'
<1> USE DEF ChatInv, ListInv, Calls
<1>1. /\ load[l].pc = "answer" /\ UNCHANGED <<rows, courses, mixed>>
      /\ load' = [load EXCEPT ![l] = Unasked]
      /\ page' = [page EXCEPT !.list = load[l].rows]
      /\ send' = [s \in Send |-> IF send[s].pc = "failed" THEN Done
                               ELSE send[s]]
  BY DEF HistoryShown, tables
<1>2. /\ page'.open = page.open /\ page'.course = page.course
      /\ page'.list = load[l].rows
  BY <1>1 DEF ChatTypes
<1>3. Unasked \in Call /\ Unasked.pc = "idle"
  BY DEF Unasked, Call, Shown
<1>4. /\ load' \in [Load -> Call] /\ load'[l].pc = "idle"
      /\ \A k \in Load : k # l => load'[k] = load[k]
      /\ load[l].rows \in Seq(Question)
  BY <1>1, <1>3 DEF ListTypes, Call
<1>5. ListTypes'
  BY <1>2, <1>4 DEF ListTypes
<1>6. Done.pc = "done"
  BY DEF Done, Quiet
<1>7. \A s \in Send : \/ send'[s] = send[s] /\ send[s].pc # "failed"
                      \/ send[s].pc = "failed" /\ send'[s].pc = "done"
  BY <1>1, <1>6
<1>8. l \in Loading /\ Loading' = Loading \ {l} /\ Sending' = Sending
      /\ \A s \in Sending : send'[s] = send[s]
  BY <1>1, <1>4, <1>7 DEF Loading, Sending, Over
<1>9. Open
  BY <1>1 DEF ClosedIsQuiet
<1>10. Calm' => /\ Calm /\ Loading' = {} /\ Sending = {}
                /\ load[l].rows = Oldest(HistoryLimit, Kept(page.course))
  BY <1>1, <1>2, <1>8, <1>9 DEF Calm, Open, OneLoad, Apart
<1>11. Calls'
  BY <1>2, <1>8, <1>9, <1>10 DEF ClosedIsQuiet, Apart, OneLoad, MineHere, Open
<1>12. Replied'
  BY <1>1, <1>7 DEF Replied, Message
<1>13. ASSUME Calm', Len(Kept(page.course)') <= HistoryLimit
       PROVE  OnceEach(page'.list)
              /\ \A n \in Question : n \in Contents(page'.list) <=> Due(n)'
  <2>1. Kept(page.course)' = Kept(page.course)
    BY <1>1, <1>2 DEF Kept
  <2>2. /\ Kept(page.course) \in Seq(Question)
        /\ OnceEach(Kept(page.course))
        /\ Contents(Kept(page.course)) =
             {m \in Contents(rows) : m.course = page.course}
    BY KeptIs, RowsOnce
  <2>3. page'.list = Kept(page.course)
    BY <1>2, <1>10, <1>13, <2>1, <2>2, ChatAssumption DEF Oldest
  <2>4. \A s \in Send :
          send'[s].pc \notin {"failed", "answer", "user", "refuse"}
    <3>1. ASSUME NEW s \in Send
          PROVE  send'[s].pc \notin {"failed", "answer", "user", "refuse"}
      <4>1. send[s].pc \notin {"answer", "user", "refuse"}
        BY <1>10, <1>13 DEF Sending, Over
      <4> QED
        BY <1>7, <4>1
    <3> QED
      BY <3>1
  <2>5. ASSUME NEW n \in Question
        PROVE  Due(n)' <=> n \in Contents(rows) /\ n.course = page.course
    <3>1. n.send \in Send
      BY DEF Question
    <3> QED
      BY <1>1, <1>2, <2>4, <3>1 DEF Due
  <2> QED
    BY <2>2, <2>3, <2>5
<1>14. Listed'
  BY <1>2, <1>13 DEF Listed
<1> QED
  BY <1>5, <1>11, <1>12, <1>14

LEMMA ReadsLists ==
  ASSUME ChatInv,
         ReadCourses \/ (\E l \in Load : ReadHistory(l)) \/
         (\E c \in Course : CreateCourse(c) \/ DeleteCourse(c)) \/
         UNCHANGED <<rows, send, page, courses, load, mixed, stale>>
  PROVE  ListInv'
<1> USE DEF ChatInv, ListInv, Calls
<1>1. UNCHANGED <<rows, send, page, mixed>>
  BY DEF ReadCourses, ReadHistory, CreateCourse, DeleteCourse, tables
<1>2. /\ Kept(page.course)' = Kept(page.course) /\ Sending' = Sending
      /\ Calm' = Calm /\ Open' = Open
  BY <1>1 DEF Kept, Sending, Calm, Open
<1>3. Replied'
  BY <1>1 DEF Replied, Message
<1>4. (\A m \in Question : Due(m)' = Due(m))
  BY <1>1 DEF Due
<1>5. MineHere'
  BY <1>1, <1>2 DEF MineHere
<1>6. CASE UNCHANGED <<load, stale>>
  <2>1. Loading' = Loading
    BY <1>6 DEF Loading
  <2>2. Apart'
    <3>1. courses' = courses \/ courses.pc = "sent"
      BY <1>6 DEF ReadCourses, ReadHistory, CreateCourse, DeleteCourse
    <3> QED
      BY <1>2, <2>1, <3>1 DEF Apart, NotAsked
  <2>3. ListTypes' /\ ClosedIsQuiet' /\ OneLoad' /\ Listed'
    BY <1>1, <1>2, <1>4, <1>6, <2>1
       DEF ListTypes, ClosedIsQuiet, OneLoad, Listed
  <2> QED
    BY <1>3, <1>5, <2>2, <2>3
<1>7. ASSUME NEW l \in Load, load[l].pc = "read",
             UNCHANGED <<courses, stale>>,
             load' = [load EXCEPT ![l].pc = "answer",
               ![l].rows = Oldest(HistoryLimit, Kept(load[l].course))]
      PROVE  ListInv'
  <2> DEFINE r == Oldest(HistoryLimit, Kept(load[l].course))
  <2>1. /\ load[l].pc = "read" /\ UNCHANGED <<courses, stale>>
        /\ load' = [load EXCEPT ![l].pc = "answer", ![l].rows = r]
    BY <1>7
  <2>2. r \in Seq(Question)
    <3>1. Kept(load[l].course) \in Seq(Question)
      BY KeptIs
    <3> QED
      BY <3>1, ChatAssumption DEF Oldest
  <2>r. r = Oldest(HistoryLimit, Kept(load[l].course))
    OBVIOUS
  <2> HIDE DEF r
  <2>3. /\ load' \in [Load -> Call] /\ load'[l].pc = "answer"
        /\ load'[l].rows = r /\ load'[l].course = load[l].course
        /\ \A k \in Load : k # l => load'[k] = load[k]
    BY <2>1, <2>2 DEF ListTypes, Call
  <2>4. Loading' = Loading /\ l \in Loading
    BY <2>1, <2>3 DEF Loading, Over
  <2>5. OneLoad'
    BY <1>1, <1>2, <2>3, <2>4, <2>r DEF OneLoad
  <2>6. ListTypes' /\ Apart' /\ ClosedIsQuiet' /\ Listed'
    BY <1>1, <1>2, <1>4, <2>1, <2>3, <2>4
       DEF ListTypes, Apart, ClosedIsQuiet, Listed
  <2> QED
    BY <1>3, <1>5, <2>5, <2>6
<1>8. ASSUME NEW l \in Load, ReadHistory(l),
             load' = [load EXCEPT ![l] = Unasked], stale'
      PROVE  ListInv'
  <2>1. UNCHANGED courses /\ load[l].pc = "read"
    BY <1>8 DEF ReadHistory
  <2>2. Unasked \in Call /\ Unasked.pc = "idle"
    BY DEF Unasked, Call, Shown
  <2>3. /\ load' \in [Load -> Call] /\ load'[l].pc = "idle"
        /\ \A k \in Load : k # l => load'[k] = load[k]
    BY <1>8, <2>2 DEF ListTypes
  <2>4. Loading' = Loading \ {l} /\ l \in Loading
    BY <2>1, <2>3 DEF Loading, Over
  <2>5. ListTypes' /\ ClosedIsQuiet' /\ Apart' /\ OneLoad' /\ Listed'
    BY <1>1, <1>2, <1>8, <2>1, <2>3, <2>4
       DEF ListTypes, ClosedIsQuiet, Apart, OneLoad, Listed
  <2> QED
    BY <1>3, <1>5, <2>5
<1> QED
  BY <1>6, <1>7, <1>8 DEF ReadCourses, ReadHistory, CreateCourse,
     DeleteCourse

-----------------------------------------------------------------------------
(* The steps of a call of sendChatMessage.                                 *)

(* What the step of one call leaves alone.                                 *)
LEMMA ServedCalls ==
  ASSUME ChatInv, NEW c \in Send, c \in Sending,
         send' \in [Send -> Sent],
         \A s \in Send : s # c => send'[s] = send[s],
         \/ send'[c].pc \in Over
         \/ send'[c].mine = send[c].mine /\ send'[c].course = send[c].course,
         UNCHANGED <<load, courses, mixed>>,
         page'.open = page.open, page'.course = page.course
  PROVE  /\ Calls'
         /\ Calm' => Calm
         /\ Calm => Loading = {} /\ send[c].mine
                    /\ send[c].course = page.course
         /\ Loading' = Loading
<1> USE DEF ChatInv, ListInv, Calls
<1>1. Loading' = Loading /\ Calm' = Calm
  BY DEF Loading, Calm, Open
<1>2. Calm => /\ Loading = {} /\ courses = NotAsked
              /\ send[c].mine /\ send[c].course = page.course
  BY DEF Apart, MineHere
<1>3. ClosedIsQuiet' /\ Apart' /\ OneLoad'
  BY <1>1, <1>2 DEF ClosedIsQuiet, Apart, OneLoad, Open
<1>4. MineHere'
  <2>1. ASSUME NEW s \in Send, s \in Sending', Calm'
        PROVE  send'[s].mine /\ send'[s].course = page'.course
    <3>1. CASE s = c
      BY <1>1, <1>2, <2>1, <3>1 DEF Sending
    <3>2. CASE s # c
      <4>1. s \in Sending /\ send'[s] = send[s]
        BY <2>1, <3>2 DEF Sending
      <4> QED
        BY <1>1, <2>1, <4>1 DEF MineHere
    <3> QED
      BY <3>1, <3>2
  <2>2. Sending' \subseteq Send
    BY DEF Sending
  <2> QED
    BY <2>1, <2>2 DEF MineHere
<1> QED
  BY <1>1, <1>2, <1>3, <1>4

LEMMA KeepQuestionLists ==
  ASSUME ChatInv, NEW c \in Send, KeepQuestion(c)
  PROVE  ListInv'
<1> USE DEF ChatInv, ListInv
<1> DEFINE m == Message(c, "user")
<1>1. /\ send[c].pc = "user" /\ rows' = Append(rows, m)
      /\ send' = [send EXCEPT ![c].pc = "ground"]
      /\ UNCHANGED <<page, courses, load, mixed, stale>>
  BY DEF KeepQuestion, Goes
<1>2. m \in Question /\ m.send = c /\ m.role = "user"
      /\ m.course = send[c].course
  BY MessageIs
<1> HIDE DEF m
<1>3. /\ send' \in [Send -> Sent] /\ send'[c].pc = "ground"
      /\ send'[c].course = send[c].course /\ send'[c].mine = send[c].mine
      /\ \A s \in Send : s # c => send'[s] = send[s]
  BY <1>1 DEF ChatTypes, Sent
<1>4. c \in Sending
  BY <1>1 DEF Sending, Over
<1>5. /\ Calls' /\ (Calm' => Calm) /\ Loading' = Loading
      /\ Calm => send[c].course = page.course
  BY <1>1, <1>3, <1>4, ServedCalls
<1>6. /\ Contents(rows') = Contents(rows) \cup {m}
      /\ Len(Kept(page.course)) <= Len(Kept(page.course)')
      /\ Len(Kept(page.course)) \in Nat
      /\ Len(Kept(page.course)') \in Nat
  BY <1>1, <1>2, KeptGrows
<1>7. Replied'
  BY <1>3, <1>6 DEF Replied, Message
<1>8. ASSUME NEW n \in Question, Calm
      PROVE  Due(n)' <=> Due(n)
  <2>0. n.send \in Send
    BY DEF Question
  <2>1. CASE n = m
    BY <1>1, <1>2, <1>3, <1>5, <1>6, <1>8, <2>1 DEF Due
  <2>2. CASE n # m
    <3>1. CASE n.send = c
      <4>1. ~(n.role = "user" /\ n.course = send[c].course)
        BY <1>2, <2>2, <3>1, SameMessage
      <4>2. \A r \in Contents(rows) : r.send # c
        <5>1. Told(c)
          OBVIOUS
        <5> QED
          BY <1>1, <5>1 DEF Told, Unkept, Contents
      <4> QED
        BY <1>1, <1>3, <1>6, <2>2, <3>1, <4>1, <4>2 DEF Due
    <3>2. CASE n.send # c
      BY <1>1, <1>3, <1>6, <2>0, <2>2, <3>2 DEF Due
    <3> QED
      BY <3>1, <3>2
  <2> QED
    BY <2>1, <2>2
<1>9. Listed'
  <2>1. ASSUME Calm', Loading' = {}, Len(Kept(page.course)') <= HistoryLimit
        PROVE  Len(Kept(page.course)) <= HistoryLimit
    BY <1>6, <2>1, ChatAssumption
  <2> QED
    BY <1>1, <1>5, <1>8, <2>1 DEF Listed
<1>10. ListTypes'
  BY <1>1 DEF ListTypes
<1> QED
  BY <1>5, <1>7, <1>9, <1>10

LEMMA KeepReplyLists ==
  ASSUME ChatInv, NEW c \in Send, KeepReply(c)
  PROVE  ListInv'
<1> USE DEF ChatInv, ListInv
<1> DEFINE m == Message(c, "assistant")
<1>1. /\ send[c].pc = "reply" /\ rows' = Append(rows, m)
      /\ send' = [send EXCEPT ![c].pc = "answer"]
      /\ UNCHANGED <<page, courses, load, mixed, stale>>
  BY DEF KeepReply, Goes
<1>2. m \in Question /\ m.send = c /\ m.role = "assistant"
      /\ m.course = send[c].course
  BY MessageIs
<1>m. Message(c, "assistant")' = m
  BY <1>1 DEF ChatTypes, Message, Sent
<1> HIDE DEF m
<1>3. /\ send' \in [Send -> Sent] /\ send'[c].pc = "answer"
      /\ send'[c].course = send[c].course /\ send'[c].mine = send[c].mine
      /\ \A s \in Send : s # c => send'[s] = send[s]
  BY <1>1 DEF ChatTypes, Sent
<1>4. c \in Sending
  BY <1>1 DEF Sending, Over
<1>5. /\ Calls' /\ (Calm' => Calm) /\ Loading' = Loading
      /\ Calm => send[c].course = page.course
  BY <1>1, <1>3, <1>4, ServedCalls
<1>6. /\ Contents(rows') = Contents(rows) \cup {m}
      /\ Len(Kept(page.course)) <= Len(Kept(page.course)')
      /\ Len(Kept(page.course)) \in Nat
      /\ Len(Kept(page.course)') \in Nat
  BY <1>1, <1>2, KeptGrows
<1>7. Replied'
  <2>1. ASSUME NEW s \in Send, send'[s].pc = "answer", s # c
        PROVE  Message(s, "assistant")' \in Contents(rows')
    <3>1. Message(s, "assistant")' = Message(s, "assistant")
      BY <1>3, <2>1 DEF Message
    <3> QED
      BY <1>3, <1>6, <2>1, <3>1 DEF Replied
  <2> QED
    BY <1>6, <1>m, <2>1 DEF Replied
<1>8. ASSUME NEW n \in Question, Calm
      PROVE  Due(n)' <=> Due(n)
  <2>0. n.send \in Send /\ n.role \in {"user", "assistant"}
    BY DEF Question
  <2>1. CASE n = m
    <3>1. ~Due(n)'
      BY <1>2, <1>3, <2>1 DEF Due
    <3>2. m \notin Contents(rows)
      <4>1. Alone(c)
        BY <1>1 DEF Told
      <4> QED
        BY <1>2, <4>1 DEF Alone, Contents
    <3> QED
      BY <1>1, <1>2, <2>1, <3>1, <3>2 DEF Due
  <2>2. CASE n # m
    <3>1. CASE n.send = c
      <4>1. n \in Contents(rows) => n.role = "user"
        <5>1. Alone(c)
          BY <1>1 DEF Told
        <5> QED
          BY <3>1, <5>1 DEF Alone, Contents
      <4> QED
        BY <1>1, <1>3, <1>6, <2>2, <3>1, <4>1 DEF Due
    <3>2. CASE n.send # c
      BY <1>1, <1>3, <1>6, <2>0, <2>2, <3>2 DEF Due
    <3> QED
      BY <3>1, <3>2
  <2> QED
    BY <2>1, <2>2
<1>9. Listed'
  <2>1. ASSUME Calm', Loading' = {}, Len(Kept(page.course)') <= HistoryLimit
        PROVE  Len(Kept(page.course)) <= HistoryLimit
    BY <1>6, <2>1, ChatAssumption
  <2> QED
    BY <1>1, <1>5, <1>8, <2>1 DEF Listed
<1>10. ListTypes'
  BY <1>1 DEF ListTypes
<1> QED
  BY <1>5, <1>7, <1>9, <1>10

LEMMA GroundLists ==
  ASSUME ChatInv, NEW c \in Send, Ground(c) \/ RefuseQuestion(c)
  PROVE  ListInv'
<1> USE DEF ChatInv, ListInv
<1>1. PICK pc \in {"reply", "error", "refuse"} :
        /\ send' = [send EXCEPT ![c].pc = pc]
        /\ IF pc = "refuse" THEN send[c].pc = "user"
           ELSE send[c].pc = "ground"
  BY DEF Ground, RefuseQuestion, Goes
<1>2. /\ send[c].pc \in {"user", "ground"}
      /\ UNCHANGED <<rows, page, courses, load, mixed, stale>>
  BY DEF Ground, RefuseQuestion, tables
<1>3. /\ send' \in [Send -> Sent] /\ send'[c].pc = pc
      /\ send'[c].course = send[c].course /\ send'[c].mine = send[c].mine
      /\ \A s \in Send : s # c => send'[s] = send[s]
  BY <1>1 DEF ChatTypes, Sent
<1>4. c \in Sending
  BY <1>2 DEF Sending, Over
<1>5. Calls' /\ (Calm' => Calm) /\ Loading' = Loading
  BY <1>2, <1>3, <1>4, ServedCalls
<1>6. Replied'
  BY <1>1, <1>2, <1>3 DEF Replied, Message
<1>7. \A n \in Question : Due(n)' <=> Due(n)
  <2>1. \A n \in Question : n.send \in Send
    BY DEF Question
  <2> QED
    BY <1>1, <1>2, <1>3, <2>1 DEF Due
<1>8. Kept(page.course)' = Kept(page.course)
  BY <1>2 DEF Kept
<1>9. Listed' /\ ListTypes'
  BY <1>2, <1>5, <1>7, <1>8 DEF Listed, ListTypes
<1> QED
  BY <1>5, <1>6, <1>9

LEMMA ReplyShownLists ==
  ASSUME ChatInv, NEW c \in Send, ReplyShown(c)
  PROVE  ListInv'
<1> USE DEF ChatInv, ListInv
<1> DEFINE m == Message(c, "assistant")
<1>1. /\ send[c].pc = "answer" /\ send' = [send EXCEPT ![c] = Done]
      /\ UNCHANGED <<rows, courses, load, mixed, stale>>
      /\ page' = IF send[c].mine
                 THEN [page EXCEPT !.list = Append(@, m), !.loading = FALSE]
                 ELSE page
  BY DEF ReplyShown, tables
<1>2. m \in Question /\ m.send = c /\ m.role = "assistant"
      /\ m.course = send[c].course
  BY MessageIs
<1>m. m \in Contents(rows)
  BY <1>1 DEF Replied
<1> HIDE DEF m
<1>3. /\ page'.open = page.open /\ page'.course = page.course
      /\ page'.list = IF send[c].mine THEN Append(page.list, m)
                      ELSE page.list
  <2> DEFINE l == Append(page.list, m)
  <2>1. page' = IF send[c].mine
                THEN [page EXCEPT !.list = l, !.loading = FALSE] ELSE page
    BY <1>1
  <2> HIDE DEF l
  <2>2. /\ page'.open = page.open /\ page'.course = page.course
        /\ page'.list = IF send[c].mine THEN l ELSE page.list
    BY <2>1 DEF ChatTypes
  <2> QED
    BY <2>2 DEF l
<1>4. Done \in Sent /\ Done.pc = "done"
  BY DEF Done, Quiet, Sent, Shown
<1>5. /\ send' \in [Send -> Sent] /\ send'[c].pc = "done"
      /\ \A s \in Send : s # c => send'[s] = send[s]
  BY <1>1, <1>4 DEF ChatTypes
<1>6. c \in Sending
  BY <1>1 DEF Sending, Over
<1>7. send'[c].pc \in Over
  BY <1>5 DEF Over
<1>8. /\ Calls' /\ (Calm' => Calm) /\ Loading' = Loading
      /\ Calm => send[c].mine /\ send[c].course = page.course
  BY <1>1, <1>3, <1>5, <1>6, <1>7, ServedCalls
<1>9. Replied'
  BY <1>1, <1>5 DEF Replied, Message
<1>10. ListTypes'
  BY <1>1, <1>2, <1>3 DEF ListTypes
<1>11. ASSUME NEW n \in Question, Calm
       PROVE  Due(n)' <=> Due(n) \/ n = m
  <2>1. n.send \in Send /\ n.role \in {"user", "assistant"}
    BY DEF Question
  <2>2. CASE n.send = c
    <3>1. n.role = "assistant" /\ n.course = page.course <=> n = m
      BY <1>2, <1>8, <1>11, <2>2, SameMessage
    <3>2. n \in Contents(rows) /\ n.role = "assistant" => n = m
      <4>1. Told(c)
        OBVIOUS
      <4>2. ASSUME n \in Contents(rows), n.role = "assistant"
            PROVE  n.course = m.course
        <5>1. PICK i \in DOMAIN rows : rows[i] = n
          BY <4>2 DEF Contents
        <5>2. PICK j \in DOMAIN rows : rows[j] = m
          BY <1>m DEF Contents
        <5>3. i = j \/ i < j \/ j < i
          BY DEF ChatTypes
        <5> QED
          BY <1>2, <2>2, <4>1, <4>2, <5>1, <5>2, <5>3 DEF Told, AtMostOnce
      <4> QED
        BY <1>2, <2>2, <4>2, SameMessage
    <3> QED
      BY <1>1, <1>2, <1>3, <1>5, <1>8, <1>11, <1>m, <2>1, <2>2, <3>1, <3>2
         DEF Due
  <2>3. CASE n.send # c
    BY <1>1, <1>2, <1>3, <1>5, <2>1, <2>3 DEF Due
  <2> QED
    BY <2>2, <2>3
<1>12. ASSUME Calm', ~stale', Loading' = {},
              Len(Kept(page.course)') <= HistoryLimit
       PROVE  OnceEach(page'.list)
              /\ \A n \in Question : n \in Contents(page'.list) <=> Due(n)'
  <2>1. Kept(page.course)' = Kept(page.course)
    BY <1>1, <1>3 DEF Kept
  <2>2. /\ Calm /\ OnceEach(page.list)
        /\ \A n \in Question : n \in Contents(page.list) <=> Due(n)
    BY <1>1, <1>8, <1>12, <2>1 DEF Listed
  <2>3. m \notin Contents(page.list)
    BY <1>1, <1>2, <2>2 DEF Due
  <2>4. page.list \in Seq(Question)
    BY DEF ListTypes
  <2>5. /\ OnceEach(page'.list)
        /\ Contents(page'.list) = Contents(page.list) \cup {m}
    BY <1>2, <1>3, <1>8, <2>2, <2>3, <2>4, AppendedList
  <2> QED
    BY <1>11, <2>2, <2>5
<1>13. Listed'
  BY <1>3, <1>12 DEF Listed
<1> QED
  BY <1>8, <1>9, <1>10, <1>13

LEMMA ErrorShownLists ==
  ASSUME ChatInv, NEW c \in Send, ErrorShown(c)
  PROVE  ListInv'
<1> USE DEF ChatInv, ListInv
<1> DEFINE others == Only(page.list, Said(Send \ {c}, Shown))
<1>1. /\ send[c].pc \in {"error", "refuse"}
      /\ send' = [send EXCEPT ![c] = Failed(c)]
      /\ UNCHANGED <<rows, courses, load, mixed, stale>>
      /\ page' = IF send[c].mine
                 THEN [page EXCEPT !.loading = FALSE, !.list = others]
                 ELSE page
  BY DEF ErrorShown, tables
<1>2. page.list \in Seq(Question)
  BY DEF ListTypes
<1>3. /\ others \in Seq(Question)
      /\ Contents(others) = Contents(page.list) \cap Said(Send \ {c}, Shown)
      /\ OnceEach(page.list) => OnceEach(others)
  BY <1>2, OnlyIs
<1>4. /\ page'.open = page.open /\ page'.course = page.course
      /\ page'.list = IF send[c].mine THEN others ELSE page.list
  <2> HIDE DEF others
  <2> QED
    BY <1>1 DEF ChatTypes
<1> HIDE DEF others
<1>5. Failed(c) \in Sent
      /\ Failed(c).pc = IF send[c].pc = "refuse" THEN "refused"
                        ELSE IF send[c].mine THEN "failed" ELSE "done"
  BY DEF Failed, Quiet, Sent, Shown
<1>6. /\ send' \in [Send -> Sent]
      /\ send'[c].pc \in {"failed", "done", "refused"}
      /\ send[c].pc = "refuse" => send'[c].pc = "refused"
      /\ send[c].pc # "refuse" /\ send[c].mine => send'[c].pc = "failed"
      /\ \A s \in Send : s # c => send'[s] = send[s]
  BY <1>1, <1>5 DEF ChatTypes
<1>7. c \in Sending
  BY <1>1 DEF Sending, Over
<1>8. send'[c].pc \in Over
  BY <1>6 DEF Over
<1>9. /\ Calls' /\ (Calm' => Calm) /\ Loading' = Loading
      /\ Calm => send[c].mine
  BY <1>1, <1>4, <1>6, <1>7, <1>8, ServedCalls
<1>10. Replied'
  BY <1>1, <1>6 DEF Replied, Message
<1>11. ListTypes'
  BY <1>1, <1>2, <1>3, <1>4 DEF ListTypes
<1>12. ASSUME NEW n \in Question, Calm
       PROVE  Due(n)' <=> Due(n) /\ n \in Said(Send \ {c}, Shown)
  <2>1. n.send \in Send /\ (n \in Said(Send \ {c}, Shown) <=> n.send # c)
    BY DEF Question, Said
  <2>2. send[c].pc = "refuse" => \A i \in DOMAIN rows : rows[i].send # c
    <3>1. Told(c)
      OBVIOUS
    <3> QED
      BY <3>1 DEF Told, Unkept
  <2>3. CASE n.send = c
    BY <1>1, <1>4, <1>6, <1>9, <1>12, <2>1, <2>2, <2>3 DEF Due, Contents
  <2>4. CASE n.send # c
    BY <1>1, <1>4, <1>6, <1>9, <1>12, <2>1, <2>4 DEF Due
  <2> QED
    BY <2>3, <2>4
<1>13. ASSUME Calm', ~stale', Loading' = {},
              Len(Kept(page.course)') <= HistoryLimit
       PROVE  OnceEach(page'.list)
              /\ \A n \in Question : n \in Contents(page'.list) <=> Due(n)'
  <2>1. Kept(page.course)' = Kept(page.course)
    BY <1>1, <1>4 DEF Kept
  <2>2. /\ Calm /\ OnceEach(page.list)
        /\ \A n \in Question : n \in Contents(page.list) <=> Due(n)
    BY <1>1, <1>9, <1>13, <2>1 DEF Listed
  <2> QED
    BY <1>3, <1>4, <1>9, <1>12, <2>2
<1>14. Listed'
  BY <1>4, <1>13 DEF Listed
<1> QED
  BY <1>9, <1>10, <1>11, <1>14

-----------------------------------------------------------------------------
LEMMA ListStep ==
  ASSUME ChatInv, [ChatNext]_chatVars
  PROVE  ListInv'
<1>1. ASSUME CoursesLoaded \/ SelectCourse
      PROVE  ListInv'
  <2>1. Open
    BY <1>1 DEF CoursesLoaded, SelectCourse
  <2>2. \/ \E c \in Course : \E options : Select(c, options)
        \/ UNCHANGED <<rows, send, page, load, mixed, stale>>
           /\ courses' = NotAsked
    BY <1>1 DEF CoursesLoaded, SelectCourse, tables, ChatInv, ChatTypes
  <2>3. ASSUME UNCHANGED <<rows, send, page, load, mixed, stale>>,
               courses' = NotAsked
        PROVE  ListInv'
    <3>1. /\ Kept(page.course)' = Kept(page.course) /\ Sending' = Sending
          /\ Calm' = Calm /\ Open' = Open /\ Loading' = Loading
      BY <2>3 DEF Kept, Sending, Calm, Open, Loading
    <3>2. \A m \in Question : Due(m)' = Due(m)
      BY <2>3 DEF Due
    <3> QED
      BY <2>3, <3>1, <3>2
         DEF ChatInv, ListInv, Calls, ListTypes, ClosedIsQuiet, Apart,
             OneLoad, MineHere, Replied, Listed, Message
  <2> QED
    BY <2>1, <2>2, <2>3, SelectLists
<1>2. CASE UNCHANGED chatVars
  BY <1>2, ReadsLists DEF chatVars, tables
<1> QED
  BY <1>1, <1>2, OpenPageLists, ClosePageLists, SendPressedLists,
     HistoryShownLists, ReadsLists, KeepQuestionLists, KeepReplyLists,
     GroundLists, ReplyShownLists, ErrorShownLists
     DEF ChatNext, Serves

(* As long as calls of a visit do not overlap, the last history asked for  *)
(* could be read, and the course has no more messages than CHAT_HISTORY    *)
(* returns, the page comes to show what the table has for the course,      *)
(* without the questions that failed: no order of answers loses or doubles *)
(* a message (ChatPage.tsx).                                               *)
THEOREM ListShown == ChatSpec => []ListIsTable
<1>1. ChatInit => ChatInv
  <2> SUFFICES ASSUME ChatInit
               PROVE  ChatInv
    OBVIOUS
  <2>1. /\ rows = <<>> /\ page = Closed /\ courses = NotAsked
        /\ load = [l \in Load |-> Unasked]
        /\ send = [s \in Send |-> Quiet]
    BY DEF ChatInit
  <2>2. ~Open /\ page.list = <<>>
    BY <2>1 DEF Open, Closed
  <2>3. Unasked.pc = "idle" /\ Unasked \in Call /\ Quiet.pc = "idle"
    BY DEF Unasked, Call, Shown, Quiet
  <2>4. ListTypes /\ ClosedIsQuiet
    BY <2>1, <2>2, <2>3 DEF ListTypes, ClosedIsQuiet
  <2>5. Replied
    BY <2>1, <2>3 DEF Replied
  <2> QED
    BY <2>2, <2>4, <2>5, ChatInits
       DEF ChatInv, ListInv, Calls, Apart, OneLoad, MineHere, Listed, Calm
<1>2. ChatInv /\ [ChatNext]_chatVars => ChatInv'
  BY ChatStep, ListStep DEF ChatInv
<1>3. ChatInv => ListIsTable
  <2> DEFINE failed == {s \in Send : send[s].pc = "failed"}
             kept == Kept(page.course)
             wanted == Only(kept, Said(Send \ failed, Shown))
  <2> SUFFICES ASSUME ChatInv, Calm, Loading = {}, Sending = {},
                      ~stale, Len(kept) <= HistoryLimit
               PROVE  Contents(page.list) = Contents(wanted)
                      /\ Len(page.list) = Len(wanted)
    BY DEF ListIsTable, Calm, Contents
  <2>1. /\ kept \in Seq(Question) /\ OnceEach(kept)
        /\ Contents(kept) = {m \in Contents(rows) : m.course = page.course}
    BY KeptIs, RowsOnce DEF ChatInv
  <2>2. /\ wanted \in Seq(Question) /\ OnceEach(wanted)
        /\ Contents(wanted) = Contents(kept)
                              \cap Said(Send \ failed, Shown)
    BY <2>1, OnlyIs
  <2>3. /\ page.list \in Seq(Question) /\ OnceEach(page.list)
        /\ \A m \in Question : m \in Contents(page.list) <=> Due(m)
    BY DEF ChatInv, ListInv, ListTypes, Listed
  <2>4. ASSUME NEW m \in Question
        PROVE  m \in Contents(wanted) <=> Due(m)
    <3>1. m.send \in Send
          /\ (m \in Said(Send \ failed, Shown) <=> m.send \notin failed)
      BY DEF Question, Said
    <3>2. send[m.send].pc \notin {"user", "answer", "refuse"}
      BY <3>1, Waiting DEF ChatInv, ListInv
    <3> HIDE DEF wanted, kept
    <3> QED
      BY <2>1, <2>2, <3>1, <3>2 DEF Due
  <2>5. \A q \in Seq(Question) : Contents(q) \subseteq Question
    BY DEF Contents
  <2> HIDE DEF wanted
  <2>6. Contents(page.list) = Contents(wanted)
    BY <2>2, <2>3, <2>4, <2>5
  <2> QED
    BY <2>2, <2>3, <2>6, SameLength
<1> QED
  BY <1>1, <1>2, <1>3, PTL DEF ChatSpec
=============================================================================
