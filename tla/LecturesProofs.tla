--------------------------- MODULE LecturesProofs ---------------------------
(***************************************************************************)
(* Proofs about the lectures as the user meets them, for any number of     *)
(* lectures, chunks, passes, calls on their way, edits and takes.          *)
(*                                                                         *)
(* A pass of Whisper: its WAV file is on disk only while whisper.cpp reads *)
(* it or its job is about to fail, and only a job at the end of its loop   *)
(* is done.                                                                *)
(*                                                                         *)
(* A recording: a call that starts one carries a privacy mode that was     *)
(* shown with its lecture, from the press to the row, and what was shown   *)
(* or started is never taken back; so neither an answer of the settings    *)
(* nor a selection during the awaits gets in between.                      *)
(***************************************************************************)
EXTENDS Lectures, TLAPS

(* A pass.                                                                 *)
PassInv ==
  /\ pass = [pc |-> pass.pc, lecture |-> pass.lecture, live |-> pass.live,
             todo |-> pass.todo, seg |-> pass.seg, aborted |-> pass.aborted,
             wav |-> pass.wav, done |-> pass.done]
  /\ pass.wav => pass.pc \in {"infer", "catch"}
  /\ pass.done => pass.pc = "idle" /\ pass.todo = <<>>

(* The records of the pages, their calls and the sessions.                 *)
Sessions == [row : {"none", "ACTIVE", "STOPPED"}, privacy : BOOLEAN]

Pages == [at : {"list", "new", "detail", "recorder"},
          lecture : Lecture \cup {0},
          status : {"idle", "busy", "loading", "shown", "requesting",
                    "recording"},
          row : Lecture \cup {0}, consent : BOOLEAN, privacy : BOOLEAN]

CallRecs == [kind : {"create", "load", "edit", "settings", "start"},
             pc : {"insert", "created", "navigate", "lecture", "transcript",
                   "sent", "mic", "row", "started"},
             lecture : Lecture \cup {0}, seg : Index \cup {0}, val : Nat,
             privacy : BOOLEAN, mine : BOOLEAN]

(* A call that starts a recording carries what was shown when Record was   *)
(* pressed, and knows of a row only when there is one.                     *)
Carried(c, shown, sess) ==
  /\ c \in CallRecs
  /\ c.kind = "start" =>
       /\ c.lecture \in Lecture /\ c.privacy \in shown[c.lecture]
       /\ c.pc \in {"lecture", "started"} => sess[c.lecture].row # "none"

PageRow(p, sess) ==
  p.status = "recording" => p.row \in Lecture /\ sess[p.row].row # "none"

StartInv ==
  /\ selected \in Lecture \cup {0}
  /\ page \in Pages /\ PageRow(page, session)
  /\ session \in [Lecture -> Sessions]
  /\ asked \in [Lecture -> SUBSET BOOLEAN]
  /\ edits \in Nat
  /\ \A c \in calls : Carried(c, asked, session)
  /\ StartsAsShown

-----------------------------------------------------------------------------
(* A pass.                                                                 *)

LEMMA PassStep == ASSUME PassInv, Transcribes PROVE PassInv'
<1> USE DEF PassInv
<1>1. ASSUME NEW l \in Lecture, Claim(l) PROVE PassInv'
  BY <1>1 DEF Claim, Fresh
<1>2. CASE Refuse
  BY <1>2 DEF Refuse, Failed, Fresh, At
<1>3. CASE Resolve
  BY <1>3 DEF Resolve, At
<1>4. CASE NextChunk
  BY <1>4 DEF NextChunk, Step, At
<1>5. CASE Converted \/ ConvertFails
  BY <1>5 DEF Converted, ConvertFails, At
<1>6. CASE Inferred \/ InferFails
  BY <1>6 DEF Inferred, InferFails, Step, At
<1>7. CASE Insert \/ InsertFails
  BY <1>7 DEF Insert, InsertFails, Step, At
<1>8. CASE Finish
  BY <1>8 DEF Finish, Completed, Failed, Fresh, At
<1>9. CASE Catch
  BY <1>9 DEF Catch, Fresh
<1>10. CASE Timeout
  BY <1>10 DEF Timeout, At
<1> QED
  BY <1>1, <1>2, <1>3, <1>4, <1>5, <1>6, <1>7, <1>8, <1>9, <1>10
     DEF Transcribes

(* The pages leave the pass in progress alone.                             *)
LEMMA OthersKeepPass ==
  ASSUME [Next]_vars PROVE Work \/ UNCHANGED passVars
<1>1. ASSUME NEW c \in calls, Goes(c) PROVE UNCHANGED passVars
  BY <1>1 DEF Goes, CreateLecture, CreateFails, SelectCreated,
     NavigateCreated, LectureLoaded, TranscriptLoaded, EditSegment,
     SettingsShown, StartFails, MicGranted, StartSession, MarkRecording,
     SessionStarted, dataVars, whisperVars
<1>2. ASSUME \/ \E at \in {"list", "new"} : Open(at)
             \/ OpenRecorder \/ Submit
             \/ \E l \in Lecture : OpenDetail(l) \/ RecordLecture(l)
             \/ \E k \in Index : SaveEdit(k)
             \/ Tick \/ RecordPressed \/ StopPressed
      PROVE  UNCHANGED passVars
  BY <1>2 DEF Open, OpenRecorder, Submit, OpenDetail, RecordLecture,
     SaveEdit, Tick, RecordPressed, StopPressed, dataVars, whisperVars
<1> QED
  BY <1>1, <1>2 DEF Next, vars, dataVars, whisperVars

(* A job that ended left no WAV file behind, and one that is DONE heard    *)
(* every chunk: an abort never passes for the end of the loop              *)
(* (processTranscribeJob).                                                 *)
THEOREM PassesEndWell == Spec => []PassEndsWell
<1>1. Init => PassInv
  BY DEF Init, WhisperInit, PassInv, Fresh
<1>2. ASSUME PassInv, [Next]_vars PROVE PassInv'
  <2>1. CASE Work
    BY <1>2, <2>1, PassStep DEF Work
  <2>2. CASE UNCHANGED passVars
    BY <1>2, <2>2 DEF PassInv, passVars
  <2> QED
    BY <1>2, <2>1, <2>2, OthersKeepPass
<1>3. PassInv => PassEndsWell
  BY DEF PassInv, PassEndsWell, At
<1> QED
  BY <1>1, <1>2, <1>3, PTL DEF Spec

-----------------------------------------------------------------------------
(* The edits.                                                              *)

(* Only editSegment writes editedText.                                     *)
LEMMA EditStep ==
  ASSUME [Next]_vars
  PROVE  \/ \E c \in calls : EditSegment(c)
         \/ UNCHANGED <<edited, wanted>>
<1>1. CASE Work
  BY <1>1 DEF Work, Transcribes, Claim, Refuse, Resolve, NextChunk,
     Converted, ConvertFails, Inferred, InferFails, Insert, InsertFails,
     Finish, Catch, Timeout
<1>2. ASSUME NEW c \in calls, Goes(c), ~EditSegment(c)
      PROVE  UNCHANGED <<edited, wanted>>
  BY <1>2 DEF Goes, CreateLecture, CreateFails, SelectCreated,
     NavigateCreated, LectureLoaded, TranscriptLoaded, SettingsShown,
     StartFails, MicGranted, StartSession, MarkRecording, SessionStarted,
     dataVars, whisperVars
<1>3. ASSUME \/ \E at \in {"list", "new"} : Open(at)
             \/ OpenRecorder \/ Submit
             \/ \E l \in Lecture : OpenDetail(l) \/ RecordLecture(l)
             \/ \E k \in Index : SaveEdit(k)
             \/ Tick \/ RecordPressed \/ StopPressed
      PROVE  UNCHANGED <<edited, wanted>>
  BY <1>3 DEF Open, OpenRecorder, Submit, OpenDetail, RecordLecture,
     SaveEdit, Tick, RecordPressed, StopPressed, dataVars, whisperVars
<1> QED
  BY <1>1, <1>2, <1>3 DEF Next, vars, dataVars, whisperVars

(* What the user saved of a segment is what the table has: transcribing    *)
(* again never takes an edit back (TranscriptService.bulkInsert).          *)
THEOREM EditsStay == Spec => []EditKept
<1>1. Init => EditKept
  BY DEF Init, WhisperInit, EditKept
<1>2. ASSUME EditKept, [Next]_vars PROVE EditKept'
  BY <1>2, EditStep DEF EditKept, EditSegment
<1> QED
  BY <1>1, <1>2, PTL DEF Spec

-----------------------------------------------------------------------------
(* The recordings.                                                         *)

LEMMA NewCalls ==
  /\ Call("create", "insert") \in CallRecs
  /\ Call("settings", "sent") \in CallRecs
  /\ \A l \in Lecture :
       [Call("load", "lecture") EXCEPT !.lecture = l] \in CallRecs
  /\ \A l \in Lecture \cup {0}, k \in Index, v \in Nat :
       [Call("edit", "sent") EXCEPT !.lecture = l, !.seg = k, !.val = v]
         \in CallRecs
  /\ \A l \in Lecture, b \in BOOLEAN :
       [Call("start", "mic") EXCEPT !.lecture = l, !.privacy = b]
         \in CallRecs
BY DEF Call, CallRecs

(* A call that only reads or creates is no start.                          *)
LEMMA NoStart ==
  ASSUME NEW shown, NEW sess
  PROVE  /\ Carried(Call("create", "insert"), shown, sess)
         /\ Carried(Call("settings", "sent"), shown, sess)
         /\ \A l \in Lecture :
              Carried([Call("load", "lecture") EXCEPT !.lecture = l],
                      shown, sess)
         /\ \A l \in Lecture \cup {0}, k \in Index, v \in Nat :
              Carried([Call("edit", "sent") EXCEPT !.lecture = l,
                                                   !.seg = k, !.val = v],
                      shown, sess)
<1>1. /\ Call("create", "insert").kind = "create"
      /\ Call("settings", "sent").kind = "settings"
  BY DEF Call
<1>2. \A l : [Call("load", "lecture") EXCEPT !.lecture = l].kind = "load"
  BY DEF Call
<1>3. \A l, k, v : [Call("edit", "sent") EXCEPT !.lecture = l, !.seg = k,
                                                !.val = v].kind = "edit"
  BY DEF Call
<1> QED
  BY <1>1, <1>2, <1>3, NewCalls DEF Carried

(* A call that goes on is the same call.                                   *)
LEMMA GoesOn ==
  ASSUME NEW c \in CallRecs, NEW d,
         NEW pc \in {"insert", "created", "navigate", "lecture",
                     "transcript", "sent", "mic", "row", "started"},
         d = [c EXCEPT !.pc = pc]
  PROVE  /\ d \in CallRecs /\ d.pc = pc /\ d.kind = c.kind
         /\ d.lecture = c.lecture /\ d.privacy = c.privacy
BY DEF CallRecs

(* Leaving the page that asked for it does not change what a call carries. *)
LEMMA LeftCarried ==
  ASSUME NEW cs, NEW shown, NEW sess, \A c \in cs : Carried(c, shown, sess)
  PROVE  \A c \in Left(cs) : Carried(c, shown, sess)
<1> SUFFICES ASSUME NEW d \in cs
             PROVE  Carried([d EXCEPT !.mine = FALSE], shown, sess)
  BY DEF Left
<1> DEFINE e == [d EXCEPT !.mine = FALSE]
<1>1. Carried(d, shown, sess) /\ d \in CallRecs
  BY DEF Carried
<1>2. /\ e \in CallRecs /\ e.kind = d.kind /\ e.lecture = d.lecture
      /\ e.privacy = d.privacy /\ e.pc = d.pc
  BY <1>1 DEF CallRecs
<1> HIDE DEF e
<1>3. Carried(e, shown, sess)
  BY <1>1, <1>2 DEF Carried
<1> QED
  BY <1>3 DEF e

LEMMA AfterCarried ==
  ASSUME NEW shown, NEW sess, \A c \in calls : Carried(c, shown, sess),
         NEW c, NEW d, Carried(d, shown, sess)
  PROVE  \A e \in After(c, d) : Carried(e, shown, sess)
<1>1. \A e \in Left({d}) : Carried(e, shown, sess)
  BY LeftCarried
<1> QED
  BY <1>1 DEF After

LEMMA PlainPages ==
  /\ \A at \in {"list", "new", "detail", "recorder"} :
       Plain(at) \in Pages /\ Plain(at).status = "idle"
  /\ \A l \in Lecture :
       LET p == [Plain("detail") EXCEPT !.lecture = l, !.status = "loading"]
       IN  p \in Pages /\ p.status = "loading"
  /\ \A l \in Lecture \cup {0}, b \in BOOLEAN :
       LET p == [Plain("recorder") EXCEPT !.lecture = l, !.consent = b]
       IN  p \in Pages /\ p.status = "idle"
BY DEF Plain, Pages

LEMMA PageStatus ==
  ASSUME NEW p \in Pages, NEW q,
         NEW s \in {"idle", "busy", "shown", "requesting"},
         q = [p EXCEPT !.status = s]
  PROVE  q \in Pages /\ q.status = s
BY DEF Pages

LEMMA PageBoxes ==
  ASSUME NEW p \in Pages, NEW q, NEW b \in BOOLEAN, NEW v \in BOOLEAN,
         \/ q = [p EXCEPT !.consent = b, !.privacy = v]
         \/ q = [p EXCEPT !.consent = b]
         \/ q = [p EXCEPT !.privacy = v]
  PROVE  q \in Pages /\ q.status = p.status /\ q.row = p.row
BY DEF Pages

(* Steps that neither write a session nor press Record.                    *)
LEMMA NoRecording ==
  ASSUME StartInv, UNCHANGED <<session, asked>>, edits' \in Nat,
         selected' \in Lecture \cup {0},
         page' \in Pages, PageRow(page', session),
         \A c \in calls' : Carried(c, asked, session)
  PROVE  StartInv'
BY DEF StartInv, StartsAsShown

LEMMA LeaveStep ==
  ASSUME StartInv,
         \/ \E at \in {"list", "new"} : Open(at)
         \/ OpenRecorder
         \/ \E l \in Lecture : OpenDetail(l) \/ RecordLecture(l)
  PROVE  StartInv'
<1>1. \A c \in Orphans : Carried(c, asked, session)
  BY LeftCarried DEF StartInv, Orphans
<1>2. selected \in Lecture \cup {0} /\ edits \in Nat
  BY DEF StartInv
<1>3. ASSUME NEW at \in {"list", "new"}, Open(at) PROVE StartInv'
  <2>1. /\ page' = Plain(at) /\ calls' = Orphans
        /\ UNCHANGED <<session, asked, selected, edits>>
    BY <1>3 DEF Open, dataVars, boundVars
  <2> QED
    BY <1>1, <1>2, <2>1, PlainPages, NoRecording DEF PageRow
<1>4. ASSUME NEW nav \in Lecture \cup {0}, NEW sel \in Lecture \cup {0},
             Mounted(nav, sel, FALSE), UNCHANGED <<session, asked, edits>>
      PROVE  StartInv'
  <2>1. \A c \in calls' : Carried(c, asked, session)
    BY <1>1, <1>4, NoStart DEF Mounted
  <2>2. page' \in Pages /\ page'.status = "idle" /\ selected' = sel
    BY <1>4, PlainPages DEF Mounted
  <2> QED
    BY <1>2, <1>4, <2>1, <2>2, NoRecording DEF PageRow
<1>5. CASE OpenRecorder
  BY <1>2, <1>4, <1>5 DEF OpenRecorder, dataVars, boundVars
<1>6. ASSUME NEW l \in Lecture, RecordLecture(l) PROVE StartInv'
  BY <1>4, <1>6 DEF RecordLecture, dataVars, boundVars
<1>7. ASSUME NEW l \in Lecture, OpenDetail(l) PROVE StartInv'
  <2> DEFINE e == [Call("load", "lecture") EXCEPT !.lecture = l]
  <2>3. Carried(e, asked, session)
    BY NoStart
  <2>4. calls' = Orphans \cup {e}
    BY <1>7 DEF OpenDetail
  <2> HIDE DEF e
  <2>1. \A c \in calls' : Carried(c, asked, session)
    BY <1>1, <2>3, <2>4
  <2>2. page' \in Pages /\ page'.status = "loading" /\ selected' = l
        /\ UNCHANGED <<session, asked, edits>>
    BY <1>7, PlainPages DEF OpenDetail, dataVars, boundVars
  <2> QED
    BY <1>2, <2>1, <2>2, NoRecording DEF PageRow
<1> QED
  BY <1>3, <1>5, <1>6, <1>7

LEMMA PageStep ==
  ASSUME StartInv, Submit \/ Tick \/ (\E k \in Index : SaveEdit(k))
  PROVE  StartInv'
<1>1. /\ selected \in Lecture \cup {0} /\ edits \in Nat /\ page \in Pages
      /\ PageRow(page, session)
      /\ \A c \in calls : Carried(c, asked, session)
  BY DEF StartInv
<1>2. CASE Submit
  <2>1. \A c \in calls' : Carried(c, asked, session)
    BY <1>1, <1>2, NoStart DEF Submit, Sends
  <2>2. page' \in Pages /\ page'.status = "busy"
        /\ UNCHANGED <<session, asked, edits, selected>>
    BY <1>1, <1>2, PageStatus DEF Submit, dataVars, boundVars
  <2> QED
    BY <1>1, <2>1, <2>2, NoRecording DEF PageRow
<1>3. CASE Tick
  <2>1. page.consent \in BOOLEAN /\ page.privacy \in BOOLEAN
    BY <1>1 DEF Pages
  <2>4. \E b \in BOOLEAN : \/ page' = [page EXCEPT !.consent = b]
                           \/ page' = [page EXCEPT !.privacy = b]
    <3>1. (~page.consent) \in BOOLEAN /\ (~page.privacy) \in BOOLEAN
      BY <2>1
    <3>2. \/ page' = [page EXCEPT !.consent = ~page.consent]
          \/ page' = [page EXCEPT !.privacy = ~page.privacy]
      BY <1>3 DEF Tick
    <3> QED
      BY <3>1, <3>2
  <2>2. page' \in Pages /\ page'.status = page.status /\ page'.row = page.row
    <3>1. PICK b \in BOOLEAN : \/ page' = [page EXCEPT !.consent = b]
                               \/ page' = [page EXCEPT !.privacy = b]
      BY <2>4
    <3>2. CASE page' = [page EXCEPT !.consent = b]
      BY <1>1, <3>2, PageBoxes
    <3>3. CASE page' = [page EXCEPT !.privacy = b]
      BY <1>1, <3>3, PageBoxes
    <3> QED
      BY <3>1, <3>2, <3>3
  <2>3. UNCHANGED <<session, asked, edits, selected, calls>>
    BY <1>3 DEF Tick, dataVars, boundVars
  <2> QED
    BY <1>1, <2>2, <2>3, NoRecording DEF PageRow
<1>4. ASSUME NEW k \in Index, SaveEdit(k) PROVE StartInv'
  <2>1. page.lecture \in Lecture \cup {0}
    BY <1>1 DEF Pages
  <2>2. PICK v \in {0, edits + 1} :
          calls' = calls \cup {[Call("edit", "sent") EXCEPT
                     !.lecture = page.lecture, !.seg = k, !.val = v]}
    BY <1>4 DEF SaveEdit, Sends
  <2> DEFINE e == [Call("edit", "sent") EXCEPT
                     !.lecture = page.lecture, !.seg = k, !.val = v]
  <2>3. v \in Nat
    BY <1>1
  <2>6. Carried(e, asked, session)
    BY <2>1, <2>3, NoStart
  <2>7. calls' = calls \cup {e}
    BY <2>2
  <2> HIDE DEF e
  <2>4. \A c \in calls' : Carried(c, asked, session)
    BY <1>1, <2>6, <2>7
  <2>8. edits' = edits + 1
    BY <1>4 DEF SaveEdit
  <2>9. UNCHANGED <<session, asked, selected, page>>
    BY <1>4 DEF SaveEdit, dataVars
  <2>5. edits' \in Nat /\ UNCHANGED <<session, asked, selected, page>>
    BY <1>1, <2>8, <2>9
  <2> QED
    BY <1>1, <2>4, <2>5, NoRecording
<1> QED
  BY <1>2, <1>3, <1>4

(* The steps of a call that start no recording.                            *)
LEMMA OtherCallStep ==
  ASSUME StartInv, NEW c \in calls,
         \/ CreateLecture(c) \/ CreateFails(c)
         \/ SelectCreated(c) \/ NavigateCreated(c)
         \/ LectureLoaded(c) \/ TranscriptLoaded(c)
         \/ EditSegment(c) \/ SettingsShown(c)
  PROVE  StartInv'
<1>1. /\ selected \in Lecture \cup {0} /\ edits \in Nat /\ page \in Pages
      /\ PageRow(page, session)
      /\ \A e \in calls : Carried(e, asked, session)
      /\ c \in CallRecs /\ c.lecture \in Lecture \cup {0}
  BY DEF StartInv, Carried, CallRecs
<1>2. /\ UNCHANGED <<session, asked, edits>>
  BY DEF CreateLecture, CreateFails, SelectCreated, NavigateCreated,
     LectureLoaded, TranscriptLoaded, EditSegment, SettingsShown, dataVars,
     boundVars
<1>3. ASSUME calls' \subseteq calls, UNCHANGED selected,
             page' \in Pages, PageRow(page', session)
      PROVE  StartInv'
  BY <1>1, <1>2, <1>3, NoRecording
<1>4. CASE CreateFails(c)
  <2>1. page' = page \/ page' = [page EXCEPT !.status = "idle"]
    BY <1>4 DEF CreateFails
  <2>2. page' \in Pages /\ PageRow(page', session)
    <3>1. CASE page' = page
      BY <1>1, <3>1
    <3>2. CASE page' = [page EXCEPT !.status = "idle"]
      BY <1>1, <3>2, PageStatus DEF PageRow
    <3> QED
      BY <2>1, <3>1, <3>2
  <2> QED
    BY <1>3, <1>4, <2>2 DEF CreateFails, Over
<1>5. CASE TranscriptLoaded(c)
  <2>1. page' \in Pages /\ PageRow(page', session)
    BY <1>1, <1>5, PageStatus DEF TranscriptLoaded, PageRow
  <2> QED
    BY <1>3, <1>5, <2>1 DEF TranscriptLoaded, Over
<1>6. CASE EditSegment(c)
  BY <1>1, <1>3, <1>6 DEF EditSegment, Over
<1>7. CASE SettingsShown(c)
  <2>1. page' \in Pages /\ PageRow(page', session)
    BY <1>1, <1>7, PageBoxes DEF SettingsShown, PageRow
  <2> QED
    BY <1>3, <1>7, <2>1 DEF SettingsShown, Over
<1>8. ASSUME NEW d, Carried(d, asked, session),
             \/ calls' = After(c, d)
             \/ calls' = After(c, d) \cup {Call("settings", "sent")},
             UNCHANGED page, selected' \in Lecture \cup {0}
      PROVE  StartInv'
  <2>1. \A e \in After(c, d) : Carried(e, asked, session)
    BY <1>1, <1>8, AfterCarried
  <2>2. \A e \in calls' : Carried(e, asked, session)
    BY <1>8, <2>1, NoStart
  <2> QED
    BY <1>1, <1>2, <1>8, <2>2, NoRecording
<1>9. ASSUME NEW pc \in {"created", "navigate", "transcript"},
             c.kind \in {"create", "load"}
      PROVE  Carried([c EXCEPT !.pc = pc], asked, session)
  <2> DEFINE d == [c EXCEPT !.pc = pc]
  <2>1. d \in CallRecs /\ d.kind = c.kind
    BY <1>1, GoesOn
  <2> HIDE DEF d
  <2>2. Carried(d, asked, session)
    BY <1>9, <2>1 DEF Carried
  <2> QED
    BY <2>2 DEF d
<1>10. CASE CreateLecture(c)
  <2>1. PICK l \in Lecture :
          calls' = After(c, [c EXCEPT !.pc = "created", !.lecture = l])
    BY <1>10 DEF CreateLecture, Becomes
  <2> DEFINE d == [c EXCEPT !.pc = "created", !.lecture = l]
  <2>2. d \in CallRecs /\ d.kind = "create"
    BY <1>1, <1>10 DEF CallRecs, CreateLecture
  <2>3. Carried(d, asked, session)
    BY <2>2 DEF Carried
  <2>4. UNCHANGED <<page, selected>>
    BY <1>10 DEF CreateLecture
  <2> HIDE DEF d
  <2>5. calls' = After(c, d)
    BY <2>1 DEF d
  <2> QED
    BY <1>1, <1>8, <2>3, <2>4, <2>5
<1>11. CASE SelectCreated(c)
  BY <1>1, <1>8, <1>9, <1>11 DEF SelectCreated, Selects
<1>12. CASE LectureLoaded(c)
  BY <1>1, <1>8, <1>9, <1>12 DEF LectureLoaded, Selects
<1>13. CASE NavigateCreated(c)
  <2>1. \A e \in Left(calls \ {c}) : Carried(e, asked, session)
    BY <1>1, LeftCarried
  <2>2. \A e \in calls' : Carried(e, asked, session)
    BY <1>13, <2>1, NoStart DEF NavigateCreated
  <2>3. page' \in Pages /\ page'.status = "idle"
    BY <1>1, <1>13, PlainPages DEF NavigateCreated
  <2> QED
    BY <1>1, <1>2, <1>13, <2>2, <2>3, NoRecording
       DEF NavigateCreated, PageRow
<1> QED
  BY <1>4, <1>5, <1>6, <1>7, <1>10, <1>11, <1>12, <1>13

(* What was shown and what was started is not taken back.                  *)
LEMMA StillCarried ==
  ASSUME StartInv, NEW shown, NEW sess,
         \A l \in Lecture : asked[l] \subseteq shown[l],
         \A l \in Lecture : session[l].row # "none" => sess[l].row # "none"
  PROVE  /\ \A c \in calls : Carried(c, shown, sess)
         /\ PageRow(page, sess)
BY DEF StartInv, Carried, PageRow

LEMMA RecordStep == ASSUME StartInv, RecordPressed PROVE StartInv'
<1>1. /\ page \in Pages /\ page.privacy \in BOOLEAN
      /\ session \in [Lecture -> Sessions]
      /\ asked \in [Lecture -> SUBSET BOOLEAN]
      /\ selected \in Lecture \cup {0} /\ edits \in Nat /\ StartsAsShown
  BY DEF StartInv, Pages
<1>2. Recorded \in Lecture
  BY <1>1 DEF RecordPressed, Recorded, Pages
<1>3. /\ page' = [page EXCEPT !.status = "requesting"]
      /\ asked' = [asked EXCEPT ![Recorded] = @ \cup {page.privacy}]
      /\ UNCHANGED <<session, selected, edits>>
  BY DEF RecordPressed, dataVars
<1> DEFINE d == [Call("start", "mic") EXCEPT !.lecture = Recorded,
                                             !.privacy = page.privacy]
           l == Recorded
           b == page.privacy
<1>4. calls' = calls \cup {d}
  BY DEF RecordPressed, Sends
<1>5. d \in CallRecs /\ d.lecture = l /\ d.privacy = b /\ d.pc = "mic"
  BY <1>1, <1>2, NewCalls DEF Call
<1>6. asked' = [asked EXCEPT ![l] = @ \cup {b}] /\ l \in Lecture
      /\ b \in BOOLEAN
  BY <1>1, <1>2, <1>3
<1>7. page' \in Pages /\ PageRow(page', session')
  BY <1>1, <1>3, PageStatus DEF PageRow
<1> HIDE DEF d, l, b
<1>8. /\ asked' \in [Lecture -> SUBSET BOOLEAN] /\ b \in asked'[l]
      /\ \A k \in Lecture : asked[k] \subseteq asked'[k]
  BY <1>1, <1>6
<1>9. Carried(d, asked', session')
  BY <1>5, <1>6, <1>8 DEF Carried
<1>10. \A c \in calls : Carried(c, asked', session')
  BY <1>3, <1>8, StillCarried
<1>11. StartsAsShown'
  BY <1>1, <1>3, <1>8 DEF StartsAsShown
<1> QED
  BY <1>1, <1>3, <1>4, <1>7, <1>8, <1>9, <1>10, <1>11 DEF StartInv

LEMMA StartCallStep ==
  ASSUME StartInv, NEW c \in calls,
         \/ StartFails(c) \/ MicGranted(c) \/ StartSession(c)
         \/ MarkRecording(c) \/ SessionStarted(c)
  PROVE  StartInv'
<1>1. /\ selected \in Lecture \cup {0} /\ edits \in Nat /\ page \in Pages
      /\ PageRow(page, session) /\ StartsAsShown
      /\ session \in [Lecture -> Sessions]
      /\ asked \in [Lecture -> SUBSET BOOLEAN]
      /\ \A e \in calls : Carried(e, asked, session)
      /\ c \in CallRecs
  BY DEF StartInv, Carried
<1>2. /\ UNCHANGED <<asked, edits, selected>> /\ c.kind = "start"
      /\ c.lecture \in Lecture /\ c.privacy \in asked[c.lecture]
      /\ c.pc \in {"lecture", "started"} => session[c.lecture].row # "none"
  BY <1>1 DEF StartFails, MicGranted, StartSession, MarkRecording,
     SessionStarted, boundVars, Carried
<1>3. CASE StartFails(c)
  <2>1. page' = page \/ page' = [page EXCEPT !.status = "idle"]
    BY <1>3 DEF StartFails
  <2>2. page' \in Pages /\ PageRow(page', session)
    <3>1. CASE page' = page
      BY <1>1, <3>1
    <3>2. CASE page' = [page EXCEPT !.status = "idle"]
      BY <1>1, <3>2, PageStatus DEF PageRow
    <3> QED
      BY <2>1, <3>1, <3>2
  <2>3. calls' \subseteq calls /\ UNCHANGED session
    BY <1>3 DEF StartFails, Over, dataVars
  <2> QED
    BY <1>1, <1>2, <2>2, <2>3, NoRecording
<1>4. ASSUME NEW d, NEW pc \in {"row", "started"},
             d = [c EXCEPT !.pc = pc], calls' = After(c, d),
             pc = "started" => session[c.lecture].row # "none",
             UNCHANGED <<session, page>>
      PROVE  StartInv'
  <2>1. Carried(d, asked, session)
    BY <1>1, <1>2, <1>4, GoesOn DEF Carried
  <2>2. \A e \in calls' : Carried(e, asked, session)
    BY <1>1, <1>4, <2>1, AfterCarried
  <2> QED
    BY <1>1, <1>2, <1>4, <2>2, NoRecording
<1>5. CASE MicGranted(c)
  BY <1>4, <1>5 DEF MicGranted, Becomes, dataVars
<1>6. CASE MarkRecording(c)
  BY <1>2, <1>4, <1>6 DEF MarkRecording, Becomes
<1>7. CASE SessionStarted(c)
  <2>1. page' = [page EXCEPT !.status = "recording", !.row = c.lecture]
    BY <1>7 DEF SessionStarted
  <2>2. page' \in Pages /\ page'.row = c.lecture
    BY <1>1, <1>2, <2>1 DEF Pages
  <2>3. calls' \subseteq calls /\ UNCHANGED session
    BY <1>7 DEF SessionStarted, Over, dataVars
  <2>4. session[c.lecture].row # "none"
    BY <1>2, <1>7 DEF SessionStarted
  <2> QED
    BY <1>1, <1>2, <2>2, <2>3, <2>4, NoRecording DEF PageRow
<1>8. CASE StartSession(c)
  <2> DEFINE l == c.lecture
             s == IF session[l].row = "none"
                  THEN [row |-> "ACTIVE", privacy |-> c.privacy]
                  ELSE [session[l] EXCEPT !.row = "ACTIVE"]
             pc == IF session[l].row = "ACTIVE" THEN "started" ELSE "lecture"
             d == [c EXCEPT !.pc = pc]
  <2>1. session' = [session EXCEPT ![l] = s] /\ calls' = After(c, d)
        /\ page' = page
    BY <1>1, <1>2, <1>8 DEF StartSession, Becomes
  <2>2. session[l] \in Sessions /\ c.privacy \in BOOLEAN
    BY <1>1, <1>2 DEF CallRecs
  <2>3. s \in Sessions /\ s.row = "ACTIVE"
        /\ s.privacy = (IF session[l].row = "none" THEN c.privacy
                        ELSE session[l].privacy)
    BY <2>2 DEF Sessions
  <2>4. s.privacy \in asked[l]
    BY <1>1, <1>2, <2>3 DEF StartsAsShown
  <2>5. /\ d \in CallRecs /\ d.kind = "start" /\ d.lecture = l
        /\ d.privacy = c.privacy
    BY <1>1, <1>2, GoesOn
  <2>6. l \in Lecture /\ l = c.lecture
    BY <1>2
  <2> HIDE DEF s, d, l
  <2>7. /\ session' \in [Lecture -> Sessions] /\ session'[l] = s
        /\ \A k \in Lecture : k # l => session'[k] = session[k]
    BY <1>1, <2>1, <2>3, <2>6
  <2>8. \A k \in Lecture : session[k].row # "none" => session'[k].row # "none"
    BY <2>3, <2>7
  <2>9. Carried(d, asked', session')
    BY <1>2, <2>3, <2>5, <2>6, <2>7 DEF Carried
  <2>10. /\ \A e \in calls : Carried(e, asked', session')
         /\ PageRow(page, session')
    BY <1>2, <2>8, StillCarried
  <2>11. \A e \in calls' : Carried(e, asked', session')
    BY <2>1, <2>9, <2>10, AfterCarried
  <2>12. StartsAsShown'
    BY <1>1, <1>2, <2>4, <2>7 DEF StartsAsShown
  <2> QED
    BY <1>1, <1>2, <2>1, <2>7, <2>10, <2>11, <2>12 DEF StartInv
<1> QED
  BY <1>3, <1>5, <1>6, <1>7, <1>8

LEMMA StopStep == ASSUME StartInv, StopPressed PROVE StartInv'
<1> DEFINE l == page.row
           s == [session[l] EXCEPT !.row = "STOPPED"]
<1>1. /\ selected \in Lecture \cup {0} /\ edits \in Nat /\ page \in Pages
      /\ session \in [Lecture -> Sessions] /\ StartsAsShown
      /\ asked \in [Lecture -> SUBSET BOOLEAN]
      /\ l \in Lecture /\ session[l].row # "none"
  BY DEF StartInv, PageRow, StopPressed
<1>2. /\ page' = [page EXCEPT !.status = "idle", !.row = 0]
      /\ session' = [session EXCEPT ![l] = s]
      /\ UNCHANGED <<selected, calls, asked, edits>>
  BY <1>1 DEF StopPressed, boundVars
<1>3. s \in Sessions /\ s.row = "STOPPED" /\ s.privacy = session[l].privacy
  BY <1>1 DEF Sessions
<1>4. page' \in Pages /\ page'.status = "idle"
  BY <1>1, <1>2 DEF Pages
<1> HIDE DEF l, s
<1>5. /\ session' \in [Lecture -> Sessions] /\ session'[l] = s
      /\ \A k \in Lecture : k # l => session'[k] = session[k]
  BY <1>1, <1>2, <1>3
<1>6. \A e \in calls : Carried(e, asked', session')
  BY <1>2, <1>3, <1>5, StillCarried
<1>7. StartsAsShown'
  BY <1>1, <1>2, <1>3, <1>5 DEF StartsAsShown
<1> QED
  BY <1>1, <1>2, <1>4, <1>5, <1>6, <1>7 DEF StartInv, PageRow

LEMMA StartStep == ASSUME StartInv, [Next]_vars PROVE StartInv'
<1>1. ASSUME NEW c \in calls, Goes(c) PROVE StartInv'
  BY <1>1, OtherCallStep, StartCallStep DEF Goes
<1>2. CASE Work \/ UNCHANGED vars
  <2>1. UNCHANGED <<session, selected, page, calls, asked, edits>>
    BY <1>2 DEF Work, vars, dataVars, boundVars
  <2> QED
    BY <2>1 DEF StartInv, StartsAsShown
<1> QED
  BY <1>1, <1>2, LeaveStep, PageStep, RecordStep, StopStep DEF Next

LEMMA StartInit == ASSUME Init PROVE StartInv
<1> DEFINE s(l) == [row |-> IF l \in Old THEN "STOPPED" ELSE "none",
                    privacy |-> FALSE]
<1>1. /\ selected = 0 /\ page = Plain("list") /\ calls = {} /\ edits = 0
      /\ session = [l \in Lecture |-> s(l)]
      /\ asked = [l \in Lecture |-> IF l \in Old THEN {FALSE} ELSE {}]
  BY DEF Init
<1>2. \A l : /\ s(l) \in Sessions /\ s(l).privacy = FALSE
             /\ s(l).row # "none" => l \in Old
  BY DEF Sessions
<1> HIDE DEF s
<1>3. /\ session \in [Lecture -> Sessions]
      /\ asked \in [Lecture -> SUBSET BOOLEAN] /\ StartsAsShown
  BY <1>1, <1>2 DEF StartsAsShown
<1> QED
  BY <1>1, <1>3, PlainPages DEF StartInv, PageRow

(* Every start, page and session keeps to what the recorder showed, for    *)
(* any number of calls on their way and of presses.                        *)
THEOREM StartInvariance == Spec => []StartInv
BY StartInit, StartStep, PTL DEF Spec

(* A session has a privacy mode that was shown with its lecture when       *)
(* Record was pressed (RecorderPage, startRecording; startSession).        *)
THEOREM StartsShown == Spec => []StartsAsShown
<1>1. StartInv => StartsAsShown
  BY DEF StartInv
<1> QED
  BY <1>1, StartInvariance, PTL
=============================================================================
