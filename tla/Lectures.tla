------------------------------ MODULE Lectures -------------------------------
(***************************************************************************)
(* Lectures as the user meets them: the list, the form that creates one,   *)
(* the page of one with its transcript to edit, and the recorder up to its *)
(* session (apps/web/src/pages, store/lecture.ts), over LectureService,    *)
(* TranscriptService and RecordingService.startSession, while Whisper      *)
(* transcribes.                                                            *)
(*                                                                         *)
(* One page is mounted at a time; what a page has asked the main process   *)
(* for goes on when it is left.  A call takes effect and is answered in    *)
(* any order with the others.                                              *)
(***************************************************************************)
EXTENDS Whisper, Contracts, Workers, Api

CONSTANTS
  MaxCalls,  \* bound: calls on their way together
  MaxEdits,  \* bound: edits that are saved, each with a text of its own
  MaxTakes   \* bound: how often Record is pressed

ASSUME LecturesAssumption ==
  /\ Lecture = 1 .. Cardinality(Lecture)
  /\ MaxCalls \in Nat \ {0} /\ MaxEdits \in Nat /\ MaxTakes \in Nat

VARIABLES
  selected, \* useLectureStore: the lecture selected last, 0: none
  page,     \* the mounted page and its state
  calls,    \* what pages wait for; mine: the page that asked is mounted
  session,  \* RecordingSession by lecture: its row and privacyMode
  asked,    \* history: the privacy modes shown when Record was pressed,
            \* by the lecture shown with them
  wanted,   \* history: the last edit of a segment that was saved
  edits, takes

dataVars == <<whisperVars, session, wanted>>
boundVars == <<edits, takes>>
vars == <<dataVars, selected, page, calls, asked, boundVars>>

Exists == {l \in Lecture : state[l] # "NONE"}

(* The pages. *)
Plain(at) == [at |-> at, lecture |-> 0, status |-> "idle",
              row |-> 0, consent |-> FALSE, privacy |-> FALSE]
(* A call: its step, lecture, segment and text, and what it captured.      *)
Call(kind, pc) == [kind |-> kind, pc |-> pc, lecture |-> 0, seg |-> 0,
                   val |-> 0, privacy |-> FALSE, mine |-> TRUE]

Init ==
  /\ WhisperInit
  /\ selected = 0
  /\ page = Plain("list") /\ calls = {}
  /\ session = [l \in Lecture |-> [row |-> IF l \in Old THEN "STOPPED"
                                          ELSE "none", privacy |-> FALSE]]
  /\ asked = [l \in Lecture |-> IF l \in Old THEN {FALSE} ELSE {}]
  /\ wanted = [l \in Lecture |-> [k \in Index |-> 0]]
  /\ edits = 0 /\ takes = 0

(* What was asked for by a page that is left stays on its way, unless only *)
(* the page would have used the answer.                                    *)
ForThePage == {<<"settings", "sent">>, <<"load", "transcript">>,
               <<"start", "started">>}
Left(cs) == {[c EXCEPT !.mine = FALSE] :
               c \in {d \in cs : <<d.kind, d.pc>> \notin ForThePage}}
Orphans == Left(calls)
Sends(c) == Cardinality(calls) < MaxCalls /\ calls' = calls \cup {c}
After(c, d) == (calls \ {c}) \cup (IF d.mine THEN {d} ELSE Left({d}))
Becomes(c, d) == calls' = After(c, d)
Over(c) == calls' = calls \ {c}

-----------------------------------------------------------------------------
(* Going from page to page.                                                *)

(* To the list, whose queries only read, or to the form.                   *)
Open(at) ==
  /\ page' = Plain(at) /\ calls' = Orphans
  /\ UNCHANGED <<dataVars, selected, asked, boundVars>>

(* The list shows the lectures there are.  One is opened and selected; its *)
(* page loads.                                                             *)
OpenDetail(l) ==
  /\ page.at = "list" /\ l \in Exists
  /\ Cardinality(calls) < MaxCalls
  /\ selected' = l
  /\ page' = [Plain("detail") EXCEPT !.lecture = l, !.status = "loading"]
  /\ calls' = Orphans \cup {[Call("load", "lecture") EXCEPT !.lecture = l]}
  /\ UNCHANGED <<dataVars, asked, boundVars>>

(* The recorder, with a lecture to record (nav) or with the selected one.  *)
(* Mounted, it asks for the settings.                                      *)
Mounted(nav, sel, consent) ==
  /\ Cardinality(calls) < MaxCalls
  /\ selected' = sel
  /\ page' = [Plain("recorder") EXCEPT !.lecture = nav, !.consent = consent]
  /\ calls' = Orphans \cup {Call("settings", "sent")}

OpenRecorder ==
  /\ Mounted(0, selected, FALSE)
  /\ UNCHANGED <<dataVars, asked, boundVars>>

(* Record, in the list or on the page of a lecture.                        *)
RecordLecture(l) ==
  /\ \/ page.at = "list" /\ l \in Exists
     \/ page.at = "detail" /\ page.status = "shown" /\ l = page.lecture
  /\ Mounted(l, l, FALSE)
  /\ UNCHANGED <<dataVars, asked, boundVars>>

-----------------------------------------------------------------------------
(* NewLecturePage                                                          *)

(* onSubmit: the settings are read for the language, then it is created,   *)
(* without a course (Contracts.NoCourseIsChosen).                          *)
Submit ==
  /\ page.at = "new" /\ page.status = "idle"
  /\ page' = [page EXCEPT !.status = "busy"]
  /\ Sends(Call("create", "insert"))
  /\ UNCHANGED <<dataVars, selected, asked, boundVars>>

(* createLecture into the next free id.                                    *)
CreateLecture(c) ==
  /\ c.kind = "create" /\ c.pc = "insert"
  /\ \E l \in Lecture \ Exists :
       /\ \A m \in Lecture \ Exists : l <= m
       /\ state' = [state EXCEPT ![l] = "PENDING"]
       /\ Becomes(c, [c EXCEPT !.pc = "created", !.lecture = l])
  /\ UNCHANGED <<text, edited, passVars, session, wanted, selected,
                 page, asked, boundVars>>

(* The row cannot be created, and the form shows the error.                *)
CreateFails(c) ==
  /\ c.kind = "create" /\ c.pc = "insert"
  /\ Over(c)
  /\ page' = IF c.mine THEN [page EXCEPT !.status = "idle"] ELSE page
  /\ UNCHANGED <<dataVars, selected, asked, boundVars>>

(* A lecture is selected.  A recorder that follows the selection asks for  *)
(* the settings again.                                                     *)
Selects(l, next) ==
  /\ selected' = l
  /\ calls' = IF page.at = "recorder" /\ page.lecture = 0 /\ l # selected
              THEN next \cup {Call("settings", "sent")} ELSE next

(* The answer: the lecture is selected, the list invalidated.              *)
SelectCreated(c) ==
  /\ c.kind = "create" /\ c.pc = "created"
  /\ Selects(c.lecture, After(c, [c EXCEPT !.pc = "navigate"]))
  /\ UNCHANGED <<dataVars, page, asked, boundVars>>

(* Then the recorder is opened, from whatever page is mounted by now.      *)
NavigateCreated(c) ==
  /\ c.kind = "create" /\ c.pc = "navigate"
  /\ page' = [Plain("recorder") EXCEPT !.lecture = c.lecture,
                                       !.consent = TRUE]
  /\ calls' = Left(calls \ {c}) \cup {Call("settings", "sent")}
  /\ UNCHANGED <<dataVars, selected, asked, boundVars>>

-----------------------------------------------------------------------------
(* LectureDetailPage                                                       *)

(* getLecture: its answer selects the lecture, mounted or not.             *)
LectureLoaded(c) ==
  /\ c.kind = "load" /\ c.pc = "lecture"
  /\ Selects(c.lecture, After(c, [c EXCEPT !.pc = "transcript"]))
  /\ UNCHANGED <<dataVars, page, asked, boundVars>>

(* listForLecture: the rows are shown, each as its edit or else its text.  *)
TranscriptLoaded(c) ==
  /\ c.kind = "load" /\ c.pc = "transcript"
  /\ page' = [page EXCEPT !.status = "shown"]
  /\ Over(c)
  /\ UNCHANGED <<dataVars, selected, asked, boundVars>>

(* The check mark of a row that is being edited.  The cross beside it      *)
(* stays enabled, so a row may be saved again before the first answer.     *)
SaveEdit(k) ==
  /\ page.at = "detail" /\ page.status = "shown"
  /\ text[page.lecture][k] # 0 /\ edits < MaxEdits
  /\ edits' = edits + 1
  /\ \E v \in {0, edits + 1} :
       Sends([Call("edit", "sent") EXCEPT !.lecture = page.lecture,
                                          !.seg = k, !.val = v])
  /\ UNCHANGED <<dataVars, selected, page, asked, takes>>

(* editSegment: a blank text is no edit.  Its answer is shown in the row.  *)
EditSegment(c) ==
  /\ c.kind = "edit"
  /\ edited' = [edited EXCEPT ![c.lecture][c.seg] = c.val]
  /\ wanted' = [wanted EXCEPT ![c.lecture][c.seg] = c.val]
  /\ Over(c)
  /\ UNCHANGED <<state, text, passVars, session, selected, page, asked,
                 boundVars>>

-----------------------------------------------------------------------------
(* RecorderPage                                                            *)

(* navState.lectureId ?? selectedLecture?.id                               *)
Recorded == IF page.lecture # 0 THEN page.lecture ELSE selected

(* The settings' answer replaces consent and privacy, ticked or not, and   *)
(* recording or not.                                                       *)
SettingsShown(c) ==
  /\ c.kind = "settings"
  /\ \E consent, privacy \in BOOLEAN :
       page' = [page EXCEPT !.consent = consent, !.privacy = privacy]
  /\ Over(c)
  /\ UNCHANGED <<dataVars, selected, asked, boundVars>>

(* The check boxes of an idle recorder.                                    *)
Tick ==
  /\ page.at = "recorder" /\ page.status = "idle"
  /\ \/ page' = [page EXCEPT !.consent = ~@]
     \/ page' = [page EXCEPT !.privacy = ~@]
  /\ UNCHANGED <<dataVars, selected, calls, asked, boundVars>>

(* startRecording, with the lecture and the privacy of this render.        *)
RecordPressed ==
  /\ page.at = "recorder" /\ page.status = "idle" /\ page.consent
  /\ Recorded # 0 /\ takes < MaxTakes
  /\ takes' = takes + 1
  /\ page' = [page EXCEPT !.status = "requesting"]
  /\ Sends([Call("start", "mic") EXCEPT !.lecture = Recorded,
                                        !.privacy = page.privacy])
  /\ asked' = [asked EXCEPT ![Recorded] = @ \cup {page.privacy}]
  /\ UNCHANGED <<dataVars, selected, edits>>

(* No microphone, or a refused or failed recording:start.                  *)
StartFails(c) ==
  /\ c.kind = "start" /\ c.pc \in {"mic", "row"}
  /\ Over(c)
  /\ page' = IF c.mine THEN [page EXCEPT !.status = "idle"] ELSE page
  /\ UNCHANGED <<dataVars, selected, asked, boundVars>>

(* Variant: what the page shows by now is sent.                            *)
MicGrantedLate(c) ==
  /\ c.kind = "start" /\ c.pc = "mic"
  /\ Becomes(c, IF c.mine THEN [c EXCEPT !.pc = "row", !.lecture = Recorded,
                                         !.privacy = page.privacy]
                ELSE [c EXCEPT !.pc = "row"])
  /\ UNCHANGED <<dataVars, selected, page, asked, boundVars>>

(* The microphone is granted, whatever the page shows by now.              *)
MicGranted(c) ==
  /\ c.kind = "start" /\ c.pc = "mic"
  /\ Becomes(c, [c EXCEPT !.pc = "row"])
  /\ UNCHANGED <<dataVars, selected, page, asked, boundVars>>

(* startSession: an ACTIVE session is returned, one that ended is ACTIVE   *)
(* again with the privacy mode it has, and else a row is created.          *)
StartSession(c) ==
  /\ c.kind = "start" /\ c.pc = "row"
  /\ session' = [session EXCEPT ![c.lecture] =
       IF @.row = "none" THEN [row |-> "ACTIVE", privacy |-> c.privacy]
       ELSE [@ EXCEPT !.row = "ACTIVE"]]
  /\ Becomes(c, [c EXCEPT !.pc = IF session[c.lecture].row = "ACTIVE"
                                 THEN "started" ELSE "lecture"])
  /\ UNCHANGED <<whisperVars, wanted, selected, page, asked, boundVars>>

MarkRecording(c) ==
  /\ c.kind = "start" /\ c.pc = "lecture"
  /\ state' = [state EXCEPT ![c.lecture] = "RECORDING"]
  /\ Becomes(c, [c EXCEPT !.pc = "started"])
  /\ UNCHANGED <<text, edited, passVars, session, wanted, selected,
                 page, asked, boundVars>>

SessionStarted(c) ==
  /\ c.kind = "start" /\ c.pc = "started"
  /\ Over(c)
  /\ page' = [page EXCEPT !.status = "recording", !.row = c.lecture]
  /\ UNCHANGED <<dataVars, selected, asked, boundVars>>

(* Stop, as far as the rows go, and back to an idle recorder; the steps of *)
(* both sides are the subject of Recorder and Capture.                     *)
StopPressed ==
  /\ page.at = "recorder" /\ page.status = "recording"
  /\ page' = [page EXCEPT !.status = "idle", !.row = 0]
  /\ session' = [session EXCEPT ![page.row].row = "STOPPED"]
  /\ state' = [state EXCEPT ![page.row] = "PROCESSING"]
  /\ UNCHANGED <<text, edited, passVars, wanted, selected, calls,
                 asked, boundVars>>

-----------------------------------------------------------------------------
Goes(c) ==
  \/ CreateLecture(c) \/ CreateFails(c)
  \/ SelectCreated(c) \/ NavigateCreated(c)
  \/ LectureLoaded(c) \/ TranscriptLoaded(c)
  \/ EditSegment(c) \/ SettingsShown(c)
  \/ StartFails(c) \/ MicGranted(c) \/ StartSession(c) \/ MarkRecording(c)
  \/ SessionStarted(c)

Work ==
  /\ Transcribes
  /\ UNCHANGED <<session, wanted, selected, page, calls, asked,
                 boundVars>>

Next ==
  \/ \E at \in {"list", "new"} : Open(at)
  \/ OpenRecorder \/ Submit
  \/ \E l \in Lecture : OpenDetail(l) \/ RecordLecture(l)
  \/ \E k \in Index : SaveEdit(k)
  \/ Tick \/ RecordPressed \/ StopPressed
  \/ \E c \in calls : Goes(c)
  \/ Work

Spec == Init /\ [][Next]_vars

-----------------------------------------------------------------------------
(* What the user saved of a segment is what the table has, whatever passes *)
(* run before, during and after and however many calls are on their way:   *)
(* transcribing again never takes an edit back.                            *)
EditKept == edited = wanted

(* A session is that of a lecture the recorder showed when Record was      *)
(* pressed, in a privacy mode it showed with it: neither a late answer of  *)
(* the settings nor another selection during the awaits gets in between.   *)
StartsAsShown ==
  \A l \in Lecture :
    session[l].row # "none" => session[l].privacy \in asked[l]
=============================================================================
