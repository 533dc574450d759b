-------------------------------- MODULE Chat ---------------------------------
(***************************************************************************)
(* Asking questions about the lectures: the chat page (web/ChatPage.tsx)   *)
(* with the list it shows, the CHAT_SEND and CHAT_HISTORY handlers         *)
(* (ipc/handlers.ts) with the messages they keep, and the grounded answer  *)
(* of learning.ts between them.                                            *)
(*                                                                         *)
(* Every call of the page is in flight until its answer arrives, and the   *)
(* answers of two calls may arrive in any order.                           *)
(***************************************************************************)
EXTENDS Naturals, Sequences, Search, TLC

CONSTANTS
  Course,      \* ids of courses in the database, at some time
  MockCourse,  \* the course the page shows until it has loaded the others
  MaxSends,    \* bound: questions
  MaxLoads,    \* bound: history calls on their way together
  HistoryLimit \* messages that CHAT_HISTORY returns at most

ASSUME ChatAssumption ==
  /\ MockCourse \notin Course
  /\ MaxSends \in Nat /\ MaxLoads \in Nat
  /\ HistoryLimit \in Nat

Shown == Course \cup {MockCourse}
Send == 1 .. MaxSends
Load == 1 .. MaxLoads

VARIABLES
  table,      \* the Course table
  gone,       \* courses that were deleted
  rows,       \* the ChatMessage table, oldest first
  page,       \* open, or not mounted; course and list shown, loading, the
              \* courses that can be selected
  courses,    \* the listCourses call of this visit: none, sent, answer
  load,       \* the getChatHistory calls of this visit
  send,       \* the sendChatMessage calls; mine: by the page that is open
  mixed,      \* history: calls of this visit overlapped with one another
  stale       \* history: the last history asked for could not be read

tables == <<table, gone, rows>>
chatVars == <<tables, page, courses, load, send, mixed, stale>>

(* A message: the call it comes from, who speaks, the course it is kept in *)
Message(s, role) == [send |-> s, role |-> role, course |-> send[s].course]
Said(senders, places) ==
  [send : senders, role : {"user", "assistant"}, course : places]

(* The messages of a list that are in a set, in their order.               *)
Only(list, set) ==
  LET only[n \in 0 .. Len(list)] ==
        IF n = 0 THEN <<>>
        ELSE IF list[n] \in set THEN Append(only[n - 1], list[n])
        ELSE only[n - 1]
  IN  only[Len(list)]

Quiet == [pc |-> "idle", course |-> MockCourse, mine |-> FALSE]
Failed(s) == [Quiet EXCEPT !.pc =
  IF send[s].pc = "refuse" THEN "refused"
  ELSE IF send[s].mine THEN "failed" ELSE "done"]
Done == [Quiet EXCEPT !.pc = "done"]
Unasked == [pc |-> "idle", course |-> MockCourse, rows |-> <<>>]
Closed == [open |-> FALSE, course |-> MockCourse, list |-> <<>>,
           loading |-> FALSE, options |-> {}]
NotAsked == [pc |-> "none", rows |-> {}]

ChatInit ==
  /\ table \in SUBSET Course /\ gone = {}
  /\ rows = <<>>
  /\ page = Closed
  /\ courses = NotAsked
  /\ load = [l \in Load |-> Unasked]
  /\ send = [s \in Send |-> Quiet]
  /\ mixed = FALSE /\ stale = FALSE

Open == page.open
Over == {"idle", "done", "failed", "refused"}
Loading == {l \in Load : load[l].pc \notin Over}
Sending == {s \in Send : send[s].pc \notin Over}

-----------------------------------------------------------------------------
(* The page.                                                               *)

(* The effect on courseId: the history of the course is asked for.         *)
AskHistory(c) ==
  \E l \in Load :
    /\ load[l].pc = "idle" /\ \A k \in 1 .. l - 1 : load[k].pc # "idle"
    /\ load' = [load EXCEPT ![l] = [Unasked EXCEPT !.pc = "read",
                                                  !.course = c]]

(* Mounted: nothing shown, the mock course selected.                       *)
OpenPage ==
  /\ ~Open
  /\ page' = [Closed EXCEPT !.open = TRUE]
  /\ AskHistory(MockCourse)
  /\ courses' = [NotAsked EXCEPT !.pc = "sent"]
  /\ mixed' = (Sending # {}) /\ stale' = FALSE
  /\ UNCHANGED <<tables, send>>

(* Unmounted: the handlers go on, but nobody looks at their answers.       *)
ClosePage ==
  /\ Open
  /\ page' = Closed /\ courses' = NotAsked
  /\ mixed' = FALSE /\ stale' = FALSE
  /\ load' = [l \in Load |-> Unasked]
  /\ send' = [s \in Send |-> IF send[s].pc = "failed" THEN Done
                             ELSE [send[s] EXCEPT !.mine = FALSE]]
  /\ UNCHANGED tables

Select(c, options) ==
  /\ c # page.course
  /\ page' = [page EXCEPT !.course = c, !.options = options]
  /\ AskHistory(c)
  /\ mixed' = (mixed \/ Loading \cup Sending # {})
  /\ UNCHANGED <<tables, send, stale>>

(* The courses arrive: the first of them is selected, whatever the user    *)
(* has chosen or asked since; without courses the mock one stays.          *)
CoursesLoaded ==
  /\ Open /\ courses.pc = "answer"
  /\ courses' = NotAsked
  /\ \/ \E c \in courses.rows : Select(c, courses.rows)
     \/ /\ courses.rows = {}
        /\ UNCHANGED <<tables, page, load, send, mixed, stale>>

(* Until then the user can only choose among the mock courses.             *)
SelectCourse ==
  /\ Open
  /\ \E c \in page.options : Select(c, page.options)
  /\ UNCHANGED courses

(* send: the question is shown at once.  The button is disabled while an   *)
(* answer is awaited, the Enter key and the suggestions are not.           *)
SendPressed ==
  /\ Open
  /\ \E s \in Send :
       /\ send[s].pc = "idle" /\ \A k \in 1 .. s - 1 : send[k].pc # "idle"
       /\ send' = [send EXCEPT ![s] = [pc |-> "user", course |-> page.course,
                                       mine |-> TRUE]]
       /\ page' = [page EXCEPT
            !.list = Append(@, [send |-> s, role |-> "user",
                                course |-> page.course]),
            !.loading = TRUE]
  /\ mixed' = (mixed \/ Loading # {} \/ courses # NotAsked)
  /\ UNCHANGED <<tables, courses, load, stale>>

(* The history replaces the list, whichever course is selected by then;    *)
(* questions that failed are shown again.                                  *)
HistoryShown(l) ==
  /\ load[l].pc = "answer"
  /\ load' = [load EXCEPT ![l] = Unasked]
  /\ page' = [page EXCEPT !.list = load[l].rows]
  /\ send' = [s \in Send |-> IF send[s].pc = "failed" THEN Done ELSE send[s]]
  /\ stale' = FALSE
  /\ UNCHANGED <<tables, courses, mixed>>

(* Variant: the reply replaces what is shown.                              *)
ReplyShownAlone(s) ==
  /\ send[s].pc = "answer"
  /\ send' = [send EXCEPT ![s] = Done]
  /\ page' = IF send[s].mine
             THEN [page EXCEPT !.list = <<Message(s, "assistant")>>,
                               !.loading = FALSE]
             ELSE page
  /\ UNCHANGED <<tables, courses, load, mixed, stale>>

(* The reply is appended to the list, whichever course is selected.        *)
ReplyShown(s) ==
  /\ send[s].pc = "answer"
  /\ send' = [send EXCEPT ![s] = Done]
  /\ page' = IF send[s].mine
             THEN [page EXCEPT !.list = Append(@, Message(s, "assistant")),
                               !.loading = FALSE]
             ELSE page
  /\ UNCHANGED <<tables, courses, load, mixed, stale>>

(* The question that was shown is taken back.                              *)
ErrorShown(s) ==
  /\ send[s].pc \in {"error", "refuse"}
  /\ send' = [send EXCEPT ![s] = Failed(s)]
  /\ page' = IF send[s].mine
             THEN [page EXCEPT !.loading = FALSE,
                     !.list = Only(@, Said(Send \ {s}, Shown))]
             ELSE page
  /\ UNCHANGED <<tables, courses, load, mixed, stale>>

-----------------------------------------------------------------------------
(* The handlers.                                                           *)

Kept(c) == Only(rows, Said(Send, {c}))
Oldest(n, list) == SubSeq(list, 1, IF Len(list) < n THEN Len(list) ELSE n)

(* COURSE_CREATE and COURSE_DELETE, called by other pages.  A message only *)
(* names its course: it stays, and more may come, when the course is gone. *)
CreateCourse(c) ==
  /\ c \notin table \cup gone
  /\ table' = table \cup {c}
  /\ UNCHANGED <<gone, rows, page, courses, load, send, mixed, stale>>

DeleteCourse(c) ==
  /\ c \in table
  /\ table' = table \ {c} /\ gone' = gone \cup {c}
  /\ UNCHANGED <<rows, page, courses, load, send, mixed, stale>>

(* COURSE_LIST, which may fail.                                            *)
ReadCourses ==
  /\ courses.pc = "sent"
  /\ courses' \in {[pc |-> "answer", rows |-> table], NotAsked}
  /\ UNCHANGED <<tables, page, load, send, mixed, stale>>

(* CHAT_HISTORY: the first messages of the course, oldest first.  When it  *)
(* fails, the page goes on to show what it showed.                         *)
ReadHistory(l) ==
  /\ load[l].pc = "read"
  /\ \/ /\ load' = [load EXCEPT ![l].pc = "answer",
                   ![l].rows = Oldest(HistoryLimit, Kept(load[l].course))]
        /\ UNCHANGED stale
     \/ load' = [load EXCEPT ![l] = Unasked] /\ stale' = TRUE
  /\ UNCHANGED <<tables, page, courses, send, mixed>>

Goes(s, pc) == send' = [send EXCEPT ![s].pc = pc]

(* Variant: whether a provider is configured is asked before anything.     *)
GuardFirst(s) ==
  /\ send[s].pc = "user" /\ send[s].course \in Course
  /\ \/ rows' = Append(rows, Message(s, "user")) /\ Goes(s, "ground")
     \/ rows' = rows /\ Goes(s, "error")
  /\ UNCHANGED <<table, gone, page, courses, load, mixed, stale>>

(* CHAT_SEND refuses a course whose id is not one of the database's kind,  *)
(* as the mock course's, and a question that is too long; or the question  *)
(* cannot be kept.                                                         *)
RefuseQuestion(s) ==
  /\ send[s].pc = "user"
  /\ Goes(s, "refuse")
  /\ UNCHANGED <<tables, page, courses, load, mixed, stale>>

(* CHAT_SEND: the question is kept first.                                  *)
KeepQuestion(s) ==
  /\ send[s].pc = "user" /\ send[s].course \in Course
  /\ rows' = Append(rows, Message(s, "user"))
  /\ Goes(s, "ground")
  /\ UNCHANGED <<table, gone, page, courses, load, mixed, stale>>

(* isAiConfigured may refuse the call.  groundedChat: nothing found, an    *)
(* answer of the provider or, when it is gone or fails, the excerpts       *)
(* themselves.  A failing search ends the call, and so does a reply that   *)
(* cannot be kept.                                                         *)
Ground(s) ==
  /\ send[s].pc = "ground"
  /\ Goes(s, "reply") \/ Goes(s, "error")
  /\ UNCHANGED <<tables, page, courses, load, mixed, stale>>

KeepReply(s) ==
  /\ send[s].pc = "reply"
  /\ rows' = Append(rows, Message(s, "assistant"))
  /\ Goes(s, "answer")
  /\ UNCHANGED <<table, gone, page, courses, load, mixed, stale>>

-----------------------------------------------------------------------------
Serves(s) ==
  \/ RefuseQuestion(s) \/ KeepQuestion(s) \/ Ground(s) \/ KeepReply(s)
  \/ ReplyShown(s) \/ ErrorShown(s)

ChatNext ==
  \/ OpenPage \/ ClosePage \/ ReadCourses \/ CoursesLoaded
  \/ SelectCourse \/ SendPressed
  \/ \E l \in Load : ReadHistory(l) \/ HistoryShown(l)
  \/ \E s \in Send : Serves(s)
  \/ \E c \in Course : CreateCourse(c) \/ DeleteCourse(c)

ChatSpec == ChatInit /\ [][ChatNext]_chatVars

Names == Permutations(Course)

-----------------------------------------------------------------------------
Has(list, s, role) ==
  \E i \in DOMAIN list : list[i].send = s /\ list[i].role = role

(* "Save user message first so it is persisted regardless of AI            *)
(* availability": once CHAT_SEND has not refused it, a question is in the  *)
(* table once, whatever it comes to, and the reply, if there is one, in    *)
(* the same course after it.  One that was refused has neither.            *)
QuestionsKept ==
  \A s \in Send :
    /\ CASE send[s].pc \in {"idle", "user", "refuse", "refused"} ->
              \A i \in DOMAIN rows : rows[i].send # s
         [] OTHER -> Has(rows, s, "user")
    /\ \A i, j \in DOMAIN rows :
         rows[i].send = s /\ rows[j].send = s /\ i < j =>
           /\ rows[i].role = "user" /\ rows[j].role = "assistant"
           /\ rows[i].course = rows[j].course

(* As long as no question is asked while a list is on its way, no course   *)
(* is selected while a call is in flight, the last history asked for could *)
(* be read, and the course has no more messages than CHAT_HISTORY returns, *)
(* the page comes to show what the table has for the course, without the   *)
(* questions that failed: no order of answers loses or doubles a message.  *)
ListIsTable ==
  LET failed == {s \in Send : send[s].pc = "failed"}
      calm == /\ Open /\ ~mixed /\ ~stale /\ courses = NotAsked
              /\ Loading = {} /\ Sending = {}
              /\ Len(Kept(page.course)) <= HistoryLimit
      sameMessages(a, b) == {a[i] : i \in DOMAIN a} = {b[i] : i \in DOMAIN b}
                            /\ Len(a) = Len(b)
  IN  calm => sameMessages(page.list,
                Only(Kept(page.course), Said(Send \ failed, Shown)))
=============================================================================
