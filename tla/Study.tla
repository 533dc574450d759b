-------------------------------- MODULE Study --------------------------------
(***************************************************************************)
(* Learning from lectures: summaries, flashcards, quizzes and reviews      *)
(* (services/learning.ts and the handlers that call it), over the tables   *)
(* of lectures and segments (services/courses.ts, services/transcript.ts). *)
(*                                                                         *)
(* A handler reads, waits for the provider and writes much later; others   *)
(* run meanwhile.  A statement is atomic; the foreign keys of the schema   *)
(* cascade to segments and summary and empty Flashcard.lectureId.          *)
(***************************************************************************)
EXTENDS Integers, FiniteSets, StudyPlan

CONSTANTS
  Caller,      \* handlers that may be in progress together
  Lecture, NoLecture,
  Question,    \* what a flashcard may ask
  Quality,     \* ratings of a review, of 0 .. 5
  MaxInterval, \* the longest interval, in days, that still makes a date
  MaxRepeats,  \* how often an answer of the provider may repeat a question
  MaxCards, MaxQuizzes, \* bounds: ids of the rows
  MaxCalls,    \* bound: handlers called
  MaxCrashes   \* bound: how often the app dies

Card == 1 .. MaxCards
Quiz == 1 .. MaxQuizzes

(* A card in an answer: its question, and which card with that question.   *)
Proposal == Question \X (1 .. MaxRepeats)

ASSUME StudyAssumption ==
  /\ IsFiniteSet(Caller) /\ NoLecture \notin Lecture
  /\ Quality \subseteq 0 .. 5
  /\ MaxInterval \in Nat /\ MaxInterval >= 6
  /\ MaxRepeats \in Nat
  /\ MaxCards \in Nat \ {0} /\ MaxQuizzes \in Nat
  /\ MaxCalls \in Nat /\ MaxCrashes \in Nat

VARIABLES
  lecture, \* Lecture rows: new, pending, ready, deleted
  segs,    \* the lectures that have TranscriptSegment rows
  summary, \* LectureSummary rows: none, ai, extract
  card,    \* Flashcard rows
  quiz,    \* Quiz rows: none, empty, whole, gone
  call,    \* the handlers in progress
  calls, crashes,
  asked,   \* history: summaries asked of the provider, by lecture
  unfilled, \* history: how often the questions of a quiz were refused
  wiped    \* history: the tables were replaced by those of a backup

tables == <<lecture, segs, summary, card, quiz>>
studyVars == <<tables, call, calls, crashes, asked, unfilled, wiped>>

(* A card: easeFactor in hundredths, intervalDays, repetitions.  Ids are   *)
(* not used again: reps is -1 before there is a row, -2 when it is gone.   *)
NoCard == [question |-> CHOOSE q \in Question : TRUE, lecture |-> NoLecture,
           ease |-> 0, interval |-> 0, reps |-> -1]
NewCard(q, l) == [question |-> q, lecture |-> l,
                  ease |-> 250, interval |-> 1, reps |-> 0]
GoneCard == [NoCard EXCEPT !.reps = -2]
Row == {i \in Card : card[i].reps >= 0}
Free == {i \in Card : card[i] = NoCard}
Exists(l) == lecture[l] \in {"pending", "ready"}

Quiet == [pc |-> "idle", lecture |-> NoLecture, card |-> 0, old |-> NoCard,
          kind |-> "none", found |-> FALSE, new |-> {}]

StudyInit ==
  /\ lecture = [l \in Lecture |-> "new"]
  /\ segs = {}
  /\ summary = [l \in Lecture |-> "none"]
  /\ card = [i \in Card |-> NoCard]
  /\ quiz = [i \in Quiz |-> "none"]
  /\ call = [c \in Caller |-> Quiet]
  /\ calls = 0 /\ crashes = 0
  /\ asked = [l \in Lecture |-> 0]
  /\ unfilled = 0
  /\ wiped = FALSE

At(c, pc) == call[c].pc = pc
Goto(c, pc) == call' = [call EXCEPT ![c].pc = pc]
Return(c) == call' = [call EXCEPT ![c] = Quiet]
Bounds == UNCHANGED <<calls, crashes, unfilled, wiped>>

-----------------------------------------------------------------------------
(* Lectures.                                                               *)

CreateLecture(l) ==
  /\ lecture[l] = "new"
  /\ lecture' = [lecture EXCEPT ![l] = "pending"]
  /\ UNCHANGED <<segs, summary, card, quiz, call, asked>> /\ Bounds

(* bulkInsert of a transcription (Capture).                                *)
Transcribe(l) ==
  /\ lecture[l] = "pending"
  /\ lecture' = [lecture EXCEPT ![l] = "ready"]
  /\ segs' = segs \cup {l}
  /\ UNCHANGED <<summary, card, quiz, call, asked>> /\ Bounds

DeleteLecture(l) ==
  /\ Exists(l)
  /\ lecture' = [lecture EXCEPT ![l] = "deleted"]
  /\ segs' = segs \ {l}
  /\ summary' = [summary EXCEPT ![l] = "none"]
  /\ card' = [i \in Card |-> IF card[i].lecture = l
                             THEN [card[i] EXCEPT !.lecture = NoLecture]
                             ELSE card[i]]
  /\ UNCHANGED <<quiz, call, asked>> /\ Bounds

-----------------------------------------------------------------------------
(* A handler is called.                                                    *)

Call(c) ==
  /\ At(c, "idle") /\ calls < MaxCalls
  /\ calls' = calls + 1
  /\ \/ \E pc \in {"summary", "cards"}, l \in Lecture :
          /\ Exists(l)
          /\ call' = [call EXCEPT ![c].pc = pc, ![c].lecture = l]
     \/ Goto(c, "quiz")
     \/ \E i \in Quiz :
          /\ quiz[i] = "whole"
          /\ call' = [call EXCEPT ![c].pc = "submit", ![c].card = i]
     \/ \E i \in Row : call' = [call EXCEPT ![c].pc = "review", ![c].card = i]
  /\ UNCHANGED <<tables, crashes, asked, unfilled, wiped>>

-----------------------------------------------------------------------------
(* SUMMARY_GET and generateSummary                                         *)

(* Variant: the summary that is there is not looked for.                   *)
GetSummaryAgain(c) ==
  /\ At(c, "summary")
  /\ IF call[c].lecture \in segs THEN Goto(c, "summarize") ELSE Return(c)
  /\ UNCHANGED <<tables, asked>> /\ Bounds

(* What is there is returned; without a provider or segments it is an      *)
(* error.                                                                  *)
GetSummary(c) ==
  /\ At(c, "summary")
  /\ LET l == call[c].lecture
     IN  \/ summary[l] = "none" /\ l \in segs /\ Goto(c, "summarize")
         \/ Return(c)
  /\ UNCHANGED <<tables, asked>> /\ Bounds

(* The provider's summary or, when it fails, sentences of the transcript.  *)
Summarize(c) ==
  /\ At(c, "summarize")
  /\ \E k \in {"ai", "extract"} :
       call' = [call EXCEPT ![c].pc = "findSummary", ![c].kind = k]
  /\ asked' = [asked EXCEPT ![call[c].lecture] = @ + 1]
  /\ UNCHANGED tables /\ Bounds

FindSummary(c) ==
  /\ At(c, "findSummary")
  /\ call' = [call EXCEPT ![c].pc = "keepSummary",
                ![c].found = summary[call[c].lecture] # "none"]
  /\ UNCHANGED <<tables, asked>> /\ Bounds

(* Update or create; lectureId is unique, and refers to a lecture: a row   *)
(* that is gone, or there by now, is an error.                             *)
KeepSummary(c) ==
  /\ At(c, "keepSummary")
  /\ LET l == call[c].lecture
     IN  summary' = IF Exists(l) /\ call[c].found = (summary[l] # "none")
                    THEN [summary EXCEPT ![l] = call[c].kind] ELSE summary
  /\ Return(c)
  /\ UNCHANGED <<lecture, segs, card, quiz, asked>> /\ Bounds

-----------------------------------------------------------------------------
(* generateFlashcards                                                      *)

(* The provider's cards, which may repeat a question; none when it fails.  *)
MakeCards(c) ==
  /\ At(c, "cards")
  /\ IF call[c].lecture \in segs
     THEN \E most \in [Question -> 0 .. MaxRepeats] :
            call' = [call EXCEPT ![c].pc = "findCards",
                       ![c].new = {p \in Proposal : p[2] <= most[p[1]]}]
     ELSE Return(c)
  /\ UNCHANGED <<tables, asked>> /\ Bounds

(* Variant: every card that was made is kept.                              *)
FindCardsNone(c) ==
  /\ At(c, "findCards")
  /\ Goto(c, "keepCards")
  /\ UNCHANGED <<tables, asked>> /\ Bounds

(* Questions that the lecture has are left out; those that the answer      *)
(* repeats are not.                                                        *)
FindCards(c) ==
  /\ At(c, "findCards")
  /\ LET mine == {i \in Row : card[i].lecture = call[c].lecture}
         known == {card[i].question : i \in mine}
     IN  call' = [call EXCEPT ![c].pc = "keepCards",
                    ![c].new = {p \in @ : p[1] \notin known}]
  /\ UNCHANGED <<tables, asked>> /\ Bounds

(* createMany: all of them, or an error when the lecture is gone.          *)
KeepCards(c) ==
  /\ At(c, "keepCards")
  /\ LET l == call[c].lecture
         qs == call[c].new
     IN  IF ~Exists(l) \/ qs = {} THEN UNCHANGED card
         ELSE \E ids \in SUBSET Free :
                /\ Cardinality(ids) = Cardinality(qs)
                /\ \A i \in ids, k \in Free \ ids : i < k
                /\ \E q \in [ids -> qs] :
                     /\ \A i, k \in ids : q[i] = q[k] => i = k
                     /\ card' = [i \in Card |->
                          IF i \in ids THEN NewCard(q[i][1], l) ELSE card[i]]
  /\ Return(c)
  /\ UNCHANGED <<lecture, segs, summary, quiz, asked>> /\ Bounds

-----------------------------------------------------------------------------
(* generateWeeklyQuiz                                                      *)

(* A lecture that is READY and an answer of the provider, or an error.     *)
MakeQuiz(c) ==
  /\ At(c, "quiz")
  /\ \/ (\E l \in Lecture : lecture[l] = "ready") /\ Goto(c, "keepQuiz")
     \/ Return(c)
  /\ UNCHANGED <<tables, asked>> /\ Bounds

(* The quiz is created, the questions with the next statement.             *)
KeepQuiz(c) ==
  /\ At(c, "keepQuiz")
  /\ \E i \in Quiz :
       /\ quiz[i] = "none" /\ \A k \in 1 .. i - 1 : quiz[k] # "none"
       /\ quiz' = [quiz EXCEPT ![i] = "empty"]
       /\ call' = [call EXCEPT ![c].pc = "keepQuestions", ![c].card = i]
  /\ UNCHANGED <<lecture, segs, summary, card, asked>> /\ Bounds

(* Variant: the questions are kept one by one, and one may be refused.     *)
KeepQuestionsSome(c) ==
  /\ At(c, "keepQuestions")
  /\ \E s \in {"empty", "whole"} : quiz' = [quiz EXCEPT ![call[c].card] = s]
  /\ Return(c)
  /\ UNCHANGED <<lecture, segs, summary, card, asked>> /\ Bounds

(* createMany: an error when the quiz is gone, or for another reason, with *)
(* the quiz left as it is.                                                 *)
KeepQuestions(c) ==
  /\ At(c, "keepQuestions")
  /\ \/ /\ quiz' = [quiz EXCEPT
             ![call[c].card] = IF @ = "empty" THEN "whole" ELSE @]
        /\ UNCHANGED unfilled
     \/ unfilled' = unfilled + 1 /\ UNCHANGED quiz
  /\ Return(c)
  /\ UNCHANGED <<lecture, segs, summary, card, asked, calls, crashes, wiped>>

(* QUIZ_SUBMIT.  Its answers belong to a QuizAttempt, which nothing in the *)
(* program creates: the first answer breaks its foreign key, and without   *)
(* answers the attempt to update is missing.  Always an error.             *)
SubmitQuiz(c) ==
  /\ At(c, "submit")
  /\ Return(c)
  /\ UNCHANGED <<tables, asked>> /\ Bounds

-----------------------------------------------------------------------------
(* FLASHCARD_REVIEW: SM-2                                                  *)

AtLeast130(x) == IF x < 130 THEN 130 ELSE x

(* max(1.3, ef + 0.1 - (5 - q) * (0.08 + (5 - q) * 0.02)), in hundredths.  *)
NextEase(ease, q) ==
  IF q < 3 THEN AtLeast130(ease - 20)
  ELSE AtLeast130(ease + 10 - (5 - q) * (8 + (5 - q) * 2))

NextInterval(old, q) ==
  IF q < 3 THEN 1
  ELSE IF old.reps = 0 THEN 1
  ELSE IF old.reps = 1 THEN 6
  ELSE (old.interval * NextEase(old.ease, q) + 50) \div 100

NextReps(old, q) == IF q < 3 THEN 0 ELSE old.reps + 1

Reviewed(old, q) ==
  [old EXCEPT !.ease = NextEase(old.ease, q),
              !.interval = NextInterval(old, q),
              !.reps = NextReps(old, q)]

(* reviewFlashcard of the learning engine computes it again, in place.     *)
ReviewedInPlace(old, q) ==
  IF q < 3
  THEN [old EXCEPT !.ease = AtLeast130(@ - 20), !.interval = 1, !.reps = 0]
  ELSE LET ease == AtLeast130(old.ease + 10 - (5 - q) * (8 + (5 - q) * 2))
       IN  [old EXCEPT !.ease = ease,
                       !.interval = CASE old.reps = 0 -> 1
                                      [] old.reps = 1 -> 6
                                      [] OTHER -> (@ * ease + 50) \div 100,
                       !.reps = @ + 1]

(* Both copies of SM-2 give a card the same schedule.                      *)
ASSUME SameSchedule ==
  \A ease \in {130, 149, 150, 250} : \A interval \in {0, 1, 6, 15} :
    \A reps \in 0 .. 3 : \A q \in 0 .. 5 :
      LET old == [ease |-> ease, interval |-> interval, reps |-> reps]
      IN  Reviewed(old, q) = ReviewedInPlace(old, q)

ReadCard(c) ==
  /\ At(c, "review")
  /\ IF call[c].card \in Row
     THEN call' = [call EXCEPT ![c].pc = "keepReview",
                     ![c].old = card[call[c].card]]
     ELSE Return(c)
  /\ UNCHANGED <<tables, asked>> /\ Bounds

(* Variant: the review counts from the row as it is by now, its schedule   *)
(* from the row that was read.                                             *)
KeepReviewMixed(c) ==
  /\ At(c, "keepReview")
  /\ LET i == call[c].card
     IN  \E q \in Quality :
           card' = IF i \in Row
                   THEN [card EXCEPT
                          ![i].ease = NextEase(call[c].old.ease, q),
                          ![i].interval = NextInterval(call[c].old, q),
                          ![i].reps = NextReps(card[i], q)]
                   ELSE card
  /\ Return(c)
  /\ UNCHANGED <<lecture, segs, summary, quiz, asked>> /\ Bounds

(* The new schedule of the card that was read; whatever reviewed it since  *)
(* is lost.  A date out of range, or a card that is gone, is an error.     *)
KeepReview(c) ==
  /\ At(c, "keepReview")
  /\ LET i == call[c].card
     IN  \E q \in Quality :
           LET r == Reviewed(call[c].old, q)
           IN  card' = IF i \in Row /\ r.interval <= MaxInterval
                       THEN [card EXCEPT ![i].ease = r.ease,
                              ![i].interval = r.interval, ![i].reps = r.reps]
                       ELSE card
  /\ Return(c)
  /\ UNCHANGED <<lecture, segs, summary, quiz, asked>> /\ Bounds

-----------------------------------------------------------------------------
(* The app dies: the handlers are gone, the tables stay.                   *)
Die ==
  /\ crashes < MaxCrashes
  /\ crashes' = crashes + 1
  /\ call' = [c \in Caller |-> Quiet]
  /\ UNCHANGED <<tables, calls, asked, unfilled, wiped>>

Serves(c) ==
  \/ GetSummary(c) \/ Summarize(c) \/ FindSummary(c) \/ KeepSummary(c)
  \/ MakeCards(c) \/ FindCards(c) \/ KeepCards(c)
  \/ MakeQuiz(c) \/ KeepQuiz(c) \/ KeepQuestions(c) \/ SubmitQuiz(c)
  \/ ReadCard(c) \/ KeepReview(c)

StudyNext ==
  \/ \E l \in Lecture : CreateLecture(l) \/ Transcribe(l) \/ DeleteLecture(l)
  \/ \E c \in Caller : Call(c) \/ Serves(c)

-----------------------------------------------------------------------------
(* SM-2 keeps its own rules, whatever reviews race and whatever is         *)
(* restored: a card in its first or second round is due tomorrow, one      *)
(* beyond them in six days or more, and no interval passes what a date can *)
(* hold.                                                                   *)
Scheduled(r) ==
  /\ r.ease >= 130
  /\ r.reps \in {0, 1} => r.interval = 1
  /\ r.reps >= 2 => r.interval >= 6
  /\ r.interval <= MaxInterval
ScheduleSound == \A i \in Row : Scheduled(card[i])

(* "Deduplicate: check against existing flashcards": the check is made     *)
(* before the write and not against the answer itself, so that calls in    *)
(* progress together may each keep a question as often as their answers    *)
(* have it, but later ones never do.                                       *)
Copies(q, l) == {i \in Row : card[i].question = q /\ card[i].lecture = l}
CopiesBounded ==
  ~wiped => \A q \in Question, l \in Lecture :
              Cardinality(Copies(q, l)) <= Cardinality(Caller) * MaxRepeats

(* "Return cached summary": the provider is asked for the summary of a     *)
(* lecture by the calls that overlap with the first one, never again.      *)
SummaryAskedOnce ==
  ~wiped => \A l \in Lecture :
              asked[l] <= (crashes + 1) * Cardinality(Caller)

(* "Persists results transactionally": a quiz without questions is one     *)
(* that is just being made, whose making the app did not survive, or whose *)
(* questions were refused after it was created.                            *)
QuizzesWhole ==
  Cardinality({i \in Quiz : quiz[i] = "empty"})
    <= crashes * Cardinality(Caller) + unfilled
         + Cardinality({c \in Caller : At(c, "keepQuestions")})
=============================================================================
