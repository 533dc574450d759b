---------------------------- MODULE LibraryProofs ----------------------------
(***************************************************************************)
(* Proofs about studying and about backups, for any number of handlers,    *)
(* lectures, questions, rows, calls, crashes, backups and restores.        *)
(*                                                                         *)
(* Counting.  What handlers in progress may still do to a table is counted *)
(* with what is in it: who holds a question that was not found, who asks   *)
(* for the summary of a lecture that has none, which quiz has a handler    *)
(* that is about to fill it.                                               *)
(*                                                                         *)
(* Restoring.  The rows of a backup whose tables nobody wrote to while it  *)
(* read them are those of one moment, and at every moment segments and     *)
(* cards refer to lectures that there are.                                 *)
(*                                                                         *)
(* Reading back.  What the files hold, for any length: the headers of an   *)
(* archive begin where the ones before them end, at offsets that only      *)
(* grow, so that the reader stops at the first one of a name; a delimited  *)
(* file is followed field by field, with what the reader has after each.   *)
(* Plans, scores and contexts are added up the same way.  An induction     *)
(* goes by the least number for which something fails.                     *)
(***************************************************************************)
EXTENDS Backup, FiniteSetTheorems, SequenceTheorems,
        WellFoundedInduction, TLAPS

(* Rows and handlers.                                                      *)
LectureState == {"new", "pending", "ready", "deleted"}
Asked == Question \cup {NoCard.question}
CardRec == [question : Asked, lecture : Lecture \cup {NoLecture},
            ease : Int, interval : Int, reps : Int]
CallRec == [pc : {"idle", "summary", "summarize", "findSummary",
                  "keepSummary", "cards", "findCards", "keepCards", "quiz",
                  "keepQuiz", "keepQuestions", "submit", "review",
                  "keepReview"},
            lecture : Lecture \cup {NoLecture}, card : Nat, old : CardRec,
            kind : {"none", "ai", "extract"}, found : BOOLEAN,
            new : SUBSET Proposal]

(* What a handler that has come so far knows.                              *)
OfLecture == {"summary", "summarize", "findSummary", "keepSummary",
              "cards", "findCards", "keepCards"}
Knows(r) ==
  /\ r \in CallRec
  /\ r.pc \in OfLecture => r.lecture \in Lecture
  /\ r.pc \in {"findSummary", "keepSummary"} => r.kind # "none"
  /\ r.pc = "keepReview" => r.old.reps >= 0 /\ Scheduled(r.old)

SoundCards(f) ==
  /\ f \in [Card -> CardRec]
  /\ \A i \in Card : f[i].reps >= 0 => Scheduled(f[i])

Types ==
  /\ lecture \in [Lecture -> LectureState]
  /\ segs \in SUBSET Lecture
  /\ summary \in [Lecture -> {"none", "ai", "extract"}]
  /\ SoundCards(card)
  /\ quiz \in [Quiz -> {"none", "empty", "whole", "gone"}]
  /\ call \in [Caller -> CallRec] /\ \A c \in Caller : Knows(call[c])
  /\ crashes \in Nat /\ asked \in [Lecture -> Nat] /\ wiped \in BOOLEAN

(* The rows that a backup holds.                                           *)
Data == [lecture : [Lecture -> LectureState], segs : SUBSET Lecture,
         card : [Card -> CardRec]]
SoundData(d) == d \in Data /\ SoundCards(d.card)

FileTypes ==
  /\ file = [kind |-> file.kind, data |-> file.data, was |-> file.was]
  /\ file.kind \in {"none", "torn", "whole"}
  /\ SoundData(file.data) /\ file.was \in SUBSET Data
  /\ job = [pc |-> job.pc, todo |-> job.todo, data |-> job.data,
            was |-> job.was]
  /\ job.pc \in {"idle", "read", "write", "load", "commit", "restored"}
  /\ job.todo \in SUBSET Table
  /\ SoundData(job.data) /\ job.was \in SUBSET Data

(* Segments and cards belong to lectures that there are.                   *)
Linked(d) ==
  /\ \A l \in d.segs : HadLecture(d, l)
  /\ \A i \in Card : d.card[i].reps >= 0 =>
       d.card[i].lecture = NoLecture \/ HadLecture(d, d.card[i].lecture)

(* What a backup that nobody disturbed has read is what there was.         *)
Faithful ==
  /\ Linked(Tables)
  /\ \A was \in job.was :
       /\ Linked(was)
       /\ job.pc = "read" => was = Tables
       /\ \A t \in Table \ job.todo : job.data[t] = was[t]
  /\ job.pc = "write" => job.todo = {}
  /\ \A was \in file.was : Linked(was) /\ file.data = was
  /\ job.pc \in {"load", "commit"} => file.kind # "none"
  /\ job.pc = "commit" => file.kind = "whole"

(* The cards that are about to be kept with a question that was not found  *)
(* among the cards of its lecture.                                         *)
Room == Caller \X (1 .. MaxRepeats)
Holders(q, l) == {h \in Room : /\ call[h[1]].pc = "keepCards"
                               /\ call[h[1]].lecture = l
                               /\ <<q, h[2]>> \in call[h[1]].new}
FewCopies ==
  ~wiped => \A q \in Question, l \in Lecture :
    Cardinality(Copies(q, l)) + Cardinality(Holders(q, l))
      <= Cardinality(Room)

(* Who is about to ask for a summary, and who has asked.                   *)
Willing(l) == {c \in Caller : call[c].pc = "summarize"
                              /\ call[c].lecture = l}
Answered(l) == {c \in Caller : call[c].pc \in {"findSummary", "keepSummary"}
                               /\ call[c].lecture = l}
Settled(l) == summary[l] # "none" \/ lecture[l] = "deleted"
FewAsked ==
  ~wiped =>
    /\ \A l \in segs : lecture[l] = "ready"
    /\ \A c \in Caller :
         /\ call[c].pc \in OfLecture => lecture[call[c].lecture] # "new"
         /\ call[c].pc = "keepSummary" /\ call[c].found
              => Settled(call[c].lecture)
    /\ \A l \in Lecture :
         /\ asked[l] + Cardinality(Willing(l))
              <= (crashes + 1) * Cardinality(Caller)
         /\ ~Settled(l) =>
              asked[l] <= crashes * Cardinality(Caller)
                          + Cardinality(Answered(l))

(* The quizzes that nobody is going to fill.                               *)
Filling == {c \in Caller : call[c].pc = "keepQuestions"}
Forsaken == {i \in Quiz : /\ quiz[i] = "empty"
                          /\ \A c \in Filling : call[c].card # i}
FewForsaken ==
  /\ unfilled \in Nat
  /\ Cardinality(Forsaken) <= crashes * Cardinality(Caller) + unfilled

-----------------------------------------------------------------------------
(* SM-2.                                                                   *)

(* No rating brings an ease factor below 1.3.                              *)
LEMMA EaseFloor ==
  ASSUME NEW ease \in Int, NEW q \in 0 .. 5
  PROVE  NextEase(ease, q) \in Int /\ NextEase(ease, q) >= 130
<1>1. \A x \in Int : AtLeast130(x) \in Int /\ AtLeast130(x) >= 130
  BY DEF AtLeast130
<1>2. CASE q < 3
  BY <1>1, <1>2 DEF NextEase
<1>3. CASE q = 3
  BY <1>1, <1>3 DEF NextEase
<1>4. CASE q = 4
  BY <1>1, <1>4 DEF NextEase
<1>5. CASE q = 5
  BY <1>1, <1>5 DEF NextEase
<1> QED
  BY <1>2, <1>3, <1>4, <1>5

(* Six days or more grow by three tenths at least.                         *)
LEMMA IntervalGrows ==
  ASSUME NEW n \in Int, NEW ease \in Int, n >= 6, ease >= 130
  PROVE  /\ (n * ease + 50) \div 100 \in Int
         /\ (n * ease + 50) \div 100 >= 6
<1>1. PICK d \in Nat : n = 6 + d
  BY n - 6 \in Nat
<1>2. d * ease \in Int /\ d * ease >= 0
  <2>1. ease \in Nat
    OBVIOUS
  <2> QED
    BY <2>1
<1>3. (6 + d) * ease = 6 * ease + d * ease
  OBVIOUS
<1> DEFINE p == n * ease
<1>4. p \in Int /\ p >= 780
  BY <1>1, <1>2, <1>3
<1> HIDE DEF p
<1>5. (p + 50) \div 100 \in Int /\ (p + 50) \div 100 >= 6
  BY <1>4
<1> QED
  BY <1>5 DEF p

LEMMA ReviewSound ==
  ASSUME NEW old \in CardRec, old.reps >= 0, Scheduled(old),
         NEW q \in 0 .. 5, NEW r, r = Reviewed(old, q),
         r.interval <= MaxInterval
  PROVE  /\ r.ease \in Int /\ r.interval \in Int /\ r.reps \in Int
         /\ r.reps >= 0 /\ Scheduled(r)
<1>1. /\ r.ease = NextEase(old.ease, q)
      /\ r.interval = NextInterval(old, q)
      /\ r.reps = NextReps(old, q)
  BY DEF Reviewed, CardRec
<1>2. old.ease \in Int /\ old.interval \in Int /\ old.reps \in Int
  BY DEF CardRec
<1>3. r.ease \in Int /\ r.ease >= 130
  BY <1>1, <1>2, EaseFloor
<1>4. r.reps \in Int /\ r.reps >= 0
  BY <1>1, <1>2 DEF NextReps
<1>5. CASE q < 3
  <2>1. r.interval = 1 /\ r.reps = 0
    BY <1>1, <1>5 DEF NextInterval, NextReps
  <2> QED
    BY <1>3, <2>1 DEF Scheduled
<1>6. CASE ~(q < 3) /\ old.reps = 0
  <2>1. r.interval = 1 /\ r.reps = 1
    BY <1>1, <1>6 DEF NextInterval, NextReps
  <2> QED
    BY <1>3, <2>1 DEF Scheduled
<1>7. CASE ~(q < 3) /\ old.reps = 1
  <2>1. r.interval = 6 /\ r.reps = 2
    BY <1>1, <1>7 DEF NextInterval, NextReps
  <2> QED
    BY <1>3, <2>1 DEF Scheduled
<1>8. CASE ~(q < 3) /\ old.reps >= 2
  <2>1. old.interval >= 6
    BY <1>8 DEF Scheduled
  <2>2. /\ r.interval = (old.interval * r.ease + 50) \div 100
        /\ r.reps = old.reps + 1
    BY <1>1, <1>2, <1>8 DEF NextInterval, NextReps
  <2>3. r.interval \in Int /\ r.interval >= 6
    BY <1>2, <1>3, <2>1, <2>2, IntervalGrows
  <2>4. r.reps >= 3
    BY <1>2, <1>8, <2>2
  <2> QED
    BY <1>3, <1>4, <2>3, <2>4 DEF Scheduled
<1> QED
  BY <1>2, <1>5, <1>6, <1>7, <1>8

LEMMA NoCardType ==
  /\ NoCard \in CardRec /\ NoCard.reps = -1
  /\ GoneCard \in CardRec /\ GoneCard.reps = -2
<1> DEFINE q == CHOOSE q \in Question : TRUE
<1>1. NoCard = [question |-> q, lecture |-> NoLecture, ease |-> 0,
                interval |-> 0, reps |-> -1]
  BY DEF NoCard
<1> HIDE DEF q
<1>2. NoCard.question = q
  BY <1>1
<1>3. q \in Asked
  BY <1>2 DEF Asked
<1>4. NoCard \in CardRec /\ NoCard.reps = -1
  BY <1>1, <1>3 DEF CardRec
<1>5. GoneCard \in CardRec /\ GoneCard.reps = -2
  BY <1>4 DEF GoneCard, CardRec
<1> QED
  BY <1>4, <1>5

LEMMA NewCardType ==
  ASSUME NEW q \in Question, NEW l \in Lecture
  PROVE  /\ NewCard(q, l) \in CardRec /\ NewCard(q, l).reps = 0
         /\ NewCard(q, l).question = q /\ NewCard(q, l).lecture = l
         /\ Scheduled(NewCard(q, l))
BY StudyAssumption DEF NewCard, CardRec, Asked, Scheduled

-----------------------------------------------------------------------------
(* The steps of a handler, by what they leave in its record.               *)

(* One handler goes on, the others stay where they are.                    *)
OneMoves(c) ==
  /\ call' \in [Caller -> CallRec] /\ Knows(call'[c])
  /\ \A d \in Caller : d # c => call'[d] = call[d]

LEMMA Moves ==
  ASSUME Types, NEW c \in Caller, NEW x, Knows(x),
         call' = [call EXCEPT ![c] = x]
  PROVE  OneMoves(c) /\ call'[c] = x
BY DEF Types, Knows, OneMoves

LEMMA QuietKnows == Knows(Quiet) /\ Quiet.pc = "idle"
BY NoCardType DEF Quiet, CallRec, Knows, OfLecture

LEMMA Returns ==
  ASSUME Types, NEW c \in Caller, Return(c)
  PROVE  OneMoves(c) /\ call'[c].pc = "idle"
BY QuietKnows, Moves DEF Return

(* Which step needs to know nothing new.                                   *)
LEMMA GoesTo ==
  ASSUME Types, NEW c \in Caller,
         NEW pc \in {"idle", "summarize", "keepCards", "quiz", "keepQuiz"},
         pc \in {"summarize", "keepCards"} => call[c].pc \in OfLecture,
         Goto(c, pc)
  PROVE  /\ OneMoves(c)
         /\ call'[c].pc = pc /\ call'[c].lecture = call[c].lecture
<1>1. Knows(call[c]) /\ call[c] \in CallRec
  BY DEF Types
<1> DEFINE x == [call[c] EXCEPT !.pc = pc]
<1>2. x \in CallRec /\ x.pc = pc /\ x.lecture = call[c].lecture
  BY <1>1 DEF CallRec
<1>3. call' = [call EXCEPT ![c] = x]
  BY DEF Goto
<1> HIDE DEF x
<1>4. Knows(x)
  BY <1>1, <1>2 DEF Knows, OfLecture
<1> QED
  BY <1>2, <1>3, <1>4, Moves

LEMMA CallMoves ==
  ASSUME Types, NEW c \in Caller, Call(c)
  PROVE  /\ OneMoves(c)
         /\ call'[c].pc \in {"summary", "cards", "quiz", "submit", "review"}
         /\ call'[c].pc \in OfLecture => Exists(call'[c].lecture)
<1>1. Knows(call[c]) /\ call[c] \in CallRec
  BY DEF Types
<1>2. ASSUME NEW pc \in {"summary", "cards"}, NEW l \in Lecture, Exists(l),
             call' = [call EXCEPT ![c].pc = pc, ![c].lecture = l]
      PROVE  /\ OneMoves(c) /\ call'[c].pc = pc /\ call'[c].lecture = l
  <2> DEFINE x == [call[c] EXCEPT !.pc = pc, !.lecture = l]
  <2>1. x \in CallRec /\ x.pc = pc /\ x.lecture = l
    BY <1>1 DEF CallRec
  <2>2. call' = [call EXCEPT ![c] = x]
    BY <1>1, <1>2 DEF Types
  <2> HIDE DEF x
  <2>3. Knows(x)
    BY <2>1 DEF Knows
  <2> QED
    BY <2>1, <2>2, <2>3, Moves
<1>3. ASSUME NEW pc \in {"submit", "review"}, NEW i \in Nat,
             call' = [call EXCEPT ![c].pc = pc, ![c].card = i]
      PROVE  /\ OneMoves(c) /\ call'[c].pc = pc
  <2> DEFINE x == [call[c] EXCEPT !.pc = pc, !.card = i]
  <2>1. x \in CallRec /\ x.pc = pc
    BY <1>1 DEF CallRec
  <2>2. call' = [call EXCEPT ![c] = x]
    BY <1>1, <1>3 DEF Types
  <2> HIDE DEF x
  <2>3. Knows(x)
    BY <2>1 DEF Knows, OfLecture
  <2> QED
    BY <2>1, <2>2, <2>3, Moves
<1>4. CASE Goto(c, "quiz")
  BY <1>4, GoesTo DEF OfLecture
<1>5. \A i \in Quiz : i \in Nat
  BY DEF Quiz
<1>6. \A i \in Row : i \in Nat
  BY DEF Row, Card
<1> QED
  BY <1>2, <1>3, <1>4, <1>5, <1>6 DEF Call, OfLecture

LEMMA SummaryMoves ==
  ASSUME Types, NEW c \in Caller
  PROVE  /\ GetSummary(c) =>
              /\ OneMoves(c) /\ call[c].pc = "summary"
              /\ \/ call'[c].pc = "idle"
                 \/ /\ call'[c].pc = "summarize"
                    /\ call'[c].lecture = call[c].lecture
                    /\ summary[call[c].lecture] = "none"
                    /\ call[c].lecture \in segs
         /\ Summarize(c) =>
              /\ OneMoves(c) /\ call[c].pc = "summarize"
              /\ call'[c].pc = "findSummary"
              /\ call'[c].lecture = call[c].lecture
         /\ FindSummary(c) =>
              /\ OneMoves(c) /\ call[c].pc = "findSummary"
              /\ call'[c].pc = "keepSummary"
              /\ call'[c].lecture = call[c].lecture
              /\ call'[c].found = (summary[call[c].lecture] # "none")
         /\ KeepSummary(c) =>
              /\ OneMoves(c) /\ call[c].pc = "keepSummary"
              /\ call'[c].pc = "idle"
<1>1. Knows(call[c]) /\ call[c] \in CallRec
  BY DEF Types
<1>2. ASSUME GetSummary(c)
      PROVE  /\ OneMoves(c) /\ call[c].pc = "summary"
             /\ \/ call'[c].pc = "idle"
                \/ /\ call'[c].pc = "summarize"
                   /\ call'[c].lecture = call[c].lecture
                   /\ summary[call[c].lecture] = "none"
                   /\ call[c].lecture \in segs
  BY <1>2, GoesTo, Returns DEF GetSummary, At, OfLecture
<1>3. ASSUME Summarize(c)
      PROVE  /\ OneMoves(c) /\ call[c].pc = "summarize"
             /\ call'[c].pc = "findSummary"
             /\ call'[c].lecture = call[c].lecture
  <2>1. PICK k \in {"ai", "extract"} :
          call' = [call EXCEPT ![c].pc = "findSummary", ![c].kind = k]
    BY <1>3 DEF Summarize
  <2> DEFINE x == [call[c] EXCEPT !.pc = "findSummary", !.kind = k]
  <2>2. /\ x \in CallRec /\ x.pc = "findSummary" /\ x.kind = k
        /\ x.lecture = call[c].lecture
    BY <1>1 DEF CallRec
  <2>3. call' = [call EXCEPT ![c] = x]
    BY <1>1, <2>1 DEF Types
  <2>4. call[c].pc = "summarize"
    BY <1>3 DEF Summarize, At
  <2> HIDE DEF x
  <2>5. Knows(x)
    BY <1>1, <2>2, <2>4 DEF Knows, OfLecture
  <2> QED
    BY <2>2, <2>3, <2>4, <2>5, Moves
<1>4. ASSUME FindSummary(c)
      PROVE  /\ OneMoves(c) /\ call[c].pc = "findSummary"
             /\ call'[c].pc = "keepSummary"
             /\ call'[c].lecture = call[c].lecture
             /\ call'[c].found = (summary[call[c].lecture] # "none")
  <2> DEFINE b == summary[call[c].lecture] # "none"
             x == [call[c] EXCEPT !.pc = "keepSummary", !.found = b]
  <2>1. call' = [call EXCEPT ![c].pc = "keepSummary", ![c].found = b]
    BY <1>4 DEF FindSummary
  <2>2. b \in BOOLEAN
    OBVIOUS
  <2>4. call[c].pc = "findSummary"
    BY <1>4 DEF FindSummary, At
  <2> HIDE DEF b
  <2>3. /\ x \in CallRec /\ x.pc = "keepSummary" /\ x.found = b
        /\ x.kind = call[c].kind /\ x.lecture = call[c].lecture
    BY <1>1, <2>2 DEF CallRec
  <2>5. call' = [call EXCEPT ![c] = x]
    BY <1>1, <2>1 DEF Types
  <2> HIDE DEF x
  <2>6. Knows(x)
    BY <1>1, <2>3, <2>4 DEF Knows, OfLecture
  <2>7. OneMoves(c) /\ call'[c] = x
    BY <2>5, <2>6, Moves
  <2> QED
    BY <2>3, <2>4, <2>7 DEF b
<1>5. ASSUME KeepSummary(c)
      PROVE  /\ OneMoves(c) /\ call[c].pc = "keepSummary"
             /\ call'[c].pc = "idle"
  BY <1>5, Returns DEF KeepSummary, At
<1> QED
  BY <1>2, <1>3, <1>4, <1>5

(* The questions of a lecture that have cards.                             *)
Known(l) == {card[i].question : i \in {j \in Row : card[j].lecture = l}}

LEMMA CardMoves ==
  ASSUME Types, NEW c \in Caller
  PROVE  /\ MakeCards(c) =>
              /\ OneMoves(c) /\ call[c].pc = "cards"
              /\ call'[c].pc \in {"idle", "findCards"}
              /\ call'[c].pc = "findCards" =>
                   call'[c].lecture = call[c].lecture
         /\ FindCards(c) =>
              /\ OneMoves(c) /\ call[c].pc = "findCards"
              /\ call'[c].pc = "keepCards"
              /\ call'[c].lecture = call[c].lecture
              /\ call'[c].new = {p \in call[c].new :
                                  p[1] \notin Known(call[c].lecture)}
         /\ KeepCards(c) =>
              /\ OneMoves(c) /\ call[c].pc = "keepCards"
              /\ call'[c].pc = "idle"
<1>1. Knows(call[c]) /\ call[c] \in CallRec
  BY DEF Types
<1>2. ASSUME MakeCards(c)
      PROVE  /\ OneMoves(c) /\ call[c].pc = "cards"
             /\ call'[c].pc \in {"idle", "findCards"}
             /\ call'[c].pc = "findCards" =>
                  call'[c].lecture = call[c].lecture
  <2>1. ASSUME NEW qs \in SUBSET Proposal,
               call' = [call EXCEPT ![c].pc = "findCards", ![c].new = qs],
               call[c].pc = "cards"
        PROVE  /\ OneMoves(c) /\ call'[c].pc = "findCards"
               /\ call'[c].lecture = call[c].lecture
    <3> DEFINE x == [call[c] EXCEPT !.pc = "findCards", !.new = qs]
    <3>1. x \in CallRec /\ x.pc = "findCards" /\ x.lecture = call[c].lecture
      BY <1>1 DEF CallRec
    <3>2. call' = [call EXCEPT ![c] = x]
      BY <1>1, <2>1 DEF Types
    <3> HIDE DEF x
    <3>3. Knows(x)
      BY <1>1, <2>1, <3>1 DEF Knows, OfLecture
    <3> QED
      BY <3>1, <3>2, <3>3, Moves
  <2>2. ASSUME NEW most \in [Question -> 0 .. MaxRepeats]
        PROVE  {p \in Proposal : p[2] <= most[p[1]]} \in SUBSET Proposal
    OBVIOUS
  <2> QED
    BY <1>2, <2>1, <2>2, Returns DEF MakeCards, At
<1>3. ASSUME FindCards(c)
      PROVE  /\ OneMoves(c) /\ call[c].pc = "findCards"
             /\ call'[c].pc = "keepCards"
             /\ call'[c].lecture = call[c].lecture
             /\ call'[c].new = {p \in call[c].new :
                                  p[1] \notin Known(call[c].lecture)}
  <2> DEFINE qs == {p \in call[c].new : p[1] \notin Known(call[c].lecture)}
             x == [call[c] EXCEPT !.pc = "keepCards", !.new = qs]
  <2>1. /\ call' = [call EXCEPT ![c].pc = "keepCards",
                      ![c].new = {p \in @ :
                                    p[1] \notin Known(call[c].lecture)}]
        /\ call[c].pc = "findCards"
    BY <1>3, Zenon DEF FindCards, Known, At
  <2>2. qs \in SUBSET Proposal
    BY <1>1 DEF CallRec
  <2> HIDE DEF qs
  <2>3. /\ x \in CallRec /\ x.pc = "keepCards" /\ x.new = qs
        /\ x.lecture = call[c].lecture
    BY <1>1, <2>2 DEF CallRec
  <2>4. call' = [call EXCEPT ![c] = x]
    BY <1>1, <2>1 DEF Types, qs
  <2> HIDE DEF x
  <2>5. Knows(x)
    BY <1>1, <2>1, <2>3 DEF Knows, OfLecture
  <2>6. OneMoves(c) /\ call'[c] = x
    BY <2>4, <2>5, Moves
  <2> QED
    BY <2>1, <2>3, <2>6 DEF qs
<1>4. ASSUME KeepCards(c)
      PROVE  /\ OneMoves(c) /\ call[c].pc = "keepCards"
             /\ call'[c].pc = "idle"
  BY <1>4, Returns DEF KeepCards, At
<1> QED
  BY <1>2, <1>3, <1>4

LEMMA QuizMoves ==
  ASSUME Types, NEW c \in Caller
  PROVE  /\ MakeQuiz(c) =>
              /\ OneMoves(c) /\ call[c].pc = "quiz"
              /\ call'[c].pc \in {"idle", "keepQuiz"}
         /\ KeepQuiz(c) =>
              /\ OneMoves(c) /\ call[c].pc = "keepQuiz"
              /\ call'[c].pc = "keepQuestions"
              /\ call'[c].card \in Quiz
              /\ quiz' = [quiz EXCEPT ![call'[c].card] = "empty"]
         /\ KeepQuestions(c) \/ SubmitQuiz(c) =>
              /\ OneMoves(c)
              /\ KeepQuestions(c) => call[c].pc = "keepQuestions"
              /\ SubmitQuiz(c) => call[c].pc = "submit"
              /\ call'[c].pc = "idle"
<1>1. Knows(call[c]) /\ call[c] \in CallRec
  BY DEF Types
<1>2. MakeQuiz(c) => /\ OneMoves(c) /\ call[c].pc = "quiz"
                     /\ call'[c].pc \in {"idle", "keepQuiz"}
  BY GoesTo, Returns DEF MakeQuiz, At
<1>3. ASSUME KeepQuiz(c)
      PROVE  /\ OneMoves(c) /\ call[c].pc = "keepQuiz"
             /\ call'[c].pc = "keepQuestions"
             /\ call'[c].card \in Quiz
             /\ quiz' = [quiz EXCEPT ![call'[c].card] = "empty"]
  <2>1. PICK i \in Quiz :
          /\ quiz' = [quiz EXCEPT ![i] = "empty"]
          /\ call' = [call EXCEPT ![c].pc = "keepQuestions", ![c].card = i]
    BY <1>3 DEF KeepQuiz
  <2> DEFINE x == [call[c] EXCEPT !.pc = "keepQuestions", !.card = i]
  <2>2. x \in CallRec /\ x.pc = "keepQuestions" /\ x.card = i
    <3>1. i \in Nat
      BY DEF Quiz
    <3> QED
      BY <1>1, <3>1 DEF CallRec
  <2>3. call' = [call EXCEPT ![c] = x]
    BY <1>1, <2>1 DEF Types
  <2> HIDE DEF x
  <2>4. Knows(x)
    BY <2>2 DEF Knows, OfLecture
  <2> QED
    <3>1. OneMoves(c) /\ call'[c] = x
      BY <2>3, <2>4, Moves
    <3>2. call'[c].card = i
      BY <2>2, <3>1
    <3>3. quiz' = [quiz EXCEPT ![call'[c].card] = "empty"]
      BY <2>1, <3>2
    <3>4. call[c].pc = "keepQuiz"
      BY <1>3 DEF KeepQuiz, At
    <3> QED
      BY <2>2, <3>1, <3>2, <3>3, <3>4
<1>4. KeepQuestions(c) \/ SubmitQuiz(c) =>
        /\ OneMoves(c)
        /\ KeepQuestions(c) => call[c].pc = "keepQuestions"
        /\ SubmitQuiz(c) => call[c].pc = "submit"
        /\ call'[c].pc = "idle"
  BY Returns DEF KeepQuestions, SubmitQuiz, At
<1> QED
  BY <1>2, <1>3, <1>4

LEMMA ReviewMoves ==
  ASSUME Types, NEW c \in Caller
  PROVE  /\ ReadCard(c) =>
              /\ OneMoves(c) /\ call[c].pc = "review"
              /\ call'[c].pc \in {"idle", "keepReview"}
         /\ KeepReview(c) =>
              /\ OneMoves(c) /\ call[c].pc = "keepReview"
              /\ call'[c].pc = "idle"
<1>1. Knows(call[c]) /\ call[c] \in CallRec
  BY DEF Types
<1>2. ASSUME ReadCard(c)
      PROVE  /\ OneMoves(c) /\ call[c].pc = "review"
             /\ call'[c].pc \in {"idle", "keepReview"}
  <2>1. call[c].pc = "review"
    BY <1>2 DEF ReadCard, At
  <2>2. CASE call[c].card \in Row
    <3> DEFINE o == card[call[c].card]
               x == [call[c] EXCEPT !.pc = "keepReview", !.old = o]
    <3>1. o \in CardRec /\ o.reps >= 0 /\ Scheduled(o)
      BY <2>2 DEF Types, SoundCards, Row
    <3>2. call' = [call EXCEPT ![c].pc = "keepReview", ![c].old = o]
      BY <1>2, <2>2 DEF ReadCard
    <3> HIDE DEF o
    <3>3. x \in CallRec /\ x.pc = "keepReview" /\ x.old = o
      BY <1>1, <3>1 DEF CallRec
    <3>4. call' = [call EXCEPT ![c] = x]
      BY <1>1, <3>2 DEF Types
    <3> HIDE DEF x
    <3>5. Knows(x)
      BY <3>1, <3>3 DEF Knows, OfLecture
    <3> QED
      BY <2>1, <3>3, <3>4, <3>5, Moves
  <2>3. CASE call[c].card \notin Row
    BY <1>2, <2>1, <2>3, Returns DEF ReadCard
  <2> QED
    BY <2>2, <2>3
<1>3. KeepReview(c) => /\ OneMoves(c) /\ call[c].pc = "keepReview"
                       /\ call'[c].pc = "idle"
  BY Returns DEF KeepReview, At
<1> QED
  BY <1>2, <1>3

-----------------------------------------------------------------------------
(* The cards.                                                              *)

(* A lecture that is deleted leaves its cards without one.                 *)
LEMMA CardsOfDeleted ==
  ASSUME Types, NEW l \in Lecture, DeleteLecture(l)
  PROVE  /\ SoundCards(card')
         /\ \A i \in Card :
              /\ card'[i].reps = card[i].reps
              /\ card'[i].question = card[i].question
              /\ card'[i].lecture = (IF card[i].lecture = l THEN NoLecture
                                    ELSE card[i].lecture)
<1> DEFINE x(i) == [card[i] EXCEPT !.lecture = NoLecture]
<1>1. card' = [i \in Card |-> IF card[i].lecture = l THEN x(i) ELSE card[i]]
  BY DEF DeleteLecture
<1>2. ASSUME NEW i \in Card
      PROVE  /\ x(i) \in CardRec /\ x(i).lecture = NoLecture
             /\ x(i).reps = card[i].reps /\ x(i).question = card[i].question
             /\ x(i).ease = card[i].ease
             /\ x(i).interval = card[i].interval
  <2>1. card[i] \in CardRec
    BY DEF Types, SoundCards
  <2> QED
    BY <2>1 DEF CardRec
<1> HIDE DEF x
<1>3. \A i \in Card : card[i] \in CardRec
                      /\ (card[i].reps >= 0 => Scheduled(card[i]))
  BY DEF Types, SoundCards
<1>4. \A i \in Card : card'[i] = (IF card[i].lecture = l THEN x(i)
                                 ELSE card[i])
  BY <1>1
<1>5. card' \in [Card -> CardRec]
  BY <1>1, <1>2, <1>3
<1>6. \A i \in Card : card'[i].reps >= 0 => Scheduled(card'[i])
  BY <1>2, <1>3, <1>4 DEF Scheduled
<1> QED
  BY <1>2, <1>4, <1>5, <1>6 DEF SoundCards

(* The new cards are those of the questions, each of them once.            *)
LEMMA CardsKept ==
  ASSUME Types, NEW c \in Caller, KeepCards(c)
  PROVE  \/ UNCHANGED card
         \/ /\ Exists(call[c].lecture) /\ call[c].lecture \in Lecture
            /\ SoundCards(card')
            /\ \E ids \in SUBSET Free : \E q \in [ids -> call[c].new] :
                 /\ \A i, k \in ids : q[i] = q[k] => i = k
                 /\ \A i \in ids :
                      card'[i] = NewCard(q[i][1], call[c].lecture)
                 /\ \A i \in Card \ ids : card'[i] = card[i]
<1> DEFINE l == call[c].lecture
           qs == call[c].new
<1>1. l \in Lecture /\ qs \in SUBSET Proposal
  BY DEF Types, Knows, KeepCards, At, OfLecture, CallRec
<1>2. CASE ~Exists(l) \/ qs = {}
  BY <1>2 DEF KeepCards
<1>3. CASE Exists(l) /\ qs # {}
  <2>0. PICK ids \in SUBSET Free : \E q \in [ids -> qs] :
          /\ \A i, k \in ids : q[i] = q[k] => i = k
          /\ card' = [i \in Card |->
               IF i \in ids THEN NewCard(q[i][1], l) ELSE card[i]]
    BY <1>3 DEF KeepCards
  <2>1. PICK q \in [ids -> qs] :
          /\ \A i, k \in ids : q[i] = q[k] => i = k
          /\ card' = [i \in Card |->
               IF i \in ids THEN NewCard(q[i][1], l) ELSE card[i]]
    BY <2>0
  <2> HIDE DEF l, qs
  <2>2. ids \subseteq Card
    BY DEF Free
  <2>3. \A i \in ids : q[i][1] \in Question
    BY <1>1 DEF Proposal
  <2>4. /\ \A i \in ids : card'[i] = NewCard(q[i][1], l)
        /\ \A i \in Card \ ids : card'[i] = card[i]
    BY <2>1, <2>2
  <2>5. \A i \in ids : /\ NewCard(q[i][1], l) \in CardRec
                       /\ Scheduled(NewCard(q[i][1], l))
    BY <1>1, <2>3, NewCardType
  <2>6. card \in [Card -> CardRec]
        /\ \A i \in Card : card[i].reps >= 0 => Scheduled(card[i])
    BY DEF Types, SoundCards
  <2>7. card' \in [Card -> CardRec]
    BY <2>1, <2>5, <2>6
  <2>8. \A i \in Card : card'[i].reps >= 0 => Scheduled(card'[i])
    BY <2>4, <2>5, <2>6
  <2>9. SoundCards(card')
    BY <2>7, <2>8 DEF SoundCards
  <2> QED
    BY <1>1, <1>3, <2>1, <2>4, <2>9 DEF l, qs
<1> QED
  BY <1>2, <1>3

(* A review changes the schedule of a card, and keeps it sound.            *)
LEMMA CardReviewed ==
  ASSUME Types, NEW c \in Caller, KeepReview(c)
  PROVE  /\ SoundCards(card')
         /\ \A i \in Card :
              /\ card'[i].question = card[i].question
              /\ card'[i].lecture = card[i].lecture
              /\ card'[i].reps >= 0 <=> card[i].reps >= 0
<1> DEFINE i == call[c].card
           o == call[c].old
<1>1. /\ card \in [Card -> CardRec]
      /\ \A k \in Card : card[k].reps >= 0 => Scheduled(card[k])
  BY DEF Types, SoundCards
<1>2. o \in CardRec /\ o.reps >= 0 /\ Scheduled(o)
  BY DEF Types, Knows, KeepReview, At, CallRec
<1>3. PICK q \in Quality :
        card' = IF i \in Row /\ Reviewed(o, q).interval <= MaxInterval
                THEN [card EXCEPT ![i].ease = Reviewed(o, q).ease,
                       ![i].interval = Reviewed(o, q).interval,
                       ![i].reps = Reviewed(o, q).reps]
                ELSE card
  BY DEF KeepReview
<1> HIDE DEF i, o
<1>4. CASE ~(i \in Row /\ Reviewed(o, q).interval <= MaxInterval)
  BY <1>1, <1>3, <1>4 DEF SoundCards
<1>5. CASE i \in Row /\ Reviewed(o, q).interval <= MaxInterval
  <2> DEFINE r == Reviewed(o, q)
  <2>1. q \in 0 .. 5
    BY StudyAssumption
  <2>2. /\ r.ease \in Int /\ r.interval \in Int /\ r.reps \in Int
        /\ r.reps >= 0 /\ Scheduled(r)
    BY <1>2, <1>5, <2>1, ReviewSound
  <2>3. /\ card' = [card EXCEPT ![i].ease = r.ease,
                       ![i].interval = r.interval, ![i].reps = r.reps]
        /\ i \in Card /\ card[i] \in CardRec /\ card[i].reps >= 0
    BY <1>1, <1>3, <1>5 DEF Row
  <2> HIDE DEF r
  <2> DEFINE y == [card[i] EXCEPT !.ease = r.ease, !.interval = r.interval,
                                  !.reps = r.reps]
  <2>4. /\ y \in CardRec /\ y.ease = r.ease /\ y.interval = r.interval
        /\ y.reps = r.reps /\ y.question = card[i].question
        /\ y.lecture = card[i].lecture
    BY <2>2, <2>3 DEF CardRec
  <2>5. card' = [card EXCEPT ![i] = y]
    BY <1>1, <2>3
  <2> HIDE DEF y
  <2>6. Scheduled(y)
    BY <2>2, <2>4 DEF Scheduled
  <2>7. /\ card' \in [Card -> CardRec] /\ card'[i] = y
        /\ \A k \in Card : k # i => card'[k] = card[k]
    BY <1>1, <2>3, <2>4, <2>5
  <2>8. SoundCards(card')
    BY <1>1, <2>6, <2>7 DEF SoundCards
  <2> QED
    BY <2>2, <2>3, <2>4, <2>7, <2>8
<1> QED
  BY <1>4, <1>5

(* What a restore creates are sound cards.                                 *)
LEMMA CardsRestored ==
  ASSUME Types, FileTypes, Commit
  PROVE  /\ SoundCards(card')
         /\ \A i \in Card :
              LET r == file.data.card[i]
              IN  IF /\ r.reps >= 0
                     /\ \/ r.lecture = NoLecture
                        \/ HadLecture(file.data, r.lecture)
                  THEN card'[i] = r ELSE card'[i].reps < 0
<1>1. card' = [i \in Card |-> RestoredCard(file.data, i)]
  BY DEF Commit
<1>2. SoundCards(file.data.card)
  BY DEF FileTypes, SoundData
<1>3. ASSUME NEW i \in Card
      PROVE  LET r == file.data.card[i]
             IN  /\ card'[i] \in CardRec
                 /\ IF /\ r.reps >= 0
                       /\ \/ r.lecture = NoLecture
                          \/ HadLecture(file.data, r.lecture)
                    THEN card'[i] = r ELSE card'[i].reps < 0
  BY <1>1, <1>2, NoCardType DEF RestoredCard, SoundCards
<1>4. SoundCards(card')
  <2>1. card' \in [Card -> CardRec]
    BY <1>1, <1>3
  <2>2. \A i \in Card : card'[i].reps >= 0 => Scheduled(card'[i])
    BY <1>2, <1>3 DEF SoundCards, CardRec
  <2> QED
    BY <2>1, <2>2 DEF SoundCards
<1> QED
  BY <1>3, <1>4

-----------------------------------------------------------------------------
(* Rows, handlers, file and job stay in their domains.                     *)

LEMMA AllKnow ==
  ASSUME Types, NEW c \in Caller, OneMoves(c)
  PROVE  call' \in [Caller -> CallRec] /\ \A d \in Caller : Knows(call'[d])
BY DEF Types, OneMoves

(* Every handler moves alone.                                              *)
LEMMA ServesMoves ==
  ASSUME Types, NEW c \in Caller, Call(c) \/ Serves(c)
  PROVE  OneMoves(c)
<1>1. CASE Call(c)
  BY <1>1, CallMoves
<1>2. CASE GetSummary(c) \/ Summarize(c) \/ FindSummary(c) \/ KeepSummary(c)
  BY <1>2, SummaryMoves
<1>3. CASE MakeCards(c) \/ FindCards(c) \/ KeepCards(c)
  BY <1>3, CardMoves
<1>4. CASE MakeQuiz(c) \/ KeepQuiz(c) \/ KeepQuestions(c) \/ SubmitQuiz(c)
  BY <1>4, QuizMoves
<1>5. CASE ReadCard(c) \/ KeepReview(c)
  BY <1>5, ReviewMoves
<1> QED
  BY <1>1, <1>2, <1>3, <1>4, <1>5 DEF Serves

LEMMA LectureTypes ==
  ASSUME Types, NEW l \in Lecture,
         CreateLecture(l) \/ Transcribe(l) \/ DeleteLecture(l)
  PROVE  Types'
<1>1. CASE CreateLecture(l)
  BY <1>1 DEF CreateLecture, Bounds, Types, LectureState
<1>2. CASE Transcribe(l)
  BY <1>2 DEF Transcribe, Bounds, Types, LectureState
<1>3. CASE DeleteLecture(l)
  <2>1. SoundCards(card')
    BY <1>3, CardsOfDeleted
  <2>2. segs' \in SUBSET Lecture
    BY <1>3 DEF DeleteLecture, Types
  <2> QED
    BY <1>3, <2>1, <2>2 DEF DeleteLecture, Bounds, Types, LectureState
<1> QED
  BY <1>1, <1>2, <1>3

LEMMA HandlerTypes ==
  ASSUME Types, NEW c \in Caller, Call(c) \/ Serves(c)
  PROVE  Types'
<1>1. call' \in [Caller -> CallRec] /\ \A d \in Caller : Knows(call'[d])
  BY ServesMoves, AllKnow
<1>2. ASSUME UNCHANGED <<lecture, segs, crashes, wiped>>,
             summary' \in [Lecture -> {"none", "ai", "extract"}],
             SoundCards(card'),
             quiz' \in [Quiz -> {"none", "empty", "whole", "gone"}],
             asked' \in [Lecture -> Nat]
      PROVE  Types'
  BY <1>1, <1>2 DEF Types
<1>3. CASE UNCHANGED <<tables, crashes, asked, wiped>>
  BY <1>2, <1>3 DEF tables, Types
<1>4. CASE Summarize(c)
  <2>1. asked' \in [Lecture -> Nat]
    <3>1. call[c].lecture \in Lecture
      BY <1>4 DEF Summarize, At, Types, Knows, OfLecture
    <3> QED
      BY <1>4, <3>1 DEF Summarize, Types
  <2> QED
    BY <1>2, <1>4, <2>1 DEF Summarize, Bounds, tables, Types
<1>5. CASE KeepSummary(c)
  <2>1. call[c].kind \in {"none", "ai", "extract"}
    BY DEF Types, CallRec
  <2>2. summary' \in [Lecture -> {"none", "ai", "extract"}]
    BY <1>5, <2>1 DEF KeepSummary, Types
  <2> QED
    BY <1>2, <1>5, <2>2 DEF KeepSummary, Bounds, Types
<1>6. CASE KeepCards(c)
  BY <1>2, <1>6, CardsKept DEF KeepCards, Bounds, Types
<1>7. CASE KeepReview(c)
  BY <1>2, <1>7, CardReviewed DEF KeepReview, Bounds, Types
<1>8. CASE KeepQuiz(c) \/ KeepQuestions(c)
  <2>1. quiz' \in [Quiz -> {"none", "empty", "whole", "gone"}]
    BY <1>8 DEF KeepQuiz, KeepQuestions, Types
  <2> QED
    BY <1>2, <1>8, <2>1 DEF KeepQuiz, KeepQuestions, Bounds, Types
<1>9. CASE Call(c)
  BY <1>3, <1>9 DEF Call
<1>10. CASE GetSummary(c) \/ FindSummary(c) \/ MakeCards(c) \/ FindCards(c)
            \/ MakeQuiz(c) \/ SubmitQuiz(c) \/ ReadCard(c)
  BY <1>3, <1>10 DEF GetSummary, FindSummary, MakeCards, FindCards, MakeQuiz,
     SubmitQuiz, ReadCard, Bounds
<1> QED
  BY <1>4, <1>5, <1>6, <1>7, <1>8, <1>9, <1>10 DEF Serves

LEMMA CommitTypes == ASSUME Types, FileTypes, Commit PROVE Types'
<1>1. SoundCards(card')
  BY CardsRestored
<1>2. /\ file.data.lecture \in [Lecture -> LectureState]
      /\ file.data.segs \in SUBSET Lecture
  BY DEF FileTypes, SoundData, Data
<1>3. lecture' \in [Lecture -> LectureState]
  BY <1>2 DEF Commit, RestoredLecture, LectureState
<1>4. segs' \in SUBSET Lecture
  BY <1>2 DEF Commit
<1>5. /\ summary' \in [Lecture -> {"none", "ai", "extract"}]
      /\ quiz' \in [Quiz -> {"none", "empty", "whole", "gone"}]
      /\ wiped' \in BOOLEAN
  BY DEF Commit
<1>6. UNCHANGED <<call, crashes, asked>>
  BY DEF Commit
<1> QED
  BY <1>1, <1>3, <1>4, <1>5, <1>6 DEF Types

LEMMA DieTypes == ASSUME Types, Die PROVE Types'
<1>1. call' = [c \in Caller |-> Quiet] /\ crashes' = crashes + 1
  BY DEF Die
<1>2. call' \in [Caller -> CallRec] /\ \A c \in Caller : Knows(call'[c])
  BY <1>1, QuietKnows DEF Knows
<1>3. UNCHANGED <<lecture, segs, summary, card, quiz, asked, wiped>>
  BY DEF Die, tables
<1> QED
  BY <1>1, <1>2, <1>3 DEF Types

LEMMA TypesStep == ASSUME Types, FileTypes, [Next]_vars PROVE Types'
<1>1. CASE UNCHANGED studyVars
  BY <1>1 DEF studyVars, tables, Types
<1>2. CASE StudyNext
  BY <1>2, LectureTypes, HandlerTypes DEF StudyNext
<1> QED
  BY <1>1, <1>2, CommitTypes, DieTypes
     DEF Next, vars, Studies, StartBackup, StartRestore, Proceeds, ReadTable,
         WriteArchive, LoadArchive, RollBack, RestoreDone, Crash

LEMMA EmptyData ==
  /\ EmptyTables \in Data /\ SoundData(EmptyTables)
  /\ EmptyTables.segs = {}
  /\ \A l \in Lecture : EmptyTables.lecture[l] = "new"
  /\ \A i \in Card : EmptyTables.card[i].reps = -1
<1>1. /\ EmptyTables.lecture = [l \in Lecture |-> "new"]
      /\ EmptyTables.segs = {}
      /\ EmptyTables.card = [i \in Card |-> NoCard]
      /\ EmptyTables = [lecture |-> EmptyTables.lecture,
                        segs |-> EmptyTables.segs,
                        card |-> EmptyTables.card]
  BY DEF EmptyTables
<1>2. SoundCards(EmptyTables.card)
  BY <1>1, NoCardType DEF SoundCards
<1>3. EmptyTables \in Data
  BY <1>1, <1>2 DEF Data, LectureState, SoundCards
<1> QED
  BY <1>1, <1>2, <1>3, NoCardType DEF SoundData

LEMMA TablesSound ==
  ASSUME Types
  PROVE  /\ Tables \in Data /\ SoundData(Tables)
         /\ Tables.lecture = lecture /\ Tables.segs = segs
         /\ Tables.card = card
BY DEF Types, Tables, Data, SoundData, SoundCards

(* Reading one table, as it is, into what was read before.                 *)
LEMMA OneTable ==
  ASSUME NEW d \in Data, NEW e \in Data, NEW t \in Table
  PROVE  LET f == [d EXCEPT ![t] = e[t]]
         IN  /\ f \in Data /\ f[t] = e[t]
             /\ \A s \in Table \ {t} : f[s] = d[s]
             /\ SoundData(d) /\ SoundData(e) => SoundData(f)
<1>1. CASE t = "lecture"
  BY <1>1 DEF Data, Table, SoundData
<1>2. CASE t = "segs"
  BY <1>2 DEF Data, Table, SoundData
<1>3. CASE t = "card"
  BY <1>3 DEF Data, Table, SoundData
<1> QED
  BY <1>1, <1>2, <1>3 DEF Table

(* Two sets of tables are the same if each of them is.                     *)
LEMMA SameData ==
  ASSUME NEW d \in Data, NEW e \in Data, \A t \in Table : d[t] = e[t]
  PROVE  d = e
BY DEF Data, Table

(* A job, and the file, by their parts.                                    *)
JobIs(j, pc, todo, data, was) ==
  j = [pc |-> pc, todo |-> todo, data |-> data, was |-> was]

LEMMA NoJobIs == JobIs(NoJob, "idle", {}, EmptyTables, {})
BY DEF NoJob, JobIs

LEMMA TypedJob ==
  ASSUME NEW j, NEW todo \in SUBSET Table, NEW data, SoundData(data),
         NEW was \in SUBSET Data,
         NEW pc \in {"idle", "read", "write", "load", "commit", "restored"},
         JobIs(j, pc, todo, data, was)
  PROVE  /\ j = [pc |-> j.pc, todo |-> j.todo, data |-> j.data,
                 was |-> j.was]
         /\ j.pc \in {"idle", "read", "write", "load", "commit", "restored"}
         /\ j.todo \in SUBSET Table
         /\ SoundData(j.data) /\ j.was \in SUBSET Data
BY DEF JobIs

(* What the steps make of the job.                                         *)
LEMMA JobSteps ==
  ASSUME Types, FileTypes
  PROVE  /\ StartBackup =>
              JobIs(job', "read", Table, EmptyTables, {Tables})
         /\ StartRestore => JobIs(job', "load", {}, EmptyTables, {})
         /\ WriteArchive => JobIs(job', "idle", {}, EmptyTables, {})
         /\ LoadArchive =>
              \/ file.kind = "torn" /\ JobIs(job', "idle", {}, EmptyTables, {})
              \/ /\ file.kind # "torn"
                 /\ JobIs(job', "commit", job.todo, job.data, job.was)
         /\ Commit => JobIs(job', "restored", {}, EmptyTables, {})
         /\ RollBack \/ RestoreDone \/ Crash =>
              JobIs(job', "idle", {}, EmptyTables, {})
         /\ Seen => \/ /\ job.pc = "read" /\ Tables' # Tables
                       /\ JobIs(job', job.pc, job.todo, job.data, {})
                    \/ /\ job.pc = "read" => Tables' = Tables
                       /\ job' = job
<1> USE NoJobIs DEF JobIs
<1>1. StartBackup => JobIs(job', "read", Table, EmptyTables, {Tables})
  BY DEF StartBackup, Begin
<1>2. StartRestore => JobIs(job', "load", {}, EmptyTables, {})
  BY DEF StartRestore, Begin
<1>3. WriteArchive => JobIs(job', "idle", {}, EmptyTables, {})
  BY DEF WriteArchive
<1>4. LoadArchive =>
        \/ file.kind = "torn" /\ JobIs(job', "idle", {}, EmptyTables, {})
        \/ /\ file.kind # "torn"
           /\ JobIs(job', "commit", job.todo, job.data, job.was)
  BY DEF LoadArchive, FileTypes
<1>5. Commit => JobIs(job', "restored", {}, EmptyTables, {})
  BY DEF Commit
<1>6. RollBack \/ RestoreDone \/ Crash =>
        JobIs(job', "idle", {}, EmptyTables, {})
  BY DEF RollBack, RestoreDone, Crash
<1>7. Seen => \/ /\ job.pc = "read" /\ Tables' # Tables
                 /\ JobIs(job', job.pc, job.todo, job.data, {})
              \/ /\ job.pc = "read" => Tables' = Tables
                 /\ job' = job
  BY DEF Seen, FileTypes
<1> QED
  BY <1>1, <1>2, <1>3, <1>4, <1>5, <1>6, <1>7

LEMMA ReadStep ==
  ASSUME Types, FileTypes, ReadTable
  PROVE  \E t \in job.todo : \E d \in Data :
           /\ JobIs(job', IF job.todo = {t} THEN "write" ELSE "read",
                    job.todo \ {t}, d, job.was)
           /\ SoundData(d) /\ d[t] = Tables[t]
           /\ \A s \in Table \ {t} : d[s] = job.data[s]
<1>1. PICK t \in job.todo :
        job' = [job EXCEPT !.todo = @ \ {t},
                  !.data = [@ EXCEPT ![t] = Tables[t]],
                  !.pc = IF job.todo = {t} THEN "write" ELSE "read"]
  BY DEF ReadTable
<1>2. /\ job.data \in Data /\ SoundData(job.data) /\ t \in Table
      /\ job = [pc |-> job.pc, todo |-> job.todo, data |-> job.data,
                was |-> job.was]
  BY DEF FileTypes, SoundData
<1> DEFINE d == [job.data EXCEPT ![t] = Tables[t]]
           pc == IF job.todo = {t} THEN "write" ELSE "read"
<1>3. /\ d \in Data /\ d[t] = Tables[t] /\ SoundData(d)
      /\ \A s \in Table \ {t} : d[s] = job.data[s]
  BY <1>2, TablesSound, OneTable
<1>4. JobIs(job', pc, job.todo \ {t}, d, job.was)
  <2>1. job' = [job EXCEPT !.todo = job.todo \ {t}, !.data = d, !.pc = pc]
    BY <1>1, <1>2
  <2> HIDE DEF d, pc
  <2> QED
    BY <1>2, <2>1 DEF JobIs
<1> HIDE DEF d
<1> QED
  BY <1>3, <1>4

LEMMA FilesStep == ASSUME Types, FileTypes, [Next]_vars PROVE FileTypes'
<1>1. /\ job.todo \in SUBSET Table /\ SoundData(job.data)
      /\ job.was \in SUBSET Data
      /\ job.pc \in {"idle", "read", "write", "load", "commit", "restored"}
  BY DEF FileTypes
<1>2. ASSUME NEW todo \in SUBSET Table, NEW data, SoundData(data),
             NEW was \in SUBSET Data,
             NEW pc \in {"idle", "read", "write", "load", "commit",
                         "restored"},
             JobIs(job', pc, todo, data, was), UNCHANGED file
      PROVE  FileTypes'
  <2>1. /\ job' = [pc |-> job'.pc, todo |-> job'.todo, data |-> job'.data,
                   was |-> job'.was]
        /\ job'.pc \in {"idle", "read", "write", "load", "commit",
                        "restored"}
        /\ job'.todo \in SUBSET Table
        /\ SoundData(job'.data) /\ job'.was \in SUBSET Data
    BY <1>2, TypedJob
  <2> QED
    BY <1>2, <2>1 DEF FileTypes
<1>3. CASE UNCHANGED <<file, job>>
  BY <1>3 DEF FileTypes
<1>4. CASE Studies
  <2>1. Seen /\ UNCHANGED file
    BY <1>4 DEF Studies, Seen
  <2>2. CASE JobIs(job', job.pc, job.todo, job.data, {})
    BY <1>1, <1>2, <2>1, <2>2
  <2> QED
    BY <1>3, <2>1, <2>2, JobSteps
<1>5. CASE StartBackup
  <2>1. {Tables} \in SUBSET Data /\ UNCHANGED file
    BY <1>5, TablesSound DEF StartBackup
  <2> QED
    BY <1>2, <1>5, <2>1, EmptyData, JobSteps
<1>6. CASE StartRestore \/ RollBack \/ RestoreDone \/ Commit
  <2>1. UNCHANGED file
    BY <1>6 DEF StartRestore, RollBack, RestoreDone, Commit
  <2> QED
    BY <1>2, <1>6, <2>1, EmptyData, JobSteps
<1>7. CASE LoadArchive
  <2>1. UNCHANGED file
    BY <1>7 DEF LoadArchive
  <2> QED
    BY <1>1, <1>2, <1>7, <2>1, EmptyData, JobSteps
<1>8. CASE ReadTable
  <2>1. UNCHANGED file
    BY <1>8 DEF ReadTable
  <2>2. PICK t \in job.todo : \E d \in Data :
          /\ JobIs(job', IF job.todo = {t} THEN "write" ELSE "read",
                   job.todo \ {t}, d, job.was)
          /\ SoundData(d)
    BY <1>8, ReadStep
  <2> QED
    BY <1>1, <1>2, <2>1, <2>2
<1>9. ASSUME file' \in {Torn, Written},
             JobIs(job', "idle", {}, EmptyTables, {})
      PROVE  FileTypes'
  <2>1. /\ file' = [kind |-> file'.kind, data |-> file'.data,
                    was |-> file'.was]
        /\ file'.kind \in {"none", "torn", "whole"}
        /\ SoundData(file'.data) /\ file'.was \in SUBSET Data
    BY <1>1, <1>9, EmptyData DEF Torn, NoFile, Written
  <2>2. /\ job' = [pc |-> job'.pc, todo |-> job'.todo, data |-> job'.data,
                   was |-> job'.was]
        /\ job'.pc \in {"idle", "read", "write", "load", "commit",
                        "restored"}
        /\ job'.todo \in SUBSET Table
        /\ SoundData(job'.data) /\ job'.was \in SUBSET Data
    BY <1>9, EmptyData, TypedJob
  <2> QED
    BY <2>1, <2>2 DEF FileTypes
<1>10. CASE WriteArchive
  BY <1>9, <1>10, JobSteps DEF WriteArchive
<1>11. CASE Crash
  BY <1>2, <1>9, <1>11, EmptyData, JobSteps DEF Crash
<1> QED
  BY <1>3, <1>4, <1>5, <1>6, <1>7, <1>8, <1>10, <1>11
     DEF Next, Proceeds, vars, backupVars

LEMMA TypesInit == ASSUME Init PROVE Types /\ FileTypes
<1>1. /\ lecture = [l \in Lecture |-> "new"] /\ segs = {}
      /\ summary = [l \in Lecture |-> "none"]
      /\ card = [i \in Card |-> NoCard] /\ quiz = [i \in Quiz |-> "none"]
      /\ call = [c \in Caller |-> Quiet] /\ crashes = 0
      /\ asked = [l \in Lecture |-> 0] /\ wiped = FALSE
      /\ file = NoFile /\ job = NoJob
  BY DEF Init, StudyInit
<1>2. SoundCards(card)
  BY <1>1, NoCardType DEF SoundCards
<1>3. call \in [Caller -> CallRec] /\ \A c \in Caller : Knows(call[c])
  BY <1>1, QuietKnows DEF Knows
<1>4. Types
  BY <1>1, <1>2, <1>3 DEF Types, LectureState
<1>5. FileTypes
  BY <1>1, EmptyData DEF FileTypes, NoFile, NoJob
<1> QED
  BY <1>4, <1>5

(* Rows, handlers, backups and files stay in their domains, every card     *)
(* with a schedule of SM-2, in the tables, in a handler and in a backup.   *)
THEOREM LibraryTypes == Spec => [](Types /\ FileTypes)
<1>1. (Types /\ FileTypes) /\ [Next]_vars => (Types /\ FileTypes)'
  BY TypesStep, FilesStep
<1> QED
  BY <1>1, TypesInit, PTL DEF Spec

(* No review, race of reviews or restore makes a schedule that SM-2 would  *)
(* not: rounds, intervals and ease factors fit together                    *)
(* (FLASHCARD_REVIEW, restoreBackup).                                      *)
THEOREM SchedulesSound == Spec => []ScheduleSound
<1>1. Types => ScheduleSound
  BY DEF Types, SoundCards, ScheduleSound, Row
<1> QED
  BY <1>1, LibraryTypes, PTL

(* Both copies of SM-2 give every card the same schedule, whatever it was  *)
(* and however it was answered (computeSm2, reviewFlashcard).              *)
THEOREM SchedulesAgree ==
  ASSUME NEW old \in CardRec, NEW q \in 0 .. 5
  PROVE  Reviewed(old, q) = ReviewedInPlace(old, q)
<1>1. CASE q < 3
  BY <1>1 DEF Reviewed, ReviewedInPlace, NextEase, NextInterval, NextReps
<1>2. CASE ~(q < 3)
  BY <1>2 DEF Reviewed, ReviewedInPlace, NextEase, NextInterval, NextReps
<1> QED
  BY <1>1, <1>2

-----------------------------------------------------------------------------
(* What a backup has read, and what a restore makes of it.                 *)

HasLecture ==
  /\ \A l \in segs : Exists(l)
  /\ \A i \in Card : card[i].reps >= 0 =>
       card[i].lecture = NoLecture \/ Exists(card[i].lecture)

LEMMA LinkedIsJoined == Linked(Tables) <=> HasLecture
BY DEF Linked, HasLecture, HadLecture, Exists, Tables

LEMMA LectureJoined ==
  ASSUME Types, HasLecture, NEW l \in Lecture,
         CreateLecture(l) \/ Transcribe(l) \/ DeleteLecture(l)
  PROVE  HasLecture'
<1>1. CASE CreateLecture(l)
  <2>1. \A k : Exists(k) => Exists(k)'
    BY <1>1 DEF CreateLecture, Exists, Types
  <2> QED
    BY <1>1, <2>1 DEF CreateLecture, HasLecture
<1>2. CASE Transcribe(l)
  <2>1. (\A k : Exists(k) => Exists(k)') /\ Exists(l)'
    BY <1>2 DEF Transcribe, Exists, Types
  <2> QED
    BY <1>2, <2>1 DEF Transcribe, HasLecture
<1>3. CASE DeleteLecture(l)
  <2>1. \A k : k # l /\ Exists(k) => Exists(k)'
    BY <1>3 DEF DeleteLecture, Exists, Types
  <2>2. segs' = segs \ {l}
    BY <1>3 DEF DeleteLecture
  <2>3. \A i \in Card :
          /\ card'[i].reps = card[i].reps
          /\ card'[i].lecture = (IF card[i].lecture = l THEN NoLecture
                                ELSE card[i].lecture)
    BY <1>3, CardsOfDeleted
  <2> QED
    BY <2>1, <2>2, <2>3 DEF HasLecture
<1> QED
  BY <1>1, <1>2, <1>3

LEMMA HandlerJoined ==
  ASSUME Types, HasLecture, NEW c \in Caller, Call(c) \/ Serves(c)
  PROVE  HasLecture'
<1>1. UNCHANGED <<lecture, segs>>
  BY DEF Call, Serves, GetSummary, Summarize, FindSummary, KeepSummary,
     MakeCards, FindCards, KeepCards, MakeQuiz, KeepQuiz, KeepQuestions,
     SubmitQuiz, ReadCard, KeepReview, tables
<1>2. \A l : Exists(l)' <=> Exists(l)
  BY <1>1 DEF Exists
<1>3. CASE UNCHANGED card
  BY <1>1, <1>2, <1>3 DEF HasLecture
<1>4. CASE KeepCards(c)
  <2>1. CASE UNCHANGED card
    BY <1>3, <2>1
  <2>2. ASSUME NEW ids \in SUBSET Free, NEW q \in [ids -> call[c].new],
               \A i \in ids : card'[i] = NewCard(q[i][1], call[c].lecture),
               \A i \in Card \ ids : card'[i] = card[i],
               Exists(call[c].lecture), call[c].lecture \in Lecture
        PROVE  HasLecture'
    <3>1. \A p \in call[c].new : p[1] \in Question
      BY DEF Types, CallRec, Proposal
    <3>2. \A i \in ids : card'[i].lecture = call[c].lecture
      BY <2>2, <3>1, NewCardType
    <3> QED
      BY <1>1, <1>2, <2>2, <3>2 DEF HasLecture
  <2> QED
    BY <1>4, <2>1, <2>2, CardsKept
<1>5. CASE KeepReview(c)
  <2>1. \A i \in Card : /\ card'[i].lecture = card[i].lecture
                        /\ card'[i].reps >= 0 <=> card[i].reps >= 0
    BY <1>5, CardReviewed
  <2> QED
    <3>1. ASSUME NEW i \in Card, card'[i].reps >= 0
          PROVE  (card[i].lecture = NoLecture \/ Exists(card[i].lecture))'
      <4>1. card[i].lecture = NoLecture \/ Exists(card[i].lecture)
        BY <2>1, <3>1 DEF HasLecture
      <4>2. card'[i].lecture = card[i].lecture
        BY <2>1
      <4> QED
        BY <1>1, <4>1, <4>2 DEF Exists
    <3>2. \A l \in segs' : Exists(l)'
      BY <1>1 DEF HasLecture, Exists
    <3> QED
      BY <3>1, <3>2 DEF HasLecture
<1> QED
  BY <1>3, <1>4, <1>5
     DEF Call, Serves, GetSummary, Summarize, FindSummary, KeepSummary,
         MakeCards, FindCards, MakeQuiz, KeepQuiz, KeepQuestions, SubmitQuiz,
         ReadCard, tables

(* The lectures of a backup that are created again are those it had.       *)
LEMMA LecturesRestored ==
  ASSUME Types, FileTypes, Commit, NEW l \in Lecture
  PROVE  IF HadLecture(file.data, l) THEN lecture'[l] = file.data.lecture[l]
         ELSE ~Exists(l)'
BY DEF Commit, RestoredLecture, HadLecture, Exists, Types, LectureState

LEMMA CommitJoined == ASSUME Types, FileTypes, Commit PROVE HasLecture'
<1>1. \A l \in Lecture : HadLecture(file.data, l) => Exists(l)'
  BY LecturesRestored DEF HadLecture, Exists
<1>2. /\ segs' = {l \in file.data.segs : HadLecture(file.data, l)}
      /\ file.data.segs \in SUBSET Lecture
      /\ file.data.card \in [Card -> CardRec]
  BY DEF Commit, FileTypes, SoundData, Data
<1>3. ASSUME NEW i \in Card, card'[i].reps >= 0
      PROVE  (card[i].lecture = NoLecture \/ Exists(card[i].lecture))'
  <2> DEFINE r == file.data.card[i]
  <2>1. /\ card'[i] = r
        /\ r.lecture = NoLecture \/ HadLecture(file.data, r.lecture)
    <3>1. card'[i].reps \in Int
      BY CardsRestored DEF SoundCards, CardRec
    <3> QED
      BY <1>3, <3>1, CardsRestored
  <2>2. r.lecture \in Lecture \cup {NoLecture}
    BY <1>2 DEF CardRec
  <2> QED
    BY <1>1, <2>1, <2>2 DEF Exists
<1>4. \A l \in segs' : Exists(l)'
  BY <1>1, <1>2
<1> QED
  BY <1>3, <1>4 DEF HasLecture

LEMMA JoinedStep ==
  ASSUME Types, FileTypes, HasLecture, [Next]_vars PROVE HasLecture'
<1>1. CASE UNCHANGED <<lecture, segs, card>>
  BY <1>1 DEF HasLecture, Exists
<1>2. CASE StudyNext
  BY <1>2, LectureJoined, HandlerJoined DEF StudyNext
<1> QED
  BY <1>1, <1>2, CommitJoined
     DEF Next, vars, Studies, StartBackup, StartRestore, Proceeds, ReadTable,
         WriteArchive, LoadArchive, RollBack, RestoreDone, Crash, Die,
         studyVars, tables

LEMMA FaithfulInit == ASSUME Init PROVE Faithful
<1>1. /\ segs = {} /\ card = [i \in Card |-> NoCard]
      /\ file = NoFile /\ job = NoJob
  BY DEF Init, StudyInit
<1>2. Linked(Tables)
  <2>1. HasLecture
    BY <1>1, NoCardType DEF HasLecture
  <2> QED
    BY <2>1, LinkedIsJoined
<1> QED
  BY <1>1, <1>2 DEF Faithful, NoFile, NoJob

(* A job that has read nothing says nothing about what there was.          *)
LEMMA NothingRead ==
  ASSUME Faithful, Linked(Tables)', UNCHANGED file,
         NEW pc \in {"idle", "load", "commit", "restored"},
         NEW todo, NEW data, JobIs(job', pc, todo, data, {}),
         pc \in {"load", "commit"} => file.kind # "none",
         pc = "commit" => file.kind = "whole"
  PROVE  Faithful'
<1>1. job'.pc = pc /\ job'.was = {}
  BY DEF JobIs
<1> QED
  BY <1>1 DEF Faithful

LEMMA FaithfulStep ==
  ASSUME Types, FileTypes, Faithful, [Next]_vars
  PROVE  Faithful'
<1>1. Linked(Tables)'
  <2>1. HasLecture
    BY LinkedIsJoined DEF Faithful
  <2>2. HasLecture'
    BY <2>1, JoinedStep
  <2> QED
    BY <2>2, LinkedIsJoined, PTL
<1>2. CASE UNCHANGED <<file, job>> /\ (job.pc = "read" => Tables' = Tables)
  BY <1>1, <1>2 DEF Faithful
<1>3. CASE Studies
  <2>1. Seen /\ UNCHANGED file
    BY <1>3 DEF Studies, Seen
  <2>2. CASE job.pc = "read" /\ JobIs(job', job.pc, job.todo, job.data, {})
    <3>1. job'.pc = "read" /\ job'.was = {}
      BY <2>2 DEF JobIs
    <3> QED
      BY <1>1, <2>1, <3>1 DEF Faithful
  <2> QED
    BY <1>2, <2>1, <2>2, JobSteps
<1>4. CASE StartBackup
  <2>1. /\ job'.pc = "read" /\ job'.todo = Table /\ job'.was = {Tables}
        /\ UNCHANGED file
    BY <1>4, JobSteps DEF JobIs, StartBackup
  <2>2. Tables' = Tables
    BY <1>4 DEF StartBackup, studyVars, tables, Tables
  <2> QED
    BY <1>1, <2>1, <2>2 DEF Faithful
<1>5. CASE StartRestore
  BY <1>1, <1>5, JobSteps, NothingRead DEF StartRestore
<1>6. CASE RollBack \/ RestoreDone
  BY <1>1, <1>6, JobSteps, NothingRead DEF RollBack, RestoreDone
<1>7. CASE Commit
  BY <1>1, <1>7, JobSteps, NothingRead DEF Commit
<1>8. CASE LoadArchive
  <2>1. UNCHANGED file /\ job.pc = "load" /\ file.kind # "none"
    BY <1>8 DEF LoadArchive, Faithful
  <2>2. CASE JobIs(job', "idle", {}, EmptyTables, {})
    BY <1>1, <2>1, <2>2, NothingRead
  <2>3. CASE /\ file.kind # "torn"
             /\ JobIs(job', "commit", job.todo, job.data, job.was)
    <3>1. file.kind = "whole"
      BY <2>1, <2>3 DEF FileTypes
    <3>2. /\ job'.pc = "commit" /\ job'.todo = job.todo
          /\ job'.data = job.data /\ job'.was = job.was
      BY <2>3 DEF JobIs
    <3> QED
      BY <1>1, <2>1, <3>1, <3>2 DEF Faithful
  <2> QED
    BY <1>8, <2>2, <2>3, JobSteps
<1>9. CASE ReadTable
  <2>1. UNCHANGED file /\ Tables' = Tables /\ job.pc = "read"
    BY <1>9 DEF ReadTable, studyVars, tables, Tables
  <2>2. PICK t \in job.todo, d \in Data :
          /\ JobIs(job', IF job.todo = {t} THEN "write" ELSE "read",
                   job.todo \ {t}, d, job.was)
          /\ d[t] = Tables[t]
          /\ \A s \in Table \ {t} : d[s] = job.data[s]
    BY <1>9, ReadStep
  <2>3. /\ job'.pc = (IF job.todo = {t} THEN "write" ELSE "read")
        /\ job'.todo = job.todo \ {t} /\ job'.data = d
        /\ job'.was = job.was
    BY <2>2 DEF JobIs
  <2>4. ASSUME NEW was \in job.was
        PROVE  /\ Linked(was) /\ was = Tables
               /\ \A s \in Table \ job'.todo : job'.data[s] = was[s]
    BY <2>1, <2>2, <2>3 DEF Faithful
  <2> QED
    BY <1>1, <2>1, <2>3, <2>4 DEF Faithful
<1>10. \A was \in job.was : job.pc = "write" =>
         Linked(was) /\ job.data = was
  <2>1. ASSUME NEW was \in job.was, job.pc = "write"
        PROVE  Linked(was) /\ job.data = was
    <3>1. /\ Linked(was) /\ \A t \in Table : job.data[t] = was[t]
      BY <2>1 DEF Faithful
    <3>2. job.data \in Data /\ was \in Data
      BY DEF FileTypes, SoundData
    <3> QED
      BY <3>1, <3>2, SameData
  <2> QED
    BY <2>1
<1>11. ASSUME job.pc = "write", file' \in {Torn, Written},
              JobIs(job', "idle", {}, EmptyTables, {})
       PROVE  Faithful'
  <2>1. \A was \in file'.was : Linked(was) /\ file'.data = was
    BY <1>10, <1>11 DEF Torn, NoFile, Written
  <2>2. job'.pc = "idle" /\ job'.was = {}
    BY <1>11 DEF JobIs
  <2> QED
    BY <1>1, <2>1, <2>2 DEF Faithful
<1>12. CASE WriteArchive
  BY <1>11, <1>12, JobSteps DEF WriteArchive
<1>13. CASE Crash
  <2>1. CASE UNCHANGED file
    BY <1>1, <1>13, <2>1, JobSteps, NothingRead
  <2>2. CASE job.pc = "write" /\ file' \in {Torn, Written}
    BY <1>11, <1>13, <2>2, JobSteps
  <2> QED
    BY <1>13, <2>1, <2>2 DEF Crash
<1>14. CASE UNCHANGED vars
  BY <1>2, <1>14 DEF vars, backupVars, studyVars, tables, Tables
<1> QED
  BY <1>3, <1>4, <1>5, <1>6, <1>7, <1>8, <1>9, <1>12, <1>13, <1>14
     DEF Next, Proceeds

(* A backup during which nothing was written is one moment of the tables,  *)
(* whose segments and cards have their lectures, and a file that a restore *)
(* reads is whole.                                                         *)
LEMMA FaithfulInvariance == Spec => []Faithful
<1>1. Types /\ FileTypes /\ Faithful /\ [Next]_vars => Faithful'
  BY FaithfulStep
<1> QED
  BY <1>1, FaithfulInit, LibraryTypes, PTL DEF Spec

(* A backup that nobody disturbed gives back what there was: lectures,     *)
(* segments and cards with their schedules, all of them and nothing else,  *)
(* and a file that was cut off gives back nothing (createBackup,           *)
(* restoreBackup).                                                         *)
THEOREM RestoresGiveBack == Spec => RestoreGivesBack
<1>1. ASSUME Types, FileTypes, Faithful, Commit
      PROVE  file.kind = "whole" /\ \A was \in file.was : SameRows(was)'
  <2>1. file.kind = "whole"
    BY <1>1 DEF Commit, Faithful
  <2>2. ASSUME NEW was \in file.was
        PROVE  SameRows(was)'
    <3>1. Linked(was) /\ file.data = was
      BY <1>1 DEF Faithful
    <3>2. /\ was.segs \in SUBSET Lecture
          /\ was.card \in [Card -> CardRec]
      BY <1>1, <3>1 DEF FileTypes, SoundData, Data
    <3>3. \A l \in Lecture : IF HadLecture(was, l)
                             THEN lecture'[l] = was.lecture[l]
                             ELSE ~Exists(l)'
      BY <1>1, <3>1, LecturesRestored
    <3>4. segs' = was.segs
      BY <1>1, <3>1, <3>2 DEF Commit, Linked
    <3>5. ASSUME NEW i \in Card
          PROVE  IF was.card[i].reps >= 0 THEN card'[i] = was.card[i]
                 ELSE i \notin Row'
      <4>1. CASE was.card[i].reps >= 0
        BY <1>1, <3>1, <4>1, CardsRestored DEF Linked
      <4>2. CASE ~(was.card[i].reps >= 0)
        <5>1. card'[i].reps < 0 /\ card'[i].reps \in Int
          BY <1>1, <3>1, <4>2, CardsRestored DEF SoundCards, CardRec
        <5> QED
          BY <4>2, <5>1 DEF Row
      <4> QED
        BY <4>1, <4>2
    <3> QED
      BY <3>3, <3>4, <3>5 DEF SameRows
  <2> QED
    BY <2>1, <2>2
<1>2. ASSUME Types, FileTypes, [Next]_vars, job.pc = "commit",
             job'.pc = "restored"
      PROVE  Commit
  <2>1. /\ ~StartBackup /\ ~StartRestore /\ ~ReadTable /\ ~WriteArchive
        /\ ~LoadArchive /\ ~RestoreDone
    BY <1>2 DEF StartBackup, StartRestore, Begin, ReadTable, WriteArchive,
       LoadArchive, RestoreDone
  <2>2. ~RollBack /\ ~Crash
    BY <1>2, JobSteps DEF JobIs
  <2>3. ~Studies
    BY <1>2 DEF Studies, Seen
  <2>4. ~UNCHANGED vars
    BY <1>2 DEF vars, backupVars
  <2> QED
    BY <1>2, <2>1, <2>2, <2>3, <2>4 DEF Next, Proceeds
<1>3. Types /\ FileTypes /\ Faithful /\ [Next]_vars =>
        [job.pc = "commit" /\ job'.pc = "restored"
           => file.kind = "whole" /\ \A was \in file.was : SameRows(was)']_vars
  BY <1>1, <1>2
<1> QED
  BY <1>3, LibraryTypes, FaithfulInvariance, PTL DEF Spec, RestoreGivesBack

-----------------------------------------------------------------------------
(* Copies of a question.                                                   *)

LEMMA Finite ==
  /\ IsFiniteSet(Card) /\ IsFiniteSet(Quiz) /\ IsFiniteSet(Caller)
  /\ Cardinality(Caller) \in Nat
<1>1. MaxCards \in Int /\ MaxQuizzes \in Int
  BY StudyAssumption
<1>2. IsFiniteSet(1 .. MaxCards) /\ IsFiniteSet(1 .. MaxQuizzes)
  BY <1>1, FS_Interval
<1>3. IsFiniteSet(Caller)
  BY StudyAssumption
<1> QED
  BY <1>2, <1>3, FS_CardinalityType DEF Card, Quiz

(* The parts of a finite set are finite, and no larger.                    *)
LEMMA Part ==
  ASSUME NEW S, IsFiniteSet(S), NEW R \in SUBSET S
  PROVE  /\ IsFiniteSet(R) /\ Cardinality(R) \in Nat
         /\ Cardinality(S) \in Nat /\ Cardinality(R) <= Cardinality(S)
BY FS_Subset, FS_CardinalityType

LEMMA RoomIs ==
  /\ IsFiniteSet(Room) /\ Cardinality(Room) \in Nat
  /\ Cardinality(Room) = Cardinality(Caller) * MaxRepeats
<1>1. /\ IsFiniteSet(1 .. MaxRepeats)
      /\ Cardinality(1 .. MaxRepeats) = MaxRepeats
  <2>1. MaxRepeats \in Int /\ 1 \in Int /\ MaxRepeats >= 0
    BY StudyAssumption
  <2>2. /\ IsFiniteSet(1 .. MaxRepeats)
        /\ Cardinality(1 .. MaxRepeats) =
             IF 1 > MaxRepeats THEN 0 ELSE MaxRepeats - 1 + 1
    BY <2>1, FS_Interval
  <2> QED
    BY <2>1, <2>2
<1> QED
  BY <1>1, Finite, FS_Product, FS_CardinalityType DEF Room

LEMMA Counted ==
  ASSUME NEW q, NEW l
  PROVE  /\ Copies(q, l) \subseteq Card /\ IsFiniteSet(Copies(q, l))
         /\ Cardinality(Copies(q, l)) \in Nat
         /\ Holders(q, l) \subseteq Room /\ IsFiniteSet(Holders(q, l))
         /\ Cardinality(Holders(q, l)) \in Nat
<1>1. Copies(q, l) \subseteq Card /\ Holders(q, l) \subseteq Room
  BY DEF Copies, Row, Holders
<1> QED
  BY <1>1, Part, Finite, RoomIs

(* Copies and those who hold a question, after a step.                     *)
Few(q, l) == Cardinality(Copies(q, l)) + Cardinality(Holders(q, l))
               <= Cardinality(Room)

LEMMA StayFew ==
  ASSUME NEW q, NEW l, Few(q, l), Copies(q, l)' \subseteq Copies(q, l),
         Holders(q, l)' \subseteq Holders(q, l)
  PROVE  Few(q, l)'
<1>1. /\ Cardinality(Copies(q, l)') <= Cardinality(Copies(q, l))
      /\ Cardinality(Holders(q, l)') <= Cardinality(Holders(q, l))
      /\ Cardinality(Copies(q, l)') \in Nat
      /\ Cardinality(Holders(q, l)') \in Nat
  BY Counted, Part
<1> QED
  BY <1>1, Counted, RoomIs DEF Few

(* Who does not come to keep cards holds no more than before.              *)
LEMMA HoldersShrink ==
  ASSUME Types, NEW c \in Caller, OneMoves(c), call'[c].pc # "keepCards",
         NEW q, NEW l
  PROVE  /\ Holders(q, l)' \subseteq Holders(q, l)
         /\ \A h \in Holders(q, l)' : h[1] # c
<1>1. ASSUME NEW h \in Holders(q, l)'
      PROVE  h \in Holders(q, l) /\ h[1] # c
  <2>1. h \in Room /\ h[1] \in Caller /\ call'[h[1]].pc = "keepCards"
    BY <1>1 DEF Holders, Room
  <2>2. h[1] # c /\ call'[h[1]] = call[h[1]]
    BY <2>1 DEF OneMoves
  <2> QED
    BY <1>1, <2>1, <2>2 DEF Holders
<1> QED
  BY <1>1

LEMMA CopiesShrink ==
  ASSUME NEW q, NEW l,
         \A i \in Card : card'[i].reps >= 0 /\ card'[i].lecture = l =>
           /\ card[i].reps >= 0 /\ card[i].lecture = l
           /\ card[i].question = card'[i].question
  PROVE  Copies(q, l)' \subseteq Copies(q, l)
BY DEF Copies, Row

LEMMA KeepCardsFew ==
  ASSUME Types, NEW c \in Caller, KeepCards(c), NEW q \in Question,
         NEW l \in Lecture, Few(q, l)
  PROVE  Few(q, l)'
<1>1. /\ Holders(q, l)' \subseteq Holders(q, l)
      /\ \A h \in Holders(q, l)' : h[1] # c
  BY CardMoves, HoldersShrink
<1>2. CASE UNCHANGED card
  <2>1. Copies(q, l)' \subseteq Copies(q, l)
    BY <1>2, CopiesShrink
  <2> QED
    BY <1>1, <2>1, StayFew
<1>3. ASSUME NEW ids \in SUBSET Free, NEW f \in [ids -> call[c].new],
             \A i, k \in ids : f[i] = f[k] => i = k,
             \A i \in ids : card'[i] = NewCard(f[i][1], call[c].lecture),
             \A i \in Card \ ids : card'[i] = card[i],
             call[c].lecture \in Lecture
      PROVE  Few(q, l)'
  <2>1. \A p \in call[c].new : /\ p[1] \in Question
                               /\ p[2] \in 1 .. MaxRepeats
                               /\ p = <<p[1], p[2]>>
    BY DEF Types, CallRec, Proposal
  <2>2. \A i \in ids : /\ card'[i].reps = 0 /\ card'[i].question = f[i][1]
                       /\ card'[i].lecture = call[c].lecture
    BY <1>3, <2>1, NewCardType
  <2>3. CASE call[c].lecture = l
    <3> DEFINE C == Copies(q, l)
               D == Copies(q, l)'
               H == Holders(q, l)
               G == Holders(q, l)'
               N == {i \in ids : f[i][1] = q}
               O == {h \in H : h[1] = c}
               g == [i \in N |-> <<c, f[i][2]>>]
    <3>1. D \subseteq C \cup N
      BY <1>3, <2>2 DEF Copies, Row
    <3>2. g \in Injection(N, O)
      <4>1. ASSUME NEW i \in N
            PROVE  <<c, f[i][2]>> \in O
        <5>1. f[i] \in call[c].new /\ f[i] = <<q, f[i][2]>>
              /\ f[i][2] \in 1 .. MaxRepeats
          BY <1>3, <2>1
        <5>2. <<c, f[i][2]>> \in Room /\ call[c].pc = "keepCards"
          BY <5>1 DEF Room, KeepCards, At
        <5> QED
          BY <2>3, <5>1, <5>2 DEF Holders
      <4>2. ASSUME NEW i \in N, NEW k \in N, g[i] = g[k]
            PROVE  i = k
        <5>1. f[i][2] = f[k][2]
          BY <4>2
        <5>2. f[i] = <<q, f[i][2]>> /\ f[k] = <<q, f[k][2]>>
          BY <1>3, <2>1
        <5> QED
          BY <1>3, <5>1, <5>2
      <4> QED
        BY <4>1, <4>2 DEF Injection, IsInjective
    <3>3. /\ IsFiniteSet(C) /\ Cardinality(C) \in Nat
          /\ IsFiniteSet(H) /\ Cardinality(H) \in Nat
          /\ Cardinality(C) + Cardinality(H) <= Cardinality(Room)
      BY Counted DEF Few
    <3>4. O \subseteq H /\ G \subseteq H \ O
      BY <1>1
    <3> HIDE DEF C, D, H, G, N, O, g
    <3>5. /\ IsFiniteSet(O) /\ Cardinality(O) \in Nat
          /\ IsFiniteSet(N) /\ Cardinality(N) <= Cardinality(O)
      BY <3>2, <3>3, <3>4, Part, FS_Injection
    <3>6. Cardinality(N) \in Nat
      BY <3>5, FS_CardinalityType
    <3>7. /\ Cardinality(D) <= Cardinality(C) + Cardinality(N)
          /\ Cardinality(D) \in Nat
      <4>1. /\ IsFiniteSet(C \cup N)
            /\ Cardinality(C \cup N) =
                 Cardinality(C) + Cardinality(N) - Cardinality(C \cap N)
        BY <3>3, <3>5, FS_Union, Zenon
      <4>2. Cardinality(C \cap N) \in Nat
        BY <3>3, Part
      <4>3. /\ Cardinality(D) <= Cardinality(C \cup N)
            /\ Cardinality(D) \in Nat
        BY <3>1, <4>1, Part
      <4> QED
        BY <3>3, <3>6, <4>1, <4>2, <4>3
    <3>8. /\ Cardinality(G) <= Cardinality(H) - Cardinality(O)
          /\ Cardinality(G) \in Nat
      <4>1. H \cap O = O
        BY <3>4
      <4>2. /\ IsFiniteSet(H \ O)
            /\ Cardinality(H \ O) = Cardinality(H) - Cardinality(O)
        BY <3>3, <4>1, FS_Difference
      <4> QED
        BY <3>4, <4>2, Part
    <3>9. Cardinality(D) + Cardinality(G) <= Cardinality(Room)
      BY <3>3, <3>5, <3>6, <3>7, <3>8, RoomIs
    <3> QED
      BY <3>9 DEF Few, D, G
  <2>4. CASE call[c].lecture # l
    <3>1. Copies(q, l)' \subseteq Copies(q, l)
      BY <1>3, <2>2, <2>4 DEF Copies, Row
    <3> QED
      BY <1>1, <3>1, StayFew
  <2> QED
    BY <2>3, <2>4
<1> QED
  BY <1>2, <1>3, CardsKept

LEMMA FindCardsFew ==
  ASSUME Types, NEW c \in Caller, FindCards(c), NEW q \in Question,
         NEW l \in Lecture, Few(q, l)
  PROVE  Few(q, l)'
<1>1. /\ OneMoves(c) /\ call'[c].lecture = call[c].lecture
      /\ call'[c].new = {p \in call[c].new :
                                  p[1] \notin Known(call[c].lecture)}
  BY CardMoves
<1>2. UNCHANGED card
  BY DEF FindCards, tables
<1>3. ASSUME NEW h \in Holders(q, l)', h[1] # c
      PROVE  h \in Holders(q, l)
  <2>1. h \in Room /\ h[1] \in Caller
    BY <1>3 DEF Holders, Room
  <2>2. call'[h[1]] = call[h[1]]
    BY <1>1, <1>3, <2>1 DEF OneMoves
  <2> QED
    BY <1>3, <2>1, <2>2 DEF Holders
<1>4. CASE \A h \in Holders(q, l)' : h[1] # c
  <2>1. Holders(q, l)' \subseteq Holders(q, l)
    BY <1>3, <1>4
  <2>2. Copies(q, l)' \subseteq Copies(q, l)
    BY <1>2, CopiesShrink
  <2> QED
    BY <2>1, <2>2, StayFew
<1>5. ASSUME NEW h \in Holders(q, l)', h[1] = c
      PROVE  Few(q, l)'
  <2>1. call[c].lecture = l /\ q \notin Known(l)
    BY <1>1, <1>5 DEF Holders
  <2>2. Copies(q, l) = {}
    BY <2>1 DEF Copies, Known
  <2>3. Copies(q, l)' = {}
    BY <1>2, <2>2 DEF Copies, Row
  <2>4. Cardinality(Copies(q, l)') = 0
    BY <2>3, FS_EmptySet
  <2>5. /\ Cardinality(Holders(q, l)') <= Cardinality(Room)
        /\ Cardinality(Holders(q, l)') \in Nat
    <3>1. Holders(q, l)' \subseteq Room
      BY DEF Holders
    <3> QED
      BY <3>1, Part, RoomIs
  <2> QED
    BY <2>4, <2>5, RoomIs DEF Few
<1> QED
  BY <1>4, <1>5

LEMMA FewStep ==
  ASSUME Types, FileTypes, [Next]_vars, ~wiped', NEW q \in Question,
         NEW l \in Lecture, ~wiped /\ Few(q, l)
  PROVE  Few(q, l)'
<1>1. CASE UNCHANGED <<card, call>>
  BY <1>1 DEF Few, Copies, Row, Holders
<1>2. ASSUME NEW k \in Lecture, DeleteLecture(k)
      PROVE  Few(q, l)'
  <2>1. Copies(q, l)' \subseteq Copies(q, l)
    BY <1>2, CardsOfDeleted, CopiesShrink, StudyAssumption
  <2>2. Holders(q, l)' = Holders(q, l)
    BY <1>2 DEF DeleteLecture, Holders
  <2> QED
    BY <2>1, <2>2, StayFew
<1>3. ASSUME NEW c \in Caller, Call(c) \/ Serves(c)
      PROVE  Few(q, l)'
  <2>1. CASE FindCards(c)
    BY <2>1, FindCardsFew
  <2>2. CASE KeepCards(c)
    BY <2>2, KeepCardsFew
  <2>3. CASE OneMoves(c) /\ call'[c].pc # "keepCards" /\ UNCHANGED card
    <3>1. Copies(q, l)' \subseteq Copies(q, l)
      BY <2>3, CopiesShrink
    <3> QED
      BY <2>3, <3>1, HoldersShrink, StayFew
  <2>4. CASE KeepReview(c)
    <3>1. Copies(q, l)' \subseteq Copies(q, l)
      BY <2>4, CardReviewed, CopiesShrink
    <3> QED
      BY <2>4, <3>1, ReviewMoves, HoldersShrink, StayFew
  <2>5. CASE Call(c)
    BY <2>3, <2>5, CallMoves DEF Call, tables
  <2>6. CASE GetSummary(c) \/ Summarize(c) \/ FindSummary(c)
             \/ KeepSummary(c)
    BY <2>3, <2>6, SummaryMoves
       DEF GetSummary, Summarize, FindSummary, KeepSummary, tables
  <2>7. CASE MakeCards(c) \/ ReadCard(c)
    BY <2>3, <2>7, CardMoves, ReviewMoves DEF MakeCards, ReadCard, tables
  <2>8. CASE MakeQuiz(c) \/ KeepQuiz(c) \/ KeepQuestions(c)
             \/ SubmitQuiz(c)
    BY <2>3, <2>8, QuizMoves
       DEF MakeQuiz, KeepQuiz, KeepQuestions, SubmitQuiz, tables
  <2> QED
    BY <1>3, <2>1, <2>2, <2>4, <2>5, <2>6, <2>7, <2>8 DEF Serves
<1>4. CASE Die
  <2>1. Holders(q, l)' \subseteq Holders(q, l)
    BY <1>4, QuietKnows DEF Die, Holders, Room
  <2>2. Copies(q, l)' \subseteq Copies(q, l)
    BY <1>4, CopiesShrink DEF Die, tables
  <2> QED
    BY <2>1, <2>2, StayFew
<1>5. CASE StudyNext
  BY <1>1, <1>2, <1>3, <1>5 DEF StudyNext, CreateLecture, Transcribe
<1>6. CASE UNCHANGED studyVars
  BY <1>1, <1>6 DEF studyVars, tables
<1>7. ~Commit
  BY DEF Commit
<1> QED
  BY <1>4, <1>5, <1>6, <1>7
     DEF Next, vars, Studies, StartBackup, StartRestore, Proceeds, ReadTable,
         WriteArchive, LoadArchive, RollBack, RestoreDone, Crash

(* A restore that was made is not forgotten.                               *)
LEMMA WipedStays == ASSUME [Next]_vars, wiped PROVE wiped'
BY DEF Next, vars, studyVars, Studies, StudyNext, CreateLecture, Transcribe,
   DeleteLecture, Call, Serves, GetSummary, Summarize, FindSummary,
   KeepSummary, MakeCards, FindCards, KeepCards, MakeQuiz, KeepQuiz,
   KeepQuestions, SubmitQuiz, ReadCard, KeepReview, Bounds, StartBackup,
   StartRestore, Proceeds, ReadTable, WriteArchive, LoadArchive, Commit,
   RollBack, RestoreDone, Crash, Die

LEMMA FewCopiesStep ==
  ASSUME Types, FileTypes, FewCopies, [Next]_vars
  PROVE  FewCopies'
<1>1. ASSUME ~wiped', NEW q \in Question, NEW l \in Lecture
      PROVE  Few(q, l)'
  <2>1. ~wiped
    BY <1>1, WipedStays
  <2>2. Few(q, l)
    BY <2>1 DEF FewCopies, Few
  <2> QED
    BY <1>1, <2>1, <2>2, FewStep
<1> QED
  BY <1>1 DEF FewCopies, Few

LEMMA FewCopiesInit == ASSUME Init PROVE FewCopies
<1>1. card = [i \in Card |-> NoCard] /\ call = [c \in Caller |-> Quiet]
  BY DEF Init, StudyInit
<1>2. ASSUME NEW q \in Question, NEW l \in Lecture
      PROVE  Copies(q, l) = {} /\ Holders(q, l) = {}
  BY <1>1, NoCardType, QuietKnows DEF Copies, Row, Holders, Room
<1>3. Cardinality({}) = 0
  BY FS_EmptySet
<1> QED
  BY <1>2, <1>3, RoomIs DEF FewCopies

(* Calls that make flashcards together may each keep a question, as often  *)
(* as its answer has it, and no later one does: a lecture has at most so   *)
(* many copies of it for each of them (generateFlashcards).                *)
THEOREM CopiesStayFew == Spec => []CopiesBounded
<1>1. Types /\ FileTypes /\ FewCopies /\ [Next]_vars => FewCopies'
  BY FewCopiesStep
<1>2. FewCopies => CopiesBounded
  <2>1. ASSUME FewCopies, ~wiped, NEW q \in Question, NEW l \in Lecture
        PROVE  Cardinality(Copies(q, l)) <= Cardinality(Caller) * MaxRepeats
    BY <2>1, Counted, RoomIs DEF FewCopies
  <2> QED
    BY <2>1 DEF CopiesBounded
<1> QED
  BY <1>1, <1>2, FewCopiesInit, LibraryTypes, PTL DEF Spec

-----------------------------------------------------------------------------
(* Quizzes without questions.                                              *)

Empty == {i \in Quiz : quiz[i] = "empty"}
Filled == {call[c].card : c \in Filling}

(* The image of a finite set is finite, and no larger.                     *)
LEMMA ImageFew ==
  ASSUME NEW S, IsFiniteSet(S), NEW T, NEW f \in [S -> T],
         \A t \in T : \E s \in S : f[s] = t
  PROVE  IsFiniteSet(T) /\ Cardinality(T) <= Cardinality(S)
<1>1. f \in Surjection(S, T)
  BY DEF Surjection
<1> QED
  BY <1>1, FS_Surjection, Zenon

LEMMA FilledFew ==
  /\ IsFiniteSet(Filling) /\ Cardinality(Filling) \in Nat
  /\ Cardinality(Filling) <= Cardinality(Caller)
  /\ IsFiniteSet(Filled) /\ Cardinality(Filled) \in Nat
  /\ Cardinality(Filled) <= Cardinality(Filling)
<1>1. /\ IsFiniteSet(Filling) /\ Cardinality(Filling) \in Nat
      /\ Cardinality(Filling) <= Cardinality(Caller)
  <2>1. Filling \subseteq Caller
    BY DEF Filling
  <2> QED
    BY <2>1, Part, Finite
<1> DEFINE f == [c \in Filling |-> call[c].card]
<1>2. /\ f \in [Filling -> Filled]
      /\ \A x \in Filled : \E c \in Filling : f[c] = x
  BY DEF Filled
<1> HIDE DEF f
<1>3. IsFiniteSet(Filled) /\ Cardinality(Filled) <= Cardinality(Filling)
  BY <1>1, <1>2, ImageFew
<1> QED
  BY <1>1, <1>3, FS_CardinalityType

LEMMA EmptyParts ==
  /\ IsFiniteSet(Forsaken) /\ Cardinality(Forsaken) \in Nat
  /\ IsFiniteSet(Empty) /\ Cardinality(Empty) \in Nat
  /\ Cardinality(Empty) <= Cardinality(Forsaken) + Cardinality(Filling)
<1>1. Forsaken \subseteq Quiz /\ Empty \subseteq Quiz
  BY DEF Forsaken, Empty
<1>2. /\ IsFiniteSet(Forsaken) /\ Cardinality(Forsaken) \in Nat
      /\ IsFiniteSet(Empty) /\ Cardinality(Empty) \in Nat
  BY <1>1, Part, Finite
<1>3. Empty \subseteq Forsaken \cup Filled
  BY DEF Empty, Forsaken, Filled
<1>4. /\ IsFiniteSet(Forsaken \cup Filled)
      /\ Cardinality(Forsaken \cup Filled) =
           Cardinality(Forsaken) + Cardinality(Filled)
             - Cardinality(Forsaken \cap Filled)
  BY <1>2, FilledFew, FS_Union, Zenon
<1>5. Cardinality(Forsaken \cap Filled) \in Nat
  <2>1. Forsaken \cap Filled \subseteq Forsaken
    OBVIOUS
  <2> QED
    BY <1>2, <2>1, Part
<1>6. Cardinality(Empty) <= Cardinality(Forsaken \cup Filled)
  BY <1>3, <1>4, Part
<1> QED
  BY <1>2, <1>4, <1>5, <1>6, FilledFew

LEMMA Product ==
  ASSUME NEW m \in Nat, NEW n \in Nat
  PROVE  m * n \in Nat /\ (m + 1) * n = m * n + n
OBVIOUS

LEMMA ForsakenShrink ==
  ASSUME Types, FewForsaken, UNCHANGED <<crashes, unfilled>>,
         Forsaken' \subseteq Forsaken
  PROVE  FewForsaken'
<1>1. /\ Cardinality(Forsaken') <= Cardinality(Forsaken)
      /\ Cardinality(Forsaken') \in Nat
  BY EmptyParts, Part
<1>2. crashes * Cardinality(Caller) \in Nat
  BY Product, Finite DEF Types
<1> QED
  BY <1>1, <1>2, EmptyParts DEF FewForsaken

(* Who is not filling a quiz may go on, and may begin to fill one.         *)
LEMMA QuizStays ==
  ASSUME Types, NEW c \in Caller, OneMoves(c),
         call[c].pc # "keepQuestions", UNCHANGED quiz
  PROVE  Forsaken' \subseteq Forsaken
<1>1. \A d \in Filling : d \in Filling' /\ call'[d] = call[d]
  BY DEF Filling, OneMoves
<1> QED
  BY <1>1 DEF Forsaken

LEMMA ForsakenStep ==
  ASSUME Types, FileTypes, FewForsaken, [Next]_vars
  PROVE  FewForsaken'
<1>1. CASE UNCHANGED <<quiz, call, crashes, unfilled>>
  BY <1>1 DEF FewForsaken, Forsaken, Filling
<1>2. ASSUME NEW c \in Caller, Call(c) \/ Serves(c)
      PROVE  FewForsaken'
  <2>1. UNCHANGED crashes /\ (~KeepQuestions(c) => UNCHANGED unfilled)
    BY <1>2 DEF Call, Serves, GetSummary, Summarize, FindSummary,
       KeepSummary, MakeCards, FindCards, KeepCards, MakeQuiz, KeepQuiz,
       KeepQuestions, SubmitQuiz, ReadCard, KeepReview, Bounds
  <2>2. CASE KeepQuiz(c)
    <3>1. /\ OneMoves(c) /\ call[c].pc = "keepQuiz"
          /\ call'[c].pc = "keepQuestions" /\ call'[c].card \in Quiz
          /\ quiz' = [quiz EXCEPT ![call'[c].card] = "empty"]
      BY <2>2, QuizMoves
    <3>2. /\ c \in Filling'
          /\ \A d \in Filling : d \in Filling' /\ call'[d] = call[d]
      BY <3>1 DEF Filling, OneMoves
    <3>3. Forsaken' \subseteq Forsaken
      BY <3>1, <3>2 DEF Forsaken, Types
    <3>4. UNCHANGED unfilled
      BY <2>2 DEF KeepQuiz, Bounds
    <3> QED
      BY <2>1, <3>3, <3>4, ForsakenShrink
  <2>3. CASE KeepQuestions(c)
    <3>1. OneMoves(c)
      BY <2>3, QuizMoves
    <3>2. \A d \in Filling : d # c => d \in Filling' /\ call'[d] = call[d]
      BY <3>1 DEF Filling, OneMoves
    <3>3. CASE UNCHANGED unfilled
      <4>1. \A i \in Quiz : quiz'[i] = "empty" =>
              quiz[i] = "empty" /\ i # call[c].card
        BY <2>3, <3>3 DEF KeepQuestions, Types, FewForsaken
      <4>2. Forsaken' \subseteq Forsaken
        BY <3>2, <4>1 DEF Forsaken
      <4> QED
        BY <2>1, <3>3, <4>2, ForsakenShrink
    <3>4. CASE unfilled' = unfilled + 1 /\ UNCHANGED quiz
      <4> DEFINE k == call[c].card
      <4>1. Forsaken' \subseteq Forsaken \cup {k}
        BY <3>2, <3>4 DEF Forsaken, Filling
      <4> HIDE DEF k
      <4>2. /\ IsFiniteSet(Forsaken \cup {k})
            /\ Cardinality(Forsaken \cup {k}) =
                 IF k \in Forsaken THEN Cardinality(Forsaken)
                 ELSE Cardinality(Forsaken) + 1
        BY EmptyParts, FS_AddElement, Zenon
      <4>3. /\ Cardinality(Forsaken') <= Cardinality(Forsaken \cup {k})
            /\ Cardinality(Forsaken') \in Nat
        BY <4>1, <4>2, Part
      <4>4. crashes * Cardinality(Caller) \in Nat
        BY Product, Finite DEF Types
      <4> QED
        BY <2>1, <3>4, <4>2, <4>3, <4>4, EmptyParts DEF FewForsaken
    <3> QED
      BY <2>3, <3>3, <3>4 DEF KeepQuestions
  <2>4. CASE OneMoves(c) /\ call[c].pc # "keepQuestions" /\ UNCHANGED quiz
    <3>1. ~KeepQuestions(c)
      BY <2>4 DEF KeepQuestions, At
    <3> QED
      BY <2>1, <2>4, <3>1, QuizStays, ForsakenShrink
  <2>5. CASE Call(c)
    BY <2>4, <2>5, CallMoves DEF Call, At, tables
  <2>6. CASE GetSummary(c) \/ Summarize(c) \/ FindSummary(c)
             \/ KeepSummary(c)
    BY <2>4, <2>6, SummaryMoves
       DEF GetSummary, Summarize, FindSummary, KeepSummary, tables
  <2>7. CASE MakeCards(c) \/ FindCards(c) \/ KeepCards(c)
    BY <2>4, <2>7, CardMoves DEF MakeCards, FindCards, KeepCards, tables
  <2>8. CASE MakeQuiz(c) \/ SubmitQuiz(c)
    BY <2>4, <2>8, QuizMoves DEF MakeQuiz, SubmitQuiz, tables
  <2>9. CASE ReadCard(c) \/ KeepReview(c)
    BY <2>4, <2>9, ReviewMoves DEF ReadCard, KeepReview, tables
  <2> QED
    BY <1>2, <2>2, <2>3, <2>5, <2>6, <2>7, <2>8, <2>9 DEF Serves
<1>3. CASE Die
  <2>1. Forsaken' \subseteq Empty
    BY <1>3 DEF Die, tables, Forsaken, Empty
  <2>2. /\ Cardinality(Forsaken') <= Cardinality(Empty)
        /\ Cardinality(Forsaken') \in Nat
    BY <2>1, EmptyParts, Part
  <2>3. /\ crashes' * Cardinality(Caller) =
             crashes * Cardinality(Caller) + Cardinality(Caller)
        /\ crashes * Cardinality(Caller) \in Nat
    BY <1>3, Product, Finite DEF Die, Types
  <2>4. UNCHANGED unfilled
    BY <1>3 DEF Die
  <2>5. unfilled \in Nat /\ Cardinality(Forsaken)
           <= crashes * Cardinality(Caller) + unfilled
    BY DEF FewForsaken
  <2> QED
    BY <2>2, <2>3, <2>4, <2>5, EmptyParts, FilledFew, Finite DEF FewForsaken
<1>4. CASE Commit
  <2>1. Forsaken' = {}
    BY <1>4 DEF Commit, Forsaken
  <2> QED
    BY <1>4, <2>1, ForsakenShrink DEF Commit
<1>5. CASE StudyNext
  BY <1>1, <1>2, <1>5
     DEF StudyNext, CreateLecture, Transcribe, DeleteLecture, Bounds
<1>6. CASE UNCHANGED studyVars
  BY <1>1, <1>6 DEF studyVars, tables
<1> QED
  BY <1>3, <1>4, <1>5, <1>6
     DEF Next, vars, Studies, StartBackup, StartRestore, Proceeds, ReadTable,
         WriteArchive, LoadArchive, RollBack, RestoreDone, Crash

LEMMA ForsakenInit == ASSUME Init PROVE FewForsaken
<1>1. quiz = [i \in Quiz |-> "none"] /\ crashes = 0 /\ unfilled = 0
  BY DEF Init, StudyInit
<1>2. Forsaken = {}
  BY <1>1 DEF Forsaken
<1> QED
  BY <1>1, <1>2, FS_EmptySet, Finite DEF FewForsaken

(* A quiz without questions is being made, or the app died while it was,   *)
(* and no more of them for each death than there were handlers, or its     *)
(* questions were refused (generateWeeklyQuiz).                            *)
THEOREM QuizzesFilled == Spec => []QuizzesWhole
<1>1. Types /\ FileTypes /\ FewForsaken /\ [Next]_vars => FewForsaken'
  BY ForsakenStep
<1>2. Types /\ FewForsaken => QuizzesWhole
  <2>1. ASSUME Types, FewForsaken
        PROVE  QuizzesWhole
    <3>1. Filling = {c \in Caller : At(c, "keepQuestions")}
      BY DEF Filling, At
    <3>2. Empty = {i \in Quiz : quiz[i] = "empty"}
      BY DEF Empty
    <3>3. crashes * Cardinality(Caller) \in Nat
      BY <2>1, Product, Finite DEF Types
    <3>4. Cardinality(Empty) <=
            crashes * Cardinality(Caller) + unfilled + Cardinality(Filling)
      BY <2>1, <3>3, EmptyParts, FilledFew DEF FewForsaken
    <3> QED
      BY <3>1, <3>2, <3>4 DEF QuizzesWhole
  <2> QED
    BY <2>1
<1> QED
  BY <1>1, <1>2, ForsakenInit, LibraryTypes, PTL DEF Spec

-----------------------------------------------------------------------------
(* How often a summary is asked for.                                       *)

(* What one handler holds, and what is said of one lecture.                *)
Held(c) ==
  /\ call[c].pc \in OfLecture => lecture[call[c].lecture] # "new"
  /\ call[c].pc = "keepSummary" /\ call[c].found => Settled(call[c].lecture)
AskedFew(l) ==
  /\ asked[l] + Cardinality(Willing(l)) <= (crashes + 1) * Cardinality(Caller)
  /\ ~Settled(l) => asked[l] <= crashes * Cardinality(Caller)
                                + Cardinality(Answered(l))
ReadySegs == \A l \in segs : lecture[l] = "ready"

LEMMA FewAskedParts ==
  FewAsked <=> (~wiped => /\ ReadySegs
                          /\ \A c \in Caller : Held(c)
                          /\ \A l \in Lecture : AskedFew(l))
BY DEF FewAsked, ReadySegs, Held, AskedFew

LEMMA AskersCounted ==
  ASSUME NEW l
  PROVE  /\ Willing(l) \subseteq Caller /\ IsFiniteSet(Willing(l))
         /\ Cardinality(Willing(l)) \in Nat
         /\ Answered(l) \subseteq Caller /\ IsFiniteSet(Answered(l))
         /\ Cardinality(Answered(l)) \in Nat
<1>1. Willing(l) \subseteq Caller /\ Answered(l) \subseteq Caller
  BY DEF Willing, Answered
<1> QED
  BY <1>1, Part, Finite

LEMMA Products ==
  ASSUME Types
  PROVE  /\ crashes * Cardinality(Caller) \in Nat
         /\ (crashes + 1) * Cardinality(Caller) =
              crashes * Cardinality(Caller) + Cardinality(Caller)
BY Product, Finite DEF Types

(* Until a restore, a lecture that there was is never new again, and a     *)
(* summary is kept as long as the lecture is.                              *)
LEMMA LecturesAge ==
  ASSUME Types, StudyNext, NEW l \in Lecture
  PROVE  /\ lecture[l] # "new" => lecture'[l] # "new"
         /\ Settled(l) => Settled(l)'
<1>1. ASSUME NEW k \in Lecture,
             CreateLecture(k) \/ Transcribe(k) \/ DeleteLecture(k)
      PROVE  /\ lecture[l] # "new" => lecture'[l] # "new"
             /\ Settled(l) => Settled(l)'
  BY <1>1 DEF CreateLecture, Transcribe, DeleteLecture, Exists, Settled, Types
<1>2. ASSUME NEW c \in Caller, Call(c) \/ Serves(c)
      PROVE  /\ lecture[l] # "new" => lecture'[l] # "new"
             /\ Settled(l) => Settled(l)'
  <2>1. CASE UNCHANGED <<lecture, summary>>
    BY <2>1 DEF Settled
  <2>2. CASE KeepSummary(c)
    <3>1. call[c].kind # "none"
      BY <2>2 DEF KeepSummary, At, Types, Knows
    <3> QED
      BY <2>2, <3>1 DEF KeepSummary, Settled, Types
  <2> QED
    BY <1>2, <2>1, <2>2
       DEF Call, Serves, GetSummary, Summarize, FindSummary, MakeCards,
           FindCards, KeepCards, MakeQuiz, KeepQuiz, KeepQuestions,
           SubmitQuiz, ReadCard, KeepReview, tables
<1> QED
  BY <1>1, <1>2 DEF StudyNext

LEMMA SegsReady ==
  ASSUME Types, StudyNext, ReadySegs
  PROVE  ReadySegs'
<1>1. ASSUME NEW k \in Lecture,
             CreateLecture(k) \/ Transcribe(k) \/ DeleteLecture(k)
      PROVE  ReadySegs'
  BY <1>1 DEF CreateLecture, Transcribe, DeleteLecture, ReadySegs, Types
<1>2. ASSUME NEW c \in Caller, Call(c) \/ Serves(c)
      PROVE  UNCHANGED <<lecture, segs>>
  BY <1>2 DEF Call, Serves, GetSummary, Summarize, FindSummary, KeepSummary,
     MakeCards, FindCards, KeepCards, MakeQuiz, KeepQuiz, KeepQuestions,
     SubmitQuiz, ReadCard, KeepReview, tables
<1> QED
  BY <1>1, <1>2 DEF StudyNext, ReadySegs

LEMMA HeldStays ==
  ASSUME Types, StudyNext, NEW d \in Caller, Held(d), call'[d] = call[d]
  PROVE  Held(d)'
<1>1. call[d].pc \in OfLecture => call[d].lecture \in Lecture
  BY DEF Types, Knows
<1>2. CASE call[d].pc \in OfLecture
  BY <1>1, <1>2, LecturesAge DEF Held, Settled
<1>3. CASE call[d].pc \notin OfLecture
  BY <1>3 DEF Held, OfLecture
<1> QED
  BY <1>2, <1>3

LEMMA HeldStep ==
  ASSUME Types, StudyNext, \A d \in Caller : Held(d)
  PROVE  \A d \in Caller : Held(d)'
<1>1. ASSUME NEW k \in Lecture,
             CreateLecture(k) \/ Transcribe(k) \/ DeleteLecture(k)
      PROVE  \A d \in Caller : Held(d)'
  <2>1. call' = call
    BY <1>1 DEF CreateLecture, Transcribe, DeleteLecture
  <2> QED
    BY <2>1, HeldStays
<1>2. ASSUME NEW c \in Caller, Call(c) \/ Serves(c)
      PROVE  \A d \in Caller : Held(d)'
  <2>1. \A d \in Caller : d # c => Held(d)'
    BY <1>2, ServesMoves, HeldStays DEF OneMoves
  <2>2. CASE call'[c].pc \notin OfLecture
    <3>1. Held(c)'
      BY <2>2 DEF Held, OfLecture
    <3> QED
      BY <2>1, <3>1
  <2>3. CASE /\ call[c].pc \in OfLecture /\ call'[c].lecture = call[c].lecture
             /\ call'[c].pc # "keepSummary"
    <3>1. call[c].lecture \in Lecture /\ lecture[call[c].lecture] # "new"
      BY <2>3 DEF Types, Knows, Held
    <3>2. lecture'[call'[c].lecture] # "new"
      BY <2>3, <3>1, LecturesAge
    <3>3. Held(c)'
      BY <2>3, <3>2 DEF Held
    <3> QED
      BY <2>1, <3>3
  <2>4. CASE FindSummary(c)
    <3>1. /\ call[c].pc = "findSummary"
          /\ call'[c].lecture = call[c].lecture
          /\ call'[c].found = (summary[call[c].lecture] # "none")
      BY <2>4, SummaryMoves
    <3>2. call[c].lecture \in Lecture /\ lecture[call[c].lecture] # "new"
      BY <3>1 DEF Types, Knows, Held, OfLecture
    <3>3. UNCHANGED <<lecture, summary>>
      BY <2>4 DEF FindSummary, tables
    <3>4. Held(c)'
      BY <3>1, <3>2, <3>3 DEF Held, Settled
    <3> QED
      BY <2>1, <3>4
  <2>5. CASE Call(c)
    <3>1. /\ call'[c].pc \in OfLecture => Exists(call'[c].lecture)
          /\ call'[c].pc # "keepSummary"
      BY <2>5, CallMoves
    <3>2. lecture' = lecture
      BY <2>5 DEF Call, tables
    <3>3. Held(c)'
      BY <3>1, <3>2 DEF Held, Exists
    <3> QED
      BY <2>1, <3>3
  <2>6. CASE GetSummary(c) \/ Summarize(c) \/ KeepSummary(c)
    BY <2>2, <2>3, <2>6, SummaryMoves DEF OfLecture
  <2>7. CASE MakeCards(c) \/ FindCards(c) \/ KeepCards(c)
    BY <2>2, <2>3, <2>7, CardMoves DEF OfLecture
  <2>8. CASE MakeQuiz(c) \/ KeepQuiz(c) \/ KeepQuestions(c)
             \/ SubmitQuiz(c)
    BY <2>2, <2>8, QuizMoves DEF OfLecture
  <2>9. CASE ReadCard(c) \/ KeepReview(c)
    BY <2>2, <2>9, ReviewMoves DEF OfLecture
  <2> QED
    BY <1>2, <2>4, <2>5, <2>6, <2>7, <2>8, <2>9 DEF Serves
<1> QED
  BY <1>1, <1>2 DEF StudyNext

LEMMA StayAsked ==
  ASSUME Types, NEW l \in Lecture, AskedFew(l), UNCHANGED <<asked, crashes>>,
         Willing(l)' \subseteq Willing(l), Settled(l) => Settled(l)',
         ~Settled(l)' => Answered(l) \subseteq Answered(l)'
  PROVE  AskedFew(l)'
<1>1. asked[l] \in Nat
  BY DEF Types
<1>2. /\ Cardinality(Willing(l)') <= Cardinality(Willing(l))
      /\ Cardinality(Willing(l)') \in Nat
  BY AskersCounted, Part
<1>3. /\ IsFiniteSet(Answered(l)') /\ Cardinality(Answered(l)') \in Nat
  <2>1. Answered(l)' \subseteq Caller
    BY DEF Answered
  <2> QED
    BY <2>1, Part, Finite
<1>4. ~Settled(l)' =>
        Cardinality(Answered(l)) <= Cardinality(Answered(l)')
  BY <1>3, Part
<1>5. asked[l] + Cardinality(Willing(l)') <=
        (crashes + 1) * Cardinality(Caller)
  BY <1>1, <1>2, AskersCounted, Products, Finite DEF AskedFew
<1>6. ~Settled(l)' => asked[l] <= crashes * Cardinality(Caller)
                                  + Cardinality(Answered(l)')
  BY <1>1, <1>3, <1>4, AskersCounted, Products, Finite DEF AskedFew
<1> QED
  BY <1>5, <1>6 DEF AskedFew

(* A summary is only asked for while its lecture has none: those who have  *)
(* asked and the one that is about to are handlers of the same run.        *)
LEMMA GetSummaryAsked ==
  ASSUME Types, ReadySegs, NEW c \in Caller, GetSummary(c),
         NEW l \in Lecture, AskedFew(l)
  PROVE  AskedFew(l)'
<1>1. /\ OneMoves(c) /\ call[c].pc = "summary"
      /\ \/ call'[c].pc = "idle"
         \/ /\ call'[c].pc = "summarize"
            /\ call'[c].lecture = call[c].lecture
            /\ summary[call[c].lecture] = "none"
            /\ call[c].lecture \in segs
  BY SummaryMoves
<1>2. UNCHANGED <<lecture, summary, asked, crashes>>
  BY DEF GetSummary, tables, Bounds
<1>3. Answered(l)' = Answered(l) /\ (Settled(l)' <=> Settled(l))
  BY <1>1, <1>2 DEF Answered, OneMoves, Settled
<1>4. CASE c \notin Willing(l)'
  <2>1. Willing(l)' \subseteq Willing(l)
    BY <1>1, <1>4 DEF Willing, OneMoves
  <2> QED
    BY <1>2, <1>3, <2>1, StayAsked
<1>5. CASE c \in Willing(l)'
  <2>1. ~Settled(l)
    <3>1. summary[l] = "none" /\ l \in segs
      BY <1>1, <1>5 DEF Willing
    <3> QED
      BY <3>1 DEF Settled, ReadySegs
  <2> DEFINE W == Willing(l)'
             A == Answered(l)
             n == Cardinality(Caller)
             m == crashes * n
             k == (crashes + 1) * n
  <2>2. asked[l] \in Nat /\ m \in Nat /\ n \in Nat /\ k = m + n
    BY Products, Finite DEF Types
  <2>3. asked[l] <= m + Cardinality(A)
    BY <2>1 DEF AskedFew
  <2>4. W \subseteq Caller /\ A \subseteq Caller /\ W \cap A = {}
    BY <1>3 DEF Willing, Answered
  <2>5. /\ IsFiniteSet(W) /\ Cardinality(W) \in Nat
        /\ IsFiniteSet(A) /\ Cardinality(A) \in Nat
    BY <2>4, Part, Finite
  <2> HIDE DEF W, A, m, n, k
  <2>6. /\ IsFiniteSet(W \cup A)
        /\ Cardinality(W \cup A) =
             Cardinality(W) + Cardinality(A) - Cardinality(W \cap A)
    BY <2>5, FS_Union, Zenon
  <2>7. Cardinality(W \cap A) = 0
    BY <2>4, FS_EmptySet
  <2>8. Cardinality(W \cup A) <= n
    <3>1. W \cup A \subseteq Caller
      BY <2>4
    <3> QED
      BY <3>1, Part, Finite DEF n
  <2>9. asked[l] + Cardinality(W) <= k /\ asked[l] <= m + Cardinality(A)
    BY <2>2, <2>3, <2>5, <2>6, <2>7, <2>8
  <2> QED
    BY <1>2, <1>3, <2>9 DEF AskedFew, W, A, m, n, k
<1> QED
  BY <1>4, <1>5

(* Who asks was willing to, and has asked.                                 *)
LEMMA SummarizeAsked ==
  ASSUME Types, NEW c \in Caller, Summarize(c), NEW l \in Lecture,
         AskedFew(l)
  PROVE  AskedFew(l)'
<1>1. /\ OneMoves(c) /\ call[c].pc = "summarize"
      /\ call'[c].pc = "findSummary"
      /\ call'[c].lecture = call[c].lecture
  BY SummaryMoves
<1>2. UNCHANGED <<lecture, summary, crashes>>
  BY DEF Summarize, tables, Bounds
<1>3. Settled(l)' <=> Settled(l)
  BY <1>2 DEF Settled
<1>4. CASE call[c].lecture # l
  <2>1. asked'[l] = asked[l]
    BY <1>4 DEF Summarize, Types
  <2>2. Willing(l)' = Willing(l) /\ Answered(l)' = Answered(l)
    BY <1>1, <1>4 DEF Willing, Answered, OneMoves
  <2> QED
    BY <1>2, <1>3, <2>1, <2>2 DEF AskedFew
<1>5. CASE call[c].lecture = l
  <2>1. asked'[l] = asked[l] + 1 /\ asked[l] \in Nat
    BY <1>5 DEF Summarize, Types
  <2>2. /\ c \in Willing(l) /\ Willing(l)' = Willing(l) \ {c}
        /\ c \notin Answered(l) /\ Answered(l)' = Answered(l) \cup {c}
    BY <1>1, <1>5 DEF Willing, Answered, OneMoves
  <2>3. Cardinality(Willing(l)') = Cardinality(Willing(l)) - 1
    BY <2>2, AskersCounted, FS_RemoveElement
  <2>4. Cardinality(Answered(l)') = Cardinality(Answered(l)) + 1
    BY <2>2, AskersCounted, FS_AddElement
  <2>5. asked'[l] + Cardinality(Willing(l)') <=
          (crashes' + 1) * Cardinality(Caller)
    BY <1>2, <2>1, <2>3, AskersCounted DEF AskedFew
  <2>6. ~Settled(l)' => asked'[l] <= crashes' * Cardinality(Caller)
                                     + Cardinality(Answered(l)')
    BY <1>2, <1>3, <2>1, <2>4, AskersCounted, Products DEF AskedFew
  <2> QED
    BY <2>5, <2>6 DEF AskedFew
<1> QED
  BY <1>4, <1>5

(* Who has asked keeps a summary, or finds that the lecture is settled.    *)
LEMMA KeepSummaryAsked ==
  ASSUME Types, NEW c \in Caller, KeepSummary(c), Held(c),
         NEW l \in Lecture, AskedFew(l)
  PROVE  AskedFew(l)'
<1>1. OneMoves(c) /\ call[c].pc = "keepSummary" /\ call'[c].pc = "idle"
  BY SummaryMoves
<1>2. UNCHANGED <<lecture, asked, crashes>>
  BY DEF KeepSummary, Bounds
<1>3. Willing(l)' \subseteq Willing(l)
  BY <1>1 DEF Willing, OneMoves
<1>4. Settled(l) => Settled(l)'
  BY LecturesAge DEF StudyNext, Serves
<1>5. CASE call[c].lecture # l
  <2>1. Answered(l)' = Answered(l)
    BY <1>1, <1>5 DEF Answered, OneMoves
  <2> QED
    BY <1>2, <1>3, <1>4, <2>1, StayAsked
<1>6. CASE call[c].lecture = l
  <2>1. lecture[l] # "new" /\ (call[c].found => Settled(l))
    BY <1>1, <1>6 DEF Held, OfLecture
  <2>2. call[c].kind # "none" /\ call[c].found \in BOOLEAN
    BY <1>1 DEF Types, Knows, CallRec
  <2>3. summary' = IF Exists(l) /\ call[c].found = (summary[l] # "none")
                   THEN [summary EXCEPT ![l] = call[c].kind] ELSE summary
    BY <1>6 DEF KeepSummary
  <2>4. Settled(l)'
    <3>1. CASE summary[l] # "none" \/ lecture[l] = "deleted"
      BY <1>4, <3>1 DEF Settled
    <3>2. CASE summary[l] = "none" /\ lecture[l] # "deleted"
      <4>1. Exists(l) /\ ~call[c].found
        BY <2>1, <3>2 DEF Settled, Exists, Types, LectureState
      <4>2. call[c].found = (summary[l] # "none")
        BY <2>2, <3>2, <4>1
      <4> QED
        BY <2>2, <2>3, <4>1, <4>2 DEF Settled, Types
    <3> QED
      BY <3>1, <3>2
  <2> QED
    BY <1>2, <1>3, <1>4, <2>4, StayAsked
<1> QED
  BY <1>5, <1>6

LEMMA AskedStep ==
  ASSUME Types, StudyNext, ReadySegs, \A c \in Caller : Held(c),
         NEW l \in Lecture, AskedFew(l)
  PROVE  AskedFew(l)'
<1>0. Settled(l) => Settled(l)'
  BY LecturesAge
<1>1. ASSUME NEW k \in Lecture,
             CreateLecture(k) \/ Transcribe(k) \/ DeleteLecture(k)
      PROVE  AskedFew(l)'
  <2>1. UNCHANGED <<call, asked, crashes>>
    BY <1>1 DEF CreateLecture, Transcribe, DeleteLecture, Bounds
  <2>2. Willing(l)' = Willing(l) /\ Answered(l)' = Answered(l)
    BY <2>1 DEF Willing, Answered
  <2> QED
    BY <1>0, <2>1, <2>2, StayAsked
<1>2. ASSUME NEW c \in Caller, Call(c) \/ Serves(c)
      PROVE  AskedFew(l)'
  <2>1. CASE /\ OneMoves(c) /\ call'[c].pc # "summarize"
             /\ \/ call[c].pc \notin {"findSummary", "keepSummary"}
                \/ /\ call'[c].pc \in {"findSummary", "keepSummary"}
                   /\ call'[c].lecture = call[c].lecture
             /\ UNCHANGED <<asked, crashes>>
    <3>1. Willing(l)' \subseteq Willing(l)
      BY <2>1 DEF Willing, OneMoves
    <3>2. Answered(l) \subseteq Answered(l)'
      BY <2>1 DEF Answered, OneMoves
    <3> QED
      BY <1>0, <2>1, <3>1, <3>2, StayAsked
  <2>2. CASE Call(c)
    <3>1. call[c].pc = "idle" /\ UNCHANGED <<asked, crashes>>
      BY <2>2 DEF Call, At
    <3> QED
      BY <2>1, <2>2, <3>1, CallMoves
  <2>3. CASE GetSummary(c)
    BY <2>3, GetSummaryAsked
  <2>4. CASE Summarize(c)
    BY <2>4, SummarizeAsked
  <2>5. CASE KeepSummary(c)
    BY <2>5, KeepSummaryAsked
  <2>6. CASE FindSummary(c)
    BY <2>1, <2>6, SummaryMoves DEF FindSummary, Bounds
  <2>7. CASE MakeCards(c) \/ FindCards(c) \/ KeepCards(c)
    BY <2>1, <2>7, CardMoves DEF MakeCards, FindCards, KeepCards, Bounds
  <2>8. CASE MakeQuiz(c) \/ KeepQuiz(c) \/ KeepQuestions(c)
             \/ SubmitQuiz(c)
    BY <2>1, <2>8, QuizMoves
       DEF MakeQuiz, KeepQuiz, KeepQuestions, SubmitQuiz, Bounds
  <2>9. CASE ReadCard(c) \/ KeepReview(c)
    BY <2>1, <2>9, ReviewMoves DEF ReadCard, KeepReview, Bounds
  <2> QED
    BY <1>2, <2>2, <2>3, <2>4, <2>5, <2>6, <2>7, <2>8, <2>9 DEF Serves
<1> QED
  BY <1>1, <1>2 DEF StudyNext

(* When the app dies nobody is asking any more.                            *)
LEMMA DieAsked ==
  ASSUME Types, Die, NEW l \in Lecture, AskedFew(l)
  PROVE  AskedFew(l)'
<1>1. crashes' = crashes + 1 /\ crashes' \in Nat
  BY DEF Die, Types
<1>2. asked' = asked /\ asked[l] \in Nat
  BY DEF Die, Types
<1>3. Willing(l)' = {} /\ Answered(l)' = {}
  BY QuietKnows DEF Die, Willing, Answered
<1>4. Cardinality(Willing(l)') = 0 /\ Cardinality(Answered(l)') = 0
  BY <1>3, FS_EmptySet
<1>5. asked[l] <= (crashes + 1) * Cardinality(Caller)
  BY <1>2, AskersCounted, Products, Finite DEF AskedFew
<1>6. /\ crashes' * Cardinality(Caller) = (crashes + 1) * Cardinality(Caller)
      /\ (crashes' + 1) * Cardinality(Caller) =
           crashes' * Cardinality(Caller) + Cardinality(Caller)
  BY <1>1, Product, Finite
<1> QED
  BY <1>2, <1>4, <1>5, <1>6, Products, Finite DEF AskedFew

LEMMA FewAskedStep ==
  ASSUME Types, FileTypes, FewAsked, [Next]_vars
  PROVE  FewAsked'
<1>1. CASE wiped'
  BY <1>1 DEF FewAsked
<1>2. CASE ~wiped'
  <2>0. ~wiped
    BY <1>2, WipedStays
  <2>1. /\ ReadySegs /\ \A c \in Caller : Held(c)
        /\ \A l \in Lecture : AskedFew(l)
    BY <2>0, FewAskedParts
  <2>2. CASE StudyNext
    <3>1. ReadySegs' /\ \A c \in Caller : Held(c)'
      BY <2>1, <2>2, SegsReady, HeldStep
    <3>2. \A l \in Lecture : AskedFew(l)'
      BY <2>1, <2>2, AskedStep
    <3> QED
      BY <3>1, <3>2 DEF FewAsked, ReadySegs, Held, AskedFew
  <2>3. CASE Die
    <3>1. ReadySegs'
      BY <2>1, <2>3 DEF Die, tables, ReadySegs
    <3>2. \A c \in Caller : Held(c)'
      BY <2>3, QuietKnows DEF Die, Held, OfLecture
    <3>3. \A l \in Lecture : AskedFew(l)'
      BY <2>1, <2>3, DieAsked
    <3> QED
      BY <3>1, <3>2, <3>3 DEF FewAsked, ReadySegs, Held, AskedFew
  <2>4. CASE UNCHANGED studyVars
    BY <2>4 DEF studyVars, tables, FewAsked, Settled, Willing, Answered
  <2>5. ~Commit
    BY <1>2 DEF Commit
  <2> QED
    BY <2>2, <2>3, <2>4, <2>5
       DEF Next, vars, Studies, StartBackup, StartRestore, Proceeds,
           ReadTable, WriteArchive, LoadArchive, RollBack, RestoreDone, Crash
<1> QED
  BY <1>1, <1>2

LEMMA FewAskedInit == ASSUME Init PROVE FewAsked
<1>1. /\ segs = {} /\ call = [c \in Caller |-> Quiet]
      /\ asked = [l \in Lecture |-> 0] /\ crashes = 0
  BY DEF Init, StudyInit
<1>2. \A c \in Caller : Held(c)
  BY <1>1, QuietKnows DEF Held, OfLecture
<1>3. ASSUME NEW l \in Lecture
      PROVE  AskedFew(l)
  <2>1. Willing(l) = {} /\ Answered(l) = {} /\ asked[l] = 0
    BY <1>1, QuietKnows DEF Willing, Answered
  <2>2. Cardinality(Willing(l)) = 0 /\ Cardinality(Answered(l)) = 0
    BY <2>1, FS_EmptySet
  <2> QED
    BY <1>1, <2>1, <2>2, Finite DEF AskedFew
<1> QED
  BY <1>1, <1>2, <1>3, FewAskedParts DEF ReadySegs

(* The provider is asked for the summary of a lecture by the calls of one  *)
(* run that overlap with the first one, and then never again (SUMMARY_GET, *)
(* generateSummary).                                                       *)
THEOREM SummariesAskedOnce == Spec => []SummaryAskedOnce
<1>1. Types /\ FileTypes /\ FewAsked /\ [Next]_vars => FewAsked'
  BY FewAskedStep
<1>2. Types /\ FewAsked => SummaryAskedOnce
  <2>1. ASSUME Types, FewAsked, ~wiped, NEW l \in Lecture
        PROVE  asked[l] <= (crashes + 1) * Cardinality(Caller)
    <3>1. AskedFew(l) /\ asked[l] \in Nat
      BY <2>1, FewAskedParts DEF Types
    <3> QED
      BY <2>1, <3>1, AskersCounted, Products, Finite DEF AskedFew
  <2> QED
    BY <2>1 DEF SummaryAskedOnce
<1> QED
  BY <1>1, <1>2, FewAskedInit, LibraryTypes, PTL DEF Spec

-----------------------------------------------------------------------------
(* Induction, from the least number for which something fails.             *)

Less == {ss \in Nat \X Nat : ss[1] < ss[2]}

LEMMA LessWellFounded == IsWellFoundedOn(Less, Nat)
  BY NatLessThanWellFounded DEF OpToRel, Less

LEMMA NatUp ==
  ASSUME NEW S \in SUBSET Nat, 0 \in S, \A n \in S : n + 1 \in S
  PROVE  S = Nat
<1> SUFFICES ASSUME Nat \ S # {}
             PROVE  FALSE
  OBVIOUS
<1>1. PICK m \in Nat \ S : \A n \in Nat \ S : <<n, m>> \notin Less
  BY LessWellFounded, WFMin
<1>2. m - 1 \in Nat /\ m - 1 < m /\ m = (m - 1) + 1
  OBVIOUS
<1>3. m - 1 \in S
  BY <1>1, <1>2 DEF Less
<1> QED
  BY <1>1, <1>2, <1>3

(* Adding up: there is such a function, and it is what Totals says.        *)
LEMMA TotalsAre ==
  ASSUME NEW ns \in Seq(Nat)
  PROVE  /\ Totals(ns) \in [0 .. Len(ns) -> Nat]
         /\ Totals(ns)[0] = 0
         /\ \A n \in 1 .. Len(ns) : Totals(ns)[n] = Totals(ns)[n - 1] + ns[n]
<1> DEFINE N == Len(ns)
           Adds(g, n) == /\ g[0] = 0
                         /\ \A k \in 1 .. n : g[k] = g[k - 1] + ns[k]
           Added(n) == \E g \in [0 .. n -> Nat] : Adds(g, n)
           S == {n \in Nat : n <= N => Added(n)}
<1>1. N \in Nat /\ \A n \in 1 .. N : ns[n] \in Nat
  OBVIOUS
<1> HIDE DEF N
<1>2. 0 \in S
  <2>1. /\ [k \in 0 .. 0 |-> 0] \in [0 .. 0 -> Nat]
        /\ Adds([k \in 0 .. 0 |-> 0], 0)
    OBVIOUS
  <2> QED
    BY <2>1
<1>3. ASSUME NEW n \in S
      PROVE  n + 1 \in S
  <2>0. n \in Nat /\ (n <= N => Added(n))
    <3> HIDE DEF Added
    <3> QED
      BY <1>3
  <2> SUFFICES ASSUME n + 1 <= N
               PROVE  Added(n + 1)
    <3> HIDE DEF Added
    <3> QED
      BY <2>0
  <2>1. n \in Nat /\ Added(n) /\ ns[n + 1] \in Nat
    <3>1. n <= N /\ n + 1 \in 1 .. N
      BY <1>1, <2>0
    <3> HIDE DEF Added
    <3> QED
      BY <1>1, <2>0, <3>1
  <2>2. PICK g \in [0 .. n -> Nat] : Adds(g, n)
    BY <2>1
  <2> DEFINE h == [k \in 0 .. n + 1 |->
                     IF k = n + 1 THEN g[n] + ns[n + 1] ELSE g[k]]
  <2>3. h \in [0 .. n + 1 -> Nat]
    BY <2>1, <2>2
  <2>4. /\ h[n + 1] = g[n] + ns[n + 1]
        /\ \A k \in 0 .. n : h[k] = g[k]
    BY <2>1
  <2> HIDE DEF h
  <2>5. h[0] = 0
    BY <2>1, <2>2, <2>4
  <2>6. ASSUME NEW k \in 1 .. n + 1
        PROVE  h[k] = h[k - 1] + ns[k]
    <3>1. CASE k = n + 1
      BY <2>1, <2>4, <3>1
    <3>2. CASE k # n + 1
      <4>1. k \in 1 .. n /\ k \in 0 .. n /\ k - 1 \in 0 .. n
        BY <2>1, <3>2
      <4> QED
        BY <2>2, <2>4, <4>1
    <3> QED
      BY <3>1, <3>2
  <2>7. Adds(h, n + 1)
    BY <2>5, <2>6
  <2> QED
    BY <2>3, <2>7
<1>4. S \in SUBSET Nat
  OBVIOUS
<1>5. Added(N)
  <2>1. S = Nat
    <3> HIDE DEF S
    <3> QED
      BY <1>2, <1>3, <1>4, NatUp
  <2> HIDE DEF Added
  <2> QED
    BY <1>1, <2>1
<1> DEFINE Body(g) == [n \in 0 .. N |-> IF n = 0 THEN 0 ELSE g[n - 1] + ns[n]]
           total == CHOOSE g : g = Body(g)
<1>6. PICK g \in [0 .. N -> Nat] : Adds(g, N)
  BY <1>5
<1>7. g = Body(g)
  <2>1. \A n \in 0 .. N : g[n] = Body(g)[n]
    BY <1>1, <1>6
  <2> QED
    BY <2>1
<1>8. total = Body(total)
  <2> HIDE DEF Body
  <2> QED
    BY <1>7
<1>9. Totals(ns) = total
  BY DEF Totals, N
<1> HIDE DEF total
<1>10. /\ DOMAIN total = 0 .. N /\ total[0] = 0
       /\ \A n \in 1 .. N : total[n] = total[n - 1] + ns[n]
  BY <1>1, <1>8
<1>11. \A n \in 0 .. N : total[n] \in Nat
  <2> DEFINE T == {n \in Nat : n <= N => total[n] \in Nat}
  <2>1. 0 \in T
    BY <1>10
  <2>2. ASSUME NEW n \in T
        PROVE  n + 1 \in T
    <3>1. CASE n + 1 <= N
      <4>1. n + 1 \in 1 .. N /\ (n + 1) - 1 = n /\ total[n] \in Nat
        BY <1>1, <2>2, <3>1
      <4>2. total[n + 1] = total[n] + ns[n + 1] /\ ns[n + 1] \in Nat
        BY <1>1, <1>10, <4>1
      <4>3. total[n + 1] \in Nat
        BY <4>1, <4>2
      <4> QED
        BY <4>1, <4>3
    <3>2. CASE ~(n + 1 <= N)
      BY <3>2
    <3> QED
      BY <3>1, <3>2
  <2>3. T = Nat
    <3>1. T \in SUBSET Nat
      OBVIOUS
    <3> HIDE DEF T
    <3> QED
      BY <2>1, <2>2, <3>1, NatUp
  <2>4. \A n \in 0 .. N : n \in T /\ n <= N
    BY <2>3, <1>1
  <2> QED
    BY <2>4
<1>12. total = Body(total) /\ \A n \in 0 .. N : Body(total)[n] = total[n]
  BY <1>8
<1>13. total \in [0 .. N -> Nat]
  BY <1>11, <1>8
<1> QED
  BY <1>9, <1>10, <1>13 DEF N

LEMMA TotalsGrow ==
  ASSUME NEW ns \in Seq(Nat), NEW m \in 0 .. Len(ns), NEW n \in 0 .. Len(ns),
         m <= n
  PROVE  Totals(ns)[m] <= Totals(ns)[n]
<1> DEFINE at == Totals(ns)
           N == Len(ns)
           S == {k \in Nat : m + k <= N => at[m] <= at[m + k]}
<1>1. /\ N \in Nat /\ at \in [0 .. N -> Nat] /\ m \in Nat /\ m <= N
      /\ \A k \in 1 .. N : at[k] = at[k - 1] + ns[k] /\ ns[k] \in Nat
  BY TotalsAre
<1> HIDE DEF at, N
<1>2. 0 \in S
  BY <1>1
<1>3. ASSUME NEW k \in S
      PROVE  k + 1 \in S
  <2>1. CASE m + (k + 1) <= N
    <3>1. /\ k \in Nat /\ m + (k + 1) \in 1 .. N /\ m + k \in 0 .. N
          /\ (m + (k + 1)) - 1 = m + k /\ at[m] <= at[m + k]
      BY <1>1, <1>3, <2>1
    <3>2. at[m + (k + 1)] = at[m + k] + ns[m + (k + 1)]
      BY <1>1, <3>1
    <3>3. ns[m + (k + 1)] \in Nat /\ at[m + k] \in Nat /\ at[m] \in Nat
      BY <1>1, <3>1
    <3>4. at[m] <= at[m + (k + 1)]
      BY <3>1, <3>2, <3>3
    <3> QED
      BY <3>1, <3>4
  <2>2. CASE ~(m + (k + 1) <= N)
    BY <1>3, <2>2
  <2> QED
    BY <2>1, <2>2
<1>4. S = Nat
  <2>1. S \in SUBSET Nat
    OBVIOUS
  <2> HIDE DEF S
  <2> QED
    BY <1>2, <1>3, <2>1, NatUp
<1>5. n - m \in Nat /\ m + (n - m) = n /\ n <= N
  BY <1>1 DEF N
<1>6. n - m \in S
  BY <1>4, <1>5
<1> QED
  BY <1>5, <1>6 DEF at

-----------------------------------------------------------------------------
(* The file of a backup.                                                   *)

Name == {"data.json", "manifest.json"} \cup STRING
Entry == [name : Name, nameLen : Nat, size : Nat]

LEMMA Offsets ==
  ASSUME NEW es \in Seq(Entry)
  PROVE  /\ Offset(es) \in [0 .. Len(es) -> Nat] /\ Offset(es)[0] = 0
         /\ \A i \in 1 .. Len(es) :
              Offset(es)[i]
                = Offset(es)[i - 1] + LocalHeader + es[i].nameLen + es[i].size
         /\ \A i, j \in 0 .. Len(es) : i <= j => Offset(es)[i] <= Offset(es)[j]
<1> DEFINE ns == [i \in DOMAIN es |-> EntrySize(es[i])]
<1>1. ns \in Seq(Nat) /\ Len(ns) = Len(es)
      /\ \A i \in 1 .. Len(es) :
           ns[i] = LocalHeader + es[i].nameLen + es[i].size
  <2>1. DOMAIN es = 1 .. Len(es) /\ Len(es) \in Nat
        /\ \A i \in 1 .. Len(es) : es[i] \in Entry
    OBVIOUS
  <2>2. \A e \in Entry : EntrySize(e) \in Nat
                         /\ EntrySize(e) = LocalHeader + e.nameLen + e.size
    BY DEF Entry, EntrySize, LocalHeader
  <2>3. ns \in [1 .. Len(es) -> Nat]
    BY <2>1, <2>2
  <2> QED
    BY <2>1, <2>2, <2>3
<1>2. Offset(es) = Totals(ns)
  BY DEF Offset
<1> HIDE DEF ns
<1>3. /\ Totals(ns) \in [0 .. Len(es) -> Nat] /\ Totals(ns)[0] = 0
      /\ \A i \in 1 .. Len(es) : Totals(ns)[i] = Totals(ns)[i - 1] + ns[i]
  BY <1>1, TotalsAre
<1>4. \A i, j \in 0 .. Len(es) : i <= j => Totals(ns)[i] <= Totals(ns)[j]
  BY <1>1, TotalsGrow
<1>5. ASSUME NEW i \in 1 .. Len(es)
      PROVE  Totals(ns)[i]
               = Totals(ns)[i - 1] + LocalHeader + es[i].nameLen + es[i].size
  <2>1. Totals(ns)[i] = Totals(ns)[i - 1] + ns[i]
        /\ ns[i] = LocalHeader + es[i].nameLen + es[i].size
    BY <1>1, <1>3
  <2>2. i - 1 \in 0 .. Len(es) /\ es[i] \in Entry
    OBVIOUS
  <2>3. /\ Totals(ns)[i - 1] \in Nat
        /\ es[i].nameLen \in Nat /\ es[i].size \in Nat
    BY <1>3, <2>2 DEF Entry
  <2>4. \A p, a, b \in Nat :
          p + (LocalHeader + a + b) = p + LocalHeader + a + b
    BY DEF LocalHeader
  <2>5. Totals(ns)[i - 1] + (LocalHeader + es[i].nameLen + es[i].size)
          = Totals(ns)[i - 1] + LocalHeader + es[i].nameLen + es[i].size
    BY <2>3, <2>4
  <2> QED
    BY <2>1, <2>5
<1> QED
  BY <1>2, <1>3, <1>4, <1>5

LEMMA DirectoryHasSize ==
  ASSUME NEW es \in Seq(Entry)
  PROVE  DirectorySize(es) \in Nat
<1> DEFINE ns == [i \in DOMAIN es |-> DirectoryHeader + es[i].nameLen]
<1>1. ASSUME NEW i \in DOMAIN es
      PROVE  DirectoryHeader + es[i].nameLen \in Nat
  <2>1. es[i] \in Entry
    OBVIOUS
  <2> QED
    BY <2>1 DEF Entry, DirectoryHeader
<1>2. ns \in Seq(Nat)
  <2>1. ns \in [1 .. Len(es) -> Nat] /\ Len(es) \in Nat
    BY <1>1
  <2> QED
    BY <2>1
<1>3. DirectorySize(es) = Totals(ns)[Len(ns)]
  BY DEF DirectorySize, Total
<1> HIDE DEF ns
<1>4. Len(ns) \in 0 .. Len(ns) /\ Totals(ns) \in [0 .. Len(ns) -> Nat]
  BY <1>2, TotalsAre
<1> QED
  BY <1>3, <1>4

(* Reading stops where an entry is the first of its name.                  *)
LEMMA ExtractFirst ==
  ASSUME NEW es \in Seq(Entry), NEW archive, archive.entries = es,
         archive.length \in Nat, NEW i \in 1 .. Len(es),
         \A j \in 1 .. i - 1 : es[j].name # es[i].name,
         Offset(es)[i - 1] < archive.length - LocalHeader,
         Offset(es)[i - 1] + LocalHeader + es[i].nameLen <= archive.length
  PROVE  Extract(archive, es[i].name)
           = [entry |-> i,
              size |-> IF Offset(es)[i] <= archive.length THEN es[i].size
                       ELSE archive.length - (Offset(es)[i - 1] + LocalHeader
                                             + es[i].nameLen)]
<1> DEFINE at == Offset(es)
           Named(j) == at[j - 1] + LocalHeader + es[j].nameLen
           hits == {j \in DOMAIN es :
                      /\ at[j - 1] < archive.length - LocalHeader
                      /\ Named(j) <= archive.length
                      /\ es[j].name = es[i].name}
           first == CHOOSE j \in hits : \A k \in hits : j <= k
           rest == archive.length - Named(first)
<1>1. Extract(archive, es[i].name)
        = IF hits = {} THEN Missing
          ELSE [entry |-> first,
                size |-> IF es[first].size <= rest THEN es[first].size
                         ELSE rest]
  BY DEF Extract
<1>2. DOMAIN es = 1 .. Len(es) /\ Len(es) \in Nat
  OBVIOUS
<1>3. i \in hits
  BY <1>2
<1>4. \A k \in hits : i <= k
  BY <1>2
<1>5. first = i
  <2>1. \A j \in hits : (\A k \in hits : j <= k) => j = i
    BY <1>2, <1>3, <1>4
  <2> HIDE DEF hits
  <2> QED
    BY <1>3, <1>4, <2>1
<1>6. at[i] = Named(i) + es[i].size /\ Named(i) \in Nat /\ es[i].size \in Nat
  <2>1. /\ at[i] = at[i - 1] + LocalHeader + es[i].nameLen + es[i].size
        /\ i - 1 \in 0 .. Len(es) /\ at \in [0 .. Len(es) -> Nat]
    BY Offsets
  <2> HIDE DEF at
  <2>2. at[i - 1] \in Nat /\ es[i].nameLen \in Nat /\ es[i].size \in Nat
    <3>1. es[i] \in Entry
      OBVIOUS
    <3> QED
      BY <2>1, <3>1 DEF Entry
  <2> QED
    BY <2>1, <2>2 DEF LocalHeader
<1>7. es[i].size <= archive.length - Named(i) <=> at[i] <= archive.length
  <2> HIDE DEF at, Named
  <2> QED
    BY <1>6
<1> HIDE DEF hits, first
<1> QED
  BY <1>1, <1>3, <1>5, <1>7

(* Whatever is put into an archive is found under its name, the first of   *)
(* that name and all of it, for any entries (buildZip, extractFromZip).    *)
THEOREM EveryEntryReadsBack ==
  ASSUME NEW es \in Seq(Entry), NEW i \in DOMAIN es,
         \A j \in 1 .. i - 1 : es[j].name # es[i].name
  PROVE  Extract(ZipFile(es), es[i].name) = [entry |-> i, size |-> es[i].size]
<1> DEFINE at == Offset(es)
           N == Len(es)
           archive == ZipFile(es)
<1>1. N \in Nat /\ i \in 1 .. N /\ i - 1 \in 0 .. N /\ i \in 0 .. N
      /\ N \in 0 .. N /\ i <= N /\ es[i] \in Entry
  OBVIOUS
<1>2. /\ at[i - 1] \in Nat /\ at[i] \in Nat /\ at[N] \in Nat
      /\ at[i] = at[i - 1] + LocalHeader + es[i].nameLen + es[i].size
      /\ at[i] <= at[N]
  BY <1>1, Offsets
<1>3. /\ archive.entries = es
      /\ archive.length = at[N] + DirectorySize(es) + EndRecord
  BY DEF ZipFile, ZipSize
<1>4. DirectorySize(es) \in Nat
  BY DirectoryHasSize
<1>5. es[i].nameLen \in Nat /\ es[i].size \in Nat
  BY <1>1 DEF Entry
<1> HIDE DEF at, N, archive
<1>6. /\ archive.length \in Nat /\ at[i] <= archive.length
      /\ at[i - 1] < archive.length - LocalHeader
      /\ at[i - 1] + LocalHeader + es[i].nameLen <= archive.length
  <2>1. \A a, b, nl, sz, all, dir \in Nat :
          b = a + LocalHeader + nl + sz /\ b <= all
            => /\ all + dir + EndRecord \in Nat /\ b <= all + dir + EndRecord
               /\ a < (all + dir + EndRecord) - LocalHeader
               /\ a + LocalHeader + nl <= all + dir + EndRecord
    BY DEF LocalHeader, EndRecord
  <2>2. PICK a \in Nat, b \in Nat, nl \in Nat, sz \in Nat, all \in Nat,
             dir \in Nat :
          /\ a = at[i - 1] /\ b = at[i] /\ all = at[N]
          /\ nl = es[i].nameLen /\ sz = es[i].size /\ dir = DirectorySize(es)
    BY <1>2, <1>4, <1>5
  <2>3. b = a + LocalHeader + nl + sz /\ b <= all
    BY <1>2, <2>2
  <2>4. /\ all + dir + EndRecord \in Nat /\ b <= all + dir + EndRecord
        /\ a < (all + dir + EndRecord) - LocalHeader
        /\ a + LocalHeader + nl <= all + dir + EndRecord
    BY <2>1, <2>3
  <2>5. archive.length = all + dir + EndRecord
    BY <1>3, <2>2
  <2> QED
    BY <2>2, <2>4, <2>5
<1>7. Extract(archive, es[i].name)
        = [entry |-> i,
           size |-> IF at[i] <= archive.length THEN es[i].size
                    ELSE archive.length - (at[i - 1] + LocalHeader
                                          + es[i].nameLen)]
  BY <1>1, <1>3, <1>6, ExtractFirst DEF at, N
<1> QED
  BY <1>6, <1>7 DEF archive

(* The archive of createBackup: the audio files are named audio/...        *)
AudioEntry == {e \in Entry : e.name \notin {"data.json", "manifest.json"}}

LEMMA BackupEntries ==
  ASSUME NEW data \in Nat, NEW manifest \in Nat, NEW audio \in Seq(AudioEntry)
  PROVE  LET es == Entries(data, audio, manifest)
         IN  /\ es \in Seq(Entry) /\ Len(es) = Len(audio) + 2
             /\ es[1] = [name |-> "data.json", nameLen |-> 9, size |-> data]
             /\ es[Len(es)] = [name |-> "manifest.json", nameLen |-> 13,
                               size |-> manifest]
             /\ \A i \in 1 .. Len(es) - 1 : es[i].name # "manifest.json"
<1> DEFINE d == [name |-> "data.json", nameLen |-> 9, size |-> data]
           m == [name |-> "manifest.json", nameLen |-> 13, size |-> manifest]
           n == Len(audio)
           es == Entries(data, audio, manifest)
<1>1. d \in Entry /\ m \in Entry
  <2>1. "data.json" \in Name /\ "manifest.json" \in Name
    BY DEF Name
  <2>2. 9 \in Nat /\ 13 \in Nat
    OBVIOUS
  <2> QED
    BY <2>1, <2>2 DEF Entry
<1>2. audio \in Seq(Entry) /\ n \in Nat
      /\ \A i \in 1 .. n : audio[i].name # "manifest.json"
  BY DEF AudioEntry
<1>3. es = <<d>> \o audio \o <<m>>
  BY DEF Entries
<1> HIDE DEF d, m, n
<1>4. /\ <<d>> \in Seq(Entry) /\ <<m>> \in Seq(Entry)
      /\ Len(<<d>>) = 1 /\ Len(<<m>>) = 1 /\ <<d>>[1] = d /\ <<m>>[1] = m
  BY <1>1
<1> DEFINE first == <<d>> \o audio
<1>5. first \in Seq(Entry)
  BY <1>2, <1>4
<1>6. /\ Len(first) = n + 1 /\ first[1] = d
      /\ \A i \in 2 .. n + 1 : first[i] = audio[i - 1]
  BY <1>2, <1>4 DEF n
<1>7. es = first \o <<m>>
  BY <1>3
<1> HIDE DEF first
<1>8. /\ es \in Seq(Entry) /\ Len(es) = n + 2 /\ es[n + 2] = m
      /\ \A i \in 1 .. n + 1 : es[i] = first[i]
  BY <1>2, <1>4, <1>5, <1>6, <1>7
<1>9. ASSUME NEW i \in 1 .. n + 1
      PROVE  es[i].name # "manifest.json"
  <2>1. CASE i = 1
    BY <1>2, <1>6, <1>8, <2>1 DEF d
  <2>2. CASE i # 1
    <3>1. i \in 2 .. n + 1 /\ i - 1 \in 1 .. n
      BY <1>2, <2>2
    <3> QED
      BY <1>2, <1>6, <1>8, <3>1
  <2> QED
    BY <2>1, <2>2
<1>10. 1 \in 1 .. n + 1 /\ (n + 2) - 1 = n + 1
  BY <1>2
<1> HIDE DEF es
<1>11. /\ es \in Seq(Entry) /\ Len(es) = Len(audio) + 2 /\ es[1] = d
       /\ es[Len(es)] = m
       /\ \A i \in 1 .. Len(es) - 1 : es[i].name # "manifest.json"
  BY <1>6, <1>8, <1>9, <1>10 DEF n
<1> QED
  BY <1>11 DEF es, d, m

(* A file that was cut off, wherever, is restored from exactly if the cut  *)
(* is behind all of its entries, and then the data is whole; the preview   *)
(* says the same (previewRestore, restoreBackup).                          *)
THEOREM AnyCutIsRefused ==
  ASSUME NEW data \in Nat, NEW manifest \in Nat, NEW audio \in Seq(AudioEntry),
         NEW n \in Nat
  PROVE  LET es == Entries(data, audio, manifest)
             whole == n >= Offset(es)[Len(es)]
         IN  Loads(Cut(es, n)) = whole /\ Previews(Cut(es, n)) = whole
<1> DEFINE es == Entries(data, audio, manifest)
           N == Len(es)
           at == Offset(es)
           archive == Cut(es, n)
<1>1. /\ es \in Seq(Entry) /\ N \in Nat /\ N > 1
      /\ es[1] = [name |-> "data.json", nameLen |-> 9, size |-> data]
      /\ es[N] = [name |-> "manifest.json", nameLen |-> 13, size |-> manifest]
      /\ \A i \in 1 .. N - 1 : es[i].name # "manifest.json"
  BY BackupEntries
<1>2. archive.entries = es /\ archive.length = n /\ archive.damaged = {}
  BY DEF Cut, ZipFile
<1> HIDE DEF es, N, archive
<1>3. 1 \in 1 .. N /\ N \in 1 .. N /\ N - 1 \in 0 .. N /\ 1 <= N - 1
      /\ 0 \in 0 .. N /\ N \in 0 .. N /\ 1 \in 0 .. N
  BY <1>1
<1>4. /\ at \in [0 .. N -> Nat] /\ at[0] = 0
      /\ at[1] = at[0] + LocalHeader + es[1].nameLen + es[1].size
      /\ at[N] = at[N - 1] + LocalHeader + es[N].nameLen + es[N].size
      /\ at[1] <= at[N - 1]
  <2>1. /\ at \in [0 .. N -> Nat] /\ at[0] = 0
        /\ \A i \in 1 .. N :
             at[i] = at[i - 1] + LocalHeader + es[i].nameLen + es[i].size
        /\ \A i, j \in 0 .. N : i <= j => at[i] <= at[j]
    BY <1>1, Offsets DEF N
  <2> HIDE DEF at
  <2>2. 1 - 1 = 0
    OBVIOUS
  <2> QED
    BY <1>3, <2>1, <2>2
<1> HIDE DEF at
<1>5. /\ at[1] = 39 + data /\ at[N] = at[N - 1] + 43 + manifest
      /\ at[N - 1] \in Nat /\ at[1] <= at[N - 1]
  <2>1. es[1].nameLen = 9 /\ es[1].size = data
        /\ es[N].nameLen = 13 /\ es[N].size = manifest
    BY <1>1
  <2>2. at[N - 1] \in Nat
    BY <1>3, <1>4
  <2> QED
    BY <1>4, <2>1, <2>2 DEF LocalHeader
<1>6. Previews(archive) <=> n >= at[N]
  <2> DEFINE hits == {i \in DOMAIN es :
                        /\ at[i - 1] < archive.length - LocalHeader
                        /\ at[i - 1] + LocalHeader + es[i].nameLen
                             <= archive.length
                        /\ es[i].name = "manifest.json"}
             found == Extract(archive, "manifest.json")
  <2>1. CASE at[N - 1] < n - LocalHeader
             /\ at[N - 1] + LocalHeader + es[N].nameLen <= n
    <3>1. /\ es[N].name = "manifest.json" /\ es[N].nameLen = 13
          /\ es[N].size = manifest
      BY <1>1
    <3>2. found = [entry |-> N,
                   size |-> IF at[N] <= n THEN manifest
                            ELSE n - (at[N - 1] + LocalHeader + 13)]
      <4>1. \A j \in 1 .. N - 1 : es[j].name # es[N].name
        BY <1>1, <3>1
      <4>2. Extract(archive, es[N].name)
              = [entry |-> N,
                 size |-> IF at[N] <= n THEN es[N].size
                          ELSE n - (at[N - 1] + LocalHeader + es[N].nameLen)]
        BY <1>1, <1>2, <1>3, <2>1, <4>1, ExtractFirst DEF at, N
      <4> QED
        BY <3>1, <4>2
    <3>3. found.entry = N /\ found.entry # 0 /\ found # Missing
          /\ archive.entries[found.entry].size = manifest
      BY <1>1, <1>2, <3>1, <3>2 DEF Missing
    <3>4. Previews(archive) <=> found.size = manifest
      BY <1>2, <3>3 DEF Previews, Intact
    <3>5. CASE at[N] <= n
      BY <3>2, <3>4, <3>5
    <3>6. CASE ~(at[N] <= n)
      <4>1. found.size = n - (at[N - 1] + LocalHeader + 13)
        BY <3>2, <3>6
      <4>2. n - (at[N - 1] + LocalHeader + 13) # manifest /\ ~(n >= at[N])
        BY <1>5, <3>6 DEF LocalHeader
      <4> QED
        BY <3>4, <4>1, <4>2
    <3> QED
      BY <1>5, <3>5, <3>6
  <2>2. CASE ~(at[N - 1] < n - LocalHeader
               /\ at[N - 1] + LocalHeader + es[N].nameLen <= n)
    <3>1. found = IF hits = {} THEN Missing ELSE found
      BY <1>2 DEF Extract, at
    <3>2. hits = {}
      <4>1. \A i \in DOMAIN es : i \in 1 .. N
        BY <1>1 DEF N
      <4>2. \A i \in 1 .. N : i = N \/ i \in 1 .. N - 1
        BY <1>1
      <4> QED
        BY <1>1, <1>2, <2>2, <4>1, <4>2
    <3>3. ~(n >= at[N])
      <4>1. es[N].nameLen = 13
        BY <1>1
      <4> QED
        BY <1>5, <2>2, <4>1 DEF LocalHeader
    <3>4. found = Missing
      BY <3>1, <3>2
    <3> QED
      BY <3>3, <3>4 DEF Previews, Intact
  <2> QED
    BY <2>1, <2>2
<1>7. n >= at[N] => Intact(archive, Extract(archive, "data.json"))
  <2> SUFFICES ASSUME n >= at[N]
               PROVE  Intact(archive, Extract(archive, "data.json"))
    OBVIOUS
  <2>1. es[1].name = "data.json" /\ es[1].nameLen = 9 /\ es[1].size = data
    BY <1>1
  <2>2. 1 - 1 = 0 /\ at[0] < n - LocalHeader
        /\ at[0] + LocalHeader + es[1].nameLen <= n /\ at[1] <= n
    BY <1>4, <1>5, <2>1 DEF LocalHeader
  <2>3. Extract(archive, "data.json") = [entry |-> 1, size |-> data]
    <3>1. \A j \in 1 .. 1 - 1 : es[j].name # es[1].name
      OBVIOUS
    <3>2. Extract(archive, es[1].name)
            = [entry |-> 1,
               size |-> IF at[1] <= n THEN es[1].size
                        ELSE n - (at[1 - 1] + LocalHeader + es[1].nameLen)]
      BY <1>1, <1>2, <1>3, <2>2, <3>1, ExtractFirst DEF at, N
    <3> QED
      BY <2>1, <2>2, <3>2
  <2> QED
    BY <1>2, <2>1, <2>3 DEF Intact, Missing
<1>8. Loads(archive) <=> n >= at[N]
  BY <1>6, <1>7 DEF Loads, Previews
<1>9. Loads(archive) \in BOOLEAN /\ Previews(archive) \in BOOLEAN
  BY DEF Loads, Previews, Intact
<1> QED
  BY <1>6, <1>8, <1>9 DEF es, N, at, archive

(* Data that was damaged is never restored, although its preview is shown. *)
THEOREM DamagedDataIsRefused ==
  ASSUME NEW data \in Nat, NEW manifest \in Nat, NEW audio \in Seq(AudioEntry)
  PROVE  LET archive == [ZipFile(Entries(data, audio, manifest))
                        EXCEPT !.damaged = {1}]
         IN  Previews(archive) /\ ~Loads(archive)
<1> DEFINE es == Entries(data, audio, manifest)
           N == Len(es)
           zip == ZipFile(es)
           archive == [zip EXCEPT !.damaged = {1}]
<1>1. /\ es \in Seq(Entry) /\ N \in Nat /\ N > 1
      /\ es[1] = [name |-> "data.json", nameLen |-> 9, size |-> data]
      /\ es[N] = [name |-> "manifest.json", nameLen |-> 13, size |-> manifest]
      /\ \A i \in 1 .. N - 1 : es[i].name # "manifest.json"
  BY BackupEntries
<1>2. archive.entries = zip.entries /\ archive.length = zip.length
      /\ archive.damaged = {1} /\ zip.entries = es
  BY DEF ZipFile
<1> HIDE DEF es, N, archive, zip
<1>3. \A name : Extract(archive, name) = Extract(zip, name)
  BY <1>2 DEF Extract
<1>4. 1 \in DOMAIN es /\ N \in DOMAIN es /\ N # 1
      /\ es[1].name = "data.json" /\ es[N].name = "manifest.json"
  BY <1>1 DEF N
<1>5. Extract(zip, "data.json") = [entry |-> 1, size |-> es[1].size]
  <2>1. \A j \in 1 .. 1 - 1 : es[j].name # es[1].name
    OBVIOUS
  <2> QED
    BY <1>1, <1>4, <2>1, EveryEntryReadsBack DEF zip
<1>6. Extract(zip, "manifest.json") = [entry |-> N, size |-> es[N].size]
  BY <1>1, <1>4, EveryEntryReadsBack DEF zip
<1>7. Previews(archive)
  BY <1>1, <1>2, <1>3, <1>4, <1>6 DEF Previews, Intact, Missing
<1>8. ~Loads(archive)
  BY <1>2, <1>3, <1>5 DEF Loads, Intact
<1> QED
  BY <1>7, <1>8 DEF archive, es, zip

-----------------------------------------------------------------------------
(* The plan of a week and the score of a quiz.                             *)

LEMMA FirstHas ==
  ASSUME NEW X, NEW s \in Seq(X), NEW n \in Nat
  PROVE  /\ First(n, s) \in Seq(X)
         /\ Len(First(n, s)) = IF Len(s) < n THEN Len(s) ELSE n
         /\ \A i \in 1 .. Len(First(n, s)) : First(n, s)[i] = s[i]
<1> DEFINE m == IF Len(s) < n THEN Len(s) ELSE n
<1>1. Len(s) \in Nat /\ m \in Nat /\ m <= Len(s)
      /\ \A i \in 1 .. m : s[i] \in X
  OBVIOUS
<1>2. First(n, s) = SubSeq(s, 1, m)
  BY DEF First
<1> HIDE DEF m
<1>3. /\ SubSeq(s, 1, m) \in Seq(X) /\ Len(SubSeq(s, 1, m)) = m
      /\ \A i \in 1 .. m : SubSeq(s, 1, m)[i] = s[i]
  <2>1. /\ SubSeq(s, 1, m) \in Seq(X)
        /\ Len(SubSeq(s, 1, m)) = IF 1 <= m THEN m - 1 + 1 ELSE 0
        /\ \A i \in 1 .. m - 1 + 1 : SubSeq(s, 1, m)[i] = s[1 + i - 1]
    BY <1>1, SubSeqProperties
  <2> QED
    BY <1>1, <2>1
<1> QED
  BY <1>2, <1>3 DEF m

LEMMA RestHas ==
  ASSUME NEW X, NEW s \in Seq(X), NEW m \in Nat \ {0}
  PROVE  LET rest == SubSeq(s, m, Len(s))
         IN  /\ rest \in Seq(X)
             /\ Len(rest) = IF m <= Len(s) THEN Len(s) - m + 1 ELSE 0
             /\ \A i \in 1 .. Len(rest) : rest[i] = s[m + i - 1]
<1>1. Len(s) \in Nat /\ \A i \in m .. Len(s) : s[i] \in X
  OBVIOUS
<1>2. /\ SubSeq(s, m, Len(s)) \in Seq(X)
      /\ Len(SubSeq(s, m, Len(s))) = IF m <= Len(s) THEN Len(s) - m + 1 ELSE 0
      /\ \A i \in 1 .. Len(s) - m + 1 : SubSeq(s, m, Len(s))[i] = s[m + i - 1]
  BY <1>1, SubSeqProperties
<1> QED
  BY <1>1, <1>2

LEMMA DayHas ==
  ASSUME NEW X, NEW due \in Seq(X), NEW c, NEW m \in Nat \ {0}
  PROVE  Contains(First(2, SubSeq(due, m, Len(due))), c)
           <=> \E k \in DOMAIN due : k \in {m, m + 1} /\ due[k] = c
<1> DEFINE rest == SubSeq(due, m, Len(due))
           day == First(2, rest)
           n == Len(due)
<1>1. /\ rest \in Seq(X) /\ n \in Nat /\ DOMAIN due = 1 .. n
      /\ Len(rest) = IF m <= n THEN n - m + 1 ELSE 0
      /\ \A i \in 1 .. Len(rest) : rest[i] = due[m + i - 1]
  BY RestHas
<1> HIDE DEF rest, n
<1>2. /\ Len(day) = IF Len(rest) < 2 THEN Len(rest) ELSE 2
      /\ \A i \in 1 .. Len(day) : day[i] = rest[i]
  <2>1. 2 \in Nat
    OBVIOUS
  <2> QED
    BY <1>1, <2>1, FirstHas
<1> HIDE DEF day
<1>3. \A i \in 1 .. Len(day) : /\ i \in {1, 2} /\ i \in 1 .. Len(rest)
                               /\ m + i - 1 \in 1 .. n
                               /\ day[i] = due[m + i - 1]
  BY <1>1, <1>2
<1>4. ASSUME Contains(day, c)
      PROVE  \E k \in DOMAIN due : k \in {m, m + 1} /\ due[k] = c
  <2>1. PICK i \in 1 .. Len(day) : day[i] = c
    BY <1>4 DEF Contains
  <2>2. m + i - 1 \in {m, m + 1}
    BY <1>3
  <2> QED
    BY <1>1, <1>3, <2>1, <2>2
<1>5. ASSUME NEW k \in DOMAIN due, k \in {m, m + 1}, due[k] = c
      PROVE  Contains(day, c)
  <2>1. k \in 1 .. n /\ k - m + 1 \in {1, 2} /\ m + (k - m + 1) - 1 = k
    BY <1>1, <1>5
  <2>2. k - m + 1 \in 1 .. Len(day)
    <3>1. m <= n /\ k - m + 1 <= n - m + 1 /\ Len(rest) = n - m + 1
      BY <1>1, <1>5
    <3>2. Len(rest) \in Int /\ k - m + 1 \in Int
          /\ 1 <= k - m + 1 /\ k - m + 1 <= 2 /\ k - m + 1 <= Len(rest)
      <4>1. n \in Int /\ m \in Int /\ k \in Int
        BY <1>1, <2>1
      <4>2. k = m \/ k = m + 1
        BY <1>5
      <4>3. 1 <= k - m + 1 /\ k - m + 1 <= 2
        BY <4>1, <4>2
      <4>4. Len(rest) \in Int /\ k - m + 1 <= Len(rest)
        BY <3>1, <4>1
      <4> QED
        BY <4>1, <4>3, <4>4
    <3>3. CASE Len(rest) < 2
      <4>1. Len(day) = Len(rest)
        BY <1>2, <3>3
      <4> QED
        BY <3>2, <4>1
    <3>4. CASE ~(Len(rest) < 2)
      <4>1. Len(day) = 2
        BY <1>2, <3>4
      <4> QED
        BY <3>2, <4>1
    <3> QED
      BY <3>3, <3>4
  <2>3. day[k - m + 1] = due[k]
    BY <1>3, <2>1, <2>2
  <2> QED
    BY <1>5, <2>2, <2>3 DEF Contains
<1> QED
  BY <1>4, <1>5 DEF day, rest

(* "spaceRepetitionDue": whatever is due and weak, every card that the     *)
(* plan says is due is on one weekday, once, and no other is on any day    *)
(* (generateLocalStudyPlan).                                               *)
THEOREM EveryDueIsPlannedOnce ==
  ASSUME NEW X, NEW due \in Seq(X), NEW Y, NEW weak \in Seq(Y), NEW c,
         \A i, j \in DOMAIN due : due[i] = due[j] => i = j
  PROVE  LET plan == LocalPlan(weak, due)
             days == {d \in 1 .. 7 : Contains(plan.week[d].cards, c)}
         IN  Cardinality(days) = IF Contains(plan.due, c) THEN 1 ELSE 0
<1> DEFINE plan == LocalPlan(weak, due)
           days == {d \in 1 .. 7 : Contains(plan.week[d].cards, c)}
           Has2(d) == \E k \in DOMAIN due :
                        k \in {2 * d - 1, 2 * d} /\ due[k] = c
<1>1. ASSUME NEW d \in 1 .. 7
      PROVE  d \in days <=> d <= 5 /\ Has2(d)
  <2>1. plan.week[d].cards
          = IF d <= 5 THEN First(2, SubSeq(due, 2 * d - 1, Len(due)))
            ELSE <<>>
    BY DEF LocalPlan
  <2>2. 2 * d - 1 \in Nat \ {0} /\ (2 * d - 1) + 1 = 2 * d
    OBVIOUS
  <2>3. Contains(First(2, SubSeq(due, 2 * d - 1, Len(due))), c) <=> Has2(d)
    BY <2>2, DayHas
  <2>4. ~Contains(<<>>, c)
    BY DEF Contains
  <2> HIDE DEF plan, Has2
  <2> QED
    BY <2>1, <2>3, <2>4
<1>2. Contains(plan.due, c) <=> \E k \in DOMAIN due : k <= 10 /\ due[k] = c
  <2>1. plan.due = First(10, due)
    BY DEF LocalPlan
  <2>2. /\ Len(First(10, due)) = IF Len(due) < 10 THEN Len(due) ELSE 10
        /\ \A i \in 1 .. Len(First(10, due)) : First(10, due)[i] = due[i]
    <3>1. ASSUME NEW n \in Nat
          PROVE  /\ Len(First(n, due)) = IF Len(due) < n THEN Len(due) ELSE n
                 /\ \A i \in 1 .. Len(First(n, due)) :
                      First(n, due)[i] = due[i]
      BY FirstHas
    <3>2. 10 \in Nat
      OBVIOUS
    <3> HIDE DEF plan
    <3> QED
      BY <3>1, <3>2, Zenon
  <2>3. DOMAIN due = 1 .. Len(due) /\ Len(due) \in Nat
    OBVIOUS
  <2> HIDE DEF plan
  <2> DEFINE top == First(10, due)
             n == Len(due)
  <2>4. \A k \in DOMAIN due : k <= 10 <=> k \in 1 .. Len(top)
    <3>1. Len(top) = IF n < 10 THEN n ELSE 10
      BY <2>2
    <3>2. DOMAIN due = 1 .. n /\ n \in Nat
      BY <2>3
    <3> HIDE DEF top, n
    <3> QED
      BY <3>1, <3>2
  <2>5. Len(top) \in Nat /\ \A k \in 1 .. Len(top) : k \in DOMAIN due
    BY <2>2, <2>3
  <2>6. Contains(plan.due, c) <=> \E k \in 1 .. Len(top) : top[k] = c
    BY <2>1 DEF Contains
  <2> QED
    BY <2>2, <2>4, <2>5, <2>6
<1> HIDE DEF plan
<1>3. CASE \E k \in DOMAIN due : k <= 10 /\ due[k] = c
  <2>1. PICK k \in DOMAIN due : k <= 10 /\ due[k] = c
    BY <1>3
  <2>2. k \in 1 .. 10 /\ \A j \in DOMAIN due : due[j] = c => j = k
    BY <2>1
  <2>3. PICK d \in 1 .. 5 : k \in {2 * d - 1, 2 * d}
    <3>1. \E d \in 1 .. 5 : k \in {2 * d - 1, 2 * d}
      BY <2>2
    <3> QED
      BY <3>1
  <2>4. d \in days
    BY <1>1, <2>1, <2>3
  <2>5. ASSUME NEW e \in days
        PROVE  e = d
    <3>1. e \in 1 .. 7 /\ Has2(e)
      BY <1>1
    <3>2. k \in {2 * e - 1, 2 * e}
      BY <2>2, <3>1
    <3> QED
      BY <2>3, <3>1, <3>2
  <2>6. days = {d}
    <3> HIDE DEF days
    <3> QED
      BY <2>4, <2>5
  <2> HIDE DEF days
  <2> QED
    BY <1>2, <1>3, <2>6, FS_Singleton DEF plan, days
<1>4. CASE ~\E k \in DOMAIN due : k <= 10 /\ due[k] = c
  <2>1. ASSUME NEW d \in days
        PROVE  FALSE
    <3>1. d \in 1 .. 7 /\ d <= 5 /\ Has2(d)
      BY <1>1
    <3> QED
      BY <1>4, <3>1
  <2>2. days = {}
    <3> HIDE DEF days
    <3> QED
      BY <2>1
  <2> HIDE DEF days
  <2> QED
    BY <1>2, <1>4, <2>2, FS_EmptySet DEF plan, days
<1> QED
  BY <1>3, <1>4

(* Of the weak topics the plan names as targets, the first seven have a    *)
(* day of their own; the others have none (generateLocalStudyPlan).        *)
THEOREM EveryTargetIsPlanned ==
  ASSUME NEW X, NEW due \in Seq(X), NEW Y, NEW weak \in Seq(Y),
         NEW t \in DOMAIN weak,
         \A i, j \in DOMAIN weak : weak[i] = weak[j] => i = j
  PROVE  LET plan == LocalPlan(weak, due)
         IN  /\ plan.targets = weak
             /\ {d \in 1 .. 7 : Contains(plan.week[d].topics, weak[t])}
                  = IF t <= 7 THEN {t} ELSE {}
<1> DEFINE plan == LocalPlan(weak, due)
           days == {d \in 1 .. 7 : Contains(plan.week[d].topics, weak[t])}
<1>1. plan.targets = weak
  BY DEF LocalPlan
<1>2. ASSUME NEW d \in 1 .. 7
      PROVE  d \in days <=> d = t
  <2>1. plan.week[d].topics = IF d \in DOMAIN weak THEN <<weak[d]>> ELSE <<>>
    BY DEF LocalPlan
  <2>2. \A x, y : Contains(<<x>>, y) <=> x = y
    BY DEF Contains
  <2>3. \A y : ~Contains(<<>>, y)
    BY DEF Contains
  <2> HIDE DEF plan
  <2> QED
    BY <2>1, <2>2, <2>3
<1>3. t \in Nat \ {0}
  OBVIOUS
<1>4. days = IF t <= 7 THEN {t} ELSE {}
  BY <1>2, <1>3
<1> QED
  BY <1>1, <1>4

LEMMA TotalsCompare ==
  ASSUME NEW xs \in Seq(Nat), NEW ys \in Seq(Nat), Len(xs) = Len(ys),
         \A i \in DOMAIN xs : xs[i] <= ys[i]
  PROVE  /\ Total(xs) \in Nat /\ Total(ys) \in Nat /\ Total(xs) <= Total(ys)
         /\ Total(xs) = Total(ys) <=> \A i \in DOMAIN xs : xs[i] = ys[i]
<1> DEFINE N == Len(xs)
           A == Totals(xs)
           B == Totals(ys)
           Same(n) == \A i \in 1 .. n : xs[i] = ys[i]
           S == {n \in Nat : n <= N => /\ A[n] <= B[n]
                                       /\ A[n] = B[n] <=> Same(n)}
<1>1. /\ N \in Nat /\ A \in [0 .. N -> Nat] /\ B \in [0 .. N -> Nat]
      /\ A[0] = 0 /\ B[0] = 0
      /\ \A n \in 1 .. N : A[n] = A[n - 1] + xs[n] /\ B[n] = B[n - 1] + ys[n]
      /\ \A n \in 1 .. N : xs[n] \in Nat /\ ys[n] \in Nat /\ xs[n] <= ys[n]
      /\ DOMAIN xs = 1 .. N
  <2>1. /\ N \in Nat /\ N = Len(ys) /\ DOMAIN xs = 1 .. N
        /\ \A n \in 1 .. N : xs[n] \in Nat /\ ys[n] \in Nat /\ xs[n] <= ys[n]
    <3>1. \A zs \in Seq(Nat) : /\ Len(zs) \in Nat /\ DOMAIN zs = 1 .. Len(zs)
                              /\ \A n \in 1 .. Len(zs) : zs[n] \in Nat
      OBVIOUS
    <3>2. N \in Nat /\ N = Len(ys) /\ DOMAIN xs = 1 .. N
          /\ \A n \in 1 .. N : xs[n] \in Nat
      BY <3>1
    <3>3. \A n \in 1 .. N : ys[n] \in Nat
      BY <3>1, <3>2
    <3> HIDE DEF N
    <3> QED
      BY <3>2, <3>3
  <2>2. /\ A \in [0 .. N -> Nat] /\ A[0] = 0
        /\ \A n \in 1 .. N : A[n] = A[n - 1] + xs[n]
    BY TotalsAre
  <2>3. /\ B \in [0 .. N -> Nat] /\ B[0] = 0
        /\ \A n \in 1 .. N : B[n] = B[n - 1] + ys[n]
    BY <2>1, TotalsAre
  <2> QED
    BY <2>1, <2>2, <2>3
<1> HIDE DEF N, A, B
<1>2. 0 \in S
  <2>1. Same(0) /\ A[0] <= B[0] /\ A[0] = B[0]
    BY <1>1
  <2> HIDE DEF Same
  <2> QED
    BY <2>1
<1>3. ASSUME NEW n \in S
      PROVE  n + 1 \in S
  <2>0. /\ n \in Nat
        /\ n <= N => /\ A[n] <= B[n]
                     /\ A[n] = B[n] <=> Same(n)
    <3> HIDE DEF Same
    <3> QED
      BY <1>3
  <2>1. CASE n + 1 <= N
    <3>1. /\ n \in Nat /\ n + 1 \in 1 .. N /\ n \in 0 .. N
          /\ (n + 1) - 1 = n /\ n <= N
      BY <1>1, <2>0, <2>1
    <3>2. A[n] <= B[n] /\ (A[n] = B[n] <=> Same(n))
      <4> HIDE DEF Same
      <4> QED
        BY <2>0, <3>1
    <3>3. /\ A[n] \in Nat /\ B[n] \in Nat
          /\ xs[n + 1] \in Nat /\ ys[n + 1] \in Nat /\ xs[n + 1] <= ys[n + 1]
          /\ A[n + 1] = A[n] + xs[n + 1] /\ B[n + 1] = B[n] + ys[n + 1]
      BY <1>1, <3>1
    <3>4. /\ A[n + 1] <= B[n + 1]
          /\ A[n + 1] = B[n + 1] <=> A[n] = B[n] /\ xs[n + 1] = ys[n + 1]
      <4>1. \A a, b, x, y \in Nat :
              a <= b /\ x <= y => /\ a + x <= b + y
                                 /\ a + x = b + y <=> a = b /\ x = y
        OBVIOUS
      <4>2. A[n] <= B[n]
        <5> HIDE DEF Same
        <5> QED
          BY <3>2
      <4>3. /\ A[n] + xs[n + 1] <= B[n] + ys[n + 1]
            /\ A[n] + xs[n + 1] = B[n] + ys[n + 1]
                 <=> A[n] = B[n] /\ xs[n + 1] = ys[n + 1]
        BY <3>3, <4>1, <4>2
      <4> QED
        BY <3>3, <4>3
    <3>5. Same(n + 1) <=> Same(n) /\ xs[n + 1] = ys[n + 1]
      <4>1. 1 .. n + 1 = (1 .. n) \cup {n + 1}
        BY <3>1
      <4> QED
        BY <4>1
    <3> HIDE DEF Same
    <3> QED
      BY <3>1, <3>2, <3>4, <3>5
  <2>2. CASE ~(n + 1 <= N)
    <3> HIDE DEF Same
    <3> QED
      BY <2>0, <2>2
  <2> QED
    BY <2>1, <2>2
<1>4. S = Nat
  <2>1. S \in SUBSET Nat
    OBVIOUS
  <2> HIDE DEF S
  <2> QED
    BY <1>2, <1>3, <2>1, NatUp
<1>5. A[N] <= B[N] /\ (A[N] = B[N] <=> Same(N))
  <2> HIDE DEF Same
  <2>1. N \in S /\ N <= N
    <3>1. N \in Nat /\ N <= N
      BY <1>1
    <3> HIDE DEF S
    <3> QED
      BY <1>4, <3>1
  <2> QED
    BY <2>1
<1>6. A[N] \in Nat /\ B[N] \in Nat
  BY <1>1
<1> QED
  BY <1>1, <1>5, <1>6 DEF Total, A, B, N

(* A quiz in which every question is answered once is scored with no more  *)
(* than all points, and with all of them exactly if every answer is right, *)
(* however it was written (QUIZ_SUBMIT).                                   *)
THEOREM EveryScoreIsFair ==
  ASSUME NEW Wording,
         NEW questions \in Seq([answer : Wording, points : Nat \ {0}]),
         NEW given \in [DOMAIN questions -> Wording]
  PROVE  LET score == Score([i \in DOMAIN questions |->
                               [to |-> i, given |-> given[i]]], questions)
             all == Total([i \in DOMAIN questions |-> questions[i].points])
         IN  /\ score \in Nat /\ score <= all
             /\ score = all <=> \A i \in DOMAIN questions :
                                  given[i].word = questions[i].answer.word
<1> DEFINE N == Len(questions)
           sent == [i \in DOMAIN questions |->
                     [to |-> i, given |-> given[i]]]
           xs == [i \in DOMAIN sent |->
                    Points(sent[i].given, questions[sent[i].to])]
           ys == [i \in DOMAIN questions |-> questions[i].points]
           Right(i) == given[i].word = questions[i].answer.word
<1>1. N \in Nat /\ DOMAIN questions = 1 .. N
      /\ \A i \in 1 .. N : questions[i].points \in Nat \ {0}
  <2> DEFINE Asking == [answer : Wording, points : Nat \ {0}]
  <2>1. \A i \in 1 .. N : questions[i] \in Asking
    <3>1. questions \in Seq(Asking)
      OBVIOUS
    <3> HIDE DEF Asking
    <3> QED
      BY <3>1
  <2>2. \A q \in Asking : q.points \in Nat \ {0}
    OBVIOUS
  <2>3. N \in Nat /\ DOMAIN questions = 1 .. N
    OBVIOUS
  <2> HIDE DEF Asking, N
  <2> QED
    BY <2>1, <2>2, <2>3
<1>2. \A i \in 1 .. N : xs[i] = IF Right(i) THEN questions[i].points ELSE 0
  BY <1>1 DEF Points, Plainly
<1>3. xs \in Seq(Nat) /\ ys \in Seq(Nat) /\ Len(xs) = N /\ Len(ys) = N
      /\ DOMAIN xs = 1 .. N /\ \A i \in 1 .. N : ys[i] = questions[i].points
  <2>1. DOMAIN xs = 1 .. N
    BY <1>1
  <2>2. xs \in [1 .. N -> Nat]
    <3>1. ASSUME NEW i \in 1 .. N
          PROVE  xs[i] \in Nat
      <4> HIDE DEF xs, Right, N
      <4>1. xs[i] = questions[i].points \/ xs[i] = 0
        BY <1>2
      <4> QED
        BY <1>1, <4>1
    <3>2. xs = [i \in 1 .. N |-> xs[i]]
      BY <1>1
    <3> HIDE DEF xs
    <3> QED
      BY <3>1, <3>2
  <2>3. ys \in [1 .. N -> Nat] /\ \A i \in 1 .. N : ys[i] = questions[i].points
    BY <1>1
  <2>4. \A zs \in [1 .. N -> Nat] : zs \in Seq(Nat) /\ Len(zs) = N
    BY <1>1
  <2> HIDE DEF xs, ys, N
  <2> QED
    BY <2>1, <2>2, <2>3, <2>4
<1>4. Score(sent, questions) = Total(xs)
  BY DEF Score
<1> HIDE DEF xs, ys, sent, Right, N
<1>5. ASSUME NEW i \in DOMAIN xs
      PROVE  xs[i] <= ys[i] /\ (xs[i] = ys[i] <=> Right(i))
  <2>1. /\ xs[i] = IF Right(i) THEN questions[i].points ELSE 0
        /\ ys[i] = questions[i].points /\ questions[i].points \in Nat \ {0}
    BY <1>1, <1>2, <1>3
  <2>2. CASE Right(i)
    BY <2>1, <2>2
  <2>3. CASE ~Right(i)
    BY <2>1, <2>3
  <2> QED
    BY <2>2, <2>3
<1>6. /\ Total(xs) \in Nat /\ Total(ys) \in Nat /\ Total(xs) <= Total(ys)
      /\ Total(xs) = Total(ys) <=> \A i \in DOMAIN xs : xs[i] = ys[i]
  BY <1>3, <1>5, TotalsCompare
<1>7. (\A i \in DOMAIN xs : xs[i] = ys[i])
        <=> \A i \in DOMAIN questions : Right(i)
  BY <1>1, <1>3, <1>5
<1> QED
  BY <1>4, <1>6, <1>7 DEF sent, ys, Right


(* The context of a request: what is kept after each text.                 *)
KeepsTo(at, lengths, max, n) ==
  /\ at[0] = NothingKept
  /\ \A k \in 1 .. n : at[k] = KeepText(at[k - 1], lengths[k], max)

LEMMA ContextIsKept ==
  ASSUME NEW lengths \in Seq(Nat), NEW max
  PROVE  \E at : /\ KeepsTo(at, lengths, max, Len(lengths))
                 /\ Context(lengths, max) = at[Len(lengths)]
<1> DEFINE N == Len(lengths)
           Kept(n) == \E at : /\ at = [k \in 0 .. n |-> at[k]]
                              /\ KeepsTo(at, lengths, max, n)
           S == {n \in Nat : Kept(n)}
<1>1. N \in Nat
  OBVIOUS
<1>2. 0 \in S
  <2> DEFINE at == [k \in 0 .. 0 |-> NothingKept]
  <2>1. at = [k \in 0 .. 0 |-> at[k]] /\ KeepsTo(at, lengths, max, 0)
    BY DEF KeepsTo
  <2> HIDE DEF at
  <2> QED
    BY <2>1
<1>3. ASSUME NEW n \in S
      PROVE  n + 1 \in S
  <2>1. n \in Nat
    OBVIOUS
  <2>2. PICK g : g = [k \in 0 .. n |-> g[k]] /\ KeepsTo(g, lengths, max, n)
    BY <1>3
  <2> DEFINE new == KeepText(g[n], lengths[n + 1], max)
             h == [k \in 0 .. n + 1 |-> IF k = n + 1 THEN new ELSE g[k]]
  <2>3. /\ h = [k \in 0 .. n + 1 |-> h[k]] /\ h[n + 1] = new
        /\ \A k \in 0 .. n : h[k] = g[k]
    BY <2>1
  <2> HIDE DEF h
  <2>4. h[0] = NothingKept
    <3>1. 0 \in 0 .. n
      BY <2>1
    <3>2. g[0] = NothingKept
      BY <2>2 DEF KeepsTo
    <3> QED
      BY <2>3, <3>1, <3>2
  <2>5. ASSUME NEW k \in 1 .. n + 1
        PROVE  h[k] = KeepText(h[k - 1], lengths[k], max)
    <3>1. CASE k = n + 1
      <4>1. k - 1 = n /\ n \in 0 .. n
        BY <2>1, <3>1
      <4> QED
        BY <2>3, <3>1, <4>1
    <3>2. CASE k # n + 1
      <4>1. k \in 1 .. n /\ k \in 0 .. n /\ k - 1 \in 0 .. n
        BY <2>1, <3>2
      <4> QED
        BY <2>2, <2>3, <4>1 DEF KeepsTo
    <3> QED
      BY <3>1, <3>2
  <2>6. KeepsTo(h, lengths, max, n + 1)
    BY <2>4, <2>5 DEF KeepsTo
  <2> QED
    BY <2>1, <2>3, <2>6
<1>4. S = Nat
  <2>1. S \in SUBSET Nat
    OBVIOUS
  <2> HIDE DEF S
  <2> QED
    BY <1>2, <1>3, <2>1, NatUp
<1>5. Kept(N)
  <2> HIDE DEF Kept
  <2> QED
    BY <1>1, <1>4
<1> DEFINE Body(f) == [n \in 0 .. N |->
                         IF n = 0 THEN NothingKept
                         ELSE KeepText(f[n - 1], lengths[n], max)]
           kept == CHOOSE f : f = Body(f)
<1>6. PICK at : at = [k \in 0 .. N |-> at[k]] /\ KeepsTo(at, lengths, max, N)
  BY <1>5
<1> HIDE DEF N
<1>7. at = Body(at)
  <2>1. ASSUME NEW n \in 0 .. N
        PROVE  at[n] = IF n = 0 THEN NothingKept
                       ELSE KeepText(at[n - 1], lengths[n], max)
    <3>1. CASE n = 0
      BY <1>6, <3>1 DEF KeepsTo
    <3>2. CASE n # 0
      <4>1. n \in 1 .. N
        BY <1>1, <3>2
      <4> QED
        BY <1>6, <3>2, <4>1 DEF KeepsTo
    <3> QED
      BY <3>1, <3>2
  <2>2. [k \in 0 .. N |-> at[k]] = Body(at)
    BY <2>1
  <2> QED
    BY <1>6, <2>2
<1>8. kept = Body(kept)
  <2> HIDE DEF Body
  <2> QED
    BY <1>7
<1>9. Context(lengths, max) = kept[N]
  BY DEF Context, N
<1> HIDE DEF kept
<1>10. KeepsTo(kept, lengths, max, N)
  <2>1. kept[0] = NothingKept
    BY <1>1, <1>8
  <2>2. \A k \in 1 .. N : kept[k] = KeepText(kept[k - 1], lengths[k], max)
    BY <1>1, <1>8
  <2> QED
    BY <2>1, <2>2 DEF KeepsTo
<1> QED
  BY <1>9, <1>10 DEF N

(* The context of flashcards is the longest beginning whose texts fit:     *)
(* nothing, if the first text alone is too long.  What is written is       *)
(* longer than the limit by less than one space for each of its texts      *)
(* (truncateContext).                                                      *)
THEOREM EveryContextIsLongest ==
  ASSUME NEW lengths \in Seq(Nat), NEW max \in Nat
  PROVE  LET context == Context(lengths, max)
         IN  /\ context.parts \in 0 .. Len(lengths)
             /\ context.total = Totals(lengths)[context.parts]
             /\ context.total <= max
             /\ context.parts < Len(lengths)
                  => Totals(lengths)[context.parts + 1] > max
             /\ \/ ContextLength(context) < max + context.parts
                \/ context.parts = 0
<1> DEFINE N == Len(lengths)
           sums == Totals(lengths)
<1>1. /\ N \in Nat /\ sums \in [0 .. N -> Nat] /\ sums[0] = 0
      /\ \A n \in 1 .. N : sums[n] = sums[n - 1] + lengths[n]
      /\ \A n \in 1 .. N : lengths[n] \in Nat
  BY TotalsAre
<1>2. PICK at : KeepsTo(at, lengths, max, N) /\ Context(lengths, max) = at[N]
  BY ContextIsKept
<1> HIDE DEF N, sums
<1> DEFINE Holds(n) ==
             LET s == at[n]
             IN  /\ s = [total |-> s.total, parts |-> s.parts, full |-> s.full]
                 /\ s.full \in BOOLEAN /\ s.parts \in 0 .. n
                 /\ s.total = sums[s.parts] /\ s.total <= max
                 /\ IF s.full THEN s.parts < n /\ sums[s.parts + 1] > max
                    ELSE s.parts = n
           S == {n \in Nat : n <= N => Holds(n)}
<1>3. 0 \in S
  <2>1. at[0] = [total |-> 0, parts |-> 0, full |-> FALSE]
    BY <1>2 DEF KeepsTo, NothingKept
  <2>2. Holds(0)
    BY <1>1, <2>1
  <2> HIDE DEF Holds
  <2> QED
    BY <2>2
<1>4. ASSUME NEW n \in S
      PROVE  n + 1 \in S
  <2>0. n \in Nat /\ (n <= N => Holds(n))
    <3> HIDE DEF Holds
    <3> QED
      BY <1>4
  <2> SUFFICES ASSUME n + 1 <= N
               PROVE  Holds(n + 1)
    <3> HIDE DEF Holds
    <3> QED
      BY <2>0
  <2> DEFINE s == at[n]
             t == at[n + 1]
             m == lengths[n + 1]
  <2>1. /\ n <= N /\ n + 1 \in 1 .. N /\ (n + 1) - 1 = n /\ n \in 0 .. N
        /\ m \in Nat /\ sums[n + 1] = sums[n] + m /\ sums[n] \in Nat
    <3>1. /\ n <= N /\ n + 1 \in 1 .. N /\ (n + 1) - 1 = n
          /\ n \in 0 .. N /\ n \in Nat
      <4>1. n \in Nat /\ n + 1 <= N
        BY <2>0
      <4>2. N \in Nat
        BY <1>1
      <4> HIDE DEF Holds
      <4> QED
        BY <4>1, <4>2
    <3>2. m \in Nat
      BY <1>1, <3>1
    <3>3. sums[n + 1] = sums[(n + 1) - 1] + m
      BY <1>1, <3>1
    <3>4. sums[n] \in Nat
      BY <1>1, <3>1
    <3> QED
      BY <3>1, <3>2, <3>3, <3>4
  <2>2. Holds(n)
    <3> HIDE DEF Holds
    <3> QED
      BY <2>0, <2>1
  <2>3. /\ s = [total |-> s.total, parts |-> s.parts, full |-> s.full]
        /\ s.full \in BOOLEAN /\ s.parts \in 0 .. n
        /\ s.total = sums[s.parts] /\ s.total <= max
        /\ s.full => s.parts < n /\ sums[s.parts + 1] > max
        /\ ~s.full => s.parts = n
    BY <2>2
  <2>4. t = KeepText(s, m, max)
    BY <1>2, <2>1 DEF KeepsTo
  <2> HIDE DEF s, m
  <2>5. CASE s.full \/ s.total + m > max
    <3>1. t = [total |-> s.total, parts |-> s.parts, full |-> TRUE]
      <4>1. t = [s EXCEPT !.full = TRUE]
        BY <2>4, <2>5 DEF KeepText
      <4> QED
        BY <2>3, <4>1
    <3>2. s.parts < n + 1 /\ s.parts \in 0 .. n + 1 /\ sums[s.parts + 1] > max
      <4>1. CASE s.full
        BY <2>0, <2>3, <4>1
      <4>2. CASE ~s.full
        <5>1. s.parts = n /\ s.total = sums[n]
          BY <2>3, <4>2
        <5>2. sums[n] + m > max
          BY <2>5, <4>2, <5>1
        <5> QED
          BY <2>0, <2>1, <5>1, <5>2
      <4> QED
        BY <4>1, <4>2
    <3> QED
      BY <2>3, <3>1, <3>2
  <2>6. CASE ~(s.full \/ s.total + m > max)
    <3>1. t = [total |-> s.total + m, parts |-> s.parts + 1, full |-> s.full]
      <4>1. t = [s EXCEPT !.total = @ + m, !.parts = @ + 1]
        BY <2>4, <2>6 DEF KeepText
      <4> QED
        BY <2>3, <4>1
    <3>2. /\ s.full = FALSE /\ s.parts = n /\ s.total = sums[n]
          /\ s.total + m = sums[n + 1]
      BY <2>1, <2>3, <2>6
    <3>3. sums[n + 1] <= max
      <4>1. s.total + m \in Nat /\ ~(s.total + m > max)
        BY <2>1, <2>6, <3>2
      <4> QED
        BY <3>2, <4>1
    <3>4. n + 1 \in 0 .. n + 1
      BY <2>0
    <3>5. /\ t.total = s.total + m /\ t.parts = n + 1 /\ t.full = FALSE
          /\ t = [total |-> t.total, parts |-> t.parts, full |-> t.full]
      BY <3>1, <3>2
    <3> HIDE DEF t
    <3>6. t.total = sums[t.parts] /\ t.total <= max
      BY <3>2, <3>3, <3>5
    <3>7. /\ t.full \in BOOLEAN /\ t.parts \in 0 .. n + 1
          /\ IF t.full THEN t.parts < n + 1 /\ sums[t.parts + 1] > max
             ELSE t.parts = n + 1
      BY <3>4, <3>5
    <3> QED
      BY <3>5, <3>6, <3>7 DEF t
  <2> QED
    BY <2>5, <2>6
<1>5. S = Nat
  <2>1. S \in SUBSET Nat
    OBVIOUS
  <2> HIDE DEF S
  <2> QED
    BY <1>3, <1>4, <2>1, NatUp
<1>6. Holds(N)
  <2>1. N \in Nat /\ N <= N
    BY <1>1
  <2> HIDE DEF Holds
  <2> QED
    BY <1>5, <2>1
<1> DEFINE context == at[N]
<1>7. /\ context.parts \in 0 .. N /\ context.total = sums[context.parts]
      /\ context.total <= max
      /\ context.parts < N => sums[context.parts + 1] > max
  BY <1>6
<1>8. ContextLength(context) < max + context.parts \/ context.parts = 0
  <2>1. context.parts \in Nat /\ context.total \in Nat
    <3> HIDE DEF context
    <3> QED
      BY <1>1, <1>7
  <2> HIDE DEF context
  <2>2. CASE context.parts = 0
    BY <2>2
  <2>3. CASE context.parts # 0
    <3>1. ContextLength(context) = context.total + context.parts - 1
      BY <2>1, <2>3 DEF ContextLength
    <3> QED
      BY <1>7, <2>1, <3>1
  <2> QED
    BY <2>2, <2>3
<1> QED
  BY <1>2, <1>7, <1>8 DEF N, sums

-----------------------------------------------------------------------------
(* Files with delimiters: what a reader has after so many characters.      *)

Text == Seq(Char)
Reader == [rows : Seq(Seq(Text)), row : Seq(Text), field : Text,
           mode : {"start", "plain", "quoted", "closed"}]
Separator == {Comma, Tab}

Chars == Quote # Comma /\ Quote # Tab /\ Quote # NewLine
         /\ NewLine # Comma /\ NewLine # Tab /\ Comma # Tab
         /\ CarriageReturn # Quote /\ CarriageReturn # Comma
         /\ CarriageReturn # Tab

LEMMA CharsDiffer == Chars
  BY DEF Chars, Quote, Comma, Tab, NewLine, CarriageReturn

LEMMA CharTypes ==
  /\ Quote \in Char /\ NewLine \in Char
  /\ \A sep \in Separator : sep \in Char /\ sep # Quote /\ sep # NewLine
  BY CharsDiffer DEF Chars, Char, Mark, Separator

LEMMA ReaderGoesOn ==
  ASSUME NEW s \in Reader, NEW char \in Char, NEW sep \in Separator
  PROVE  ReadChar(s, char, sep) \in Reader
<1>1. /\ s.rows \in Seq(Seq(Text)) /\ s.row \in Seq(Text) /\ s.field \in Text
      /\ s.mode \in {"start", "plain", "quoted", "closed"}
      /\ s = [rows |-> s.rows, row |-> s.row, field |-> s.field,
              mode |-> s.mode]
  BY DEF Reader
<1>2. <<>> \in Text /\ <<>> \in Seq(Text) /\ Append(s.field, char) \in Text
      /\ Append(s.row, s.field) \in Seq(Text)
      /\ Append(s.rows, Append(s.row, s.field)) \in Seq(Seq(Text))
  <2>1. /\ \A t \in Text, c \in Char : Append(t, c) \in Text
        /\ <<>> \in Text
    BY DEF Text
  <2>2. /\ \A r \in Seq(Text), t \in Text : Append(r, t) \in Seq(Text)
        /\ <<>> \in Seq(Text)
    OBVIOUS
  <2>3. \A q \in Seq(Seq(Text)), r \in Seq(Text) : Append(q, r)
                                                     \in Seq(Seq(Text))
    OBVIOUS
  <2> QED
    BY <1>1, <2>1, <2>2, <2>3
<1>3. \A m \in {"start", "plain", "quoted", "closed"} :
        [s EXCEPT !.mode = m] \in Reader
  BY <1>1 DEF Reader
<1>4. \A m \in {"start", "plain", "quoted", "closed"} :
        Take(s, char, m) \in Reader
  BY <1>1, <1>2 DEF Reader, Take
<1>5. EndField(s) \in Reader /\ EndField(s).row = Append(s.row, s.field)
  BY <1>1, <1>2 DEF Reader, EndField
<1>6. EndRow(s) \in Reader
  BY <1>1, <1>2, <1>5 DEF Reader, EndRow, Begun
<1>7. ReadChar(s, char, sep) \in
        {[s EXCEPT !.mode = "closed"], [s EXCEPT !.mode = "quoted"],
         Take(s, char, "quoted"), Take(s, char, "plain"),
         EndField(s), EndRow(s)}
  BY DEF ReadChar
<1> QED
  BY <1>3, <1>4, <1>5, <1>6, <1>7

(* What a reader has after each character of a text.                       *)
Trace(at, s, text, sep) ==
  /\ at \in [0 .. Len(text) -> Reader] /\ at[0] = s
  /\ \A n \in 1 .. Len(text) : at[n] = ReadChar(at[n - 1], text[n], sep)

LEMMA TraceThereIs ==
  ASSUME NEW s \in Reader, NEW text \in Text, NEW sep \in Separator
  PROVE  \E at : Trace(at, s, text, sep)
<1> DEFINE N == Len(text)
           Goes(at, n) ==
             /\ at[0] = s
             /\ \A k \in 1 .. n : at[k] = ReadChar(at[k - 1], text[k], sep)
           Gone(n) == \E at \in [0 .. n -> Reader] : Goes(at, n)
           S == {n \in Nat : n <= N => Gone(n)}
<1>1. N \in Nat /\ \A n \in 1 .. N : text[n] \in Char
  BY DEF Text
<1> HIDE DEF N
<1>2. 0 \in S
  <2>1. /\ [k \in 0 .. 0 |-> s] \in [0 .. 0 -> Reader]
        /\ Goes([k \in 0 .. 0 |-> s], 0)
    OBVIOUS
  <2> QED
    BY <2>1
<1>3. ASSUME NEW n \in S
      PROVE  n + 1 \in S
  <2>0. n \in Nat /\ (n <= N => Gone(n))
    <3> HIDE DEF Gone
    <3> QED
      BY <1>3
  <2> SUFFICES ASSUME n + 1 <= N
               PROVE  Gone(n + 1)
    <3> HIDE DEF Gone
    <3> QED
      BY <2>0
  <2>1. n \in Nat /\ Gone(n) /\ text[n + 1] \in Char
    <3>1. n <= N /\ n + 1 \in 1 .. N
      BY <1>1, <2>0
    <3> HIDE DEF Gone
    <3> QED
      BY <1>1, <2>0, <3>1
  <2>2. PICK g \in [0 .. n -> Reader] : Goes(g, n)
    BY <2>1
  <2> DEFINE new == ReadChar(g[n], text[n + 1], sep)
             h == [k \in 0 .. n + 1 |-> IF k = n + 1 THEN new ELSE g[k]]
  <2>3. new \in Reader
    BY <2>1, <2>2, ReaderGoesOn
  <2>4. /\ h \in [0 .. n + 1 -> Reader] /\ h[n + 1] = new
        /\ \A k \in 0 .. n : h[k] = g[k]
    <3> HIDE DEF new
    <3> QED
      BY <2>1, <2>2, <2>3
  <2> HIDE DEF h
  <2>5. h[0] = s
    BY <2>1, <2>2, <2>4
  <2>6. ASSUME NEW k \in 1 .. n + 1
        PROVE  h[k] = ReadChar(h[k - 1], text[k], sep)
    <3>1. CASE k = n + 1
      <4>1. k - 1 = n /\ n \in 0 .. n
        BY <2>1, <3>1
      <4> QED
        BY <2>4, <3>1, <4>1
    <3>2. CASE k # n + 1
      <4>1. k \in 1 .. n /\ k \in 0 .. n /\ k - 1 \in 0 .. n
        BY <2>1, <3>2
      <4> QED
        BY <2>2, <2>4, <4>1
    <3> QED
      BY <3>1, <3>2
  <2>7. Goes(h, n + 1)
    BY <2>5, <2>6
  <2> QED
    BY <2>4, <2>7
<1>4. Gone(N)
  <2>1. S = Nat
    <3>1. S \in SUBSET Nat
      OBVIOUS
    <3> HIDE DEF S
    <3> QED
      BY <1>2, <1>3, <3>1, NatUp
  <2> HIDE DEF Gone
  <2> QED
    BY <1>1, <2>1
<1> QED
  BY <1>4 DEF Trace, N

LEMMA ReadTraced ==
  ASSUME NEW s \in Reader, NEW text \in Text, NEW sep \in Separator,
         NEW at, Trace(at, s, text, sep)
  PROVE  ReadText(s, text, sep) = at[Len(text)] /\ at[Len(text)] \in Reader
<1> DEFINE N == Len(text)
           Body(g) == [n \in 0 .. N |->
                         IF n = 0 THEN s ELSE ReadChar(g[n - 1], text[n], sep)]
           after == CHOOSE g : g = Body(g)
<1>1. N \in Nat
  BY DEF Text
<1>2. ReadText(s, text, sep) = after[N]
  BY DEF ReadText
<1>3. /\ at \in [0 .. N -> Reader] /\ at[0] = s
      /\ \A n \in 1 .. N : at[n] = ReadChar(at[n - 1], text[n], sep)
  BY DEF Trace
<1> HIDE DEF N
<1>4. at = Body(at)
  <2>1. \A n \in 0 .. N : at[n] = Body(at)[n]
    BY <1>1, <1>3
  <2> QED
    BY <1>3, <2>1
<1>5. after = Body(after)
  <2> HIDE DEF Body
  <2> QED
    BY <1>4
<1> HIDE DEF after
<1>6. /\ after[0] = s
      /\ \A n \in 1 .. N : after[n] = ReadChar(after[n - 1], text[n], sep)
  BY <1>1, <1>5
<1> DEFINE S == {n \in Nat : n <= N => after[n] = at[n]}
<1>7. 0 \in S
  BY <1>3, <1>6
<1>8. ASSUME NEW n \in S
      PROVE  n + 1 \in S
  <2>1. CASE n + 1 <= N
    <3>1. n + 1 \in 1 .. N /\ (n + 1) - 1 = n /\ after[n] = at[n]
      BY <1>1, <1>8, <2>1
    <3> QED
      BY <1>3, <1>6, <3>1
  <2>2. CASE ~(n + 1 <= N)
    BY <1>8, <2>2
  <2> QED
    BY <2>1, <2>2
<1>9. S = Nat
  <2>1. S \in SUBSET Nat
    OBVIOUS
  <2> HIDE DEF S
  <2> QED
    BY <1>7, <1>8, <2>1, NatUp
<1>10. after[N] = at[N] /\ at[N] \in Reader
  BY <1>1, <1>3, <1>9
<1> QED
  BY <1>2, <1>10 DEF N

(* Reading one text after another.                                         *)
LEMMA ReadsOn ==
  ASSUME NEW s \in Reader, NEW sep \in Separator,
         NEW a \in Text, NEW b \in Text
  PROVE  /\ a \o b \in Text /\ ReadText(s, a, sep) \in Reader
         /\ ReadText(s, a \o b, sep)
              = ReadText(ReadText(s, a, sep), b, sep)
<1>1. PICK f : Trace(f, s, a, sep)
  BY TraceThereIs
<1> DEFINE mid == ReadText(s, a, sep)
           M == Len(a)
           N == Len(b)
<1>2. mid = f[M] /\ mid \in Reader
  BY <1>1, ReadTraced
<1> HIDE DEF mid
<1>3. PICK g : Trace(g, mid, b, sep)
  BY <1>2, TraceThereIs
<1>4. /\ M \in Nat /\ N \in Nat /\ a \o b \in Text /\ Len(a \o b) = M + N
      /\ \A n \in 1 .. M : (a \o b)[n] = a[n]
      /\ \A n \in 1 .. N : (a \o b)[M + n] = b[n]
  <2>1. M \in Nat /\ N \in Nat
    BY DEF Text
  <2>2. /\ a \o b \in Text /\ Len(a \o b) = M + N
        /\ \A i \in 1 .. M + N :
             (a \o b)[i] = IF i <= M THEN a[i] ELSE b[i - M]
    BY ConcatProperties DEF Text
  <2> HIDE DEF M, N
  <2>3. ASSUME NEW n \in 1 .. M
        PROVE  (a \o b)[n] = a[n]
    BY <2>1, <2>2
  <2>4. ASSUME NEW n \in 1 .. N
        PROVE  (a \o b)[M + n] = b[n]
    <3>1. M + n \in 1 .. M + N /\ ~(M + n <= M) /\ (M + n) - M = n
      BY <2>1
    <3> QED
      BY <2>2, <3>1
  <2> QED
    BY <2>1, <2>2, <2>3, <2>4
<1>5. /\ f \in [0 .. M -> Reader] /\ f[0] = s
      /\ \A n \in 1 .. M : f[n] = ReadChar(f[n - 1], a[n], sep)
  BY <1>1 DEF Trace
<1>6. /\ g \in [0 .. N -> Reader] /\ g[0] = mid
      /\ \A n \in 1 .. N : g[n] = ReadChar(g[n - 1], b[n], sep)
  BY <1>3 DEF Trace
<1> DEFINE ab == a \o b
           h == [n \in 0 .. M + N |-> IF n <= M THEN f[n] ELSE g[n - M]]
<1> HIDE DEF M, N, ab
<1>7. /\ \A n \in 0 .. M : h[n] = f[n]
      /\ \A n \in 0 .. N : h[M + n] = g[n]
  <2>1. ASSUME NEW n \in 0 .. M
        PROVE  h[n] = f[n]
    BY <1>4
  <2>2. ASSUME NEW n \in 0 .. N
        PROVE  h[M + n] = g[n]
    <3>1. h[M + n] = IF M + n <= M THEN f[M + n] ELSE g[(M + n) - M]
      BY <1>4
    <3>2. CASE n = 0
      <4>1. M + n <= M /\ M + n = M
        BY <1>4, <3>2
      <4> QED
        BY <1>2, <1>6, <3>1, <3>2, <4>1
    <3>3. CASE n # 0
      <4>1. ~(M + n <= M) /\ (M + n) - M = n
        BY <1>4, <3>3
      <4> QED
        BY <3>1, <4>1
    <3> QED
      BY <3>2, <3>3
  <2> QED
    BY <2>1, <2>2
<1>8. h \in [0 .. M + N -> Reader]
  <2>1. ASSUME NEW n \in 0 .. M + N
        PROVE  (IF n <= M THEN f[n] ELSE g[n - M]) \in Reader
    <3>1. CASE n <= M
      BY <1>4, <1>5, <3>1
    <3>2. CASE ~(n <= M)
      <4>1. n - M \in 0 .. N
        BY <1>4, <3>2
      <4> QED
        BY <1>6, <3>2, <4>1
    <3> QED
      BY <3>1, <3>2
  <2> QED
    BY <2>1
<1> HIDE DEF h
<1>9. h[0] = s
  BY <1>4, <1>5, <1>7
<1>10. ASSUME NEW n \in 1 .. M + N
       PROVE  h[n] = ReadChar(h[n - 1], ab[n], sep)
  <2>1. CASE n <= M
    <3>1. n \in 1 .. M /\ n \in 0 .. M /\ n - 1 \in 0 .. M
      BY <1>4, <2>1
    <3> QED
      BY <1>4, <1>5, <1>7, <3>1 DEF ab
  <2>2. CASE ~(n <= M)
    <3> DEFINE k == n - M
    <3>1. /\ k \in 1 .. N /\ k \in 0 .. N /\ k - 1 \in 0 .. N
          /\ n = M + k /\ n - 1 = M + (k - 1)
      BY <1>4, <2>2
    <3> HIDE DEF k
    <3>2. h[n] = g[k] /\ h[n - 1] = g[k - 1] /\ ab[n] = b[k]
      BY <1>4, <1>7, <3>1 DEF ab
    <3> QED
      BY <1>6, <3>1, <3>2
  <2> QED
    BY <2>1, <2>2
<1>11. ab \in Text /\ Len(ab) = M + N
  BY <1>4 DEF ab
<1>12. Trace(h, s, ab, sep)
  BY <1>8, <1>9, <1>10, <1>11 DEF Trace
<1>13. ReadText(s, ab, sep) = h[M + N]
  BY <1>11, <1>12, ReadTraced
<1>14. ReadText(mid, b, sep) = g[N]
  BY <1>2, <1>3, ReadTraced DEF N
<1>15. h[M + N] = g[N]
  BY <1>4, <1>7
<1> QED
  BY <1>2, <1>11, <1>13, <1>14, <1>15 DEF ab, mid

LEMMA ReadsNothing ==
  ASSUME NEW s \in Reader, NEW sep \in Separator
  PROVE  <<>> \in Text /\ ReadText(s, <<>>, sep) = s
<1>1. <<>> \in Text /\ Len(<<>>) = 0
  BY DEF Text
<1>2. Trace([n \in 0 .. 0 |-> s], s, <<>>, sep)
  BY <1>1 DEF Trace
<1> QED
  BY <1>1, <1>2, ReadTraced

LEMMA ReadsOne ==
  ASSUME NEW s \in Reader, NEW sep \in Separator, NEW char \in Char
  PROVE  /\ <<char>> \in Text
         /\ ReadText(s, <<char>>, sep) = ReadChar(s, char, sep)
<1> DEFINE next == ReadChar(s, char, sep)
           at == [n \in 0 .. 1 |-> IF n = 0 THEN s ELSE next]
<1>1. <<char>> \in Text /\ Len(<<char>>) = 1 /\ <<char>>[1] = char
  BY DEF Text
<1>2. next \in Reader
  BY ReaderGoesOn
<1>3. /\ at \in [0 .. 1 -> Reader] /\ at[0] = s /\ at[1] = next
  <2> HIDE DEF next
  <2> QED
    BY <1>2
<1> HIDE DEF at
<1>4. \A n \in 1 .. 1 : n = 1 /\ n - 1 = 0
  OBVIOUS
<1>5. Trace(at, s, <<char>>, sep)
  BY <1>1, <1>3, <1>4 DEF Trace
<1> QED
  BY <1>1, <1>3, <1>5, ReadTraced

(* Reading texts that were put together, when it is known what there is    *)
(* after each of them.                                                     *)
LEMMA ReadsAll ==
  ASSUME NEW texts \in Seq(Text), NEW sep \in Separator,
         NEW at \in [0 .. Len(texts) -> Reader],
         \A i \in 1 .. Len(texts) :
           ReadText(at[i - 1], texts[i], sep) = at[i]
  PROVE  /\ FlattenSeq(texts) \in Text
         /\ ReadText(at[0], FlattenSeq(texts), sep) = at[Len(texts)]
<1> DEFINE N == Len(texts)
<1>1. N \in Nat /\ \A i \in 1 .. N : texts[i] \in Text
  OBVIOUS
<1>2. CASE N = 0
  <2>1. texts = <<>> /\ FlattenSeq(texts) = <<>>
    BY <1>2 DEF FlattenSeq
  <2>2. at[0] \in Reader
    BY <1>2
  <2> QED
    BY <1>2, <2>1, <2>2, ReadsNothing
<1>3. CASE N # 0
  <2> DEFINE Joins(f, n) ==
               /\ f[1] = texts[1]
               /\ \A k \in 2 .. n : f[k] = f[k - 1] \o texts[k]
             Parts(n) == \E f \in [1 .. n -> Text] : Joins(f, n)
             S == {n \in Nat : n + 1 <= N => Parts(n + 1)}
  <2> HIDE DEF N
  <2>1. 0 \in S
    <3>1. 1 \in 1 .. N
      BY <1>1, <1>3
    <3> DEFINE f == [k \in 1 .. 1 |-> texts[1]]
    <3>2. f \in [1 .. 1 -> Text] /\ Joins(f, 1)
      BY <1>1, <3>1
    <3> HIDE DEF f
    <3>3. Parts(1) /\ 0 + 1 = 1
      BY <3>2
    <3> HIDE DEF Parts
    <3> QED
      BY <3>3
  <2>2. ASSUME NEW m \in S
        PROVE  m + 1 \in S
    <3> DEFINE n == m + 1
    <3>0. m \in Nat /\ n \in Nat /\ n >= 1 /\ (n <= N => Parts(n))
      <4> HIDE DEF Parts
      <4> QED
        BY <2>2
    <3> HIDE DEF n
    <3> SUFFICES ASSUME n + 1 <= N
                 PROVE  Parts(n + 1)
      <4> HIDE DEF Parts
      <4> QED
        BY <3>0 DEF n
    <3>1. Parts(n) /\ texts[n + 1] \in Text
      <4>1. n <= N /\ n + 1 \in 1 .. N
        BY <1>1, <3>0
      <4> HIDE DEF Parts
      <4> QED
        BY <1>1, <3>0, <4>1
    <3>2. PICK f \in [1 .. n -> Text] : Joins(f, n)
      BY <3>1
    <3> DEFINE new == f[n] \o texts[n + 1]
               h == [k \in 1 .. n + 1 |-> IF k = n + 1 THEN new ELSE f[k]]
    <3>3. new \in Text
      <4>1. f[n] \in Text
        BY <3>0, <3>2
      <4> QED
        BY <3>1, <4>1 DEF Text
    <3>4. /\ h \in [1 .. n + 1 -> Text] /\ h[n + 1] = new
          /\ \A k \in 1 .. n : h[k] = f[k]
      <4> HIDE DEF new
      <4> QED
        BY <3>0, <3>2, <3>3
    <3> HIDE DEF h
    <3>5. h[1] = texts[1]
      BY <3>0, <3>2, <3>4
    <3>6. ASSUME NEW k \in 2 .. n + 1
          PROVE  h[k] = h[k - 1] \o texts[k]
      <4>1. CASE k = n + 1
        <5>1. k - 1 = n /\ n \in 1 .. n
          BY <3>0, <4>1
        <5> QED
          BY <3>4, <4>1, <5>1
      <4>2. CASE k # n + 1
        <5>1. k \in 2 .. n /\ k \in 1 .. n /\ k - 1 \in 1 .. n
          BY <3>0, <4>2
        <5> QED
          BY <3>2, <3>4, <5>1
      <4> QED
        BY <4>1, <4>2
    <3>7. Joins(h, n + 1)
      BY <3>5, <3>6
    <3> QED
      BY <3>4, <3>7
  <2>3. Parts(N)
    <3>1. S = Nat
      <4>1. S \in SUBSET Nat
        OBVIOUS
      <4> HIDE DEF S
      <4> QED
        BY <2>1, <2>2, <4>1, NatUp
    <3>2. N - 1 \in Nat /\ (N - 1) + 1 = N /\ N <= N
      BY <1>1, <1>3
    <3> HIDE DEF Parts
    <3> QED
      BY <3>1, <3>2
  <2> DEFINE Body(f) == [i \in 1 .. N |->
                           IF i = 1 THEN texts[i] ELSE f[i - 1] \o texts[i]]
             flatten == CHOOSE f : f = Body(f)
  <2>4. FlattenSeq(texts) = flatten[N]
    BY <1>3 DEF FlattenSeq, N
  <2>5. PICK f \in [1 .. N -> Text] : Joins(f, N)
    BY <2>3
  <2>6. f = Body(f)
    <3>1. ASSUME NEW i \in 1 .. N
          PROVE  f[i] = Body(f)[i]
      <4>1. CASE i = 1
        BY <2>5, <4>1
      <4>2. CASE i # 1
        <5>1. i \in 2 .. N
          BY <1>1, <4>2
        <5> QED
          BY <2>5, <4>2, <5>1
      <4> QED
        BY <4>1, <4>2
    <3> QED
      BY <2>5, <3>1
  <2>7. flatten = Body(flatten)
    <3> HIDE DEF Body
    <3> QED
      BY <2>6
  <2> HIDE DEF flatten
  <2>8. /\ flatten[1] = texts[1]
        /\ \A i \in 2 .. N : flatten[i] = flatten[i - 1] \o texts[i]
    <3>1. 1 \in 1 .. N
      BY <1>1, <1>3
    <3>2. flatten[1] = Body(flatten)[1]
      BY <2>7
    <3>3. ASSUME NEW i \in 2 .. N
          PROVE  flatten[i] = flatten[i - 1] \o texts[i]
      <4>1. i \in 1 .. N /\ i # 1
        BY <1>1
      <4>2. flatten[i] = Body(flatten)[i]
        BY <2>7
      <4> QED
        BY <4>1, <4>2
    <3> QED
      BY <3>1, <3>2, <3>3
  <2> DEFINE Good(i) == /\ flatten[i] \in Text
                        /\ ReadText(at[0], flatten[i], sep) = at[i]
             T == {m \in Nat : m + 1 <= N => Good(m + 1)}
  <2>9. \A i \in 0 .. N : at[i] \in Reader
    BY DEF N
  <2>10. \A i \in 1 .. N : ReadText(at[i - 1], texts[i], sep) = at[i]
    BY DEF N
  <2>11. 0 \in T
    <3>1. 1 \in 1 .. N /\ 1 - 1 = 0 /\ 0 + 1 = 1
      BY <1>1, <1>3
    <3> QED
      BY <1>1, <2>8, <2>10, <3>1
  <2>12. ASSUME NEW m \in T
         PROVE  m + 1 \in T
    <3>1. CASE (m + 1) + 1 <= N
      <4> DEFINE n == m + 1
      <4>1. /\ m \in Nat /\ n \in 1 .. N /\ n + 1 \in 2 .. N
            /\ n + 1 \in 1 .. N /\ (n + 1) - 1 = n /\ 0 \in 0 .. N /\ Good(n)
        BY <1>1, <2>12, <3>1
      <4> HIDE DEF n
      <4>2. flatten[n + 1] = flatten[n] \o texts[n + 1]
            /\ texts[n + 1] \in Text
        BY <1>1, <2>8, <4>1
      <4>3. ReadText(at[0], flatten[n + 1], sep)
              = ReadText(at[n], texts[n + 1], sep)
            /\ flatten[n + 1] \in Text
        BY <2>9, <4>1, <4>2, ReadsOn
      <4>4. Good(n + 1)
        BY <2>10, <4>1, <4>3
      <4> QED
        BY <4>1, <4>4 DEF n
    <3>2. CASE ~((m + 1) + 1 <= N)
      BY <2>12, <3>2
    <3> QED
      BY <3>1, <3>2
  <2>13. Good(N)
    <3>1. T = Nat
      <4>1. T \in SUBSET Nat
        OBVIOUS
      <4> HIDE DEF T
      <4> QED
        BY <2>11, <2>12, <4>1, NatUp
    <3>2. N - 1 \in Nat /\ (N - 1) + 1 = N /\ N <= N
      BY <1>1, <1>3
    <3>3. N - 1 \in T
      BY <3>1, <3>2
    <3> HIDE DEF Good
    <3> QED
      BY <3>2, <3>3
  <2> QED
    BY <2>4, <2>13 DEF N
<1> QED
  BY <1>2, <1>3

(* The beginning of a sequence.                                            *)
Prefix(q, n) == [i \in 1 .. n |-> q[i]]

LEMMA PrefixGrows ==
  ASSUME NEW X, NEW q \in Seq(X), NEW n \in 1 .. Len(q)
  PROVE  /\ Prefix(q, n - 1) \in Seq(X)
         /\ Append(Prefix(q, n - 1), q[n]) = Prefix(q, n)
<1>1. n \in Nat /\ n - 1 \in Nat /\ Len(q) \in Nat
      /\ \A i \in 1 .. n : q[i] \in X
  OBVIOUS
<1> DEFINE p == Prefix(q, n - 1)
<1>2. p \in Seq(X) /\ Len(p) = n - 1 /\ \A i \in 1 .. n - 1 : p[i] = q[i]
  BY <1>1 DEF Prefix
<1> HIDE DEF p
<1>3. /\ Append(p, q[n]) \in Seq(X) /\ Len(Append(p, q[n])) = n
      /\ \A i \in 1 .. n : Append(p, q[n])[i] = q[i]
  <2>1. q[n] \in X
    BY <1>1
  <2>2. /\ Append(p, q[n]) \in Seq(X) /\ Len(Append(p, q[n])) = (n - 1) + 1
        /\ \A i \in 1 .. n - 1 : Append(p, q[n])[i] = p[i]
        /\ Append(p, q[n])[(n - 1) + 1] = q[n]
    BY <1>2, <2>1, AppendProperties
  <2>3. (n - 1) + 1 = n
    BY <1>1
  <2>4. \A i \in 1 .. n : i = n \/ i \in 1 .. n - 1
    BY <1>1
  <2> QED
    BY <1>2, <2>2, <2>3, <2>4
<1>4. Prefix(q, n) \in Seq(X) /\ Len(Prefix(q, n)) = n
      /\ \A i \in 1 .. n : Prefix(q, n)[i] = q[i]
  BY <1>1 DEF Prefix
<1>5. Append(p, q[n]) = Prefix(q, n)
  BY <1>3, <1>4
<1> QED
  BY <1>2, <1>5 DEF p

LEMMA PrefixEnds ==
  ASSUME NEW X, NEW q \in Seq(X)
  PROVE  Prefix(q, 0) = <<>> /\ Prefix(q, Len(q)) = q
  BY DEF Prefix

(* What a field leaves behind, with or without quotes.                     *)
Mode(text) == IF Quoted(text) THEN "closed"
              ELSE IF text = <<>> THEN "start" ELSE "plain"
Fresh(s) == s.field = <<>> /\ s.mode = "start"
With(s, text, mode) == [s EXCEPT !.field = text, !.mode = mode]

LEMMA WithIs ==
  ASSUME NEW s \in Reader, NEW text \in Text,
         NEW m \in {"start", "plain", "quoted", "closed"}
  PROVE  /\ With(s, text, m) \in Reader /\ With(s, text, m).field = text
         /\ With(s, text, m).mode = m
         /\ With(s, text, m).rows = s.rows /\ With(s, text, m).row = s.row
         /\ \A t \in Text, k \in {"start", "plain", "quoted", "closed"} :
              With(With(s, text, m), t, k) = With(s, t, k)
         /\ \A char \in Char, k \in {"start", "plain", "quoted", "closed"} :
              /\ Take(With(s, text, m), char, k)
                   = With(s, Append(text, char), k)
              /\ [With(s, text, m) EXCEPT !.mode = k] = With(s, text, k)
  BY DEF With, Reader, Take

LEMMA PlainReads ==
  ASSUME NEW s \in Reader, NEW sep \in Separator, NEW text \in Text, Fresh(s),
         ~Quoted(text), ~Has(text, sep), ~Has(text, CarriageReturn)
  PROVE  ReadText(s, text, sep) = With(s, text, Mode(text))
<1> DEFINE N == Len(text)
           mode(n) == IF n = 0 THEN "start" ELSE "plain"
           at == [n \in 0 .. N |-> With(s, Prefix(text, n), mode(n))]
<1>1. N \in Nat /\ \A n \in 1 .. N : text[n] \in Char
      /\ text[n] # Quote /\ text[n] # NewLine /\ text[n] # sep
      /\ text[n] # CarriageReturn
  BY DEF Text, Quoted, Has
<1>2. /\ Prefix(text, 0) = <<>> /\ Prefix(text, N) = text
      /\ \A n \in 0 .. N : Prefix(text, n) \in Text
      /\ \A n \in 1 .. N : Append(Prefix(text, n - 1), text[n])
                             = Prefix(text, n)
  <2>1. Prefix(text, 0) = <<>> /\ Prefix(text, N) = text
    BY PrefixEnds DEF Text
  <2>2. \A n \in 1 .. N : /\ Prefix(text, n - 1) \in Text
                          /\ Append(Prefix(text, n - 1), text[n])
                               = Prefix(text, n)
    BY PrefixGrows DEF Text
  <2>3. ASSUME NEW n \in 0 .. N
        PROVE  Prefix(text, n) \in Text
    <3>1. CASE n = N
      BY <2>1, <3>1
    <3>2. CASE n # N
      <4>1. n + 1 \in 1 .. N /\ (n + 1) - 1 = n
        BY <1>1, <3>2
      <4> QED
        BY <2>2, <4>1
    <3> QED
      BY <3>1, <3>2
  <2> QED
    BY <2>1, <2>2, <2>3
<1> HIDE DEF N
<1>3. \A n \in 0 .. N : at[n] = With(s, Prefix(text, n), mode(n))
                        /\ at[n] \in Reader
  BY <1>2, WithIs
<1>4. at[0] = s
  <2>1. With(s, <<>>, "start") = s
    BY DEF With, Fresh, Reader
  <2> QED
    BY <1>1, <1>2, <1>3, <2>1
<1>5. ASSUME NEW n \in 1 .. N
      PROVE  at[n] = ReadChar(at[n - 1], text[n], sep)
  <2> DEFINE r == at[n - 1]
  <2>1. n \in 0 .. N /\ n - 1 \in 0 .. N /\ n # 0
    BY <1>1
  <2>2. r = With(s, Prefix(text, n - 1), mode(n - 1))
    BY <1>3, <2>1
  <2>3. /\ r.mode \in {"start", "plain"}
        /\ Take(r, text[n], "plain") = With(s, Prefix(text, n), "plain")
    <3>1. mode(n - 1) \in {"start", "plain"}
      OBVIOUS
    <3> HIDE DEF mode, r
    <3>2. Prefix(text, n - 1) \in Text /\ text[n] \in Char
      BY <1>1, <1>2, <2>1
    <3>3. r.mode = mode(n - 1)
      BY <2>2, <3>1, <3>2, WithIs
    <3>4. Take(r, text[n], "plain")
            = With(s, Append(Prefix(text, n - 1), text[n]), "plain")
      BY <2>2, <3>1, <3>2, WithIs
    <3> QED
      BY <1>2, <3>1, <3>3, <3>4
  <2> HIDE DEF r
  <2>4. ReadChar(r, text[n], sep) = Take(r, text[n], "plain")
    BY <1>1, <2>3 DEF ReadChar
  <2> QED
    BY <1>3, <2>1, <2>3, <2>4 DEF r
<1>6. at \in [0 .. N -> Reader]
  BY <1>3
<1>7. Trace(at, s, text, sep)
  <2> HIDE DEF at
  <2> QED
    BY <1>4, <1>5, <1>6 DEF Trace, N
<1>8. ReadText(s, text, sep) = at[N]
  <2> HIDE DEF at
  <2> QED
    BY <1>7, ReadTraced DEF N
<1>9. N = 0 <=> text = <<>>
  BY DEF N, Text
<1> QED
  BY <1>1, <1>2, <1>3, <1>8, <1>9 DEF Mode

LEMMA QuotedReads ==
  ASSUME NEW s \in Reader, NEW sep \in Separator, NEW text \in Text, Fresh(s),
         Quoted(text)
  PROVE  /\ EscapeCsv(text) \in Text
         /\ ReadText(s, EscapeCsv(text), sep) = With(s, text, "closed")
<1> DEFINE N == Len(text)
           esc == [i \in DOMAIN text |->
                     IF text[i] = Quote THEN <<Quote, Quote>> ELSE <<text[i]>>]
           at == [n \in 0 .. N |-> With(s, Prefix(text, n), "quoted")]
           inner == FlattenSeq(esc)
<1>1. /\ N \in Nat /\ DOMAIN text = 1 .. N
      /\ \A n \in 1 .. N : text[n] \in Char
  BY DEF Text
<1>2. /\ Prefix(text, 0) = <<>> /\ Prefix(text, N) = text
      /\ \A n \in 1 .. N : /\ Prefix(text, n - 1) \in Text
                           /\ Append(Prefix(text, n - 1), text[n])
                                = Prefix(text, n)
  <2>1. Prefix(text, 0) = <<>> /\ Prefix(text, N) = text
    BY PrefixEnds DEF Text
  <2>2. \A n \in 1 .. N : /\ Prefix(text, n - 1) \in Text
                          /\ Append(Prefix(text, n - 1), text[n])
                               = Prefix(text, n)
    BY PrefixGrows DEF Text
  <2> QED
    BY <2>1, <2>2
<1>3. <<Quote>> \in Text /\ <<Quote, Quote>> = <<Quote>> \o <<Quote>>
      /\ Quote \in Char
  BY CharTypes DEF Text
<1>4. esc \in Seq(Text) /\ Len(esc) = N
  <2>1. \A i \in 1 .. N : (IF text[i] = Quote THEN <<Quote, Quote>>
                           ELSE <<text[i]>>) \in Text
    BY <1>1, <1>3 DEF Text
  <2> QED
    BY <1>1, <2>1
<1>5. \A i \in 1 .. N : esc[i] = IF text[i] = Quote THEN <<Quote, Quote>>
                                 ELSE <<text[i]>>
  BY <1>1
<1> HIDE DEF N, esc
<1>6. \A n \in 0 .. N : at[n] = With(s, Prefix(text, n), "quoted")
                        /\ at[n] \in Reader
  <2>1. ASSUME NEW n \in 0 .. N
        PROVE  Prefix(text, n) \in Text
    <3>1. CASE n = N
      BY <1>2, <3>1
    <3>2. CASE n # N
      <4>1. n + 1 \in 1 .. N /\ (n + 1) - 1 = n
        BY <1>1, <3>2
      <4> QED
        BY <1>2, <4>1
    <3> QED
      BY <3>1, <3>2
  <2> QED
    BY <2>1, WithIs
<1>7. ASSUME NEW n \in 1 .. N
      PROVE  ReadText(at[n - 1], esc[n], sep) = at[n]
  <2> DEFINE r == at[n - 1]
             p == Prefix(text, n - 1)
  <2>1. n \in 0 .. N /\ n - 1 \in 0 .. N
    BY <1>1
  <2>2. r = With(s, p, "quoted") /\ r \in Reader /\ p \in Text
        /\ at[n] = With(s, Append(p, text[n]), "quoted") /\ text[n] \in Char
    BY <1>1, <1>2, <1>6, <2>1
  <2> HIDE DEF at, r, p
  <2>3. r.mode = "quoted" /\ Take(r, text[n], "quoted") = at[n]
    BY <2>2, WithIs
  <2>4. CASE text[n] # Quote
    <3>1. ReadText(r, <<text[n]>>, sep) = ReadChar(r, text[n], sep)
      BY <2>2, ReadsOne
    <3>2. ReadChar(r, text[n], sep) = Take(r, text[n], "quoted")
      BY <2>3, <2>4 DEF ReadChar
    <3> QED
      BY <1>5, <2>3, <2>4, <3>1, <3>2 DEF r
  <2>5. CASE text[n] = Quote
    <3> DEFINE half == With(s, p, "closed")
    <3>1. ReadText(r, <<Quote>>, sep) = half
      <4>1. ReadText(r, <<Quote>>, sep) = ReadChar(r, Quote, sep)
        BY <1>3, <2>2, ReadsOne
      <4>2. ReadChar(r, Quote, sep) = [r EXCEPT !.mode = "closed"]
        BY <2>3 DEF ReadChar
      <4>3. [r EXCEPT !.mode = "closed"] = half
        BY <2>2, WithIs
      <4> QED
        BY <4>1, <4>2, <4>3
    <3>2. half \in Reader /\ half.mode = "closed"
          /\ Take(half, Quote, "quoted") = at[n]
      BY <1>3, <2>2, <2>5, WithIs
    <3> HIDE DEF half
    <3>3. ReadText(half, <<Quote>>, sep) = at[n]
      <4>1. ReadText(half, <<Quote>>, sep) = ReadChar(half, Quote, sep)
        BY <1>3, <3>2, ReadsOne
      <4>2. ReadChar(half, Quote, sep) = Take(half, Quote, "quoted")
        BY <3>2, CharTypes, CharsDiffer DEF ReadChar, Chars
      <4> QED
        BY <3>2, <4>1, <4>2
    <3>4. ReadText(r, <<Quote>> \o <<Quote>>, sep) = at[n]
      BY <1>3, <2>2, <3>1, <3>3, ReadsOn
    <3>5. esc[n] = <<Quote>> \o <<Quote>>
      BY <1>3, <1>5, <2>5
    <3> QED
      BY <3>4, <3>5 DEF r
  <2> QED
    BY <2>4, <2>5
<1>8. inner \in Text /\ ReadText(at[0], inner, sep) = at[N]
  <2>1. at \in [0 .. Len(esc) -> Reader]
    BY <1>4, <1>6
  <2> HIDE DEF at
  <2> QED
    BY <1>4, <1>7, <2>1, ReadsAll
<1>9. ReadText(s, <<Quote>>, sep) = at[0]
  <2>1. ReadText(s, <<Quote>>, sep) = ReadChar(s, Quote, sep)
    BY <1>3, ReadsOne
  <2>2. ReadChar(s, Quote, sep) = [s EXCEPT !.mode = "quoted"]
    BY CharTypes, CharsDiffer DEF ReadChar, Fresh, Chars
  <2>3. [s EXCEPT !.mode = "quoted"] = With(s, <<>>, "quoted")
    BY DEF With, Fresh, Reader
  <2>4. 0 \in 0 .. N
    BY <1>1
  <2> QED
    BY <1>2, <1>6, <2>1, <2>2, <2>3, <2>4
<1>10. ReadText(at[N], <<Quote>>, sep) = With(s, text, "closed")
  <2>1. N \in 0 .. N
    BY <1>1
  <2>2. at[N] = With(s, text, "quoted") /\ at[N] \in Reader
    BY <1>2, <1>6, <2>1
  <2> HIDE DEF at
  <2>3. ReadText(at[N], <<Quote>>, sep) = ReadChar(at[N], Quote, sep)
    BY <1>3, <2>2, ReadsOne
  <2>4. at[N].mode = "quoted"
        /\ [at[N] EXCEPT !.mode = "closed"] = With(s, text, "closed")
    <3>1. "quoted" \in {"start", "plain", "quoted", "closed"}
          /\ "closed" \in {"start", "plain", "quoted", "closed"}
      OBVIOUS
    <3>2. With(s, text, "quoted").mode = "quoted"
          /\ [With(s, text, "quoted") EXCEPT !.mode = "closed"]
               = With(s, text, "closed")
      BY <1>3, <3>1, WithIs
    <3> QED
      BY <2>2, <3>2
  <2>5. ReadChar(at[N], Quote, sep) = [at[N] EXCEPT !.mode = "closed"]
    BY <2>4 DEF ReadChar
  <2> QED
    BY <2>3, <2>4, <2>5
<1>11. EscapeCsv(text) = (<<Quote>> \o inner) \o <<Quote>>
  BY DEF EscapeCsv, esc
<1> HIDE DEF at, inner
<1>12. /\ <<Quote>> \o inner \in Text
       /\ ReadText(s, <<Quote>> \o inner, sep) = at[N]
  BY <1>3, <1>8, <1>9, ReadsOn
<1>13. /\ (<<Quote>> \o inner) \o <<Quote>> \in Text
       /\ ReadText(s, (<<Quote>> \o inner) \o <<Quote>>, sep)
            = With(s, text, "closed")
  BY <1>3, <1>10, <1>12, ReadsOn
<1> QED
  BY <1>11, <1>13

LEMMA FieldReads ==
  ASSUME NEW s \in Reader, NEW sep \in Separator, NEW text \in Text, Fresh(s),
         Safe(text, sep)
  PROVE  /\ EscapeCsv(text) \in Text
         /\ ReadText(s, EscapeCsv(text), sep) = With(s, text, Mode(text))
<1>1. CASE Quoted(text)
  BY <1>1, QuotedReads DEF Mode
<1>2. CASE ~Quoted(text)
  BY <1>2, PlainReads DEF EscapeCsv, Safe
<1> QED
  BY <1>1, <1>2

LEMMA FieldEnds ==
  ASSUME NEW s \in Reader, NEW sep \in Separator, s.mode # "quoted"
  PROVE  /\ ReadChar(s, sep, sep) = EndField(s)
         /\ ReadChar(s, NewLine, sep) = EndRow(s)
  BY CharTypes, CharsDiffer DEF ReadChar, Chars, Separator

(* A line: the texts of a row, with separators between them.               *)
Line(texts, sep) ==
  Joined([c \in DOMAIN texts |-> EscapeCsv(texts[c])], sep)
Lined(rows, texts, n) ==
  [rows |-> rows, row |-> Prefix(texts, n - 1), field |-> texts[n],
   mode |-> Mode(texts[n])]
Starting(rows) == [Begun EXCEPT !.rows = rows]
SeveralTexts == {texts \in Seq(Text) : Len(texts) > 1}
Escaped(rows) ==
  [i \in DOMAIN rows |-> [c \in DOMAIN rows[i] |-> EscapeCsv(rows[i][c])]]

LEMMA ReaderIs ==
  \A r \in Reader : r = [rows |-> r.rows, row |-> r.row, field |-> r.field,
                         mode |-> r.mode]
  BY DEF Reader

LEMMA StartingIs ==
  ASSUME NEW rows \in Seq(Seq(Text))
  PROVE  /\ Starting(rows) \in Reader /\ Fresh(Starting(rows))
         /\ Starting(rows) = [rows |-> rows, row |-> <<>>, field |-> <<>>,
                              mode |-> "start"]
<1>1. <<>> \in Text /\ <<>> \in Seq(Text)
  BY DEF Text
<1>2. Starting(rows) = [rows |-> rows, row |-> <<>>, field |-> <<>>,
                        mode |-> "start"]
  BY DEF Starting, Begun
<1>3. /\ [rows |-> rows, row |-> <<>>, field |-> <<>>, mode |-> "start"]
           \in Reader
      /\ Fresh([rows |-> rows, row |-> <<>>, field |-> <<>>,
                mode |-> "start"])
  BY <1>1 DEF Reader, Fresh
<1> QED
  BY <1>2, <1>3

LEMMA LinedIs ==
  ASSUME NEW rows \in Seq(Seq(Text)), NEW texts \in Seq(Text),
         NEW n \in 1 .. Len(texts)
  PROVE  /\ Lined(rows, texts, n) \in Reader
         /\ Lined(rows, texts, n).mode # "quoted"
         /\ EndField(Lined(rows, texts, n))
              = [rows |-> rows, row |-> Prefix(texts, n), field |-> <<>>,
                 mode |-> "start"]
<1>1. texts[n] \in Text /\ Prefix(texts, n - 1) \in Seq(Text)
      /\ Append(Prefix(texts, n - 1), texts[n]) = Prefix(texts, n)
  BY PrefixGrows
<1>2. Mode(texts[n]) \in {"start", "plain", "closed"}
  BY DEF Mode
<1> DEFINE p == Prefix(texts, n - 1)
           m == Mode(texts[n])
           r == [rows |-> rows, row |-> p, field |-> texts[n], mode |-> m]
<1>3. Lined(rows, texts, n) = r
  BY DEF Lined
<1> HIDE DEF p, m
<1>4. r \in Reader /\ r.mode # "quoted"
  BY <1>1, <1>2 DEF Reader, p, m
<1>5. EndField(r) = [rows |-> rows, row |-> Append(p, texts[n]),
                     field |-> <<>>, mode |-> "start"]
  <2>1. r.rows = rows /\ r.row = p /\ r.field = texts[n]
    OBVIOUS
  <2> HIDE DEF r
  <2>2. Append(p, texts[n]) \in Seq(Text) /\ <<>> \in Text
    BY <1>1 DEF p, Text
  <2>3. /\ EndField(r) \in Reader /\ EndField(r).rows = rows
        /\ EndField(r).row = Append(p, texts[n])
        /\ EndField(r).field = <<>> /\ EndField(r).mode = "start"
    BY <1>4, <2>1, <2>2 DEF Reader, EndField
  <2> QED
    BY <2>3, ReaderIs
<1> QED
  BY <1>1, <1>3, <1>4, <1>5 DEF p

LEMMA LineReads ==
  ASSUME NEW rows \in Seq(Seq(Text)), NEW sep \in Separator,
         NEW texts \in SeveralTexts,
         \A c \in DOMAIN texts : Safe(texts[c], sep)
  PROVE  /\ Line(texts, sep) \in Text
         /\ ReadText(Starting(rows), Line(texts, sep), sep)
              = Lined(rows, texts, Len(texts))
<1> DEFINE N == Len(texts)
           esc == [c \in DOMAIN texts |-> EscapeCsv(texts[c])]
           parts == [i \in DOMAIN esc |->
                       IF i = 1 THEN esc[i] ELSE <<sep>> \o esc[i]]
           at == [n \in 0 .. N |-> IF n = 0 THEN Starting(rows)
                                   ELSE Lined(rows, texts, n)]
<1>1. /\ N \in Nat /\ N # 0 /\ DOMAIN texts = 1 .. N /\ texts \in Seq(Text)
      /\ \A c \in 1 .. N : texts[c] \in Text
  BY DEF SeveralTexts
<1>2. /\ \A c \in 1 .. N : parts[c] = IF c = 1 THEN EscapeCsv(texts[c])
                                      ELSE <<sep>> \o EscapeCsv(texts[c])
      /\ DOMAIN parts = 1 .. N
  BY <1>1
<1>3. Line(texts, sep) = FlattenSeq(parts)
  BY DEF Line, Joined
<1> HIDE DEF N, parts, esc
<1>4. \A n \in 0 .. N : at[n] \in Reader
  BY StartingIs, LinedIs, <1>1 DEF N
<1>5. at[0] = Starting(rows) /\ \A n \in 1 .. N : at[n] = Lined(rows, texts, n)
  BY <1>1
<1> HIDE DEF at
<1>6. \A c \in 1 .. N : EscapeCsv(texts[c]) \in Text
  BY <1>1, StartingIs, FieldReads
<1>7. <<sep>> \in Text /\ sep \in Char
  BY CharTypes DEF Text
<1>8. \A c \in 1 .. N : parts[c] \in Text
  <2>1. \A a, b \in Text : a \o b \in Text
    BY DEF Text
  <2> QED
    BY <1>2, <1>6, <1>7, <2>1
<1>9. ASSUME NEW n \in 1 .. N
      PROVE  ReadText(at[n - 1], parts[n], sep) = at[n]
  <2> DEFINE e == EscapeCsv(texts[n])
             begun == [rows |-> rows, row |-> Prefix(texts, n - 1),
                       field |-> <<>>, mode |-> "start"]
  <2>1. texts[n] \in Text /\ Safe(texts[n], sep) /\ e \in Text
        /\ n \in 1 .. Len(texts)
    BY <1>1, <1>6 DEF N
  <2>2. begun \in Reader /\ Fresh(begun)
    <3>1. Prefix(texts, n - 1) \in Seq(Text) /\ <<>> \in Text
      BY <1>1, <2>1, PrefixGrows DEF Text
    <3> QED
      BY <3>1 DEF Reader, Fresh
  <2>3. ReadText(begun, e, sep) = at[n]
    <3>1. ReadText(begun, e, sep) = With(begun, texts[n], Mode(texts[n]))
      <4> HIDE DEF begun
      <4> QED
        BY <2>1, <2>2, FieldReads
    <3>2. With(begun, texts[n], Mode(texts[n])) = Lined(rows, texts, n)
      <4> DEFINE w == With(begun, texts[n], Mode(texts[n]))
      <4>1. Mode(texts[n]) \in {"start", "plain", "quoted", "closed"}
        BY DEF Mode
      <4>2. begun.rows = rows /\ begun.row = Prefix(texts, n - 1)
        OBVIOUS
      <4> HIDE DEF begun
      <4>3. w \in Reader /\ w.rows = rows /\ w.row = Prefix(texts, n - 1)
            /\ w.field = texts[n] /\ w.mode = Mode(texts[n])
        BY <2>1, <2>2, <4>1, <4>2, WithIs
      <4> HIDE DEF w
      <4>4. w = Lined(rows, texts, n)
        BY <4>3, ReaderIs DEF Lined
      <4> QED
        BY <4>4 DEF w
    <3> QED
      BY <1>5, <3>1, <3>2
  <2>4. CASE n = 1
    <3>1. n - 1 = 0 /\ Prefix(texts, 0) = <<>>
      BY <1>1, <2>4, PrefixEnds
    <3>2. begun = at[0]
      BY <1>5, <3>1, StartingIs
    <3> HIDE DEF begun
    <3> QED
      BY <1>2, <2>3, <2>4, <3>1, <3>2
  <2>5. CASE n # 1
    <3>1. n - 1 \in 1 .. N /\ n - 1 \in 1 .. Len(texts)
      BY <1>1, <2>5 DEF N
    <3> DEFINE r == Lined(rows, texts, n - 1)
    <3>2. r \in Reader /\ r.mode # "quoted" /\ EndField(r) = begun
      BY <1>1, <3>1, LinedIs
    <3> HIDE DEF r, begun
    <3>3. ReadText(r, <<sep>>, sep) = begun
      BY <1>7, <3>2, ReadsOne, FieldEnds
    <3>4. ReadText(r, <<sep>> \o e, sep) = ReadText(begun, e, sep)
      BY <1>7, <2>1, <3>2, <3>3, ReadsOn
    <3> QED
      BY <1>2, <1>5, <2>3, <2>5, <3>1, <3>4 DEF r
  <2> QED
    BY <2>4, <2>5
<1>10. parts \in Seq(Text) /\ Len(parts) = N
  <2>1. parts = [i \in 1 .. N |-> parts[i]]
    BY <1>2 DEF parts
  <2>2. parts \in [1 .. N -> Text]
    BY <1>8, <2>1
  <2> QED
    BY <1>1, <2>2
<1>11. /\ FlattenSeq(parts) \in Text
       /\ ReadText(at[0], FlattenSeq(parts), sep) = at[N]
  <2>1. at \in [0 .. Len(parts) -> Reader]
    BY <1>4, <1>10 DEF at
  <2> QED
    BY <1>9, <1>10, <2>1, ReadsAll
<1>12. at[N] = Lined(rows, texts, N)
  BY <1>1, <1>5
<1> QED
  BY <1>3, <1>5, <1>11, <1>12 DEF N

LEMMA AppendConcat ==
  ASSUME NEW a \in Seq(Seq(Text)), NEW b \in Seq(Seq(Text)),
         NEW x \in Seq(Text)
  PROVE  Append(a \o b, x) = a \o Append(b, x)
<1> DEFINE X == Seq(Text)
<1>1. a \in Seq(X) /\ b \in Seq(X) /\ x \in X
  OBVIOUS
<1> HIDE DEF X
<1>2. /\ Append(a \o b, x) \in Seq(X) /\ a \o Append(b, x) \in Seq(X)
      /\ Len(Append(a \o b, x)) = Len(a) + Len(b) + 1
      /\ Len(a \o Append(b, x)) = Len(a) + Len(b) + 1
  BY <1>1
<1>3. \A i \in 1 .. Len(a) + Len(b) + 1 :
        Append(a \o b, x)[i] = (a \o Append(b, x))[i]
  BY <1>1
<1>4. Len(Append(a \o b, x)) = Len(a \o Append(b, x))
  BY <1>2
<1>5. \A i \in 1 .. Len(Append(a \o b, x)) :
        Append(a \o b, x)[i] = (a \o Append(b, x))[i]
  BY <1>2, <1>3
<1> QED
  BY <1>2, <1>4, <1>5, SeqEqual

LEMMA LineEnds ==
  ASSUME NEW rows \in Seq(Seq(Text)), NEW texts \in SeveralTexts
  PROVE  /\ Lined(rows, texts, Len(texts)) \in Reader
         /\ Lined(rows, texts, Len(texts)).mode # "quoted"
         /\ Lined(rows, texts, Len(texts)).row # <<>>
         /\ EndRow(Lined(rows, texts, Len(texts)))
              = Starting(Append(rows, texts))
<1> DEFINE r == Lined(rows, texts, Len(texts))
<1>1. /\ texts \in Seq(Text) /\ Len(texts) \in 1 .. Len(texts)
      /\ Len(texts) - 1 \in Nat /\ Len(texts) - 1 # 0
  <2>1. texts \in Seq(Text) /\ Len(texts) > 1
    BY DEF SeveralTexts
  <2>2. Len(texts) \in Nat
    BY <2>1
  <2>3. \A n \in Nat : n > 1 => n \in 1 .. n /\ n - 1 \in Nat /\ n - 1 # 0
    OBVIOUS
  <2> QED
    BY <2>1, <2>2, <2>3
<1>2. /\ r \in Reader /\ r.mode # "quoted"
      /\ EndField(r) = [rows |-> rows, row |-> Prefix(texts, Len(texts)),
                        field |-> <<>>, mode |-> "start"]
  BY <1>1, LinedIs
<1>3. EndField(r).row = texts
  BY <1>1, <1>2, PrefixEnds
<1>4. r.rows = rows /\ r.row = Prefix(texts, Len(texts) - 1)
  BY DEF Lined
<1>5. r.row # <<>>
  <2>1. Len(Prefix(texts, Len(texts) - 1)) = Len(texts) - 1
    BY <1>1 DEF Prefix
  <2> QED
    BY <1>1, <1>4, <2>1
<1> HIDE DEF r
<1>6. EndRow(r) = Starting(Append(rows, texts))
  BY <1>3, <1>4 DEF EndRow, Starting
<1> QED
  BY <1>2, <1>5, <1>6 DEF r

(* Rows are read behind those that were read before.                       *)
LEMMA RowsRead ==
  ASSUME NEW sep \in Separator, NEW rows \in Seq(SeveralTexts), rows # <<>>,
         \A i \in DOMAIN rows : \A c \in DOMAIN rows[i] :
           Safe(rows[i][c], sep),
         NEW before \in Seq(Seq(Text))
  PROVE  LET r == ReadText(Starting(before), Delimited(Escaped(rows), sep),
                           sep)
         IN  /\ Delimited(Escaped(rows), sep) \in Text
             /\ r \in Reader /\ r.mode # "quoted" /\ r.row # <<>>
             /\ EndRow(r) = Starting(before \o rows)
<1> DEFINE N == Len(rows)
           lines == [i \in DOMAIN rows |-> Line(rows[i], sep)]
           parts == [i \in DOMAIN lines |->
                       IF i = 1 THEN lines[i] ELSE <<NewLine>> \o lines[i]]
           at == [n \in 0 .. N |->
                    IF n = 0 THEN Starting(before)
                    ELSE Lined(before \o Prefix(rows, n - 1), rows[n],
                               Len(rows[n]))]
<1>1. /\ N \in Nat /\ N # 0 /\ DOMAIN rows = 1 .. N
      /\ \A i \in 1 .. N : rows[i] \in SeveralTexts
  OBVIOUS
<1>2. rows \in Seq(Seq(Text))
  <2>1. SeveralTexts \subseteq Seq(Text)
    BY DEF SeveralTexts
  <2>2. rows = [i \in 1 .. N |-> rows[i]]
    BY <1>1
  <2>3. rows \in [1 .. N -> Seq(Text)]
    <3> HIDE DEF N
    <3> QED
      BY <1>1, <2>1, <2>2
  <2> HIDE DEF N
  <2> QED
    BY <1>1, <2>3
<1>3. /\ \A i \in 1 .. N : parts[i] = IF i = 1 THEN Line(rows[i], sep)
                                      ELSE <<NewLine>> \o Line(rows[i], sep)
      /\ DOMAIN parts = 1 .. N
  BY <1>1
<1>4. Delimited(Escaped(rows), sep) = FlattenSeq(parts)
  BY DEF Delimited, Joined, Line, Escaped
<1>5. /\ \A n \in 1 .. N :
           at[n] = Lined(before \o Prefix(rows, n - 1), rows[n], Len(rows[n]))
      /\ at[0] = Starting(before) /\ DOMAIN at = 0 .. N
      /\ at = [n \in 0 .. N |-> at[n]]
  BY <1>1
<1> HIDE DEF N, parts, lines, at
<1>6. \A n \in 1 .. N :
        /\ before \o Prefix(rows, n - 1) \in Seq(Seq(Text))
        /\ Append(before \o Prefix(rows, n - 1), rows[n])
             = before \o Prefix(rows, n)
  <2> SUFFICES ASSUME NEW n \in 1 .. N
               PROVE  /\ before \o Prefix(rows, n - 1) \in Seq(Seq(Text))
                      /\ Append(before \o Prefix(rows, n - 1), rows[n])
                           = before \o Prefix(rows, n)
    OBVIOUS
  <2> DEFINE p == Prefix(rows, n - 1)
  <2>1. /\ p \in Seq(Seq(Text)) /\ Append(p, rows[n]) = Prefix(rows, n)
        /\ rows[n] \in Seq(Text)
    BY <1>1, <1>2, PrefixGrows DEF N
  <2> HIDE DEF p
  <2>2. before \o p \in Seq(Seq(Text))
    BY <2>1
  <2>3. Append(before \o p, rows[n]) = before \o Append(p, rows[n])
    BY <2>1, AppendConcat
  <2> QED
    BY <2>1, <2>2, <2>3 DEF p
<1>7. before \o Prefix(rows, 0) = before /\ before \o Prefix(rows, N)
                                             = before \o rows
  <2>1. Prefix(rows, 0) = <<>> /\ Prefix(rows, N) = rows
    BY <1>2, PrefixEnds DEF N
  <2>2. before \o <<>> = before
    OBVIOUS
  <2> QED
    BY <2>1, <2>2
<1>8. Starting(before) \in Reader
  BY StartingIs
<1>9. ASSUME NEW n \in 1 .. N
      PROVE  /\ at[n] \in Reader /\ at[n].mode # "quoted"
             /\ at[n].row # <<>>
             /\ EndRow(at[n]) = Starting(before \o Prefix(rows, n))
  BY <1>1, <1>5, <1>6, LineEnds
<1>10. ASSUME NEW n \in 1 .. N
       PROVE  /\ Line(rows[n], sep) \in Text
              /\ ReadText(Starting(before \o Prefix(rows, n - 1)),
                          Line(rows[n], sep), sep) = at[n]
  BY <1>1, <1>5, <1>6, LineReads
<1>11. <<NewLine>> \in Text /\ NewLine \in Char
  BY CharTypes DEF Text
<1>12. \A n \in 1 .. N : parts[n] \in Text
  <2>1. \A a, b \in Text : a \o b \in Text
    BY DEF Text
  <2> QED
    BY <1>3, <1>10, <1>11, <2>1
<1>13. ASSUME NEW n \in 1 .. N
       PROVE  ReadText(at[n - 1], parts[n], sep) = at[n]
  <2>1. CASE n = 1
    <3>1. n - 1 = 0
      BY <2>1
    <3>2. Starting(before \o Prefix(rows, n - 1)) = at[0]
      BY <1>5, <1>7, <3>1
    <3> QED
      BY <1>3, <1>10, <2>1, <3>1, <3>2
  <2>2. CASE n # 1
    <3> DEFINE r == at[n - 1]
               begun == Starting(before \o Prefix(rows, n - 1))
               line == Line(rows[n], sep)
    <3>1. n - 1 \in 1 .. N
      BY <1>1, <2>2
    <3>2. r \in Reader /\ r.mode # "quoted" /\ EndRow(r) = begun
      BY <1>9, <3>1
    <3>3. line \in Text /\ ReadText(begun, line, sep) = at[n]
      BY <1>10
    <3>4. parts[n] = <<NewLine>> \o line
      BY <1>3, <2>2
    <3> HIDE DEF r, begun, line
    <3>5. ReadText(r, <<NewLine>>, sep) = begun
      BY <1>11, <3>2, ReadsOne, FieldEnds
    <3>6. ReadText(r, <<NewLine>> \o line, sep) = ReadText(begun, line, sep)
      BY <1>11, <3>2, <3>3, <3>5, ReadsOn
    <3> QED
      BY <3>3, <3>4, <3>6 DEF r
  <2> QED
    BY <2>1, <2>2
<1>14. parts \in Seq(Text) /\ Len(parts) = N
  <2>1. parts = [i \in 1 .. N |-> parts[i]]
    BY <1>3 DEF parts
  <2>2. parts \in [1 .. N -> Text]
    BY <1>12, <2>1
  <2> QED
    BY <1>1, <2>2
<1>15. ReadText(at[0], FlattenSeq(parts), sep) = at[N]
  <2>1. \A n \in 0 .. N : at[n] \in Reader
    <3>1. \A n \in 0 .. N : n = 0 \/ n \in 1 .. N
      BY <1>1
    <3> QED
      BY <1>5, <1>8, <1>9, <3>1
  <2>2. at \in [0 .. Len(parts) -> Reader]
    BY <1>5, <1>14, <2>1
  <2> QED
    BY <1>13, <1>14, <2>2, ReadsAll
<1>16. N \in 1 .. N
  BY <1>1
<1>17. EndRow(at[N]) = Starting(before \o rows)
  BY <1>7, <1>9, <1>16
<1>18. FlattenSeq(parts) \in Text
  <2>1. \A n \in 0 .. N : at[n] \in Reader
    <3>1. \A n \in 0 .. N : n = 0 \/ n \in 1 .. N
      BY <1>1
    <3> QED
      BY <1>5, <1>8, <1>9, <3>1
  <2>2. at \in [0 .. Len(parts) -> Reader]
    BY <1>5, <1>14, <2>1
  <2> QED
    BY <1>13, <1>14, <2>2, ReadsAll
<1> QED
  BY <1>4, <1>5, <1>9, <1>15, <1>16, <1>17, <1>18

(* What the columns of a number and of a date hold has none of the marks,  *)
(* and escaping would change nothing.                                      *)
PlainText == Seq(Plain)
CardOut == [question : Text, answer : Text,
         difficulty : PlainText, nextReviewDate : PlainText]

LEMMA PlainStays ==
  ASSUME NEW text \in PlainText, NEW sep \in Separator
  PROVE  text \in Text /\ EscapeCsv(text) = text /\ Safe(text, sep)
<1>1. \A p \in Plain : p \in Char /\ p \notin Mark
  BY DEF Char, Plain, Mark, Comma, Quote, Tab, NewLine, CarriageReturn
<1>2. \A i \in DOMAIN text : text[i] \in Plain
  BY DEF PlainText
<1>3. text \in Text
  <2>1. Plain \subseteq Char
    BY <1>1
  <2> QED
    BY <2>1 DEF PlainText, Text
<1>4. \A mark \in Mark : ~Has(text, mark)
  BY <1>1, <1>2 DEF Has
<1>5. /\ Comma \in Mark /\ Quote \in Mark /\ NewLine \in Mark
      /\ CarriageReturn \in Mark /\ sep \in Mark
  BY DEF Mark, Separator
<1> QED
  BY <1>3, <1>4, <1>5 DEF EscapeCsv, Quoted, Safe

(* Rows whose first two columns alone are escaped.                         *)
LEMMA RowsOf ==
  ASSUME NEW cards \in Seq(CardOut), NEW sep \in Separator,
         SafeCards(cards, sep)
  PROVE  LET two == AnkiRows(cards)
             four == [i \in DOMAIN cards |->
                        <<cards[i].question, cards[i].answer,
                          cards[i].difficulty, cards[i].nextReviewDate>>]
         IN  /\ two \in Seq(SeveralTexts) /\ four \in Seq(SeveralTexts)
             /\ Len(two) = Len(cards) /\ Len(four) = Len(cards)
             /\ \A i \in DOMAIN two : \A c \in DOMAIN two[i] :
                  Safe(two[i][c], sep)
             /\ \A i \in DOMAIN four : \A c \in DOMAIN four[i] :
                  Safe(four[i][c], sep)
             /\ Escaped(two) =
                  [i \in DOMAIN cards |->
                     <<EscapeCsv(cards[i].question),
                       EscapeCsv(cards[i].answer)>>]
             /\ Escaped(four) =
                  [i \in DOMAIN cards |->
                     <<EscapeCsv(cards[i].question),
                       EscapeCsv(cards[i].answer),
                       cards[i].difficulty, cards[i].nextReviewDate>>]
<1> DEFINE two == AnkiRows(cards)
           four == [i \in DOMAIN cards |->
                      <<cards[i].question, cards[i].answer,
                        cards[i].difficulty, cards[i].nextReviewDate>>]
           N == Len(cards)
<1>1. /\ N \in Nat /\ DOMAIN cards = 1 .. N
      /\ \A i \in 1 .. N : cards[i] \in CardOut
  OBVIOUS
<1>2. ASSUME NEW e \in CardOut
      PROVE  /\ e.question \in Text /\ e.answer \in Text
             /\ e.difficulty \in PlainText
             /\ e.nextReviewDate \in PlainText
  BY DEF CardOut
<1>3. ASSUME NEW a \in Text, NEW b \in Text
      PROVE  <<a, b>> \in SeveralTexts /\ DOMAIN <<a, b>> = 1 .. 2
  BY DEF SeveralTexts
<1>4. ASSUME NEW a \in Text, NEW b \in Text, NEW c \in Text, NEW d \in Text
      PROVE  /\ <<a, b, c, d>> \in SeveralTexts
             /\ DOMAIN <<a, b, c, d>> = 1 .. 4
  BY DEF SeveralTexts
<1>5. ASSUME NEW i \in 1 .. N
      PROVE  /\ two[i] = <<cards[i].question, cards[i].answer>>
             /\ two[i] \in SeveralTexts /\ DOMAIN two[i] = 1 .. 2
             /\ \A c \in 1 .. 2 : Safe(two[i][c], sep)
             /\ [c \in 1 .. 2 |-> EscapeCsv(two[i][c])]
                  = <<EscapeCsv(cards[i].question),
                      EscapeCsv(cards[i].answer)>>
  <2>1. two[i] = <<cards[i].question, cards[i].answer>>
    BY <1>1 DEF AnkiRows
  <2>2. /\ Safe(cards[i].question, sep) /\ Safe(cards[i].answer, sep)
        /\ cards[i].question \in Text /\ cards[i].answer \in Text
    BY <1>1, <1>2 DEF SafeCards
  <2> HIDE DEF two
  <2> QED
    BY <1>3, <2>1, <2>2
<1>6. ASSUME NEW i \in 1 .. N
      PROVE  /\ four[i] = <<cards[i].question, cards[i].answer,
                            cards[i].difficulty, cards[i].nextReviewDate>>
             /\ four[i] \in SeveralTexts /\ DOMAIN four[i] = 1 .. 4
             /\ \A c \in 1 .. 4 : Safe(four[i][c], sep)
             /\ [c \in 1 .. 4 |-> EscapeCsv(four[i][c])]
                  = <<EscapeCsv(cards[i].question),
                      EscapeCsv(cards[i].answer),
                      cards[i].difficulty, cards[i].nextReviewDate>>
  <2>1. four[i] = <<cards[i].question, cards[i].answer,
                    cards[i].difficulty, cards[i].nextReviewDate>>
    BY <1>1
  <2>2. /\ Safe(cards[i].question, sep) /\ Safe(cards[i].answer, sep)
        /\ cards[i].question \in Text /\ cards[i].answer \in Text
    BY <1>1, <1>2 DEF SafeCards
  <2>3. /\ cards[i].difficulty \in Text /\ cards[i].nextReviewDate \in Text
        /\ Safe(cards[i].difficulty, sep)
        /\ Safe(cards[i].nextReviewDate, sep)
        /\ EscapeCsv(cards[i].difficulty) = cards[i].difficulty
        /\ EscapeCsv(cards[i].nextReviewDate) = cards[i].nextReviewDate
    BY <1>1, <1>2, PlainStays
  <2> HIDE DEF four
  <2> QED
    BY <1>4, <2>1, <2>2, <2>3
<1>7. DOMAIN two = 1 .. N /\ DOMAIN four = 1 .. N
      /\ two = [i \in 1 .. N |-> two[i]] /\ four = [i \in 1 .. N |-> four[i]]
  BY <1>1 DEF AnkiRows
<1> HIDE DEF two, four
<1>8. /\ two \in Seq(SeveralTexts) /\ four \in Seq(SeveralTexts)
      /\ Len(two) = N /\ Len(four) = N
  <2>1. two \in [1 .. N -> SeveralTexts] /\ four \in [1 .. N -> SeveralTexts]
    <3> HIDE DEF N
    <3> QED
      BY <1>5, <1>6, <1>7
  <2> HIDE DEF N
  <2> QED
    BY <1>1, <1>7, <2>1
<1>9. Escaped(two) = [i \in DOMAIN cards |->
                        <<EscapeCsv(cards[i].question),
                          EscapeCsv(cards[i].answer)>>]
  BY <1>1, <1>5, <1>7 DEF Escaped
<1>10. Escaped(four) = [i \in DOMAIN cards |->
                          <<EscapeCsv(cards[i].question),
                            EscapeCsv(cards[i].answer),
                            cards[i].difficulty, cards[i].nextReviewDate>>]
  BY <1>1, <1>6, <1>7 DEF Escaped
<1> QED
  BY <1>5, <1>6, <1>7, <1>8, <1>9, <1>10 DEF two, four

LEMMA NoRowsRead ==
  ASSUME NEW sep \in Separator, NEW s \in Reader
  PROVE  LET none == Delimited(Escaped(<<>>), sep)
         IN  none \in Text /\ ReadText(s, none, sep) = s
<1> DEFINE at == [n \in 0 .. 0 |-> s]
<1>1. Delimited(Escaped(<<>>), sep) = FlattenSeq(<<>>)
  BY DEF Delimited, Joined, Escaped
<1>2. <<>> \in Seq(Text) /\ Len(<<>>) = 0 /\ at[0] = s
      /\ at \in [0 .. 0 -> Reader]
  OBVIOUS
<1> HIDE DEF at
<1>3. /\ at \in [0 .. Len(<<>>) -> Reader]
      /\ \A i \in 1 .. Len(<<>>) : ReadText(at[i - 1], <<>>[i], sep) = at[i]
  BY <1>2
<1>4. /\ FlattenSeq(<<>>) \in Text
      /\ ReadText(at[0], FlattenSeq(<<>>), sep) = at[Len(<<>>)]
  BY <1>2, <1>3, ReadsAll
<1>5. at[Len(<<>>)] = s
  BY <1>2
<1> QED
  BY <1>1, <1>2, <1>4, <1>5

(* Read behind what was read before, rows are found as they were written.  *)
LEMMA RowsEnd ==
  ASSUME NEW sep \in Separator, NEW rows \in Seq(SeveralTexts),
         \A i \in DOMAIN rows : \A c \in DOMAIN rows[i] :
           Safe(rows[i][c], sep),
         NEW before \in Seq(Seq(Text))
  PROVE  LET written == Delimited(Escaped(rows), sep)
         IN  /\ written \in Text
             /\ Ended(ReadText(Starting(before), written, sep))
                  = before \o rows
<1>1. CASE rows = <<>>
  <2>1. Starting(before) \in Reader /\ Ended(Starting(before)) = before
    BY StartingIs DEF Ended
  <2>2. before \o <<>> = before
    OBVIOUS
  <2> QED
    BY <1>1, <2>1, <2>2, NoRowsRead
<1>2. CASE rows # <<>>
  <2> DEFINE written == Delimited(Escaped(rows), sep)
             r == ReadText(Starting(before), written, sep)
  <2>1. /\ written \in Text /\ r \in Reader /\ r.row # <<>>
        /\ EndRow(r) = Starting(before \o rows)
    BY <1>2, RowsRead
  <2>2. Starting(before \o rows).rows = before \o rows
    BY DEF Starting, Begun
  <2> HIDE DEF r, written
  <2>3. Ended(r) = before \o rows
    BY <2>1, <2>2 DEF Ended
  <2> QED
    BY <2>1, <2>3 DEF r, written
<1> QED
  BY <1>1, <1>2

LEMMA BegunIs == Begun = Starting(<<>>) /\ Begun \in Reader
<1>1. <<>> \in Seq(Seq(Text))
  OBVIOUS
<1>2. Starting(<<>>) = [rows |-> <<>>, row |-> <<>>, field |-> <<>>,
                        mode |-> "start"]
      /\ Starting(<<>>) \in Reader
  BY <1>1, StartingIs
<1> QED
  BY <1>2 DEF Begun

LEMMA HeaderReads ==
  LET first == Delimited(<<Header>>, Comma) \o <<NewLine>>
  IN  /\ first \in Text /\ <<Header>> \in Seq(Seq(Text))
      /\ ReadText(Begun, first, Comma) = Starting(<<Header>>)
<1> DEFINE hs == <<Header>>
           line == Delimited(hs, Comma)
           r == ReadText(Begun, line, Comma)
<1>1. Comma \in Separator
  BY DEF Separator
<1>2. Header \in Seq(PlainText) /\ Len(Header) = 4
  BY DEF Header, PlainText, Plain
<1>3. \A c \in 1 .. 4 : /\ Header[c] \in Text
                        /\ EscapeCsv(Header[c]) = Header[c]
                        /\ Safe(Header[c], Comma)
  <2>1. \A c \in 1 .. 4 : Header[c] \in PlainText
    BY <1>2
  <2> QED
    BY <1>1, <2>1, PlainStays
<1>4. Header \in SeveralTexts /\ DOMAIN Header = 1 .. 4
  <2>1. DOMAIN Header = 1 .. 4 /\ Header = [c \in 1 .. 4 |-> Header[c]]
    BY <1>2
  <2>2. Header \in Seq(Text)
    BY <1>3, <2>1
  <2> QED
    BY <1>2, <2>1, <2>2 DEF SeveralTexts
<1>5. /\ hs \in Seq(SeveralTexts) /\ hs # <<>>
      /\ DOMAIN hs = 1 .. 1 /\ hs[1] = Header
  BY <1>4
<1>6. Escaped(hs) = hs
  <2>1. [c \in DOMAIN Header |-> EscapeCsv(Header[c])] = Header
    BY <1>2, <1>3, <1>4
  <2> HIDE DEF hs
  <2>2. Escaped(hs) = [i \in 1 .. 1 |-> Header]
    BY <1>5, <2>1 DEF Escaped
  <2>3. [i \in 1 .. 1 |-> Header] = hs
    BY <1>5 DEF hs
  <2> QED
    BY <2>2, <2>3
<1>7. \A i \in DOMAIN hs : \A c \in DOMAIN hs[i] : Safe(hs[i][c], Comma)
  BY <1>3, <1>4, <1>5
<1>8. <<>> \in Seq(Seq(Text)) /\ <<>> \o hs = hs
  OBVIOUS
<1>9. <<Header>> \in Seq(Seq(Text))
  BY <1>4 DEF SeveralTexts
<1> HIDE DEF hs
<1>10. /\ line \in Text /\ r \in Reader /\ r.mode # "quoted"
       /\ EndRow(r) = Starting(hs)
  BY <1>1, <1>5, <1>6, <1>7, <1>8, RowsRead, BegunIs
<1> HIDE DEF r, line
<1>11. <<NewLine>> \in Text /\ NewLine \in Char
  BY CharTypes DEF Text
<1>12. ReadText(r, <<NewLine>>, Comma) = Starting(hs)
  BY <1>1, <1>10, <1>11, ReadsOne, FieldEnds
<1>13. /\ line \o <<NewLine>> \in Text
       /\ ReadText(Begun, line \o <<NewLine>>, Comma) = Starting(hs)
  BY <1>1, <1>10, <1>11, <1>12, ReadsOn, BegunIs DEF r
<1> QED
  BY <1>9, <1>13 DEF hs, line

(* A CSV file reads back as the header and the cards it was written from,  *)
(* however many, if every text that has a carriage return has something    *)
(* else in it that would have it quoted (exportFlashcards).                *)
THEOREM EveryCsvReadsBack ==
  ASSUME NEW cards \in Seq(CardOut), SafeCards(cards, Comma)
  PROVE  ReadFile(CsvFile(cards), Comma) = CsvRows(cards)
<1> DEFINE rows == [i \in DOMAIN cards |->
                      <<cards[i].question, cards[i].answer,
                        cards[i].difficulty, cards[i].nextReviewDate>>]
           first == Delimited(<<Header>>, Comma) \o <<NewLine>>
           rest == Delimited(Escaped(rows), Comma)
<1>1. Comma \in Separator
  BY DEF Separator
<1>2. /\ rows \in Seq(SeveralTexts)
      /\ \A i \in DOMAIN rows : \A c \in DOMAIN rows[i] :
           Safe(rows[i][c], Comma)
      /\ CsvFile(cards) = first \o rest
  BY <1>1, RowsOf DEF CsvFile
<1>3. CsvRows(cards) = <<Header>> \o rows
  BY DEF CsvRows
<1> HIDE DEF rows
<1>4. /\ first \in Text /\ <<Header>> \in Seq(Seq(Text))
      /\ ReadText(Begun, first, Comma) = Starting(<<Header>>)
  BY HeaderReads
<1>5. /\ rest \in Text
      /\ Ended(ReadText(Starting(<<Header>>), rest, Comma))
           = <<Header>> \o rows
  BY <1>1, <1>2, <1>4, RowsEnd
<1> HIDE DEF first, rest
<1>6. ReadText(Begun, first \o rest, Comma)
        = ReadText(Starting(<<Header>>), rest, Comma)
  BY <1>1, <1>4, <1>5, ReadsOn, BegunIs
<1> QED
  BY <1>2, <1>3, <1>5, <1>6 DEF ReadFile

(* A file for Anki reads back, however many cards it has, if every text    *)
(* that has a tab or a carriage return has something else in it that would *)
(* have it quoted (exportFlashcards).                                      *)
THEOREM QuotedAnkiReadsBack ==
  ASSUME NEW cards \in Seq(CardOut), SafeCards(cards, Tab)
  PROVE  ReadFile(AnkiFile(cards), Tab) = AnkiRows(cards)
<1> DEFINE rows == AnkiRows(cards)
<1>1. Tab \in Separator
  BY DEF Separator
<1>2. /\ rows \in Seq(SeveralTexts)
      /\ \A i \in DOMAIN rows : \A c \in DOMAIN rows[i] :
           Safe(rows[i][c], Tab)
      /\ AnkiFile(cards) = Delimited(Escaped(rows), Tab)
  BY <1>1, RowsOf DEF AnkiFile
<1> HIDE DEF rows
<1>3. <<>> \in Seq(Seq(Text)) /\ <<>> \o rows = rows
  BY <1>2
<1> QED
  BY <1>1, <1>2, <1>3, RowsEnd, BegunIs DEF ReadFile, rows
=============================================================================
