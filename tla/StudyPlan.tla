------------------------------ MODULE StudyPlan ------------------------------
(***************************************************************************)
(* What services/learning.ts computes from rows it has read: what went     *)
(* wrong, what is due and the plan of a week made from both when no        *)
(* provider makes it; the context a provider is given and the summary      *)
(* without one.  And how QUIZ_SUBMIT marks answers.  No state.             *)
(*                                                                         *)
(* An attempt is the sequence of its answers, [topic, correct]; a card is  *)
(* [topic, ease (in hundredths), reps, due (a day)].                       *)
(***************************************************************************)
EXTENDS Integers, FiniteSets, Sequences, SequencesExt, Totals

First(n, s) == SubSeq(s, 1, IF Len(s) < n THEN Len(s) ELSE n)

(* new Set: each value where it occurs first.                              *)
Distinct(s) ==
  FoldLeft(LAMBDA kept, x : IF x \in ToSet(kept) THEN kept ELSE kept \o <<x>>,
           <<>>, s)

TopicsOf(s) == [i \in DOMAIN s |-> s[i].topic]

-----------------------------------------------------------------------------
(* analyzeWeaknesses: wrong answers of the five latest attempts, the       *)
(* latest first, then the ten cards of least ease below 2.0 that were ever *)
(* remembered; ten of the topics.                                          *)
WrongTopics(attempts) ==
  TopicsOf(SelectSeq(FlattenSeq(First(5, attempts)),
                     LAMBDA answer : ~answer.correct))

WeakCards(cards) ==
  First(10, SetToSortSeq({c \in cards : c.ease < 200 /\ c.reps > 0},
                         LAMBDA x, y : x.ease < y.ease))

WeakTopics(attempts, cards) ==
  First(10, Distinct(WrongTopics(attempts) \o TopicsOf(WeakCards(cards))))

(* generateStudyPlan: the twenty cards that are due longest.               *)
DueCards(cards, today) ==
  First(20, SetToSortSeq({c \in cards : c.due <= today},
                         LAMBDA x, y : x.due < y.due))

(* generateLocalStudyPlan: two cards on each weekday, one topic each day.  *)
LocalPlan(weak, due) ==
  [week |-> [day \in 1 .. 7 |->
     [cards |-> IF day <= 5 THEN First(2, SubSeq(due, 2 * day - 1, Len(due)))
                ELSE <<>>,
      topics |-> IF day \in DOMAIN weak THEN <<weak[day]>> ELSE <<>>]],
   targets |-> weak,
   due |-> First(10, due)]

(* The plan is the provider's, if there is one and its answer fits the     *)
(* schema; it is asked with all weak topics and ten cards.                 *)
Prompt(weak, due) == <<weak, First(10, due)>>
Plan(answered, answer, weak, due) ==
  IF answered THEN answer ELSE LocalPlan(weak, due)

-----------------------------------------------------------------------------
(* QUIZ_SUBMIT: an answer is right when it is the expected one but for     *)
(* spaces around it and for capitals.                                      *)
Plainly(answer) == answer.word
Points(given, asked) ==
  IF Plainly(given) = Plainly(asked.answer) THEN asked.points ELSE 0

(* The sum over the answers that were sent: a question answered twice      *)
(* counts twice, one left out not at all.                                  *)
Score(answers, questions) ==
  Total([i \in DOMAIN answers |->
           Points(answers[i].given, questions[answers[i].to])])

-----------------------------------------------------------------------------
(* truncateContext: whole texts as long as all of them fit.                *)
NothingKept == [total |-> 0, parts |-> 0, full |-> FALSE]
KeepText(s, length, max) ==
  IF s.full \/ s.total + length > max THEN [s EXCEPT !.full = TRUE]
  ELSE [s EXCEPT !.total = @ + length, !.parts = @ + 1]

Context(lengths, max) ==
  LET kept[n \in 0 .. Len(lengths)] ==
        IF n = 0 THEN NothingKept ELSE KeepText(kept[n - 1], lengths[n], max)
  IN  kept[Len(lengths)]

(* How long the context is: the spaces between the texts were not counted. *)
ContextLength(context) ==
  IF context.parts = 0 THEN 0 ELSE context.total + context.parts - 1

(* generateExtractiveSummary: the beginning of the text, and those of the  *)
(* first five sentences that say something.  Texts are their lengths.      *)
AtMost(n, m) == IF m < n THEN m ELSE n
ExtractiveSummary(joined, sentences) ==
  [title |-> 15,
   shortSummary |-> AtMost(300, joined),
   detailedSummary |-> AtMost(2000, joined),
   keyPoints |-> SelectSeq(First(5, IF sentences = <<>> THEN <<joined>>
                                    ELSE sentences), LAMBDA n : n > 20)]
(* SummarySchema *)
FitsSchema(s) == /\ 1 <= s.title /\ s.title <= 200
                 /\ 1 <= s.shortSummary /\ s.shortSummary <= 500
                 /\ 1 <= s.detailedSummary

(* generateSummary: of the sources the provider names those that exist, or *)
(* else the first five.                                                    *)
Sources(named, segs) ==
  LET kept == SelectSeq(named, LAMBDA id : Contains(segs, id))
  IN  IF kept = <<>> THEN First(5, segs) ELSE kept

-----------------------------------------------------------------------------
Topic == {"a", "b", "c"}
Answer == [topic : Topic, correct : BOOLEAN]
Attempts == UNION {[1 .. n -> UNION {[1 .. k -> Answer] : k \in 0 .. 2}] :
                     n \in 0 .. 2}
SomeCards == SUBSET {[topic |-> t, ease |-> e, reps |-> r, due |-> e] :
                       t \in {"a", "d"}, e \in {150, 250}, r \in {0, 1}}
Numbers(n) == [i \in 1 .. n |-> i]

(* As long as there are few, every topic that was answered wrongly or is   *)
(* remembered badly is weak, no other is, and none is named twice.         *)
ASSUME WeakTopicsAreThose ==
  \A attempts \in Attempts : \A cards \in {{}} \cup {cs \in SomeCards :
                                             Cardinality(cs) = 2} :
    LET weak == WeakTopics(attempts, cards)
        wrong == {answer \in UNION {ToSet(attempts[i]) :
                                      i \in DOMAIN attempts} :
                    ~answer.correct}
        bad == {c \in cards : c.ease < 200 /\ c.reps > 0}
    IN  /\ ToSet(weak) = {x.topic : x \in wrong} \cup {x.topic : x \in bad}
        /\ Cardinality(ToSet(weak)) = Len(weak)

(* The cards that are due are put into order, the longest due first.       *)
ASSUME DueIsOrdered ==
  \A cards \in SomeCards :
    LET due == DueCards(cards, 200)
    IN  /\ ToSet(due) = {c \in cards : c.due <= 200}
        /\ \A i \in 2 .. Len(due) : due[i - 1].due <= due[i].due

(* "spaceRepetitionDue": every card that the plan says is due is on one    *)
(* weekday, once, and no other is on any day.                              *)
ASSUME DueIsPlannedOnce ==
  \A n \in 0 .. 20 :
    LET plan == LocalPlan(<<>>, Numbers(n))
        days(c) == {d \in 1 .. 7 : Contains(plan.week[d].cards, c)}
    IN  \A c \in 1 .. n :
          Cardinality(days(c)) = IF Contains(plan.due, c) THEN 1 ELSE 0

(* Of the weak topics the plan names as targets, the first seven have a    *)
(* day of their own; the others have none.                                 *)
ASSUME TargetsPlanned ==
  \A n \in 0 .. 10 :
    LET plan == LocalPlan(Numbers(n), <<>>)
    IN  /\ plan.targets = Numbers(n)
        /\ \A t \in 1 .. n :
             {d \in 1 .. 7 : Contains(plan.week[d].topics, t)}
               = IF t <= 7 THEN {t} ELSE {}

(* A quiz in which every question is answered once is scored with no more  *)
(* than all points, and with all of them exactly if every answer is right, *)
(* however it was written.                                                 *)
AnswerText == [word : {"p", "q"}, plain : BOOLEAN]
ASSUME ScoreIsFair ==
  \A asked \in [1 .. 2 -> [answer : AnswerText, points : {1, 3}]] :
    \A given \in [1 .. 2 -> AnswerText] :
      LET score == Score([i \in 1 .. 2 |-> [to |-> i, given |-> given[i]]],
                         asked)
          all == asked[1].points + asked[2].points
      IN  /\ 0 <= score /\ score <= all
          /\ score = all <=> \A i \in 1 .. 2 : given[i].word
                                               = asked[i].answer.word

(* The context of flashcards is the longest beginning whose texts fit:     *)
(* nothing, if the first text alone is too long.  What is written can be   *)
(* longer than the limit, by a space before each text but the first.       *)
ASSUME ContextIsLongest ==
  \A lengths \in UNION {[1 .. n -> 1 .. 4] : n \in 0 .. 4} :
    LET sums == Totals(lengths)
        context == Context(lengths, 6)
    IN  /\ context.total = sums[context.parts] /\ context.total <= 6
        /\ context.parts < Len(lengths) => sums[context.parts + 1] > 6
        /\ ContextLength(context) < 6 + context.parts \/ context.parts = 0

(* And longer it gets: two texts that fit exactly and the space between.   *)
ASSUME SpacesAreExtra == ContextLength(Context(<<3, 3>>, 6)) > 6

(* The summary made without a provider is one a provider could have given, *)
(* as long as there is any text.                                           *)
ASSUME ExtractFits ==
  \A joined \in {0, 1, 20, 300, 301, 2001} :
    /\ FitsSchema(ExtractiveSummary(joined, <<>>)) <=> joined > 0
    /\ \A sentences \in UNION {[1 .. n -> {20, 21}] : n \in 0 .. 6} :
         Len(ExtractiveSummary(joined, sentences).keyPoints) <= 5

(* A summary of a transcript always names sources, and only segments that  *)
(* it has.                                                                 *)
ASSUME SourcesExist ==
  \A n \in 1 .. 6 : \A named \in UNION {[1 .. k -> 0 .. 7] : k \in 0 .. 3} :
    LET sources == Sources(named, Numbers(n))
    IN  sources # <<>> /\ ToSet(sources) \subseteq 1 .. n
=============================================================================
