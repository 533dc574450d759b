------------------------------- MODULE Workers -------------------------------
(***************************************************************************)
(* The two workers of services/: the processor of a transcription job with *)
(* its retries, and the processor of an AI job with the texts it takes     *)
(* apart.  Each is one call per job, started by main.ts with one job; what *)
(* its handlers do is given to it.  No state beyond the set of jobs that   *)
(* were processed.                                                         *)
(***************************************************************************)
EXTENDS Integers, Sequences

LOCAL INSTANCE FiniteSets
LOCAL INSTANCE FiniteSetsExt
LOCAL INSTANCE SequencesExt

-----------------------------------------------------------------------------
(* TranscriptionJobProcessor.process.  An attempt is how many of its steps *)
(* are done when one of them throws; done[n] is that of attempt n.  The    *)
(* steps from the third on change something elsewhere.                     *)
WorkerSteps == <<"fetch", "transcribe", "saveSegments",
                 "markLectureTranscribed", "queueAiAnalysis">>
AllSteps == Len(WorkerSteps)
Effects(steps) == SubSeq(WorkerSteps, 3, steps)
MaxRetries == 3

ProcessJob(processed, job, done) ==
  LET attempt[n \in 0 .. MaxRetries] ==
        CASE done[n] = AllSteps ->
               [status |-> "SUCCEEDED", retryCount |-> n,
                effects |-> Effects(AllSteps),
                processed |-> processed \cup {job}]
          [] done[n] # AllSteps /\ n < MaxRetries ->
               [attempt[n + 1] EXCEPT !.effects = Effects(done[n]) \o @]
          [] done[n] # AllSteps /\ n = MaxRetries ->
               [status |-> "DEAD_LETTERED", retryCount |-> n + 1,
                effects |-> Append(Effects(done[n]), "onDeadLetter"),
                processed |-> processed]
  IN  IF job \in processed
      THEN [status |-> "SUCCEEDED", retryCount |-> 0, effects |-> <<>>,
            processed |-> processed]
      ELSE attempt[0]

ExitCode(outcome) == IF outcome.status = "SUCCEEDED" THEN 0 ELSE 1

(* MockTranscriptionProvider: segments of a script of n sentences.         *)
MockSegments(n) ==
  [i \in 1 .. n |-> [index |-> i - 1, timestampStart |-> (i - 1) * 6,
                     timestampEnd |-> (i - 1) * 6 + 5]]
MockDuration(n) == Len(MockSegments(n)) * 6

-----------------------------------------------------------------------------
(* AiJobProcessor.process.  A text is a sequence of characters: of a line  *)
(* break, the two separators, a space and "a" for the others.              *)
Break == "n"
Blank == " "
AiChar == {Break, Blank, ":", "|", "a"}

MaxUntrusted == 20000
SanitizeUntrusted(text, limit) ==
  IF Len(text) > limit THEN SubSeq(text, 1, limit) ELSE text

TrimText(text) ==
  LET solid == {i \in DOMAIN text : text[i] # Blank}
  IN  SubSeq(text, Min({Len(text) + 1} \cup solid), Max({0} \cup solid))

(* split('\n').filter(Boolean): the lines that hold a character.           *)
Lines(text) ==
  LET cut == {0, Len(text) + 1} \cup {i \in DOMAIN text : text[i] = Break}
      starts == {i \in cut : i + 1 \in DOMAIN text /\ text[i + 1] # Break}
      line(i) == SubSeq(text, i + 1, Min({j \in cut : j > i}) - 1)
      inOrder == SetToSortSeq(starts, LAMBDA i, j : i < j)
  IN  [n \in DOMAIN inOrder |-> line(inOrder[n])]

(* indexOf(sep) > 0: a line that starts with the separator is not split.   *)
SplitLine(line, sep) ==
  LET first == Min({Len(line) + 1} \cup {i \in DOMAIN line : line[i] = sep})
  IN  IF first \in {1, Len(line) + 1} THEN <<TrimText(line), <<>> >>
      ELSE <<TrimText(SubSeq(line, 1, first - 1)),
             TrimText(SubSeq(line, first + 1, Len(line)))>>
Pairs(text, sep) ==
  [n \in DOMAIN Lines(text) |-> SplitLine(Lines(text)[n], sep)]
KeyConcepts(content) == Pairs(content, ":")
Flashcards(content) == Pairs(content, "|")

(* The characters that are added up at each place of an embedding.         *)
Embedding(text, dimension) ==
  [d \in 0 .. dimension - 1 |-> {i \in DOMAIN text : (i - 1) % dimension = d}]

Produces ==
  [LECTURE_SUMMARY |-> "summary", KEY_CONCEPT_EXTRACTION |-> "keyConcepts",
   FLASHCARD_GENERATION |-> "flashcards", EMBEDDING_GENERATION |-> "embedding"]
BuildCitation(job) ==
  [sourceType |-> "TRANSCRIPT_SEGMENT", lectureId |-> job.lectureId,
   timestampStart |-> 0, timestampEnd |-> 0]
AnswerJob(job, content) ==
  CASE job.jobType \notin DOMAIN Produces -> [field |-> "error"]
    [] job.jobType \in DOMAIN Produces ->
         [field |-> Produces[job.jobType], lectureId |-> job.lectureId,
          citations |-> <<BuildCitation(job)>>,
          value |->
            CASE job.jobType = "LECTURE_SUMMARY" -> content
              [] job.jobType = "KEY_CONCEPT_EXTRACTION" -> KeyConcepts(content)
              [] job.jobType = "FLASHCARD_GENERATION" -> Flashcards(content)
              [] job.jobType = "EMBEDDING_GENERATION" ->
                   Embedding(SanitizeUntrusted(job.transcript, MaxUntrusted),
                             32)]

-----------------------------------------------------------------------------
Times(effects, name) == Cardinality({i \in DOMAIN effects : effects[i] = name})

(* Whatever fails, a job is analysed at most once and only after its       *)
(* segments were saved, it is tried at most four times, and it ends either *)
(* succeeded or reported as dead, never both.  Its segments may be saved   *)
(* once for every attempt.                                                 *)
ASSUME JobEndsOnce ==
  \A done \in [0 .. MaxRetries -> 0 .. AllSteps] :
    LET outcome == ProcessJob({}, "job", done)
        effects == outcome.effects
        tried == {n \in 0 .. MaxRetries : \A m \in 0 .. n - 1 :
                                            done[m] # AllSteps}
    IN  /\ outcome.status = "SUCCEEDED" <=> \E n \in tried : done[n] = AllSteps
        /\ Times(effects, "queueAiAnalysis") + Times(effects, "onDeadLetter")
             = 1
        /\ Times(effects, "onDeadLetter") = ExitCode(outcome)
        /\ Times(effects, "saveSegments")
             = Cardinality({n \in tried : done[n] >= 3})
        /\ outcome.retryCount = Cardinality({n \in tried : done[n] # AllSteps})

(* "is idempotent for repeated job ids": once a job has succeeded, another *)
(* call with its id changes nothing; one that died is tried anew.          *)
ASSUME RepeatedJobIsSkipped ==
  \A done, again \in [0 .. MaxRetries -> {0, 3, AllSteps}] :
    LET first == ProcessJob({}, "job", done)
        second == ProcessJob(first.processed, "job", again)
    IN  /\ first.status = "SUCCEEDED" =>
             /\ second.effects = <<>>
             /\ second.status = "SUCCEEDED"
        /\ first.status = "DEAD_LETTERED" =>
             second = ProcessJob({}, "job", again)

(* The segments of the provider are in order, apart, and within the length *)
(* it reports.                                                             *)
ASSUME SegmentsInOrder ==
  \A n \in 0 .. 4 : \A i \in 1 .. n :
    LET segs == MockSegments(n)
    IN  /\ segs[i].timestampStart < segs[i].timestampEnd
        /\ segs[i].timestampEnd < MockDuration(n)
        /\ i < n => segs[i].timestampEnd < segs[i + 1].timestampStart

(* Taking an answer apart keeps every character but breaks, blanks at an   *)
(* end and the separator a line is split at; a line makes one card, and    *)
(* its answer is empty unless the separator is inside the line.            *)
ASSUME PairsKeepTheText ==
  LET solid(text) == SelectSeq(text, LAMBDA c : c \notin {Break, Blank})
  IN  \A text \in UNION {[1 .. n -> AiChar] : n \in 0 .. 4} :
        LET pairs == Flashcards(text)
            split == {n \in DOMAIN pairs : Len(pairs[n][1]) + Len(pairs[n][2])
                                             < Len(TrimText(Lines(text)[n]))}
        IN  /\ Len(solid(FlattenSeq([n \in DOMAIN pairs |->
                          pairs[n][1] \o pairs[n][2]]))) + Cardinality(split)
                 = Len(solid(text))
            /\ \A n \in DOMAIN pairs : pairs[n][2] # <<>> => n \in split
            /\ \A n \in split : \E i \in DOMAIN Lines(text)[n] :
                 i > 1 /\ Lines(text)[n][i] = "|"

(* Every character counts at exactly one place of an embedding.            *)
ASSUME EmbeddingCountsAll ==
  \A n \in 0 .. 9 : \A d \in 1 .. 4 :
    LET vector == Embedding([i \in 1 .. n |-> "a"], d)
    IN  \A i \in 1 .. n : Cardinality({p \in DOMAIN vector :
                                         i \in vector[p]}) = 1

(* Every kind of job fills the one field of its kind and cites its own     *)
(* lecture.                                                                *)
ASSUME AnswersCite ==
  \A kind \in DOMAIN Produces : \A lecture \in {1, 2} :
    LET job == [jobType |-> kind, lectureId |-> lecture,
                transcript |-> <<"a", "a">>]
        answer == AnswerJob(job, <<"a", ":", "a">>)
    IN  /\ \A other \in DOMAIN Produces :
             Produces[other] = answer.field => other = kind
        /\ \A i \in DOMAIN answer.citations :
             answer.citations[i].lectureId = lecture
        /\ Len(answer.citations) = 1
=============================================================================
