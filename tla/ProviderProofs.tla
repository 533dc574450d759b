--------------------------- MODULE ProviderProofs ---------------------------
(***************************************************************************)
(* Proofs about the AI requests and about the settings page that edits     *)
(* their providers, for every number of handlers, providers, prompts and   *)
(* presses, and every limit, estimate and number of days.                  *)
(*                                                                         *)
(* Requests.  That the cache never serves an answer that failed its        *)
(* schema rests on what a request carries to setCache.  The bound on the   *)
(* overspending is not inductive: a request in flight has yet to record    *)
(* what it uses.  Budget therefore reserves, for every request between     *)
(* checkLimits and its usage event, the most that it can record.           *)
(*                                                                         *)
(* Saves.  The invariant says where a save has to be before the row it     *)
(* works on exists, is enabled, is the default and has its key.  The page  *)
(* does what AiRequest lets anybody do, so what is shown there holds.      *)
(*                                                                         *)
(* Form.  At most one change is on its way while none met another, and it  *)
(* carries what the form shows.                                            *)
(***************************************************************************)
EXTENDS Settings, FiniteSetTheorems, TLAPS

(* The requests that passed checkLimits and have not recorded their usage. *)
InFlight == {r \in Caller : req[r].pc \in {"lookup", "drop", "hit", "send",
                                           "wait", "repair", "record"}}

(* The most that n requests can record. *)
Worst(n) == n * (2 * PerCall)

Budget == \A w \in Window :
  used[w] + Estimate + Worst(Cardinality(InFlight)) <= Limit[w] + Overspend

(* A request that is going to be cached carries an answer of its schema.   *)
Carries(r) ==
  /\ req[r].pc \in {"record", "store"} /\ req[r].prompt \in Structured
       => req[r].answer = "valid"
  /\ req[r].pc = "repair" => req[r].prompt \in Structured

RequestsInv ==
  /\ TypeOK
  /\ OnlyValidCached
  /\ \A r \in Caller : Carries(r)
  /\ Budget
-----------------------------------------------------------------------------
(* What the record of a request is made of.                                *)
Request == [pc : Step, prompt : Prompt, p : Provider \cup {NoProvider},
            key : BOOLEAN, answer : AnswerKept, calls : 0 .. 2]

LEMMA QuietType == Quiet \in Request /\ Quiet.pc = "idle"
  BY AiRequestAssumption DEF Quiet, Request, Step, Prompt, AnswerKept

LEMMA NoEntryType ==
  /\ NoEntry \in [answer : AnswerKept,
                  expired : BOOLEAN]
  /\ NoEntry.answer = "none"
  BY DEF NoEntry, AnswerKept

(* The arithmetic of the reservation: it is a number, grows with the       *)
(* requests in flight, and one request less frees two calls.               *)
LEMMA WorstType == ASSUME NEW n \in Nat PROVE Worst(n) \in Nat
  BY AiRequestAssumption DEF Worst

LEMMA WorstNext ==
  ASSUME NEW n \in Nat PROVE Worst(n + 1) = Worst(n) + 2 * PerCall
  BY AiRequestAssumption DEF Worst

LEMMA WorstGrows ==
  ASSUME NEW m \in Nat, NEW n \in Nat, m <= n PROVE Worst(m) <= Worst(n)
<1>1. PICK d \in Nat : n = m + d
  BY n - m \in Nat
<1>2. d * (2 * PerCall) \in Nat /\ m * (2 * PerCall) \in Nat
  BY AiRequestAssumption
<1>3. (m + d) * (2 * PerCall) = m * (2 * PerCall) + d * (2 * PerCall)
  BY AiRequestAssumption
<1> QED
  BY <1>1, <1>2, <1>3 DEF Worst

LEMMA InFlightFinite ==
  /\ IsFiniteSet(InFlight)
  /\ Cardinality(InFlight) \in Nat /\ Cardinality(Caller) \in Nat
  /\ Cardinality(InFlight) <= Cardinality(Caller)
  BY AiRequestAssumption, FS_Subset, FS_CardinalityType DEF InFlight

LEMMA LimitType == /\ Limit \in [Window -> Nat]
                   /\ \A w \in Window : Limit[w] > 0 /\ Estimate <= Limit[w]
  BY AiRequestAssumption DEF Limit, Window

-----------------------------------------------------------------------------
(* Steps.                                                                  *)

(* Editing a request keeps it one.                                         *)
LEMMA RequestUpdates ==
  ASSUME NEW x \in Request
  PROVE  /\ \A pc \in Step : [x EXCEPT !.pc = pc] \in Request
         /\ \A q \in Prompt :
              [x EXCEPT !.pc = "guard", !.prompt = q] \in Request
         /\ \A p \in Provider : [x EXCEPT !.pc = "load", !.p = p] \in Request
  BY DEF Request, Step

LEMMA KeyUpdate ==
  ASSUME NEW x \in Request, NEW k \in BOOLEAN
  PROVE  [x EXCEPT !.pc = "wait", !.key = k] \in Request
  BY DEF Request, Step

LEMMA AnswerUpdate ==
  ASSUME NEW x \in Request, NEW a \in AnswerKept,
         NEW n \in 1 .. 2
  PROVE  [x EXCEPT !.pc = "record", !.answer = a, !.calls = n] \in Request
<1>1. n \in 0 .. 2 /\ a \in AnswerKept
  OBVIOUS
<1> QED
  BY <1>1, Zenon DEF Request, Step

(* A step of one handler leaves the requests requests.                     *)
LEMMA RequestStep ==
  ASSUME TypeOK, NEW r \in Caller, Ask(r) \/ Serves(r)
  PROVE  req' \in [Caller -> Request]
<1>1. req \in [Caller -> Request] /\ req[r] \in Request
  BY DEF TypeOK, Request
<1>2. SUFFICES \E x \in Request : req' = [req EXCEPT ![r] = x]
  BY <1>1
<1>3. ASSUME NEW pc \in Step, Goto(r, pc)
      PROVE  \E x \in Request : req' = [req EXCEPT ![r] = x]
  <2>1. [req[r] EXCEPT !.pc = pc] \in Request
    BY <1>1, RequestUpdates
  <2> QED
    BY <1>3, <2>1 DEF Goto
<1>4. ASSUME Return(r)
      PROVE  \E x \in Request : req' = [req EXCEPT ![r] = x]
  BY <1>4, QuietType DEF Return
<1>5. CASE Ask(r)
  BY <1>5, QuietType, RequestUpdates DEF Ask
<1>6. CASE Choose(r)
  <2>1. ASSUME NEW p \in Provider,
               req' = [req EXCEPT ![r].pc = "load", ![r].p = p]
        PROVE  \E x \in Request : req' = [req EXCEPT ![r] = x]
    <3>1. [req[r] EXCEPT !.pc = "load", !.p = p] \in Request
      BY <1>1, RequestUpdates
    <3> QED
      BY <1>1, <2>1, <3>1
  <2> QED
    BY <1>4, <1>6, <2>1 DEF Choose, TypeOK
<1>7. CASE Send(r)
  <2>1. PICK k \in BOOLEAN :
          req' = [req EXCEPT ![r].pc = "wait", ![r].key = k]
    BY <1>7 DEF Send
  <2>2. [req[r] EXCEPT !.pc = "wait", !.key = k] \in Request
    BY <1>1, KeyUpdate
  <2> QED
    BY <2>1, <2>2
<1>8. ASSUME NEW a \in AnswerKept, NEW n \in 1 .. 2,
             Answered(r, a, n)
      PROVE  \E x \in Request : req' = [req EXCEPT ![r] = x]
  <2>1. [req[r] EXCEPT !.pc = "record", !.answer = a, !.calls = n] \in Request
    BY <1>1, AnswerUpdate
  <2> QED
    BY <1>1, <1>8, <2>1 DEF Answered
<1>9. CASE Answer(r) \/ Repair(r)
  BY <1>3, <1>4, <1>8, <1>9 DEF Answer, Answers, Repair, Step, AnswerKept
<1>10. CASE Guard(r) \/ LoadProvider(r) \/ CheckLimits(r) \/ Lookup(r)
            \/ DropExpired(r) \/ Hit(r) \/ ProviderFails(r) \/ Record(r)
            \/ Store(r)
  BY <1>3, <1>4, <1>10 DEF Guard, LoadProvider, CheckLimits, Lookup,
     DropExpired, Hit, ProviderFails, Record, Store, Step
<1> QED
  BY <1>5, <1>6, <1>7, <1>9, <1>10 DEF Serves

(* Usage only grows by numbers.                                            *)
LEMMA SpendType ==
  ASSUME used \in [Window -> Nat], NEW n \in Nat, Spend(n)
  PROVE  used' \in [Window -> Nat]
  BY DEF Spend

(* Every step leaves rows, sums, cache and requests in their domains.      *)
LEMMA TypeStep == ASSUME TypeOK, [Next]_vars PROVE TypeOK'
<1>1. CASE UNCHANGED vars
  BY <1>1 DEF vars, TypeOK
<1>2. ASSUME NEW p \in Provider,
             UpsertProvider(p) \/ SetSecret(p) \/ DeleteKey(p)
               \/ DeleteProvider(p)
      PROVE  TypeOK'
  <2>1. CASE SetSecret(p) \/ DeleteKey(p)
    <3>1. vault' \subseteq Provider
      BY <2>1 DEF SetSecret, DeleteKey, Loaded, TypeOK
    <3> QED
      BY <2>1, <3>1 DEF SetSecret, DeleteKey, TypeOK
  <2> QED
    BY <1>2, <2>1 DEF UpsertProvider, DeleteProvider, TypeOK
<1>3. CASE SetDefault
  BY <1>3 DEF SetDefault, TypeOK
<1>4. CASE NewDay
  <2>1. used' \in [Window -> Nat]
    BY <1>4 DEF NewDay, TypeOK
  <2>2. days' \in 0 .. MaxDays
    BY <1>4, AiRequestAssumption DEF NewDay, TypeOK
  <2>3. cache' \in [Provider \X Prompt ->
                      [answer : AnswerKept,
                       expired : BOOLEAN]]
    BY <1>4 DEF NewDay, TypeOK
  <2> QED
    BY <1>4, <2>1, <2>2, <2>3 DEF NewDay, TypeOK, confVars
<1>5. ASSUME NEW r \in Caller, Ask(r) PROVE TypeOK'
  BY <1>5, RequestStep DEF Ask, confVars, TypeOK, Request
<1>6. ASSUME NEW r \in Caller, Serves(r) PROVE TypeOK'
  <2>1. req' \in [Caller -> Request]
    BY <1>6, RequestStep
  <2>2. CASE UNCHANGED <<confVars, used, cache, days>>
    BY <2>1, <2>2 DEF confVars, TypeOK, Request
  <2>3. CASE DropExpired(r)
    BY <2>1, <2>3, NoEntryType DEF DropExpired, confVars, TypeOK, Request
  <2>4. CASE Hit(r)
    <3>1. used' \in [Window -> Nat]
      BY <2>4, SpendType, AiRequestAssumption DEF Hit, TypeOK
    <3> QED
      BY <2>1, <2>4, <3>1 DEF Hit, confVars, TypeOK, Request
  <2>5. CASE Record(r)
    <3>1. req[r].calls * PerCall \in Nat
      BY AiRequestAssumption DEF TypeOK
    <3>2. used' \in [Window -> Nat]
      BY <2>5, <3>1, SpendType DEF Record, TypeOK
    <3> QED
      BY <2>1, <2>5, <3>2 DEF Record, confVars, TypeOK, Request
  <2>6. CASE Store(r)
    BY <2>1, <2>6 DEF Store, confVars, TypeOK, Request
  <2> QED
    BY <1>6, <2>2, <2>3, <2>4, <2>5, <2>6
       DEF Serves, Guard, Choose, LoadProvider, CheckLimits, Lookup, Send,
           ProviderFails, Answer, Repair
<1> QED
  BY <1>1, <1>2, <1>3, <1>4, <1>5, <1>6 DEF Next

-----------------------------------------------------------------------------
(* The cache.                                                              *)

(* What a step of one handler makes of the answer that it carries.         *)
LEMMA CarriesStep ==
  ASSUME TypeOK, \A c \in Caller : Carries(c),
         NEW r \in Caller, Ask(r) \/ Serves(r)
  PROVE  \A c \in Caller : Carries(c)'
<1>1. req \in [Caller -> Request] /\ req[r] \in Request /\ Carries(r)
  BY DEF TypeOK, Request
<1>2. ASSUME NEW x, req' = [req EXCEPT ![r] = x],
             x.pc \in {"record", "store"} /\ x.prompt \in Structured
               => x.answer = "valid",
             x.pc = "repair" => x.prompt \in Structured
      PROVE  \A c \in Caller : Carries(c)'
  BY <1>1, <1>2 DEF Carries
<1>3. ASSUME Return(r) PROVE \A c \in Caller : Carries(c)'
  BY <1>2, <1>3, QuietType DEF Return
<1>4. ASSUME NEW pc, pc \notin {"record", "store", "repair"}, Goto(r, pc)
      PROVE  \A c \in Caller : Carries(c)'
  <2> DEFINE x == [req[r] EXCEPT !.pc = pc]
  <2>1. x.pc = pc
    BY <1>1 DEF Request
  <2> QED
    BY <1>2, <1>4, <2>1 DEF Goto
<1>5. CASE Ask(r)
  <2>1. PICK q \in Prompt :
          req' = [req EXCEPT ![r] = [Quiet EXCEPT !.pc = "guard",
                                                  !.prompt = q]]
    BY <1>5 DEF Ask
  <2> DEFINE x == [Quiet EXCEPT !.pc = "guard", !.prompt = q]
  <2>2. x.pc = "guard"
    BY DEF Quiet
  <2> QED
    BY <1>2, <2>1, <2>2
<1>6. CASE Choose(r)
  <2>1. ASSUME NEW p, req' = [req EXCEPT ![r].pc = "load", ![r].p = p]
        PROVE  \A c \in Caller : Carries(c)'
    <3> DEFINE x == [req[r] EXCEPT !.pc = "load", !.p = p]
    <3>1. x.pc = "load" /\ req' = [req EXCEPT ![r] = x]
      BY <1>1, <2>1 DEF Request
    <3> QED
      BY <1>2, <3>1
  <2> QED
    BY <1>3, <1>6, <2>1 DEF Choose
<1>7. CASE Send(r)
  <2>0. PICK k : req' = [req EXCEPT ![r].pc = "wait", ![r].key = k]
    BY <1>7 DEF Send
  <2> DEFINE x == [req[r] EXCEPT !.pc = "wait", !.key = k]
  <2>1. x.pc = "wait" /\ req' = [req EXCEPT ![r] = x]
    BY <1>1, <2>0 DEF Request
  <2> QED
    BY <1>2, <2>1
<1>8. ASSUME NEW a, NEW n, Answered(r, a, n),
             req[r].prompt \in Structured => a = "valid"
      PROVE  \A c \in Caller : Carries(c)'
  <2> DEFINE x == [req[r] EXCEPT !.pc = "record", !.answer = a, !.calls = n]
  <2>1. x.pc = "record" /\ x.answer = a /\ x.prompt = req[r].prompt
    BY <1>1 DEF Request
  <2>2. req' = [req EXCEPT ![r] = x]
    BY <1>1, <1>8 DEF Answered
  <2> QED
    BY <1>2, <1>8, <2>1, <2>2
<1>9. CASE Answer(r)
  <2>1. ASSUME req[r].prompt \in Chat, NEW a, Answered(r, a, 1)
        PROVE  \A c \in Caller : Carries(c)'
    BY <1>8, <2>1, AiRequestAssumption
  <2>2. ASSUME req[r].prompt \in Structured, Goto(r, "repair")
        PROVE  \A c \in Caller : Carries(c)'
    <3> DEFINE x == [req[r] EXCEPT !.pc = "repair"]
    <3>1. x.pc = "repair" /\ x.prompt = req[r].prompt
      BY <1>1 DEF Request
    <3> QED
      BY <1>2, <2>2, <3>1 DEF Goto
  <2> QED
    BY <1>3, <1>8, <1>9, <2>1, <2>2 DEF Answer
<1>10. CASE Repair(r)
  BY <1>3, <1>8, <1>10 DEF Repair
<1>11. CASE Record(r)
  <2> DEFINE x == [req[r] EXCEPT !.pc = "store"]
  <2>1. x.pc = "store" /\ x.prompt = req[r].prompt
        /\ x.answer = req[r].answer
    BY <1>1 DEF Request
  <2> QED
    BY <1>1, <1>2, <1>11, <2>1 DEF Record, Goto, At, Carries
<1>12. CASE Guard(r) \/ LoadProvider(r) \/ CheckLimits(r) \/ Lookup(r)
            \/ DropExpired(r) \/ Hit(r) \/ ProviderFails(r) \/ Store(r)
  BY <1>3, <1>4, <1>12 DEF Guard, LoadProvider, CheckLimits, Lookup,
     DropExpired, Hit, ProviderFails, Store
<1> QED
  BY <1>5, <1>6, <1>7, <1>9, <1>10, <1>11, <1>12 DEF Serves

(* Only setCache and the removal of an entry change the answers kept.      *)
LEMMA CacheStep ==
  ASSUME TypeOK, OnlyValidCached, \A c \in Caller : Carries(c), [Next]_vars
  PROVE  OnlyValidCached' /\ \A c \in Caller : Carries(c)'
<1>1. CASE UNCHANGED <<cache, req>>
  BY <1>1 DEF OnlyValidCached, Carries
<1>2. CASE NewDay
  BY <1>2, NoEntryType DEF NewDay, OnlyValidCached, Carries, TypeOK, Prompt
<1>3. ASSUME NEW r \in Caller, Ask(r) \/ Serves(r)
      PROVE  OnlyValidCached' /\ \A c \in Caller : Carries(c)'
  <2>1. \A c \in Caller : Carries(c)'
    BY <1>3, CarriesStep
  <2>2. CASE UNCHANGED cache
    BY <2>1, <2>2 DEF OnlyValidCached
  <2>3. CASE DropExpired(r)
    BY <2>1, <2>3, NoEntryType
       DEF DropExpired, OnlyValidCached, TypeOK, Prompt
  <2>4. CASE Store(r)
    <3> DEFINE h == Hash(r)
               x == [answer |-> req[r].answer, expired |-> FALSE]
    <3>1. req[r].prompt \in Structured => x.answer = "valid"
      BY <2>4 DEF Store, At, Carries
    <3>2. ASSUME NEW e \in Provider \X Structured
          PROVE  cache'[e].answer \in {"none", "valid"}
      <4>1. e \in DOMAIN cache /\ cache[e].answer \in {"none", "valid"}
        BY DEF TypeOK, OnlyValidCached, Prompt
      <4>2. cache' = [cache EXCEPT ![h] = x]
        BY <2>4 DEF Store
      <4>3. CASE e = h
        <5>1. e[2] = req[r].prompt
          BY <4>3 DEF Hash
        <5>2. x.answer = "valid"
          BY <3>1, <5>1
        <5> HIDE DEF h, x
        <5> QED
          BY <4>1, <4>2, <4>3, <5>2
      <4>4. CASE e # h
        <5> HIDE DEF h, x
        <5> QED
          BY <4>1, <4>2, <4>4
      <4> QED
        BY <4>3, <4>4
    <3> QED
      BY <2>1, <3>2 DEF OnlyValidCached
  <2> QED
    BY <1>3, <2>2, <2>3, <2>4
       DEF Ask, Serves, Guard, Choose, LoadProvider, CheckLimits, Lookup, Hit,
           Send, ProviderFails, Answer, Repair, Record
<1> QED
  BY <1>1, <1>2, <1>3
     DEF Next, vars, UpsertProvider, SetSecret, DeleteKey, DeleteProvider,
         SetDefault

-----------------------------------------------------------------------------
(* The limits.                                                             *)

(* Nothing is spent and nobody passes the check.                           *)
LEMMA BudgetKept ==
  ASSUME TypeOK, TypeOK', Budget, InFlight' \subseteq InFlight,
         \A w \in Window : used'[w] <= used[w]
  PROVE  Budget'
<1>1. /\ Cardinality(InFlight') \in Nat
      /\ Cardinality(InFlight') <= Cardinality(InFlight)
  BY InFlightFinite, FS_Subset, FS_CardinalityType
<1>2. Worst(Cardinality(InFlight')) <= Worst(Cardinality(InFlight))
  BY <1>1, InFlightFinite, WorstGrows
<1>3. /\ Worst(Cardinality(InFlight)) \in Nat
      /\ Worst(Cardinality(InFlight')) \in Nat
      /\ Worst(Cardinality(Caller)) \in Nat
  BY <1>1, InFlightFinite, WorstType
<1> SUFFICES ASSUME NEW w \in Window
             PROVE  used'[w] + Estimate + Worst(Cardinality(InFlight'))
                      <= Limit[w] + Overspend
  BY DEF Budget
<1>4. Overspend = Worst(Cardinality(Caller))
  BY DEF Overspend, Worst
<1>5. /\ used[w] \in Nat /\ used'[w] \in Nat /\ used'[w] <= used[w]
      /\ Limit[w] \in Nat /\ Estimate \in Nat
  BY LimitType, AiRequestAssumption DEF TypeOK
<1>6. used[w] + Estimate + Worst(Cardinality(InFlight))
        <= Limit[w] + Worst(Cardinality(Caller))
  BY <1>4 DEF Budget
<1> QED
  BY <1>2, <1>3, <1>4, <1>5, <1>6

(* A request records no more than was reserved for it and is not in flight *)
(* any longer.                                                             *)
LEMMA BudgetSpent ==
  ASSUME TypeOK, TypeOK', Budget, NEW r \in InFlight, NEW n \in Nat,
         n <= 2 * PerCall, InFlight' = InFlight \ {r}, Spend(n)
  PROVE  Budget'
<1>1. /\ Cardinality(InFlight') \in Nat
      /\ Cardinality(InFlight) = Cardinality(InFlight') + 1
  <2>1. /\ IsFiniteSet(InFlight \ {r})
        /\ Cardinality(InFlight \ {r}) = Cardinality(InFlight) - 1
    BY InFlightFinite, FS_RemoveElement
  <2>2. Cardinality(InFlight \ {r}) \in Nat
    BY <2>1, FS_CardinalityType
  <2> QED
    BY <2>1, <2>2, InFlightFinite
<1>2. Worst(Cardinality(InFlight))
        = Worst(Cardinality(InFlight')) + 2 * PerCall
  BY <1>1, WorstNext
<1>3. /\ Worst(Cardinality(InFlight')) \in Nat
      /\ Worst(Cardinality(Caller)) \in Nat
      /\ 2 * PerCall \in Nat
  BY <1>1, InFlightFinite, WorstType, AiRequestAssumption
<1> SUFFICES ASSUME NEW w \in Window
             PROVE  used'[w] + Estimate + Worst(Cardinality(InFlight'))
                      <= Limit[w] + Overspend
  BY DEF Budget
<1>4. Overspend = Worst(Cardinality(Caller))
  BY DEF Overspend, Worst
<1>5. /\ used[w] \in Nat /\ used'[w] = used[w] + n
      /\ Limit[w] \in Nat /\ Estimate \in Nat
  BY LimitType, AiRequestAssumption DEF TypeOK, Spend
<1>6. used[w] + Estimate + Worst(Cardinality(InFlight))
        <= Limit[w] + Worst(Cardinality(Caller))
  BY <1>4 DEF Budget
<1> QED
  BY <1>2, <1>3, <1>4, <1>5, <1>6

(* A request passes the check: the sums are below the limits, and there    *)
(* are no more requests in flight than handlers.                           *)
LEMMA BudgetChecked ==
  ASSUME TypeOK, TypeOK', UNCHANGED used,
         \A w \in Window : Admits(Limit[w], used[w], Estimate)
  PROVE  Budget'
<1>1. /\ Cardinality(InFlight') \in Nat /\ Cardinality(Caller) \in Nat
      /\ Cardinality(InFlight') <= Cardinality(Caller)
  BY AiRequestAssumption, FS_Subset, FS_CardinalityType DEF InFlight
<1>2. Worst(Cardinality(InFlight')) <= Worst(Cardinality(Caller))
  BY <1>1, WorstGrows
<1>3. /\ Worst(Cardinality(InFlight')) \in Nat
      /\ Worst(Cardinality(Caller)) \in Nat
  BY <1>1, WorstType
<1> SUFFICES ASSUME NEW w \in Window
             PROVE  used[w] + Estimate + Worst(Cardinality(InFlight'))
                      <= Limit[w] + Overspend
  BY DEF Budget
<1>4. Overspend = Worst(Cardinality(Caller))
  BY DEF Overspend, Worst
<1>5. /\ used[w] \in Nat /\ Limit[w] \in Nat /\ Estimate \in Nat
      /\ used[w] + Estimate <= Limit[w]
  BY LimitType, AiRequestAssumption DEF TypeOK, Admits
<1> QED
  BY <1>2, <1>3, <1>4, <1>5

LEMMA BudgetStep == ASSUME TypeOK, TypeOK', Budget, [Next]_vars PROVE Budget'
<1> DEFINE flying == {"lookup", "drop", "hit", "send", "wait", "repair",
                      "record"}
<1>1. /\ req \in [Caller -> Request]
      /\ \A r \in Caller : r \in InFlight <=> req[r].pc \in flying
  BY DEF TypeOK, Request, InFlight
<1>2. used \in [Window -> Nat]
  BY DEF TypeOK
<1>3. CASE UNCHANGED <<used, req>>
  BY <1>2, <1>3, BudgetKept DEF InFlight
<1>4. CASE NewDay
  <2>1. InFlight' = InFlight
    BY <1>4 DEF NewDay, InFlight
  <2>2. \A w \in Window : used'[w] <= used[w]
    BY <1>2, <1>4 DEF NewDay
  <2> QED
    BY <2>1, <2>2, BudgetKept
<1>5. ASSUME NEW r \in Caller, Ask(r) \/ Serves(r) PROVE Budget'
  <2>1. CASE UNCHANGED used /\ InFlight' \subseteq InFlight
    BY <1>2, <2>1, BudgetKept
  <2>2. ASSUME NEW pc, Goto(r, pc), UNCHANGED used,
               pc \notin flying \/ req[r].pc \in flying
        PROVE  Budget'
    <3>1. \A c \in Caller : c # r => req'[c] = req[c]
      BY <1>1, <2>2 DEF Goto
    <3>2. req'[r].pc = pc
      BY <1>1, <2>2 DEF Goto, Request
    <3> QED
      BY <1>1, <2>1, <2>2, <3>1, <3>2 DEF InFlight
  <2>3. ASSUME Return(r) PROVE InFlight' = InFlight \ {r}
    BY <1>1, <2>3, QuietType DEF Return, InFlight
  <2>4. CASE Return(r) /\ UNCHANGED used
    BY <2>1, <2>3, <2>4
  <2>5. CASE Ask(r)
    <3>1. \A c \in Caller : c # r => req'[c] = req[c]
      BY <1>1, <1>5, <2>5 DEF Ask
    <3>2. req'[r].pc = "guard"
      BY <1>1, <2>5, QuietType DEF Ask, Request
    <3> QED
      BY <1>1, <2>1, <2>5, <3>1, <3>2 DEF Ask, InFlight
  <2>6. CASE Choose(r)
    <3>1. ASSUME NEW p, req' = [req EXCEPT ![r].pc = "load", ![r].p = p]
          PROVE  InFlight' \subseteq InFlight
      <4>1. \A c \in Caller : c # r => req'[c] = req[c]
        BY <1>1, <3>1
      <4>2. req'[r].pc = "load"
        BY <1>1, <3>1 DEF Request
      <4> QED
        BY <1>1, <4>1, <4>2 DEF InFlight
    <3> QED
      BY <2>1, <2>4, <2>6, <3>1 DEF Choose
  <2>7. CASE CheckLimits(r)
    <3>1. CASE \E w \in Window : ~Admits(Limit[w], used[w], Estimate)
      BY <2>4, <2>7, <3>1 DEF CheckLimits
    <3>2. CASE \A w \in Window : Admits(Limit[w], used[w], Estimate)
      BY <2>7, <3>2, BudgetChecked DEF CheckLimits
    <3> QED
      BY <3>1, <3>2
  <2>8. CASE Hit(r)
    <3>1. r \in InFlight /\ Return(r)
      BY <1>1, <2>8 DEF Hit, At
    <3>2. CASE UNCHANGED used
      BY <2>4, <3>1, <3>2
    <3>3. CASE Spend(PerCall)
      BY <2>3, <3>1, <3>3, BudgetSpent, AiRequestAssumption
    <3> QED
      BY <2>8, <3>2, <3>3 DEF Hit
  <2>9. CASE Record(r)
    <3>1. r \in InFlight /\ Goto(r, "store")
      BY <1>1, <2>9 DEF Record, At
    <3>2. CASE UNCHANGED used
      BY <2>2, <3>1, <3>2
    <3>3. CASE Spend(req[r].calls * PerCall)
      <4>1. InFlight' = InFlight \ {r}
        <5>1. \A c \in Caller : c # r => req'[c] = req[c]
          BY <1>1, <3>1 DEF Goto
        <5>2. req'[r].pc = "store"
          BY <1>1, <3>1 DEF Goto, Request
        <5> QED
          BY <1>1, <5>1, <5>2 DEF InFlight
      <4>2. req[r].calls \in {0, 1, 2}
        BY <1>1 DEF Request
      <4>3. /\ req[r].calls * PerCall \in Nat
            /\ req[r].calls * PerCall <= 2 * PerCall
        BY <4>2, AiRequestAssumption
      <4> QED
        BY <3>1, <3>3, <4>1, <4>3, BudgetSpent
    <3> QED
      BY <2>9, <3>2, <3>3 DEF Record
  <2>10. CASE Send(r)
    <3>1. \A c \in Caller : c # r => req'[c] = req[c]
      BY <1>1, <2>10 DEF Send
    <3>2. req[r].pc \in flying
      BY <2>10 DEF Send, At
    <3> QED
      BY <1>1, <2>1, <2>10, <3>1, <3>2 DEF Send, InFlight
  <2>11. ASSUME NEW a, NEW n, Answered(r, a, n), UNCHANGED used,
                req[r].pc \in flying
         PROVE  Budget'
    <3>1. \A c \in Caller : c # r => req'[c] = req[c]
      BY <1>1, <2>11 DEF Answered
    <3> QED
      BY <1>1, <2>1, <2>11, <3>1 DEF InFlight
  <2>12. CASE Answer(r) \/ Repair(r)
    BY <2>2, <2>4, <2>11, <2>12 DEF Answer, Repair, At
  <2>13. CASE Guard(r) \/ LoadProvider(r) \/ Lookup(r) \/ DropExpired(r)
              \/ ProviderFails(r) \/ Store(r)
    BY <2>2, <2>4, <2>13 DEF Guard, LoadProvider, Lookup, DropExpired,
       ProviderFails, Store, At
  <2> QED
    BY <1>5, <2>5, <2>6, <2>7, <2>8, <2>9, <2>10, <2>12, <2>13 DEF Serves
<1> QED
  BY <1>3, <1>4, <1>5
     DEF Next, vars, UpsertProvider, SetSecret, DeleteKey, DeleteProvider,
         SetDefault

-----------------------------------------------------------------------------
LEMMA InitInvariant == ASSUME Init PROVE RequestsInv
<1>1. TypeOK
  BY AiRequestAssumption, QuietType, NoEntryType DEF Init, TypeOK, Request
<1>2. OnlyValidCached
  BY NoEntryType DEF Init, OnlyValidCached, Prompt
<1>3. \A r \in Caller : Carries(r)
  BY QuietType DEF Init, Carries
<1>4. Budget
  <2>1. InFlight = {}
    BY QuietType DEF Init, InFlight
  <2>2. Worst(Cardinality(InFlight)) = 0
    BY <2>1, FS_EmptySet, AiRequestAssumption DEF Worst
  <2>3. Overspend = Worst(Cardinality(Caller))
    BY DEF Overspend, Worst
  <2>4. Overspend \in Nat
    BY <2>3, InFlightFinite, WorstType
  <2> QED
    BY <2>2, <2>4, LimitType, AiRequestAssumption DEF Init, Budget
<1> QED
  BY <1>1, <1>2, <1>3, <1>4 DEF RequestsInv

(* The invariant holds in every reachable state of aiRequest and of the    *)
(* handlers that edit its providers, keys and settings.                    *)
THEOREM RequestsInvariance == Spec => []RequestsInv
<1>1. Init => RequestsInv
  BY InitInvariant
<1>2. RequestsInv /\ [Next]_vars => RequestsInv'
  BY TypeStep, CacheStep, BudgetStep DEF RequestsInv
<1> QED
  BY <1>1, <1>2, PTL DEF Spec

(* Rows, sums, cache and requests stay in their domains; in particular no  *)
(* request makes more than one repair call.                                *)
THEOREM TypeCorrect == Spec => []TypeOK
<1>1. RequestsInv => TypeOK
  BY DEF RequestsInv
<1> QED
  BY <1>1, RequestsInvariance, PTL

(* getCache never finds an answer that failed the schema of its prompt.    *)
THEOREM CacheIsValid == Spec => []OnlyValidCached
<1>1. RequestsInv => OnlyValidCached
  BY DEF RequestsInv
<1> QED
  BY <1>1, RequestsInvariance, PTL

(* checkLimits lets the recorded usage pass a limit by no more than what   *)
(* the handlers can use that run at the same time.                         *)
THEOREM LimitsHold == Spec => []OverspendBounded
<1>1. ASSUME RequestsInv PROVE OverspendBounded
  <2> SUFFICES ASSUME NEW w \in Window
               PROVE  used[w] + Estimate <= Limit[w] + Overspend
    BY DEF OverspendBounded
  <2>1. used[w] + Estimate + Worst(Cardinality(InFlight))
          <= Limit[w] + Overspend
    BY <1>1 DEF RequestsInv, Budget
  <2>2. Worst(Cardinality(InFlight)) \in Nat
    BY InFlightFinite, WorstType
  <2>3. used[w] \in Nat /\ Estimate \in Nat /\ Limit[w] \in Nat
    BY <1>1, LimitType, AiRequestAssumption DEF RequestsInv, TypeOK
  <2>4. Overspend \in Nat
    <3>1. Overspend = Worst(Cardinality(Caller))
      BY DEF Overspend, Worst
    <3> QED
      BY <3>1, InFlightFinite, WorstType
  <2> QED
    BY <2>1, <2>2, <2>3, <2>4
<1> QED
  BY <1>1, RequestsInvariance, PTL

-----------------------------------------------------------------------------
(* The saves of the settings page.                                         *)

Steps == {"idle", "list", "create", "enable", "default", "store", "verify",
          "saved", "failed"}
SaveRec == [pc : Steps, kind : Kind \cup {NoKind},
            p : Provider \cup {NoProvider}]

Types ==
  /\ row \in [Provider -> {"none", "off", "on"}]
  /\ vault \subseteq Row
  /\ kind \in [Provider -> Kind \cup {NoKind}]
  /\ keyFor \in [Provider -> Kind \cup {NoKind}]
  /\ picked \in Kind
  /\ save \in [Save -> SaveRec]
  /\ lost \in BOOLEAN
  /\ default # NoProvider => default \in Row

(* A save works on a row of its kind, which it has found or made enabled.  *)
Aimed ==
  \A s \in Save :
    /\ save[s].pc = "enable" =>
         save[s].p \in Row /\ kind[save[s].p] = save[s].kind
    /\ save[s].pc \in {"default", "store", "verify", "saved"} =>
         /\ save[s].p \in Provider /\ row[save[s].p] = "on"
         /\ kind[save[s].p] = save[s].kind

KeysFit == \A p \in vault : keyFor[p] = kind[p]

(* The default has its key, or a save is about to store it.                *)
DefaultServed ==
  default # NoProvider /\ ~lost =>
    /\ row[default] = "on"
    /\ default \in vault
       \/ \E s \in Save : save[s].pc = "store" /\ save[s].p = default

DefaultMade ==
  (\E s \in Save : save[s].pc \in {"store", "verify", "saved"}) =>
    default # NoProvider

SavesInv == Types /\ Aimed /\ KeysFit /\ DefaultServed /\ DefaultMade

-----------------------------------------------------------------------------
(* One save goes on with a step and a row, the others stay.                *)
Moved(s, pc, p) ==
  /\ save' \in [Save -> SaveRec]
  /\ save'[s].pc = pc /\ save'[s].p = p /\ save'[s].kind = save[s].kind
  /\ \A t \in Save : t # s => save'[t] = save[t]

LEMMA Proceeds ==
  ASSUME Types, NEW s \in Save, NEW pc \in Steps, Proceed(s, pc)
  PROVE  Moved(s, pc, save[s].p)
<1>1. save[s] \in SaveRec
  BY DEF Types
<1> DEFINE x == [save[s] EXCEPT !.pc = pc]
<1>2. x \in SaveRec /\ x.pc = pc /\ x.p = save[s].p /\ x.kind = save[s].kind
  BY <1>1 DEF SaveRec
<1>3. save' = [save EXCEPT ![s] = x]
  BY DEF Proceed
<1> HIDE DEF x
<1> QED
  BY <1>2, <1>3 DEF Moved, Types

LEMMA ProceedsWith ==
  ASSUME Types, NEW s \in Save, NEW pc \in Steps, NEW p \in Provider,
         ProceedWith(s, pc, p)
  PROVE  Moved(s, pc, p)
<1>1. save[s] \in SaveRec
  BY DEF Types
<1> DEFINE x == [save[s] EXCEPT !.pc = pc, !.p = p]
<1>2. x \in SaveRec /\ x.pc = pc /\ x.p = p /\ x.kind = save[s].kind
  BY <1>1 DEF SaveRec
<1>3. save' = [save EXCEPT ![s] = x]
  BY <1>1 DEF ProceedWith
<1> HIDE DEF x
<1> QED
  BY <1>2, <1>3 DEF Moved, Types
-----------------------------------------------------------------------------
(* Steps that leave the providers, the keys and the default alone, and     *)
(* move a save to where its row already allows it.                         *)
LEMMA OnlyMoved ==
  ASSUME SavesInv, NEW s \in Save, NEW pc \in Steps,
         NEW p \in Provider \cup {NoProvider}, Moved(s, pc, p),
         UNCHANGED <<row, vault, default, kind, keyFor, picked>>,
         lost' \in BOOLEAN, lost => lost',
         save[s].pc = "store" => lost',
         pc # "store",
         pc \in {"verify", "saved"} => save[s].pc \in {"verify", "saved"},
         pc = "enable" => p \in Row /\ kind[p] = save[s].kind,
         pc \in {"default", "store", "verify", "saved"} =>
           p \in Provider /\ row[p] = "on" /\ kind[p] = save[s].kind
  PROVE  SavesInv'
<1> USE DEF SavesInv
<1>1. Types'
  BY DEF Types, Moved, Row
<1>2. Aimed'
  BY DEF Aimed, Moved, Row
<1>3. KeysFit'
  BY DEF KeysFit
<1>4. DefaultServed'
  BY DEF DefaultServed, Moved
<1>5. DefaultMade'
  BY DEF DefaultMade, Moved
<1> QED
  BY <1>1, <1>2, <1>3, <1>4, <1>5

LEMMA PressStep == ASSUME SavesInv, NEW s \in Save, Press(s) PROVE SavesInv'
<1>1. Types
  BY DEF SavesInv
<1> DEFINE x == [Idle EXCEPT !.pc = "list", !.kind = picked]
<1>2. x \in SaveRec /\ x.pc = "list"
  BY <1>1 DEF Idle, SaveRec, Steps, Types
<1>3. save' = [save EXCEPT ![s] = x]
  BY DEF Press
<1> HIDE DEF x
<1>4. /\ save' \in [Save -> SaveRec] /\ save'[s].pc = "list"
      /\ \A t \in Save : t # s => save'[t] = save[t]
  BY <1>1, <1>2, <1>3 DEF Types
<1>5. UNCHANGED <<row, vault, default, kind, keyFor, picked, lost>>
  BY DEF Press, vars
<1>6. save[s].pc = "idle"
  BY DEF Press, Does
<1>7. Types'
  BY <1>1, <1>4, <1>5 DEF Types, Row
<1>8. Aimed' /\ KeysFit'
  BY <1>4, <1>5 DEF SavesInv, Aimed, KeysFit, Row
<1>9. DefaultServed' /\ DefaultMade'
  BY <1>4, <1>5, <1>6 DEF SavesInv, DefaultServed, DefaultMade
<1> QED
  BY <1>7, <1>8, <1>9 DEF SavesInv

LEMMA ListStep ==
  ASSUME SavesInv, NEW s \in Save, ListProviders(s)
  PROVE  SavesInv'
<1>1. Types /\ save[s].pc = "list" /\ lost \in BOOLEAN
      /\ UNCHANGED <<row, vault, default, kind, keyFor, picked, lost>>
  BY DEF SavesInv, Types, ListProviders, Does, vars
<1>2. CASE Proceed(s, "create")
  <2>1. Moved(s, "create", save[s].p) /\ save[s] \in SaveRec
    BY <1>1, <1>2, Proceeds DEF Steps, Types
  <2> QED
    BY <1>1, <2>1, OnlyMoved DEF Steps, SaveRec
<1>3. ASSUME NEW p \in Matching(s),
             ProceedWith(s, IF Enabled(p) THEN "default" ELSE "enable", p)
      PROVE  SavesInv'
  <2>1. p \in Row /\ kind[p] = save[s].kind /\ p \in Provider
    BY <1>3 DEF Matching, Row
  <2>2. CASE Enabled(p)
    <3>1. Moved(s, "default", p)
      BY <1>1, <1>3, <2>1, <2>2, ProceedsWith DEF Steps
    <3> QED
      BY <1>1, <2>1, <2>2, <3>1, OnlyMoved DEF Steps, Enabled
  <2>3. CASE ~Enabled(p)
    <3>1. Moved(s, "enable", p)
      BY <1>1, <1>3, <2>1, <2>3, ProceedsWith DEF Steps
    <3> QED
      BY <1>1, <2>1, <3>1, OnlyMoved DEF Steps
  <2> QED
    BY <2>2, <2>3
<1> QED
  BY <1>2, <1>3 DEF ListProviders

LEMMA EndStep ==
  ASSUME SavesInv, NEW s \in Save,
         CallFails(s) \/ StoreFails(s) \/ VerifyKey(s)
  PROVE  SavesInv'
<1>1. Types /\ save[s] \in SaveRec /\ lost \in BOOLEAN
      /\ UNCHANGED <<row, vault, default, kind, keyFor, picked>>
  BY DEF SavesInv, Types, CallFails, StoreFails, VerifyKey, vars
<1>2. CASE Proceed(s, "failed")
  <2>1. Moved(s, "failed", save[s].p)
    BY <1>1, <1>2, Proceeds DEF Steps
  <2>2. lost' \in BOOLEAN /\ (lost => lost')
        /\ (save[s].pc = "store" => lost')
    BY <1>1 DEF CallFails, StoreFails, VerifyKey, Does
  <2> QED
    BY <1>1, <2>1, <2>2, OnlyMoved DEF Steps, SaveRec
<1>3. CASE VerifyKey(s) /\ Proceed(s, "saved")
  <2>1. Moved(s, "saved", save[s].p)
    BY <1>1, <1>3, Proceeds DEF Steps
  <2>2. lost' = lost /\ save[s].pc = "verify"
    BY <1>3 DEF VerifyKey, Does
  <2>3. save[s].p \in Provider /\ row[save[s].p] = "on"
        /\ kind[save[s].p] = save[s].kind
    BY <2>2 DEF SavesInv, Aimed
  <2> QED
    BY <1>1, <2>1, <2>2, <2>3, OnlyMoved DEF Steps
<1> QED
  BY <1>2, <1>3 DEF CallFails, StoreFails, VerifyKey

-----------------------------------------------------------------------------
(* Steps that change a provider, the default or a key.                     *)

LEMMA CreateStep ==
  ASSUME SavesInv, NEW s \in Save, CreateProvider(s)
  PROVE  SavesInv'
<1>1. PICK p \in Provider \ Row :
        /\ row' = [row EXCEPT ![p] = "on"]
        /\ kind' = [kind EXCEPT ![p] = save[s].kind]
        /\ ProceedWith(s, "default", p)
  BY DEF CreateProvider, First
<1>2. Types /\ save[s] \in SaveRec /\ save[s].pc = "create"
      /\ UNCHANGED <<vault, default, keyFor, picked, lost>>
  BY DEF SavesInv, Types, CreateProvider, Does
<1>3. Moved(s, "default", p)
  BY <1>1, <1>2, ProceedsWith DEF Steps
<1>4. /\ row' \in [Provider -> {"none", "off", "on"}] /\ row'[p] = "on"
      /\ kind' \in [Provider -> Kind \cup {NoKind}]
      /\ kind'[p] = save[s].kind
      /\ \A q \in Provider : q # p => row'[q] = row[q] /\ kind'[q] = kind[q]
      /\ p \notin Row /\ p \in Provider
  BY <1>1, <1>2 DEF Types, SaveRec
<1>5. Types'
  BY <1>2, <1>3, <1>4 DEF Types, Moved, Row
<1>6. Aimed'
  BY <1>3, <1>4 DEF SavesInv, Aimed, Moved, Row
<1>7. KeysFit'
  BY <1>2, <1>4 DEF SavesInv, KeysFit, Types, Row
<1>8. DefaultServed'
  BY <1>2, <1>3, <1>4 DEF SavesInv, DefaultServed, Moved, Types, Row
<1>9. DefaultMade'
  BY <1>2, <1>3 DEF SavesInv, DefaultMade, Moved
<1> QED
  BY <1>5, <1>6, <1>7, <1>8, <1>9 DEF SavesInv

LEMMA EnableStep ==
  ASSUME SavesInv, NEW s \in Save, EnableProvider(s)
  PROVE  SavesInv'
<1> DEFINE p == save[s].p
<1>1. /\ Types /\ p \in Row /\ p \in Provider /\ kind[p] = save[s].kind
      /\ save[s].pc = "enable" /\ row' = [row EXCEPT ![p] = "on"]
      /\ UNCHANGED <<vault, default, kind, keyFor, picked, lost>>
  BY DEF SavesInv, Aimed, EnableProvider, Does, Row
<1>2. Moved(s, "default", p)
  BY <1>1, Proceeds DEF EnableProvider, Steps
<1>3. /\ row' \in [Provider -> {"none", "off", "on"}] /\ row'[p] = "on"
      /\ \A q \in Provider : q # p => row'[q] = row[q]
  BY <1>1 DEF Types
<1> HIDE DEF p
<1>4. Types'
  BY <1>1, <1>2, <1>3 DEF Types, Moved, Row
<1>5. Aimed'
  BY <1>1, <1>2, <1>3 DEF SavesInv, Aimed, Moved, Row
<1>6. KeysFit'
  BY <1>1 DEF SavesInv, KeysFit
<1>7. DefaultServed'
  BY <1>1, <1>2, <1>3 DEF SavesInv, DefaultServed, Moved, Types, Row
<1>8. DefaultMade'
  BY <1>1, <1>2 DEF SavesInv, DefaultMade, Moved
<1> QED
  BY <1>4, <1>5, <1>6, <1>7, <1>8 DEF SavesInv

LEMMA DefaultStep ==
  ASSUME SavesInv, NEW s \in Save, MakeDefault(s)
  PROVE  SavesInv'
<1> DEFINE p == save[s].p
<1>1. /\ Types /\ p \in Provider /\ row[p] = "on" /\ kind[p] = save[s].kind
      /\ save[s].pc = "default" /\ default' = p
      /\ UNCHANGED <<row, vault, kind, keyFor, picked, lost>>
  BY DEF SavesInv, Aimed, MakeDefault, Does
<1>2. Moved(s, "store", p)
  BY <1>1, Proceeds DEF MakeDefault, Steps
<1>3. p # NoProvider
  BY <1>1, AiRequestAssumption
<1> HIDE DEF p
<1>4. Types'
  BY <1>1, <1>2 DEF Types, Moved, Row
<1>5. Aimed' /\ KeysFit'
  BY <1>1, <1>2 DEF SavesInv, Aimed, KeysFit, Moved, Row
<1>6. DefaultServed' /\ DefaultMade'
  BY <1>1, <1>2, <1>3 DEF DefaultServed, DefaultMade, Moved
<1> QED
  BY <1>4, <1>5, <1>6 DEF SavesInv

LEMMA StoreStep == ASSUME SavesInv, NEW s \in Save, StoreKey(s) PROVE SavesInv'
<1> DEFINE p == save[s].p
<1>1. /\ Types /\ p = save[s].p
      /\ p \in Provider /\ row[p] = "on" /\ kind[p] = save[s].kind
      /\ save[s] \in SaveRec
      /\ save[s].pc = "store" /\ keyFor' = [keyFor EXCEPT ![p] = save[s].kind]
      /\ UNCHANGED <<row, default, kind, picked>>
  BY DEF SavesInv, Aimed, StoreKey, Does, Types
<1>2. PICK v \in Loaded : vault' = v \cup {p} /\ lost' = (lost \/ v # vault)
  BY DEF StoreKey
<1>3. /\ vault' \subseteq vault \cup {p} /\ p \in vault'
      /\ lost' \in BOOLEAN /\ (~lost' => ~lost /\ vault \subseteq vault')
  BY <1>1, <1>2 DEF Loaded, Types
<1>4. Moved(s, "verify", p)
  BY <1>1, Proceeds DEF StoreKey, Steps
<1>5. /\ keyFor' \in [Provider -> Kind \cup {NoKind}] /\ keyFor'[p] = kind[p]
      /\ \A q \in Provider : q # p => keyFor'[q] = keyFor[q]
  BY <1>1 DEF Types, SaveRec
<1> HIDE DEF p
<1>6. Types'
  BY <1>1, <1>3, <1>4, <1>5 DEF Types, Moved, Row
<1>7. Aimed'
  BY <1>1, <1>4 DEF SavesInv, Aimed, Moved, Row
<1>8. KeysFit'
  BY <1>1, <1>3, <1>5 DEF SavesInv, KeysFit, Types, Row
<1>9. DefaultServed'
  BY <1>1, <1>3, <1>4 DEF SavesInv, DefaultServed, Moved
<1>10. DefaultMade'
  BY <1>1, <1>4 DEF SavesInv, DefaultMade, Moved
<1> QED
  BY <1>6, <1>7, <1>8, <1>9, <1>10 DEF SavesInv

LEMMA DisabledStep == ASSUME SavesInv, LeaveDisabled PROVE SavesInv'
<1>1. PICK p \in Provider, k \in Kind :
        /\ row' = [row EXCEPT ![p] = "off"]
        /\ kind' = [kind EXCEPT ![p] = k]
  BY DEF LeaveDisabled
<1>2. /\ Types /\ Row = {} /\ \A s \in Save : save[s].pc = "idle"
      /\ UNCHANGED <<vault, default, keyFor, picked, save, lost>>
  BY DEF SavesInv, LeaveDisabled, Does
<1>3. vault = {} /\ default = NoProvider
  BY <1>2 DEF Types
<1>4. row' \in [Provider -> {"none", "off", "on"}]
      /\ kind' \in [Provider -> Kind \cup {NoKind}]
  BY <1>1, <1>2 DEF Types
<1>5. Types'
  BY <1>2, <1>3, <1>4 DEF Types, Row
<1>6. Aimed' /\ KeysFit' /\ DefaultServed' /\ DefaultMade'
  BY <1>2, <1>3 DEF Aimed, KeysFit, DefaultServed, DefaultMade
<1> QED
  BY <1>5, <1>6 DEF SavesInv

-----------------------------------------------------------------------------
LEMMA Unmoved ==
  ASSUME SavesInv, picked' \in Kind,
         UNCHANGED <<row, vault, default, kind, keyFor, save, lost>>
  PROVE  SavesInv'
BY DEF SavesInv, Types, Row, Aimed, KeysFit, DefaultServed, DefaultMade

(* Requests change no provider, no key and nothing on the page.            *)
LEMMA RequestsOnly ==
  ASSUME Requests PROVE UNCHANGED <<confVars, keyVars, formVars>>
<1>1. ASSUME NEW r \in Caller, Ask(r) \/ Serves(r)
      PROVE  UNCHANGED confVars
  BY <1>1 DEF Ask, Serves, Guard, Choose, LoadProvider, CheckLimits, Lookup,
     DropExpired, Hit, Send, ProviderFails, Answer, Repair, Record, Store,
     confVars
<1>2. CASE NewDay
  BY <1>2 DEF NewDay, Requests
<1> QED
  BY <1>1, <1>2 DEF Requests

LEMMA KeysStep ==
  ASSUME SavesInv, [SettingsNext]_settingsVars
  PROVE  SavesInv'
<1>1. CASE LeaveDisabled
  BY <1>1, DisabledStep
<1>2. CASE SelectKind
  BY <1>2, Unmoved DEF SelectKind, vars
<1>3. ASSUME NEW s \in Save, Saves(s)
      PROVE  SavesInv'
  BY <1>3, PressStep, ListStep, EndStep, CreateStep, EnableStep, DefaultStep,
     StoreStep DEF Saves
<1>4. CASE LoadForm \/ (\E v \in Value : Change(v))
             \/ (\E c \in sent : Keep(c))
  <2>1. UNCHANGED <<vars, keyVars>>
    BY <1>4 DEF LoadForm, Change, Keep
  <2> QED
    BY <2>1, Unmoved DEF vars, keyVars, SavesInv, Types
<1>5. CASE UNCHANGED settingsVars
  BY <1>5, Unmoved DEF settingsVars, vars, keyVars, SavesInv, Types
<1>6. CASE Requests
  <2>1. UNCHANGED <<confVars, keyVars>>
    BY <1>6, RequestsOnly
  <2> QED
    BY <2>1, Unmoved DEF confVars, keyVars, SavesInv, Types
<1> QED
  BY <1>1, <1>2, <1>3, <1>4, <1>5, <1>6 DEF SettingsNext

LEMMA KeysInit == ASSUME SettingsInit PROVE SavesInv
<1>1. /\ row = [p \in Provider |-> "none"] /\ vault = {}
      /\ default = NoProvider /\ lost = FALSE /\ picked \in Kind
      /\ kind = [p \in Provider |-> NoKind]
      /\ keyFor = [p \in Provider |-> NoKind]
      /\ save = [s \in Save |-> Idle]
  BY DEF SettingsInit, Init
<1>2. Idle \in SaveRec /\ Idle.pc = "idle"
  BY DEF Idle, SaveRec, Steps
<1>3. Types
  BY <1>1, <1>2 DEF Types
<1>4. Aimed /\ KeysFit /\ DefaultServed /\ DefaultMade
  BY <1>1, <1>2 DEF Aimed, KeysFit, DefaultServed, DefaultMade
<1> QED
  BY <1>3, <1>4 DEF SavesInv

(* The invariant of the saves: each works on a row of its kind that it     *)
(* found or made enabled, every key fits its row, and the default provider *)
(* has a key or a save that is about to store it.                          *)
THEOREM SavesInvariance == SettingsSpec => []SavesInv
BY KeysInit, KeysStep, PTL DEF SettingsSpec

(* A key that the page reported saved can be used once nothing is in       *)
(* progress, however saves overlapped and whatever calls failed, unless a  *)
(* key could not be kept (SettingsPage, saveApiKey).                       *)
THEOREM SavedKeysAreUsable == SettingsSpec => []SavedIsUsable
<1>1. ASSUME SavesInv PROVE SavedIsUsable
  <2> SUFFICES ASSUME NEW s \in Save, Does(s, "saved"), Pending = {}, ~lost
               PROVE  Configured /\ keyFor[default] = kind[default]
    BY DEF SavedIsUsable
  <2>1. default # NoProvider
    BY <1>1 DEF SavesInv, DefaultMade, Does
  <2>2. \A t \in Save : save[t].pc # "store"
    BY DEF Pending
  <2>3. row[default] = "on" /\ default \in vault
    BY <1>1, <2>1, <2>2 DEF SavesInv, DefaultServed
  <2> QED
    BY <1>1, <2>1, <2>3 DEF SavesInv, KeysFit, Configured, Enabled
<1> QED
  BY <1>1, SavesInvariance, PTL

(* Every step of the page is a step AiRequest allows for, or none of its   *)
(* business: what holds of requests under any edits holds under this page. *)
THEOREM PageEditsProviders == SettingsSpec => EditsProviders
<1>1. SettingsInit => Init
  BY DEF SettingsInit
<1>2. ASSUME SavesInv, [SettingsNext]_settingsVars PROVE [Next]_vars
  <2>1. CASE LeaveDisabled
    BY <2>1 DEF LeaveDisabled, Next, UpsertProvider, requestVars
  <2>2. ASSUME NEW s \in Save, CreateProvider(s) PROVE [Next]_vars
    BY <2>2 DEF CreateProvider, Next, UpsertProvider, requestVars
  <2>3. ASSUME NEW s \in Save, EnableProvider(s) PROVE [Next]_vars
    <3>1. save[s].p \in Provider
      BY <1>2, <2>3 DEF SavesInv, Aimed, Row, EnableProvider, Does
    <3> QED
      BY <2>3, <3>1 DEF EnableProvider, Next, UpsertProvider, requestVars
  <2>4. ASSUME NEW s \in Save, MakeDefault(s) PROVE [Next]_vars
    <3>1. save[s].p \in Provider /\ row[save[s].p] # "none"
      BY <1>2, <2>4 DEF SavesInv, Aimed, MakeDefault, Does
    <3> QED
      BY <2>4, <3>1 DEF MakeDefault, Next, SetDefault, requestVars
  <2>5. ASSUME NEW s \in Save, StoreKey(s) PROVE [Next]_vars
    <3>1. save[s].p \in Provider /\ row[save[s].p] # "none"
      BY <1>2, <2>5 DEF SavesInv, Aimed, StoreKey, Does
    <3> QED
      BY <2>5, <3>1 DEF StoreKey, Next, SetSecret, requestVars
  <2>6. ASSUME NEW s \in Save,
               Press(s) \/ ListProviders(s) \/ CallFails(s) \/ StoreFails(s)
                 \/ VerifyKey(s)
        PROVE  UNCHANGED vars
    BY <2>6 DEF Press, ListProviders, CallFails, StoreFails, VerifyKey
  <2>7. CASE SelectKind \/ LoadForm \/ (\E v \in Value : Change(v))
             \/ (\E c \in sent : Keep(c)) \/ UNCHANGED settingsVars
    BY <2>7 DEF SelectKind, LoadForm, Change, Keep, settingsVars
  <2>8. CASE Requests
    BY <2>8 DEF Requests, Next
  <2> QED
    BY <1>2, <2>1, <2>2, <2>3, <2>4, <2>5, <2>6, <2>7, <2>8
       DEF SettingsNext, Saves
<1> QED
  BY <1>1, <1>2, SavesInvariance, PTL
     DEF SettingsSpec, EditsProviders, Spec

-----------------------------------------------------------------------------
(* The form.                                                               *)

(* While nothing is amiss, the table has what the form shows, or the one   *)
(* change on its way has.                                                  *)
FormInv ==
  /\ form = [value |-> form.value, loaded |-> form.loaded]
  /\ ~form.loaded => sent = {}
  /\ form.loaded /\ ~amiss =>
       \/ sent = {} /\ form.value = field
       \/ \E c \in sent : sent = {c} /\ c.value = form.value

LEMMA FormInit == ASSUME SettingsInit PROVE FormInv
BY DEF SettingsInit, FormInv

LEMMA LoadStep == ASSUME FormInv, LoadForm PROVE FormInv'
<1>1. sent = {} /\ sent' = {} /\ field' = field
  BY DEF FormInv, LoadForm
<1>2. CASE form' = [value |-> field, loaded |-> TRUE]
  BY <1>1, <1>2 DEF FormInv
<1>3. CASE form' = [form EXCEPT !.loaded = TRUE] /\ amiss' = TRUE
  <2>1. form' = [value |-> form.value, loaded |-> TRUE]
    BY <1>3 DEF FormInv
  <2> QED
    BY <1>1, <1>3, <2>1 DEF FormInv
<1> QED
  BY <1>2, <1>3 DEF LoadForm

LEMMA ChangeStep ==
  ASSUME FormInv, NEW v \in Value, Change(v) PROVE FormInv'
<1> DEFINE c == [n |-> edits, value |-> v]
<1>1. form' = [value |-> v, loaded |-> TRUE]
  BY DEF FormInv, Change
<1>2. /\ c.value = v /\ sent' = sent \cup {c}
      /\ amiss' = (amiss \/ sent # {})
  BY DEF Change
<1> HIDE DEF c
<1> QED
  BY <1>1, <1>2 DEF FormInv

LEMMA KeepStep == ASSUME FormInv, NEW c \in sent, Keep(c) PROVE FormInv'
BY DEF FormInv, Keep

LEMMA FormStep ==
  ASSUME FormInv, [SettingsNext]_settingsVars PROVE FormInv'
<1>1. CASE LoadForm
  BY <1>1, LoadStep
<1>2. ASSUME NEW v \in Value, Change(v) PROVE FormInv'
  BY <1>2, ChangeStep
<1>3. ASSUME NEW c \in sent, Keep(c) PROVE FormInv'
  BY <1>3, KeepStep
<1>4. CASE LeaveDisabled \/ SelectKind \/ (\E s \in Save : Saves(s))
             \/ UNCHANGED settingsVars
  <2>1. UNCHANGED formVars
    BY <1>4 DEF LeaveDisabled, SelectKind, Saves, Press, ListProviders,
       CallFails, CreateProvider, EnableProvider, MakeDefault, StoreKey,
       StoreFails, VerifyKey, settingsVars
  <2> QED
    BY <2>1 DEF formVars, FormInv
<1>5. CASE Requests
  <2>1. UNCHANGED formVars
    BY <1>5, RequestsOnly
  <2> QED
    BY <2>1 DEF formVars, FormInv
<1> QED
  BY <1>1, <1>2, <1>3, <1>4, <1>5 DEF SettingsNext

(* A change that met no other and did not fail is what the table holds     *)
(* once it was answered, although it is shown before it is sent and        *)
(* loading takes time (SettingsPage, save).                                *)
THEOREM ShownChangesKept == SettingsSpec => []ShownIsKept
<1>1. FormInv => ShownIsKept
  BY DEF FormInv, ShownIsKept
<1> QED
  BY <1>1, FormInit, FormStep, PTL DEF SettingsSpec

(* What is kept and spent by requests keeps its bounds while keys are      *)
(* saved on the page between any of their steps, because the page only     *)
(* does what AiRequest allows.                                             *)
THEOREM RequestsUnderPage ==
  SettingsSpec => [](OnlyValidCached /\ OverspendBounded)
<1>1. SettingsSpec => Spec
  BY PageEditsProviders DEF EditsProviders
<1> QED
  BY <1>1, CacheIsValid, LimitsHold, PTL
=============================================================================
