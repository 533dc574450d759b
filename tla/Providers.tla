------------------------------ MODULE Providers ------------------------------
(***************************************************************************)
(* What services/aiProviders.ts knows of the kinds of AI provider: the     *)
(* model a request names, the server it asks, how the three wire formats   *)
(* are read, and what a request is estimated to cost.  No state; the       *)
(* requests themselves are AiRequest.                                      *)
(***************************************************************************)
EXTENDS Naturals, Sequences

ProviderType == {"openai", "openai-compat", "azure", "gemini", "ollama",
                 "lmstudio"}
Tier == {"economy", "balanced", "quality"}

(* Kinds that answer whoever asks: no key of the vault is sent to them.    *)
Keyless == {"ollama", "lmstudio"}

-----------------------------------------------------------------------------
(* resolveModel.  "" is a tier that is not routed.                         *)
DefaultModel ==
  [k \in ProviderType |-> [t \in Tier |->
     CASE k \in {"openai", "azure"} ->
            IF t = "quality" THEN "gpt-4o" ELSE "gpt-4o-mini"
       [] k = "gemini" ->
            IF t = "quality" THEN "gemini-1.5-pro" ELSE "gemini-1.5-flash"
       [] k = "ollama" ->
            IF t = "quality" THEN "llama3.1:70b" ELSE "llama3.2"
       [] k = "lmstudio" -> "local-model"
       [] k = "openai-compat" ->
            IF t = "quality" THEN "gpt-4" ELSE "gpt-3.5-turbo"]]

ModelOf(routing, tier, kind) ==
  IF routing[tier] # "" THEN routing[tier] ELSE DefaultModel[kind][tier]

-----------------------------------------------------------------------------
(* estimateCost: cents for a million tokens, and the key of the table that *)
(* is found first in the model's name, which for gpt-4o-mini is gpt-4o.    *)
CostKeys == <<"gpt-4o", "gpt-4o-mini", "gpt-4-turbo", "gpt-3.5-turbo",
              "gemini-1.5-pro", "gemini-1.5-flash", "gemini-2.0-flash">>
Rate == [in  |-> <<250, 15, 1000, 50, 125, 7, 10>>,
         out |-> <<1000, 60, 3000, 150, 375, 30, 40>>]
DefaultRate == [in |-> 100, out |-> 300]

Includes(name, key) ==
  name = key \/ <<name, key>> = <<"gpt-4o-mini", "gpt-4o">>

RateOf(name) ==
  LET found == {i \in DOMAIN CostKeys : Includes(name, CostKeys[i])}
      first == CHOOSE i \in found : \A j \in found : i <= j
  IN  IF found = {} THEN DefaultRate
      ELSE [in |-> Rate.in[first], out |-> Rate.out[first]]

Million == 1000000
EstimatedCost(name, inTokens, outTokens) ==
  LET r == RateOf(name)
  IN  (inTokens * r.in + outTokens * r.out + Million - 1) \div Million

(* checkLimits compares with what is expected of the request; 0 is none.   *)
Admits(limit, used, estimate) == limit > 0 => used + estimate <= limit

(* USAGE_SUMMARY says that a limit is exceeded, always of one that is 0.   *)
Exceeded(limit, used) == used >= limit

-----------------------------------------------------------------------------
(* The server asked.  baseUrl "" is none; Azure has no server without one. *)
ServerOf(kind, baseUrl) ==
  IF baseUrl # "" THEN baseUrl
  ELSE CASE kind \in {"openai", "openai-compat"} -> "api.openai.com"
         [] kind = "ollama" -> "localhost:11434"
         [] kind = "lmstudio" -> "localhost:1234"
         [] kind = "azure" -> "no server"
         [] kind = "gemini" -> "googleapis.com"

(* The one testProviderConnection asks: for LM Studio it is Ollama's.      *)
TestServerOf(kind, baseUrl) ==
  IF kind = "lmstudio" THEN ServerOf("ollama", baseUrl)
  ELSE ServerOf(kind, baseUrl)

-----------------------------------------------------------------------------
(* What a server may answer: a status and a body that is a text, an empty  *)
(* text (or none where it is looked for), an error object or no JSON.      *)
Status == {200, 302, 400, 401, 402, 403, 404, 429, 500}
Reply == [status : Status, body : {"text", "empty", "error", "other"}]

(* The body, once the status is below 400.                                 *)
ReadBody(reply) == IF reply.body \in {"text", "empty"} THEN reply.body
                   ELSE "failed"

(* callOpenAI, also for compatible and local servers.                      *)
ReadOpenAI(reply) ==
  CASE reply.status = 401 -> "auth"
    [] reply.status = 429 -> "rate"
    [] reply.status = 402 -> "quota"
    [] reply.status >= 400 /\ reply.status \notin {401, 402, 429} -> "failed"
    [] OTHER -> ReadBody(reply)

(* callAzure *)
ReadAzure(reply) ==
  CASE reply.status = 401 -> "auth"
    [] reply.status = 429 -> "rate"
    [] reply.status >= 400 /\ reply.status \notin {401, 429} -> "failed"
    [] OTHER -> ReadBody(reply)

(* callGemini *)
ReadGemini(reply) ==
  CASE reply.status = 400 -> "invalid"
    [] reply.status \in {401, 403} -> "auth"
    [] reply.status = 429 -> "rate"
    [] reply.status >= 400 /\ reply.status \notin {400, 401, 403, 429}
         -> "failed"
    [] OTHER -> ReadBody(reply)

Read(kind, reply) == CASE kind = "azure"  -> ReadAzure(reply)
                       [] kind = "gemini" -> ReadGemini(reply)
                       [] OTHER -> ReadOpenAI(reply)

(* External: without its key a server that wants one refuses.              *)
Replies(kind, key) ==
  IF key \/ kind \in Keyless THEN Reply
  ELSE {reply \in Reply : reply.status \in {400, 401, 403}}

(* How a request may end, besides a network error or a timeout.            *)
Readings(kind, key) ==
  IF ServerOf(kind, "") = "no server" THEN {"failed"}
  ELSE {Read(kind, reply) : reply \in Replies(kind, key)}

-----------------------------------------------------------------------------
(* An answer, empty or not, is read only from a server that was willing;   *)
(* whatever the wire format, an error is never taken for an answer.        *)
ASSUME OnlyAnswersRead ==
  \A k \in ProviderType : \A reply \in Reply :
    Read(k, reply) \in {"text", "empty"} =>
      reply.status < 400 /\ reply.body = Read(k, reply)

(* A known model is never taken to be cheaper than it is, so that the cost *)
(* limits of checkLimits err on the safe side.                             *)
ASSUME NeverUnderestimated ==
  \A i \in DOMAIN CostKeys :
    \A inTokens, outTokens \in {0, 1, 999, 100000} :
      EstimatedCost(CostKeys[i], inTokens, outTokens) * Million
        >= inTokens * Rate.in[i] + outTokens * Rate.out[i]

(* A request that expects to use something is not admitted under a limit   *)
(* that is shown as exceeded.                                              *)
ASSUME ShownLimitsHold ==
  \A limit, estimate \in 1 .. 4 : \A used \in 0 .. 8 :
    Exceeded(limit, used) => ~Admits(limit, used, estimate)

(* The test asks the server the requests ask, except for LM Studio.        *)
ASSUME TestAsksTheServer ==
  \A k \in ProviderType \ {"lmstudio"} : \A u \in {"", "mine"} :
    TestServerOf(k, u) = ServerOf(k, u)
=============================================================================
