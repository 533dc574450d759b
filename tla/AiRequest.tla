----------------------------- MODULE AiRequest ------------------------------
(***************************************************************************)
(* Requests to an AI provider: the guard of the IPC handlers, the choice   *)
(* of the provider, and aiRequest with its usage limits, its response      *)
(* cache, its one repair call and its usage events                         *)
(* (services/aiProviders.ts), while providers, keys and settings are being *)
(* edited (services/secrets.ts, services/settings.ts, ipc/handlers.ts).    *)
(*                                                                         *)
(* Any number of handlers run at once and interleave at every await.  What *)
(* the kinds of provider are asked and how they answer is Providers.       *)
(***************************************************************************)
EXTENDS Providers, FiniteSets

CONSTANTS
  Caller,      \* handlers that may be in progress together
  Provider, NoProvider,
  Local, Azure, Gemini, \* providers of these types, the others OpenAI's
  Structured,  \* prompts whose answer must match a schema
  Chat,        \* prompts whose answer is plain text
  Estimate,    \* tokens checkLimits expects of a request
  PerCall,     \* bound: tokens one call of the provider uses
  DayLimit, MonthLimit, \* token limits of the settings; there are some
  MaxDays      \* bound: how often a day ends

Window == {"day", "month"}
Prompt == Structured \cup Chat
KindOf(p) == CASE p \in Local -> "ollama" [] p \in Azure -> "azure"
               [] p \in Gemini -> "gemini" [] OTHER -> "openai"
Limit == [w \in Window |-> IF w = "day" THEN DayLimit ELSE MonthLimit]

ASSUME AiRequestAssumption ==
  /\ IsFiniteSet(Caller)
  /\ NoProvider \notin Provider
  /\ Local \cup Azure \cup Gemini \subseteq Provider
  /\ Prompt # {} /\ Structured \cap Chat = {}
  /\ Estimate \in Nat /\ PerCall \in Nat /\ MaxDays \in Nat
  /\ DayLimit \in Nat \ {0} /\ MonthLimit \in Nat \ {0}
  /\ Estimate <= DayLimit /\ Estimate <= MonthLimit

VARIABLES
  row,     \* the AiProvider rows: none, off, on
  vault,   \* the providers whose key is in the secrets vault
  default, \* Settings.defaultAiProvider
  used,    \* tokens of the AiUsageEvent rows of the day and of the month
  cache,   \* AiRequestCache by provider and prompt: none, valid, text,
           \* empty or invalid, and whether it has expired
  req,     \* per caller: step, prompt, provider, key read, answer, calls
  days

vars == <<row, vault, default, used, cache, req, days>>
confVars == <<row, vault, default>>

Quiet == [pc |-> "idle", prompt |-> CHOOSE q \in Prompt : TRUE,
          p |-> NoProvider, key |-> FALSE, answer |-> "none", calls |-> 0]
NoEntry == [answer |-> "none", expired |-> FALSE]

Init ==
  /\ row = [p \in Provider |-> "none"]
  /\ vault = {}
  /\ default = NoProvider
  /\ used = [w \in Window |-> 0]
  /\ cache = [e \in Provider \X Prompt |-> NoEntry]
  /\ req = [r \in Caller |-> Quiet]
  /\ days = 0

At(r, pc) == req[r].pc = pc
Goto(r, pc) == req' = [req EXCEPT ![r].pc = pc]
(* The handler answers, with a result, an error or a local substitute.     *)
Return(r) == req' = [req EXCEPT ![r] = Quiet]

-----------------------------------------------------------------------------
(* Editing providers, keys and the default.                                *)

UpsertProvider(p) ==
  /\ \E s \in {"off", "on"} : row' = [row EXCEPT ![p] = s]
  /\ UNCHANGED <<vault, default, used, cache, req, days>>

(* loadVault: a file that cannot be read is taken for an empty one.        *)
Loaded == {vault, {}}

(* setSecret, deleteSecret: load, change and save in one stretch.          *)
SetSecret(p) ==
  /\ row[p] # "none"
  /\ \E v \in Loaded : vault' = v \cup {p}
  /\ UNCHANGED <<row, default, used, cache, req, days>>

(* PROVIDER_DELETE: the key first, the row after it.                       *)
DeleteKey(p) ==
  /\ row[p] # "none"
  /\ \E v \in Loaded : vault' = v \ {p}
  /\ UNCHANGED <<row, default, used, cache, req, days>>

DeleteProvider(p) ==
  /\ row[p] # "none" /\ p \notin vault
  /\ row' = [row EXCEPT ![p] = "none"]
  /\ UNCHANGED <<vault, default, used, cache, req, days>>

(* SETTINGS_SET; a deleted provider stays the default.                     *)
SetDefault ==
  /\ \E p \in Provider \cup {NoProvider} :
       /\ p # NoProvider => row[p] # "none"
       /\ default' = p
  /\ UNCHANGED <<row, vault, used, cache, req, days>>

-----------------------------------------------------------------------------
(* The handlers.                                                           *)

Ask(r) ==
  /\ At(r, "idle")
  /\ \E q \in Prompt : req' = [req EXCEPT ![r] = [Quiet EXCEPT !.pc = "guard",
                                                              !.prompt = q]]
  /\ UNCHANGED <<confVars, used, cache, days>>

Enabled(p) == p # NoProvider /\ row[p] = "on"

(* isAiConfigured: the default provider, or any that is enabled and has a  *)
(* key.                                                                    *)
Configured ==
  IF default # NoProvider THEN Enabled(default) /\ default \in vault
  ELSE \E p \in Provider : Enabled(p) /\ p \in vault

Guard(r) ==
  /\ At(r, "guard")
  /\ IF Configured THEN Goto(r, "choose") ELSE Return(r)
  /\ UNCHANGED <<confVars, used, cache, days>>

(* getDefaultProvider: the setting, else any enabled one, else none, which *)
(* is the local mode.  It does not look at keys.                           *)
Choose(r) ==
  /\ At(r, "choose")
  /\ IF default # NoProvider
     THEN req' = [req EXCEPT ![r].pc = "load", ![r].p = default]
     ELSE \/ \E p \in Provider :
               /\ Enabled(p)
               /\ req' = [req EXCEPT ![r].pc = "load", ![r].p = p]
          \/ (\A p \in Provider : ~Enabled(p)) /\ Return(r)
  /\ UNCHANGED <<confVars, used, cache, days>>

-----------------------------------------------------------------------------
(* aiRequest                                                               *)

LoadProvider(r) ==
  /\ At(r, "load")
  /\ IF row[req[r].p] = "none" THEN Return(r) ELSE Goto(r, "limits")
  /\ UNCHANGED <<confVars, used, cache, days>>

(* Variant: only the daily sum is compared.                                *)
CheckLimitsDaily(r) ==
  /\ At(r, "limits")
  /\ IF used["day"] + Estimate > Limit["day"]
     THEN Return(r) ELSE Goto(r, "lookup")
  /\ UNCHANGED <<confVars, used, cache, days>>

(* checkLimits: what is recorded so far and the estimate of this request.  *)
CheckLimits(r) ==
  /\ At(r, "limits")
  /\ IF \E w \in Window : ~Admits(Limit[w], used[w], Estimate)
     THEN Return(r) ELSE Goto(r, "lookup")
  /\ UNCHANGED <<confVars, used, cache, days>>

(* requestHash: of the provider and the prompt; the system prompt and the  *)
(* schema are those of the operation, which the prompt stands for.         *)
Hash(r) == <<req[r].p, req[r].prompt>>

(* getCache; an empty text that was cached is taken for none.              *)
Lookup(r) ==
  /\ At(r, "lookup")
  /\ LET e == cache[Hash(r)]
     IN  Goto(r, IF e.expired THEN "drop"
                 ELSE IF e.answer \in {"none", "empty"} THEN "send" ELSE "hit")
  /\ UNCHANGED <<confVars, used, cache, days>>

(* The expired entry is deleted, or what another request stored since.     *)
DropExpired(r) ==
  /\ At(r, "drop")
  /\ cache' = [cache EXCEPT ![Hash(r)] = NoEntry]
  /\ Goto(r, "send")
  /\ UNCHANGED <<confVars, used, days>>

Spend(n) == used' = [w \in Window |-> used[w] + n]

(* A hit is counted with its tokens.  A plain text is no JSON: reading it  *)
(* from the cache throws before anything is counted.                       *)
Hit(r) ==
  /\ At(r, "hit")
  /\ IF req[r].prompt \in Chat THEN UNCHANGED used ELSE Spend(PerCall)
  /\ Return(r)
  /\ UNCHANGED <<confVars, cache, days>>

(* The key is read, unless the keychain refuses, and the request sent.     *)
Send(r) ==
  /\ At(r, "send")
  /\ \E k \in BOOLEAN :
       /\ k => req[r].p \in vault
       /\ req' = [req EXCEPT ![r].pc = "wait", ![r].key = k]
  /\ UNCHANGED <<confVars, used, cache, days>>

(* Error, timeout or a refused key end the request.                        *)
ProviderFails(r) ==
  /\ req[r].pc \in {"wait", "repair"}
  /\ Return(r)
  /\ UNCHANGED <<confVars, used, cache, days>>

Answered(r, a, n) ==
  req' = [req EXCEPT ![r].pc = "record", ![r].answer = a, ![r].calls = n]

Answers(r) == {"text", "empty"} \cap Readings(KindOf(req[r].p), req[r].key)
Repairs == {"openai", "openai-compat", "gemini"}

(* A text, were it empty, is taken as it is; a structured answer may fail  *)
(* its schema, and is asked for again from the kinds in Repairs.           *)
Answer(r) ==
  /\ At(r, "wait")
  /\ \/ /\ req[r].prompt \in Chat
        /\ \E a \in Answers(r) : Answered(r, a, 1)
     \/ /\ req[r].prompt \in Structured /\ "text" \in Answers(r)
        /\ Answered(r, "valid", 1)
     \/ /\ req[r].prompt \in Structured /\ Answers(r) # {}
        /\ IF KindOf(req[r].p) \in Repairs THEN Goto(r, "repair")
           ELSE Return(r)
  /\ UNCHANGED <<confVars, used, cache, days>>

(* Variant: whatever the repair returns is used.                           *)
RepairUnchecked(r) ==
  /\ At(r, "repair")
  /\ Answered(r, "valid", 2) \/ Answered(r, "invalid", 2)
  /\ UNCHANGED <<confVars, used, cache, days>>

(* The one repair call, with the key read before; what it returns is valid *)
(* or ends the request, and then neither call is counted.                  *)
Repair(r) ==
  /\ At(r, "repair")
  /\ Answered(r, "valid", 2) \/ Return(r)
  /\ UNCHANGED <<confVars, used, cache, days>>

(* The usage event; an error of that write is swallowed.                   *)
Record(r) ==
  /\ At(r, "record")
  /\ Spend(req[r].calls * PerCall) \/ UNCHANGED used
  /\ Goto(r, "store")
  /\ UNCHANGED <<confVars, cache, days>>

(* setCache: upsert, good for a day.                                       *)
Store(r) ==
  /\ At(r, "store")
  /\ cache' = [cache EXCEPT
       ![Hash(r)] = [answer |-> req[r].answer, expired |-> FALSE]]
  /\ Return(r)
  /\ UNCHANGED <<confVars, used, days>>

(* Midnight: the daily sum starts again and what was cached has expired.   *)
NewDay ==
  /\ days < MaxDays
  /\ days' = days + 1
  /\ used' = [used EXCEPT !["day"] = 0]
  /\ cache' = [e \in Provider \X Prompt |->
                 [cache[e] EXCEPT !.expired = @ \/ cache[e] # NoEntry]]
  /\ UNCHANGED <<confVars, req>>

-----------------------------------------------------------------------------
Serves(r) ==
  \/ Guard(r) \/ Choose(r) \/ LoadProvider(r) \/ CheckLimits(r) \/ Lookup(r)
  \/ DropExpired(r) \/ Hit(r) \/ Send(r) \/ ProviderFails(r) \/ Answer(r)
  \/ Repair(r) \/ Record(r) \/ Store(r)

Next ==
  \/ \E p \in Provider : \/ UpsertProvider(p) \/ SetSecret(p)
                         \/ DeleteKey(p) \/ DeleteProvider(p)
  \/ SetDefault
  \/ \E r \in Caller : Ask(r) \/ Serves(r)
  \/ NewDay

Spec == Init /\ [][Next]_vars

-----------------------------------------------------------------------------
Step == {"idle", "guard", "choose", "load", "limits", "lookup", "drop", "hit",
         "send", "wait", "repair", "record", "store"}
AnswerKept == {"none", "valid", "text", "empty", "invalid"}

(* Rows, sums, cache and requests are in their domains.                    *)
TypeOK ==
  /\ row \in [Provider -> {"none", "off", "on"}]
  /\ vault \subseteq Provider
  /\ default \in Provider \cup {NoProvider}
  /\ used \in [Window -> Nat]
  /\ cache \in [Provider \X Prompt ->
                  [answer : AnswerKept, expired : BOOLEAN]]
  /\ req \in [Caller -> [pc : Step, prompt : Prompt,
                         p : Provider \cup {NoProvider}, key : BOOLEAN,
                         answer : AnswerKept, calls : 0 .. 2]]
  /\ days \in 0 .. MaxDays

(* "Daily/monthly cost and token limit checks": they are made before the   *)
(* awaits and the usage is recorded after them, so requests in flight may  *)
(* pass the limit together, but never by more than what they can use.      *)
Overspend == Cardinality(Caller) * (2 * PerCall)
OverspendBounded ==
  \A w \in Window : used[w] + Estimate <= Limit[w] + Overspend

(* "All structured AI output validated with Zod": no answer that failed    *)
(* its schema is ever served from the cache, whoever stored it and when.   *)
OnlyValidCached ==
  \A e \in Provider \X Structured : cache[e].answer \in {"none", "valid"}
=============================================================================
