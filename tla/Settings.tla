------------------------------ MODULE Settings ------------------------------
(***************************************************************************)
(* The settings page (web/SettingsPage.tsx) over the providers, keys and   *)
(* settings that AiRequest reads: saving an API key, which takes up to     *)
(* five calls of the main process, and the form that sends every change    *)
(* at once.  Meanwhile requests are made.                                  *)
(*                                                                         *)
(* Save Key stays enabled while a key is being saved, so saves overlap;    *)
(* each works with what the page showed when it was pressed.               *)
(***************************************************************************)
EXTENDS AiRequest, TLC

CONSTANTS
  Kind, NoKind, \* types of providers that need a key
  Save,         \* bound: presses of Save Key
  Value,        \* what a field of the form may hold
  MaxEdits      \* bound: changes of the field

(* Rows are numbered in the order in which they are created.               *)
ASSUME SettingsAssumption ==
  /\ Provider \subseteq Nat
  /\ NoKind \notin Kind
  /\ MaxEdits \in Nat

VARIABLES
  kind,    \* AiProvider.providerType of each row
  keyFor,  \* history: the kind that was selected for the key of a row
  picked,  \* the kind selected on the page
  save,    \* per press: step, kind selected then, row
  lost,    \* history: a key could not be kept, or the vault not be read
  form,    \* the field as the page shows it, and whether it is loaded
  field,   \* the field in the Settings table
  sent,    \* changes on their way to the table
  edits,
  amiss    \* history: a change failed or met another, or loading failed

keyVars == <<kind, keyFor, picked, save, lost>>
formVars == <<form, field, sent, edits, amiss>>
requestVars == <<used, cache, req, days>>
settingsVars == <<vars, keyVars, formVars>>

Idle == [pc |-> "idle", kind |-> NoKind, p |-> NoProvider]

SettingsInit ==
  /\ Init
  /\ kind = [p \in Provider |-> NoKind]
  /\ keyFor = [p \in Provider |-> NoKind]
  /\ picked \in Kind
  /\ save = [s \in Save |-> Idle]
  /\ lost = FALSE
  /\ form \in [value : Value, loaded : {FALSE}]
  /\ field \in Value
  /\ sent = {} /\ edits = 0 /\ amiss = FALSE

Row == {p \in Provider : row[p] # "none"}
First(p, s) == p \in s /\ \A q \in s : p <= q

Does(s, pc) == save[s].pc = pc
Proceed(s, pc) == save' = [save EXCEPT ![s].pc = pc]
ProceedWith(s, pc, p) == save' = [save EXCEPT ![s].pc = pc, ![s].p = p]
Pending == {s \in Save : save[s].pc \notin {"idle", "saved", "failed"}}

-----------------------------------------------------------------------------
(* Saving a key.                                                           *)

(* providers.upsert, which the preload script offers and this page never   *)
(* calls so, leaves a provider disabled.                                   *)
LeaveDisabled ==
  /\ Row = {} /\ \A s \in Save : Does(s, "idle")
  /\ \E p \in Provider, k \in Kind :
       /\ First(p, Provider)
       /\ row' = [row EXCEPT ![p] = "off"]
       /\ kind' = [kind EXCEPT ![p] = k]
  /\ UNCHANGED <<vault, default, requestVars, formVars, keyFor, picked, save,
                 lost>>

SelectKind ==
  /\ \E k \in Kind \ {picked} : picked' = k
  /\ UNCHANGED <<vars, formVars, kind, keyFor, save, lost>>

Press(s) ==
  /\ Does(s, "idle")
  /\ save' = [save EXCEPT ![s] = [Idle EXCEPT !.pc = "list",
                                             !.kind = picked]]
  /\ UNCHANGED <<vars, formVars, kind, keyFor, picked, lost>>

Matching(s) == {p \in Row : kind[p] = save[s].kind}

(* Variant: a matching provider is used as it is.                          *)
ListProvidersAnyState(s) ==
  /\ Does(s, "list")
  /\ \/ \E p \in Matching(s) : /\ First(p, Matching(s))
                                /\ ProceedWith(s, "default", p)
     \/ Proceed(s, "create")
  /\ UNCHANGED <<vars, formVars, kind, keyFor, picked, lost>>

(* The oldest provider of the kind, or none; a call that fails finds none. *)
ListProviders(s) ==
  /\ Does(s, "list")
  /\ \/ \E p \in Matching(s) :
          /\ First(p, Matching(s))
          /\ ProceedWith(s, IF Enabled(p) THEN "default" ELSE "enable", p)
     \/ Proceed(s, "create")
  /\ UNCHANGED <<vars, formVars, kind, keyFor, picked, lost>>

(* Any of the calls may fail, with a message that ends the save.           *)
CallFails(s) ==
  /\ save[s].pc \in {"create", "enable", "default"}
  /\ Proceed(s, "failed")
  /\ UNCHANGED <<vars, formVars, kind, keyFor, picked, lost>>

CreateProvider(s) ==
  /\ Does(s, "create")
  /\ \E p \in Provider :
       /\ First(p, Provider \ Row)
       /\ row' = [row EXCEPT ![p] = "on"]
       /\ kind' = [kind EXCEPT ![p] = save[s].kind]
       /\ ProceedWith(s, "default", p)
  /\ UNCHANGED <<vault, default, requestVars, formVars, keyFor, picked, lost>>

EnableProvider(s) ==
  /\ Does(s, "enable")
  /\ row' = [row EXCEPT ![save[s].p] = "on"]
  /\ Proceed(s, "default")
  /\ UNCHANGED <<vault, default, requestVars, formVars, kind, keyFor, picked,
                 lost>>

MakeDefault(s) ==
  /\ Does(s, "default")
  /\ default' = save[s].p
  /\ Proceed(s, "store")
  /\ UNCHANGED <<row, vault, requestVars, formVars, kind, keyFor, picked,
                 lost>>

(* Variant: the key is stored before a provider is made for it.            *)
StoreKeyFirst(s) ==
  /\ save[s].pc \in {"create", "store"}
  /\ \E p \in Provider :
       /\ IF Does(s, "create") THEN p \notin Row ELSE p = save[s].p
       /\ vault' = vault \cup {p}
       /\ keyFor' = [keyFor EXCEPT ![p] = save[s].kind]
       /\ ProceedWith(s, "verify", p)
  /\ UNCHANGED <<row, default, requestVars, formVars, kind, picked, lost>>

(* setSecret, whose loadVault may find nothing.                            *)
StoreKey(s) ==
  /\ Does(s, "store")
  /\ \E v \in Loaded :
       /\ vault' = v \cup {save[s].p}
       /\ lost' = (lost \/ v # vault)
  /\ keyFor' = [keyFor EXCEPT ![save[s].p] = save[s].kind]
  /\ Proceed(s, "verify")
  /\ UNCHANGED <<row, default, requestVars, formVars, kind, picked>>

(* No encryption: the provider stays the default without a key.            *)
StoreFails(s) ==
  /\ Does(s, "store")
  /\ lost' = TRUE
  /\ Proceed(s, "failed")
  /\ UNCHANGED <<vars, formVars, kind, keyFor, picked>>

(* hasSecret: "Key saved securely", or that it was not persisted.          *)
VerifyKey(s) ==
  /\ Does(s, "verify")
  /\ \E v \in Loaded :
       Proceed(s, IF save[s].p \in v THEN "saved" ELSE "failed")
  /\ UNCHANGED <<vars, formVars, kind, keyFor, picked, lost>>

-----------------------------------------------------------------------------
(* The form.                                                               *)

(* getSettings, or an error that leaves the page with its own values.      *)
LoadForm ==
  /\ ~form.loaded
  /\ \/ form' = [value |-> field, loaded |-> TRUE] /\ UNCHANGED amiss
     \/ form' = [form EXCEPT !.loaded = TRUE] /\ amiss' = TRUE
  /\ UNCHANGED <<vars, keyVars, field, sent, edits>>

(* Variant: the form can be used while its values are on their way.        *)
ChangeEarly(v) ==
  /\ edits < MaxEdits /\ v # form.value
  /\ edits' = edits + 1
  /\ form' = [form EXCEPT !.value = v]
  /\ sent' = sent \cup {[n |-> edits, value |-> v]}
  /\ amiss' = (amiss \/ sent # {})
  /\ UNCHANGED <<vars, keyVars, field>>

(* Every change is shown and sent at once, and said to be saved whatever   *)
(* the answer is.                                                          *)
Change(v) ==
  /\ form.loaded
  /\ edits < MaxEdits /\ v # form.value
  /\ edits' = edits + 1
  /\ form' = [form EXCEPT !.value = v]
  /\ sent' = sent \cup {[n |-> edits, value |-> v]}
  /\ amiss' = (amiss \/ sent # {})
  /\ UNCHANGED <<vars, keyVars, field>>

(* SETTINGS_SET: refused by its schema or an error, or kept.               *)
Keep(c) ==
  /\ sent' = sent \ {c}
  /\ \/ field' = c.value /\ UNCHANGED amiss
     \/ amiss' = TRUE /\ UNCHANGED field
  /\ UNCHANGED <<vars, keyVars, form, edits>>

-----------------------------------------------------------------------------
Saves(s) ==
  \/ Press(s) \/ ListProviders(s) \/ CallFails(s) \/ CreateProvider(s)
  \/ EnableProvider(s) \/ MakeDefault(s) \/ StoreKey(s) \/ StoreFails(s)
  \/ VerifyKey(s)

(* Requests of other pages, which the page knows nothing of.               *)
Requests ==
  /\ (\E r \in Caller : Ask(r) \/ Serves(r)) \/ NewDay
  /\ UNCHANGED <<keyVars, formVars>>

SettingsNext ==
  \/ Requests
  \/ LeaveDisabled \/ SelectKind
  \/ \E s \in Save : Saves(s)
  \/ LoadForm
  \/ \E v \in Value : Change(v)
  \/ \E c \in sent : Keep(c)

SettingsSpec == SettingsInit /\ [][SettingsNext]_settingsVars

-----------------------------------------------------------------------------
(* "Auto-create the provider record if it doesn't exist yet so the user    *)
(* can save a key without having to manually configure providers first":   *)
(* once a key was reported saved, and nothing is in progress, requests can *)
(* be made, with a key that was entered for the kind of the default        *)
(* provider.  Overlapping saves, duplicate providers and failed calls do   *)
(* not matter, as long as no key that was accepted got lost.               *)
SavedIsUsable ==
  (\E s \in Save : Does(s, "saved")) /\ Pending = {} /\ ~lost =>
    /\ Configured
    /\ keyFor[default] = kind[default]

(* Saving keys is one of the ways of editing that AiRequest allows for, so *)
(* what is shown there of requests holds while this page is used.          *)
EditsProviders == Spec

(* A change that met no other and did not fail is what the table holds,    *)
(* although it was shown before it was sent and loading takes time.        *)
ShownIsKept ==
  form.loaded /\ sent = {} /\ ~amiss => form.value = field

-----------------------------------------------------------------------------
(* Presses, kinds and values are alike.                                    *)
Alike == Permutations(Save) \cup Permutations(Kind) \cup Permutations(Value)
=============================================================================
