------------------------------ MODULE Contracts ------------------------------
(***************************************************************************)
(* What pages let their user send and what the schemas of ipc/contracts.ts *)
(* admit: numbers, texts, ids, languages, models and kinds of provider.  A *)
(* call that is not admitted answers with an error and changes nothing.    *)
(* No state; the calls are in Lectures, Settings and ModelDownload.        *)
(***************************************************************************)
EXTENDS Integers, Sequences

LOCAL INSTANCE Providers

Unbounded == 2147483647
Between(lo, hi) == [lo |-> lo, hi |-> hi]
In(range, n) == range.lo <= n /\ n <= range.hi

-----------------------------------------------------------------------------
(* The numbers of the settings.  A field that was emptied is parsed as NaN.*)
NotANumber == [known |-> FALSE, value |-> 0]
ParseInt(typed) == IF typed = <<>> THEN NotANumber
                   ELSE [known |-> TRUE, value |-> typed[1]]

Limits == {"dailyTokenLimit", "monthlyTokenLimit", "dailyCostLimitCents",
           "monthlyCostLimitCents"}
NumberField == {"audioRetentionDays"} \cup Limits

(* SettingsSetSchema, and the min and max of the fields of the form, which *)
(* do not keep another number from being typed and sent.                   *)
Allowed == [f \in NumberField |-> IF f \in Limits THEN Between(0, Unbounded)
                                  ELSE Between(1, 3650)]
FieldRange == [f \in NumberField |->
                 IF f \in Limits THEN Between(-Unbounded, Unbounded)
                 ELSE Between(1, 3650)]
AdmitsSetting(f, sent) == sent.known /\ In(Allowed[f], sent.value)

(* The row the first access creates, and what the form shows without one.  *)
DefaultSettings ==
  [audioRetentionDays |-> 90,
   dailyTokenLimit |-> 50000, monthlyTokenLimit |-> 500000,
   dailyCostLimitCents |-> 500, monthlyCostLimitCents |-> 5000]
ShownLimits ==
  [dailyTokenLimit |-> 50000, monthlyTokenLimit |-> 500000,
   dailyCostLimitCents |-> 500, monthlyCostLimitCents |-> 5000]
ShownRetention == 90

-----------------------------------------------------------------------------
(* Lengths of texts, as they may be typed and as they are admitted: of the *)
(* title in NewLecturePage, an edited segment, a key, a chat message.      *)
Title   == [typed |-> Between(2, 200), admitted |-> Between(1, 255)]
Edit    == [typed |-> Between(0, Unbounded), admitted |-> Between(0, 10000)]
Key     == [typed |-> Between(1, Unbounded),
            admitted |-> Between(1, Unbounded)]
Message == [typed |-> Between(1, Unbounded), admitted |-> Between(1, 4000)]

(* Ids of courses: those the database makes, those the form's own schema   *)
(* accepts, and the made-up ones that the form offers.                     *)
CourseOffered == {"none", "invented"}
CourseTyped   == {"none", "uuid"}
CourseAllowed == {"none", "cuid"}

(* Whisper models: those of the table, and ModelDownloadStartSchema.       *)
Models == {"tiny", "base", "small", "medium", "large-v3"}
ModelAllowed == {"tiny", "base", "small", "medium", "large-v2", "large-v3"}

(* The kinds of provider the settings offer, and which need no key.        *)
KindOffered == {"openai", "azure", "gemini", "ollama", "lmstudio"}
AsksForKey(kind) == kind \notin {"ollama", "lmstudio"}

-----------------------------------------------------------------------------
(* Languages.  A tag is a sequence of characters.                          *)
LowerCase == [f |-> "f", F |-> "f", a |-> "a", A |-> "a"]
IsLetter(c) == c \in DOMAIN LowerCase
Space == " "
Tags == UNION {[1 .. n -> DOMAIN LowerCase \cup {Space, "-"}] : n \in 0 .. 4}

Trimmed(tag) ==
  LET kept == {i \in DOMAIN tag : tag[i] # Space}
      ends == {i \in kept : \A j \in kept : i <= j}
      last == {i \in kept : \A j \in kept : i >= j}
  IN  IF kept = {} THEN <<>>
      ELSE SubSeq(tag, CHOOSE i \in ends : TRUE, CHOOSE i \in last : TRUE)
Slice(n, tag) == SubSeq(tag, 1, IF Len(tag) < n THEN Len(tag) ELSE n)

English == <<"e", "n">>
NormalizeLanguageCode(tag) ==
  LET code == Slice(2, Trimmed(tag))
  IN  IF Len(code) = 2 /\ \A i \in 1 .. 2 : IsLetter(code[i])
      THEN [i \in 1 .. 2 |-> LowerCase[code[i]]] ELSE English
(* RecordingStartSchema and LectureCreateSchema *)
AdmitsLanguage(code) == Len(code) = 2

(* The locale of the pages: kept, else the navigator's, else German.       *)
Supported == {<<"d", "e">>, <<"e", "n">>, <<"f", "r">>, <<"f", "a">>}
DefaultLocale == <<"d", "e">>
DetectInitialLocale(navigator) ==
  IF Slice(2, navigator) \in Supported THEN Slice(2, navigator)
  ELSE DefaultLocale
PersistedLocale(stored, navigator) ==
  IF stored \in Supported THEN stored ELSE DetectInitialLocale(navigator)

-----------------------------------------------------------------------------
(* A number is kept exactly if it is within the bounds its field shows and *)
(* no limit below zero; an emptied field is never kept.                    *)
ASSUME OnlyBelowZeroRefused ==
  \A f \in NumberField : \A n \in {-1, 0, 1, 2, 3649, 3650, 3651} :
    /\ AdmitsSetting(f, ParseInt(<<n>>))
         <=> In(FieldRange[f], n) /\ ~(f \in Limits /\ n < 0)
    /\ ~AdmitsSetting(f, ParseInt(<<>>))

(* What the form shows before there is a row is what the row will hold,    *)
(* and may be sent back.                                                   *)
ASSUME DefaultsAreShown ==
  /\ \A f \in Limits : ShownLimits[f] = DefaultSettings[f]
  /\ ShownRetention = DefaultSettings["audioRetentionDays"]
  /\ \A f \in NumberField : AdmitsSetting(f, ParseInt(<<DefaultSettings[f]>>))

(* Every title and every key that can be typed is admitted; messages and   *)
(* edits, which nothing limits, are refused when they are too long.        *)
ASSUME TitlesFit ==
  \A n \in {0, 1, 2, 3, 199, 200, 201, 4000, 4001, 10000, 10001} :
    /\ \A text \in {Title, Key} : In(text.typed, n) => In(text.admitted, n)
    /\ \A text \in {Message, Edit} :
         In(text.typed, n) => (In(text.admitted, n) <=> n <= text.admitted.hi)

(* No lecture is ever created with a course: what the form offers its own  *)
(* schema refuses, and what that accepts the handler would.                *)
ASSUME NoCourseIsChosen ==
  /\ CourseOffered \cap CourseTyped = {"none"}
  /\ CourseTyped \cap CourseAllowed = {"none"}

(* Whatever is listed can be asked for: models downloaded, providers kept, *)
(* with a model for each tier; a key is asked for unless none is needed.   *)
ASSUME ListedIsAdmitted ==
  /\ Models \subseteq ModelAllowed
  /\ KindOffered \subseteq ProviderType
  /\ \A kind \in KindOffered : /\ \A t \in Tier : DefaultModel[kind][t] # ""
                               /\ AsksForKey(kind) <=> kind \notin Keyless

(* "Locale tags like fa-IR are intentionally reduced to fa": whatever the  *)
(* language is, its code is admitted, and the code of a code is itself.    *)
ASSUME LanguagesAdmitted ==
  \A tag \in Tags :
    LET code == NormalizeLanguageCode(tag)
    IN  /\ AdmitsLanguage(code)
        /\ code = English \/ \A i \in 1 .. 2 : code[i] \in {"f", "a"}
        /\ code # English => NormalizeLanguageCode(code) = code

(* The pages are always in a language they have texts for, and it is the   *)
(* kept one if there is a kept one; the recorder is given its code.        *)
ASSUME LocaleIsSupported ==
  \A tag \in Tags : \A stored \in Supported \cup {<<>>, <<"x", "y">>} :
    LET locale == PersistedLocale(stored, tag)
    IN  /\ locale \in Supported
        /\ stored \in Supported => locale = stored
        /\ stored \notin Supported /\ Slice(2, tag) \notin Supported
             => locale = DefaultLocale
=============================================================================
