# Verification of MindFlow AI

TLA+ models of this repository: the desktop application that records lectures,
keeps them on the local machine, transcribes them with Whisper and asks AI
providers about them; the pages that drive it; and the services around it.
Twelve TLC runs check them on small instances, and TLAPS proves the theorems of
section 6 for every value of the constants.

Every definition that models code names its lines in the `map` of
`PROJECT.json`; `hazards` there lists what is hard to test in this code and the
properties that cover it.

1. The system
2. Modules
3. Correspondence with the code
4. Runs
5. Bounds and fairness
6. Proofs
7. Where the code and its texts disagree
8. What is not modelled

## 1. The system

`apps/desktop` is an Electron application: one main process with a SQLite
database (Prisma), files and child processes; a renderer that shows the pages of
`apps/web`; IPC calls between them. `services/*` are an HTTP API and two queue
workers meant for a server. They share `packages/*`.

| Component | State it keeps | Operations | Interacts through |
|---|---|---|---|
| Job queue (`services/jobQueue.ts`) | the `ProcessingJob` table | enqueue, claimNext, complete, fail, cancel, recoverStalledJobs, list | SQLite; called by recording, the worker, IPC handlers |
| Transcription worker (`services/whisperWorker.ts`) | two polling loops, abort controllers, temporary files | tick, liveTick, processTranscribeJob, cleanupChunk | job table, AudioChunk rows, chunk files, transcript, child processes, broadcasts |
| Recording (`services/recording.ts`) | RecordingSession and AudioChunk rows, chunk files, `<lectureId>.webm` | start, pause, resume, stop, saveChunk, finalize, recoverCrashedSessions | IPC from the recorder page; job table |
| Recorder page (`RecorderPage.tsx`) | MediaRecorder, two intervals, buffer, chunk index, session id | record, pause, resume, stop, rotate, flush, reset | `recording:*` calls |
| Whisper models (`services/whisperModels.ts`) | WhisperModel rows, model files, running downloads | ensureDefaults, startDownload, cancel, delete, getReadyModel | worker, model page, network |
| Database (`services/database.ts`) | database file, WAL, backup file, `_prisma_migrations` | migrate, back up, verify, restore, close | startup, quit |
| Lifecycle (`main.ts`) | windows, whether a failure was shown | startup sequence, failure window, activate, quit | all services |
| AI providers (`services/aiProviders.ts`) | provider rows, usage events, response cache | checkLimits, aiRequest, cache, repair, test, summary | learning engine, network |
| Secrets (`services/secrets.ts`) | one vault file | get, set, delete, has | providers, settings page |
| Settings (`services/settings.ts`, `SettingsPage.tsx`) | one settings row; the form | load, save a field, save a key | `settings:*`, `provider:*` |
| Learning (`services/learning.ts`) | summaries, flashcards, quizzes, chats, weak topics | generate*, reviewFlashcard, groundedChat, study plan | AI providers, tables |
| Chat page (`ChatPage.tsx`) | list shown, selected course, calls in flight | select, load history, send | `chat:*` |
| Transcript (`services/transcript.ts`) | TranscriptSegment rows, full-text index | bulkInsert, editSegment, getSegments, search | worker, lecture page, chat |
| Lectures (`services/courses.ts`, pages) | lectures, the lecture selected | create, list, open, edit, transcribe again, delete | `lectures:*`, `transcript:*` |
| Backup and export (`services/backup.ts`) | archive files | create, preview, restore, export | whole database |
| Preload, contracts, validation | schemas | admit or refuse a call | between pages and handlers |
| API (`services/api`) | users, uploads, lectures, courses, usage | guards, accounts, uploads, totals | HTTP |
| Transcription and AI workers (`services/*-worker`) | finished jobs in memory | process a message, retry, dead letter | queue |

What is hard in it:

* **Interleaving at awaits.** The main process is one thread, but two polling
  loops, any number of IPC handlers and timers interleave at every `await`, and
  most operations of several statements are not transactions. A React callback
  runs with the values of the render that made it.
* **Crashes.** The app may die between two statements or between a statement and
  a file operation; the next start repairs what it recognises.
* **Time.** Locks go stale after ten minutes, failures back off, a job is
  aborted after ten minutes, cached answers expire, usage is counted per day and
  month.
* **Answers out of order.** The pages have several calls on their way and use
  each answer when it arrives.
* **Two writers of one thing.** Live jobs and full passes write one index space
  of segments, rows and files; a second take writes the same file names.

What makes the parts correct is stated by the properties of section 4.

## 2. Modules

| Module | Models | Form |
|---|---|---|
| `JobTable` | the statements of `jobQueue.ts` on rows and on the table | operators |
| `JobQueue` | the queue by itself: callers, two loops, cancel, crash, restart, clock | state machine; uses `JobTable` |
| `JobPool` | what the queue promises: tasks are taken exclusively, over is over | abstract specification |
| `Capture` | one lecture from microphone to transcript: recording service, both loops, cleanup, crash, startup | state machine; composes recording, worker and queue over `JobTable` |
| `Recorder` | the recorder page: MediaRecorder, intervals, stale callbacks, flushes | state machine |
| `Whisper` | one transcription job from the inside: ffmpeg, whisper.cpp, temporary files, abort, segments | actions, composed by `Lectures` |
| `Lectures` | list, form, lecture page, editing and recorder entry while `Whisper` runs | state machine; EXTENDS `Whisper`, `Contracts`, `Workers`, `Api` |
| `ModelDownload` | one whisper model: row, file, downloads, cancel, delete, use | state machine |
| `Startup` | migrations statement by statement, backup, restore, windows, quit, updates | state machine |
| `AiRequest` | handlers that ask a provider: choice, limits, cache, repair, usage; edits of providers, keys, default | state machine; EXTENDS `Providers` |
| `Providers` | the kinds of provider: requests, answers, models, prices, usage | operators |
| `Settings` | the settings page over what `AiRequest` reads | state machine; EXTENDS `AiRequest` |
| `Study` | summaries, flashcards, quizzes, reviews (SM-2) over lectures that come and go | actions, composed by `Backup`; EXTENDS `StudyPlan` |
| `StudyPlan` | contexts, extractive summaries, scores, weak topics, study plans | operators; EXTENDS `Totals` |
| `Backup` | backup and restore while `Study`'s handlers run | state machine; EXTENDS `Study`, `Archive`, `Exports` |
| `Archive` | the archive format byte by byte | operators; EXTENDS `Totals` |
| `Totals` | adding up in a loop | operators |
| `Exports` | CSV, Anki and text files and a reader of each | operators |
| `Chat` | the chat page, its two handlers and the grounded answer | state machine; EXTENDS `Search` |
| `Search` | query building, LIKE, ranking, citations | operators |
| `Contracts` | limits of the IPC schemas against what the pages send, titles, locales | operators |
| `Workers` | the processors of the transcription and AI workers | operators |
| `Api` | guards, errors, accounts, uploads, lectures, courses and totals of the API and its client | operators |
| `*Proofs` | section 6 | theorems |

`Settings` uses `AiRequest` twice: it extends its state, and the run checks that
what the saves of the page do to providers and keys are edits that `AiRequest`
allows (`EditsProviders`), while requests of `AiRequest` take their steps
between those of the page. `JobQueue` implements `JobPool`, and so does
`Capture`, in which recording, requests, recovery and the loops share the table.

Modules of operators have no variables. What they compute is compared with a
reference definition, or with a reader of the result, over bounded inputs, in
named `ASSUME`s that TLC evaluates in every run of a module that extends them:

| Module | Claims |
|---|---|
| `Providers` | `OnlyAnswersRead`, `NeverUnderestimated`, `ShownLimitsHold`, `TestAsksTheServer` |
| `StudyPlan` | `WeakTopicsAreThose`, `DueIsOrdered`, `DueIsPlannedOnce`, `TargetsPlanned`, `ScoreIsFair`, `ContextIsLongest`, `SpacesAreExtra`, `ExtractFits`, `SourcesExist` |
| `Study` | `SameSchedule`: the two copies of SM-2 agree |
| `Archive` | `ZipReadsBack`, `CutIsRefused`, `DamageIsRefused` |
| `Exports` | `CsvReadsBack`, `AnkiReadsBack`, `StampsAreTimes`, `TranscriptIsWhole`, `ExportsRedacted` |
| `Search` | `WordsAreFound`, `ScopeIsKept`, `WildcardsAreNone`, `CitationsAreResults` |
| `Contracts` | `OnlyBelowZeroRefused`, `DefaultsAreShown`, `TitlesFit`, `NoCourseIsChosen`, `ListedIsAdmitted`, `LanguagesAdmitted`, `LocaleIsSupported` |
| `Workers` | `JobEndsOnce`, `RepeatedJobIsSkipped`, `SegmentsInOrder`, `PairsKeepTheText`, `EmbeddingCountsAll`, `AnswersCite` |
| `Api` | `ErrorsArrive`, `GuardsAsTested`, `CoursesOfTwoRoles`, `OneAccountPerAddress`, `DisabledStaysOut`, `TokenHasAccount`, `OnePurpose`, `UploadsAreTheirs`, `RemovedIsUnlisted`, `CoursesAreTheirs`, `TotalsAddUp` |

## 3. Correspondence with the code

*Steps.* An action is the stretch of a handler or a callback between two awaits,
with every call in it that changes state. `enqueue` is `EnqueueFind`,
`EnqueueCreate`; `fail` is `FailRead`, `FailWrite`; `claimNext` is one action
because its two statements are one transaction; `cleanupChunk` is `CleanupRow`
(row) and `Unlink` (file); `startDownload` is nine. Neighbouring statements that
commute with everything that can happen between them are one action: the lecture
update and the row selection of `stopSession` (`StopProcessing`), the chunk row
and the session totals of `saveChunk` (`UpsertRow`).

*Calls.* A call of a page is a record on its way: it takes effect in the main
process at one moment and is answered at a later one, in any order with others.
What the page showed when the button was pressed travels with the call. In
`Recorder` the calls take effect at once, in order, because the page awaits them
or needs no answer, and what happens behind them is `Capture`'s subject.

*Queue (`JobTable`, `JobQueue`).* `jobs[j]` holds status, payload, retryCount,
lockedBy and two clock values relative to now: `wait`, ticks until
scheduledAfter, and `age`, ticks since lockedAt, kept only for RUNNING rows,
whose age alone is compared. Payloads are what the callers build: a live chunk,
a full pass by stop, by the user, by recovery. Two payloads are equal exactly
when their hashes are.

*Audio (`Capture`).* A piece of audio is a chunk index and the take, how often
recording was started for the lecture. `file[i]` is the take whose audio the
i-th file holds, 0 without a file. Whisper makes one segment of a piece;
`transcript[k]` is the piece whose text is at index k. `saved`, `heard` and a
worker's `plan` are history. `Abort` stands for the ways a job fails that depend
on nothing in the tables; `NO_AUDIO` and `CHUNK_MISSING` are decided by the
tables in `ResolveFull` and `ResolveLive`. `Crash` drops all memory;
`before-quit` is the same, since nobody waits for a job.

*Recorder page (`Recorder`).* A unit of data is what MediaRecorder delivers in a
second. `ticks` says whether the seconds interval calls a `stopRecording` that
knows the session (`sees`) or that of the first render (`blind`); `stray` are
intervals of an earlier take that nothing can clear. A `stopRecording` in
progress waits for the stop event, for its IPC call, or for ever (`hung`).

*Transcription (`Whisper`, `Lectures`).* One pass is: for each chunk, ffmpeg
writes a WAV file, whisper.cpp a JSON file, both are removed, segments are
inserted; the abort comes between any two of these. `Lectures` puts pages on
top: the list, the form, the lecture page with its editor, the store of the
selected lecture, the recorder up to its session. A segment's text says which
pass or which edit wrote it.

*Models (`ModelDownload`).* A file is its length in blocks and whether they are
right. A stream holds blocks that were sent and not yet written; the response of
a resumed transfer may be the whole file again or the wrong part of it.

*Startup (`Startup`).* A database file is the set of transactions it holds, how
many statements of each migration it has seen, and which migrations it records
as finished. `closed` is history: the transactions that were in the file when a
start made its backup, after its migrations, at a checkpoint of the running app
or at its end. `PassOver` is a folder without `migration.sql`, which the code
passes over and looks at again in the next start. In WAL mode writes reach the
file at a checkpoint only. SQLite is modelled from how the code uses it.

*Providers (`AiRequest`, `Settings`).* An answer is valid, invalid or an error;
tokens are numbers; time is the end of a day. A request is followed from the
guard of the handler through limits, cache, provider, repair and usage events.
The edits of providers, keys and the default happen between any two of its
steps; `Settings` shows which edits the page really makes.

*Learning (`Study`, `Backup`).* A handler reads, waits for the provider and
writes; what a provider proposes is a bag, since an answer may have a question
more than once. Lectures are deleted and restored meanwhile, with what the
foreign keys of the schema do to other tables. A flashcard has its SM-2
schedule, with the easiness in hundredths and dates in days. A backup is a
record of the tables as each was read.

*Chat (`Chat`, `Search`).* A message is a question, its reply or the note that
answers it without a provider. The page's list is what it shows, in order; the
answer of a history call replaces it whatever course is selected by then; one
that fails leaves the list (`stale`). `RefuseQuestion` is the schema of
`CHAT_SEND`, which refuses the course ids of the page's mock data, or a row that
cannot be written.

*Data.* Texts that nobody takes apart are model values; texts that are taken
apart (queries, archives, exports, card lines) are sequences over a small
alphabet that has every character the code, or the format it writes, treats
specially.

## 4. Runs

| Run | Modules | Properties | What it shows |
|---|---|---|---|
| `queue` | `JobQueue`, `JobTable`, `JobPool` | `OneWorkerPerJob`, `RunBudget`, `NoDuplicateOpenJobs`, `SettledStaysSettled`, `PoolSpec`, `LiveNotBlocked`, `QueueDrains` | no job is worked on twice at a time; its runs are paid for by retries and crashes; one caller queues an open payload once; DONE and FAILED are final; the queue implements the pool; a live job is taken although the regular loop never returns; where both loops go on every job is settled |
| `capture` | `Capture` | `AudioGoneOnlyAfterHeard`, `PrivacyQueuesNothing`, `CrashedSessionsRecovered`, `UnheardIsFound`, `PrivatePassWritten` | audio goes only after its text is written; a private recording is not transcribed unasked and a pass over it that ends wrote each chunk at its place; a crashed session is recovered, however often the app dies, unless the start that found it dies over it; what was not heard is what a full pass selects |
| `capture_heard` | `Capture` | `EveryChunkHeard` | every chunk saved in a session that is not private is transcribed |
| `recorder` | `Recorder` | `AudioKept`, `MemoryBounded`, `DoneIsStopped` | in a first take no data disappears unreported; the buffer of an unpaused recording holds one chunk, and so does each flush on its way; without faults and before the limit a page that is done has ended its session |
| `recorder_saved` | `Recorder` | `DoneMeansStopped` (violated) | a recording that reaches its limit is shown as saved though `recording:stop` was never sent (section 7) |
| `model_download` | `ModelDownload` | `OneDownload`, `OnlyWholeModels`, `DownloadingIsOwned`, `DownloadsEnd` | two calls never write one file; only a whole model gets the final name; what says DOWNLOADING can be cancelled, unless the app or the update that would have ended it failed; each call ends unless its connection died |
| `startup` | `Startup` | `RecordedIsWhole`, `ReadyIsMigrated`, `ClosedDataKept`, `VisibleIsReady`, `StartEnds` | what is recorded as migrated has run; the app is ready only with every migration whose SQL it found; data that was in the file at a backup, a checkpoint or an end is never lost; a visible main window belongs to a ready app; each start ends |
| `ai_request` | `AiRequest`, `Providers` | `OverspendBounded`, `OnlyValidCached` | requests that pass the limits together overspend by no more than they can use; no answer that failed its schema is cached |
| `settings` | `Settings`, `AiRequest` | `SavedIsUsable`, `ShownIsKept`, `EditsProviders` | a save that succeeded left a key its provider can be used with, the form ends up as the settings are kept, the page's writes are edits of `AiRequest`; a request runs meanwhile |
| `library` | `Backup`, `Study` and what they extend | `ScheduleSound`, `CopiesBounded`, `SummaryAskedOnce`, `QuizzesWhole`, `RestoreGivesBack` | SM-2 schedules stay within their rules; duplicates, paid summaries and empty quizzes are bounded by what was in progress, by what one answer repeats and by refused writes; an undisturbed backup gives back what it saw |
| `chat` | `Chat`, `Search` | `QuestionsKept`, `ListIsTable` | every question that is not refused is kept once and before its reply; a page left in peace, whose last history could be read, shows what the table has, while courses are created and deleted |
| `lectures` | `Lectures`, `Whisper` and what they extend | `PassEndsWell`, `EditKept`, `StartsAsShown` | a job that ended left no file and, if DONE, passed over no audio; transcribing again never takes back an edit; a session is of a lecture, and in the privacy mode, that was shown when Record was pressed |

Every property has a mutant in `PROJECT.json`: a variant of a definition, kept
just before it in its module, that is a plausible bug and breaks the property.

## 5. Bounds and fairness

* `queue`: 2 jobs, 2 loops, 1 caller per payload, 2 retries, 1 crash, 1 cancel.
  Two jobs are enough for loops to collide, for duplicates and for priority. A
  tick is 2 minutes: backoffs are 1 and 4 ticks and a lock is stale after 5, so
  these instants come in every order. Two callers can both miss a duplicate
  (section 7), which `NoDuplicateOpenJobs` does not claim to exclude.
* `capture`: 2 chunks, 1 take, 3 jobs (all that one take can queue, since a
  session that was stopped is not recovered), 2 retries (one run that fails is
  repeated and the next ends the job; `capture_heard` has the code's 3), 2
  crashes (the second may meet the start after the first), 1 error, 2 requests
  of the user for a private recording. A tick is 20 minutes: backoffs elapse at
  once and one pause makes every lock stale. `capture_heard`: the same without
  crash and error, with fairness. Both speak of a lecture that is recorded once;
  what a second take does is in section 7.
* `recorder`: 2 takes (the intervals of the first reach the second), rotation
  every 2 units, limit 3, 1 pause, 1 fault.
* `model_download`: a model of 2 blocks (a partial file is neither empty nor
  whole), 2 calls, 1 fault, 1 crash. A call ends and may begin again.
* `startup`: 2 versions, 2 statements per migration (a crash falls between
  them), 3 transactions, 2 crashes and 2 faults (one in a start, one in what
  repairs it).
* `ai_request`: 2 callers, limits of 2 tokens a day and 3 a month, 1 per call,
  so that each limit is met first in some behaviour; 1 end of a day.
* `settings`: 3 provider rows, 2 kinds, 2 saves, 2 changes of the form, 1
  request with limits of one token; presses, kinds and values, which differ by
  name only, are symmetric. Concurrent requests are `ai_request`'s.
* `library`: 2 callers; 4 calls, backups and restores among them; one question,
  which an answer may have twice; 5 cards (one more than the bound on copies), 2
  quizzes, 1 crash. Intervals up to 15 days reach the third repetition.
* `chat`: 2 courses, 2 questions, 2 history calls on their way, a history limit
  of 3 (the code's 200 is reached by 100 questions: the same truncation).
  Courses are symmetric.
* `lectures`: 2 lectures, one transcribed before, 2 chunks, 1 pass, 2 calls on
  their way, 1 edit, 1 take.

Deadlock is checked in `queue`, `model_download` and `ai_request`, where
something can always go on; the other systems come to rest when nobody uses
them, or when the bounds are used up.

Fairness is stated for what the code does of itself:

* `JobQueue.LiveLoopSpec`: time passes and the live loop goes on. `liveTick`
  re-arms its timer after every job, in every outcome, and `JOB_TIMEOUT_MS`
  aborts a job that hangs. The regular loop may be busy for ever, which is what
  the live loop was made for. `QueueDrains` assumes both loops and speaks of
  behaviours without a further crash.
* `Capture.FairSpec`: handlers that were called run to their end, a started app
  finishes starting, loops go on.
* `ModelDownload.FairSpec`: streams write what they were given, and a call that
  does not wait for a dead connection goes on.
* `Startup.FairSpec`: a process that starts goes on.

Nobody is required to record, stop, cancel, press a button, crash or start the
app, and nothing is required to fail.

## 6. Proofs

For every value of the constants that satisfies the assumption of the module
(each a named `ASSUME`, as weak as the code justifies, evaluated by TLC in the
runs), TLAPS proves:

| Module | Theorem | Statement |
|---|---|---|
| `JobQueueProofs` | `Invariance`, `TypeCorrect` | `Spec => []IInv`, `Spec => []TypeOK` |
| | `ExclusiveClaims`, `BoundedRuns` | `OneWorkerPerJob`, `RunBudget` are invariants |
| | `SettledForGood` | no step takes a DONE or FAILED job back |
| | `OpenOnce` | `NoDuplicateOpenJobs`, for one caller of `enqueue` |
| | `QueueImplementsPool` | `Spec => PoolSpec` |
| `ProviderProofs` | `RequestsInvariance`, `TypeCorrect` | |
| | `CacheIsValid`, `LimitsHold` | `OnlyValidCached`, `OverspendBounded`, for any number of handlers and any limits |
| | `SavesInvariance` | |
| | `SavedKeysAreUsable`, `ShownChangesKept` | `SavedIsUsable`, `ShownIsKept`, for any overlapping saves and changes of the form |
| | `PageEditsProviders` | `EditsProviders`: each step of the page is a step of `AiRequest` or leaves its state alone |
| | `RequestsUnderPage` | so `OnlyValidCached` and `OverspendBounded` hold where requests and the page take their steps in any order |
| `ModelDownloadProofs` | `Invariance`, `TypeCorrect` | |
| | `WritersExclude`, `FilesAreWhole`, `RowsAreOwned` | `OneDownload`, `OnlyWholeModels`, `DownloadingIsOwned`, for any number of calls, blocks, faults and crashes |
| `StartupProofs` | `StartupInvariance` | |
| | `OnlyWholeIsRecorded`, `ReadyOnlyMigrated`, `ClosedDataStays`, `OnlyReadyIsVisible` | `RecordedIsWhole`, `ReadyIsMigrated`, `ClosedDataKept`, `VisibleIsReady`, for any number of versions, statements, crashes and faults |
| `CaptureProofs` | `CaptureInvariance` | types; a job that a loop holds is RUNNING and held by no other |
| | `PrivacyKept` | `PrivacyQueuesNothing`, for any constants |
| | `AudioKeptUntilHeard`, `UnheardStaysFound`, `PrivatePassComplete` | `AudioGoneOnlyAfterHeard`, `UnheardIsFound`, `PrivatePassWritten`, for a lecture that is recorded once |
| | `CrashRecovered` | `CrashedSessionsRecovered`, for any number of crashes and takes |
| | `CaptureImplementsPool` | `Spec => PoolSpec` of `Capture`, for any constants: whatever a stop, a request, a recovery, an error or a crash does to the table, a job is worked on by one loop at a time and never comes back once it is over |
| `PageProofs` | `MemoryIsBounded`, `DoneIsSaved`, `FirstTakeKept` | `MemoryBounded`, `DoneIsStopped`, `AudioKept`, for any lengths, takes, pauses and faults |
| | `QuestionsStay`, `ListShown` | `ChatSpec => []QuestionsKept` and `ChatSpec => []ListIsTable`, for any courses, questions, history calls and any history limit |
| `LecturesProofs` | `PassesEndWell`, `EditsStay` | `PassEndsWell`, `EditKept`, for any chunks, passes and edits |
| | `StartInvariance`, `StartsShown` | `StartsAsShown`, for any lectures, presses and calls on their way |
| `LibraryProofs` | `LibraryTypes`, `SchedulesSound` | types of `Study` and `Backup` with sound schedules everywhere; `ScheduleSound` |
| | `SchedulesAgree` | the two copies of SM-2 give every card the same schedule, for any card and answer |
| | `CopiesStayFew`, `SummariesAskedOnce`, `QuizzesFilled` | `CopiesBounded`, `SummaryAskedOnce`, `QuizzesWhole`, for any handlers, calls, rows and crashes |
| | `RestoresGiveBack` | `RestoreGivesBack` as an action property, for any handlers that run beside it |
| | `EveryEntryReadsBack`, `AnyCutIsRefused`, `DamagedDataIsRefused` | `extractFromZip` finds in what `buildZip` wrote the first entry of a name, all of it; a file cut off anywhere is restored from exactly if the cut is behind all entries, and previews the same; damaged data is not restored; for any entries, sizes and cut |
| | `EveryCsvReadsBack`, `QuotedAnkiReadsBack` | a reader of CSV reads from the file its header and all columns of what was exported, if each text with a carriage return is quoted for another reason; so does one of the Anki file, if each text with a tab is too; for any number of cards and any texts |
| | `EveryDueIsPlannedOnce`, `EveryTargetIsPlanned` | a local plan puts each due card it names on one weekday and each of the first seven weak topics on one day, for any cards and topics |
| | `EveryScoreIsFair` | a quiz answered once per question scores at most all points, and all of them exactly if every answer is right, for any questions and points |
| | `EveryContextIsLongest` | a context is the longest beginning of the texts that fits, but for the spaces between them, for any texts and limit |

The theorems with a condition on `MaxTakes` state it as a hypothesis. Without it
the properties are false of the code, not out of reach: section 7 says what a
second take does. `OpenOnce` asks for one caller, as the run does: two callers
of `enqueue` can each miss the row the other is about to create, because
`findFirst` and `create` are two awaits.

None of the properties is inductive by itself. The invariants that are:

* **JobQueue.** `DownIdle`: while the app is down no loop holds a job, so
  startup's `recoverStalledJobs` cannot free a row under a loop. `HeldRows`: a
  held row is RUNNING or CANCELLED, has a retry left, and after the read of
  `fail` still has the retryCount that was read, because only its holder writes
  that column; this makes the read-await-write of `fail` safe against everything
  but a cancel. `OpenRows`: open rows have a retry left. `RunsPaid`: runs are
  paid for by retries and crashes, the run in progress not yet. The refinement
  counts a job as taken while a loop holds it, whatever its status column says,
  which is why a cancel of a running job is no step of the pool. `Undoubled`: a
  payload that the caller did not find is still not open when it creates the
  row, because claims, retries and recovery only open what was open already.
* **AiRequest.** `Carries`: what a request holds at each step (an answer that
  may be cached has passed its schema, one call was made before a repair).
  `Budget`: the tokens recorded, plus the most that the requests which passed
  `checkLimits` and have not recorded theirs may still use, stay within the
  limit plus one request for each other handler; the sum over handlers is one
  over a finite set, whose changes are lemmas.
* **ModelDownload.** `Owned`: a call beyond the check of `activeDownloads` is
  the one registered there. `orphaned` is history: a row was left DOWNLOADING by
  a crash or by an update that failed. `Leaves`: what state a call leaves behind
  at each step. `Progress`: what is on disk and in the stream against what was
  sent, which is why the checksum that passed was one of the whole file.
* **Settings.** `Aimed`: the row a save works on is one of its kind, or not
  chosen yet. `KeysFit`, `DefaultServed`, `DefaultMade`: a key is stored under
  its row's name, the default has what its step promised. `FormInv`: while no
  change met another, at most one is on its way and it carries what is shown.

* **Startup.** `AllWhole`: a recorded migration is whole in the backup of this
  start too, which a restore would copy. `Migrated`: what this version asks for
  is recorded, still to do or passed over for want of its SQL, until the end of
  the start. `Shapes`, `Kept`: what was closed is in every copy that can become
  the database (the file, the WAL's view of it, this start's backup); a torn
  database leaves a backup that has it. That the first migration to do is one of
  them rests on well-founded `<`.
* **Capture.** `Recording`, `Loops`: ranges, nothing runs while the app is down,
  a private save never comes to its enqueue, a held job is RUNNING and has one
  holder. On these: `QuietQueue`, before the first session only the user's
  requests are queued; `HeardFirst`, a cleanup is of a piece that was heard, and
  a chunk that is about to get its row has its file or was heard; `Recovering`,
  from its mark on nothing is recorded in a session, so it is CRASHED only with
  its pass in the table, with nothing left, in the start that is about to look,
  or after a start that was interrupted;
  `OneRequest`, `PrivateFiles`, `PrivatePasses`, a private recording is read by
  one pass at a time, in index order, with every file in place. `Loops` is all
  that the refinement of the pool needs: a held job is RUNNING, so what the
  requests and recoveries do to other rows is a step on tasks nobody has, and a
  loop that is told of an error or the end of a job still is its only holder.
* **Recorder.** `Rotated`: until a resume the two intervals are set together,
  and the buffer grows no faster than the seconds since the last rotation.
  `Healthy`: without faults one `stopRecording` at most is under way, and it
  knows the session unless the limit called it. `FirstTake`: each unit is in the
  buffer, in a flush, in a file or reported lost (`AllKept`), and what is
  flushed next has an index that no flush and no file has (`Places`), because
  the index stays behind the seconds and the seconds below the limit (`Once`).

* **Chat.** `Told`: a call whose question is not kept yet has no row; one that
  waits for its reply has its question alone, in the course of the call; so the
  reply comes after it, and `CHAT_SEND` never writes a second one. For
  `ListIsTable` the list has to be described at every moment, not only when
  nothing is on its way: `Listed` says which messages are `Due` on the page
  (those of the course in the table but for failed questions and replies not
  arrived yet, and the question that is not in the table yet), each once.
  `Calls`: a calm visit waits for one history, of the course selected, whose
  rows are still those of the table, or for replies of that course, never for
  both; `Replied`: a reply on its way to the page is in the table.
* **Whisper and Lectures.** `PassInv`: the WAV file exists only while
  whisper.cpp reads it or a failure is about to be caught, and only a loop that
  came to its end is done. `StartInv`: a call that starts a recording carries a
  lecture and a privacy mode that were shown together, from the press to the
  row, and what was shown or started is not taken back.
* **Study.** The bounds count what handlers in progress may still do together
  with what the table has. `FewCopies`: the copies of a question and the cards
  with it that handlers hold as not found are no more than all handlers can have
  in one answer each. `FewAsked`: the requests made for a summary and the
  handlers about to make one are no more than the handlers of all runs, and
  while no summary is kept, each request of this run belongs to a handler that
  has its answer in hand. `FewForsaken`: the empty quizzes that no handler is
  about to fill are at most one for each handler and crash, and one for each
  write of questions that was refused. Schedules are part of the types
  (`SoundCards`), because a card is held by handlers, backups and files too;
  that `Reviewed` keeps them sound is a lemma about integers (`EaseFloor` and
  those after it).
* **Backup.** `Faithful`: while nothing was written since it began, what a
  backup has to give back is the tables as they are, and what it read is a part
  of them; segments and cards have their lectures (`Linked`), which is why a
  restore in the order of the foreign keys leaves none of them out.

The files, plans, scores and contexts are worked out by loops, which the models
write as recursive functions. The library's induction theorems take an operator
as a parameter and cannot be used; that `<` on the naturals is well founded is a
theorem about sets, so each induction is one on the least number for which
something fails (`NatUp`). With it: such a function exists and has the value its
body says (`TotalsAre`, `ContextIsKept` and their like), so offsets only grow
(`TotalsGrow`), the reader of an archive stops at no header before the one it
looks for, a delimited file is followed field by field and row by row with all
the reader has after each, and a score is compared with the sum of all points
term by term.

`TLC` checks each of these invariants, or the property it strengthens, before it
is proved (`PoolSpec` of `Capture` is stated by its theorem only: no run repeats
it); the modules of the proofs are grouped by what shares definitions
(`ProviderProofs` is about `AiRequest` and `Settings`, `PageProofs` about
`Recorder` and `Chat`, `LecturesProofs` about `Lectures` and `Whisper`,
`LibraryProofs` about `Study` and `Backup` and the operators they extend).

Only model-checked:

* liveness under fairness, which is out of the prover's reach: `QueueDrains`,
  `LiveNotBlocked`, `EveryChunkHeard`, `DownloadsEnd`, `StartEnds`;
* what `Search`, `Providers`, `Contracts`, `Workers` and `Api` compute, the
  choice of weak topics, due cards and sources and the extractive summary in
  `StudyPlan` (sorting, folding and filtering operators of the community
  modules), time stamps, transcripts and redaction in `Exports`, and the
  converses of the two theorems on exports, that an unquoted tab or carriage
  return always breaks the reading.

## 7. Where the code and its texts disagree

`recorder_saved` is a run of its own. The interval set in `startRecording` calls
the `stopRecording` of the render that made it, whose session id is still null;
at the limit it skips `recording:stop`, shows "Recording saved", and nothing
queues the transcription until a restart (`RecorderPage.tsx:222`, `:695`).

The others were met while modelling. They are modelled as the code does them,
and the properties are stated so that they hold; each is a place to decide which
side is right. Paths are below `apps/desktop/src` unless they begin with
`apps`, `packages` or `services`; `web` is `apps/web/src/pages`.

Queue and worker:
* Startup re-queues only locks older than ten minutes; after a quick restart a
  job stays RUNNING for ever and its payload counts as queued
  (`services/jobQueue.ts:202`, against `:8`).
* `cancel` of a running job is overwritten by its completion (`:138`).
* Two callers of `enqueue` can both miss the duplicate (`:76`).
* Delays of `fail` are 2 and 8 minutes, a comment says 30 s first (`:165`).
* `cancelJob` has no caller; the timeout covers a whole pass although its
  constant says per chunk; progress of a pass goes backwards; whisper's JSON
  file is left when whisper is killed (`services/whisperWorker.ts`).

Recording:
* Live jobs and passes number their segments from 0 each, so live texts of one
  lecture overwrite each other (`whisperWorker.ts:385`).
* A full pass that finds everything consumed by live jobs fails, and the lecture
  stays PROCESSING (`:373`).
* The playback file holds only the chunks live jobs had not removed
  (`services/recording.ts:312`).
* A start that dies between the CRASHED mark and the recovery job loses the
  recovery (`:221`, against `:9`; the history variable `interrupted` of
  `Capture` exempts it); a pass asked for by
  stop is swallowed by a running one with the same payload (`:134`).
* A second take keeps the privacy mode of the first (`:80`), and a live job of
  the first may remove the audio of the second (`whisperWorker.ts:534`).
* A resumed recording is not rotated (`web/RecorderPage.tsx:384`), and nothing
  bounds how many flushes wait for a slow disk (`:241`); when the
  microphone goes away Stop waits for ever (`:408`); consent and privacy are
  overwritten by a late settings answer (`:128`); the lecture shown may change
  while recording when an earlier load is answered; `flushChunk` reads the
  session id after an await; the privacy badge may show while the session is not
  private; `recording:error` is never sent by the main process.

Models, startup:
* A temporary file that is already complete is asked for beyond its end, gets
  416 and fails for ever; an error while marking leaves the controller
  registered (`services/whisperModels.ts:147`); so does a redirect that hangs
  (`:168`). When the update of the row in the catch fails (`:228`, `:231`), the
  row stays DOWNLOADING without a controller.
* A crash within a migration makes every later start fail, because its first
  statement has run (`services/database.ts:164`); the backup does not hold the
  WAL (`:237`): what only the WAL had when the app died reaches the file after
  the backup, and a restore by the same start loses it, against `:6`. A
  migration folder without `migration.sql` is passed over, and the app starts
  without it (`:151`).
* Quit does not wait for the database to close (`main.ts:338`); an error nobody
  caught replaces the main window (`:354`), and a report that cannot be written
  makes the failure window fail (`:95`).

Providers, settings:
* A cached text answer is parsed as JSON and throws, an empty one is asked for
  again (`services/aiProviders.ts:388`, `:391`);
  tokens of a repair that fails are not recorded (`:480`); gpt-4o-mini is priced
  as gpt-4o (`:70`); a limit of 0 means none in `checkLimits` and "reached" in
  the usage summary (`ipc/handlers.ts:533`).
* Ollama and LM Studio, "no key needed", never count as configured; LM Studio is
  tested at Ollama's port (`aiProviders.ts:589`). An Azure key is saved without
  an endpoint, so its requests fail (`:428`).
* An unreadable vault counts as empty and is written over
  (`services/secrets.ts:33`).
* A key whose save fails half way leaves a default without a key
  (`web/SettingsPage.tsx:144`); "Settings saved" is shown whatever the answer
  (`:77`); a failed list or a double click creates a second provider (`:92`);
  changes on their way together may be applied in any order.

Learning, chat, transcripts:
* Search ignores the course (`services/transcript.ts:66`). The full-text query
  names a column that the table behind the index does not have (`:92`): it fails
  when it matches, and then LIKE looks in the original text, which edits are not
  part of; when it matches nothing it returns nothing, and the LIKE that would
  have found a part of a word is not tried. A query with % or _ finds nothing
  (`:107`).
* More than 200 messages of a course are cut at the new end
  (`ipc/handlers.ts:592`). Questions in the page's mock course are refused by
  the schema before they are kept (`:599`, `ipc/contracts.ts:236`), against the
  comment at `:602`. When the history of a course cannot be read the page goes
  on showing the messages of the one before (`web/ChatPage.tsx:206`).
* Flashcards are compared with those that exist and not with each other: an
  answer that repeats a question, and calls that run together, duplicate it
  (`services/learning.ts:256`, against `:10`). A `createMany` of questions that
  fails leaves an empty quiz (`:476`, against `:9`).
* A quiz can never be submitted, since no attempt is ever created
  (`ipc/handlers.ts:635`).
* The study plan leaves out weak topics 8 to 10 and due cards 11 to 20
  (`services/learning.ts:581`). A first segment that is too long leaves no
  context at all, and the spaces between the texts are not counted in its length
  (`:91`). `reviewFlashcard` and `computeSm2` are the same algorithm
  twice.
* An edit survives a new transcription at its index though the text there is
  another (`services/transcript.ts:30`), and saving a row unchanged pins its
  draft text.
* The channels of backup, restore, summaries, flashcards, quizzes, study plans
  and weaknesses are not exposed by `preload.ts`.

Lectures, courses, contracts:
* Deleting a course keeps its lectures, against the confirmation
  (`web/CoursesPage.tsx:118`), and messages, cards and quizzes go on naming it;
  a course's `lectureCount` is always 0 (`ipc/handlers.ts:313`).
* The form of a new lecture offers courses from mock data whose ids its own
  schema refuses (`packages/validation`, `schemas.ts:43`), so lectures never
  have a course. The dashboard and the course page show mock data.
* Chat messages above 4000 and edits above 10000 characters, negative limits and
  emptied number fields are refused though the pages set no limit. The error of
  the lecture page is never cleared.

Backup and export:
* A backup drops the chat messages it has read (`services/backup.ts:178`); a
  restore re-creates four of the tables and passes over rows that fail; a
  preview is shown of an archive whose data is damaged; the header names another
  file than the archive holds (`:4`). A tab in a card breaks the Anki export
  (`:481`), and a carriage return, which RFC 4180 wants quoted, both (`:562`).

Services:
* The API cannot start (its JWT service constructs itself without end) and its
  schema declares no table. Courses are for roles most of which no account can
  have. A deleted upload can be completed again; its MIME type is not compared
  with its purpose; two registrations at once answer 500 instead of 409; the
  versioned URIs differ from those of its tests.

## 8. What is not modelled

* Presentation: layout, waveforms, wording, navigation, menus, logging. A
  conversion is modelled where a property is about it (exports, archives,
  queries, card lines, titles, locales).
* Encryption of the vault (the operating system's), ffmpeg, whisper.cpp, SQLite
  and the providers, beyond how the code uses them.
* Notes and the renaming of lectures and courses: single statements.
* Admin and mobile applications: static screens over mock data. Infrastructure
  and the generated Prisma client hold no behaviour of their own.
* The API's statements running against each other, beyond registration: its
  schema declares no table, so there is no database to say what they do.
* `testProviderConnection` changes one timestamp; only what it asks is modelled.
