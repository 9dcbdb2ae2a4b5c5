# streamer-dvr in TLA+

streamer-dvr records live streams. An API process (`app.main`, FastAPI) edits
channels and enqueues commands; a worker process (`app.worker`) sweeps the
channels, probes those that are due, launches `yt-dlp` for the ones that are
online, waits for it in a thread, and remuxes the recording to mp4 with `ffmpeg`.
Both processes share one SQLite database, nothing else. PM2 restarts either of
them at any time; the `yt-dlp` processes outlive the worker.

This directory holds the TLA+ model of that system, the TLC configurations that
check it on small instances, and the TLAPS proofs. `PROJECT.json` is the index:
which component each module models, what each run checks, which lines each
definition stands for, which seeded bug each property finds (`mutants`), and
the hazards of the code with the properties that watch them.

Paths below are relative to `src/app/` unless they begin with a name of the
repository root.

## Inventory

### Components with state

| component | state | operations | correct when |
|---|---|---|---|
| scheduler loop (`services/scheduler/service.py`) | `_active_processes`, `_record_lock`, `_probe_slots`, the snapshot of the sweep | `start`, `_run_loop`, `_tick_channel` | every channel is visited; no channel is recovered while a capture thread owns it |
| probe handler (`handlers/probe.py`) | a permit, the channel's status | `check_channel` | every exit returns its permit once; a live recorder is never doubled |
| capture handler (`handlers/capture.py`) | the active map, the channel record, the recorder process, the files | `start_recording`, `_wait_for_recording`, `_finalize_recording`, `convert_recording` | one capture thread per recording and channel; footage ends as an mp4 or stays as its source |
| recovery handler (`handlers/recovery.py`) | the channel record, conversions | `reconcile_channels`, `recover_stale_recording`, `is_stalled_recording`, startup warm-up | a record that claims what no process backs is repaired; a live recording is left alone |
| command handler (`handlers/commands.py`) | claimed commands | `process_commands`, `trigger_check`, `pause_channel`, `stop_recording` | commands are executed once, in order; a stop is completed |
| channel service (`services/channel/`) | the `channels` table | `upsert`, `replace`, `delete`, `create`, `update`, `set_paused`, `update_status` | the record of a channel agrees with what the worker does |
| channel routes (`api/routes/channels.py`) | the `channels` and `commands` tables | create, edit, delete, pause, resume, check | the user's last request holds in the end |
| command queue (`storage/sqlite_store.py`) | the `commands` table | `enqueue_command`, `claim_pending_commands`, `complete_command` | no command twice, none lost unless the worker fails |
| source acquisition (`services/recorder/`) | a thread's attempt counter, the category and backoff the channel is left with | `acquire_resolved_source`, `resolve_stream_source`, `should_refresh_stream_source` | the attempts bound the work; a failure is neither hidden nor invented |
| recording sessions (`services/session_core/registry.py`) | session objects shared by threads, the map of current sessions, the `recording_sessions` table | open, transition, attach, fail, complete, close, get | a session that ended stays ended; every handler leaves its session; no row is deleted under a handler |
| retention (`storage/sqlite_store.py`) | `events`, `session_events`, `recording_sessions` | `prune_retained_history` | what is in use or recent is never pruned; what is left over is pruned at last |
| event log (`services/session_core/registry.py`, `storage/event_sql.py`) | `events`, `session_events` | `_emit`, `append_event`, `append_session_event`, `read_events` | a repeat is held back only behind an error the user can read; both logs tell the same |
| dashboard (`api/serializers.py`, `api/routes/system.py`) | none: computed from channels and the newest events | `serialize_bootstrap`, `serialize_logs_response` | a healthy channel is not shown as faulty; what records is listed |
| manual recording (`services/manual_recording.py`) | one-shot jobs | start, stop, list | one job per target |

### Pure algorithms

Failure classification (`services/session_core/classify.py`), the mapping of
HTTP answers and of yt-dlp's stderr (`platform/chaturbate.py`), backoff and
jittered schedules (`common/schedule.py`), the dashboard's text rules
(`api/serializers.py`). All but the jitter are operators of `SourceResolution`
and `EventLog`, checked and proved about as parts of the transitions that use
them.

### How they interact

- API to worker: rows of `channels`, written by both without a common lock
  (each store call is one transaction), and rows of `commands`.
- Scheduler thread to probe threads: `trigger_check` spawns a thread per check;
  the scheduler also probes synchronously. Both take a permit of `_probe_slots`.
- Probe to capture thread: `start_recording` holds `_record_lock` from the test
  of `_active_processes` to the update of the record, then spawns the thread.
- Capture thread to scheduler: only through `_active_processes` (under the
  lock), the record, and the files.
- Threads to sessions: a probe opens a session, its capture thread goes on with
  the same object, and recovery gets whichever session is current for the
  channel. Every operation writes the row, then tells the event log.
- Worker to user: the API computes the dashboard from the channels and from the
  newest events; it reads what the worker wrote, never the worker.
- Worker to operating system: child processes by pid; a pid is also written to
  the record, where the next worker finds it.

### What is hard

Read-then-act over several transactions by four kinds of actors; a snapshot of
all channels that is minutes old when its last row is acted on; ownership of a
recording that outlives the process it is about (finalization and conversion);
restarts between any two writes; commands claimed in a batch and executed one by
one; two writers of the paused flag, one immediate and one queued; session objects
changed by several threads and written to the table in a later step; retention
that deletes rows while handlers go on; an error compared with the log in one
transaction and appended in another; tables of phrases written apart that are
meant to agree. `PROJECT.json` lists each at the line where it bites.

## Modules

| module | models |
|---|---|
| `RecordingLifecycle` | scheduler, probe, capture, recovery and command handlers, the API's row edits, the recorder processes, worker restarts |
| `MCRecordingLifecycle` | names and symmetry for its instances |
| `RecordingLifecycleProofs` | type correctness and ownership for all constants |
| `RecordingProcessProofs` | permits, processes, artifacts and the record a launch goes by |
| `OrderedCommands` | what the queue promises: in order, at most once |
| `CommandQueue` | API handlers, `commands` table, the worker's claim and execution, failures |
| `MCCommandQueue` | names for its instances |
| `CommandQueueProofs` | order of the queue, that it implements `OrderedCommands`, and that the user's intent comes about |
| `SourceResolution` | requests to the platform with and without cookies, attempts and delays, classification, backoff, the segmented retry |
| `MCSourceResolution` | the stderr texts of its instance |
| `SourceResolutionProofs` | types, the retry budget, for which texts the phrase tables agree, and the verdict of a probe |
| `SessionLife` | what the session table promises: opened once, ended for good, forgotten last |
| `RecordingSessions` | the session registry under its threads, the session rows, retention of them, deletion of the channel, restarts |
| `RecordingSessionsProofs` | types, no row deleted under a handler, and that it implements `SessionLife` |
| `SessionProcessProofs` | a row that names a process has a thread that answers for it |
| `EventLog` | the registry's events, suppression, both logs, retention, and the dashboard computed from them |
| `MCEventLog` | sample messages and symmetry for its instance |
| `EventLogProofs` | types, suppressed errors are shown, both logs agree, repeats, false alarms, what the dashboard lists |

Each of the five machines is the whole of its part of the code and takes what the
others decide as a choice: `RecordingSessions` keeps of captures what decides
which session operation comes next, `EventLog` keeps of sessions which
event comes next, `SourceResolution` computes the answer of an acquisition that
is a choice in `RecordingLifecycle`.

### RecordingLifecycle

One step of a thread is one SQLite transaction, one region under `_record_lock`,
or one file-system call, with the in-memory reads beside it. Whatever happens
between two such steps can interleave with any other actor.

| variable | code |
|---|---|
| `db` | the `channels` table: paused, status, active_pid, last_recorded_file (`file`, and `mp4` if it names the mp4); a deleted channel is `None` |
| `active` | `SchedulerService._active_processes` |
| `lock` | `_record_lock`, where it is held over several steps (`start_recording`); one-step regions only require it free |
| `slots` | free permits of `_probe_slots` |
| `proc` | each recorder process: unborn, running, stopping (SIGTERM sent), exited (a zombie, `kill(pid, 0)` succeeds), reaped |
| `disk` | the capture artifact (`src`) and the `mp4` of each recording |
| `thr` | program counter and live locals of each worker thread |
| `sweep` | the `list_channels()` snapshot, the channels still to visit, and whether this is the pass of `start()` |
| `api` | a read-modify-write of the API between its two transactions |
| `crashes` | restarts so far (bounded) |

A recording is at once a process id, the stem of a file and the name of its
capture thread; each is used once, so `Rec` bounds the launches. A process id is
never reused. Threads are `Checker` (those `trigger_check` spawns), `Sched`, and
`Rec`. `start_recording` and `convert_recording` are called from two places each;
their actions take the calling thread, and `AfterStart` and `AfterConvert` say
where it returns to.

Actions by handler: `Check*` is `check_channel`, `Start*` is `start_recording`,
`Capture*` is the capture thread, `Convert*` is `convert_recording`, `Process*`
is `yt-dlp`, `Sched*`/`Visit*`/`Warmup*` the scheduler and recovery, `Command*`
is `process_commands`, `Api*` the API process, `Crash` a restart by PM2.

Choices stand for what the model does not compute: the answer of a source
acquisition (online, online without url, offline, an error, an exception), the
return code, the classification of a failure, whether ffmpeg fails
(`ConvertMayFail`), whether a recording looks stalled, whether a check is due.

### CommandQueue

| variable | code |
|---|---|
| `commands` | the `commands` table; the index is the id, `state` is claimed_at / completed_at |
| `rows` | the paused flag of each channel row |
| `call` | the API handler in flight: the row it has still to write, the command it has still to enqueue |
| `batch` | what `claim_pending_commands` read and the loop has not begun |
| `worker` | where the worker is: between batches, between SELECT and UPDATE, between commands, before the row of a DELETE is removed, before `complete_command` |
| `failures` | crashes and exceptions so far (bounded) |
| `last`, `cut`, `intent` | history: last command begun, commands a failure cut short, what the user asked last |

The API's handlers are `async` functions without an `await`, so they run one at
a time; each is split at its transactions (`ApiSetPaused` then `ApiEnqueue`, for
example). `claim_pending_commands` is two steps because its SELECT is outside
the transaction of its UPDATE. `Raise` is an exception that is not a `KeyError`:
the `finally` clause completes the command, and the loop never sees the rest of
the batch. `Crash` leaves all of it claimed. Neither is executed again.

`intent` is `Any` where nothing in the repository says what the outcome should
be: an edit or re-creation sets the flag without going through the queue, so a
queued pause or resume overtakes it.

### SourceResolution

| variable | code |
|---|---|
| `pc`, `caller` | the channel's thread: in `acquire_resolved_source` for a probe or for the retry of a broken recording, or recording, or idle |
| `attempt`, `first` | locals of `acquire_resolved_source` and of `resolve_stream_source` |
| `source`, `broken` | the URL of the recording, the category of its failure, and what its stderr says of the source (`SourceFate`) |
| `row` | the channel's status, the category behind it, the backoff of its next check |
| `asked`, `slept`, `said` | history: requests, seconds slept, answers of the last attempt |

Text is the set of the phrases the code looks for in it. `Answers` is every
result `resolve_stream_source` of the platform can produce, by what the request
met: a page about the room (`FromPage`), an HTTP error (`FromRefusal`), or no
answer (`FromSilence`). `ResolutionCategory`, `FailureCode`, `RecordingCategory`
and `ShouldRefresh` are the classification functions, in the order of their
tests. `SourceFate` reads a stderr the way the three tables of phrases do: the
source is not dead, it is dead, or its death is overlooked, because only
`should_refresh_stream_source` knows the phrase. `Raise` is the exception nothing catches: a read timeout after the
headers, or a page that is no JSON object.

### RecordingSessions

| variable | code |
|---|---|
| `current` | `RecordingSessionRegistry._by_channel`, for the one channel |
| `obj` | the session objects: `status` once it is an outcome, `active_pid` |
| `row`, `born` | the rows of `recording_sessions`, with the age of their stamps; those ever inserted (history) |
| `thr` | program counter of each thread, the session it works for, and what it is about to write |
| `owner`, `lock` | the channel's entry in `_active_processes`, and `_record_lock` |
| `proc`, `chan`, `snap` | recording processes, the channel record, and its copy in the sweep |
| `crashes` | restarts so far (bounded) |

A registry operation is three steps: the object is changed and the status to
write computed (`Transition`, `End`), the row is written (`WriteSession`, which
raises without a row), and the session closed (`CloseSession`). `OpenSession`
publishes the object before `CreateSession` inserts its row, so another thread
may get it in between. A session that is left without an end (the loser of
`start_recording`, a raised exception, a failed Popen) stays open in the table.

### EventLog

| variable | code |
|---|---|
| `chan` | status, whether there is a pid, and `last_error` of each channel |
| `phase`, `of`, `sticky` | how far each session's handler has come, its channel, and the category left in its metadata |
| `rows`, `wrote` | sessions with a row, and when it was written last |
| `pending` | the event a handler is about to append, and to which log |
| `events`, `sessionLog`, `nextId` | the tables `events` and `session_events` |
| `now` | time, in units of the shortest retention |
| `withheld`, `failed` | history: errors not told, channels something went wrong with |

`Tell` is a registry operation with the first part of `_emit`: the row is
written, and an error is compared with the log; `AppendEvent` and
`AppendSessionEvent` are the two appends. Time passes only while no handler is
between two steps, except that a recording and a conversion may take any time.
`Prune` is `prune_retained_history`, with the cascade from a session to its
events. `Detail`, `FailureCategory`, `Meaningful` and `Before` are the
dashboard's rules; of equally ranked rows either may come first, since the names
that decide between them are left out.

## Runs

| run | instance | question |
|---|---|---|
| `lifecycle_restart` | 1 channel, 2 recordings, 1 checker, 2 permits, 1 restart; pause, resume, check; ffmpeg may fail | Do ownership, permits, orphans and footage survive restarts and stops? |
| `lifecycle_edits` | 1 channel, 2 recordings, no restart; edit and delete | Do they survive the API rewriting and removing the row under the worker? |
| `lifecycle_progress` | 1 channel, 2 recordings, 1 checker, 1 permit, fair threads; check and pause; ffmpeg works | Do stops, of users and of stalled recordings, conversions and repairs come to an end, with every permit returned? |
| `command_queue` | 1 channel, 4 commands, batches of 2, 1 failure | Are commands executed once, in order, and does the user's last word hold? |
| `source_resolution` | 3 attempts, delays 1, 2, 3 (capped), 2 URLs, every stderr of up to 3 phrases | Is the work bounded, and does every failure end as what it was? |
| `recording_sessions` | 2 sessions, 1 checker, the channel may be deleted | Does the table keep what it promises under all interleavings? |
| `session_retention` | 2 sessions, the scheduler's own checks, 1 restart | Does every handler leave its session, and is every session forgotten at last? |
| `event_log` | 2 channels, 2 sessions, up to 4 events after one of an earlier run, 2 units of time | Does the user hear of every error, and of none that was not one? |

Four more runs show where the code does not do what a comment, a test or the
README of the repository says; see Findings.

What the properties mean:

- `OneConversion`: a capture thread and the recovering scheduler never remux one
  recording at once. It is why the map entry stays until conversion is over.
- `OneCapture`: a live capture thread is the one its channel's entry names.
- `SlotsConserved`: permits free plus permits held is `max_concurrent_probes`.
- `NeverRemuxLive`, `NoStray`: within one life of the worker, a conversion reads
  a finished file, and a running process is registered. Both are false after a
  restart by design: an orphan is known only by the record. `crashes = 0` in
  them says so.
- `LaunchRespectsPid`: no launch while the record names a live process.
- `SourceKept`: a source leaves the disk only when its mp4 is there.
- `StopCompletes`: a stop is completed, from the moment the pause command reaches
  `stop_recording` or the stalled-recording check has signalled: the process ends
  and its capture thread finalizes, converts and leaves. A pause that arrives
  before the launch is in the map finds nothing to stop, and asks for nothing.
- `FootageArchived`, `StrandedRecovers`: what finished becomes an mp4, and a record
  nobody backs is repaired.
- `InOrder`, `InSubmissionOrder`: the order of the table survives the two-step
  claim; the queue implements `OrderedCommands`. That none is passed over is promised
  without failures only; the run allows one, so that half rests on the theorem.
- `IntentKept`: once nothing is on the way for a channel, its paused flag is what
  the user asked last, unless a failure cut a command short.
- `EveryCommandServed`: a command is completed, or a failure cut it short.
- `RetryBudget`: at most two requests and one capped delay for each attempt that
  was left; a permit or an unfinalized recording waits no longer.
- `ProbeVerdict`: a probe that ends without a recording saw no stream in its last
  attempt, and raises an alarm exactly when the room gave no reason of its own.
  One answer is enough for a reason: refused credentials followed by an anonymous
  "offline" count as offline, as `probe.py:82` has it.
- `DeadSourceRetried`: a fresh source is asked for exactly when the tables of
  phrases agree that the source died. Where they disagree (`Overlooked`; see
  Findings) nothing is asked for, and the category is that of something else.
- `PidMeansCapture`: a session row names a process only while some thread works
  for the session, the capture that will finalize it or the scheduler that is
  ending it; only a restart or a deleted channel leaves a pid behind.
- `HeldRowPresent`: while the channel exists, retention takes no row from under a
  check or a capture whose session has not ended.
- `ImplementsSessionLife`: the registry and its table implement `SessionLife`. A
  row exists after its first insert until it is forgotten; an end is never
  taken back, whoever writes afterwards; an open session is forgotten only when
  nobody works for it. An end is `ended_at`: the column `status` does go back when
  a transition computed before the end is written after it, and `SessionLife`
  does not look at it.
- `HandlersEnd`, `SessionsForgotten`: every handler leaves its session, with or
  without an end, and every session row goes in the end, also one without an end
  or from before a restart, unless it keeps a pid.
- `SuppressedShown`: an error is held back only behind the same error, which the
  user can still read as long as the later one would have to be kept.
- `RepeatsNeedARace`: an error is told twice within the window only if the first
  was appended after the comparison, or pushed out of the compared ones.
- `LogsAgree`: a session's own log and the global one tell the same, but for
  routine events of a check, for what is held back, and for one event in flight.
- `NoFalseAlarm`: a channel nothing went wrong with is not shown as faulty, though
  the dashboard reads faults out of the words of messages.
- `ActiveListed`: the cut of the recent list never drops a channel that records
  while there is room for all of those.

### Bounds

- `Rec` = 2: a restart or a retry meets an earlier recording of its channel. All
  ownership properties relate at most two recordings, and the proofs remove the
  bound for `OneCapture` and `OneConversion`.
- `Checker` = 1 with the scheduler's own probes gives two concurrent probes of
  one channel; `MaxSlots` = 1 makes them compete, 2 lets them meet in
  `start_recording`. With every checker busy a check command has no effect.
- `Requests` in `lifecycle_progress` are checks and pauses: the requests that start
  and stop recordings. A paused channel stays paused there; resuming is in
  `lifecycle_restart`, edits and deletion are in `lifecycle_edits`. Symmetry is unsound
  for liveness; instead `LaunchOrder` has the recordings launched in the order of
  their names. `StartBegin` takes any recording not yet born, and neither the
  fairness nor a property tells one from the other, so that each behaviour left
  out has one left in that differs in the names only.
- `MaxCrashes` = 1: what a restart leaves behind is met by one new worker. A
  second restart meets the same kinds of leftovers.
- `Channel` = 1 in the lifecycle: channels interact only through permits and
  the lock, and the scheduler's own check competes for these with a spawned
  one of the same channel. The proofs are for any set of channels.
- `MaxCommands` = 4 with `BatchLimit` = 2: a full batch, a command enqueued
  between SELECT and UPDATE, a second batch, and a remainder. One channel gives
  the most interference between commands.
- `MaxAttempts` = 3, `MaxDelay` = 3: a delay below, at and above the cap. Three
  phrases let one text match a test of each of the three tables; the proof
  of `DeadSourceRetried` is for any set of texts. Without attempts
  (`MaxAttempts` = 0) nothing is retried, and the property says nothing.
- Two sessions: the two checks of one channel that meet, or the session of a
  restart and the next one. Each bug tried against the model showed with two.
- `EventLog`: two channels, of which one may be healthy; `Window` = `LogAge` = 0 and
  `ErrorAge` = 1 with two units of time separate "within the window", "kept" and
  "gone"; `Recent` = 1 and `Shown` = 1 put both limits within reach; `Feed` = 3 lets
  old events leave the dashboard's view. `MaxEvents` = 5 holds a check with its
  source, an error of another session and a conversion. The proofs
  have no bound.
- `SYMMETRY` over recordings, and over the channels and sessions of `event_log`, is
  used in safety runs only; the one `CHOOSE` over events (`Latest`) has exactly one
  candidate, since ids differ.

`CHECK_DEADLOCK FALSE` appears where the system or its bound really stops:
`lifecycle_edits` (deleting a channel while `start()` lists it ends the scheduler
thread, state `dead`), `command_queue` (the table is full), `recording_sessions`
and `session_retention` (the session ids are used up, or the channel is deleted,
and everything is pruned), `event_log` (the log's bound is reached).

### Fairness

Worker threads are Python threads that run on: a thread whose next step is enabled
again and again takes it. It is stated once for each thread, of all its steps, not
of each action: each checker; each recording's capture thread, with the start and
the conversion it may be in; the scheduler between handlers; and the scheduler
inside a check, a start, a conversion or a command. It is strong fairness because a
step may wait for `_record_lock`, which is held for a bounded time and whose
contenders sleep seconds between uses; any other step stays enabled once it is. A
signalled `yt-dlp` exits. The scheduler loop returns to its sweep after each batch of
commands. Nothing is assumed of users, of a stream ending, of a crash, or of a
process that nobody signalled. For the queue: the worker loop runs, and an API
handler that began ends. Liveness runs of the lifecycle have no restart and a
working ffmpeg; the two findings below show what fails without that.

For the sessions: every handler goes on (weak fairness of each thread's `Work`),
a recording process exits (every stream ends), time passes (`Age` is strongly
fair because a handler's own writes interrupt it), and the loop asks for
retention on every iteration (`Prune`, strongly fair because handlers of the
scheduler come in between). Restarts are not fair, and there is at most one.

## Findings

Each is a run whose one property TLC finds violated; `PROJECT.json` quotes the
sentence of the repository it comes from.

- `segmented_retry`: the retry of a segmented recording never starts one. The
  capture thread still has its own entry in the map, so the `start_recording` it
  calls returns at once, after setting the status to recording.
- `recovery_skips_owned`: membership of the map is tested, and the record reset
  later. In between a probe launches a recording, publishes status and pid, and
  its capture thread begins to wait; the reset then takes both from the record of
  that running recording. The property blames the reset alone, and only for a
  record that names the process its channel's entry names.
- `restart_recovers`: when the conversion of an orphan's artifact keeps failing
  the record is never reset, and the channel is never checked again.
- `restart_archives`: a restart between the reset of the record and the end of
  the conversion leaves a source that nothing will ever convert.

One divergence within the code has no run, since no sentence of the repository is
refuted by it. Whether an interrupted recording asks for a fresh source takes a yes
of `should_refresh_stream_source` and a category of the classification that is
retried. Two of the first one's phrases are unknown to `map_recording_failure`:
"manifestloaderror" without a 404 (`services/recorder/service.py:151`), and
"failed to download m3u8 information" with a 404 and no manifest (144). The former
is classified as a failure of the process (or of the room, if the stderr says
"hidden"), and both as one of the credentials if it speaks of cookies or auth: the
source is found dead, and not asked for again. `Overlooked` lists these texts; `DeadSourceRetried` is checked and
proved with them as its exception, so that a change to either table shows.

## Proofs

Checked by TLAPS (Z3, Zenon, LS4), for every set of channels, recordings and
threads, every number of permits, restarts and commands, and every
configuration. The assumptions are `ThreadAssumption` and `ConfigAssumption`
(thread names are distinct, numbers are naturals), `QueueAssumption` (a batch
has room for a command; `None` and `Any` are no channel and no flag, and differ),
`RetryAssumption`, `GrowthAssumption` and `WordsAssumption` (the numbers are
naturals and so is each grown delay, texts are sets of the phrases),
`SessionAssumption` (the scheduler, the checks and the capture threads are
different threads, `None` is none of them), `LogAssumption` (a window no longer
than the retention of a log, which is no longer than that of errors; channels are
finitely many, since the list is compared with their number), `SampleAssumption`
(the sample messages are among those the module knows), and the
`NoneAssumption` of three modules (`None` is none of the values beside it). The
invariants of every run are among the properties proved.

`RecordingLifecycleProofs`:

- `TypeCorrect`: `Spec => []TypeOK`. Type correctness carries more than types: a
  handler at work knows its channel (`Placed`), and what is left of a sweep was
  listed (`SweepListed`), without which the accesses to the row are not typed.
- `OwnershipHolds`: `OneCapture` and `OneConversion` are not inductive: nothing in
  them forbids recovery to start on a recording that is about to be launched, or
  a record to name another channel's recording. `Ownership` adds that a launch
  happens inside the lock and before the capture thread exists
  (`LaunchesLocked`); that a capture thread's channel entry is its own recording
  (`CapturesOwn`); that every row, current, in the snapshot, or held by the API,
  names only published recordings, and of its own channel if they are still
  captured (`RecordsSettled`); and that what recovery works on has no capture
  thread and never gets one (`RecoversLoose`). The last needs the third, since
  recovery reads a row of the snapshot, and the snapshot a row of the table.
  The proof has one lemma (`Stable`) for what every step keeps of a published
  recording; then each action is examined only for the rows it writes.
- `OneCaptureHolds`, `OneConversionHolds`: consequences of `Ownership`.

`RecordingProcessProofs`:

- `SlotsConservedHolds`: by counting. A step leaves the permits and their holders
  alone or moves one permit between them (`SlotMove`); a restart frees all. That
  the holders are finitely many is part of the induction (`SlotInv`), so it needs
  no assumption on the number of threads.
- `WatchingHolds`, and from it `NoStrayHolds` and `NeverRemuxLiveHolds`. Neither
  is inductive: recovery converts what a row of its snapshot names, a row names
  what a launch published minutes ago, and a process runs between its launch and
  the birth of the thread that waits for it. `Watching` adds that finalization
  works on reaped processes (`FinishedReaped`), that what runs has its capture
  thread or is about to get one (`RunningWatched`), that every row, of the
  table, the snapshot, and the API's copy, names what is reaped or waited for
  (`RowsTraced`), and so does what recovery took from a row (`RecoveryTraced`).
  It speaks of one life of the worker: a restart orphans processes, which is
  what recovery is for. The proof first shows the few ways in which a step moves
  a process, its thread and its launch (`ProcessMoves`).
- `SourceKeptHolds`: a thread at the deletion of an artifact has put the mp4 in
  place (`Replaced`), and no other step takes an mp4 away.
- `LaunchRespectsPidHolds` has a hypothesis: the worker is not restarted, or no
  channel is edited (`MaxCrashes = 0`, or `Requests` without `edit` and
  `delete`). Without it the property is false, in 50 steps: an edit reads a row
  that names a process; recovery, on an old snapshot, clears the record; the
  worker dies and leaves the process an orphan; a check of the next worker finds
  a row without a pid; the edit writes its copy back; the check launches a
  second recorder. Each run that restarts is without edits, and the theorem
  covers both kinds. Without edits the argument is that a check under way has
  seen a record whose processes are reaped or waited for (`ProbesBacked`), and
  only a launch writes a pid.

`CommandQueueProofs`:

- `QueueTypeCorrect`: claiming, completing and enqueueing keep the table a
  sequence of commands, and the worker's ids are ids of it.
- `InOrderHolds`: `InOrder` is inductive as it stands, given the types. It says
  that what the worker holds is the oldest of what is left and newer than all it
  has begun, that between SELECT and UPDATE the batch is still pending and after
  it disjoint from what is pending, and that before the first failure nothing
  after `last` is missing.
- `QueueImplements`: each step of the queue is a step of `OrderedCommands` or a
  stutter; the execution of the first of the batch is `last + 1` when nothing can
  be lost, which is `InOrder`'s last conjunct.
- `IntentKeptHolds`: the property speaks of the moment when nothing is on the
  way. `Promises` says at every moment what will have become of the row: it
  keeps the flag the user asked for, because the newest queued command that sets
  the flag, or else the row, says so (`WillBe`), or it goes, because a deletion
  is queued or being carried out (`WillGo`). The API's write and its command,
  the worker's SELECT and UPDATE, and the two writes of a DELETE each pass the
  promise on.

`SourceResolutionProofs`:

- `RetryBudgetHolds`: `RetryBudget` is inductive with the types its arithmetic
  needs (`BudgetInv`), because it counts the request in progress and the delay
  not yet slept apart from those of the attempts that are over. Each delay is at
  most `MaxDelay` (`DelayCapped`), so a new attempt adds at most one of them.
- `DeadSourcesRetried`: for every text, a refresh is both wanted and allowed exactly
  when `SourceFate` says that the source is dead, and an overlooked death is given
  one of three categories that are not retried (`FateDecides`, by the first phrase
  that decides); `RecordingWhole` is the invariant that what records has not broken
  yet.
- `SourceTypeCorrect`: `SourceTypes` adds what the first answer of an attempt is
  and which answers were heard (`said`) when the request without cookies goes
  out, without which the report made of both has no type.
- `ProbeVerdictHolds`: the verdict is written in the last step of a probe, from
  the answers of its last attempt, which `SourceTypes` keeps track of;
  `ProbeInv` adds that the channel says `checking` until then. `AnsweredVerdict`
  is the core: what ends a probe is reported as what all the answers to its last
  attempt say.

`RecordingSessionsProofs`:

- The steps of the handlers are first brought into forms, which say what a step
  does to the rows and to one thread: a move without consequences (`Plain`), a
  transition about to be written (`Transits`), an end about to be written
  (`Finishes`). `StepForms` is the case analysis over `Next`; the rest of the
  proof knows the three forms and the nine actions that have none.
- `TypeCorrect`: with `Placed`, that a working thread has a session, a capture
  thread only its own, and where its handler goes on after a write.
- `HeldRowsPresent`: the property is not inductive, because retention judges a
  row by its age, its status and its pid, which are written by three steps of
  several threads. `IInv` adds that a session has one thread, but for the
  scheduler that is about to end it (`Shared`); that object and row end
  together, but for the write that is on its way (`ObjEnded`, `RowEnded`); that
  from its launch on the row of a recording names the process (`Launches`,
  `Records`), so that a row grows old under a thread only if retention leaves it
  alone (`Ageing`). This rests on the assumption in `Age` that only a recording
  process takes days. The last four say nothing once the channel is deleted or
  the scheduler is ending the session: there a capture may well lose its row.
- `SessionsImplement`: each step of `RecordingSessions` is one of `SessionLife`.
  The steps that write, insert and delete rows are its `End`, `Open` and
  `Forget`; all others leave the rows' life alone. `Forget` asks for `IInv`
  again (`Unexpired`), and `Open` that no row is inserted twice.

`SessionProcessProofs`:

- `PidsMeanCaptures`: the process of a session is noted three times, in the
  object, in a write on its way, and in the row. `Traced` accounts for each: an
  object names a process only while a thread launches or records (`ObjCarried`),
  a write only that of a launch or of a recovery that met a recording
  (`WritesRight`), a row as long as its thread still has to write that the
  process is gone (`RowsAccounted`). A launch whose write finds no row would
  leave the object with a process and no thread; that this does not happen is
  `RowsYoung` (under a check no row grows old enough for retention). That a
  check's transitions copy no process into the row uses `Shared`, one thread for
  a session. The steps of a thread are brought into one form (`Steps`), for
  which the invariant is shown once.

`EventLogProofs`:

- `TypeCorrect`: with `Placed`, that a session a handler has begun to work for has
  a channel, without which its events have no type.
- `SuppressedErrorsAreShown`: inductive given the types: an error is withheld
  because of one in the log, and retention keeps that one as long as the property
  speaks of it; the assumption on the three ages is what makes that so.
- `BothLogsAgree`: `LogsAgree` compares sets of events per session. It is split
  into three facts about single events (`InParts`), and strengthened by what is
  in flight (`InFlight`: a pending event is its handler's own and of this
  moment, and in the global log, or withheld, once it is due for the session's),
  by which sessions have no row (`RowsLeft`) and by those nobody heard of yet
  (`Unheard`). The lemma `TellingAgrees` is the core: each registry operation is
  an instance of it.
- `RepeatsRaced`: `RaceInv` says the same of the error that is about to be
  appended as of those in the log, and `InLog` that the log is finite with
  distinct positions, so that "among the newest" can be counted. What a
  comparison saw stays seen (`RaceGrows`), and retention takes an older error
  first (`RacePruned`).
- `NoFalseAlarms`: the dashboard looks at the newest event, the category and the
  words of any event of a channel. `AlarmInv` says of each place these come
  from, the channel, its events, the pending one and the session's sticky
  category, that without a failure it blames nobody; the words of a check that
  resolves a source do, and are noise by the dashboard's own rule. That there is
  a newest event needs a finite log.
- `ActiveAreListed`: needs no invariant but the types. Channels that record sort
  before all others, so those placed before one of them are among them, and are
  fewer than the list is long.

Only model-checked: liveness (`StopCompletes`, `FootageArchived`,
`StrandedRecovers`, `EveryCommandServed`, `HandlersEnd`, `SessionsForgotten`),
which the prover cannot do under fairness, as it cannot do ENABLED; and the four
findings, whose properties are false. All other properties of the runs, the
invariants, the action properties and the two refinements, are proved.
Facts about what a recursive definition computes for every input would need
induction over data and are out of the prover's reach; the modules use functions,
sets and quantifiers instead of recursion.

## Not modelled

- Time in the lifecycle: `next_check_at`, jitter, the rate limit between probes
  and the age of a file are choices. `created_at` of commands is taken to grow
  with the id, since one process enqueues them and the id breaks ties.
- In `SourceResolution`, timeouts of the resolve request as numbers of seconds, and
  the platforms other than the one that resolves sources.
- In `EventLog`, two threads at one session: the scheduler's end of a stalled
  recording (`recovery.py:106-127`) and the capture thread's finalization of it
  (`capture.py:270` on) follow each other there, and are concurrent in the code;
  `RecordingSessions` has them concurrent, without the logs. An event has one stamp
  for both logs, the code takes two (`registry.py:228`, `240`). The dashboard's
  count of a `source_status` of "error" or "failed" (`serializers.py:307`), which is
  the platform's word for a room and never one of these.
- In `EventLog` also: restarts, sessions opened by recovery, and the events that only the
  global log gets from commands and edits; names, which the dashboard's sort
  uses last.
- Renaming a channel: to a check under way it is a delete of the old id, which
  `lifecycle_edits` has; the new id is another channel. `clear_error_messages` of
  the boot sequence.
- `ManualRecording`: its jobs share nothing with the scheduler's recordings.
- HTML parsing, configuration, the frontend and the scripts: input, output or
  presentation.
- The file-based stores (`storage/file_store.py`, `command_queue.py`,
  `event_store.py`, `event_repository.py`): nothing constructs them.
- Signal handling of the worker: a SIGTERM and a SIGKILL are both `Crash`, which
  may come at any step; threads are daemons, so neither waits for them.

## Plan

Done, in this order: `RecordingLifecycle` with its proofs; `CommandQueue` refining
`OrderedCommands`, with its proofs; `SourceResolution` (with the classification)
and its proofs; `RecordingSessions` refining `SessionLife`, with its proofs;
`EventLog` with retention, suppression and the dashboard, and its proofs; then the
invariants and action properties of every run that were only checked. What is
left:

1. `ManualRecording`: jobs of the manual recorder, which are started and stopped
   by requests while their threads end.
2. Renaming, with the read-modify-writes of `ChannelEdit`: no two rows of one id.
3. Jitter as a function checked against its stated range.

Proofs to come: that a restart alone keeps what `Watching` says of the recordings
published since (with it `NoStray` and `NeverRemuxLive` would speak of later lives of
the worker, too), and the same for `PidMeansCapture`.
