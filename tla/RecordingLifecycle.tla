------------------------- MODULE RecordingLifecycle -------------------------
(***************************************************************************)
(* The life of a recording in the worker process: a channel is probed,     *)
(* yt-dlp is launched for it, the capture thread waits for the process,    *)
(* finalizes the channel record and remuxes the artifact to mp4, while the *)
(* scheduler loop sweeps the channels, recovers stale ones and executes    *)
(* user commands, the API process edits the same records, and the worker   *)
(* may be restarted at any time.                                           *)
(*                                                                         *)
(* Threads.  Checker: the threads trigger_check spawns.  Sched: the        *)
(* scheduler thread (it also probes and converts synchronously).  Every    *)
(* recording in Rec has one capture thread, named like the recording; the  *)
(* recording is also the pid of its process and the stem of its files.     *)
(*                                                                         *)
(* One step of a thread is one SQLite transaction, one region under        *)
(* _record_lock, or one file-system call, together with the in-memory      *)
(* reads next to it; a program counter value names the next such step.     *)
(* Session bookkeeping is left out here: no step of this module reads it.  *)
(*                                                                         *)
(* A definition marked "Mutant" is a plausible bug of the definition that  *)
(* follows it; no action uses it, PROJECT.json says which property it must *)
(* break when it takes that definition's place.                            *)
(***************************************************************************)
EXTENDS Naturals, FiniteSets

CONSTANTS
  Channel,          \* channel ids
  Rec,              \* recordings (process ids): the bound on launches
  Checker,          \* threads of trigger_check alive at once: a bound
  Sched,            \* the scheduler thread
  None,
  MaxSlots,         \* config.max_concurrent_probes
  MaxCrashes,       \* worker restarts explored: a bound
  Requests,         \* user requests that occur, a subset of RequestKind
  ConvertMayFail,   \* ffmpeg may fail or time out on an existing source
  DeleteSource,     \* config.delete_source_after_convert
  KeepFailedSource  \* config.keep_failed_source

RequestKind == {"pause", "resume", "check", "delete", "edit"}
Prober == Checker \cup {Sched}
Thread == Prober \cup Rec

ASSUME ThreadAssumption ==
  /\ Sched \notin Checker
  /\ Prober \cap Rec = {}
  /\ None \notin Thread \cup Channel

ASSUME ConfigAssumption ==
  /\ MaxSlots \in Nat /\ MaxCrashes \in Nat
  /\ Requests \subseteq RequestKind
  /\ {ConvertMayFail, DeleteSource, KeepFailedSource} \subseteq BOOLEAN

VARIABLES
  db,       \* the channels table: a row per channel, None once deleted
  active,   \* SchedulerService._active_processes
  lock,     \* holder of _record_lock across steps of start_recording
  slots,    \* free permits of _probe_slots
  proc,     \* state of each recording's process
  disk,     \* files of each recording: the capture artifact, the mp4
  thr,      \* program counter and locals of every worker thread
  sweep,    \* the scheduler's list_channels() snapshot and what is left of it
  api,      \* the API's read-modify-write in flight between two transactions
  crashes

vars == <<db, active, lock, slots, proc, disk, thr, sweep, api, crashes>>

Status == {"idle", "checking", "recording", "paused", "error"}
Row == [paused : BOOLEAN, status : Status, pid : Rec \cup {None},
        file : Rec \cup {None}, mp4 : BOOLEAN]   \* mp4: last_recorded_file is the mp4

CheckPc == {"acquire", "load", "busy", "begin", "resolve", "online", "offline"}
StartPc == {"start", "publish", "nosource"}
CapturePc == {"wait", "loadrow", "settle", "classify", "reacquire", "fail",
              "forget", "pop"}
ConvertPc == {"convert", "remux", "prune", "record"}
SchedPc == {"boot", "warmup", "command", "trigger", "stop", "remove", "tick",
            "recover", "adopt", "reset", "dead"}
Pc == {"idle"} \cup CheckPc \cup StartPc \cup CapturePc \cup ConvertPc \cup SchedPc

Why == {"none", "online", "nourl", "offline", "error", "clean", "broken",
        "stopped", "unstable", "unavailable", "salvage", "pause", "delete"}

\* chan, paused, names: locals read from the channel row (names: the row's
\* last_recorded_file is this recording's artifact); rec: the recording being
\* launched or converted; salvaged: converted_retry_artifact_path is set.  A
\* local the rest of the handler does not read is reset.
Local == [pc : Pc, chan : Channel \cup {None}, paused : BOOLEAN, names : BOOLEAN,
          rec : Rec \cup {None}, why : Why, salvaged : BOOLEAN]
Idle == [pc |-> "idle", chan |-> None, paused |-> FALSE, names |-> FALSE,
         rec |-> None, why |-> "none", salvaged |-> FALSE]
At(p) == [Idle EXCEPT !.pc = p]
On(p, c) == [Idle EXCEPT !.pc = p, !.chan = c]
Ending(me) == [On("pop", me.chan) EXCEPT !.rec = me.rec]   \* only the pop is left

NoApi == [op |-> "none", chan |-> None, row |-> None]

-----------------------------------------------------------------------------
(* Reading and writing the shared state                                    *)

Present(c) == db[c] # None
Unpaused(b) == IF b THEN "paused" ELSE "idle"

\* channel_service.update_status on a channel that may be gone; the callers
\* that need the KeyError test Present themselves.
SetStatus(c, s) ==
  db' = IF Present(c) THEN [db EXCEPT ![c].status = s] ELSE db
Settle(c, s) ==
  db' = IF Present(c) THEN [db EXCEPT ![c].status = s, ![c].pid = None] ELSE db
SetPaused(c, b) ==
  db' = [db EXCEPT ![c].paused = b, ![c].status = Unpaused(b)]

\* Mutant: the entry is dropped when the process exits, before finalization
OwnedWhileRunning(c) == active[c] # None /\ thr[active[c]].pc = "wait"
\* Mutant: the database is asked instead of the worker's own map
OwnedOnRecord(c) == active[c] # None /\ Present(c) /\ db[c].pid = active[c]

\* channel_id in _active_processes: some capture thread owns the channel
Owned(c) == active[c] # None

\* os.kill(pid, 0): a process that exited is seen until its parent reaps it
PidExists(p) == proc[p] \in {"running", "stopping", "exited"}
\* Mutant: the abandoned process is forgotten but not signalled
ForgetProcess(p) == UNCHANGED proc /\ p \in Rec

Terminate(p) ==
  proc' = IF proc[p] = "running" THEN [proc EXCEPT ![p] = "stopping"] ELSE proc

\* resolve_capture_artifact
Artifact(r) == "src" \in disk[r]

Become(t, me) == thr' = [thr EXCEPT ![t] = me]
Goto(t, p) == Become(t, [thr[t] EXCEPT !.pc = p])

\* After a check the scheduler goes on with its sweep, a spawned thread ends
Rest(k) == IF k = Sched THEN At("tick") ELSE Idle

\* Mutant: only spawned threads release the slot
LeaveSpawnedCheck(k) ==
  /\ slots' = IF k = Sched THEN slots ELSE slots + 1
  /\ Become(k, Rest(k))

\* check_channel ends and releases the slot (finally)
LeaveCheck(k) ==
  /\ slots' = slots + 1
  /\ Become(k, Rest(k))

\* start_recording returns to check_channel or to _finalize_recording, which
\* both return at once.
AfterStart(t) == IF t \in Prober THEN Rest(t) ELSE Ending(thr[t])
ReleaseSlot(t) == slots' = IF t \in Prober THEN slots + 1 ELSE slots
LeaveStart(t) == ReleaseSlot(t) /\ Become(t, AfterStart(t))

\* convert_recording returns to recover_stale_recording or _finalize_recording
AfterConvert(t) ==
  LET me == thr[t] IN
  IF t = Sched THEN At("tick")
  ELSE IF me.why = "unstable" THEN [me EXCEPT !.pc = "reacquire", !.salvaged = TRUE]
  ELSE Ending(me)
LeaveConvert(t) == Become(t, AfterConvert(t))

Init ==
  /\ db = [c \in Channel |-> [paused |-> FALSE, status |-> "idle", pid |-> None,
                              file |-> None, mp4 |-> FALSE]]
  /\ active = [c \in Channel |-> None]
  /\ lock = None
  /\ slots = MaxSlots
  /\ proc = [r \in Rec |-> "unborn"]
  /\ disk = [r \in Rec |-> {}]
  /\ thr = [t \in Thread |-> IF t = Sched THEN At("boot") ELSE Idle]
  /\ sweep = [snap |-> [c \in Channel |-> None], todo |-> {}, boot |-> TRUE]
  /\ api = NoApi
  /\ crashes = 0

-----------------------------------------------------------------------------
(* ProbeHandler.check_channel, run by a spawned thread or by the scheduler *)

\* Mutant: the finally clause also covers the failed acquire
CheckAcquireUnbalanced(k) ==
  /\ thr[k].pc = "acquire"
  /\ \/ /\ slots > 0
        /\ slots' = slots - 1
        /\ Goto(k, "load")
     \/ slots = 0 /\ LeaveCheck(k)
  /\ UNCHANGED <<db, active, lock, proc, disk, sweep, api, crashes>>

\* Mutant: the permit is taken without looking
CheckAcquireUnguarded(k) ==
  /\ thr[k].pc = "acquire"
  /\ slots' = slots - 1
  /\ Goto(k, "load")
  /\ UNCHANGED <<db, active, lock, proc, disk, sweep, api, crashes>>

CheckAcquire(k) ==
  /\ thr[k].pc = "acquire"
  /\ \/ /\ slots > 0
        /\ slots' = slots - 1
        /\ Goto(k, "load")
     \/ /\ slots = 0                            \* no permit: the check is dropped
        /\ slots' = slots
        /\ Become(k, Rest(k))
  /\ UNCHANGED <<db, active, lock, proc, disk, sweep, api, crashes>>

\* Mutant: an orphan known only from the record is not seen
ClaimedInMemory(c) == Owned(c)

\* a recording is believed to run: by this worker's map or by the record
Claimed(c) == Owned(c) \/ db[c].pid # None

CheckLoad(k) ==
  LET c == thr[k].chan IN
  /\ thr[k].pc = "load"
  /\ \/ /\ ~Present(c)
        /\ LeaveCheck(k)
     \/ /\ Present(c)
        /\ Claimed(c)
        /\ Goto(k, "busy") /\ slots' = slots
     \/ /\ Present(c)
        /\ ~Claimed(c)
        /\ Become(k, [thr[k] EXCEPT !.pc = "begin", !.paused = db[c].paused])
        /\ slots' = slots
  /\ UNCHANGED <<db, active, lock, proc, disk, sweep, api, crashes>>

CheckBusy(k) ==
  /\ thr[k].pc = "busy"
  /\ SetStatus(thr[k].chan, "recording")
  /\ LeaveCheck(k)
  /\ UNCHANGED <<active, lock, proc, disk, sweep, api, crashes>>

CheckBegin(k) ==
  LET c == thr[k].chan IN
  /\ thr[k].pc = "begin"
  /\ SetStatus(c, "checking")
  /\ IF Present(c) THEN Goto(k, "resolve") /\ slots' = slots ELSE LeaveCheck(k)
  /\ UNCHANGED <<active, lock, proc, disk, sweep, api, crashes>>

\* acquire_resolved_source answers after an arbitrary time, or raises
CheckResolve(k) ==
  /\ thr[k].pc = "resolve"
  /\ \/ /\ \E w \in {"online", "nourl", "offline", "error"} :
             Become(k, IF w \in {"online", "nourl"}
                       THEN [On("online", thr[k].chan) EXCEPT !.why = w]
                       ELSE [thr[k] EXCEPT !.pc = "offline", !.why = w])
        /\ slots' = slots
     \/ LeaveCheck(k)
  /\ UNCHANGED <<db, active, lock, proc, disk, sweep, api, crashes>>

CheckOnline(k) ==
  LET c == thr[k].chan IN
  /\ thr[k].pc = "online"
  /\ SetStatus(c, IF Owned(c) THEN "recording" ELSE "checking")
  /\ IF Present(c) THEN Goto(k, "start") /\ slots' = slots ELSE LeaveCheck(k)
  /\ UNCHANGED <<active, lock, proc, disk, sweep, api, crashes>>

CheckOffline(k) ==
  /\ thr[k].pc = "offline"
  /\ SetStatus(thr[k].chan, IF thr[k].paused THEN "paused"
                            ELSE IF thr[k].why = "offline" THEN "idle" ELSE "error")
  /\ LeaveCheck(k)
  /\ UNCHANGED <<active, lock, proc, disk, sweep, api, crashes>>

-----------------------------------------------------------------------------
(* CaptureHandler.start_recording, called by a probe or by a segmented     *)
(* retry; _record_lock is held from StartBegin to the step that ends it.   *)

StartBegin(t) ==
  LET c == thr[t].chan IN
  /\ thr[t].pc = "start"
  /\ lock = None
  /\ \/ /\ Owned(c)
        /\ SetStatus(c, "recording")
        /\ LeaveStart(t)
        /\ UNCHANGED <<active, lock, proc>>
     \/ /\ ~Owned(c) /\ ~Present(c)
        /\ LeaveStart(t)
        /\ UNCHANGED <<db, active, lock, proc>>
     \/ /\ ~Owned(c) /\ Present(c) /\ thr[t].why = "nourl"
        /\ lock' = t
        /\ Become(t, [thr[t] EXCEPT !.pc = "nosource", !.paused = db[c].paused])
        /\ UNCHANGED <<db, active, proc, slots>>
     \/ /\ ~Owned(c) /\ Present(c) /\ thr[t].why = "online"
        /\ \E r \in Rec :
             /\ proc[r] = "unborn"
             /\ proc' = [proc EXCEPT ![r] = "running"]
             /\ active' = [active EXCEPT ![c] = r]
             /\ Become(t, [thr[t] EXCEPT !.pc = "publish", !.rec = r])
        /\ lock' = t
        /\ UNCHANGED <<db, slots>>
     \/ /\ ~Owned(c) /\ Present(c) /\ thr[t].why = "online"
        /\ LeaveStart(t)                   \* Popen raises
        /\ UNCHANGED <<db, active, lock, proc>>
  /\ UNCHANGED <<disk, sweep, api, crashes>>

StartPublish(t) ==
  LET c == thr[t].chan
      r == thr[t].rec
      capture == [On("wait", c) EXCEPT !.rec = r] IN   \* the thread spawned
  /\ thr[t].pc = "publish"
  /\ \/ /\ Present(c)
        /\ db' = [db EXCEPT ![c].status = "recording", ![c].pid = r,
                            ![c].file = r, ![c].mp4 = FALSE]
        /\ ReleaseSlot(t)
        /\ thr' = [thr EXCEPT ![r] = capture, ![t] = AfterStart(t)]
        /\ UNCHANGED <<active, proc>>
     \/ /\ ~Present(c)                          \* abandoned: channel was removed
        /\ active' = [active EXCEPT ![c] = None]
        /\ Terminate(r)
        /\ LeaveStart(t)
        /\ UNCHANGED db
  /\ lock' = None
  /\ UNCHANGED <<disk, sweep, api, crashes>>

StartNoSource(t) ==
  /\ thr[t].pc = "nosource"
  /\ \E s \in {"idle", "error"} :
       SetStatus(thr[t].chan, IF thr[t].paused THEN "paused" ELSE s)
  /\ lock' = None
  /\ LeaveStart(t)
  /\ UNCHANGED <<active, proc, disk, sweep, api, crashes>>

-----------------------------------------------------------------------------
(* The capture thread: _wait_for_recording and _finalize_recording         *)

\* Mutant: finalization starts once the stop was requested
CaptureWaitEager(r) ==
  /\ thr[r].pc = "wait"
  /\ proc[r] \in {"stopping", "exited"}
  /\ Become(r, [thr[r] EXCEPT !.pc = "loadrow", !.why = "clean"])
  /\ UNCHANGED <<db, active, lock, slots, proc, disk, sweep, api, crashes>>

CaptureWait(r) ==
  /\ thr[r].pc = "wait"
  /\ proc[r] = "exited"
  /\ proc' = [proc EXCEPT ![r] = "reaped"]
  /\ \E w \in {"clean", "broken"} :             \* return code zero or not
       Become(r, [thr[r] EXCEPT !.pc = "loadrow", !.why = w])
  /\ UNCHANGED <<db, active, lock, slots, disk, sweep, api, crashes>>

Converting(me, w) == [Ending(me) EXCEPT !.pc = "convert", !.why = w]

CaptureLoad(r) ==
  LET c == thr[r].chan IN
  /\ thr[r].pc = "loadrow"
  /\ Become(r, IF Present(c)
               THEN [thr[r] EXCEPT !.pc = "settle", !.paused = db[c].paused,
                                   !.names = (db[c].file = r /\ ~db[c].mp4)]
               ELSE Ending(thr[r]))
  /\ UNCHANGED <<db, active, lock, slots, proc, disk, sweep, api, crashes>>

CaptureSettle(r) ==
  LET me == thr[r] IN
  /\ me.pc = "settle"
  /\ Settle(me.chan, Unpaused(me.paused))
  /\ Become(r, IF ~Present(me.chan) THEN Ending(me)
               ELSE IF me.why = "clean" THEN Converting(me, "clean")
               ELSE IF ~me.paused THEN [me EXCEPT !.pc = "classify"]
               ELSE IF Artifact(r) THEN Converting(me, "stopped")
               ELSE Ending(me))
  /\ UNCHANGED <<active, lock, slots, proc, disk, sweep, api, crashes>>

CaptureClassify(r) ==
  /\ thr[r].pc = "classify"
  /\ \/ Become(r, [thr[r] EXCEPT !.why = "unstable",   \* should_reacquire
                      !.pc = IF Artifact(r) THEN "convert" ELSE "reacquire"])
     \/ \E w \in {"unavailable", "error"} :
          Become(r, [thr[r] EXCEPT !.why = w, !.pc = "fail"])
  /\ UNCHANGED <<db, active, lock, slots, proc, disk, sweep, api, crashes>>

\* acquire_resolved_source: a fresh url, none (or the old one), an exception
CaptureReacquire(r) ==
  /\ thr[r].pc = "reacquire"
  /\ \/ Become(r, [Ending(thr[r]) EXCEPT !.pc = "start", !.why = "online"])
     \/ Become(r, [thr[r] EXCEPT !.pc = "fail", !.why = "error"])
     \/ Become(r, Ending(thr[r]))
  /\ UNCHANGED <<db, active, lock, slots, proc, disk, sweep, api, crashes>>

\* Mutant: a failed recording is not salvaged
CaptureFailDrops(r) ==
  /\ thr[r].pc = "fail"
  /\ Settle(thr[r].chan, "error")
  /\ Become(r, Ending(thr[r]))
  /\ UNCHANGED <<active, lock, slots, proc, disk, sweep, api, crashes>>

CaptureFail(r) ==
  LET me == thr[r] IN
  /\ me.pc = "fail"
  /\ Settle(me.chan, IF me.why # "unavailable" THEN "error" ELSE Unpaused(me.paused))
  /\ Become(r, IF Artifact(r) /\ ~me.salvaged THEN Converting(me, "salvage")
               ELSE IF me.names THEN [Ending(me) EXCEPT !.pc = "forget"]
               ELSE Ending(me))
  /\ UNCHANGED <<active, lock, slots, proc, disk, sweep, api, crashes>>

\* _clear_missing_recording_state
CaptureForget(r) ==
  LET c == thr[r].chan IN
  /\ thr[r].pc = "forget"
  /\ db' = IF Present(c) THEN [db EXCEPT ![c].file = None, ![c].mp4 = FALSE] ELSE db
  /\ Become(r, Ending(thr[r]))
  /\ UNCHANGED <<active, lock, slots, proc, disk, sweep, api, crashes>>

CapturePop(r) ==
  LET c == thr[r].chan IN
  /\ thr[r].pc = "pop"
  /\ lock = None
  /\ active' = IF active[c] = r THEN [active EXCEPT ![c] = None] ELSE active
  /\ Become(r, Idle)
  /\ UNCHANGED <<db, lock, slots, proc, disk, sweep, api, crashes>>

-----------------------------------------------------------------------------
(* CaptureHandler.convert_recording, in a capture thread or the scheduler  *)

ConvertBegin(t) ==
  /\ thr[t].pc = "convert"
  /\ IF Present(thr[t].chan) THEN Goto(t, "remux") ELSE LeaveConvert(t)
  /\ UNCHANGED <<db, active, lock, slots, proc, disk, sweep, api, crashes>>

\* Mutant: the failed conversion goes on to delete its source
ConvertFailPrunes(t) ==
  /\ thr[t].pc = "remux"
  /\ Goto(t, "prune")
  /\ UNCHANGED <<db, active, lock, slots, proc, disk, sweep, api, crashes>>

\* ffmpeg missing, timed out or failed: the temporary file is removed
ConvertFail(t) ==
  /\ thr[t].pc = "remux"
  /\ ConvertMayFail \/ ~Artifact(thr[t].rec)
  /\ LeaveConvert(t)
  /\ UNCHANGED <<db, active, lock, slots, proc, disk, sweep, api, crashes>>

\* ffmpeg wrote the temporary file and os.replace put it in place
ConvertReplace(t) ==
  LET r == thr[t].rec IN
  /\ thr[t].pc = "remux"
  /\ Artifact(r)
  /\ disk' = [disk EXCEPT ![r] = @ \cup {"mp4"}]
  /\ Goto(t, "prune")
  /\ UNCHANGED <<db, active, lock, slots, proc, sweep, api, crashes>>

ConvertPrune(t) ==
  LET me == thr[t]
      failed == me.why \notin {"clean", "stopped"} IN
  /\ me.pc = "prune"
  /\ disk' = IF DeleteSource /\ (~failed \/ ~KeepFailedSource)
             THEN [disk EXCEPT ![me.rec] = @ \ {"src"}]
             ELSE disk
  /\ Goto(t, "record")
  /\ UNCHANGED <<db, active, lock, slots, proc, sweep, api, crashes>>

ConvertRecord(t) ==
  LET c == thr[t].chan IN
  /\ thr[t].pc = "record"
  /\ db' = IF Present(c) THEN [db EXCEPT ![c].file = thr[t].rec, ![c].mp4 = TRUE] ELSE db
  /\ LeaveConvert(t)
  /\ UNCHANGED <<active, lock, slots, proc, disk, sweep, api, crashes>>

-----------------------------------------------------------------------------
(* The recorder process yt-dlp, external                                   *)

ProcessWrites(r) ==
  /\ proc[r] = "running"
  /\ ~Artifact(r)
  /\ disk' = [disk EXCEPT ![r] = @ \cup {"src"}]
  /\ UNCHANGED <<db, active, lock, slots, proc, thr, sweep, api, crashes>>

\* The worker that launched the process reaps it through its capture thread;
\* an orphan of an earlier worker is reaped by init.
Watched(r) == thr[r].pc = "wait" \/ \E t \in Thread : thr[t].pc = "publish" /\ thr[t].rec = r

ProcessExits(r) ==
  /\ proc[r] \in {"running", "stopping"}
  /\ proc' = [proc EXCEPT ![r] = IF Watched(r) THEN "exited" ELSE "reaped"]
  /\ UNCHANGED <<db, active, lock, slots, disk, thr, sweep, api, crashes>>

-----------------------------------------------------------------------------
(* The scheduler thread: start(), _run_loop, _tick_channel, RecoveryHandler *)

Sched_at(p) == thr[Sched].pc = p
SchedGoto(p) == Become(Sched, At(p))
Listed == {c \in Channel : Present(c)}

\* list_channels(): the sweep works on this snapshot until it ends
TakeSnapshot(boot) ==
  /\ sweep' = [snap |-> db, todo |-> Listed, boot |-> boot]
  /\ SchedGoto("tick")

SchedBoot ==
  /\ Sched_at("boot")
  /\ TakeSnapshot(TRUE)
  /\ UNCHANGED <<db, active, lock, slots, proc, disk, api, crashes>>

SchedList ==
  /\ Sched_at("command")
  /\ TakeSnapshot(FALSE)
  /\ UNCHANGED <<db, active, lock, slots, proc, disk, api, crashes>>

\* One channel of the snapshot: reconcile_channels at boot, _tick_channel later
Visiting(c) == Sched_at("tick") /\ c \in sweep.todo
Visited(c) == sweep' = [sweep EXCEPT !.todo = @ \ {c}, !.snap[c] = None]
Alive(row) == row.pid # None /\ PidExists(row.pid)
\* Mutant: only a pid on record makes a channel stale
StaleByPid(row) == row.pid # None
Stale(row) == row.pid # None \/ row.status = "recording"

VisitAlive(c) ==
  LET row == sweep.snap[c] IN
  /\ Visiting(c) /\ lock = None
  /\ Alive(row)
  /\ \/ UNCHANGED proc
     \/ row.status = "recording" /\ Terminate(row.pid)    \* stalled: SIGTERM only
  /\ Visited(c)
  /\ UNCHANGED <<db, active, lock, slots, disk, thr, api, crashes>>

VisitSkip(c) ==
  LET row == sweep.snap[c] IN
  /\ Visiting(c) /\ lock = None
  /\ ~Alive(row)
  /\ Owned(c) \/ ~Stale(row)
  /\ Visited(c)
  /\ UNCHANGED <<db, active, lock, slots, proc, disk, thr, api, crashes>>

VisitStale(c) ==
  LET row == sweep.snap[c] IN
  /\ Visiting(c) /\ lock = None
  /\ ~Alive(row) /\ ~Owned(c) /\ Stale(row)
  /\ Visited(c)
  /\ Become(Sched, [On("recover", c) EXCEPT !.rec = row.file, !.paused = row.paused,
                                            !.names = ~row.mp4])
  /\ UNCHANGED <<db, active, lock, slots, proc, disk, api, crashes>>

VisitDue(c) ==
  LET row == sweep.snap[c] IN
  /\ Visiting(c) /\ lock = None
  /\ ~sweep.boot
  /\ ~Owned(c) /\ ~Stale(row) /\ ~row.paused
  /\ Visited(c)
  /\ Become(Sched, On("acquire", c))
  /\ UNCHANGED <<db, active, lock, slots, proc, disk, api, crashes>>

\* After the boot sweep, schedule_startup_warmup_checks lists the channels anew
SweepDone ==
  /\ Sched_at("tick") /\ sweep.todo = {}
  /\ IF sweep.boot
     THEN /\ sweep' = [sweep EXCEPT !.todo = {c \in Listed : ~db[c].paused /\ ~Stale(db[c])}]
          /\ SchedGoto("warmup")
     ELSE sweep' = sweep /\ SchedGoto("command")
  /\ UNCHANGED <<db, active, lock, slots, proc, disk, api, crashes>>

\* recover_stale_recording: pick the branch from the files of the snapshot row
SchedRecover ==
  LET me == thr[Sched]
      r == me.rec
      found == r # None /\ (IF me.names THEN Artifact(r) ELSE "mp4" \in disk[r]) IN
  /\ Sched_at("recover")
  /\ Become(Sched, [me EXCEPT !.why = "salvage",
                     !.pc = IF ~found THEN "reset"
                            ELSE IF "mp4" \in disk[r] THEN "adopt" ELSE "convert"])
  /\ UNCHANGED <<db, active, lock, slots, proc, disk, sweep, api, crashes>>

\* Both status updates raise KeyError on a channel that is gone: the loop logs
\* it and goes on, start() gives up and the scheduler never runs.
AfterRecovery(c) == SchedGoto(IF ~Present(c) /\ sweep.boot THEN "dead" ELSE "tick")

SchedAdopt ==
  LET me == thr[Sched] IN
  /\ Sched_at("adopt")
  /\ db' = IF Present(me.chan)
           THEN [db EXCEPT ![me.chan].status = Unpaused(me.paused), ![me.chan].pid = None,
                           ![me.chan].file = me.rec, ![me.chan].mp4 = TRUE]
           ELSE db
  /\ AfterRecovery(me.chan)
  /\ UNCHANGED <<active, lock, slots, proc, disk, sweep, api, crashes>>

SchedReset ==
  LET me == thr[Sched] IN
  /\ Sched_at("reset")
  /\ Settle(me.chan, Unpaused(me.paused))
  /\ AfterRecovery(me.chan)
  /\ UNCHANGED <<active, lock, slots, proc, disk, sweep, api, crashes>>

\* Moves next_check_at, which this module abstracts, unless the check is due
\* sooner; a channel deleted since the list was read makes start() give up.
WarmupChannel(c) ==
  /\ Sched_at("warmup") /\ c \in sweep.todo
  /\ Visited(c)
  /\ thr' = thr \/ (~Present(c) /\ SchedGoto("dead"))
  /\ UNCHANGED <<db, active, lock, slots, proc, disk, api, crashes>>

WarmupDone ==
  /\ Sched_at("warmup") /\ sweep.todo = {}
  /\ SchedGoto("command")
  /\ UNCHANGED <<db, active, lock, slots, proc, disk, sweep, api, crashes>>

-----------------------------------------------------------------------------
(* CommandHandler.process_commands.  CommandQueue models the queue; here   *)
(* any request the API may have enqueued can be the next one claimed.      *)

\* trigger_check spawns a probe thread unless one is believed to be at work;
\* with all of Checker busy (a bound) the request has no effect.
MaySpawn(c) ==
  /\ Present(c)
  /\ db[c].status \notin {"checking", "recording"}
  /\ \E k \in Checker : thr[k].pc = "idle"

TriggerCheck(c) ==
  IF MaySpawn(c)
  THEN \E k \in Checker :
         /\ thr[k].pc = "idle"
         /\ thr' = [thr EXCEPT ![k] = On("acquire", c), ![Sched] = At("command")]
  ELSE SchedGoto("command")

CommandCheck(c) ==
  /\ "check" \in Requests
  /\ Sched_at("command")
  /\ TriggerCheck(c)
  /\ UNCHANGED <<db, active, lock, slots, proc, disk, sweep, api, crashes>>

CommandResume(c) ==
  /\ "resume" \in Requests
  /\ Sched_at("command") /\ Present(c)
  /\ SetPaused(c, FALSE)
  /\ Become(Sched, On("trigger", c))
  /\ UNCHANGED <<active, lock, slots, proc, disk, sweep, api, crashes>>

CommandTrigger ==
  /\ Sched_at("trigger")
  /\ TriggerCheck(thr[Sched].chan)
  /\ UNCHANGED <<db, active, lock, slots, proc, disk, sweep, api, crashes>>

\* pause_channel, also the first half of a DELETE
CommandPause(c, w) ==
  /\ w \in Requests \cap {"pause", "delete"}
  /\ Sched_at("command") /\ Present(c)
  /\ SetPaused(c, TRUE)
  /\ Become(Sched, [On("stop", c) EXCEPT !.why = w])
  /\ UNCHANGED <<active, lock, slots, proc, disk, sweep, api, crashes>>

\* Mutant: the process is looked up in the record, not in the worker's own map
CommandStopOnRecord ==
  LET me == thr[Sched]
      row == db[me.chan] IN
  /\ Sched_at("stop") /\ lock = None
  /\ IF Present(me.chan) /\ Alive(row) THEN Terminate(row.pid) ELSE UNCHANGED proc
  /\ Become(Sched, IF me.why = "delete" THEN [me EXCEPT !.pc = "remove"] ELSE At("command"))
  /\ UNCHANGED <<db, active, lock, slots, disk, sweep, api, crashes>>

\* stop_recording signals the registered process, else the pid on record
CommandStop ==
  LET me == thr[Sched]
      c == me.chan
      row == db[c] IN
  /\ Sched_at("stop") /\ lock = None
  /\ IF Owned(c) THEN Terminate(active[c])
     ELSE IF Present(c) /\ Alive(row) THEN Terminate(row.pid)
     ELSE UNCHANGED proc
  /\ Become(Sched, IF me.why = "delete" THEN [me EXCEPT !.pc = "remove"] ELSE At("command"))
  /\ UNCHANGED <<db, active, lock, slots, disk, sweep, api, crashes>>

CommandRemove ==
  /\ Sched_at("remove")
  /\ db' = [db EXCEPT ![thr[Sched].chan] = None]
  /\ SchedGoto("command")
  /\ UNCHANGED <<active, lock, slots, proc, disk, sweep, api, crashes>>

-----------------------------------------------------------------------------
(* The API process: its handlers run one at a time, each store call is a   *)
(* transaction of its own                                                  *)

ApiSetPaused(c, b) ==
  /\ (IF b THEN "pause" ELSE "resume") \in Requests
  /\ api = NoApi /\ Present(c)
  /\ SetPaused(c, b)
  /\ UNCHANGED <<active, lock, slots, proc, disk, thr, sweep, api, crashes>>

\* ChannelService.update reads the row and builds the whole new record...
Edited(row, b) == [row EXCEPT !.paused = b, !.status = Unpaused(b)]

ApiReadForEdit(c) ==
  /\ "edit" \in Requests
  /\ api = NoApi /\ Present(c)
  /\ \E row \in {db[c], Edited(db[c], TRUE), Edited(db[c], FALSE)} :
       api' = [op |-> "edit", chan |-> c, row |-> row]
  /\ UNCHANGED <<db, active, lock, slots, proc, disk, thr, sweep, crashes>>

\* ... and upsert writes it back, adding it again if it is gone
ApiUpsert ==
  /\ api.op = "edit"
  /\ db' = [db EXCEPT ![api.chan] = api.row]
  /\ api' = NoApi
  /\ UNCHANGED <<active, lock, slots, proc, disk, thr, sweep, crashes>>

\* DELETE pauses a recording channel and leaves the rest to the worker.  That
\* update reads the row again; the second read is an ApiReadForEdit.
ApiReadForDelete(c) ==
  /\ "delete" \in Requests
  /\ api = NoApi /\ Present(c)
  /\ api' = IF Stale(db[c])
            THEN [op |-> "edit", chan |-> c, row |-> Edited(db[c], TRUE)]
            ELSE [op |-> "delete", chan |-> c, row |-> None]
  /\ UNCHANGED <<db, active, lock, slots, proc, disk, thr, sweep, crashes>>

ApiDelete ==
  /\ api.op = "delete"
  /\ db' = [db EXCEPT ![api.chan] = None]
  /\ api' = NoApi
  /\ UNCHANGED <<active, lock, slots, proc, disk, thr, sweep, crashes>>

-----------------------------------------------------------------------------
\* The worker dies and PM2 starts it again: memory and threads are lost, the
\* database, the files and the child processes are not.
Crash ==
  /\ crashes < MaxCrashes
  /\ crashes' = crashes + 1
  /\ active' = [c \in Channel |-> None]
  /\ lock' = None
  /\ slots' = MaxSlots
  /\ proc' = [r \in Rec |-> IF proc[r] = "exited" THEN "reaped" ELSE proc[r]]
  /\ thr' = [t \in Thread |-> IF t = Sched THEN At("boot") ELSE Idle]
  /\ sweep' = [snap |-> [c \in Channel |-> None], todo |-> {}, boot |-> TRUE]
  /\ UNCHANGED <<db, disk, api>>

CheckStep(k) ==
  \/ CheckAcquire(k) \/ CheckLoad(k) \/ CheckBusy(k) \/ CheckBegin(k)
  \/ CheckResolve(k) \/ CheckOnline(k) \/ CheckOffline(k)

StartStep(t) == StartBegin(t) \/ StartPublish(t) \/ StartNoSource(t)

CaptureStep(r) ==
  \/ CaptureWait(r) \/ CaptureLoad(r) \/ CaptureSettle(r) \/ CaptureClassify(r)
  \/ CaptureReacquire(r) \/ CaptureFail(r) \/ CaptureForget(r) \/ CapturePop(r)

ConvertStep(t) ==
  \/ ConvertBegin(t) \/ ConvertFail(t) \/ ConvertReplace(t) \/ ConvertPrune(t)
  \/ ConvertRecord(t)

ProcessStep(r) == ProcessWrites(r) \/ ProcessExits(r)

SchedStep ==
  \/ SchedBoot \/ SchedList \/ SweepDone
  \/ SchedRecover \/ SchedAdopt \/ SchedReset \/ WarmupDone
  \/ \E c \in Channel : \/ VisitAlive(c) \/ VisitSkip(c) \/ VisitStale(c)
                        \/ VisitDue(c) \/ WarmupChannel(c)

CommandStep ==
  \/ CommandTrigger \/ CommandStop \/ CommandRemove
  \/ \E c \in Channel : \/ CommandCheck(c) \/ CommandResume(c)
                        \/ \E w \in {"pause", "delete"} : CommandPause(c, w)

ApiStep ==
  \/ ApiUpsert \/ ApiDelete
  \/ \E c \in Channel : \/ ApiReadForEdit(c) \/ ApiReadForDelete(c)
                        \/ \E b \in BOOLEAN : ApiSetPaused(c, b)

Next ==
  \/ \E k \in Prober : CheckStep(k)
  \/ \E t \in Thread : StartStep(t)
  \/ \E r \in Rec : CaptureStep(r) \/ ProcessStep(r)
  \/ \E t \in Rec \cup {Sched} : ConvertStep(t)
  \/ SchedStep \/ CommandStep \/ ApiStep
  \/ Crash

Spec == Init /\ [][Next]_vars

\* Threads keep running: a thread whose next step is enabled again and again
\* takes it.  (Strong fairness matters to the steps that wait for _record_lock,
\* which is held briefly and by threads that sleep between two uses; a thread at
\* any other step is not blocked.)  A signalled process exits.  A command batch is
\* finite, so the loop reaches the sweep.  Nothing is assumed of users, of
\* streams ending, or of crashes.
Fairness ==
  /\ \A k \in Checker : SF_vars(CheckStep(k) \/ StartStep(k))
  /\ \A r \in Rec : /\ SF_vars(CaptureStep(r) \/ StartStep(r) \/ ConvertStep(r))
                    /\ WF_vars(proc[r] = "stopping" /\ ProcessExits(r))
  /\ SF_vars(SchedStep)
  /\ SF_vars(\/ CheckStep(Sched) \/ StartStep(Sched) \/ ConvertStep(Sched)
             \/ CommandTrigger \/ CommandStop \/ CommandRemove)

FairSpec == Spec /\ Fairness

-----------------------------------------------------------------------------
(* Safety                                                                  *)

\* A handler at work knows its channel.
AtRest == {"idle", "boot", "warmup", "command", "tick", "dead"}
Placed == {me \in Local : me.pc \in AtRest \/ me.chan \in Channel}

\* What is left of a sweep was listed; the warm-up goes by its own list.
SweepListed ==
  Sched_at("warmup") \/ Sched_at("dead") \/ \A c \in sweep.todo : sweep.snap[c] # None

ApiCall == {NoApi} \cup [op : {"edit"}, chan : Channel, row : Row]
                   \cup [op : {"delete"}, chan : Channel, row : {None}]

RowsOK == db \in [Channel -> Row \cup {None}]
ThreadsOK == thr \in [Thread -> Placed] /\ SweepListed
OthersOK ==
  /\ active \in [Channel -> Rec \cup {None}]
  /\ lock \in Thread \cup {None}
  /\ slots \in Nat
  /\ proc \in [Rec -> {"unborn", "running", "stopping", "exited", "reaped"}]
  /\ disk \in [Rec -> SUBSET {"src", "mp4"}]
  /\ sweep \in [snap : [Channel -> Row \cup {None}], todo : SUBSET Channel, boot : BOOLEAN]
  /\ api \in ApiCall
  /\ crashes \in 0..MaxCrashes
TypeOK == RowsOK /\ ThreadsOK /\ OthersOK

\* A capture thread finalizing a recording and the scheduler recovering the
\* channel never remux the same recording at the same time: the reason the
\* entry stays in _active_processes until conversion is over.
Remuxing(t) == thr[t].pc \in ConvertPc
OneConversion ==
  \A r \in Rec : Remuxing(r) /\ Remuxing(Sched) => thr[Sched].rec # thr[r].rec

\* While a capture thread lives, _active_processes names its recording for its
\* channel: no other recording of the channel is launched, finalized or popped
\* under it, however probes, retries, edits and deletions interleave.
Capturing(r) == thr[r].pc # "idle"
OneCapture == \A r \in Rec : Capturing(r) => active[thr[r].chan] = r

\* Every permit of _probe_slots is free or held by one running check, on every
\* way out of check_channel.
Holding == {k \in Prober : thr[k].pc \in (CheckPc \ {"acquire"}) \cup StartPc}
SlotsConserved == slots + Cardinality(Holding) = MaxSlots

\* Within one life of the worker no recorder process runs unregistered, also
\* when the channel is deleted between the launch and the record of it.
NoStray ==
  \A r \in Rec : proc[r] = "running" /\ crashes = 0 => \E c \in Channel : active[c] = r

\* Within one life of the worker a conversion reads a recording whose process
\* has ended, also when recovery works on a snapshot that is minutes old.
NeverRemuxLive ==
  \A t \in Rec \cup {Sched} :
    Remuxing(t) /\ crashes = 0 => proc[thr[t].rec] \notin {"running", "stopping"}

\* A recorder is never launched for a channel whose record names a process that
\* is alive, an orphan of an earlier worker included.
LaunchRespectsPid ==
  [][\A c \in Channel : active'[c] # active[c] /\ active'[c] # None
        => Present(c) /\ ~Alive(db[c])]_vars

\* A capture artifact leaves the disk only when its mp4 is in place.
SourceKept ==
  [][\A r \in Rec : Artifact(r) /\ "src" \notin disk'[r] => "mp4" \in disk[r]]_vars

-----------------------------------------------------------------------------
(* The inductive invariant behind OneCapture and OneConversion: who may     *)
(* name a recording.  RecordingLifecycleProofs proves it of Next.           *)

\* The launch of r is over: its capture thread, if any, is on its way.
Launching(t, r) == thr[t].pc = "publish" /\ thr[t].rec = r
Published(r) == proc[r] # "unborn" /\ \A t \in Thread : ~Launching(t, r)

\* start_recording is inside _record_lock, and the process it launched is in
\* the map before it has a capture thread.
LaunchesLocked ==
  \A t \in Thread : thr[t].pc \in {"publish", "nosource"} =>
    /\ lock = t /\ t \notin Rec
    /\ thr[t].pc = "publish" =>
         /\ thr[t].rec \in Rec
         /\ active[thr[t].chan] = thr[t].rec
         /\ ~Capturing(thr[t].rec)
         /\ proc[thr[t].rec] # "unborn"

CapturesOwn ==
  \A r \in Rec : Capturing(r) =>
    /\ active[thr[r].chan] = r
    /\ thr[r].rec = r
    /\ proc[r] # "unborn"
    /\ thr[r].pc \in CapturePc \cup ConvertPc \cup {"start"}

\* A record of c, current, listed or about to be written back, names a
\* published recording, of c if its capture thread is still at work.
Settled(r, c) == Published(r) /\ (Capturing(r) => thr[r].chan = c)
Refers(row, c) == \A r \in Rec : row # None /\ row.file = r => Settled(r, c)
RecordsSettled ==
  /\ \A c \in Channel : Refers(db[c], c) /\ Refers(sweep.snap[c], c)
  /\ api.op = "edit" => Refers(api.row, api.chan)

\* Recovery works on a recording that no capture thread has or will have.
RecoveryPc == {"recover", "adopt", "reset"} \cup ConvertPc
Loose(r) == Published(r) /\ ~Capturing(r)
RecoversLoose ==
  \A r \in Rec : thr[Sched].pc \in RecoveryPc /\ thr[Sched].rec = r => Loose(r)

Ownership == LaunchesLocked /\ CapturesOwn /\ RecordsSettled /\ RecoversLoose

-----------------------------------------------------------------------------
(* Liveness                                                                *)

\* A stop is completed, whether a user asks for it (the pause command has reached
\* stop_recording on a channel whose entry is r) or the stalled-recording check
\* does: the process is signalled and ends, its capture thread finalizes, converts
\* what there is, and releases the channel.  That holds also when the record has
\* meanwhile lost the pid (RecoverySkipsOwned): the map is asked first.
StopAsked(r) ==
  proc[r] = "stopping" \/ (Sched_at("stop") /\ active[thr[Sched].chan] = r)
StopCompletes ==
  \A r \in Rec : StopAsked(r) ~> proc[r] = "reaped" /\ thr[r].pc = "idle"

\* Every finished recording that left an artifact is remuxed to mp4.
FootageArchived ==
  \A r \in Rec : (proc[r] = "reaped" /\ Artifact(r)) ~> "mp4" \in disk[r]

\* A channel whose record claims a recording that no process and no capture
\* thread backs does not stay so.
Stranded(c) == /\ Present(c) /\ ~Owned(c) /\ ~Alive(db[c])
               /\ db[c].pid # None \/ db[c].status = "recording"
StrandedRecovers == \A c \in Channel : Stranded(c) ~> ~Stranded(c)

-----------------------------------------------------------------------------
(* What comments, tests and the README say and the code does not do        *)

\* capture.py:263-266: a segmented retry starts a new recording for the channel
\* during finalization, which replaces the entry with a fresh process.
SegmentedRetryStarts ==
  [][\A r \in Rec : LET c == thr[r].chan IN
        thr[r].pc = "start" /\ thr'[r].pc = "pop" /\ Present(c) => active'[c] # r]_vars

\* capture.py:246-249: recovery skips a channel that is in _active_processes; so
\* its reset never takes status and pid from the record of a recording that runs,
\* is in the map, has its capture thread, and has been published in that record.
Recorded(c) == /\ Present(c) /\ db[c].status = "recording"
               /\ Owned(c) /\ db[c].pid = active[c]
               /\ proc[active[c]] = "running" /\ thr[active[c]].pc = "wait"
RecoverySkipsOwned ==
  [][\A c \in Channel : SchedReset /\ Recorded(c) => Recorded(c)']_vars

\* README.md:11: what is recorded is remuxed to mp4, also when the worker is
\* restarted; here a recording whose artifact is the channel's last_recorded_file.
OnRecord(r) == \E c \in Channel : Present(c) /\ db[c].file = r /\ ~db[c].mp4
RecordedFileArchived ==
  \A r \in Rec : (proc[r] = "reaped" /\ Artifact(r) /\ OnRecord(r)) ~> "mp4" \in disk[r]

\* README.md:16: after a restart during an active stream the channel recovers
\* and is tracked again.
RestartRecovers ==
  \A c \in Channel : crashes > 0 /\ Stranded(c) ~> ~Stranded(c)
=============================================================================
