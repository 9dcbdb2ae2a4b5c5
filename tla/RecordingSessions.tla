-------------------------- MODULE RecordingSessions --------------------------
(***************************************************************************)
(* The sessions of one channel: the registry's session objects and its map *)
(* from the channel to its current session, the rows of recording_sessions *)
(* they are written to, the threads that share an object (a probe, the     *)
(* capture thread it starts, the scheduler that finds it with get()), the  *)
(* retention sweep that deletes rows, deletions of the channel, restarts.  *)
(*                                                                         *)
(* A transition computes the status it writes before it has the store's    *)
(* lock: the change of the object and the write of the row are two steps,  *)
(* and closing the session is a third.  What the threads do to channels,   *)
(* processes and files is RecordingLifecycle's subject; here it is kept as *)
(* far as it decides which session operation comes next.                   *)
(***************************************************************************)
EXTENDS Naturals, FiniteSets

CONSTANTS
  Session,     \* session ids: the bound on sessions opened
  Checker,     \* threads of trigger_check alive at once: a bound
  Sched,       \* the scheduler thread
  None,
  MaxCrashes,  \* worker restarts explored: a bound
  Deletes      \* the user may delete the channel

Prober == Checker \cup {Sched}
Thread == Prober \cup Session   \* the capture thread of a session bears its name

ASSUME SessionAssumption ==
  /\ Sched \notin Checker /\ Prober \cap Session = {} /\ None \notin Thread
  /\ MaxCrashes \in Nat /\ Deletes \in BOOLEAN

VARIABLES
  current,  \* registry._by_channel, for the channel
  obj,      \* the session objects: their sticky status, their active_pid
  row,      \* the rows of recording_sessions
  born,     \* sessions that were inserted (history)
  thr,      \* program counter and locals of every worker thread
  owner,    \* the channel's entry in _active_processes: its session
  lock,     \* holder of _record_lock
  proc,     \* the recording process of each session
  chan,     \* the channel's record: does it say "recording", and which pid
  snap,     \* the record as the scheduler's sweep listed it
  crashes

vars == <<current, obj, row, born, thr, owner, lock, proc, chan, snap, crashes>>

Terminal == {"completed", "failed", "aborted"}
Status == Terminal \cup {"queued", "probing", "resolving_source", "recording",
                         "converting", "recovering"}
Outcome == Terminal

\* updated, ended: how old the time stamps are, against the session retention
Row == [status : Status, pid : BOOLEAN, updated : {"recent", "old"},
        ended : {"no", "recent", "old"}]
ASSUME NoneAssumption == None \notin Row
Write == [status : Status, pid : BOOLEAN, ends : BOOLEAN]
NoWrite == [status |-> "queued", pid |-> FALSE, ends |-> FALSE]

Pc == {"idle", "write", "close", "publish", "insert",                \* registry
       "load", "begin", "opened", "probing", "resolve", "online",    \* probe
       "nourl", "start", "nosource", "launch", "spawn",              \* start_recording
       "wait", "finalize", "settle", "settled", "convert", "salvage",
       "retry", "pop",                                               \* capture thread
       "tick", "stalled", "recover", "recovering"}                   \* scheduler

\* session: the one this thread works for; data: what "write" writes; then: the
\* step after it
Local == [pc : Pc, session : Session \cup {None}, data : Write, then : Pc]
Idle == [pc |-> "idle", session |-> None, data |-> NoWrite, then |-> "idle"]
At(p, s) == [Idle EXCEPT !.pc = p, !.session = s]

Record == [says : BOOLEAN, pid : Session \cup {None}]
Quiet == [says |-> FALSE, pid |-> None]

Present == chan # None
Held(s) == \E t \in Thread : thr[t].session = s
Used(s) == Present /\ \E t \in Thread \ {Sched} : thr[t].session = s
Fresh(s) == s \notin born /\ ~Held(s)
\* the bound on sessions: whoever may open one will find one
Spare == Cardinality({s \in Session : Fresh(s)})
         > Cardinality({t \in Prober : thr[t].pc \in {"load", "begin", "publish"}})
Become(t, me) == thr' = [thr EXCEPT ![t] = me]
Goto(t, p) == Become(t, At(p, thr[t].session))
Unlock(t) == lock' = IF lock = t THEN None ELSE lock

\* where a handler's thread goes when the handler returns or raises
Leave(t) == Become(t, IF t \in Session THEN At("pop", t) ELSE Idle)

Init ==
  /\ current = None /\ born = {} /\ owner = None /\ lock = None
  /\ obj = [s \in Session |-> [status |-> "active", pid |-> FALSE]]
  /\ row = [s \in Session |-> None]
  /\ thr = [t \in Thread |-> Idle]
  /\ proc = [s \in Session |-> "none"]
  /\ chan = Quiet /\ snap = Quiet
  /\ crashes = 0

-----------------------------------------------------------------------------
(* RecordingSessionRegistry and the session rows                           *)

\* Mutant: the object's own status is written, not the domain's
ObjectStatus(s, phase) == IF phase = "queued" THEN phase ELSE obj[s].status

\* domain_status: an ended session keeps its outcome
DomainStatus(s, phase) == IF obj[s].status = "active" THEN phase ELSE obj[s].status

\* registry.transition: the phase is set and the status to write is computed
Transition(t, s, phase, pid, next) ==
  /\ obj' = [obj EXCEPT ![s].pid = pid]
  /\ Become(t, [pc |-> "write", session |-> s, then |-> next,
                data |-> [status |-> DomainStatus(s, phase), pid |-> pid, ends |-> FALSE]])

\* registry.complete and registry.fail: the last outcome set is the one kept
End(t, s, outcome) ==
  /\ obj' = [obj EXCEPT ![s].status = outcome]
  /\ Become(t, [pc |-> "write", session |-> s, then |-> "close",
                data |-> [status |-> outcome, pid |-> FALSE, ends |-> TRUE]])

\* Mutant: a write drops the end a row already has
WriteSessionReopens(t) ==
  LET me == thr[t] IN
  /\ me.pc = "write"
  /\ row[me.session] # None
  /\ row' = [row EXCEPT ![me.session] =
               [status |-> me.data.status, pid |-> me.data.pid, updated |-> "recent",
                ended |-> IF me.data.ends THEN "recent" ELSE "no"]]
  /\ Goto(t, me.then)
  /\ UNCHANGED <<current, obj, born, owner, lock, proc, chan, snap, crashes>>

\* store.update_session: the fields that were given replace the row's.  Without
\* a row it raises KeyError, and the handler is left.
WriteSession(t) ==
  LET me == thr[t]
      s == me.session IN
  /\ me.pc = "write"
  /\ \/ /\ row[s] # None
        /\ row' = [row EXCEPT ![s] =
                     [status |-> me.data.status, pid |-> me.data.pid, updated |-> "recent",
                      ended |-> IF me.data.ends THEN "recent" ELSE row[s].ended]]
        /\ Goto(t, me.then)
        /\ UNCHANGED lock
     \/ /\ row[s] = None
        /\ UNCHANGED row
        /\ Leave(t)
        /\ Unlock(t)
  /\ UNCHANGED <<current, obj, born, owner, proc, chan, snap, crashes>>

\* Mutant: the handler returns with _record_lock held
CloseSessionKeepsLock(t) ==
  /\ thr[t].pc = "close"
  /\ current' = IF current = thr[t].session THEN None ELSE current
  /\ Leave(t)
  /\ UNCHANGED <<obj, row, born, owner, lock, proc, chan, snap, crashes>>

\* registry._close, and the handler returns
CloseSession(t) ==
  /\ thr[t].pc = "close"
  /\ current' = IF current = thr[t].session THEN None ELSE current
  /\ Leave(t)
  /\ Unlock(t)
  /\ UNCHANGED <<obj, row, born, owner, proc, chan, snap, crashes>>

\* registry.open publishes the object, then create_session inserts its row
OpenSession(t) ==
  /\ thr[t].pc = "publish"
  /\ \E s \in Session :
       /\ Fresh(s)
       /\ current' = s
       /\ Become(t, [At("insert", s) EXCEPT !.then = thr[t].then])
  /\ UNCHANGED <<obj, row, born, owner, lock, proc, chan, snap, crashes>>

CreateSession(t) ==
  LET s == thr[t].session IN
  /\ thr[t].pc = "insert"
  /\ row' = [row EXCEPT ![s] =
               [status |-> DomainStatus(s, "queued"), pid |-> FALSE, updated |-> "recent",
                ended |-> IF obj[s].status = "active" THEN "no" ELSE "recent"]]
  /\ born' = born \cup {s}
  /\ Goto(t, thr[t].then)
  /\ UNCHANGED <<current, obj, owner, lock, proc, chan, snap, crashes>>

-----------------------------------------------------------------------------
(* ProbeHandler.check_channel, by a spawned thread or by the scheduler     *)

TriggerCheck(k) ==
  /\ k \in Checker /\ thr[k].pc = "idle" /\ Spare
  /\ Goto(k, "load")
  /\ UNCHANGED <<current, obj, row, born, owner, lock, proc, chan, snap, crashes>>

CheckLoad(k) ==
  /\ thr[k].pc = "load"
  /\ IF Present /\ owner = None /\ chan.pid = None
     THEN Goto(k, "begin") /\ UNCHANGED chan
     ELSE /\ chan' = IF Present THEN [chan EXCEPT !.says = TRUE] ELSE chan
          /\ Leave(k)
  /\ UNCHANGED <<current, obj, row, born, owner, lock, proc, snap, crashes>>

CheckBegin(k) ==
  /\ thr[k].pc = "begin"
  /\ IF Present
     THEN /\ chan' = [chan EXCEPT !.says = FALSE]
          /\ Become(k, [At("publish", None) EXCEPT !.then = "opened"])
     ELSE UNCHANGED chan /\ Leave(k)
  /\ UNCHANGED <<current, obj, row, born, owner, lock, proc, snap, crashes>>

CheckTransitions(k) ==
  LET s == thr[k].session IN
  /\ \/ thr[k].pc = "opened" /\ Transition(k, s, "probing", obj[s].pid, "probing")
     \/ thr[k].pc = "probing" /\ Transition(k, s, "resolving_source", obj[s].pid, "resolve")
  /\ UNCHANGED <<current, row, born, owner, lock, proc, chan, snap, crashes>>

\* registry.attach_source: the row is written without its status
AttachSource(t, next) ==
  LET s == thr[t].session IN
  IF row[s] = None THEN UNCHANGED row /\ Leave(t)
  ELSE row' = [row EXCEPT ![s].updated = "recent"] /\ Goto(t, next)

\* what acquire_resolved_source comes back with, if it does
CheckResolve(k) ==
  /\ thr[k].pc = "resolve"
  /\ \/ AttachSource(k, "online") /\ UNCHANGED <<obj, chan>>
     \/ Goto(k, "nourl") /\ UNCHANGED <<obj, row, chan>>     \* public, without a URL
     \/ /\ Present                                          \* unavailable, or an error
        /\ chan' = [chan EXCEPT !.says = FALSE]
        /\ \E o \in {"aborted", "failed"} : End(k, thr[k].session, o)
        /\ UNCHANGED row
     \/ Leave(k) /\ UNCHANGED <<obj, row, chan>>             \* raised, or no channel
  /\ UNCHANGED <<current, born, owner, lock, proc, snap, crashes>>

CheckOnline(k) ==
  /\ thr[k].pc \in {"online", "nourl"}
  /\ IF Present
     THEN /\ chan' = [chan EXCEPT !.says = owner # None]
          /\ Goto(k, IF thr[k].pc = "online" THEN "start" ELSE "nosource")
     ELSE UNCHANGED chan /\ Leave(k)
  /\ UNCHANGED <<current, obj, row, born, owner, lock, proc, snap, crashes>>

-----------------------------------------------------------------------------
(* CaptureHandler.start_recording, under _record_lock: called by a probe,  *)
(* and by a capture thread that got a fresh source for its session         *)

\* the channel is owned, or gone: the session is left as it is
StartRefused(t) ==
  /\ thr[t].pc \in {"start", "nosource"}
  /\ lock = None
  /\ owner # None \/ ~Present
  /\ chan' = IF Present THEN [chan EXCEPT !.says = TRUE] ELSE chan
  /\ Leave(t)
  /\ UNCHANGED <<current, obj, row, born, owner, lock, proc, snap, crashes>>

StartNoSource(t) ==
  /\ thr[t].pc = "nosource"
  /\ lock = None /\ owner = None /\ Present
  /\ lock' = t
  /\ chan' = [chan EXCEPT !.says = FALSE]
  /\ End(t, thr[t].session, "failed")
  /\ UNCHANGED <<current, row, born, owner, proc, snap, crashes>>

StartProcess(t) ==
  LET s == thr[t].session IN
  /\ thr[t].pc = "start"
  /\ lock = None /\ owner = None /\ Present
  /\ \/ /\ lock' = t /\ owner' = s
        /\ proc' = [proc EXCEPT ![s] = "running"]
        /\ Goto(t, "launch")
     \/ Leave(t) /\ UNCHANGED <<lock, owner, proc>>          \* Popen raises
  /\ UNCHANGED <<current, obj, row, born, chan, snap, crashes>>

StartLaunch(t) ==
  LET s == thr[t].session IN
  /\ thr[t].pc = "launch"
  /\ IF Present
     THEN /\ chan' = [says |-> TRUE, pid |-> s]
          /\ Transition(t, s, "recording", TRUE, "spawn")
          /\ UNCHANGED owner
     ELSE /\ owner' = None
          /\ End(t, s, "aborted")
          /\ UNCHANGED chan
  /\ UNCHANGED <<current, row, born, lock, proc, snap, crashes>>

StartCapture(t) ==
  LET s == thr[t].session IN
  /\ thr[t].pc = "spawn"
  /\ thr' = [thr EXCEPT ![t] = Idle, ![s] = At("wait", s)]
  /\ lock' = None
  /\ UNCHANGED <<current, obj, row, born, owner, proc, chan, snap, crashes>>

-----------------------------------------------------------------------------
(* The capture thread: _wait_for_recording and _finalize_recording         *)

\* a process whose parent lives is seen by kill(pid, 0) until it is reaped
ProcessExit(s) ==
  /\ proc[s] = "running"
  /\ proc' = [proc EXCEPT ![s] = IF owner = s THEN "exited" ELSE "gone"]
  /\ UNCHANGED <<current, obj, row, born, thr, owner, lock, chan, snap, crashes>>

CaptureWait(s) ==
  /\ thr[s].pc = "wait"
  /\ proc[s] = "exited"
  /\ proc' = [proc EXCEPT ![s] = "gone"]
  /\ Goto(s, "finalize")
  /\ UNCHANGED <<current, obj, row, born, owner, lock, chan, snap, crashes>>

CaptureLoad(s) ==
  /\ thr[s].pc = "finalize"
  /\ IF Present THEN Goto(s, "settle") ELSE Leave(s)
  /\ UNCHANGED <<current, obj, row, born, owner, lock, proc, chan, snap, crashes>>

\* Mutant: the session keeps the pid of the process that exited
CaptureSettleKeepsPid(s) ==
  /\ thr[s].pc = "settle"
  /\ IF Present
     THEN /\ chan' = Quiet
          /\ UNCHANGED obj
          /\ Goto(s, "settled")
     ELSE End(s, s, "aborted") /\ UNCHANGED chan
  /\ UNCHANGED <<current, row, born, owner, lock, proc, snap, crashes>>

CaptureSettle(s) ==
  /\ thr[s].pc = "settle"
  /\ IF Present
     THEN /\ chan' = Quiet
          /\ obj' = [obj EXCEPT ![s].pid = FALSE]
          /\ Goto(s, "settled")
     ELSE End(s, s, "aborted") /\ UNCHANGED chan
  /\ UNCHANGED <<current, row, born, owner, lock, proc, snap, crashes>>

\* stopped, finished or broken; with an artifact to convert, or without; to be
\* continued from a fresh source, or not
CaptureBranch(s) ==
  /\ thr[s].pc = "settled"
  /\ \/ \E next \in {"convert", "salvage"} :
           Transition(s, s, "converting", obj[s].pid, next)
     \/ Transition(s, s, "resolving_source", obj[s].pid, "retry")
     \/ \E o \in {"aborted", "failed"} : End(s, s, o)
  /\ UNCHANGED <<current, row, born, owner, lock, proc, chan, snap, crashes>>

CaptureConvert(s) ==
  /\ \/ thr[s].pc = "convert" /\ \E o \in Outcome : End(s, s, o)
     \/ thr[s].pc = "salvage" /\ Transition(s, s, "resolving_source", obj[s].pid, "retry")
  /\ UNCHANGED <<current, row, born, owner, lock, proc, chan, snap, crashes>>

\* the answer to the retry: raised, a fresh URL, or none
CaptureRetry(s) ==
  /\ thr[s].pc = "retry"
  /\ \/ Leave(s) /\ UNCHANGED <<obj, row>>
     \/ AttachSource(s, "start") /\ UNCHANGED obj
     \/ End(s, s, "failed") /\ UNCHANGED row
  /\ UNCHANGED <<current, born, owner, lock, proc, chan, snap, crashes>>

CapturePop(s) ==
  /\ thr[s].pc = "pop"
  /\ lock = None
  /\ owner' = IF owner = s THEN None ELSE owner
  /\ Become(s, Idle)
  /\ UNCHANGED <<current, obj, row, born, lock, proc, chan, snap, crashes>>

-----------------------------------------------------------------------------
(* The scheduler: sweep, stall, recovery, retention                        *)

Sweep ==
  /\ thr[Sched].pc = "idle" /\ Present
  /\ snap' = chan
  /\ Goto(Sched, "tick")
  /\ UNCHANGED <<current, obj, row, born, owner, lock, proc, chan, crashes>>

Seen(p) == proc[p] \in {"running", "exited"}

\* _tick_channel and reconcile_channels on the record as it was listed.  The
\* session is looked up with get(), which may not be that of the record's pid.
Tick ==
  /\ thr[Sched].pc = "tick"
  /\ \/ /\ snap.pid # None /\ Seen(snap.pid) /\ snap.says       \* stalled
        /\ current # None
        /\ Become(Sched, At("stalled", current))
     \/ /\ owner = None                                        \* stale
        /\ \/ snap.pid # None /\ ~Seen(snap.pid)
           \/ snap.pid = None /\ snap.says
        /\ \/ current # None /\ Become(Sched, At("recover", current))
           \/ /\ current = None /\ Spare
              /\ Become(Sched, [At("publish", None) EXCEPT !.then = "recover"])
     \/ /\ owner = None /\ snap = Quiet /\ Spare               \* due
        /\ Goto(Sched, "load")
     \/ Leave(Sched)                        \* none of these, or nobody to end
  /\ snap' = Quiet
  /\ UNCHANGED <<current, obj, row, born, owner, lock, proc, chan, crashes>>

\* terminate_stalled_recording, after the signal
TickStalled ==
  /\ thr[Sched].pc = "stalled"
  /\ End(Sched, thr[Sched].session, "failed")
  /\ UNCHANGED <<current, row, born, owner, lock, proc, chan, snap, crashes>>

TickRecover ==
  LET s == thr[Sched].session IN
  /\ thr[Sched].pc = "recover"
  /\ Transition(Sched, s, "recovering", obj[s].pid, "recovering")
  /\ UNCHANGED <<current, row, born, owner, lock, proc, chan, snap, crashes>>

\* recover_stale_recording: by a conversion, or by resetting the record
TickRecovered ==
  /\ thr[Sched].pc = "recovering"
  /\ \/ End(Sched, thr[Sched].session, "completed") /\ UNCHANGED chan
     \/ IF Present
        THEN /\ chan' = Quiet
             /\ \E o \in {"completed", "aborted"} : End(Sched, thr[Sched].session, o)
        ELSE Leave(Sched) /\ UNCHANGED <<obj, chan>>
  /\ UNCHANGED <<current, row, born, owner, lock, proc, snap, crashes>>

\* Mutant: an orphan's pid does not protect it
ExpiredIgnoresPid(r) ==
  IF r.status \in Terminal
  THEN r.ended = "old" \/ (r.ended = "no" /\ r.updated = "old")
  ELSE r.updated = "old"

\* Mutant: only sessions that ended expire
ExpiredEndedOnly(r) == r.status \in Terminal /\ r.ended = "old"

\* _delete_finished_sessions_unlocked: a finished session by its end, another
\* one by its last write, unless it names a process
Expired(r) ==
  IF r.status \in Terminal
  THEN r.ended = "old" \/ (r.ended = "no" /\ r.updated = "old")
  ELSE r.updated = "old" /\ ~r.pid

Prune ==
  /\ thr[Sched].pc = "idle"
  /\ \E s \in Session : row[s] # None /\ Expired(row[s])
  /\ row' = [s \in Session |-> IF row[s] # None /\ Expired(row[s]) THEN None ELSE row[s]]
  /\ UNCHANGED <<current, obj, born, thr, owner, lock, proc, chan, snap, crashes>>

-----------------------------------------------------------------------------
(* The environment                                                         *)

\* Three days pass without a write.  Only a recording process takes so long:
\* requests, sleeps and conversions all have timeouts.
Age(s) ==
  /\ row[s] # None /\ (row[s].updated = "recent" \/ row[s].ended = "recent")
  /\ \A t \in Thread : thr[t].session = s => thr[t].pc = "wait"
  /\ row' = [row EXCEPT ![s].updated = "old",
                        ![s].ended = IF row[s].ended = "no" THEN "no" ELSE "old"]
  /\ UNCHANGED <<current, obj, born, thr, owner, lock, proc, chan, snap, crashes>>

DeleteChannel ==
  /\ Deletes /\ Present
  /\ chan' = None
  /\ UNCHANGED <<current, obj, row, born, thr, owner, lock, proc, snap, crashes>>

\* The worker dies and starts again; its recording processes may live on.
Crash ==
  /\ crashes < MaxCrashes
  /\ crashes' = crashes + 1
  /\ current' = None /\ owner' = None /\ lock' = None /\ snap' = Quiet
  /\ obj' = [s \in Session |-> [status |-> "active", pid |-> FALSE]]
  /\ thr' = [t \in Thread |-> Idle]
  /\ proc' = [s \in Session |-> IF proc[s] = "exited" THEN "gone" ELSE proc[s]]
  /\ UNCHANGED <<row, born, chan>>

ProberStep(k) ==
  \/ CheckLoad(k) \/ CheckBegin(k) \/ CheckTransitions(k) \/ CheckResolve(k) \/ CheckOnline(k)
  \/ StartNoSource(k) \/ StartProcess(k) \/ StartLaunch(k) \/ StartCapture(k)
CaptureStep(s) ==
  \/ CaptureWait(s) \/ CaptureLoad(s) \/ CaptureSettle(s) \/ CaptureBranch(s)
  \/ CaptureConvert(s) \/ CaptureRetry(s) \/ CapturePop(s)
SessionStep(t) ==
  WriteSession(t) \/ CloseSession(t) \/ OpenSession(t) \/ CreateSession(t) \/ StartRefused(t)
SchedStep == Tick \/ TickStalled \/ TickRecover \/ TickRecovered

\* a step of a handler that is under way
Work(t) ==
  \/ SessionStep(t)
  \/ t \in Prober /\ ProberStep(t)
  \/ t \in Session /\ CaptureStep(t)
  \/ t = Sched /\ SchedStep

Next ==
  \/ \E t \in Thread : Work(t)
  \/ \E k \in Checker : TriggerCheck(k)
  \/ \E s \in Session : ProcessExit(s) \/ Age(s)
  \/ Sweep \/ Prune \/ DeleteChannel \/ Crash

\* Every handler goes on; every stream ends; time passes, and each iteration of
\* the scheduler's loop asks whether the retention sweep is due.
Fairness ==
  /\ \A t \in Thread : WF_vars(Work(t))
  /\ \A s \in Session : WF_vars(ProcessExit(s)) /\ SF_vars(Age(s))
  /\ SF_vars(Prune)

Spec == Init /\ [][Next]_vars
FairSpec == Spec /\ Fairness

-----------------------------------------------------------------------------
(* Properties                                                              *)

TypeOK ==
  /\ current \in Session \cup {None} /\ owner \in Session \cup {None}
  /\ lock \in Thread \cup {None}
  /\ obj \in [Session -> [status : {"active"} \cup Terminal, pid : BOOLEAN]]
  /\ row \in [Session -> Row \cup {None}]
  /\ born \in SUBSET Session
  /\ thr \in [Thread -> Local]
  /\ proc \in [Session -> {"none", "running", "exited", "gone"}]
  /\ chan \in Record \cup {None} /\ snap \in Record
  /\ crashes \in 0..MaxCrashes

\* A row names a process only while some thread works for its session, be it the
\* capture that finalizes it or the scheduler that ends it: only a restart or a
\* deleted channel leaves the pid behind, and with it a session that retention
\* never deletes.
PidMeansCapture ==
  crashes = 0 /\ Present =>
    \A s \in Session : row[s] # None /\ row[s].pid => Held(s)

\* No row is deleted under a check or a capture that works for the session of a
\* channel that exists, unless another thread had ended it.  The scheduler's
\* recovery is not among them: it may have got a session that is long forgotten.
HeldRowPresent ==
  \A s \in born : Used(s) /\ obj[s].status = "active" => row[s] # None

\* The registry and the table implement SessionLife.
Life(s) ==
  IF s \notin born THEN "unborn"
  ELSE IF row[s] = None THEN "forgotten"
  ELSE IF row[s].ended = "no" THEN "open" ELSE "ended"

Abstract == INSTANCE SessionLife WITH
  life <- [s \in Session |-> Life(s)],
  used <- {s \in Session : Used(s)}
ImplementsSessionLife == Abstract!Spec

\* Every handler leaves its session at last, ended or not: no handler waits for
\* ever, whatever locks are taken and writes fail under it.
HandlersEnd == \A s \in Session : Held(s) ~> ~Held(s)

\* Every session is forgotten in the end, also the ones the handlers leave
\* without an end, unless it keeps the pid of a process.
SessionsForgotten ==
  \A s \in Session : row[s] # None ~> (row[s] = None \/ row[s].pid)
=============================================================================
