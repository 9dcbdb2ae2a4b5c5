------------------------------ MODULE EventLog ------------------------------
(***************************************************************************)
(* What the recorder tells the user: the registry's events, the ones it    *)
(* holds back (a check's routine steps, an error told a short while ago),  *)
(* the global log and the sessions' own logs they are appended to one      *)
(* after the other, retention, and the dashboard that is computed from the *)
(* channels and the newest events.                                         *)
(*                                                                         *)
(* A message is one of a few kinds, of which the code tests the phrases.   *)
(* The threads' work on processes and files is RecordingLifecycle's, the   *)
(* session rows' life RecordingSessions' subject.                          *)
(***************************************************************************)
EXTENDS Naturals, FiniteSets

CONSTANTS
  Channel, Session, None,
  Excuse,       \* kinds of messages of an unavailable room, and
  Failure,      \* categories and messages of failures: samples of each
  Earlier,      \* failures of which the log may hold one from an earlier run
  Window,       \* RecordingSessionRegistry.ERROR_DEDUP_WINDOW
  Recent,       \* the errors it compares with: 20
  LogAge,       \* SQLiteStore.LOG_RETENTION_DAYS
  ErrorAge,     \* ERROR_LOG_RETENTION_DAYS
  SessionAge,   \* FINISHED_SESSION_RETENTION_DAYS
  Feed,         \* the newest events the dashboard reads: 16, or 800
  Shown,        \* the recent sessions it lists: 8
  MaxTime,      \* a bound on the time explored
  MaxEvents     \* a bound on the events of the global log

ASSUME LogAssumption ==
  /\ Earlier \subseteq Failure
  /\ {Window, LogAge, ErrorAge, SessionAge, Recent, Feed, Shown, MaxTime, MaxEvents} \subseteq Nat
  /\ Window <= LogAge /\ LogAge <= ErrorAge /\ None \notin Channel \cup Session
  /\ IsFiniteSet(Channel)

VARIABLES
  now,
  chan,        \* the channels' status, active_pid (is there one) and last_error
  phase,       \* how far each session's handler has come
  of,          \* the session's channel
  sticky,      \* a failure_category left in session.metadata
  rows,        \* sessions with a row, and
  wrote,       \* when it was written last
  pending,     \* the event each handler is about to append, and where
  nextId,      \* AUTOINCREMENT
  events,      \* the global log: table events
  sessionLog,  \* table session_events
  withheld,    \* errors not told because they were told before (history)
  failed       \* channels something went wrong with (history)

vars == <<now, chan, phase, of, sticky, rows, wrote, pending, nextId, events,
          sessionLog, withheld, failed>>

Category == {"source_unstable", "auth_invalid", "process_failure", "unknown"}
\* a kind of message, and the phrases in it that the code looks for
Says == [started |-> {}, resolution |-> {"source"}, checking |-> {}, live |-> {},
         recording |-> {}, converting |-> {}, salvaging |-> {"source"}, finished |-> {},
         recovering |-> {}, recovered |-> {}, converted |-> {}, unconverted |-> {},
         missing |-> {"source", "404"}, login |-> {"auth"}, died |-> {"exited"},
         stalled |-> {"stalled"},
         password |-> {"password"}, private |-> {"private"}, offline |-> {"offline"}]
Message == DOMAIN Says
ASSUME SampleAssumption ==
  /\ Excuse \subseteq {"password", "private", "offline"}
  /\ Failure \subseteq {[category |-> "source_unstable", message |-> "missing"],
                        [category |-> "auth_invalid", message |-> "login"],
                        [category |-> "process_failure", message |-> "died"]}
Type == {"started", "probing", "source_resolution", "source_acquired", "recording", "converting",
         "retry", "recovering", "completed", "aborted", "failed",
         "RECORDER_EXITED", "CONVERT_FAILED", "convert_completed"}

\* mark: the newest event when the registry compared this one with the log
Event == [id : Nat, mark : Nat, time : 0..MaxTime, level : {"INFO", "ERROR"}, type : Type,
          channel : Channel, message : Message, category : Category \cup {None},
          session : Session \cup {None}]
Told(e) == [e EXCEPT !.id = 0]    \* an event as the session's own log keeps it
Pending == [event : Event, to : {"global", "session"}]
ASSUME NoneAssumption == None \notin Pending /\ None \notin Message \cup Category
Phase == {"none", "opened", "probing", "resolving", "acquired", "recording", "stalling",
          "stalled", "converting", "breaking", "salvaging", "converted", "broken", "salvaged",
          "retrying", "left", "recovering", "ended"}
\* where a conversion leads: to the end, to an error, to a retry
Converted == [converting |-> "converted", breaking |-> "broken", salvaging |-> "salvaged"]
Converting == DOMAIN Converted
Quiet == {"none", "recording", "left", "ended"} \cup Converting

\* the log the worker starts on: empty, or with an error of an earlier run
Init ==
  /\ now = 0 /\ nextId = 2
  /\ chan = [c \in Channel |-> [status |-> "idle", pid |-> FALSE, error |-> None]]
  /\ phase = [s \in Session |-> "none"] /\ of = [s \in Session |-> None]
  /\ sticky = [s \in Session |-> None]
  /\ rows = {} /\ wrote = [s \in Session |-> 0]
  /\ pending = [s \in Session |-> None]
  /\ sessionLog = {} /\ withheld = {}
  /\ \/ events = {} /\ failed = {}
     \/ \E c \in Channel, f \in Earlier :
          /\ events = {[id |-> 1, mark |-> 0, time |-> 0, level |-> "ERROR", type |-> "failed",
                        channel |-> c, message |-> f.message, category |-> f.category,
                        session |-> None]}
          /\ failed = {c}

-----------------------------------------------------------------------------
(* SQLiteStore: the global log                                             *)

\* ORDER BY timestamp DESC, id DESC
Newer(e, f) == e.time > f.time \/ (e.time = f.time /\ e.id > f.id)
Newest(S, n) == {e \in S : Cardinality({f \in S : Newer(f, e)}) < n}

ErrorsOf(c) == {e \in events : e.channel = c /\ e.level = "ERROR"}
RecentErrors(c) == Newest(ErrorsOf(c), Recent)

Same(e, f) == /\ e.message = f.message /\ e.category = f.category
              /\ e.channel = f.channel

\* Mutant: the comparison forgets the window
RepeatedEver(e) == \E f \in RecentErrors(e.channel) : Same(e, f)

\* Mutant: an error is told once per session
RepeatedInSession(e) ==
  \E f \in RecentErrors(e.channel) :
    Same(e, f) /\ e.session = f.session /\ e.time <= f.time + Window

\* _should_suppress_global_event, of an error
Repeated(e) ==
  \E f \in RecentErrors(e.channel) : Same(e, f) /\ e.time <= f.time + Window

\* Mutant: one routine event is not known as such
NoiseLess(e) == e.type \in {"started", "source_resolution", "aborted"}

\* _is_probe_noise_event: every session was opened by a check
Noise(e) == e.type \in {"started", "probing", "source_resolution", "aborted"}

Append(type, level, c, message) ==
  /\ nextId <= MaxEvents
  /\ nextId' = nextId + 1
  /\ events' = events \cup
       {[id |-> nextId, mark |-> 0, time |-> now, level |-> level, type |-> type,
         channel |-> c, message |-> message, category |-> None, session |-> None]}

-----------------------------------------------------------------------------
(* The registry: an operation writes the row, then tells.  What goes to    *)
(* the session's own log only is appended at once.                         *)

Tell(s, next, type, message, category) ==
  LET level == IF type = "failed" THEN "ERROR" ELSE "INFO"
      e == [id |-> 0, mark |-> nextId - 1, time |-> now, level |-> level, type |-> type,
            channel |-> of'[s], message |-> message,
            category |-> IF category = None THEN sticky[s] ELSE category, session |-> s]
      repeated == level = "ERROR" /\ Repeated(e)
      noise == level = "INFO" /\ Noise(e) IN
  /\ phase' = [phase EXCEPT ![s] = next]
  /\ rows' = rows \cup {s}
  /\ wrote' = [wrote EXCEPT ![s] = now]
  /\ withheld' = IF repeated THEN withheld \cup {e} ELSE withheld
  /\ IF noise
     THEN sessionLog' = sessionLog \cup {e} /\ UNCHANGED pending
     ELSE /\ pending' = [pending EXCEPT ![s] =
                            [event |-> e, to |-> IF repeated THEN "session" ELSE "global"]]
          /\ UNCHANGED sessionLog
  /\ UNCHANGED <<now, nextId, events>>

\* Mutant: _emit returns when the error is not told
AppendSessionEventTold(s) ==
  /\ pending[s] # None /\ pending[s].to = "session"
  /\ sessionLog' = IF pending[s].event \in withheld THEN sessionLog
                   ELSE sessionLog \cup {pending[s].event}
  /\ pending' = [pending EXCEPT ![s] = None]
  /\ UNCHANGED <<now, chan, phase, of, sticky, rows, wrote, nextId, events, withheld, failed>>

\* the rest of _emit.  Both logs get the stamp of the comparison; the code stamps
\* the session's copy when it builds it, later within the same step of time.
AppendEvent(s) ==
  /\ pending[s] # None /\ pending[s].to = "global" /\ nextId <= MaxEvents
  /\ events' = events \cup {[pending[s].event EXCEPT !.id = nextId]}
  /\ nextId' = nextId + 1
  /\ pending' = [pending EXCEPT ![s].to = "session"]
  /\ UNCHANGED <<now, chan, phase, of, sticky, rows, wrote, sessionLog, withheld, failed>>

AppendSessionEvent(s) ==
  /\ pending[s] # None /\ pending[s].to = "session"
  /\ sessionLog' = sessionLog \cup {pending[s].event}
  /\ pending' = [pending EXCEPT ![s] = None]
  /\ UNCHANGED <<now, chan, phase, of, sticky, rows, wrote, nextId, events, withheld, failed>>

At(s, p) == phase[s] = p /\ pending[s] = None
Put(s, status, pid, error) ==
  chan' = [chan EXCEPT ![of[s]] = [status |-> status, pid |-> pid, error |-> error]]
Fails(s) == failed' = failed \cup {of[s]}
\* the entry in _active_processes
Owned(c) == \E s \in Session :
  of[s] = c /\ phase[s] \in {"recording", "stalling", "stalled", "converted", "broken",
                             "salvaged", "retrying"} \cup Converting

-----------------------------------------------------------------------------
(* The handlers, as far as the user hears of them                          *)

Open(s, c) ==
  /\ At(s, "none") /\ ~chan[c].pid /\ ~Owned(c)
  /\ of' = [of EXCEPT ![s] = c]
  /\ chan' = [chan EXCEPT ![c].status = "checking"]
  /\ Tell(s, "opened", "started", "started", None)
  /\ UNCHANGED <<sticky, failed>>

Resolve(s) ==
  /\ UNCHANGED <<chan, of, sticky, failed>>
  /\ \/ At(s, "opened") /\ Tell(s, "probing", "probing", "resolution", None)
     \/ At(s, "probing") /\ Tell(s, "resolving", "source_resolution", "checking", None)

\* attach_source: a public room comes with the category "unknown"
Acquire(s) ==
  /\ At(s, "resolving")
  /\ Put(s, IF Owned(of[s]) THEN "recording" ELSE "checking", chan[of[s]].pid, None)
  /\ UNCHANGED <<of, sticky, failed>>
  /\ Tell(s, "acquired", "source_acquired", "live", "unknown")

Unavailable(s) ==
  /\ At(s, "resolving")
  /\ Put(s, "idle", chan[of[s]].pid, None)
  /\ UNCHANGED <<of, sticky, failed>>
  /\ \E m \in Excuse : Tell(s, "ended", "aborted", m, None)

\* Mutant: the channel keeps the category instead of the message
RejectCategory(s) ==
  /\ At(s, "resolving")
  /\ UNCHANGED <<of, sticky>> /\ Fails(s)
  /\ \E f \in Failure :
       /\ Put(s, "error", chan[of[s]].pid, f.category)
       /\ Tell(s, "ended", "failed", f.message, f.category)

Reject(s) ==
  /\ At(s, "resolving")
  /\ UNCHANGED <<of, sticky>> /\ Fails(s)
  /\ \E f \in Failure :
       /\ Put(s, "error", chan[of[s]].pid, f.message)
       /\ Tell(s, "ended", "failed", f.message, f.category)

Launch(s) ==
  /\ At(s, "acquired") /\ ~Owned(of[s])
  /\ Put(s, "recording", TRUE, None)
  /\ UNCHANGED <<of, sticky, failed>>
  /\ Tell(s, "recording", "recording", "recording", None)

\* start_recording finds the channel owned: by another capture, or by the one
\* that wants to retry
Refuse(s) ==
  /\ At(s, "acquired") \/ At(s, "retrying")
  /\ phase[s] = "acquired" => Owned(of[s])
  /\ Put(s, "recording", chan[of[s]].pid, None)
  /\ phase' = [phase EXCEPT ![s] = "left"]
  /\ UNCHANGED <<now, of, sticky, rows, wrote, pending, nextId, events, sessionLog, withheld, failed>>

\* terminate_stalled_recording: store.log_error, then sessions.fail.  The SIGTERM
\* comes first, so that the capture's thread may already be finalizing the same
\* session; here its Finish or Lose follows StallFail, one handler per session.
Stall(s) ==
  /\ At(s, "recording")
  /\ phase' = [phase EXCEPT ![s] = "stalling"]
  /\ Append("RECORDER_EXITED", "ERROR", of[s], "stalled")
  /\ Fails(s)
  /\ UNCHANGED <<now, chan, of, sticky, rows, wrote, pending, sessionLog, withheld>>
StallFail(s) ==
  /\ At(s, "stalling")
  /\ UNCHANGED <<chan, of, sticky, failed>>
  /\ Tell(s, "stalled", "failed", "stalled", "process_failure")

\* _finalize_recording: finished, stopped, unavailable or broken.  A recording
\* that broke with a file is converted before it is given up or retried.
Finish(s) ==
  /\ At(s, "recording") \/ At(s, "stalled")
  /\ Put(s, "idle", FALSE, None)
  /\ UNCHANGED <<of, sticky>>
  /\ \/ /\ \/ Tell(s, "converting", "converting", "converting", None)
           \/ \E m \in Excuse : Tell(s, "ended", "aborted", m, None)
        /\ UNCHANGED failed
     \/ /\ \/ Tell(s, "breaking", "converting", "converting", None)
           \/ Tell(s, "salvaging", "converting", "salvaging", None)
        /\ Fails(s)
\* it broke and left no file
Lose(s) ==
  /\ At(s, "recording") \/ At(s, "stalled")
  /\ Put(s, "idle", FALSE, None) /\ Fails(s)
  /\ \E next \in {"broken", "salvaged"} : phase' = [phase EXCEPT ![s] = next]
  /\ UNCHANGED <<now, of, sticky, rows, wrote, pending, nextId, events, sessionLog, withheld>>

\* convert_recording tells the global log only
Convert(s) ==
  /\ phase[s] \in Converting /\ pending[s] = None
  /\ \/ Append("convert_completed", "INFO", of[s], "converted") /\ UNCHANGED failed
     \/ Append("CONVERT_FAILED", "ERROR", of[s], "unconverted") /\ Fails(s)
  /\ phase' = [phase EXCEPT ![s] = Converted[phase[s]]]
  /\ UNCHANGED <<now, chan, of, sticky, rows, wrote, pending, sessionLog, withheld>>
Complete(s) ==
  /\ At(s, "converted")
  /\ UNCHANGED <<chan, of, sticky, failed>>
  /\ \/ Tell(s, "ended", "completed", "finished", None)
     \/ \E m \in Excuse \cup {"finished"} : Tell(s, "ended", "aborted", m, None)

\* not to be retried, or the retry came to nothing: the channel is left in error
Break(s) ==
  /\ At(s, "broken") \/ At(s, "retrying")
  /\ UNCHANGED <<of, sticky>> /\ Fails(s)
  /\ \E f \in Failure :
       /\ Put(s, "error", FALSE, f.message)
       /\ Tell(s, "ended", "failed", f.message, f.category)

\* the category of the failure stays in session.metadata
Retry(s) ==
  /\ At(s, "salvaged")
  /\ sticky' = [sticky EXCEPT ![s] = "source_unstable"]
  /\ UNCHANGED <<chan, of, failed>>
  /\ Tell(s, "retrying", "retry", "missing", "source_unstable")

\* recover_stale_recording, of the session get() finds
Recover(s) ==
  /\ At(s, "left") /\ s \in rows
  /\ chan[of[s]].status = "recording" /\ ~chan[of[s]].pid /\ ~Owned(of[s])
  /\ UNCHANGED <<chan, of, sticky, failed>>
  /\ Tell(s, "recovering", "recovering", "recovering", None)
Recovered(s) ==
  /\ At(s, "recovering")
  /\ Put(s, "idle", FALSE, chan[of[s]].error)
  /\ UNCHANGED <<of, sticky, failed>>
  /\ \E t \in {"completed", "aborted"} : Tell(s, "ended", t, "recovered", None)

\* A step of a handler takes less than the window, but for recording itself
\* and for a conversion.
Tick ==
  /\ now < MaxTime
  /\ \A s \in Session : pending[s] = None /\ phase[s] \in Quiet
  /\ now' = now + 1
  /\ UNCHANGED <<chan, phase, of, sticky, rows, wrote, pending, nextId, events, sessionLog, withheld, failed>>

-----------------------------------------------------------------------------
(* prune_retained_history                                                  *)

\* Mutant: errors are kept no longer than anything else
RetainedAlike(e) == now - e.time <= LogAge

\* _delete_event_logs_unlocked, _delete_session_event_logs_unlocked
Retained(e) == now - e.time <= IF e.level = "ERROR" THEN ErrorAge ELSE LogAge

\* a session that ended, or that was left: a recording one names its process
Expired(s) == s \in rows /\ phase[s] \in {"ended", "left"} /\ pending[s] = None
              /\ now - wrote[s] > SessionAge

\* a session's events go with it: ON DELETE CASCADE
Prune ==
  /\ events' = {e \in events : Retained(e)}
  /\ rows' = {s \in rows : ~Expired(s)}
  /\ sessionLog' = {e \in sessionLog : Retained(e) /\ e.session \in rows'}
  /\ <<events', rows', sessionLog'>> # <<events, rows, sessionLog>>
  /\ UNCHANGED <<now, chan, phase, of, sticky, wrote, pending, nextId, withheld, failed>>

SessionStep(s) ==
  \/ AppendEvent(s) \/ AppendSessionEvent(s)
  \/ \E c \in Channel : Open(s, c)
  \/ Resolve(s) \/ Acquire(s) \/ Unavailable(s) \/ Reject(s) \/ Launch(s) \/ Refuse(s)
  \/ Stall(s) \/ StallFail(s) \/ Finish(s) \/ Lose(s) \/ Convert(s) \/ Complete(s) \/ Break(s)
  \/ Retry(s) \/ Recover(s) \/ Recovered(s)

Next == (\E s \in Session : SessionStep(s)) \/ Tick \/ Prune
Spec == Init /\ [][Next]_vars

-----------------------------------------------------------------------------
(* The dashboard: serialize_bootstrap and serialize_logs_response          *)

Seen == Newest(events, Feed)
Latest(c) ==
  LET mine == {e \in Seen : e.channel = c} IN
  IF mine = {} THEN None ELSE CHOOSE e \in mine : \A f \in mine : ~Newer(f, e)

SaysOf(m) == IF m = None THEN {} ELSE Says[m]
\* what _channel_status_from_event looks at
Texts(c) == SaysOf(chan[c].error) \cup
            (IF Latest(c) = None THEN {} ELSE Says[Latest(c).message])

\* the first that fits
Detail(c) ==
  LET texts == Texts(c)
      order == <<"password", "private", "404", "auth", "offline">>
      shown == <<"Password protected", "Private show", "Source unstable", "Auth issue", "Offline">>
      found == {i \in 1..5 : order[i] \in texts} IN
  IF chan[c].status = "recording" THEN "Online"
  ELSE IF found # {} THEN shown[CHOOSE i \in found : \A j \in found : i <= j]
  ELSE IF chan[c].status = "error" THEN "Error" ELSE "Offline"
Bad == {"Source unstable", "Auth issue", "Error"}

\* _infer_failure_category
FailureCategory(c) ==
  LET e == Latest(c)
      texts == Says[e.message] IN
  IF e = None THEN None
  ELSE IF e.category # None THEN e.category
  ELSE IF e.type = "RECORDER_EXITED" THEN "process_failure"
  ELSE IF "auth" \in texts THEN "auth_invalid"
  ELSE IF texts \cap {"source", "404"} # {} THEN "source_unstable"
  ELSE IF texts \cap {"stalled", "exited"} # {} THEN "process_failure" ELSE None

\* the issues build_session_overview counts.  It also counts a source_status of
\* "error" or "failed", left out: the metadata's is the room's status, which is
\* what the platform calls its rooms, and the worker writes no other.
SourceIssue(c) == FailureCategory(c) = "source_unstable"
AuthIssue(c) == FailureCategory(c) = "auth_invalid"

IsActive(c) == chan[c].pid \/ chan[c].status = "recording"
\* _infer_phase: an event of the registry names its phase, which its type gives
Busy(c) == Latest(c) # None /\ Latest(c).type \in {"recording", "converting", "recovering", "failed"}
Meaningful(c) ==
  \/ IsActive(c) \/ Busy(c)
  \/ FailureCategory(c) # None \/ chan[c].error # None \/ chan[c].status = "error"

UpdatedAt(c) == IF Latest(c) = None THEN 0 ELSE Latest(c).time
\* Mutant: sorted by the time of their update alone
BeforeByTime(c, d) == UpdatedAt(c) < UpdatedAt(d)

\* _sort_session_snapshot, but for the names
Before(c, d) ==
  \/ IsActive(c) /\ ~IsActive(d)
  \/ (IsActive(c) <=> IsActive(d)) /\ UpdatedAt(c) < UpdatedAt(d)
\* recent_sessions, however equal ones are ordered
MayBeCut(c) ==
  LET meaningful == {d \in Channel : Meaningful(d)} IN
  Cardinality({d \in meaningful \ {c} : ~Before(c, d)}) >= Shown

-----------------------------------------------------------------------------
(* Properties                                                              *)

TypeOK ==
  /\ now \in 0..MaxTime /\ nextId \in Nat
  /\ chan \in [Channel -> [status : {"idle", "checking", "recording", "error"},
                           pid : BOOLEAN, error : Message \cup {None}]]
  /\ phase \in [Session -> Phase] /\ of \in [Session -> Channel \cup {None}]
  /\ sticky \in [Session -> Category \cup {None}]
  /\ rows \subseteq Session /\ wrote \in [Session -> 0..MaxTime]
  /\ pending \in [Session -> Pending \cup {None}]
  /\ events \subseteq Event /\ sessionLog \subseteq Event
  /\ withheld \subseteq Event /\ failed \subseteq Channel

\* An error is held back only behind one the user can read: the same error,
\* told within the window before it, for as long as that one must be kept.
SuppressedShown ==
  \A e \in withheld : now - e.time + Window <= ErrorAge =>
    \E f \in events : f.level = "ERROR" /\ Same(e, f) /\ e.time <= f.time + Window

\* The registry repeats an error within the window only when it could not see
\* the first: it was appended after the comparison, or many errors followed it.
RepeatsNeedARace ==
  \A e, f \in events :
    (/\ e.type = "failed" /\ f.type = "failed" /\ Same(e, f)
     /\ e.id < f.id /\ f.time <= e.time + Window)
    => \/ e.id > f.mark
       \/ Cardinality({g \in events : g.channel = e.channel /\ g.level = "ERROR"
                                      /\ Newer(g, e) /\ g.id <= f.mark}) >= Recent

\* While a session is kept, its own log and the global one tell the same about
\* it, but for the event being appended and for what is held back, which its own
\* log has as long as errors are kept.
LogsAgree ==
  \A s \in rows :
    LET global == {Told(e) : e \in {e \in events : e.session = s}}
        own == {e \in sessionLog : e.session = s}
        next == IF pending[s] = None THEN {} ELSE {pending[s].event} IN
    /\ global \subseteq own \cup next
    /\ {e \in own : ~Noise(e) /\ e \notin withheld} \subseteq global
    /\ {e \in withheld : e.session = s /\ Retained(e)} \subseteq own \cup next

\* A channel nothing ever went wrong with is never shown as faulty, and is not
\* counted among the source or the authentication issues.
NoFalseAlarm ==
  \A c \in Channel \ failed :
    /\ Detail(c) \notin Bad
    /\ ~SourceIssue(c) /\ ~AuthIssue(c)

\* As long as the list has room for the channels that record, it shows them.
ActiveListed ==
  Cardinality({c \in Channel : IsActive(c)}) <= Shown =>
    \A c \in Channel : IsActive(c) => ~MayBeCut(c)
=============================================================================
