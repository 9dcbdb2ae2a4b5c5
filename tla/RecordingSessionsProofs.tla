----------------------- MODULE RecordingSessionsProofs -----------------------
(***************************************************************************)
(* What TLAPS proves of RecordingSessions for every value of the           *)
(* constants: types, that no row is deleted under a handler that works for *)
(* it, and that the registry and its table implement SessionLife.          *)
(*                                                                         *)
(* Most steps move one thread and leave the rows' life alone.  They are    *)
(* brought into three forms (Plain, Transits, Finishes), and the           *)
(* invariant is shown for these and for the actions that have none.        *)
(***************************************************************************)
EXTENDS RecordingSessions, TLAPS

\* at these steps a thread has a session
Working == Pc \ {"idle", "load", "begin", "publish", "tick"}
CapturePc == {"idle", "write", "close", "wait", "finalize", "settle", "settled",
              "convert", "salvage", "retry", "start", "pop"}

AfterWrite == {"probing", "resolve", "spawn", "convert", "salvage", "retry", "recovering", "close"}

PlacedAt(t, m) ==
  /\ m.pc \in Working => m.session \in Session
  /\ m.pc = "write" => m.then \in AfterWrite /\ (m.data.ends <=> m.then = "close")
  /\ m.pc \in {"publish", "insert"} => m.then \in {"opened", "recover"}
  /\ t \in Session => /\ m.pc \in CapturePc
                      /\ m.pc # "idle" => m.session = t
                      /\ m.pc = "write" => m.then \in {"convert", "salvage", "retry", "close"}
\* A working thread has a session, a capture thread only its own, and a write is
\* followed by the step its handler goes on with.
Placed == \A t \in Thread : PlacedAt(t, thr[t])

Types == TypeOK /\ Placed

\* the forms of a step
Touch == \/ row' = row
         \/ \E s \in Session : row[s] # None /\ row' = [row EXCEPT ![s].updated = "recent"]
Moves(t, m) == m \in Local /\ PlacedAt(t, m) /\ thr' = [thr EXCEPT ![t] = m]
\* the scheduler is about to end a session, which it may share with its threads
Ending == \/ thr[Sched].pc \in {"stalled", "recover", "recovering"}
          \/ thr[Sched].pc = "write" /\ (thr[Sched].then = "recovering" \/ thr[Sched].data.ends)
Closing == Ending \/ thr[Sched].pc = "close"
Statuses == /\ obj' \in [Session -> [status : {"active"} \cup Terminal, pid : BOOLEAN]]
            /\ \A s \in Session : obj'[s].status = obj[s].status

Keeps == born' = born /\ (Present' => Present)

\* to a step without consequences: the session is kept or left, or the
\* scheduler takes up one in order to end it
Plain(t) ==
  /\ Keeps /\ Touch /\ Statuses
  /\ t = Sched /\ Ending => ~Present' \/ row[thr[Sched].session] = None
  /\ thr[t].pc = "write" => row[thr[t].session] = None
  /\ \E m \in Local :
       /\ Moves(t, m)
       /\ m.pc \notin {"write", "insert", "close", "spawn", "wait"}
       /\ t = Sched /\ Closing => m.session = None
       /\ \/ m.session \in {thr[t].session, None}
          \/ t = Sched /\ m.pc \in {"stalled", "recover"}

\* registry.transition
Transits(t) ==
  /\ Keeps /\ row' = row /\ Statuses /\ thr[t].pc # "write"
  /\ \E m \in Local :
       /\ Moves(t, m)
       /\ m.pc = "write" /\ m.session = thr[t].session /\ ~m.data.ends
       /\ t = Sched /\ Closing => m.then = "recovering"
       /\ m.then = "spawn" => /\ m.data.pid
                              /\ m.data.status = DomainStatus(m.session, "recording")

\* registry.complete and registry.fail
Finishes(t) ==
  /\ Keeps /\ row' = row
  /\ thr[t].session \in Session
  /\ \E o \in Outcome : obj' = [obj EXCEPT ![thr[t].session].status = o]
  /\ \E m \in Local :
       /\ Moves(t, m)
       /\ m.pc = "write" /\ m.session = thr[t].session /\ m.data.ends

Form(t) == Plain(t) \/ Transits(t) \/ Finishes(t)

-----------------------------------------------------------------------------
(* Locals                                                                  *)

LEMMA LocalsAre ==
  /\ Idle \in Local /\ Idle.pc = "idle" /\ Idle.session = None
  /\ \A p \in Pc, s \in Session \cup {None} :
       /\ At(p, s) \in Local /\ At(p, s).pc = p /\ At(p, s).session = s
       /\ At(p, s).then = "idle"
<1>1. NoWrite \in Write
  BY DEF NoWrite, Write, Status
<1>2. "idle" \in Pc
  BY DEF Pc
<1>3. Idle \in Local /\ Idle.pc = "idle" /\ Idle.session = None
  BY <1>1, <1>2 DEF Idle, Local
<1>4. ASSUME NEW p \in Pc, NEW s \in Session \cup {None}
      PROVE  /\ At(p, s) \in Local /\ At(p, s).pc = p /\ At(p, s).session = s
             /\ At(p, s).then = "idle"
  BY <1>1, <1>2, <1>4 DEF At, Idle, Local
<1> QED
  BY <1>3, <1>4

LEMMA MovesTyped ==
  ASSUME Types, NEW t \in Thread, NEW m \in Local, Moves(t, m)
  PROVE  /\ thr' \in [Thread -> Local] /\ Placed'
         /\ thr'[t] = m /\ \A u \in Thread \ {t} : thr'[u] = thr[u]
BY DEF Types, TypeOK, Placed, Moves, PlacedAt

\* a thread that goes on with its session
LEMMA GotoPlain ==
  ASSUME Types, NEW t \in Thread, NEW p \in Pc, Goto(t, p),
         p \notin {"write", "publish", "insert", "close", "spawn", "wait"},
         p \in Working => thr[t].session \in Session,
         t \in Session => p \in CapturePc /\ thr[t].session = t
  PROVE  \E m \in Local : /\ Moves(t, m) /\ m.session = thr[t].session
                          /\ m.pc \notin {"write", "insert", "close", "spawn", "wait"}
<1> DEFINE m == At(p, thr[t].session)
<1>1. thr[t] \in Local
  BY DEF Types, TypeOK
<1>2. m \in Local /\ m.pc = p /\ m.session = thr[t].session
  BY <1>1, LocalsAre DEF Local
<1>3. thr' = [thr EXCEPT ![t] = m]
  BY DEF Goto, Become
<1> HIDE DEF m
<1>4. Moves(t, m)
  BY <1>2, <1>3 DEF Moves, PlacedAt
<1> QED
  BY <1>2, <1>4

\* a thread that returns
LEMMA LeavePlain ==
  ASSUME Types, NEW t \in Thread, Leave(t), t \in Session => thr[t].session = t
  PROVE  \E m \in Local : /\ Moves(t, m) /\ m.session \in {thr[t].session, None}
                          /\ t \notin Session => m.session = None
                          /\ m.pc \notin {"write", "insert", "close", "spawn", "wait"}
<1> DEFINE m == IF t \in Session THEN At("pop", t) ELSE Idle
<1>1. /\ m \in Local
      /\ m.pc = IF t \in Session THEN "pop" ELSE "idle"
      /\ m.session = IF t \in Session THEN t ELSE None
  BY LocalsAre DEF Pc
<1>2. thr' = [thr EXCEPT ![t] = m]
  BY DEF Leave, Become
<1> HIDE DEF m
<1>3. Moves(t, m)
  BY <1>1, <1>2 DEF Moves, PlacedAt, CapturePc, Working
<1> QED
  BY <1>1, <1>3

\* a thread that writes a transition, or an end
LEMMA TransitionForm ==
  ASSUME Types, NEW t \in Thread, NEW phase \in Status, NEW pid \in BOOLEAN,
         NEW next \in Pc, Transition(t, thr[t].session, phase, pid, next),
         thr[t].session \in Session, Keeps, row' = row, thr[t].pc # "write",
         t \in Session => thr[t].session = t /\ next \in {"convert", "salvage", "retry", "close"},
         next \in AfterWrite \ {"close"},
         t = Sched /\ Closing => next = "recovering",
         next = "spawn" => pid /\ phase = "recording"
  PROVE  Transits(t)
<1> DEFINE s == thr[t].session
           d == [status |-> DomainStatus(s, phase), pid |-> pid, ends |-> FALSE]
           m == [pc |-> "write", session |-> s, then |-> next, data |-> d]
<1>1. obj[s].status \in {"active"} \cup Terminal
  BY DEF Types, TypeOK
<1>2. DomainStatus(s, phase) \in Status
  BY <1>1 DEF DomainStatus, Status
<1>3. d \in Write
  BY <1>2 DEF Write
<1>4. m \in Local
  BY <1>3 DEF Local, Pc
<1>5. thr' = [thr EXCEPT ![t] = m]
  BY DEF Transition, Become
<1>6. PlacedAt(t, m)
  BY DEF PlacedAt, CapturePc
<1>7. Statuses
  BY DEF Transition, Types, TypeOK, Statuses
<1>8. /\ Moves(t, m)
      /\ m.pc = "write" /\ m.session = s /\ ~m.data.ends /\ m.then = next
      /\ m.data.pid = pid /\ m.data.status = DomainStatus(s, phase)
  BY <1>4, <1>5, <1>6 DEF Moves
<1> HIDE DEF m, d
<1> QED
  BY <1>4, <1>7, <1>8 DEF Transits

LEMMA EndForm ==
  ASSUME Types, NEW t \in Thread, NEW o \in Outcome, End(t, thr[t].session, o),
         thr[t].session \in Session, Keeps, row' = row,
         t \in Session => thr[t].session = t
  PROVE  Finishes(t)
<1> DEFINE s == thr[t].session
           d == [status |-> o, pid |-> FALSE, ends |-> TRUE]
           m == [pc |-> "write", session |-> s, then |-> "close", data |-> d]
<1>1. d \in Write
  BY DEF Write, Status, Outcome
<1>2. m \in Local
  BY <1>1 DEF Local, Pc
<1>3. thr' = [thr EXCEPT ![t] = m]
  BY DEF End, Become
<1>4. PlacedAt(t, m)
  BY DEF PlacedAt, CapturePc, AfterWrite
<1>5. Moves(t, m) /\ m.pc = "write" /\ m.session = s /\ m.data.ends
  BY <1>2, <1>3, <1>4 DEF Moves
<1>6. obj' = [obj EXCEPT ![s].status = o]
  BY DEF End
<1> HIDE DEF m, d
<1> QED
  BY <1>2, <1>5, <1>6 DEF Finishes

\* What is left to say of a step to a plain place
LEMMA PlainForm ==
  ASSUME Types, NEW t \in Thread, Keeps, Touch, obj' = obj,
         t = Sched /\ Ending => ~Present' \/ row[thr[Sched].session] = None,
         thr[t].pc = "write" => row[thr[t].session] = None,
         NEW m \in Local, Moves(t, m), m.session \in {thr[t].session, None},
         t = Sched /\ Closing => m.session = None,
         m.pc \notin {"write", "insert", "close", "spawn", "wait"}
  PROVE  Form(t)
<1>1. Statuses
  BY DEF Types, TypeOK, Statuses
<1> QED
  BY <1>1 DEF Form, Plain

LEMMA GotoForm ==
  ASSUME Types, NEW t \in Thread, NEW p \in Pc, Goto(t, p),
         Keeps, Touch, obj' = obj, t = Sched => ~Closing, thr[t].pc # "write",
         p \notin {"write", "publish", "insert", "close", "spawn", "wait"},
         p \in Working => thr[t].session \in Session,
         t \in Session => p \in CapturePc /\ thr[t].session = t
  PROVE  Form(t)
<1>1. PICK m \in Local : /\ Moves(t, m) /\ m.session = thr[t].session
                         /\ m.pc \notin {"write", "insert", "close", "spawn", "wait"}
  BY GotoPlain
<1> QED
  BY <1>1, PlainForm DEF Closing

LEMMA LeaveForm ==
  ASSUME Types, NEW t \in Thread, Leave(t), t \in Session => thr[t].session = t,
         Keeps, Touch, obj' = obj,
         t = Sched /\ Ending => ~Present' \/ row[thr[Sched].session] = None,
         thr[t].pc = "write" => row[thr[t].session] = None
  PROVE  Form(t)
<1>1. Sched \notin Session
  BY SessionAssumption DEF Prober
<1>2. PICK m \in Local : /\ Moves(t, m) /\ m.session \in {thr[t].session, None}
                         /\ t \notin Session => m.session = None
                         /\ m.pc \notin {"write", "insert", "close", "spawn", "wait"}
  BY LeavePlain
<1>3. t = Sched => m.session = None
  BY <1>1, <1>2
<1> QED
  BY <1>2, <1>3, PlainForm

-----------------------------------------------------------------------------
(* The handlers' steps have a form                                         *)

LEMMA CheckForms ==
  ASSUME Types, NEW k \in Prober,
         \/ CheckLoad(k) \/ CheckBegin(k) \/ CheckTransitions(k) \/ CheckResolve(k)
         \/ CheckOnline(k) \/ TriggerCheck(k)
  PROVE  Form(k)
<1>1. k \in Thread /\ k \notin Session
  BY SessionAssumption DEF Thread
<1>2. thr[k] \in Local /\ PlacedAt(k, thr[k])
  BY <1>1 DEF Types, TypeOK, Placed
<1>3. CASE TriggerCheck(k)
  <2>1. thr[k].pc = "idle" /\ Keeps /\ Touch /\ obj' = obj /\ (~Closing \/ k # Sched)
    BY <1>3 DEF TriggerCheck, Keeps, Touch, Ending, Closing, Present
  <2>2. Goto(k, "load") /\ "load" \in Pc /\ "load" \notin Working
    BY <1>3 DEF TriggerCheck, Pc, Working
  <2> QED
    BY <2>1, <2>2, <1>1, GotoForm DEF Form
<1>4. CASE CheckLoad(k)
  <2>1. thr[k].pc = "load" /\ Keeps /\ Touch /\ obj' = obj /\ (~Closing \/ k # Sched)
    BY <1>4 DEF CheckLoad, Keeps, Touch, Ending, Closing, Present
  <2>2. "begin" \in Pc /\ "begin" \notin Working
    BY DEF Pc, Working
  <2>3. Goto(k, "begin") \/ Leave(k)
    BY <1>4 DEF CheckLoad
  <2> QED
    BY <2>1, <2>2, <2>3, <1>1, GotoForm, LeaveForm DEF Form, Closing
<1>5. CASE CheckBegin(k)
  <2>1. thr[k].pc = "begin" /\ Keeps /\ Touch /\ obj' = obj /\ (~Closing \/ k # Sched)
    BY <1>5 DEF CheckBegin, Keeps, Touch, Ending, Closing, Present
  <2>2. CASE Leave(k)
    BY <2>1, <2>2, <1>1, LeaveForm DEF Form, Closing
  <2>3. CASE Become(k, [At("publish", None) EXCEPT !.then = "opened"])
    <3> DEFINE m == [At("publish", None) EXCEPT !.then = "opened"]
    <3>1. m \in Local /\ m.pc = "publish" /\ m.session = None
      <4>1. At("publish", None) \in Local /\ At("publish", None).pc = "publish"
            /\ At("publish", None).session = None
        BY LocalsAre DEF Pc
      <4> QED
        BY <4>1 DEF Local, Pc
    <3>2. Moves(k, m)
      BY <2>3, <3>1, <1>1 DEF Moves, PlacedAt, Become, Working
    <3> HIDE DEF m
    <3> QED
      BY <2>1, <3>1, <3>2, <1>1, PlainForm DEF Closing
  <2> QED
    BY <1>5, <2>2, <2>3 DEF CheckBegin
<1>6. CASE CheckTransitions(k)
  <2> DEFINE s == thr[k].session
  <2>1. Keeps /\ row' = row
    BY <1>6 DEF CheckTransitions, Keeps, Present
  <2>2. PICK phase \in {"probing", "resolving_source"}, next \in {"probing", "resolve"} :
          thr[k].pc \in {"opened", "probing"} /\ Transition(k, s, phase, obj[s].pid, next)
    BY <1>6 DEF CheckTransitions
  <2>3. s \in Session
    BY <1>2, <2>2 DEF PlacedAt, Working, Pc
  <2>4. obj[s].pid \in BOOLEAN /\ phase \in Status /\ next \in Pc /\ next # "spawn"
    BY <2>3 DEF Types, TypeOK, Status, Pc
  <2>5. k = Sched => ~Closing
    BY <2>2 DEF Ending, Closing
  <2> QED
    BY <2>1, <2>2, <2>3, <2>4, <2>5, <1>1, TransitionForm DEF Form, AfterWrite
<1>7. CASE CheckResolve(k)
  <2> DEFINE s == thr[k].session
  <2>1. thr[k].pc = "resolve" /\ s \in Session /\ Keeps
    BY <1>2, <1>7 DEF CheckResolve, Keeps, PlacedAt, Working, Pc, Present
  <2>2. k = Sched => ~Closing
    BY <2>1 DEF Ending, Closing
  <2>3. CASE AttachSource(k, "online") /\ UNCHANGED <<obj, chan>>
    <3>1. Touch /\ (Goto(k, "online") \/ Leave(k))
      BY <2>1, <2>3 DEF AttachSource, Touch
    <3>2. "online" \in Pc /\ "online" \notin {"write", "publish", "insert", "close", "spawn", "wait"}
      BY DEF Pc
    <3> QED
      BY <2>1, <2>2, <2>3, <3>1, <3>2, <1>1, GotoForm, LeaveForm DEF Form, Closing
  <2>4. CASE Goto(k, "nourl") /\ UNCHANGED <<obj, row, chan>>
    BY <2>1, <2>2, <2>4, <1>1, GotoForm DEF Form, Touch, Pc
  <2>5. CASE (\E o \in {"aborted", "failed"} : End(k, s, o)) /\ UNCHANGED row
    BY <2>1, <2>5, <1>1, EndForm DEF Form, Outcome, Terminal
  <2>6. CASE Leave(k) /\ UNCHANGED <<obj, row, chan>>
    BY <2>1, <2>2, <2>6, <1>1, LeaveForm DEF Form, Closing, Touch
  <2> QED
    BY <1>7, <2>3, <2>4, <2>5, <2>6 DEF CheckResolve
<1>8. CASE CheckOnline(k)
  <2>1. /\ thr[k].pc \in {"online", "nourl"} /\ thr[k].session \in Session
        /\ Keeps /\ Touch /\ obj' = obj
    BY <1>2, <1>8 DEF CheckOnline, Keeps, Touch, PlacedAt, Working, Pc, Present
  <2>2. k = Sched => ~Closing
    BY <2>1 DEF Ending, Closing
  <2>3. Leave(k) \/ \E p \in {"start", "nosource"} : Goto(k, p)
    BY <1>8 DEF CheckOnline
  <2>4. \A p \in {"start", "nosource"} :
          p \in Pc /\ p \notin {"write", "publish", "insert", "close", "spawn", "wait"}
    BY DEF Pc
  <2> QED
    BY <2>1, <2>2, <2>3, <2>4, <1>1, GotoForm, LeaveForm DEF Form, Closing
<1> QED
  BY <1>3, <1>4, <1>5, <1>6, <1>7, <1>8

LEMMA RefusedForm ==
  ASSUME Types, NEW t \in Thread, StartRefused(t)
  PROVE  Form(t)
<1>1. /\ thr[t].pc \in {"start", "nosource"} /\ Keeps /\ Touch /\ obj' = obj /\ Leave(t)
      /\ t = Sched => ~Closing
  BY DEF StartRefused, Keeps, Touch, Present, Ending, Closing
<1>2. t \in Session => thr[t].session = t
  BY <1>1 DEF Types, Placed, PlacedAt
<1> QED
  BY <1>1, <1>2, LeaveForm DEF Form, Closing

LEMMA CloseForm ==
  ASSUME Types, NEW t \in Thread, CloseSession(t)
  PROVE  Form(t)
<1>1. thr[t].pc = "close" /\ Keeps /\ Touch /\ obj' = obj /\ Leave(t) /\ (t = Sched => ~Ending)
  BY DEF CloseSession, Keeps, Touch, Present, Ending
<1>2. t \in Session => thr[t].session = t
  BY <1>1 DEF Types, Placed, PlacedAt
<1> QED
  BY <1>1, <1>2, LeaveForm DEF Form, Closing

\* a write that finds no row
LEMMA LostForm ==
  ASSUME Types, NEW t \in Thread, WriteSession(t), row[thr[t].session] = None
  PROVE  Form(t)
<1>1. /\ thr[t].pc = "write" /\ Keeps /\ Touch /\ obj' = obj /\ Leave(t)
      /\ row[thr[t].session] = None
  BY DEF WriteSession, Keeps, Touch, Present
<1>2. t \in Session => thr[t].session = t
  BY <1>1 DEF Types, Placed, PlacedAt
<1> QED
  BY <1>1, <1>2, LeaveForm DEF Form, Closing

LEMMA StartForms ==
  ASSUME Types, NEW k \in Prober, StartNoSource(k) \/ StartProcess(k) \/ StartLaunch(k)
  PROVE  Form(k)
<1> DEFINE s == thr[k].session
<1>1. k \in Thread /\ k \notin Session
  BY SessionAssumption DEF Thread
<1>2. thr[k].pc \in {"nosource", "start", "launch"} /\ Keeps /\ row' = row
  BY DEF StartNoSource, StartProcess, StartLaunch, Keeps, Present
<1>3. s \in Session /\ (k = Sched => ~Closing)
  BY <1>1, <1>2 DEF Types, TypeOK, Placed, PlacedAt, Working, Pc, Ending, Closing
<1>4. CASE StartNoSource(k)
  <2>1. End(k, s, "failed")
    BY <1>4 DEF StartNoSource
  <2> QED
    BY <2>1, <1>1, <1>2, <1>3, EndForm DEF Form, Outcome, Terminal
<1>5. CASE StartProcess(k)
  <2>1. obj' = obj /\ Touch /\ (Goto(k, "launch") \/ Leave(k))
    BY <1>5, <1>2 DEF StartProcess, Touch
  <2>2. "launch" \in Pc /\ "launch" \notin {"write", "publish", "insert", "close", "spawn", "wait"}
    BY DEF Pc
  <2> QED
    BY <2>1, <2>2, <1>1, <1>2, <1>3, GotoForm, LeaveForm DEF Form, Closing
<1>6. CASE StartLaunch(k)
  <2>1. \/ Transition(k, s, "recording", TRUE, "spawn")
        \/ End(k, s, "aborted")
    BY <1>6 DEF StartLaunch
  <2>2. "recording" \in Status /\ "spawn" \in Pc /\ "aborted" \in Outcome
    BY DEF Status, Pc, Outcome, Terminal
  <2> QED
    BY <2>1, <2>2, <1>1, <1>2, <1>3, TransitionForm, EndForm DEF Form, AfterWrite
<1> QED
  BY <1>4, <1>5, <1>6

LEMMA CaptureForms ==
  ASSUME Types, NEW s \in Session, CaptureStep(s)
  PROVE  Form(s)
<1>1. s \in Thread /\ s # Sched
  BY SessionAssumption DEF Thread, Prober
<1>2. PlacedAt(s, thr[s])
  BY <1>1 DEF Types, Placed
<1>3. CASE CaptureWait(s) \/ CaptureLoad(s)
  <2>1. /\ thr[s].pc \in {"wait", "finalize"} /\ Keeps /\ Touch /\ obj' = obj
        /\ Leave(s) \/ \E p \in {"finalize", "settle"} : Goto(s, p)
    BY <1>3 DEF CaptureWait, CaptureLoad, Keeps, Touch, Present
  <2>2. \A p \in {"finalize", "settle"} : p \in Pc /\ p \in CapturePc
          /\ p \notin {"write", "publish", "insert", "close", "spawn", "wait"}
    BY DEF Pc, CapturePc
  <2>3. thr[s].session = s
    BY <1>2, <2>1 DEF PlacedAt
  <2> QED
    BY <2>1, <2>2, <2>3, <1>1, GotoForm, LeaveForm DEF Form, Closing
<1>4. CASE CaptureSettle(s)
  <2>1. thr[s].pc = "settle" /\ Keeps /\ row' = row
    BY <1>4 DEF CaptureSettle, Keeps, Present
  <2>2. thr[s].session = s
    BY <1>2, <2>1 DEF PlacedAt
  <2>3. CASE Present
    <3>1. obj' = [obj EXCEPT ![s].pid = FALSE] /\ Goto(s, "settled")
      BY <1>4, <2>3 DEF CaptureSettle
    <3>2. Statuses /\ Touch
      BY <3>1, <2>1 DEF Statuses, Touch, Types, TypeOK
    <3>3. "settled" \in Pc /\ "settled" \in CapturePc
      BY DEF Pc, CapturePc
    <3>4. \E m \in Local : /\ Moves(s, m) /\ m.session = thr[s].session
                           /\ m.pc \notin {"write", "insert", "close", "spawn", "wait"}
      BY <3>1, <3>3, <2>2, <1>1, GotoPlain
    <3> QED
      BY <3>2, <3>4, <2>1, <1>1 DEF Form, Plain
  <2>4. CASE ~Present
    BY <1>4, <2>1, <2>2, <2>4, <1>1, EndForm DEF CaptureSettle, Form, Outcome, Terminal
  <2> QED
    BY <2>3, <2>4
<1>5. CASE CaptureBranch(s) \/ CaptureConvert(s)
  <2>1. thr[s].pc \in {"settled", "convert", "salvage"} /\ Keeps /\ row' = row
    BY <1>5 DEF CaptureBranch, CaptureConvert, Keeps, Present
  <2>2. thr[s].session = s /\ obj[s].pid \in BOOLEAN
    BY <1>2, <2>1 DEF PlacedAt, Types, TypeOK
  <2>3. \/ \E phase \in {"converting", "resolving_source"}, next \in {"convert", "salvage", "retry"} :
              Transition(s, s, phase, obj[s].pid, next)
        \/ \E o \in Outcome : End(s, s, o)
    BY <1>5 DEF CaptureBranch, CaptureConvert, Outcome, Terminal
  <2>4. {"converting", "resolving_source"} \subseteq Status
        /\ {"convert", "salvage", "retry"} \subseteq Pc
    BY DEF Status, Pc
  <2> QED
    BY <2>1, <2>2, <2>3, <2>4, <1>1, TransitionForm, EndForm DEF Form, AfterWrite
<1>6. CASE CaptureRetry(s)
  <2>1. thr[s].pc = "retry" /\ Keeps
    BY <1>6 DEF CaptureRetry, Keeps, Present
  <2>2. thr[s].session = s
    BY <1>2, <2>1 DEF PlacedAt
  <2>3. CASE obj' = obj /\ Touch /\ (Leave(s) \/ Goto(s, "start"))
    <3>1. "start" \in Pc /\ "start" \in CapturePc
      BY DEF Pc, CapturePc
    <3> QED
      BY <2>1, <2>2, <2>3, <3>1, <1>1, GotoForm, LeaveForm DEF Form, Closing
  <2>4. CASE End(s, s, "failed") /\ UNCHANGED row
    BY <2>1, <2>2, <2>4, <1>1, EndForm DEF Form, Outcome, Terminal
  <2> QED
    BY <1>6, <2>2, <2>3, <2>4 DEF CaptureRetry, AttachSource, Touch
<1>7. CASE CapturePop(s)
  <2>1. thr[s].pc = "pop" /\ Keeps /\ Touch /\ obj' = obj /\ Become(s, Idle)
    BY <1>7 DEF CapturePop, Keeps, Touch, Present
  <2>2. Moves(s, Idle)
    BY <2>1, LocalsAre DEF Moves, Become, PlacedAt, Working, CapturePc
  <2> QED
    BY <2>1, <2>2, <1>1, LocalsAre, PlainForm DEF Form
<1> QED
  BY <1>3, <1>4, <1>5, <1>6, <1>7 DEF CaptureStep

LEMMA SchedForms ==
  ASSUME Types, Sweep \/ SchedStep
  PROVE  Form(Sched)
<1>1. Sched \in Thread /\ Sched \notin Session
  BY SessionAssumption DEF Thread, Prober
<1>2. thr[Sched] \in Local /\ PlacedAt(Sched, thr[Sched])
  BY <1>1 DEF Types, TypeOK, Placed
<1>3. CASE Sweep
  <2>1. thr[Sched].pc = "idle" /\ Keeps /\ Touch /\ obj' = obj /\ Goto(Sched, "tick")
    BY <1>3 DEF Sweep, Keeps, Touch, Present
  <2>2. "tick" \in Pc /\ "tick" \notin Working /\ ~Closing
    BY <2>1 DEF Pc, Working, Ending, Closing
  <2> QED
    BY <2>1, <2>2, <1>1, GotoForm DEF Form
<1>4. CASE Tick
  <2>1. thr[Sched].pc = "tick" /\ Keeps /\ Touch /\ obj' = obj /\ ~Closing
    BY <1>4 DEF Tick, Keeps, Touch, Present, Ending, Closing
  <2>2. CASE \E p \in {"stalled", "recover"} :
               current # None /\ Become(Sched, At(p, current))
    <3>1. PICK p \in {"stalled", "recover"} :
                 current # None /\ Become(Sched, At(p, current))
      BY <2>2
    <3>2. current \in Session
      BY <3>1 DEF Types, TypeOK
    <3> DEFINE m == At(p, current)
    <3>3. m \in Local /\ m.pc = p /\ m.session = current
      BY <3>2, LocalsAre DEF Pc
    <3> HIDE DEF m
    <3>4. Moves(Sched, m)
      BY <3>1, <3>2, <3>3, <1>1 DEF Moves, Become, PlacedAt, m
    <3>5. Statuses
      BY <2>1 DEF Statuses, Types, TypeOK
    <3> QED
      BY <2>1, <3>3, <3>4, <3>5, <1>1 DEF Form, Plain, Closing
  <2>3. CASE Become(Sched, [At("publish", None) EXCEPT !.then = "recover"])
    <3> DEFINE m == [At("publish", None) EXCEPT !.then = "recover"]
    <3>1. m \in Local /\ m.pc = "publish" /\ m.session = None
      <4>1. At("publish", None) \in Local /\ At("publish", None).pc = "publish"
            /\ At("publish", None).session = None
        BY LocalsAre DEF Pc
      <4> QED
        BY <4>1 DEF Local, Pc
    <3>2. Moves(Sched, m)
      BY <2>3, <3>1, <1>1 DEF Moves, PlacedAt, Become, Working
    <3> HIDE DEF m
    <3> QED
      BY <2>1, <3>1, <3>2, <1>1, PlainForm DEF Closing
  <2>4. CASE Goto(Sched, "load") \/ Leave(Sched)
    <3>1. "load" \in Pc /\ "load" \notin Working
      BY DEF Pc, Working
    <3> QED
      BY <2>1, <2>4, <3>1, <1>1, GotoForm, LeaveForm DEF Form, Closing
  <2> QED
    BY <1>4, <2>2, <2>3, <2>4 DEF Tick
<1>5. CASE TickStalled
  <2>1. /\ thr[Sched].pc = "stalled" /\ Keeps /\ row' = row
        /\ End(Sched, thr[Sched].session, "failed")
    BY <1>5 DEF TickStalled, Keeps, Present
  <2>2. thr[Sched].session \in Session
    BY <2>1, <1>2 DEF PlacedAt, Working, Pc
  <2> QED
    BY <2>1, <2>2, <1>1, EndForm DEF Form, Outcome, Terminal
<1>6. CASE TickRecover
  <2> DEFINE s == thr[Sched].session
  <2>1. /\ thr[Sched].pc = "recover" /\ Keeps /\ row' = row
        /\ Transition(Sched, s, "recovering", obj[s].pid, "recovering")
    BY <1>6 DEF TickRecover, Keeps, Present
  <2>2. s \in Session
    BY <2>1, <1>2 DEF PlacedAt, Working, Pc
  <2>3. obj[s].pid \in BOOLEAN /\ "recovering" \in Status /\ "recovering" \in Pc
    BY <2>2 DEF Types, TypeOK, Status, Pc
  <2> QED
    BY <2>1, <2>2, <2>3, <1>1, TransitionForm DEF Form, AfterWrite
<1>7. CASE TickRecovered
  <2> DEFINE s == thr[Sched].session
  <2>1. /\ thr[Sched].pc = "recovering" /\ Keeps /\ row' = row
        /\ \/ \E o \in Outcome : End(Sched, s, o)
           \/ Leave(Sched) /\ obj' = obj /\ ~Present'
    BY <1>7 DEF TickRecovered, Keeps, Present, Outcome, Terminal
  <2>2. s \in Session
    BY <2>1, <1>2 DEF PlacedAt, Working, Pc
  <2> QED
    BY <2>1, <2>2, <1>1, EndForm, LeaveForm DEF Form, Closing, Touch
<1> QED
  BY <1>3, <1>4, <1>5, <1>6, <1>7 DEF SchedStep

-----------------------------------------------------------------------------
(* Types                                                                   *)

Written(t) == WriteSession(t) /\ row[thr[t].session] # None

\* every step has a form, or is one of these
LEMMA StepForms ==
  ASSUME Types, Next
  PROVE  \/ \E t \in Thread : Form(t)
         \/ \E t \in Thread : Written(t)
         \/ \E t \in Prober : OpenSession(t) \/ CreateSession(t) \/ StartCapture(t)
         \/ \E s \in Session : ProcessExit(s) \/ Age(s)
         \/ Prune \/ DeleteChannel \/ Crash
<1>1. ASSUME NEW t \in Thread, SessionStep(t)
      PROVE  Form(t) \/ Written(t) \/ (t \in Prober /\ (OpenSession(t) \/ CreateSession(t)))
  <2>1. CASE WriteSession(t)
    BY <2>1, LostForm DEF Written
  <2>2. CASE CloseSession(t) \/ StartRefused(t)
    BY <2>2, CloseForm, RefusedForm
  <2>3. CASE OpenSession(t) \/ CreateSession(t)
    <3>1. thr[t].pc \in {"publish", "insert"}
      BY <2>3 DEF OpenSession, CreateSession
    <3>2. t \notin Session
      BY <3>1 DEF Types, Placed, PlacedAt, CapturePc
    <3> QED
      BY <2>3, <3>2 DEF Thread
  <2> QED
    BY <1>1, <2>1, <2>2, <2>3 DEF SessionStep
<1>2. ASSUME NEW t \in Prober, ProberStep(t)
      PROVE  Form(t) \/ StartCapture(t)
  BY <1>2, CheckForms, StartForms DEF ProberStep
<1>3. Prober \subseteq Thread /\ Session \subseteq Thread /\ Sched \in Thread /\ Checker \subseteq Prober
  BY DEF Thread, Prober
<1>4. ASSUME NEW t \in Thread, Work(t)
      PROVE  \/ Form(t) \/ Written(t) \/ Form(Sched)
             \/ t \in Prober /\ (OpenSession(t) \/ CreateSession(t) \/ StartCapture(t))
  <2>1. CASE SessionStep(t)
    BY <2>1, <1>1
  <2>2. CASE t \in Prober /\ ProberStep(t)
    BY <2>2, <1>2
  <2>3. CASE t \in Session /\ CaptureStep(t)
    BY <2>3, CaptureForms
  <2>4. CASE SchedStep
    BY <2>4, SchedForms
  <2> QED
    BY <1>4, <2>1, <2>2, <2>3, <2>4 DEF Work
<1>5. ASSUME NEW k \in Checker, TriggerCheck(k)
      PROVE  Form(k)
  BY <1>3, <1>5, CheckForms
<1>6. CASE \E t \in Thread : Work(t)
  BY <1>3, <1>4, <1>6
<1>7. CASE \E k \in Checker : TriggerCheck(k)
  BY <1>3, <1>5, <1>7
<1>8. CASE Sweep
  BY <1>3, <1>8, SchedForms
<1> QED
  BY <1>6, <1>7, <1>8 DEF Next

LEMMA FormTyped ==
  ASSUME Types, NEW t \in Thread, Form(t)
  PROVE  /\ obj' \in [Session -> [status : {"active"} \cup Terminal, pid : BOOLEAN]]
         /\ row' \in [Session -> Row \cup {None}]
         /\ born' \in SUBSET Session
         /\ thr' \in [Thread -> Local] /\ Placed'
<1>1. born' \in SUBSET Session
  BY DEF Form, Plain, Transits, Finishes, Keeps, Types, TypeOK
<1>2. \E m \in Local : Moves(t, m)
  BY DEF Form, Plain, Transits, Finishes
<1>3. thr' \in [Thread -> Local] /\ Placed'
  BY <1>2, MovesTyped
<1>4. row' \in [Session -> Row \cup {None}]
  <2>1. CASE row' = row
    BY <2>1 DEF Types, TypeOK
  <2>2. CASE \E s \in Session : row[s] # None /\ row' = [row EXCEPT ![s].updated = "recent"]
    BY <2>2 DEF Types, TypeOK, Row
  <2> QED
    BY <2>1, <2>2 DEF Form, Plain, Transits, Finishes, Touch
<1>5. obj' \in [Session -> [status : {"active"} \cup Terminal, pid : BOOLEAN]]
  <2>1. CASE Statuses
    BY <2>1 DEF Statuses
  <2>2. CASE thr[t].session \in Session
             /\ \E o \in Outcome : obj' = [obj EXCEPT ![thr[t].session].status = o]
    BY <2>2 DEF Types, TypeOK, Outcome
  <2> QED
    BY <2>1, <2>2 DEF Form, Plain, Transits, Finishes
<1> QED
  BY <1>1, <1>3, <1>4, <1>5

LEMMA WrittenTyped ==
  ASSUME Types, NEW t \in Thread, Written(t)
  PROVE  /\ thr[t].session \in Session /\ row[thr[t].session] \in Row
         /\ At(thr[t].then, thr[t].session) \in Local
         /\ Moves(t, At(thr[t].then, thr[t].session))
         /\ row' \in [Session -> Row \cup {None}]
<1> DEFINE s == thr[t].session
           m == At(thr[t].then, s)
<1>1. thr[t] \in Local /\ thr[t].pc = "write" /\ PlacedAt(t, thr[t])
  BY DEF Written, WriteSession, Types, TypeOK, Placed
<1>2. s \in Session /\ row[s] \in Row /\ thr[t].data \in Write /\ thr[t].then \in AfterWrite
  BY <1>1 DEF PlacedAt, Working, Pc, Types, TypeOK, Local, Written
<1>3. row' = [row EXCEPT ![s] = [status |-> thr[t].data.status, pid |-> thr[t].data.pid,
                                 updated |-> "recent",
                                 ended |-> IF thr[t].data.ends THEN "recent" ELSE row[s].ended]]
  BY DEF Written, WriteSession
<1>4. row' \in [Session -> Row \cup {None}]
  BY <1>2, <1>3 DEF Row, Write, Types, TypeOK
<1>5. m \in Local /\ m.pc = thr[t].then /\ m.session = s
  BY <1>2, LocalsAre DEF AfterWrite, Pc
<1>6. thr' = [thr EXCEPT ![t] = m]
  BY DEF Written, WriteSession, Goto, Become
<1>7. PlacedAt(t, m)
  <2> HIDE DEF m
  <2> QED
    BY <1>1, <1>2, <1>5 DEF PlacedAt, AfterWrite, CapturePc
<1> QED
  BY <1>2, <1>4, <1>5, <1>6, <1>7 DEF Moves

LEMMA OpenTyped ==
  ASSUME Types, NEW t \in Prober, OpenSession(t)
  PROVE  \E s \in Session, m \in Local :
            /\ Fresh(s) /\ Moves(t, m) /\ m.pc = "insert" /\ m.session = s
<1>1. t \in Thread /\ t \notin Session
  BY SessionAssumption DEF Thread
<1>2. PICK s \in Session : /\ Fresh(s)
                          /\ Become(t, [At("insert", s) EXCEPT !.then = thr[t].then])
  BY DEF OpenSession
<1> DEFINE m == [At("insert", s) EXCEPT !.then = thr[t].then]
<1>3. thr[t] \in Local /\ thr[t].then \in {"opened", "recover"}
  BY <1>1 DEF OpenSession, Types, TypeOK, Placed, PlacedAt
<1>4. At("insert", s) \in Local /\ At("insert", s).pc = "insert" /\ At("insert", s).session = s
  BY LocalsAre DEF Pc
<1>5. m \in Local /\ m.pc = "insert" /\ m.session = s /\ m.then = thr[t].then
  BY <1>3, <1>4 DEF Local
<1>6. thr' = [thr EXCEPT ![t] = m]
  BY <1>2 DEF Become
<1> HIDE DEF m
<1>7. Moves(t, m)
  BY <1>1, <1>3, <1>5, <1>6 DEF Moves, PlacedAt
<1> QED
  BY <1>2, <1>5, <1>7

LEMMA CreateTyped ==
  ASSUME Types, NEW t \in Prober, CreateSession(t)
  PROVE  /\ thr[t].session \in Session
         /\ At(thr[t].then, thr[t].session) \in Local
         /\ Moves(t, At(thr[t].then, thr[t].session))
         /\ thr[t].then \in {"opened", "recover"}
         /\ row' \in [Session -> Row \cup {None}]
<1> DEFINE s == thr[t].session
           m == At(thr[t].then, s)
<1>1. t \in Thread /\ t \notin Session
  BY SessionAssumption DEF Thread
<1>2. thr[t].then \in {"opened", "recover"} /\ s \in Session
  BY <1>1 DEF CreateSession, Types, Placed, PlacedAt, Working, Pc
<1>3. DomainStatus(s, "queued") \in Status
  BY <1>2 DEF DomainStatus, Status, Types, TypeOK
<1>4. row' \in [Session -> Row \cup {None}]
  BY <1>3 DEF CreateSession, Types, TypeOK, Row
<1>5. m \in Local /\ m.pc = thr[t].then /\ m.session = s
  BY <1>2, LocalsAre DEF Pc
<1>6. thr' = [thr EXCEPT ![t] = m]
  BY DEF CreateSession, Goto, Become
<1>7. PlacedAt(t, m)
  <2> HIDE DEF m
  <2> QED
    BY <1>1, <1>2, <1>5 DEF PlacedAt
<1> QED
  BY <1>2, <1>4, <1>5, <1>6, <1>7 DEF Moves

\* the variables no invariant below speaks of
Rest == /\ current \in Session \cup {None} /\ owner \in Session \cup {None}
        /\ lock \in Thread \cup {None}
        /\ proc \in [Session -> {"none", "running", "exited", "gone"}]
        /\ chan \in Record \cup {None} /\ snap \in Record
        /\ crashes \in 0..MaxCrashes

LEMMA RestTyped ==
  ASSUME Types, Next
  PROVE  Rest'
<1>1. /\ Rest /\ thr \in [Thread -> Local] /\ Quiet \in Record
      /\ Prober \subseteq Thread /\ Session \subseteq Thread /\ Sched \in Thread /\ Checker \subseteq Prober
  BY DEF Types, TypeOK, Rest, Quiet, Record, Thread, Prober
<1>2. ASSUME NEW t \in Thread, SessionStep(t)
      PROVE  Rest'
  <2>1. thr[t].session \in Session \cup {None}
    BY <1>1 DEF Local
  <2>2. CASE WriteSession(t)
    BY <2>2, <1>1 DEF WriteSession, Rest, Unlock
  <2>3. CASE CloseSession(t)
    BY <2>3, <1>1 DEF CloseSession, Rest, Unlock
  <2>4. CASE OpenSession(t)
    BY <2>4, <1>1 DEF OpenSession, Rest
  <2>5. CASE CreateSession(t)
    BY <2>5, <1>1 DEF CreateSession, Rest
  <2>6. CASE StartRefused(t)
    BY <2>6, <1>1 DEF StartRefused, Rest, Record, Present
  <2> QED
    BY <1>2, <2>2, <2>3, <2>4, <2>5, <2>6 DEF SessionStep
<1>3. ASSUME NEW k \in Prober, ProberStep(k)
      PROVE  Rest'
  <2>1. thr[k].session \in Session \cup {None} /\ k \in Thread
    BY <1>1 DEF Local
  <2>2. CASE CheckLoad(k)
    BY <2>2, <1>1 DEF CheckLoad, Rest, Record, Present
  <2>3. CASE CheckBegin(k)
    BY <2>3, <1>1 DEF CheckBegin, Rest, Record, Present
  <2>4. CASE CheckTransitions(k)
    BY <2>4, <1>1 DEF CheckTransitions, Rest
  <2>5. CASE CheckResolve(k)
    BY <2>5, <1>1 DEF CheckResolve, Rest, Record, Present
  <2>6. CASE CheckOnline(k)
    BY <2>6, <1>1 DEF CheckOnline, Rest, Record, Present
  <2>7. CASE StartNoSource(k)
    BY <2>7, <2>1, <1>1 DEF StartNoSource, Rest, Record, Present
  <2>8. CASE StartProcess(k)
    BY <2>8, <2>1, <1>1 DEF StartProcess, Rest
  <2>9. CASE StartLaunch(k)
    <3>1. /\ UNCHANGED <<current, lock, proc, snap, crashes>>
          /\ owner' \in {owner, None}
          /\ chan' \in {[says |-> TRUE, pid |-> thr[k].session], chan}
      BY <2>9 DEF StartLaunch
    <3>2. [says |-> TRUE, pid |-> thr[k].session] \in Record
      BY <2>1 DEF Record
    <3> QED
      BY <1>1, <3>1, <3>2 DEF Rest
  <2>10. CASE StartCapture(k)
    BY <2>10, <1>1 DEF StartCapture, Rest
  <2> QED
    BY <1>3, <2>2, <2>3, <2>4, <2>5, <2>6, <2>7, <2>8, <2>9, <2>10 DEF ProberStep
<1>4. ASSUME NEW s \in Session, CaptureStep(s)
      PROVE  Rest'
  BY <1>1, <1>4 DEF CaptureStep, CaptureWait, CaptureLoad, CaptureSettle, CaptureBranch,
     CaptureConvert, CaptureRetry, CapturePop, Rest
<1>5. CASE SchedStep
  <2>1. CASE Tick
    BY <2>1, <1>1 DEF Tick, Rest
  <2>2. CASE TickStalled \/ TickRecover \/ TickRecovered
    BY <2>2, <1>1 DEF TickStalled, TickRecover, TickRecovered, Rest
  <2> QED
    BY <1>5, <2>1, <2>2 DEF SchedStep
<1>6. CASE \E t \in Thread : Work(t)
  BY <1>2, <1>3, <1>4, <1>5, <1>6 DEF Work
<1>7. CASE \E k \in Checker : TriggerCheck(k)
  BY <1>1, <1>7 DEF TriggerCheck, Rest
<1>8. CASE \E s \in Session : ProcessExit(s) \/ Age(s)
  BY <1>1, <1>8 DEF ProcessExit, Age, Rest
<1>9. CASE Sweep
  BY <1>1, <1>9 DEF Sweep, Rest, Present
<1>10. CASE Prune \/ DeleteChannel
  BY <1>1, <1>10 DEF Prune, DeleteChannel, Rest
<1>11. CASE Crash
  BY <1>1, <1>11, SessionAssumption DEF Crash, Rest
<1> QED
  BY <1>6, <1>7, <1>8, <1>9, <1>10, <1>11 DEF Next

LEMMA AgeTyped ==
  ASSUME Types, NEW s \in Session, Age(s)
  PROVE  /\ row[s] \in Row /\ row' \in [Session -> Row \cup {None}]
         /\ row' = [row EXCEPT ![s] = [row[s] EXCEPT !.updated = "old",
                      !.ended = IF row[s].ended = "no" THEN "no" ELSE "old"]]
         /\ row'[s] \in Row /\ row'[s].pid = row[s].pid /\ row'[s].status = row[s].status
         /\ row'[s].ended = "no" <=> row[s].ended = "no"
<1>1. row[s] \in Row /\ row \in [Session -> Row \cup {None}]
  BY DEF Age, Types, TypeOK
<1>2. row' = [row EXCEPT ![s] = [row[s] EXCEPT !.updated = "old",
                !.ended = IF row[s].ended = "no" THEN "no" ELSE "old"]]
  BY <1>1 DEF Age
<1>3. row'[s] = [row[s] EXCEPT !.updated = "old",
                   !.ended = IF row[s].ended = "no" THEN "no" ELSE "old"]
  BY <1>1, <1>2
<1>4. /\ row'[s] \in Row /\ row'[s].pid = row[s].pid /\ row'[s].status = row[s].status
      /\ row'[s].ended = "no" <=> row[s].ended = "no"
  BY <1>1, <1>3 DEF Row
<1> QED
  BY <1>1, <1>2, <1>3, <1>4

LEMMA TypesInit == Init => Types
<1> SUFFICES ASSUME Init PROVE Types
  OBVIOUS
<1>1. \A t \in Thread : thr[t] = Idle
  BY DEF Init
<1>2. Placed
  BY <1>1, LocalsAre DEF Placed, PlacedAt, Working, CapturePc
<1>3. thr \in [Thread -> Local]
  BY LocalsAre DEF Init
<1>4. TypeOK
  BY <1>3, SessionAssumption DEF Init, TypeOK, Record, Quiet
<1> QED
  BY <1>2, <1>4 DEF Types

LEMMA TypesNext == Types /\ [Next]_vars => Types'
<1> SUFFICES ASSUME Types, [Next]_vars PROVE Types'
  OBVIOUS
<1>1. CASE UNCHANGED vars
  BY <1>1 DEF vars, Types, TypeOK, Placed, PlacedAt
<1>2. CASE Next
  <2>1. Rest'
    BY <1>2, RestTyped
  <2> DEFINE Main == /\ obj' \in [Session -> [status : {"active"} \cup Terminal, pid : BOOLEAN]]
                     /\ row' \in [Session -> Row \cup {None}]
                     /\ born' \in SUBSET Session
                     /\ thr' \in [Thread -> Local] /\ Placed'
  <2>2. SUFFICES Main
    BY <2>1, <2>2 DEF Types, TypeOK, Rest
  <2>3. /\ obj \in [Session -> [status : {"active"} \cup Terminal, pid : BOOLEAN]]
        /\ row \in [Session -> Row \cup {None}] /\ born \in SUBSET Session
        /\ thr \in [Thread -> Local] /\ Placed /\ Prober \subseteq Thread
    BY DEF Types, TypeOK, Thread
  <2>4. ASSUME NEW t \in Thread, Form(t) PROVE Main
    BY <2>4, FormTyped
  <2>5. ASSUME NEW t \in Thread, Written(t) PROVE Main
    <3>1. obj' = obj /\ born' = born
      BY <2>5 DEF Written, WriteSession
    <3> QED
      BY <2>3, <2>5, <3>1, WrittenTyped, MovesTyped
  <2>6. ASSUME NEW t \in Prober, OpenSession(t) PROVE Main
    <3>1. obj' = obj /\ born' = born /\ row' = row
      BY <2>6 DEF OpenSession
    <3>2. PICK m \in Local : Moves(t, m)
      BY <2>6, OpenTyped
    <3> QED
      BY <2>3, <3>1, <3>2, MovesTyped
  <2>7. ASSUME NEW t \in Prober, CreateSession(t) PROVE Main
    <3>1. obj' = obj /\ born' = born \cup {thr[t].session}
      BY <2>7 DEF CreateSession
    <3> QED
      BY <2>3, <2>7, <3>1, CreateTyped, MovesTyped
  <2>8. ASSUME NEW t \in Prober, StartCapture(t) PROVE Main
    <3> DEFINE s == thr[t].session
    <3>1. t \in Thread /\ t \notin Session /\ s \in Session /\ s \in Thread
      BY <2>3, <2>8, SessionAssumption DEF StartCapture, Placed, PlacedAt, Working, Pc, Thread
    <3>2. At("wait", s) \in Local /\ At("wait", s).pc = "wait" /\ At("wait", s).session = s
      BY <3>1, LocalsAre DEF Pc
    <3>3. thr' = [thr EXCEPT ![t] = Idle, ![s] = At("wait", s)]
      BY <2>8 DEF StartCapture
    <3>4. thr' \in [Thread -> Local]
      BY <2>3, <3>2, <3>3, LocalsAre
    <3>5. PlacedAt(t, Idle) /\ PlacedAt(s, At("wait", s))
      BY <3>1, <3>2, LocalsAre DEF PlacedAt, Working, CapturePc
    <3>6. \A u \in Thread : thr'[u] = IF u = s THEN At("wait", s) ELSE IF u = t THEN Idle ELSE thr[u]
      BY <2>3, <3>1, <3>3
    <3>7. \A u \in Thread : PlacedAt(u, thr'[u])
      BY <2>3, <3>5, <3>6 DEF Placed
    <3>8. obj' = obj /\ born' = born /\ row' = row
      BY <2>8 DEF StartCapture
    <3>9. Placed'
      BY <3>7 DEF Placed, PlacedAt
    <3> QED
      BY <2>3, <3>4, <3>8, <3>9
  <2>9. ASSUME NEW s \in Session, ProcessExit(s) \/ Age(s) PROVE Main
    <3>1. obj' = obj /\ born' = born /\ thr' = thr
      BY <2>9 DEF ProcessExit, Age
    <3>2. row' \in [Session -> Row \cup {None}]
      BY <2>3, <2>9, AgeTyped DEF ProcessExit
    <3> QED
      BY <2>3, <3>1, <3>2 DEF Placed, PlacedAt
  <2>10. CASE Prune \/ DeleteChannel
    BY <2>3, <2>10 DEF Prune, DeleteChannel, Placed, PlacedAt
  <2>11. CASE Crash
    <3>1. \A t \in Thread : thr'[t] = Idle
      BY <2>11 DEF Crash
    <3>2. Placed'
      BY <3>1, LocalsAre DEF Placed, PlacedAt, Working, CapturePc
    <3> QED
      BY <2>3, <2>11, <3>2, LocalsAre DEF Crash
  <2> QED
    BY <1>2, <2>4, <2>5, <2>6, <2>7, <2>8, <2>9, <2>10, <2>11, StepForms
<1> QED
  BY <1>1, <1>2

\* Every session object, row, thread and record stays of its type: a thread that
\* writes a row has a session to write it for.
THEOREM TypeCorrect == Spec => []TypeOK
<1>1. Types => TypeOK
  BY DEF Types
<1> QED
  BY <1>1, TypesInit, TypesNext, PTL DEF Spec

-----------------------------------------------------------------------------
(* No row is deleted under a handler                                       *)

EndedBySched(s) == thr[Sched].session = s /\ Ending
Unended(s) == row[s] # None /\ row[s].ended = "no"
Ends(t) == thr[t].pc = "write" /\ thr[t].data.ends
\* retention leaves such a row alone, however old
Named(r) == r.pid /\ r.status \notin Terminal

\* The scheduler works for a session, too, unless it is about to end it.
Worker(t) == t = Sched => ~Closing

\* A session has one thread, but for the scheduler that is about to end it.
Shared == \A t, u \in Thread :
  t # u /\ thr[t].session = thr[u].session /\ thr[t].session # None =>
    Sched \in {t, u} /\ Closing
RowsBorn == \A s \in Session : row[s] # None => s \in born
Inserts == \A t \in Thread : thr[t].pc = "insert" => thr[t].session \notin born
Closes == \A t \in Thread, s \in Session :
  thr[t].pc = "close" /\ thr[t].session = s => s \in born /\ ~Unended(s)
Outcomes == \A t \in Thread : Ends(t) => obj[thr[t].session].status # "active"

\* An object that ended, and not its row: the write is on its way.
ObjEnded == \A t \in Thread, s \in Session :
  thr[t].session = s /\ ~Ends(t) /\ Unended(s) /\ obj[s].status # "active" =>
    EndedBySched(s)
\* A row that ended, and its object with it.
RowEnded == \A t \in Thread, s \in Session :
  Worker(t) /\ thr[t].session = s /\ row[s] # None /\ row[s].ended # "no" => obj[s].status # "active"

\* From its launch on a recording has a row that names the process, until the
\* scheduler ends the session.
Launches == \A t \in Thread, s \in Session :
  thr[t].pc = "write" /\ thr[t].then = "spawn" /\ thr[t].session = s /\ Unended(s) =>
    thr[t].data.pid /\ (thr[t].data.status \notin Terminal \/ EndedBySched(s))
Records == \A t \in Thread, s \in Session :
  thr[t].pc \in {"spawn", "wait"} /\ thr[t].session = s /\ Unended(s) =>
    Named(row[s]) \/ EndedBySched(s)
\* Only a recording takes long enough for its row to grow old.
Ageing == \A t \in Thread, s \in Session :
  Worker(t) /\ thr[t].session = s /\ Unended(s) /\ row[s].updated = "old" => Named(row[s])

\* HeldRowPresent, and the same of the scheduler's own checks
Holding == \A t \in Thread, s \in Session :
  Worker(t) /\ thr[t].session = s /\ s \in born /\ obj[s].status = "active" => row[s] # None

Kept == Present => /\ ObjEnded /\ RowEnded /\ Launches /\ Records /\ Ageing /\ Holding
IInv == Shared /\ RowsBorn /\ Inserts /\ Closes /\ Outcomes /\ Kept

\* a row is touched, and nothing the invariant speaks of but its age changes
LEMMA RowsKept ==
  ASSUME Types, NEW t \in Thread, Form(t), NEW s \in Session
  PROVE  /\ row'[s] = None <=> row[s] = None
         /\ row[s] # None =>
              /\ row'[s].ended = row[s].ended /\ row'[s].updated \in {row[s].updated, "recent"}
              /\ Named(row'[s]) <=> Named(row[s])
         /\ Unended(s)' <=> Unended(s)
<1>1. CASE row' = row
  BY <1>1 DEF Unended
<1>2. CASE \E r \in Session : row[r] # None /\ row' = [row EXCEPT ![r].updated = "recent"]
  <2>1. PICK r \in Session : row[r] # None /\ row' = [row EXCEPT ![r].updated = "recent"]
    BY <1>2
  <2>2. row[r] \in Row /\ row \in [Session -> Row \cup {None}]
    BY <2>1 DEF Types, TypeOK
  <2>3. row'[r] = [row[r] EXCEPT !.updated = "recent"] /\ (s # r => row'[s] = row[s])
    BY <2>1, <2>2
  <2>4. /\ row'[r] \in Row /\ row'[r].ended = row[r].ended /\ row'[r].updated = "recent"
        /\ row'[r].pid = row[r].pid /\ row'[r].status = row[r].status
    BY <2>2, <2>3 DEF Row
  <2>5. row'[r] # None
    BY <2>4, NoneAssumption
  <2> QED
    BY <2>1, <2>3, <2>4, <2>5 DEF Unended, Named
<1> QED
  BY <1>1, <1>2 DEF Form, Plain, Transits, Finishes, Touch

\* the scheduler does not forget what it is about to end
LEMMA EndingKept ==
  ASSUME Types, NEW t \in Thread, Form(t), NEW s \in Session, Present', row[s] # None,
         EndedBySched(s)
  PROVE  EndedBySched(s)'
<1>1. thr \in [Thread -> Local] /\ Sched \in Thread
  BY DEF Types, TypeOK, Thread, Prober
<1>2. CASE t # Sched
  <2>1. thr'[Sched] = thr[Sched]
    BY <1>1, <1>2 DEF Form, Plain, Transits, Finishes, Moves
  <2> QED
    BY <2>1 DEF EndedBySched, Ending
<1>3. CASE t = Sched
  <2>1. ~Plain(t)
    BY <1>3 DEF Plain, EndedBySched
  <2>2. PICK m \in Local : /\ thr' = [thr EXCEPT ![t] = m]
                           /\ m.pc = "write" /\ m.session = thr[t].session
                           /\ m.then = "recovering" \/ m.data.ends
    BY <1>3, <2>1 DEF Form, Transits, Finishes, Moves, EndedBySched, Closing
  <2>3. thr'[Sched] = m
    BY <1>1, <1>3, <2>2
  <2> QED
    BY <1>3, <2>2, <2>3 DEF EndedBySched, Ending
<1> QED
  BY <1>2, <1>3

\* What a moved thread holds, and where it is
LEMMA PlainMoves ==
  ASSUME Types, NEW t \in Thread, Plain(t)
  PROVE  /\ \A u \in Thread \ {t} : thr'[u] = thr[u]
         /\ thr'[t].pc \notin {"write", "insert", "close", "spawn", "wait"}
         /\ \/ thr'[t].session \in {thr[t].session, None} /\ (t = Sched /\ Closing => thr'[t].session = None)
            \/ t = Sched /\ Ending'
<1>1. PICK m \in Local :
         /\ Moves(t, m)
         /\ m.pc \notin {"write", "insert", "close", "spawn", "wait"}
         /\ t = Sched /\ Closing => m.session = None
         /\ \/ m.session \in {thr[t].session, None}
            \/ t = Sched /\ m.pc \in {"stalled", "recover"}
  BY DEF Plain
<1>2. thr'[t] = m /\ \A u \in Thread \ {t} : thr'[u] = thr[u]
  BY <1>1, MovesTyped
<1> QED
  BY <1>1, <1>2 DEF Ending

LEMMA PlainKeeps ==
  ASSUME Types, IInv, NEW t \in Thread, Plain(t)
  PROVE  IInv'
<1>1. /\ \A u \in Thread \ {t} : thr'[u] = thr[u]
      /\ thr'[t].pc \notin {"write", "insert", "close", "spawn", "wait"}
      /\ \/ thr'[t].session \in {thr[t].session, None} /\ (t = Sched /\ Closing => thr'[t].session = None)
         \/ t = Sched /\ Ending'
  BY PlainMoves
<1>2. /\ born' = born /\ (Present' => Present) /\ Form(t) /\ Sched \in Thread
      /\ \A s \in Session : obj'[s].status = obj[s].status
  BY DEF Plain, Keeps, Statuses, Form, Thread, Prober
<1>3. /\ thr \in [Thread -> Local] /\ Placed
      /\ \A u \in Thread : thr[u].pc \in {"write", "insert", "close", "spawn", "wait"}
                            => thr[u].session \in Session
  BY DEF Types, TypeOK, Placed, PlacedAt, Working, Pc
<1>4. \A s \in Session :
        /\ row'[s] = None <=> row[s] = None
        /\ row[s] # None =>
             /\ row'[s].ended = row[s].ended /\ row'[s].updated \in {row[s].updated, "recent"}
             /\ Named(row'[s]) <=> Named(row[s])
        /\ Unended(s)' <=> Unended(s)
  BY <1>2, RowsKept
<1>5. \A s \in Session : Present' /\ row[s] # None /\ EndedBySched(s) => EndedBySched(s)'
  BY <1>2, EndingKept
<1>6. \A u \in Thread : u # Sched => thr'[u].session \in {thr[u].session, None}
  BY <1>1
<1>17. \A u \in Thread, s \in Session :
          thr'[u].session = s /\ Worker(u)' => thr[u].session = s /\ Worker(u)
  <2> SUFFICES ASSUME NEW u \in Thread, NEW s \in Session, thr'[u].session = s, Worker(u)'
               PROVE  thr[u].session = s /\ Worker(u)
    OBVIOUS
  <2>1. s # None
    BY SessionAssumption DEF Thread
  <2>2. CASE u # t
    BY <1>1, <2>2 DEF Worker, Closing, Ending
  <2>3. CASE u = t
    BY <1>1, <2>1, <2>3 DEF Worker, Closing
  <2> QED
    BY <2>2, <2>3
<1>7. Shared'
  <2> SUFFICES ASSUME NEW u \in Thread, NEW v \in Thread, u # v,
                      thr'[u].session = thr'[v].session, thr'[u].session # None
               PROVE  Sched \in {u, v} /\ Closing'
    BY DEF Shared
  <2>1. CASE t # Sched
    <3>1. Sched \in {u, v} /\ Closing
      BY <1>6, <1>1, <2>1 DEF IInv, Shared
    <3>2. thr'[Sched] = thr[Sched]
      BY <1>1, <1>2, <2>1
    <3> QED
      BY <3>1, <3>2 DEF Closing, Ending
  <2>2. CASE t = Sched /\ Ending'
    <3>1. CASE Sched \in {u, v}
      BY <2>2, <3>1 DEF Closing
    <3>2. CASE Sched \notin {u, v}
      BY <1>1, <2>2, <3>2 DEF IInv, Shared
    <3> QED
      BY <3>1, <3>2
  <2>3. CASE t = Sched /\ ~Ending'
    BY <1>1, <2>3 DEF IInv, Shared
  <2> QED
    BY <2>1, <2>2, <2>3
<1>8. RowsBorn' /\ Inserts'
  BY <1>1, <1>2, <1>4 DEF IInv, RowsBorn, Inserts
<1>9. Closes'
  BY <1>1, <1>2, <1>4 DEF IInv, Closes
<1>10. Outcomes'
  BY <1>1, <1>2, <1>3 DEF IInv, Outcomes, Ends
<1>11. ASSUME Present' PROVE ObjEnded'
  <2> SUFFICES ASSUME NEW u \in Thread, NEW s \in Session,
                      thr'[u].session = s, ~Ends(u)', Unended(s)', obj'[s].status # "active"
               PROVE  EndedBySched(s)'
    BY DEF ObjEnded
  <2>1. Unended(s) /\ row[s] # None /\ obj[s].status # "active" /\ s # None
    BY <1>2, <1>4, SessionAssumption DEF Unended, Thread
  <2>2. CASE u = t /\ t = Sched /\ Ending'
    BY <2>2 DEF EndedBySched
  <2>3. CASE thr[u].session = s /\ ~Ends(u)
    BY <1>2, <1>5, <1>11, <2>1, <2>3 DEF IInv, Kept, ObjEnded
  <2>4. CASE thr[u].session = s /\ Ends(u) /\ u = t
    BY <2>1, <2>4 DEF Plain, Ends
  <2> QED
    BY <1>1, <2>1, <2>2, <2>3, <2>4 DEF Ends
<1>12. ASSUME Present' PROVE RowEnded'
  BY <1>2, <1>4, <1>17, <1>12 DEF IInv, Kept, RowEnded
<1>13. ASSUME Present' PROVE Launches'
  BY <1>1, <1>2, <1>3, <1>4, <1>5, <1>13 DEF IInv, Kept, Launches, Unended
<1>14. ASSUME Present' PROVE Records'
  BY <1>1, <1>2, <1>4, <1>5, <1>14 DEF IInv, Kept, Records, Unended
<1>15. ASSUME Present' PROVE Ageing'
  BY <1>2, <1>4, <1>17, <1>15 DEF IInv, Kept, Ageing, Unended
<1>16. ASSUME Present' PROVE Holding'
  BY <1>2, <1>4, <1>17, <1>16 DEF IInv, Kept, Holding
<1> QED
  BY <1>7, <1>8, <1>9, <1>10, <1>11, <1>12, <1>13, <1>14, <1>15, <1>16 DEF IInv, Kept

LEMMA TransitsKeeps ==
  ASSUME Types, IInv, NEW t \in Thread, Transits(t)
  PROVE  IInv'
<1>1. PICK m \in Local :
         /\ Moves(t, m)
         /\ m.pc = "write" /\ m.session = thr[t].session /\ ~m.data.ends
         /\ t = Sched /\ Closing => m.then = "recovering"
         /\ m.then = "spawn" => /\ m.data.pid
                               /\ m.data.status = DomainStatus(m.session, "recording")
  BY DEF Transits
<1>2. /\ thr'[t] = m /\ \A u \in Thread \ {t} : thr'[u] = thr[u]
      /\ \A u \in Thread : thr'[u].session = thr[u].session
  BY <1>1, MovesTyped
<1>3. /\ born' = born /\ (Present' => Present) /\ Form(t) /\ Sched \in Thread /\ row' = row
      /\ \A s \in Session : obj'[s].status = obj[s].status
  BY DEF Transits, Keeps, Statuses, Form, Thread, Prober
<1>4. \A u \in Thread : thr[u].pc \in {"write", "insert", "close", "spawn", "wait"}
                         => thr[u].session \in Session
  BY DEF Types, Placed, PlacedAt, Working, Pc
<1>5. m.session \in Session
  BY <1>1 DEF Moves, PlacedAt, Working, Pc
<1>6. \A s \in Session : Present' /\ row[s] # None /\ EndedBySched(s) => EndedBySched(s)'
  BY <1>3, EndingKept
<1>16. (Closing => Closing') /\ \A u \in Thread : Worker(u)' => Worker(u)
  BY <1>1, <1>2, <1>3 DEF Closing, Ending, Worker
<1>7. Shared'
  BY <1>2, <1>16 DEF IInv, Shared
<1>8. RowsBorn' /\ Inserts' /\ Closes'
  BY <1>1, <1>2, <1>3 DEF IInv, RowsBorn, Inserts, Closes, Unended
<1>9. Outcomes'
  BY <1>1, <1>2, <1>3, <1>4 DEF IInv, Outcomes, Ends
<1>10. ASSUME Present' PROVE ObjEnded'
  <2> SUFFICES ASSUME NEW u \in Thread, NEW s \in Session,
                      thr'[u].session = s, ~Ends(u)', Unended(s)', obj'[s].status # "active"
               PROVE  EndedBySched(s)'
    BY DEF ObjEnded
  <2>1. Unended(s) /\ row[s] # None /\ obj[s].status # "active" /\ thr[u].session = s
    BY <1>2, <1>3 DEF Unended
  <2>2. ~Ends(u)
    BY <1>2 DEF Ends, Transits
  <2> QED
    BY <1>3, <1>6, <1>10, <2>1, <2>2 DEF IInv, Kept, ObjEnded
<1>11. ASSUME Present' PROVE RowEnded'
  BY <1>2, <1>3, <1>11, <1>16 DEF IInv, Kept, RowEnded
<1>12. ASSUME Present' PROVE Launches'
  <2> SUFFICES ASSUME NEW u \in Thread, NEW s \in Session, thr'[u].pc = "write",
                      thr'[u].then = "spawn", thr'[u].session = s, Unended(s)'
               PROVE  /\ thr'[u].data.pid
                      /\ thr'[u].data.status \notin Terminal \/ EndedBySched(s)'
    BY DEF Launches
  <2>1. Unended(s) /\ row[s] # None /\ thr[u].session = s
    BY <1>2, <1>3 DEF Unended
  <2>2. CASE u # t
    BY <1>2, <1>3, <1>6, <1>12, <2>1, <2>2 DEF IInv, Kept, Launches
  <2>3. CASE u = t
    <3>1. m.data.pid /\ m.data.status = DomainStatus(s, "recording")
      BY <1>1, <1>2, <2>1, <2>3
    <3>2. ~Ends(t)
      BY DEF Ends, Transits
    <3>3. obj[s].status # "active" => EndedBySched(s)
      BY <1>3, <1>12, <2>1, <2>3, <3>2 DEF IInv, Kept, ObjEnded
    <3>4. m.data.status \in Terminal => obj[s].status # "active"
      BY <3>1 DEF DomainStatus, Terminal
    <3> QED
      BY <1>2, <1>6, <1>12, <2>1, <2>3, <3>1, <3>3, <3>4
  <2> QED
    BY <2>2, <2>3
<1>13. ASSUME Present' PROVE Records'
  BY <1>1, <1>2, <1>3, <1>6, <1>13 DEF IInv, Kept, Records, Unended
<1>14. ASSUME Present' PROVE Ageing'
  BY <1>2, <1>3, <1>14, <1>16 DEF IInv, Kept, Ageing, Unended
<1>15. ASSUME Present' PROVE Holding'
  BY <1>2, <1>3, <1>15, <1>16 DEF IInv, Kept, Holding
<1> QED
  BY <1>7, <1>8, <1>9, <1>10, <1>11, <1>12, <1>13, <1>14, <1>15 DEF IInv, Kept

LEMMA FinishesKeeps ==
  ASSUME Types, IInv, NEW t \in Thread, Finishes(t)
  PROVE  IInv'
<1>0. PICK e \in Session : e = thr[t].session
  BY DEF Finishes
<1>1. PICK m \in Local :
         Moves(t, m) /\ m.pc = "write" /\ m.session = thr[t].session /\ m.data.ends
  BY DEF Finishes
<1>2. /\ thr'[t] = m /\ \A u \in Thread \ {t} : thr'[u] = thr[u]
      /\ \A u \in Thread : thr'[u].session = thr[u].session
  BY <1>1, MovesTyped
<1>3. /\ born' = born /\ (Present' => Present) /\ Form(t) /\ Sched \in Thread /\ row' = row
  BY DEF Finishes, Keeps, Form, Thread, Prober
<1>4. /\ obj'[e].status # "active"
      /\ \A s \in Session \ {e} : obj'[s].status = obj[s].status
  BY <1>0, <1>3 DEF Finishes, Types, TypeOK, Outcome, Terminal
<1>5. m.then = "close"
  BY <1>1 DEF Moves, PlacedAt
<1>6. \A s \in Session : Present' /\ row[s] # None /\ EndedBySched(s) => EndedBySched(s)'
  BY <1>3, EndingKept
<1>7. \A u \in Thread : thr[u].pc \in {"write", "insert", "close", "spawn", "wait"}
                         => thr[u].session \in Session
  BY DEF Types, Placed, PlacedAt, Working, Pc
<1>18. (Closing => Closing') /\ \A u \in Thread : Worker(u)' => Worker(u)
  BY <1>1, <1>2, <1>3 DEF Closing, Ending, Worker
<1>8. Shared'
  BY <1>2, <1>18 DEF IInv, Shared
<1>9. RowsBorn' /\ Inserts' /\ Closes'
  BY <1>1, <1>2, <1>3 DEF IInv, RowsBorn, Inserts, Closes, Unended
<1>10. Outcomes'
  BY <1>0, <1>1, <1>2, <1>4, <1>7 DEF IInv, Outcomes, Ends
\* whoever else works for the session shares it with the scheduler
<1>11. ASSUME NEW u \in Thread, u # t, thr[u].session = e, Unended(e)
       PROVE  EndedBySched(e)'
  <2>1. e # None
    BY <1>0, <1>3, SessionAssumption DEF Thread
  <2>2. Sched \in {u, t} /\ Closing
    BY <1>0, <1>11, <2>1 DEF IInv, Shared
  <2>3. thr[Sched].session = e /\ thr[Sched].pc # "close"
    BY <1>0, <1>3, <1>11, <2>2 DEF IInv, Closes
  <2>4. Ending'
    BY <1>1, <1>2, <2>2, <2>3 DEF Ending, Closing
  <2> QED
    BY <1>0, <1>2, <1>3, <2>3, <2>4 DEF EndedBySched
<1>12. ASSUME Present' PROVE ObjEnded'
  <2> SUFFICES ASSUME NEW u \in Thread, NEW s \in Session,
                      thr'[u].session = s, ~Ends(u)', Unended(s)', obj'[s].status # "active"
               PROVE  EndedBySched(s)'
    BY DEF ObjEnded
  <2>1. Unended(s) /\ row[s] # None /\ thr[u].session = s /\ u # t /\ ~Ends(u)
    BY <1>0, <1>1, <1>2, <1>3 DEF Unended, Ends
  <2>2. CASE s = e
    BY <1>11, <2>1, <2>2
  <2>3. CASE s # e
    BY <1>3, <1>4, <1>6, <1>12, <2>1, <2>3 DEF IInv, Kept, ObjEnded
  <2> QED
    BY <2>2, <2>3
<1>13. ASSUME Present' PROVE RowEnded'
  BY <1>0, <1>2, <1>3, <1>4, <1>13, <1>18 DEF IInv, Kept, RowEnded
<1>14. ASSUME Present' PROVE Launches'
  BY <1>1, <1>2, <1>3, <1>5, <1>6, <1>7, <1>14 DEF IInv, Kept, Launches, Unended
<1>15. ASSUME Present' PROVE Records'
  BY <1>1, <1>2, <1>3, <1>6, <1>15 DEF IInv, Kept, Records, Unended
<1>16. ASSUME Present' PROVE Ageing'
  BY <1>2, <1>3, <1>16, <1>18 DEF IInv, Kept, Ageing, Unended
<1>17. ASSUME Present' PROVE Holding'
  BY <1>2, <1>3, <1>4, <1>17, <1>18 DEF IInv, Kept, Holding
<1> QED
  BY <1>8, <1>9, <1>10, <1>12, <1>13, <1>14, <1>15, <1>16, <1>17 DEF IInv, Kept

LEMMA WrittenKeeps ==
  ASSUME Types, IInv, NEW t \in Thread, Written(t)
  PROVE  IInv'
<1>0. PICK e \in Session : e = thr[t].session
  BY WrittenTyped
<1>1. /\ thr[t].pc = "write" /\ row[e] \in Row /\ row[e] # None /\ e \in born
      /\ thr[t].then \in AfterWrite /\ (thr[t].data.ends <=> thr[t].then = "close")
      /\ Sched \in Thread
  BY <1>0, WrittenTyped DEF Written, WriteSession, Types, Placed, PlacedAt, IInv, RowsBorn,
     Thread, Prober
<1>2. /\ thr'[t].pc = thr[t].then /\ thr'[t].session = e
      /\ \A u \in Thread \ {t} : thr'[u] = thr[u]
      /\ \A u \in Thread : thr'[u].session = thr[u].session
  <2>1. thr[t].then \in Pc
    BY <1>1 DEF AfterWrite, Pc
  <2>2. thr'[t] = At(thr[t].then, e) /\ \A u \in Thread \ {t} : thr'[u] = thr[u]
    BY <1>0, WrittenTyped, MovesTyped
  <2> QED
    BY <1>0, <2>1, <2>2, LocalsAre
<1>3. /\ obj' = obj /\ born' = born /\ (Present' <=> Present)
      /\ row' = [row EXCEPT ![e] = [status |-> thr[t].data.status, pid |-> thr[t].data.pid,
                                    updated |-> "recent",
                                    ended |-> IF thr[t].data.ends THEN "recent" ELSE row[e].ended]]
  BY <1>0 DEF Written, WriteSession, Present
<1>4. /\ row'[e].updated = "recent"
      /\ row'[e].ended = IF thr[t].data.ends THEN "recent" ELSE row[e].ended
      /\ row'[e].pid = thr[t].data.pid /\ row'[e].status = thr[t].data.status
      /\ row'[e] # None
      /\ \A s \in Session \ {e} : row'[s] = row[s]
  <2>1. row \in [Session -> Row \cup {None}] /\ row' \in [Session -> Row \cup {None}]
    BY WrittenTyped DEF Types, TypeOK
  <2>2. row'[e] = [status |-> thr[t].data.status, pid |-> thr[t].data.pid,
                   updated |-> "recent",
                   ended |-> IF thr[t].data.ends THEN "recent" ELSE row[e].ended]
    BY <1>3, <2>1
  <2>3. thr[t].data \in Write
    BY DEF Types, TypeOK, Local
  <2>4. row'[e] \in Row
    BY <1>1, <2>2, <2>3 DEF Row, Write
  <2> QED
    BY <1>3, <2>1, <2>2, <2>4, NoneAssumption
<1>5. \A s \in Session : Unended(s)' => Unended(s) /\ (s = e => ~thr[t].data.ends)
  BY <1>1, <1>4 DEF Unended
<1>6. \A s \in Session : Unended(s)' /\ EndedBySched(s) => EndedBySched(s)'
  BY <1>1, <1>2, <1>5, <1>0 DEF EndedBySched, Ending
<1>7. (Closing => Closing') /\ \A u \in Thread : Worker(u)' => Worker(u)
  BY <1>1, <1>2 DEF Worker, Closing, Ending
<1>8. Shared'
  BY <1>2, <1>7 DEF IInv, Shared
<1>9. RowsBorn' /\ Inserts'
  BY <1>1, <1>2, <1>3, <1>4 DEF IInv, RowsBorn, Inserts, AfterWrite
<1>10. Closes'
  BY <1>0, <1>1, <1>2, <1>3, <1>5 DEF IInv, Closes
<1>11. Outcomes'
  BY <1>1, <1>2, <1>3 DEF IInv, Outcomes, Ends, AfterWrite
<1>12. ASSUME Present PROVE ObjEnded'
  <2> SUFFICES ASSUME NEW u \in Thread, NEW s \in Session,
                      thr'[u].session = s, ~Ends(u)', Unended(s)', obj[s].status # "active"
               PROVE  EndedBySched(s)'
    BY <1>3 DEF ObjEnded
  <2>1. thr[u].session = s /\ Unended(s)
    BY <1>2, <1>5
  <2>2. ~Ends(u)
    BY <1>0, <1>2, <1>5, <2>1 DEF Ends
  <2> QED
    BY <1>6, <1>12, <2>1, <2>2 DEF IInv, Kept, ObjEnded
<1>13. ASSUME Present PROVE RowEnded'
  <2> SUFFICES ASSUME NEW u \in Thread, NEW s \in Session, Worker(u)', thr'[u].session = s,
                      row'[s] # None, row'[s].ended # "no"
               PROVE  obj[s].status # "active"
    BY <1>3 DEF RowEnded
  <2>1. Worker(u) /\ thr[u].session = s
    BY <1>2, <1>7
  <2>2. CASE s = e /\ thr[t].data.ends
    BY <1>0, <1>1, <2>2 DEF IInv, Outcomes, Ends
  <2>3. CASE row[s] # None /\ row[s].ended # "no"
    BY <1>13, <2>1, <2>3 DEF IInv, Kept, RowEnded
  <2> QED
    BY <1>1, <1>4, <2>2, <2>3
<1>14. ASSUME Present PROVE Launches'
  <2> SUFFICES ASSUME NEW u \in Thread, NEW s \in Session, thr'[u].pc = "write",
                      thr'[u].then = "spawn", thr'[u].session = s, Unended(s)'
               PROVE  /\ thr'[u].data.pid
                      /\ thr'[u].data.status \notin Terminal \/ EndedBySched(s)'
    BY DEF Launches
  <2>1. u # t /\ thr'[u] = thr[u] /\ Unended(s)
    BY <1>1, <1>2, <1>5 DEF AfterWrite
  <2> QED
    BY <1>6, <1>14, <2>1 DEF IInv, Kept, Launches
<1>15. ASSUME Present PROVE Records'
  <2> SUFFICES ASSUME NEW u \in Thread, NEW s \in Session, thr'[u].pc \in {"spawn", "wait"},
                      thr'[u].session = s, Unended(s)'
               PROVE  Named(row'[s]) \/ EndedBySched(s)'
    BY DEF Records
  <2>1. Unended(s) /\ thr[u].session = s
    BY <1>2, <1>5
  <2>2. CASE s # e
    <3>1. u # t /\ thr'[u] = thr[u] /\ row'[s] = row[s]
      BY <1>0, <1>2, <1>4, <2>1, <2>2
    <3> QED
      BY <1>6, <1>15, <2>1, <3>1 DEF IInv, Kept, Records
  <2>3. CASE s = e /\ u = t
    <3>1. thr[t].then = "spawn"
      BY <1>1, <1>2, <2>3 DEF AfterWrite
    <3>2. thr[t].data.pid /\ (thr[t].data.status \notin Terminal \/ EndedBySched(s))
      BY <1>0, <1>1, <1>15, <2>1, <2>3, <3>1 DEF IInv, Kept, Launches
    <3> QED
      BY <1>4, <1>6, <2>3, <3>2 DEF Named
  <2>4. CASE s = e /\ u # t
    <3>1. s # None
      BY SessionAssumption DEF Thread
    <3>2. Sched \in {u, t} /\ Closing
      BY <1>0, <2>1, <2>4, <3>1 DEF IInv, Shared
    <3>3. t = Sched
      BY <1>2, <2>4, <3>2 DEF Closing, Ending
    <3>4. EndedBySched(s)
      BY <1>0, <1>1, <2>4, <3>2, <3>3 DEF EndedBySched, Closing
    <3> QED
      BY <1>6, <3>4
  <2> QED
    BY <2>2, <2>3, <2>4
<1>16. ASSUME Present PROVE Ageing'
  <2> SUFFICES ASSUME NEW u \in Thread, NEW s \in Session, Worker(u)', thr'[u].session = s,
                      Unended(s)', row'[s].updated = "old"
               PROVE  Named(row'[s])
    BY DEF Ageing
  <2>1. s # e /\ row'[s] = row[s] /\ Unended(s) /\ Worker(u) /\ thr[u].session = s
    BY <1>2, <1>4, <1>5, <1>7
  <2> QED
    BY <1>16, <2>1 DEF IInv, Kept, Ageing
<1>17. ASSUME Present PROVE Holding'
  BY <1>1, <1>2, <1>3, <1>4, <1>7, <1>17 DEF IInv, Kept, Holding
<1> QED
  BY <1>3, <1>8, <1>9, <1>10, <1>11, <1>12, <1>13, <1>14, <1>15, <1>16, <1>17 DEF IInv, Kept

LEMMA OpenKeeps ==
  ASSUME Types, IInv, NEW t \in Prober, OpenSession(t)
  PROVE  IInv'
<1>1. PICK e \in Session, m \in Local :
         Fresh(e) /\ Moves(t, m) /\ m.pc = "insert" /\ m.session = e
  BY OpenTyped
<1>2. t \in Thread /\ Sched \in Thread /\ None \notin Session
  BY SessionAssumption DEF Thread, Prober
<1>3. thr'[t] = m /\ \A u \in Thread \ {t} : thr'[u] = thr[u]
  BY <1>1, <1>2, MovesTyped
<1>4. /\ obj' = obj /\ row' = row /\ born' = born /\ (Present' <=> Present)
      /\ thr[t].pc = "publish"
  BY DEF OpenSession, Present
<1>5. e \notin born /\ row[e] = None /\ \A u \in Thread : thr[u].session # e
  BY <1>1 DEF Fresh, Held, IInv, RowsBorn
<1>6. (Closing' <=> Closing) /\ \A s \in Session : EndedBySched(s) => EndedBySched(s)'
  BY <1>1, <1>2, <1>3, <1>4 DEF Closing, Ending, EndedBySched
<1>7. \A u \in Thread : Worker(u)' <=> Worker(u)
  BY <1>6 DEF Worker
<1>8. \A u \in Thread, s \in Session \ {e} : thr'[u].session = s => u # t /\ thr'[u] = thr[u]
  BY <1>1, <1>3
<1>9. Shared'
  BY <1>1, <1>3, <1>5, <1>6 DEF IInv, Shared
<1>10. RowsBorn' /\ Inserts' /\ Closes' /\ Outcomes'
  BY <1>1, <1>3, <1>4, <1>5 DEF IInv, RowsBorn, Inserts, Closes, Outcomes, Ends, Unended
<1>11. ASSUME Present PROVE ObjEnded' /\ RowEnded' /\ Launches'
  BY <1>4, <1>5, <1>6, <1>7, <1>8, <1>11
     DEF IInv, Kept, ObjEnded, RowEnded, Launches, Unended, Ends
<1>12. ASSUME Present PROVE Records' /\ Ageing' /\ Holding'
  BY <1>4, <1>5, <1>6, <1>7, <1>8, <1>12 DEF IInv, Kept, Records, Ageing, Holding, Unended
<1> QED
  BY <1>4, <1>9, <1>10, <1>11, <1>12 DEF IInv, Kept

\* the scheduler at any other step ends no session
LEMMA NotClosing ==
  ASSUME thr[Sched].pc \in {"insert", "spawn"}
  PROVE  ~Closing
BY DEF Closing, Ending

LEMMA CreateKeeps ==
  ASSUME Types, IInv, NEW t \in Prober, CreateSession(t)
  PROVE  IInv'
<1>0. PICK e \in Session : e = thr[t].session
  BY CreateTyped
<1>1. /\ t \in Thread /\ Sched \in Thread /\ None \notin Session
      /\ thr[t].pc = "insert" /\ thr[t].then \in {"opened", "recover"}
      /\ e \notin born /\ row[e] = None
  BY <1>0, CreateTyped, SessionAssumption
     DEF Thread, Prober, CreateSession, IInv, Inserts, RowsBorn
<1>2. /\ thr'[t].pc = thr[t].then
      /\ \A u \in Thread \ {t} : thr'[u] = thr[u]
      /\ \A u \in Thread : thr'[u].session = thr[u].session
  <2>1. thr[t].then \in Pc
    BY <1>1 DEF Pc
  <2>2. thr'[t] = At(thr[t].then, e) /\ \A u \in Thread \ {t} : thr'[u] = thr[u]
    BY <1>0, <1>1, CreateTyped, MovesTyped
  <2> QED
    BY <1>0, <2>1, <2>2, LocalsAre
<1>3. /\ obj' = obj /\ born' = born \cup {e} /\ (Present' <=> Present)
  BY <1>0 DEF CreateSession, Present
<1>4. /\ row'[e].updated = "recent" /\ row'[e] # None
      /\ row'[e].ended = "no" <=> obj[e].status = "active"
      /\ \A s \in Session \ {e} : row'[s] = row[s]
  <2>1. row \in [Session -> Row \cup {None}] /\ row' \in [Session -> Row \cup {None}]
    BY CreateTyped DEF Types, TypeOK
  <2>2. row'[e] = [status |-> DomainStatus(e, "queued"), pid |-> FALSE, updated |-> "recent",
                   ended |-> IF obj[e].status = "active" THEN "no" ELSE "recent"]
    BY <1>0, <2>1 DEF CreateSession
  <2>3. DomainStatus(e, "queued") \in Status
    BY DEF DomainStatus, Status, Types, TypeOK
  <2>4. row'[e] \in Row
    BY <2>2, <2>3 DEF Row
  <2>5. \A s \in Session \ {e} : row'[s] = row[s]
    BY <1>0, <2>1 DEF CreateSession
  <2>6. row'[e] # None
    BY <2>4, NoneAssumption
  <2>8. row'[e].updated = "recent"
    BY <2>2
  <2>7. row'[e].ended = IF obj[e].status = "active" THEN "no" ELSE "recent"
    BY <2>2
  <2> QED
    BY <2>5, <2>6, <2>7, <2>8
<1>5. /\ \A s \in Session \ {e} : Unended(s)' <=> Unended(s)
      /\ Unended(e)' => obj[e].status = "active"
  BY <1>4 DEF Unended
<1>6. \A s \in Session : EndedBySched(s) => EndedBySched(s)'
  BY <1>1, <1>2 DEF EndedBySched, Ending
<1>7. (Closing => Closing') /\ \A u \in Thread : Worker(u)' => Worker(u)
  BY <1>1, <1>2 DEF Worker, Closing, Ending
\* but for the scheduler, which is to end it, nobody else works for the session
<1>8. ASSUME NEW u \in Thread, u # t, thr[u].session = e
      PROVE  u = Sched /\ Closing
  BY <1>0, <1>1, <1>8, NotClosing DEF IInv, Shared
<1>9. Shared'
  BY <1>2, <1>7 DEF IInv, Shared
<1>10. RowsBorn' /\ Outcomes'
  BY <1>1, <1>2, <1>3, <1>4 DEF IInv, RowsBorn, Outcomes, Ends
<1>11. Inserts'
  BY <1>1, <1>2, <1>3, <1>8, NotClosing DEF IInv, Inserts
<1>12. Closes'
  BY <1>1, <1>2, <1>3, <1>5 DEF IInv, Closes
<1>13. ASSUME Present PROVE ObjEnded'
  <2> SUFFICES ASSUME NEW u \in Thread, NEW s \in Session,
                      thr'[u].session = s, ~Ends(u)', Unended(s)', obj[s].status # "active"
               PROVE  EndedBySched(s)'
    BY <1>3 DEF ObjEnded
  <2>1. s # e /\ Unended(s) /\ thr[u].session = s /\ u # t
    BY <1>0, <1>2, <1>5
  <2>2. ~Ends(u)
    BY <1>2, <2>1 DEF Ends
  <2> QED
    BY <1>6, <1>13, <2>1, <2>2 DEF IInv, Kept, ObjEnded
<1>14. ASSUME Present PROVE RowEnded'
  BY <1>2, <1>3, <1>4, <1>7, <1>14 DEF IInv, Kept, RowEnded
<1>15. ASSUME Present PROVE Launches'
  <2> SUFFICES ASSUME NEW u \in Thread, NEW s \in Session, thr'[u].pc = "write",
                      thr'[u].then = "spawn", thr'[u].session = s, Unended(s)'
               PROVE  /\ thr'[u].data.pid
                      /\ thr'[u].data.status \notin Terminal \/ EndedBySched(s)'
    BY DEF Launches
  <2>1. u # t /\ thr'[u] = thr[u]
    BY <1>1, <1>2
  <2>2. s # e
    <3> SUFFICES ASSUME s = e PROVE FALSE
      OBVIOUS
    <3>1. u = Sched /\ Closing
      BY <1>8, <2>1
    <3>2. thr[u].data.ends
      BY <2>1, <3>1 DEF Closing, Ending
    <3>3. PlacedAt(u, thr[u])
      BY DEF Types, Placed
    <3> QED
      BY <2>1, <3>2, <3>3 DEF PlacedAt
  <2> QED
    BY <1>5, <1>6, <1>15, <2>1, <2>2 DEF IInv, Kept, Launches
<1>16. ASSUME Present PROVE Records'
  <2> SUFFICES ASSUME NEW u \in Thread, NEW s \in Session, thr'[u].pc \in {"spawn", "wait"},
                      thr'[u].session = s, Unended(s)'
               PROVE  Named(row'[s]) \/ EndedBySched(s)'
    BY DEF Records
  <2>1. u # t /\ thr'[u] = thr[u]
    BY <1>1, <1>2
  <2>2. s # e
    BY <1>8, <2>1 DEF Closing, Ending
  <2> QED
    BY <1>4, <1>5, <1>6, <1>16, <2>1, <2>2 DEF IInv, Kept, Records
<1>17. ASSUME Present PROVE Ageing'
  BY <1>2, <1>4, <1>5, <1>7, <1>17 DEF IInv, Kept, Ageing
<1>18. ASSUME Present PROVE Holding'
  BY <1>2, <1>3, <1>4, <1>7, <1>18 DEF IInv, Kept, Holding
<1> QED
  BY <1>3, <1>9, <1>10, <1>11, <1>12, <1>13, <1>14, <1>15, <1>16, <1>17, <1>18 DEF IInv, Kept

LEMMA StartCaptureKeeps ==
  ASSUME Types, IInv, NEW t \in Prober, StartCapture(t)
  PROVE  IInv'
<1>0. PICK e \in Session : e = thr[t].session
  BY DEF StartCapture, Types, Placed, PlacedAt, Working, Pc, Thread
<1>1. /\ t \in Thread /\ Sched \in Thread /\ e \in Thread /\ e # t /\ e # Sched
      /\ None \notin Session /\ thr[t].pc = "spawn"
  BY <1>0, SessionAssumption DEF Thread, Prober, StartCapture
<1>2. /\ obj' = obj /\ row' = row /\ born' = born /\ (Present' <=> Present)
      /\ thr' = [thr EXCEPT ![t] = Idle, ![e] = At("wait", e)]
  BY <1>0 DEF StartCapture, Present
<1>3. /\ thr'[t].pc = "idle" /\ thr'[t].session = None
      /\ thr'[e].pc = "wait" /\ thr'[e].session = e
      /\ \A u \in Thread \ {t, e} : thr'[u] = thr[u]
  <2>1. At("wait", e).pc = "wait" /\ At("wait", e).session = e
    BY LocalsAre DEF Pc
  <2>2. thr'[t] = Idle /\ thr'[e] = At("wait", e) /\ \A u \in Thread \ {t, e} : thr'[u] = thr[u]
    BY <1>1, <1>2 DEF Types, TypeOK
  <2> QED
    BY <2>1, <2>2, LocalsAre
<1>4. (Closing' <=> Closing) /\ \A s \in Session : EndedBySched(s) => EndedBySched(s)'
  BY <1>1, <1>3 DEF Closing, Ending, EndedBySched
<1>5. \A u \in Thread : Worker(u)' <=> Worker(u)
  BY <1>4 DEF Worker
<1>6. Worker(t) /\ ~Ends(t)
  BY <1>1, NotClosing DEF Worker, Ends
\* whoever works for a session did before, or took over from t
<1>7. \A u \in Thread, s \in Session : thr'[u].session = s =>
         (u \notin {t, e} /\ thr'[u] = thr[u]) \/ (u = e /\ s = e)
  BY <1>1, <1>3
<1>8. Shared'
  <2> SUFFICES ASSUME NEW u \in Thread, NEW v \in Thread, u # v,
                      thr'[u].session = thr'[v].session, thr'[u].session # None
               PROVE  Sched \in {u, v} /\ Closing'
    BY DEF Shared
  <2>1. u # t /\ v # t
    BY <1>3
  <2>2. CASE e \notin {u, v}
    BY <1>3, <1>4, <2>1, <2>2 DEF IInv, Shared
  <2>3. CASE e \in {u, v}
    <3>1. PICK w \in {u, v} : w # e /\ thr[w].session = e
      BY <1>3, <2>1, <2>3
    <3>2. Sched \in {w, t} /\ Closing
      BY <1>0, <1>1, <2>1, <3>1 DEF IInv, Shared
    <3> QED
      BY <1>1, <1>4, <3>1, <3>2, NotClosing
  <2> QED
    BY <2>2, <2>3
<1>15. \A u \in Thread : thr'[u].pc \in {"insert", "close", "write"} => thr'[u] = thr[u]
  BY <1>3
<1>16. \A s \in Session : Unended(s)' <=> Unended(s)
  BY <1>2 DEF Unended
<1>17. \A u \in Thread, s \in Session : thr'[u].session = s /\ Worker(u)' =>
          \E v \in Thread : thr[v].session = s /\ Worker(v)
  BY <1>0, <1>1, <1>5, <1>6, <1>7
<1>9. RowsBorn' /\ Inserts' /\ Closes' /\ Outcomes'
  <2>1. RowsBorn'
    BY <1>2 DEF IInv, RowsBorn
  <2>4. Inserts'
    <3> SUFFICES ASSUME NEW u \in Thread, thr'[u].pc = "insert"
                 PROVE  thr'[u].session \notin born
      BY <1>2 DEF Inserts
    <3>1. thr'[u] = thr[u]
      BY <1>15
    <3> QED
      BY <3>1 DEF IInv, Inserts
  <2>2. Closes'
    BY <1>2, <1>15, <1>16 DEF IInv, Closes
  <2>3. Outcomes'
    BY <1>2, <1>15 DEF IInv, Outcomes, Ends
  <2> QED
    BY <2>1, <2>2, <2>3, <2>4
<1>10. ASSUME Present PROVE ObjEnded'
  <2> SUFFICES ASSUME NEW u \in Thread, NEW s \in Session,
                      thr'[u].session = s, ~Ends(u)', Unended(s)', obj[s].status # "active"
               PROVE  EndedBySched(s)'
    BY <1>2 DEF ObjEnded
  <2>1. PICK v \in Thread : thr[v].session = s /\ ~Ends(v)
    <3>1. CASE u = e /\ s = e
      BY <1>0, <1>1, <1>6, <3>1
    <3>2. CASE thr'[u] = thr[u]
      BY <3>2 DEF Ends
    <3> QED
      BY <1>7, <3>1, <3>2
  <2> QED
    BY <1>4, <1>10, <1>16, <2>1 DEF IInv, Kept, ObjEnded
<1>11. ASSUME Present PROVE RowEnded' /\ Holding'
  <2>1. RowEnded'
    BY <1>2, <1>17, <1>11 DEF IInv, Kept, RowEnded
  <2>2. Holding'
    BY <1>2, <1>17, <1>11 DEF IInv, Kept, Holding
  <2> QED
    BY <2>1, <2>2
<1>12. ASSUME Present PROVE Launches'
  BY <1>2, <1>3, <1>4, <1>7, <1>12 DEF IInv, Kept, Launches, Unended
<1>13. ASSUME Present PROVE Records'
  BY <1>0, <1>1, <1>2, <1>4, <1>7, <1>13 DEF IInv, Kept, Records, Unended
<1>14. ASSUME Present PROVE Ageing'
  BY <1>2, <1>14, <1>16, <1>17 DEF IInv, Kept, Ageing
<1> QED
  BY <1>2, <1>8, <1>9, <1>10, <1>11, <1>12, <1>13, <1>14 DEF IInv, Kept

LEMMA AgeKeeps ==
  ASSUME Types, IInv, NEW e \in Session, Age(e)
  PROVE  IInv'
<1>1. /\ obj' = obj /\ born' = born /\ thr' = thr /\ (Present' <=> Present)
      /\ row[e] # None /\ \A t \in Thread : thr[t].session = e => thr[t].pc = "wait"
      /\ Sched \in Thread
  BY DEF Age, Present, Thread, Prober
<1>2. /\ row'[e] # None /\ (row'[e].ended = "no" <=> row[e].ended = "no")
      /\ Named(row'[e]) <=> Named(row[e])
      /\ \A s \in Session \ {e} : row'[s] = row[s]
  <2>1. row'[e] \in Row /\ row'[e].pid = row[e].pid /\ row'[e].status = row[e].status
    BY AgeTyped
  <2>2. row'[e] # None
    BY <2>1, NoneAssumption
  <2>3. row'[e].ended = "no" <=> row[e].ended = "no"
    BY AgeTyped
  <2>4. \A s \in Session \ {e} : row'[s] = row[s]
    BY AgeTyped DEF Types, TypeOK
  <2> QED
    BY <2>1, <2>2, <2>3, <2>4 DEF Named
<1>3. \A s \in Session : /\ row'[s] # None <=> row[s] # None
                         /\ Unended(s)' <=> Unended(s)
                         /\ Named(row'[s]) <=> Named(row[s])
                         /\ row'[s].ended = "no" <=> row[s].ended = "no"
  BY <1>1, <1>2 DEF Unended
<1>4. /\ Closing' <=> Closing
      /\ \A s \in Session : EndedBySched(s)' <=> EndedBySched(s)
      /\ \A t \in Thread : (Worker(t)' <=> Worker(t)) /\ (Ends(t)' <=> Ends(t))
  BY <1>1 DEF Closing, Ending, EndedBySched, Worker, Ends
<1>5. Shared' /\ RowsBorn' /\ Inserts'
  BY <1>1, <1>3, <1>4 DEF IInv, Shared, RowsBorn, Inserts
<1>6. Closes'
  BY <1>1, <1>3 DEF IInv, Closes
<1>7. Outcomes'
  BY <1>1, <1>4 DEF IInv, Outcomes
<1>8. ASSUME Present PROVE ObjEnded' /\ RowEnded'
  BY <1>1, <1>3, <1>4, <1>8 DEF IInv, Kept, ObjEnded, RowEnded
<1>9. ASSUME Present PROVE Launches' /\ Records'
  BY <1>1, <1>3, <1>4, <1>9 DEF IInv, Kept, Launches, Records
<1>10. ASSUME Present PROVE Holding'
  BY <1>1, <1>3, <1>4, <1>10 DEF IInv, Kept, Holding
<1>11. ASSUME Present PROVE Ageing'
  <2> SUFFICES ASSUME NEW t \in Thread, NEW s \in Session, Worker(t), thr[t].session = s,
                      Unended(s), row'[s].updated = "old"
               PROVE  Named(row[s])
    BY <1>1, <1>3, <1>4 DEF Ageing
  <2>1. CASE s # e
    BY <1>2, <1>11, <2>1 DEF IInv, Kept, Ageing
  <2>2. CASE s = e
    <3>1. ~EndedBySched(s)
      BY <1>1, <2>2 DEF EndedBySched, Ending
    <3> QED
      BY <1>1, <1>11, <2>2, <3>1 DEF IInv, Kept, Records
  <2> QED
    BY <2>1, <2>2
<1> QED
  BY <1>1, <1>5, <1>6, <1>7, <1>8, <1>9, <1>10, <1>11 DEF IInv, Kept

\* retention does not take the row of a session that a thread works for and
\* that nobody ended
LEMMA Unexpired ==
  ASSUME IInv, Present, NEW t \in Thread, NEW s \in Session,
         Worker(t), thr[t].session = s, Unended(s)
  PROVE  ~Expired(row[s])
<1>1. row[s].updated = "old" => row[s].pid /\ row[s].status \notin Terminal
  BY DEF IInv, Kept, Ageing, Named
<1> QED
  BY <1>1 DEF Expired, Unended

LEMMA PruneKeeps ==
  ASSUME Types, IInv, Prune
  PROVE  IInv'
<1>1. /\ obj' = obj /\ born' = born /\ thr' = thr /\ (Present' <=> Present)
      /\ \A s \in Session : row'[s] = IF row[s] # None /\ Expired(row[s]) THEN None ELSE row[s]
  BY DEF Prune, Present
<1>2. \A s \in Session : /\ row'[s] # None => row'[s] = row[s]
                         /\ Unended(s)' => Unended(s) /\ row'[s] = row[s]
  BY <1>1 DEF Unended
<1>4. /\ Closing' <=> Closing
      /\ \A s \in Session : EndedBySched(s)' <=> EndedBySched(s)
      /\ \A t \in Thread : (Worker(t)' <=> Worker(t)) /\ (Ends(t)' <=> Ends(t))
  BY <1>1 DEF Closing, Ending, EndedBySched, Worker, Ends
<1>5. Shared' /\ RowsBorn' /\ Inserts'
  BY <1>1, <1>2, <1>4 DEF IInv, Shared, RowsBorn, Inserts
<1>6. Closes'
  BY <1>1, <1>2 DEF IInv, Closes
<1>7. Outcomes'
  BY <1>1, <1>4 DEF IInv, Outcomes
<1>8. ASSUME Present PROVE ObjEnded' /\ RowEnded'
  BY <1>1, <1>2, <1>4, <1>8 DEF IInv, Kept, ObjEnded, RowEnded
<1>9. ASSUME Present PROVE Launches' /\ Records' /\ Ageing'
  BY <1>1, <1>2, <1>4, <1>9 DEF IInv, Kept, Launches, Records, Ageing
<1>10. ASSUME Present PROVE Holding'
  <2> SUFFICES ASSUME NEW t \in Thread, NEW s \in Session, Worker(t), thr[t].session = s,
                      s \in born, obj[s].status = "active"
               PROVE  row'[s] # None
    BY <1>1, <1>4 DEF Holding
  <2>1. row[s] # None
    BY <1>10 DEF IInv, Kept, Holding
  <2>2. row[s].ended = "no"
    BY <1>10, <2>1 DEF IInv, Kept, RowEnded
  <2>3. ~Expired(row[s])
    BY <1>10, <2>1, <2>2, Unexpired DEF Unended
  <2> QED
    BY <1>1, <2>1, <2>3
<1> QED
  BY <1>1, <1>5, <1>6, <1>7, <1>8, <1>9, <1>10 DEF IInv, Kept

LEMMA InvInit == Init => IInv
<1> SUFFICES ASSUME Init PROVE IInv
  OBVIOUS
<1>1. /\ None \notin Session /\ RowsBorn
      /\ \A t \in Thread : thr[t].session = None /\ thr[t].pc = "idle"
  BY LocalsAre, SessionAssumption DEF Init, RowsBorn, Thread
<1>2. Shared /\ Inserts /\ Closes /\ Outcomes
  BY <1>1 DEF Shared, Inserts, Closes, Outcomes, Ends
<1>3. Kept
  BY <1>1 DEF Kept, ObjEnded, RowEnded, Launches, Records, Ageing, Holding
<1> QED
  BY <1>1, <1>2, <1>3 DEF IInv

LEMMA InvNext == Types /\ IInv /\ [Next]_vars => IInv'
<1> SUFFICES ASSUME Types, IInv, [Next]_vars PROVE IInv'
  OBVIOUS
<1>1. ASSUME UNCHANGED <<obj, row, born, thr>>, Present' => Present
      PROVE  IInv'
  <2>1. Shared' /\ RowsBorn' /\ Inserts' /\ Closes' /\ Outcomes'
    BY <1>1 DEF IInv, Shared, RowsBorn, Inserts, Closes, Outcomes, Closing, Ending, Ends, Unended
  <2>2. ASSUME Present'
        PROVE  ObjEnded' /\ RowEnded' /\ Launches' /\ Records' /\ Ageing' /\ Holding'
    BY <1>1, <2>2 DEF IInv, Kept, ObjEnded, RowEnded, Launches, Records, Ageing, Holding,
       EndedBySched, Worker, Closing, Ending, Ends, Unended
  <2> QED
    BY <2>1, <2>2 DEF IInv, Kept
<1>2. CASE UNCHANGED vars
  BY <1>1, <1>2 DEF vars, Present
<1>3. CASE Next
  <2>1. ASSUME NEW t \in Thread, Form(t) PROVE IInv'
    BY <2>1, PlainKeeps, TransitsKeeps, FinishesKeeps DEF Form
  <2>2. ASSUME NEW t \in Thread, Written(t) PROVE IInv'
    BY <2>2, WrittenKeeps
  <2>3. ASSUME NEW t \in Prober, OpenSession(t) \/ CreateSession(t) \/ StartCapture(t) PROVE IInv'
    BY <2>3, OpenKeeps, CreateKeeps, StartCaptureKeeps
  <2>4. ASSUME NEW s \in Session, ProcessExit(s) PROVE IInv'
    BY <1>1, <2>4 DEF ProcessExit, Present
  <2>5. CASE DeleteChannel
    BY <1>1, <2>5 DEF DeleteChannel, Present
  <2>6. CASE Crash
    <3>1. RowsBorn' /\ \A t \in Thread : thr'[t] = Idle
      BY <2>6 DEF Crash, IInv, RowsBorn
    <3>2. /\ None \notin Session
          /\ \A t \in Thread : thr'[t].session = None /\ thr'[t].pc = "idle"
      BY <3>1, LocalsAre, SessionAssumption DEF Thread
    <3>3. Shared' /\ Inserts' /\ Closes' /\ Outcomes'
      BY <3>2 DEF Shared, Inserts, Closes, Outcomes, Ends
    <3>4. Kept'
      BY <3>2 DEF Kept, ObjEnded, RowEnded, Launches, Records, Ageing, Holding
    <3> QED
      BY <3>1, <3>3, <3>4 DEF IInv
  <2> QED
    BY <1>3, <2>1, <2>2, <2>3, <2>4, <2>5, <2>6, AgeKeeps, PruneKeeps, StepForms
<1> QED
  BY <1>2, <1>3

\* Retention deletes no row under a check or a capture that works for the
\* session, however long it records, as long as nobody else ended it and the
\* channel exists.
THEOREM HeldRowsPresent == Spec => []HeldRowPresent
<1>1. Types /\ IInv => HeldRowPresent
  BY DEF IInv, Kept, Holding, HeldRowPresent, Used, Worker, Types, TypeOK
<1>2. Init => Types /\ IInv
  BY TypesInit, InvInit
<1>3. Types /\ IInv /\ [Next]_vars => Types' /\ IInv'
  BY TypesNext, InvNext
<1> QED
  BY <1>1, <1>2, <1>3, PTL DEF Spec

-----------------------------------------------------------------------------
(* RecordingSessions implements SessionLife                                *)

Lives == [s \in Session |-> Life(s)]
Users == {s \in Session : Used(s)}

LEMMA AbstractInit == Init => Abstract!Init
<1> SUFFICES ASSUME Init PROVE Abstract!Init
  OBVIOUS
<1>1. None \notin Session /\ \A t \in Thread : thr[t].session = None
  BY LocalsAre, SessionAssumption DEF Init, Thread
<1>2. \A s \in Session : Life(s) = "unborn" /\ ~Used(s)
  BY <1>1 DEF Init, Life, Used
<1> QED
  BY <1>2 DEF Abstract!Init

\* a step that changes no row's life
LEMMA WorkStep ==
  ASSUME \A s \in Session : Life(s)' = Life(s)
  PROVE  Abstract!Next
<1>1. Lives' = Lives
  BY DEF Lives
<1>2. Users' \in SUBSET Session
  BY DEF Users
<1> QED
  BY <1>1, <1>2 DEF Lives, Users, Abstract!Next, Abstract!Work

LEMMA WrittenStep ==
  ASSUME Types, IInv, NEW t \in Thread, Written(t)
  PROVE  Abstract!Next
<1>0. PICK e \in Session : e = thr[t].session
  BY WrittenTyped
<1>1. /\ row[e] \in Row /\ row[e] # None /\ e \in born
      /\ row \in [Session -> Row \cup {None}] /\ row' \in [Session -> Row \cup {None}]
  BY <1>0, WrittenTyped DEF Written, IInv, RowsBorn, Types, TypeOK
<1>2. /\ born' = born /\ (Present' <=> Present)
      /\ row' = [row EXCEPT ![e] = [status |-> thr[t].data.status, pid |-> thr[t].data.pid,
                                    updated |-> "recent",
                                    ended |-> IF thr[t].data.ends THEN "recent" ELSE row[e].ended]]
  BY <1>0 DEF Written, WriteSession, Present
<1>3. \A u \in Thread : thr'[u].session = thr[u].session
  <2>1. thr[t].then \in Pc
    BY DEF Types, TypeOK, Local
  <2>2. thr'[t] = At(thr[t].then, e) /\ \A u \in Thread \ {t} : thr'[u] = thr[u]
    BY <1>0, WrittenTyped, MovesTyped
  <2> QED
    BY <1>0, <2>1, <2>2, LocalsAre
<1>4. /\ row'[e].ended = IF thr[t].data.ends THEN "recent" ELSE row[e].ended
      /\ \A s \in Session \ {e} : row'[s] = row[s]
  BY <1>1, <1>2
<1>5. row'[e] # None
  <2>1. thr[t].data \in Write
    BY DEF Types, TypeOK, Local
  <2>2. row'[e] \in Row
    BY <1>1, <1>2, <2>1 DEF Row, Write
  <2> QED
    BY <2>2, NoneAssumption
<1>6. \A s \in Session \ {e} : Life(s)' = Life(s)
  BY <1>2, <1>4 DEF Life
<1>7. CASE Life(e)' = Life(e)
  BY <1>6, <1>7, WorkStep
<1>8. CASE Life(e)' # Life(e)
  <2>1. Life(e) = "open" /\ Life(e)' = "ended"
    BY <1>1, <1>2, <1>4, <1>5, <1>8 DEF Life
  <2>2. Lives' = [Lives EXCEPT ![e] = "ended"] /\ Lives[e] = "open"
    BY <1>6, <2>1 DEF Lives
  <2>3. Users' = Users
    BY <1>2, <1>3 DEF Users, Used
  <2>4. Abstract!End(e)
    BY <2>2, <2>3 DEF Lives, Users, Abstract!End
  <2> QED
    BY <2>4 DEF Abstract!Next
<1> QED
  BY <1>7, <1>8

LEMMA CreateStep ==
  ASSUME Types, IInv, NEW t \in Prober, CreateSession(t)
  PROVE  Abstract!Next
<1>0. PICK e \in Session : e = thr[t].session
  BY CreateTyped
<1>1. t \in Thread /\ e \notin born /\ row \in [Session -> Row \cup {None}]
  BY <1>0 DEF Thread, CreateSession, IInv, Inserts, Types, TypeOK
<1>2. /\ born' = born \cup {e} /\ (Present' <=> Present)
      /\ \A s \in Session \ {e} : row'[s] = row[s]
  BY <1>0, <1>1 DEF CreateSession, Present
<1>3. \A u \in Thread : thr'[u].session = thr[u].session
  <2>1. thr[t].then \in Pc
    BY <1>1 DEF Types, TypeOK, Local
  <2>2. thr'[t] = At(thr[t].then, e) /\ \A u \in Thread \ {t} : thr'[u] = thr[u]
    BY <1>0, <1>1, CreateTyped, MovesTyped
  <2> QED
    BY <1>0, <2>1, <2>2, LocalsAre
<1>4. row'[e] # None
  <2>1. DomainStatus(e, "queued") \in Status
    BY DEF DomainStatus, Status, Types, TypeOK
  <2>2. row'[e] = [status |-> DomainStatus(e, "queued"), pid |-> FALSE, updated |-> "recent",
                   ended |-> IF obj[e].status = "active" THEN "no" ELSE "recent"]
    BY <1>0, <1>1 DEF CreateSession
  <2>3. row'[e] \in Row
    BY <2>1, <2>2 DEF Row
  <2> QED
    BY <2>3, NoneAssumption
<1>5. \A s \in Session \ {e} : Life(s)' = Life(s)
  BY <1>2 DEF Life
<1>6. Life(e) = "unborn" /\ Life(e)' \in {"open", "ended"}
  BY <1>1, <1>2, <1>4 DEF Life
<1>7. Lives[e] = "unborn" /\ \E l \in {"open", "ended"} : Lives' = [Lives EXCEPT ![e] = l]
  BY <1>5, <1>6 DEF Lives
<1>8. Users' = Users
  BY <1>2, <1>3 DEF Users, Used
<1>9. Abstract!Open(e)
  BY <1>7, <1>8 DEF Lives, Users, Abstract!Open
<1> QED
  BY <1>9 DEF Abstract!Next

LEMMA PruneStep ==
  ASSUME Types, IInv, Prune
  PROVE  Abstract!Next
<1> DEFINE S == {s \in Session : row[s] # None /\ Expired(row[s])}
<1>1. /\ born' = born /\ thr' = thr /\ (Present' <=> Present)
      /\ \A s \in Session : row'[s] = IF s \in S THEN None ELSE row[s]
  BY DEF Prune, Present
<1>2. ASSUME NEW s \in S
      PROVE  Life(s) = "ended" \/ (Life(s) = "open" /\ ~Used(s))
  <2>1. s \in born /\ row[s] # None
    BY DEF IInv, RowsBorn
  <2>2. ASSUME row[s].ended = "no", Used(s) PROVE FALSE
    <3>1. PICK t \in Thread \ {Sched} : thr[t].session = s
      BY <2>2 DEF Used
    <3>2. Worker(t) /\ Present /\ Unended(s)
      BY <2>1, <2>2 DEF Worker, Used, Unended
    <3> QED
      BY <3>1, <3>2, Unexpired
  <2> QED
    BY <2>1, <2>2 DEF Life
<1>3. \A s \in Session : Life(s)' = IF s \in S THEN "forgotten" ELSE Life(s)
  BY <1>1 DEF Life, IInv, RowsBorn
<1>4. Users' = Users
  BY <1>1 DEF Users, Used
<1> HIDE DEF S
<1>5. S \in SUBSET Session
  BY DEF S
<1>6. /\ \A s \in S : Lives[s] = "ended" \/ (Lives[s] = "open" /\ s \notin Users)
      /\ Lives' = [s \in Session |-> IF s \in S THEN "forgotten" ELSE Lives[s]]
  BY <1>2, <1>3, <1>5 DEF Lives, Users
<1>7. Abstract!Forget(S)
  BY <1>4, <1>6 DEF Lives, Users, Abstract!Forget
<1> QED
  BY <1>5, <1>7 DEF Abstract!Next

\* Through restarts, deletions of the channel and threads that share a session,
\* the rows of recording_sessions are opened once, end at most once for good, and
\* go only when they ended or when no check or capture works for them.
THEOREM SessionsImplement == Spec => ImplementsSessionLife
<1>1. Init => Abstract!Init /\ Types /\ IInv
  BY AbstractInit, TypesInit, InvInit
<1>2. Types /\ IInv /\ [Next]_vars => Types' /\ IInv'
  BY TypesNext, InvNext
<1>3. Types /\ IInv /\ [Next]_vars => [Abstract!Next]_(Abstract!vars)
  <2> SUFFICES ASSUME Types, IInv, [Next]_vars
               PROVE  Abstract!Next \/ UNCHANGED Abstract!vars
    OBVIOUS
  <2>1. CASE UNCHANGED vars
    BY <2>1 DEF vars, Abstract!vars, Life, Used, Present
  <2>2. ASSUME born' = born, row' = row PROVE Abstract!Next
    BY <2>2, WorkStep DEF Life
  <2>3. ASSUME NEW t \in Thread, Form(t) PROVE Abstract!Next
    <3>1. born' = born
      BY <2>3 DEF Form, Plain, Transits, Finishes, Keeps
    <3>2. \A s \in Session : Life(s)' = Life(s)
      BY <2>3, <3>1, RowsKept DEF Life
    <3> QED
      BY <3>2, WorkStep
  <2>4. ASSUME NEW s \in Session, Age(s) PROVE Abstract!Next
    <3>1. \A r \in Session \ {s} : row'[r] = row[r]
      BY <2>4, AgeTyped DEF Types, TypeOK
    <3>2. row[s] # None /\ row'[s] # None
      <4>1. row'[s] \in Row
        BY <2>4, AgeTyped
      <4> QED
        BY <2>4, <4>1, NoneAssumption DEF Age
    <3>3. \A r \in Session : Life(r)' = Life(r)
      BY <2>4, <3>1, <3>2, AgeTyped DEF Life, Age
    <3> QED
      BY <3>3, WorkStep
  <2>5. ASSUME NEW t \in Prober, OpenSession(t) \/ StartCapture(t) PROVE Abstract!Next
    BY <2>2, <2>5 DEF OpenSession, StartCapture
  <2>6. CASE DeleteChannel \/ Crash \/ \E s \in Session : ProcessExit(s)
    BY <2>2, <2>6 DEF DeleteChannel, Crash, ProcessExit
  <2> QED
    BY <2>1, <2>3, <2>4, <2>5, <2>6, StepForms, WrittenStep, CreateStep, PruneStep
<1> QED
  BY <1>1, <1>2, <1>3, PTL DEF Spec, ImplementsSessionLife, Abstract!Spec
=============================================================================
