------------------------- MODULE SessionProcessProofs -------------------------
(***************************************************************************)
(* What TLAPS proves of the processes that the rows of RecordingSessions   *)
(* name: before a restart, and while the channel exists, each of them has  *)
(* a thread that still answers for it.                                     *)
(*                                                                         *)
(* The phase of a session, and with it the process it names, is kept three *)
(* times: in the object, in the write on its way, and in the row.  Each    *)
(* copy is accounted for by what one thread is about to do.                *)
(***************************************************************************)
EXTENDS RecordingSessionsProofs

\* Thread t, at m, is recording session s, or is about to: the object may name
\* a process.
Carries(t, m, s) ==
  /\ m.session = s
  /\ \/ t \in Prober /\ (m.pc = "spawn" \/ (m.pc = "write" /\ m.then = "spawn"))
     \/ t \in Session /\ m.pc \in {"wait", "finalize", "settle"}

\* ... or the thread is about to write that there is no process any more.
Accounts(t, m, s) ==
  \/ Carries(t, m, s)
  \/ /\ m.session = s
     /\ \/ t \in Session /\ m.pc \in {"settled", "write"}
        \/ t = Sched /\ (m.pc = "recovering" \/ (m.pc = "write" /\ m.data.ends))

\* the writes that name a process: of a launch, and of a recovery that met one
NamesRightly(t, m) ==
  m.pc = "write" /\ m.data.pid =>
    (t \in Prober /\ m.then = "spawn") \/ (t = Sched /\ m.then = "recovering")

Young(r) == r.updated = "recent" /\ r.ended # "old"

ProbersMove == \A t \in Prober : thr[t].pc # "wait"
\* No row grows old, or is missing, under a check.
RowsYoung == \A t \in Prober, s \in Session :
  Worker(t) /\ thr[t].session = s /\ thr[t].pc # "insert" =>
    s \in born /\ row[s] # None /\ Young(row[s])
ObjCarried == \A s \in Session : obj[s].pid => \E t \in Thread : Carries(t, thr[t], s)
WritesRight == \A t \in Thread : NamesRightly(t, thr[t])
RowsAccounted == \A s \in Session :
  row[s] # None /\ row[s].pid => \E t \in Thread : Accounts(t, thr[t], s)

Traced == ObjCarried /\ WritesRight /\ RowsAccounted
PidInv == ProbersMove /\ (crashes = 0 /\ Present => RowsYoung /\ Traced)

-----------------------------------------------------------------------------
(* A step of one thread                                                    *)

\* Thread t steps to m, and no process is left without a thread.
Steps(t, m) ==
  /\ thr[t].pc # "insert"
  /\ m \in Local /\ thr' = [thr EXCEPT ![t] = m]
  /\ \A s \in Session : obj'[s].pid => obj[s].pid \/ Carries(t, m, s)
  /\ \A s \in Session : row'[s] # None /\ row'[s].pid =>
       (row[s] # None /\ row[s].pid) \/ Accounts(t, m, s)
  /\ \A s \in Session : Carries(t, thr[t], s) /\ obj'[s].pid => Carries(t, m, s)
  /\ \A s \in Session : Accounts(t, thr[t], s) /\ row'[s] # None /\ row'[s].pid =>
       Accounts(t, m, s)
  /\ NamesRightly(t, m)

LEMMA StepsTrace ==
  ASSUME Types, Traced, NEW t \in Thread, NEW m \in Local, Steps(t, m)
  PROVE  Traced'
<1>1. thr'[t] = m /\ \A u \in Thread \ {t} : thr'[u] = thr[u]
  BY DEF Steps, Types, TypeOK
<1>2. ObjCarried'
  <2> SUFFICES ASSUME NEW s \in Session, obj'[s].pid
               PROVE  \E u \in Thread : Carries(u, thr'[u], s)
    BY DEF ObjCarried
  <2>1. CASE Carries(t, m, s)
    BY <2>1, <1>1
  <2>2. CASE ~Carries(t, m, s)
    <3>1. obj[s].pid
      BY <2>2 DEF Steps
    <3>2. PICK u \in Thread : Carries(u, thr[u], s)
      BY <3>1 DEF Traced, ObjCarried
    <3>3. u # t
      BY <3>2, <2>2 DEF Steps
    <3> QED
      BY <3>2, <3>3, <1>1
  <2> QED
    BY <2>1, <2>2
<1>3. WritesRight'
  <2> SUFFICES ASSUME NEW u \in Thread PROVE NamesRightly(u, thr'[u])
    BY DEF WritesRight
  <2>1. CASE u = t
    BY <2>1, <1>1 DEF Steps
  <2>2. CASE u # t
    BY <2>2, <1>1 DEF Traced, WritesRight
  <2> QED
    BY <2>1, <2>2
<1>4. RowsAccounted'
  <2> SUFFICES ASSUME NEW s \in Session, row'[s] # None, row'[s].pid
               PROVE  \E u \in Thread : Accounts(u, thr'[u], s)
    BY DEF RowsAccounted
  <2>1. CASE Accounts(t, m, s)
    BY <2>1, <1>1
  <2>2. CASE ~Accounts(t, m, s)
    <3>1. row[s] # None /\ row[s].pid
      BY <2>2 DEF Steps
    <3>2. PICK u \in Thread : Accounts(u, thr[u], s)
      BY <3>1 DEF Traced, RowsAccounted
    <3>3. u # t
      BY <3>2, <2>2 DEF Steps
    <3> QED
      BY <3>2, <3>3, <1>1
  <2> QED
    BY <2>1, <2>2
<1> QED
  BY <1>2, <1>3, <1>4 DEF Traced

\* where a thread that does not record, nor is about to write, may be
Calm == Pc \ {"insert", "spawn", "write", "wait", "finalize", "settle"}

LEMMA CalmSteps ==
  ASSUME Types, NEW t \in Thread, NEW m \in Local, thr' = [thr EXCEPT ![t] = m],
         thr[t].pc \in Calm \ {"settled", "recovering"}, m.pc # "write", obj' = obj, Touch
  PROVE  Steps(t, m)
<1>1. \A s \in Session : ~Carries(t, thr[t], s) /\ ~Accounts(t, thr[t], s)
  BY DEF Carries, Accounts, Calm
<1>2. \A s \in Session : row'[s] # None /\ row'[s].pid => row[s] # None /\ row[s].pid
  <2>1. CASE row' = row
    BY <2>1
  <2>2. CASE \E s \in Session : row[s] # None /\ row' = [row EXCEPT ![s].updated = "recent"]
    <3>1. PICK e \in Session : row[e] # None /\ row' = [row EXCEPT ![e].updated = "recent"]
      BY <2>2
    <3>2. row[e] \in Row /\ row'[e].pid = row[e].pid /\ \A s \in Session \ {e} : row'[s] = row[s]
      BY <3>1 DEF Types, TypeOK, Row
    <3> QED
      BY <3>1, <3>2
  <2> QED
    BY <2>1, <2>2 DEF Touch
<1>3. NamesRightly(t, m) /\ thr[t].pc # "insert"
  BY DEF NamesRightly, Calm
<1> QED
  BY <1>1, <1>2, <1>3 DEF Steps

LEMMA GotoSteps ==
  ASSUME Types, NEW t \in Thread, NEW p \in Pc \ {"write"}, Goto(t, p),
         thr[t].pc \in Calm \ {"settled", "recovering"}, obj' = obj, Touch
  PROVE  \E m \in Local : Steps(t, m)
<1>1. thr[t].session \in Session \cup {None}
  BY DEF Types, TypeOK, Local
<1>2. At(p, thr[t].session) \in Local /\ At(p, thr[t].session).pc # "write"
  BY <1>1, LocalsAre
<1>3. thr' = [thr EXCEPT ![t] = At(p, thr[t].session)]
  BY DEF Goto, Become
<1> QED
  BY <1>2, <1>3, CalmSteps

LEMMA LeaveSteps ==
  ASSUME Types, NEW t \in Thread, Leave(t),
         thr[t].pc \in Calm \ {"settled", "recovering"}, obj' = obj, Touch
  PROVE  \E m \in Local : Steps(t, m)
<1> DEFINE m == IF t \in Session THEN At("pop", t) ELSE Idle
<1>1. m \in Local /\ m.pc # "write"
  BY LocalsAre DEF Pc
<1>2. thr' = [thr EXCEPT ![t] = m]
  BY DEF Leave, Become
<1> HIDE DEF m
<1> QED
  BY <1>1, <1>2, CalmSteps

\* an end writes that there is no process
LEMMA EndSteps ==
  ASSUME Types, NEW t \in Thread, NEW o \in Outcome, End(t, thr[t].session, o),
         thr[t].session \in Session, thr[t].pc \in Calm, row' = row
  PROVE  \E m \in Local : Steps(t, m)
<1> DEFINE e == thr[t].session
           d == [status |-> o, pid |-> FALSE, ends |-> TRUE]
           m == [pc |-> "write", session |-> e, then |-> "close", data |-> d]
<1>1. d \in Write /\ d.pid = FALSE /\ d.ends = TRUE
  BY DEF Write, Status, Outcome
<1>2. m \in Local /\ m.pc = "write" /\ m.session = e /\ ~m.data.pid /\ m.data.ends
  BY <1>1 DEF Local, Pc
<1>3. thr' = [thr EXCEPT ![t] = m]
  BY DEF End, Become
<1>4. \A s \in Session : obj'[s].pid = obj[s].pid
  BY DEF End, Types, TypeOK
<1> HIDE DEF m, d
<1>5. \A s \in Session : ~Carries(t, thr[t], s)
  BY DEF Carries, Calm
<1>6. \A s \in Session : Accounts(t, thr[t], s) => Accounts(t, m, s)
  BY <1>2 DEF Accounts, Carries, Calm
<1>7. NamesRightly(t, m) /\ thr[t].pc # "insert"
  BY <1>2 DEF NamesRightly, Calm
<1> QED
  BY <1>2, <1>3, <1>4, <1>5, <1>6, <1>7 DEF Steps

\* a transition that keeps what the object says of a process: nothing, but at a
\* recovery
LEMMA TransitionSteps ==
  ASSUME Types, NEW t \in Thread, NEW phase \in Status, NEW next \in Pc,
         thr[t].session \in Session,
         Transition(t, thr[t].session, phase, obj[thr[t].session].pid, next),
         thr[t].pc \in Calm \ {"recovering"}, row' = row,
         obj[thr[t].session].pid => t = Sched /\ next = "recovering"
  PROVE  \E m \in Local : Steps(t, m)
<1> DEFINE e == thr[t].session
           d == [status |-> DomainStatus(e, phase), pid |-> obj[e].pid, ends |-> FALSE]
           m == [pc |-> "write", session |-> e, then |-> next, data |-> d]
<1>1. obj[e] \in [status : {"active"} \cup Terminal, pid : BOOLEAN]
  BY DEF Types, TypeOK
<1>2. d \in Write /\ d.pid = obj[e].pid
  BY <1>1 DEF Write, DomainStatus, Status
<1>3. m \in Local /\ m.pc = "write" /\ m.session = e /\ m.then = next /\ m.data.pid = obj[e].pid
  BY <1>2 DEF Local, Pc
<1>4. thr' = [thr EXCEPT ![t] = m]
  BY DEF Transition, Become
<1>5. \A s \in Session : obj'[s].pid = obj[s].pid
  BY DEF Transition, Types, TypeOK
<1> HIDE DEF m, d
<1>6. \A s \in Session : ~Carries(t, thr[t], s)
  BY DEF Carries, Calm
<1>7. \A s \in Session : Accounts(t, thr[t], s) => Accounts(t, m, s)
  BY <1>3 DEF Accounts, Carries, Calm
<1>8. NamesRightly(t, m) /\ thr[t].pc # "insert"
  BY <1>3 DEF NamesRightly, Calm
<1> QED
  BY <1>3, <1>4, <1>5, <1>6, <1>7, <1>8 DEF Steps

\* While one handler works for a session, no other is recording it: its object
\* names no process.
LEMMA NoProcess ==
  ASSUME Types, IInv, Traced, NEW t \in Thread, Worker(t),
         thr[t].session \in Session, thr[t].pc \in Calm
  PROVE  ~obj[thr[t].session].pid
<1> SUFFICES ASSUME obj[thr[t].session].pid PROVE FALSE
  OBVIOUS
<1>1. PICK u \in Thread : Carries(u, thr[u], thr[t].session)
  BY DEF Traced, ObjCarried
<1>2. u # t /\ thr[u].session = thr[t].session /\ thr[t].session # None
  BY <1>1, SessionAssumption DEF Carries, Calm, Thread
<1>3. Sched \in {t, u} /\ Closing
  BY <1>2 DEF IInv, Shared
<1>4. t # Sched
  BY <1>3 DEF Worker
<1>5. u = Sched /\ u \notin Session
  BY <1>3, <1>4, SessionAssumption DEF Prober
<1>6. PlacedAt(u, thr[u])
  BY DEF Types, Placed
<1> QED
  BY <1>1, <1>3, <1>5, <1>6 DEF Carries, Closing, Ending, PlacedAt

-----------------------------------------------------------------------------
(* The handlers' steps                                                     *)

LEMMA CheckSteps ==
  ASSUME Types, IInv, Traced, NEW k \in Prober,
         \/ CheckLoad(k) \/ CheckBegin(k) \/ CheckTransitions(k) \/ CheckResolve(k)
         \/ CheckOnline(k) \/ TriggerCheck(k)
  PROVE  \E m \in Local : Steps(k, m)
<1>1. k \in Thread /\ PlacedAt(k, thr[k])
  BY DEF Thread, Types, Placed
<1>2. CASE TriggerCheck(k) \/ CheckLoad(k)
  <2>1. /\ thr[k].pc \in {"idle", "load"} /\ obj' = obj /\ Touch
        /\ Leave(k) \/ \E p \in {"load", "begin"} : Goto(k, p)
    BY <1>2 DEF TriggerCheck, CheckLoad, Touch
  <2> QED
    BY <2>1, <1>1, GotoSteps, LeaveSteps DEF Calm, Pc
<1>3. CASE CheckBegin(k)
  <2>1. thr[k].pc = "begin" /\ obj' = obj /\ Touch
    BY <1>3 DEF CheckBegin, Touch
  <2>2. CASE Leave(k)
    BY <2>1, <2>2, <1>1, LeaveSteps DEF Calm, Pc
  <2>3. CASE Become(k, [At("publish", None) EXCEPT !.then = "opened"])
    <3> DEFINE m == [At("publish", None) EXCEPT !.then = "opened"]
    <3>1. At("publish", None) \in Local /\ At("publish", None).pc = "publish"
      BY LocalsAre DEF Pc
    <3>2. m \in Local /\ m.pc # "write"
      BY <3>1 DEF Local, Pc
    <3>3. thr' = [thr EXCEPT ![k] = m]
      BY <2>3 DEF Become
    <3> HIDE DEF m
    <3> QED
      BY <2>1, <3>2, <3>3, <1>1, CalmSteps DEF Calm, Pc
  <2> QED
    BY <1>3, <2>2, <2>3 DEF CheckBegin
<1>4. CASE CheckTransitions(k)
  <2> DEFINE s == thr[k].session
  <2>1. PICK phase \in {"probing", "resolving_source"}, next \in {"probing", "resolve"} :
          /\ thr[k].pc \in {"opened", "probing"} /\ row' = row
          /\ Transition(k, s, phase, obj[s].pid, next)
    BY <1>4 DEF CheckTransitions
  <2>2. s \in Session /\ Worker(k) /\ thr[k].pc \in Calm \ {"recovering"}
    BY <2>1, <1>1 DEF PlacedAt, Working, Pc, Worker, Closing, Ending, Calm
  <2>3. ~obj[s].pid
    BY <2>2, <1>1, NoProcess
  <2> QED
    BY <2>1, <2>2, <2>3, <1>1, TransitionSteps DEF Status, Pc
<1>5. CASE CheckResolve(k)
  <2>1. thr[k].pc = "resolve" /\ thr[k].session \in Session /\ thr[k].pc \in Calm
    BY <1>1, <1>5 DEF CheckResolve, PlacedAt, Working, Pc, Calm
  <2>2. \/ obj' = obj /\ Touch /\ (Leave(k) \/ \E p \in {"online", "nourl"} : Goto(k, p))
        \/ row' = row /\ \E o \in {"aborted", "failed"} : End(k, thr[k].session, o)
    BY <1>5, <2>1 DEF CheckResolve, AttachSource, Touch
  <2> QED
    BY <2>1, <2>2, <1>1, GotoSteps, LeaveSteps, EndSteps DEF Pc, Outcome, Terminal
<1>6. CASE CheckOnline(k)
  <2>1. /\ thr[k].pc \in {"online", "nourl"} /\ obj' = obj /\ Touch
        /\ Leave(k) \/ \E p \in {"start", "nosource"} : Goto(k, p)
    BY <1>6 DEF CheckOnline, Touch
  <2> QED
    BY <2>1, <1>1, GotoSteps, LeaveSteps DEF Calm, Pc
<1> QED
  BY <1>2, <1>3, <1>4, <1>5, <1>6

LEMMA StartSteps ==
  ASSUME Types, NEW k \in Prober, StartNoSource(k) \/ StartProcess(k) \/ StartLaunch(k)
  PROVE  \E m \in Local : Steps(k, m)
<1> DEFINE e == thr[k].session
<1>1. /\ k \in Thread /\ thr[k].pc \in {"nosource", "start", "launch"} /\ thr[k].pc \in Calm
      /\ row' = row
  BY DEF Thread, StartNoSource, StartProcess, StartLaunch, Calm, Pc
<1>2. e \in Session
  BY <1>1 DEF Types, Placed, PlacedAt, Working, Pc
<1>3. CASE \E o \in {"failed", "aborted"} : End(k, e, o)
  BY <1>1, <1>2, <1>3, EndSteps DEF Outcome, Terminal
<1>4. CASE obj' = obj /\ (Goto(k, "launch") \/ Leave(k))
  <2>1. Touch /\ "launch" \in Pc \ {"write"} /\ thr[k].pc \in Calm \ {"settled", "recovering"}
    BY <1>1 DEF Touch, Pc
  <2> QED
    BY <1>1, <1>4, <2>1, GotoSteps, LeaveSteps
<1>5. CASE Transition(k, e, "recording", TRUE, "spawn")
  <2> DEFINE d == [status |-> DomainStatus(e, "recording"), pid |-> TRUE, ends |-> FALSE]
             m == [pc |-> "write", session |-> e, then |-> "spawn", data |-> d]
  <2>1. obj[e].status \in {"active"} \cup Terminal
    BY <1>2 DEF Types, TypeOK
  <2>2. d \in Write
    BY <2>1 DEF Write, DomainStatus, Status
  <2>3. m \in Local /\ m.pc = "write" /\ m.session = e /\ m.then = "spawn"
    BY <1>2, <2>2 DEF Local, Pc
  <2>4. thr' = [thr EXCEPT ![k] = m]
    BY <1>5 DEF Transition, Become
  <2>5. \A s \in Session : obj'[s].pid => obj[s].pid \/ s = e
    BY <1>2, <1>5 DEF Transition, Types, TypeOK
  <2> HIDE DEF m, d
  <2>6. Carries(k, m, e) /\ NamesRightly(k, m)
    BY <2>3 DEF Carries, NamesRightly
  <2>7. \A s \in Session : ~Carries(k, thr[k], s) /\ ~Accounts(k, thr[k], s)
    BY <1>1 DEF Carries, Accounts
  <2> QED
    BY <1>1, <2>3, <2>4, <2>5, <2>6, <2>7 DEF Steps
<1> QED
  BY <1>3, <1>4, <1>5 DEF StartNoSource, StartProcess, StartLaunch

LEMMA CaptureSteps ==
  ASSUME Types, IInv, Traced, Present', NEW t \in Session, CaptureStep(t)
  PROVE  \E m \in Local : Steps(t, m)
<1>1. t \in Thread /\ t # Sched /\ PlacedAt(t, thr[t])
  BY SessionAssumption DEF Thread, Prober, Types, Placed
<1>2. CASE CaptureWait(t) \/ CaptureLoad(t)
  <2>1. PICK p \in {"finalize", "settle"} : /\ Goto(t, p) /\ obj' = obj /\ row' = row
                                           /\ thr[t].pc \in {"wait", "finalize"}
    BY <1>2 DEF CaptureWait, CaptureLoad, Present
  <2> DEFINE m == At(p, t)
  <2>2. thr[t].session = t
    BY <2>1, <1>1 DEF PlacedAt
  <2>3. m \in Local /\ m.pc = p /\ m.session = t
    BY LocalsAre DEF Pc
  <2>4. thr' = [thr EXCEPT ![t] = m]
    BY <2>1, <2>2 DEF Goto, Become
  <2> HIDE DEF m
  <2>5. /\ \A s \in Session : Carries(t, thr[t], s) \/ Accounts(t, thr[t], s) => Carries(t, m, s)
        /\ NamesRightly(t, m)
    BY <2>2, <2>3 DEF Carries, Accounts, NamesRightly
  <2> QED
    BY <2>1, <2>3, <2>4, <2>5 DEF Steps, Accounts
<1>3. CASE CaptureSettle(t)
  <2>1. /\ thr[t].pc = "settle" /\ row' = row
        /\ obj' = [obj EXCEPT ![t].pid = FALSE] /\ Goto(t, "settled")
    BY <1>3 DEF CaptureSettle, Present
  <2> DEFINE m == At("settled", t)
  <2>2. thr[t].session = t
    BY <2>1, <1>1 DEF PlacedAt
  <2>3. m \in Local /\ m.pc = "settled" /\ m.session = t
    BY LocalsAre DEF Pc
  <2>4. thr' = [thr EXCEPT ![t] = m]
    BY <2>1, <2>2 DEF Goto, Become
  <2> HIDE DEF m
  <2>5. \A s \in Session : obj'[s].pid => obj[s].pid /\ s # t
    BY <2>1 DEF Types, TypeOK
  <2>6. \A s \in Session : Carries(t, thr[t], s) \/ Accounts(t, thr[t], s) => s = t
    BY <2>2 DEF Carries, Accounts
  <2>7. Accounts(t, m, t) /\ NamesRightly(t, m)
    BY <2>3 DEF Accounts, NamesRightly
  <2> QED
    BY <2>1, <2>3, <2>4, <2>5, <2>6, <2>7 DEF Steps
<1>4. CASE CaptureBranch(t) \/ CaptureConvert(t)
  <2>1. /\ thr[t].pc \in {"settled", "convert", "salvage"} /\ row' = row
        /\ \/ \E phase \in {"converting", "resolving_source"}, next \in {"convert", "salvage", "retry"} :
                 Transition(t, t, phase, obj[t].pid, next)
           \/ \E o \in Outcome : End(t, t, o)
    BY <1>4 DEF CaptureBranch, CaptureConvert, Outcome, Terminal
  <2>2. thr[t].session = t /\ Worker(t) /\ thr[t].pc \in Calm \ {"recovering"}
    BY <2>1, <1>1 DEF PlacedAt, Worker, Calm, Pc
  <2>3. ~obj[t].pid
    BY <2>2, <1>1, NoProcess
  <2>4. {"converting", "resolving_source"} \subseteq Status
        /\ {"convert", "salvage", "retry"} \subseteq Pc
    BY DEF Status, Pc
  <2> QED
    BY <2>1, <2>2, <2>3, <2>4, <1>1, TransitionSteps, EndSteps
<1>5. CASE CaptureRetry(t)
  <2>1. thr[t].pc = "retry" /\ thr[t].session = t /\ thr[t].pc \in Calm \ {"settled", "recovering"}
    BY <1>5, <1>1 DEF CaptureRetry, PlacedAt, Calm, Pc
  <2>2. \/ obj' = obj /\ Touch /\ (Leave(t) \/ Goto(t, "start"))
        \/ row' = row /\ End(t, t, "failed")
    BY <1>5, <2>1 DEF CaptureRetry, AttachSource, Touch
  <2> QED
    BY <2>1, <2>2, <1>1, GotoSteps, LeaveSteps, EndSteps DEF Pc, Outcome, Terminal
<1>6. CASE CapturePop(t)
  <2>1. thr[t].pc = "pop" /\ obj' = obj /\ Touch /\ thr' = [thr EXCEPT ![t] = Idle]
    BY <1>6 DEF CapturePop, Touch, Become
  <2>2. thr[t].pc \in Calm \ {"settled", "recovering"}
    BY <2>1 DEF Calm, Pc
  <2>3. Idle \in Local /\ Idle.pc # "write"
    BY LocalsAre
  <2> QED
    BY <2>1, <2>2, <2>3, <1>1, CalmSteps
<1> QED
  BY <1>2, <1>3, <1>4, <1>5, <1>6 DEF CaptureStep

LEMMA SchedSteps ==
  ASSUME Types, Present', Sweep \/ SchedStep
  PROVE  \E m \in Local : Steps(Sched, m)
<1>1. Sched \in Thread /\ PlacedAt(Sched, thr[Sched])
  BY DEF Thread, Prober, Types, Placed
<1>2. CASE Sweep
  <2>1. thr[Sched].pc = "idle" /\ Touch /\ obj' = obj /\ Goto(Sched, "tick")
    BY <1>2 DEF Sweep, Touch
  <2> QED
    BY <2>1, <1>1, GotoSteps DEF Calm, Pc
<1>3. CASE Tick
  <2>1. /\ thr[Sched].pc = "tick" /\ Touch /\ obj' = obj
        /\ thr[Sched].pc \in Calm \ {"settled", "recovering"}
    BY <1>3 DEF Tick, Touch, Calm, Pc
  <2>2. CASE \E p \in {"stalled", "recover"} :
               current # None /\ Become(Sched, At(p, current))
    <3>1. PICK p \in {"stalled", "recover"} :
                 current # None /\ Become(Sched, At(p, current))
      BY <2>2
    <3>2. At(p, current) \in Local /\ At(p, current).pc # "write"
      BY LocalsAre DEF Pc, Types, TypeOK
    <3> QED
      BY <2>1, <3>1, <3>2, <1>1, CalmSteps DEF Become
  <2>3. CASE Become(Sched, [At("publish", None) EXCEPT !.then = "recover"])
    <3> DEFINE m == [At("publish", None) EXCEPT !.then = "recover"]
    <3>1. At("publish", None) \in Local /\ At("publish", None).pc = "publish"
      BY LocalsAre DEF Pc
    <3>2. m \in Local /\ m.pc # "write"
      BY <3>1 DEF Local, Pc
    <3>3. thr' = [thr EXCEPT ![Sched] = m]
      BY <2>3 DEF Become
    <3> HIDE DEF m
    <3> QED
      BY <2>1, <3>2, <3>3, <1>1, CalmSteps
  <2>4. CASE Goto(Sched, "load") \/ Leave(Sched)
    BY <2>1, <2>4, <1>1, GotoSteps, LeaveSteps DEF Pc
  <2> QED
    BY <1>3, <2>2, <2>3, <2>4 DEF Tick
<1>4. CASE TickStalled \/ TickRecovered
  <2>1. /\ thr[Sched].pc \in {"stalled", "recovering"} /\ row' = row
        /\ \E o \in Outcome : End(Sched, thr[Sched].session, o)
    BY <1>4 DEF TickStalled, TickRecovered, Outcome, Terminal, Present
  <2> QED
    BY <2>1, <1>1, EndSteps DEF PlacedAt, Working, Calm, Pc
<1>5. CASE TickRecover
  <2> DEFINE s == thr[Sched].session
  <2>1. /\ thr[Sched].pc = "recover" /\ row' = row
        /\ Transition(Sched, s, "recovering", obj[s].pid, "recovering")
    BY <1>5 DEF TickRecover
  <2>2. s \in Session /\ thr[Sched].pc \in Calm \ {"recovering"}
    BY <2>1, <1>1 DEF PlacedAt, Working, Calm, Pc
  <2> QED
    BY <2>1, <2>2, <1>1, TransitionSteps DEF Status, Pc
<1> QED
  BY <1>2, <1>3, <1>4, <1>5 DEF SchedStep

\* the steps that any handler's thread takes
LEMMA ReturnSteps ==
  ASSUME Types, NEW t \in Thread, CloseSession(t) \/ StartRefused(t)
  PROVE  \E m \in Local : Steps(t, m)
<1>1. /\ thr[t].pc \in {"close", "start", "nosource"} /\ Leave(t) /\ obj' = obj /\ Touch
  BY DEF CloseSession, StartRefused, Touch
<1>2. thr[t].pc \in Calm \ {"settled", "recovering"}
  BY <1>1 DEF Calm, Pc
<1> QED
  BY <1>1, <1>2, LeaveSteps

\* A write without a row: the row of a recording that is launched is there.
LEMMA LostSteps ==
  ASSUME Types, RowsYoung, NEW t \in Thread, WriteSession(t), row[thr[t].session] = None
  PROVE  \E m \in Local : Steps(t, m)
<1> DEFINE e == thr[t].session
           m == IF t \in Session THEN At("pop", t) ELSE Idle
<1>1. thr[t].pc = "write" /\ PlacedAt(t, thr[t]) /\ e \in Session
  BY DEF WriteSession, Types, Placed, PlacedAt, Working, Pc
<1>2. obj' = obj /\ row' = row /\ Leave(t)
  BY DEF WriteSession
<1>3. m \in Local /\ m.pc # "write"
  BY LocalsAre DEF Pc
<1>4. thr' = [thr EXCEPT ![t] = m]
  BY <1>2 DEF Leave, Become
<1> HIDE DEF m
<1>5. ~(t \in Prober /\ thr[t].then = "spawn")
  <2> SUFFICES ASSUME t \in Prober, thr[t].then = "spawn" PROVE FALSE
    OBVIOUS
  <2>1. Worker(t)
    BY <1>1 DEF Worker, Closing, Ending, PlacedAt
  <2> QED
    BY <2>1, <1>1 DEF RowsYoung
<1>6. \A s \in Session : ~Carries(t, thr[t], s)
  BY <1>1, <1>5 DEF Carries
<1>7. \A s \in Session : Accounts(t, thr[t], s) => row[s] = None
  BY <1>6 DEF Accounts
<1>8. NamesRightly(t, m) /\ thr[t].pc # "insert"
  BY <1>1, <1>3 DEF NamesRightly
<1> QED
  BY <1>2, <1>3, <1>4, <1>6, <1>7, <1>8 DEF Steps

LEMMA WrittenSteps ==
  ASSUME Types, Traced, NEW t \in Thread, Written(t)
  PROVE  \E m \in Local : Steps(t, m)
<1> DEFINE e == thr[t].session
           m == At(thr[t].then, e)
<1>1. /\ thr[t].pc = "write" /\ PlacedAt(t, thr[t]) /\ NamesRightly(t, thr[t])
      /\ thr[t].then \in AfterWrite /\ (thr[t].data.ends <=> thr[t].then = "close")
  BY DEF Written, WriteSession, Types, Placed, PlacedAt, Traced, WritesRight
<1>2. e \in Session /\ row[e] \in Row /\ m \in Local /\ m.pc = thr[t].then /\ m.session = e
  BY <1>1, WrittenTyped, LocalsAre DEF AfterWrite, Pc
<1>3. thr' = [thr EXCEPT ![t] = m] /\ obj' = obj
  BY DEF Written, WriteSession, Goto, Become
<1>4. row'[e].pid = thr[t].data.pid /\ \A s \in Session \ {e} : row'[s] = row[s]
  BY <1>2 DEF Written, WriteSession, Types, TypeOK
<1> HIDE DEF m
<1>5. \A s \in Session : Carries(t, thr[t], s) => Carries(t, m, s)
  <2> SUFFICES ASSUME NEW s \in Session, Carries(t, thr[t], s) PROVE Carries(t, m, s)
    OBVIOUS
  <2>1. s = e /\ t \in Prober /\ thr[t].then = "spawn"
    BY <1>1 DEF Carries
  <2> QED
    BY <2>1, <1>2 DEF Carries
<1>6. \A s \in Session : thr[t].data.pid /\ s = e => Accounts(t, m, s)
  BY <1>1, <1>2 DEF NamesRightly, Accounts, Carries
<1>7. \A s \in Session : Accounts(t, thr[t], s) => s = e
  BY DEF Accounts, Carries
<1>8. NamesRightly(t, m) /\ thr[t].pc # "insert"
  BY <1>1, <1>2 DEF NamesRightly, AfterWrite
<1> QED
  BY <1>2, <1>3, <1>4, <1>5, <1>6, <1>7, <1>8 DEF Steps

\* every step is one of a thread, or one of these
LEMMA StepsAre ==
  ASSUME Types, IInv, RowsYoung, Traced, Present', Next
  PROVE  \/ \E t \in Thread, m \in Local : Steps(t, m) /\ (Form(t) \/ Written(t))
         \/ \E t \in Prober : OpenSession(t) \/ CreateSession(t) \/ StartCapture(t)
         \/ \E s \in Session : ProcessExit(s) \/ Age(s)
         \/ Prune \/ DeleteChannel \/ Crash
<1>1. Prober \subseteq Thread /\ Session \subseteq Thread /\ Sched \in Thread /\ Checker \subseteq Prober
  BY DEF Thread, Prober
<1>2. ASSUME NEW t \in Thread, SessionStep(t)
      PROVE  \/ (\E m \in Local : Steps(t, m)) /\ (Form(t) \/ Written(t))
             \/ t \in Prober /\ (OpenSession(t) \/ CreateSession(t))
  <2>1. CASE WriteSession(t)
    <3>1. CASE Written(t)
      BY <3>1, WrittenSteps
    <3>2. CASE row[thr[t].session] = None
      BY <2>1, <3>2, LostForm, LostSteps
    <3> QED
      BY <2>1, <3>1, <3>2 DEF Written
  <2>2. CASE CloseSession(t) \/ StartRefused(t)
    BY <2>2, CloseForm, RefusedForm, ReturnSteps
  <2>3. CASE OpenSession(t) \/ CreateSession(t)
    <3>1. thr[t].pc \in {"publish", "insert"}
      BY <2>3 DEF OpenSession, CreateSession
    <3>2. t \notin Session
      BY <3>1 DEF Types, Placed, PlacedAt, CapturePc
    <3> QED
      BY <2>3, <3>2 DEF Thread
  <2> QED
    BY <1>2, <2>1, <2>2, <2>3 DEF SessionStep
<1>3. ASSUME NEW t \in Prober, ProberStep(t)
      PROVE  ((\E m \in Local : Steps(t, m)) /\ Form(t)) \/ StartCapture(t)
  BY <1>3, CheckForms, StartForms, CheckSteps, StartSteps DEF ProberStep
<1>4. ASSUME NEW t \in Session, CaptureStep(t)
      PROVE  (\E m \in Local : Steps(t, m)) /\ Form(t)
  BY <1>4, CaptureForms, CaptureSteps
<1>5. ASSUME Sweep \/ SchedStep
      PROVE  (\E m \in Local : Steps(Sched, m)) /\ Form(Sched)
  BY <1>5, SchedForms, SchedSteps
<1>6. ASSUME NEW k \in Checker, TriggerCheck(k)
      PROVE  (\E m \in Local : Steps(k, m)) /\ Form(k)
  BY <1>1, <1>6, CheckForms, CheckSteps
<1>7. CASE \E t \in Thread : Work(t)
  <2>1. PICK t \in Thread : Work(t)
    BY <1>7
  <2>2. CASE SessionStep(t)
    BY <2>2, <1>2
  <2>3. CASE t \in Prober /\ ProberStep(t)
    BY <2>3, <1>1, <1>3
  <2>4. CASE t \in Session /\ CaptureStep(t)
    BY <2>4, <1>1, <1>4
  <2>5. CASE SchedStep
    BY <2>5, <1>1, <1>5
  <2> QED
    BY <2>1, <2>2, <2>3, <2>4, <2>5 DEF Work
<1>8. CASE \E k \in Checker : TriggerCheck(k)
  BY <1>1, <1>6, <1>8
<1>9. CASE Sweep
  BY <1>1, <1>5, <1>9
<1> QED
  BY <1>7, <1>8, <1>9 DEF Next

-----------------------------------------------------------------------------
(* Rows under a check stay young                                           *)

\* A step of thread t that keeps young rows young.
LEMMA YoungStep ==
  ASSUME Types, RowsYoung, NEW t \in Thread,
         \A u \in Thread \ {t} : thr'[u] = thr[u],
         born \subseteq born',
         \A s \in Session : row[s] # None /\ Young(row[s]) => row'[s] # None /\ Young(row'[s]),
         \A s \in Session : t \in Prober /\ Worker(t)' /\ thr'[t].session = s /\ thr'[t].pc # "insert" =>
            s \in born' /\ row'[s] # None /\ Young(row'[s])
  PROVE  RowsYoung'
<1> SUFFICES ASSUME NEW k \in Prober, NEW s \in Session,
                    Worker(k)', thr'[k].session = s, thr'[k].pc # "insert"
             PROVE  s \in born' /\ row'[s] # None /\ Young(row'[s])
  BY DEF RowsYoung, Young
<1>1. CASE k = t
  BY <1>1
<1>2. CASE k # t
  <2>1. k \in Thread /\ thr'[k] = thr[k]
    BY <1>2 DEF Thread
  <2>2. Worker(k)
    BY <2>1 DEF Worker, Closing, Ending
  <2>3. s \in born /\ row[s] # None /\ Young(row[s])
    BY <2>1, <2>2 DEF RowsYoung
  <2> QED
    BY <2>3
<1> QED
  BY <1>1, <1>2

LEMMA YoungForm ==
  ASSUME Types, RowsYoung, NEW t \in Thread, Form(t), thr[t].pc # "insert"
  PROVE  RowsYoung'
<1>1. PICK m \in Local :
        /\ Moves(t, m) /\ born' = born /\ Touch
        /\ \/ /\ t = Sched /\ Closing => m.session = None
              /\ m.session \in {thr[t].session, None}
           \/ t = Sched /\ m.pc \in {"stalled", "recover"}
           \/ /\ m.pc = "write" /\ m.session = thr[t].session
              /\ t = Sched /\ Closing => m.then = "recovering" \/ m.data.ends
  BY DEF Form, Plain, Transits, Finishes, Keeps, Touch
<1>2. thr'[t] = m /\ \A u \in Thread \ {t} : thr'[u] = thr[u]
  BY <1>1, MovesTyped
<1>3. \A s \in Session : row[s] # None /\ Young(row[s]) => row'[s] # None /\ Young(row'[s])
  <2>1. CASE row' = row
    BY <2>1
  <2>2. CASE \E s \in Session : row[s] # None /\ row' = [row EXCEPT ![s].updated = "recent"]
    <3>1. PICK e \in Session : row[e] # None /\ row' = [row EXCEPT ![e].updated = "recent"]
      BY <2>2
    <3>2. /\ row[e] \in Row /\ row'[e] = [row[e] EXCEPT !.updated = "recent"]
          /\ \A s \in Session \ {e} : row'[s] = row[s]
      BY <3>1 DEF Types, TypeOK
    <3>3. row'[e] \in Row /\ row'[e].updated = "recent" /\ row'[e].ended = row[e].ended
      BY <3>2 DEF Row
    <3>4. row'[e] # None
      BY <3>3, NoneAssumption
    <3> QED
      BY <3>2, <3>3, <3>4 DEF Young
  <2> QED
    BY <1>1, <2>1, <2>2 DEF Touch
<1>4. ASSUME NEW s \in Session, t \in Prober, Worker(t)', thr'[t].session = s
      PROVE  s \in born' /\ row'[s] # None /\ Young(row'[s])
  <2>1. s # None
    BY SessionAssumption DEF Thread
  <2>2. thr[t].session = s /\ Worker(t)
    BY <1>1, <1>2, <1>4, <2>1 DEF Worker, Closing, Ending
  <2>3. s \in born /\ row[s] # None /\ Young(row[s])
    BY <1>4, <2>2 DEF RowsYoung
  <2> QED
    BY <1>1, <1>3, <2>3
<1> QED
  BY <1>1, <1>2, <1>3, <1>4, YoungStep

LEMMA YoungWritten ==
  ASSUME Types, RowsYoung, NEW t \in Thread, Written(t)
  PROVE  RowsYoung'
<1> DEFINE e == thr[t].session
           m == At(thr[t].then, e)
<1>1. /\ thr[t].pc = "write" /\ born' = born
      /\ thr[t].then \in AfterWrite /\ (thr[t].data.ends <=> thr[t].then = "close")
  BY DEF Written, WriteSession, Types, Placed, PlacedAt
<1>2. /\ e \in Session /\ row[e] \in Row /\ m \in Local /\ m.pc = thr[t].then /\ m.session = e
      /\ Moves(t, m) /\ row' \in [Session -> Row \cup {None}]
  BY <1>1, WrittenTyped, LocalsAre DEF AfterWrite, Pc
<1>3. /\ row'[e] = [status |-> thr[t].data.status, pid |-> thr[t].data.pid, updated |-> "recent",
                    ended |-> IF thr[t].data.ends THEN "recent" ELSE row[e].ended]
      /\ \A s \in Session \ {e} : row'[s] = row[s]
  BY <1>2 DEF Written, WriteSession, Types, TypeOK
<1> HIDE DEF m
<1>4. thr'[t] = m /\ \A u \in Thread \ {t} : thr'[u] = thr[u]
  BY <1>2, MovesTyped
<1>5. row'[e] \in Row
  <2>1. thr[t].data \in Write
    BY DEF Types, TypeOK, Local
  <2> QED
    BY <1>2, <1>3, <2>1 DEF Row, Write
<1>6. \A s \in Session : row[s] # None /\ Young(row[s]) => row'[s] # None /\ Young(row'[s])
  BY <1>3, <1>5, NoneAssumption DEF Young
<1>7. ASSUME NEW s \in Session, t \in Prober, Worker(t)', thr'[t].session = s
      PROVE  s \in born' /\ row'[s] # None /\ Young(row'[s])
  <2>1. thr[t].session = s /\ Worker(t)
    BY <1>1, <1>2, <1>4, <1>7 DEF Worker, Closing, Ending
  <2>2. s \in born /\ row[s] # None /\ Young(row[s])
    BY <1>1, <1>7, <2>1 DEF RowsYoung
  <2> QED
    BY <1>1, <1>6, <2>2
<1> QED
  BY <1>1, <1>4, <1>6, <1>7, YoungStep

-----------------------------------------------------------------------------
(* The other steps                                                         *)

LEMMA OpenTraces ==
  ASSUME Types, RowsYoung, Traced, NEW t \in Prober, OpenSession(t)
  PROVE  RowsYoung' /\ Traced'
<1>1. PICK e \in Session, m \in Local : Moves(t, m) /\ m.pc = "insert" /\ m.session = e
  BY OpenTyped
<1>2. /\ t \in Thread /\ thr[t].pc \in Calm \ {"settled", "recovering"}
      /\ obj' = obj /\ row' = row /\ born' = born
  BY DEF OpenSession, Calm, Pc, Thread
<1>3. thr' = [thr EXCEPT ![t] = m]
  BY <1>1 DEF Moves
<1>4. thr'[t] = m /\ \A u \in Thread \ {t} : thr'[u] = thr[u]
  BY <1>1, <1>2, MovesTyped
<1>5. Steps(t, m)
  BY <1>1, <1>2, <1>3, CalmSteps DEF Touch
<1>6. Traced'
  BY <1>2, <1>5, StepsTrace
<1>7. RowsYoung'
  BY <1>1, <1>2, <1>4, YoungStep
<1> QED
  BY <1>6, <1>7

LEMMA CreateTraces ==
  ASSUME Types, RowsYoung, Traced, NEW t \in Prober, CreateSession(t)
  PROVE  RowsYoung' /\ Traced'
<1> DEFINE e == thr[t].session
           m == At(thr[t].then, e)
<1>1. /\ t \in Thread /\ thr[t].pc = "insert" /\ obj' = obj /\ born' = born \cup {e}
  BY DEF CreateSession, Thread
<1>2. /\ e \in Session /\ m \in Local /\ Moves(t, m) /\ thr[t].then \in {"opened", "recover"}
      /\ row' \in [Session -> Row \cup {None}]
  BY CreateTyped
<1>3. m.pc = thr[t].then
  BY <1>2, LocalsAre DEF Pc
<1> HIDE DEF m
<1>4. thr'[t] = m /\ \A u \in Thread \ {t} : thr'[u] = thr[u]
  BY <1>1, <1>2, MovesTyped
<1>5. /\ row'[e] # None /\ Young(row'[e]) /\ ~row'[e].pid
      /\ \A s \in Session \ {e} : row'[s] = row[s]
  <2> DEFINE r == [status |-> DomainStatus(e, "queued"), pid |-> FALSE, updated |-> "recent",
                   ended |-> IF obj[e].status = "active" THEN "no" ELSE "recent"]
  <2>1. row' = [row EXCEPT ![e] = r]
    BY DEF CreateSession
  <2>2. r \in Row
    BY <1>2 DEF Row, DomainStatus, Status, Types, TypeOK
  <2>3. Young(r) /\ ~r.pid
    BY DEF Young
  <2> HIDE DEF r
  <2> QED
    BY <1>2, <2>1, <2>2, <2>3, NoneAssumption DEF Types, TypeOK
<1>6. RowsYoung'
  <2>1. ASSUME NEW k \in Prober, NEW s \in Session,
               Worker(k)', thr'[k].session = s, thr'[k].pc # "insert"
        PROVE  s \in born' /\ row'[s] # None /\ Young(row'[s])
    <3>1. CASE s = e
      BY <3>1, <1>1, <1>5
    <3>2. CASE s # e
      <4>1. thr'[t].session = e
        BY <1>2, <1>4, LocalsAre DEF Pc, m
      <4>2. k # t /\ k \in Thread
        BY <2>1, <3>2, <4>1 DEF Thread
      <4>3. thr'[k] = thr[k]
        BY <4>2, <1>4
      <4>4. Worker(k)
        BY <2>1, <4>3 DEF Worker, Closing, Ending
      <4>5. s \in born /\ row[s] # None /\ Young(row[s])
        BY <2>1, <4>3, <4>4 DEF RowsYoung
      <4> QED
        BY <4>5, <3>2, <1>1, <1>5
    <3> QED
      BY <3>1, <3>2
  <2> QED
    BY <2>1 DEF RowsYoung, Young
<1>7. \A s \in Session : ~Carries(t, thr[t], s) /\ ~Accounts(t, thr[t], s)
  <2>1. t \notin Session
    BY SessionAssumption
  <2> QED
    BY <1>1, <2>1 DEF Carries, Accounts
<1>8. ObjCarried' /\ RowsAccounted'
  <2>1. ASSUME NEW s \in Session, obj'[s].pid
        PROVE  \E u \in Thread : Carries(u, thr'[u], s)
    BY <2>1, <1>1, <1>4, <1>7 DEF Traced, ObjCarried
  <2>2. ASSUME NEW s \in Session, row'[s] # None, row'[s].pid
        PROVE  \E u \in Thread : Accounts(u, thr'[u], s)
    BY <2>2, <1>4, <1>5, <1>7 DEF Traced, RowsAccounted
  <2> QED
    BY <2>1, <2>2 DEF ObjCarried, RowsAccounted
<1>9. WritesRight'
  <2>1. NamesRightly(t, m)
    BY <1>2, <1>3 DEF NamesRightly
  <2>2. \A u \in Thread : NamesRightly(u, thr'[u])
    BY <2>1, <1>4 DEF Traced, WritesRight
  <2> QED
    BY <2>2 DEF WritesRight
<1> QED
  BY <1>6, <1>8, <1>9 DEF Traced

\* the recording passes from the thread that launched it to the capture thread
LEMMA StartCaptureTraces ==
  ASSUME Types, RowsYoung, Traced, NEW t \in Prober, StartCapture(t)
  PROVE  RowsYoung' /\ Traced'
<1>1. PICK e \in Session : e = thr[t].session
  BY DEF StartCapture, Types, Placed, PlacedAt, Working, Pc, Thread
<1>2. /\ t \in Thread /\ e \in Thread /\ e # t /\ e \notin Prober /\ None \notin Session
      /\ e # Sched /\ t \notin Session
  BY <1>1, SessionAssumption DEF Thread, Prober
<1>3. /\ thr' = [thr EXCEPT ![t] = Idle, ![e] = At("wait", e)]
      /\ obj' = obj /\ row' = row /\ born' = born
  BY <1>1 DEF StartCapture
<1>4. /\ thr'[t] = Idle /\ thr'[e] = At("wait", e)
      /\ \A u \in Thread \ {t, e} : thr'[u] = thr[u]
  BY <1>2, <1>3 DEF Types, TypeOK
<1>5. /\ thr'[t].pc = "idle" /\ thr'[t].session = None
      /\ thr'[e].pc = "wait" /\ thr'[e].session = e
  BY <1>4, LocalsAre DEF Pc
<1>6. RowsYoung'
  <2>1. ASSUME NEW k \in Prober, NEW s \in Session,
               Worker(k)', thr'[k].session = s, thr'[k].pc # "insert"
        PROVE  s \in born' /\ row'[s] # None /\ Young(row'[s])
    <3>1. k \in Thread \ {t, e}
      BY <2>1, <1>2, <1>5 DEF Thread
    <3>2. thr'[k] = thr[k]
      BY <3>1, <1>4
    <3>3. Worker(k)
      BY <2>1, <3>2 DEF Worker, Closing, Ending
    <3> QED
      BY <2>1, <3>2, <3>3, <1>3 DEF RowsYoung
  <2> QED
    BY <2>1 DEF RowsYoung, Young
<1>7. Carries(e, thr'[e], e) /\ Accounts(e, thr'[e], e)
  BY <1>5 DEF Carries, Accounts
<1>8. ASSUME NEW u \in {t, e}, NEW s \in Session, Carries(u, thr[u], s) \/ Accounts(u, thr[u], s)
      PROVE  s = e
  <2>1. thr[u].session = s
    BY <1>8 DEF Carries, Accounts
  <2>2. CASE u = t
    BY <2>1, <2>2, <1>1
  <2>3. CASE u = e
    <3>1. thr[e].pc # "idle"
      BY <1>8, <2>3, <1>2 DEF Carries, Accounts
    <3> QED
      BY <2>1, <2>3, <3>1, <1>2 DEF Types, Placed, PlacedAt
  <2> QED
    BY <2>2, <2>3
<1>9. ObjCarried' /\ RowsAccounted'
  <2>1. ASSUME NEW s \in Session, obj'[s].pid
        PROVE  \E u \in Thread : Carries(u, thr'[u], s)
    <3>1. PICK u \in Thread : Carries(u, thr[u], s)
      BY <2>1, <1>3 DEF Traced, ObjCarried
    <3> QED
      BY <3>1, <1>2, <1>4, <1>7, <1>8
  <2>2. ASSUME NEW s \in Session, row'[s] # None, row'[s].pid
        PROVE  \E u \in Thread : Accounts(u, thr'[u], s)
    <3>1. PICK u \in Thread : Accounts(u, thr[u], s)
      BY <2>2, <1>3 DEF Traced, RowsAccounted
    <3> QED
      BY <3>1, <1>2, <1>4, <1>7, <1>8
  <2> QED
    BY <2>1, <2>2 DEF ObjCarried, RowsAccounted
<1>10. \A u \in Thread : NamesRightly(u, thr'[u])
  BY <1>4, <1>5 DEF NamesRightly, Traced, WritesRight
<1> QED
  BY <1>6, <1>9, <1>10 DEF Traced, WritesRight

\* Time passes where no check is under way, and retention spares young rows.
LEMMA RowTraces ==
  ASSUME Types, ProbersMove, RowsYoung, Traced, Prune \/ \E s \in Session : Age(s)
  PROVE  RowsYoung' /\ Traced'
<1>1. thr' = thr /\ obj' = obj /\ born' = born
  BY DEF Prune, Age
<1>2. \A s \in Session : row'[s] # None /\ row'[s].pid => row[s] # None /\ row[s].pid
  <2>1. CASE Prune
    BY <2>1 DEF Prune
  <2>2. CASE \E s \in Session : Age(s)
    <3>1. PICK e \in Session : Age(e)
      BY <2>2
    <3>2. row[e] \in Row
      BY <3>1 DEF Age, Types, TypeOK
    <3>3. row'[e].pid = row[e].pid /\ \A s \in Session \ {e} : row'[s] = row[s]
      BY <3>1, <3>2 DEF Age, Types, TypeOK, Row
    <3> QED
      BY <3>1, <3>3 DEF Age
  <2> QED
    BY <2>1, <2>2
<1>3. Traced'
  BY <1>1, <1>2 DEF Traced, ObjCarried, WritesRight, RowsAccounted
<1>4. ASSUME NEW k \in Prober, NEW s \in Session, thr[k].session = s, row[s] # None, Young(row[s])
      PROVE  row'[s] # None /\ Young(row'[s])
  <2>1. CASE Prune
    <3>1. ~Expired(row[s])
      BY <1>4 DEF Expired, Young
    <3> QED
      BY <2>1, <3>1, <1>4 DEF Prune
  <2>2. CASE \E e \in Session : Age(e)
    <3>1. PICK e \in Session : Age(e)
      BY <2>2
    <3>2. s # e
      BY <3>1, <1>4 DEF Age, ProbersMove, Thread
    <3>3. row'[s] = row[s]
      BY <3>1, <3>2 DEF Age, Types, TypeOK
    <3> QED
      BY <3>3, <1>4
  <2> QED
    BY <2>1, <2>2
<1>5. ASSUME NEW k \in Prober, NEW s \in Session,
             Worker(k)', thr'[k].session = s, thr'[k].pc # "insert"
      PROVE  s \in born' /\ row'[s] # None /\ Young(row'[s])
  <2>1. Worker(k) /\ thr[k].session = s /\ thr[k].pc # "insert"
    BY <1>1, <1>5 DEF Worker, Closing, Ending
  <2>2. s \in born /\ row[s] # None /\ Young(row[s])
    BY <2>1 DEF RowsYoung
  <2> QED
    BY <1>1, <1>4, <2>1, <2>2
<1>6. RowsYoung'
  BY <1>5 DEF RowsYoung, Young
<1> QED
  BY <1>3, <1>6

-----------------------------------------------------------------------------
(* The theorem                                                             *)

LEMMA PidInit == Init => PidInv
<1> SUFFICES ASSUME Init PROVE PidInv
  OBVIOUS
<1>1. /\ None \notin Session
      /\ \A t \in Thread : thr[t].session = None /\ thr[t].pc = "idle"
  BY LocalsAre, SessionAssumption DEF Init, Thread
<1>2. ProbersMove /\ RowsYoung
  BY <1>1 DEF ProbersMove, RowsYoung, Thread
<1>3. Traced
  BY <1>1 DEF Init, Traced, ObjCarried, WritesRight, RowsAccounted, NamesRightly
<1> QED
  BY <1>2, <1>3 DEF PidInv

\* no step but StartCapture takes a thread to "wait", and that one's is a capture thread
LEMMA ProbersNext ==
  ASSUME Types, ProbersMove, Next
  PROVE  ProbersMove'
<1>1. Prober \subseteq Thread
  BY DEF Thread
<1>2. ASSUME NEW t \in Thread, NEW m \in Local, Moves(t, m), m.pc # "wait"
      PROVE  ProbersMove'
  <2>1. thr'[t] = m /\ \A u \in Thread \ {t} : thr'[u] = thr[u]
    BY <1>2, MovesTyped
  <2> QED
    BY <1>1, <1>2, <2>1 DEF ProbersMove
<1>3. ASSUME NEW t \in Thread, Form(t)
      PROVE  ProbersMove'
  <2>1. \E m \in Local : Moves(t, m) /\ m.pc # "wait"
    BY <1>3 DEF Form, Plain, Transits, Finishes
  <2> QED
    BY <2>1, <1>2
<1>4. ASSUME NEW t \in Thread, Written(t)
      PROVE  ProbersMove'
  <2> DEFINE m == At(thr[t].then, thr[t].session)
  <2>1. m \in Local /\ Moves(t, m) /\ thr[t].then \in AfterWrite /\ thr[t].session \in Session
    BY <1>4, WrittenTyped DEF Written, WriteSession, Types, Placed, PlacedAt
  <2>2. m.pc # "wait"
    BY <2>1, LocalsAre DEF AfterWrite, Pc
  <2> QED
    BY <2>1, <2>2, <1>2
<1>5. ASSUME NEW t \in Prober, OpenSession(t) \/ CreateSession(t)
      PROVE  ProbersMove'
  <2>1. CASE OpenSession(t)
    BY <2>1, <1>1, <1>2, OpenTyped
  <2>2. CASE CreateSession(t)
    <3> DEFINE m == At(thr[t].then, thr[t].session)
    <3>1. /\ m \in Local /\ Moves(t, m)
          /\ thr[t].then \in {"opened", "recover"} /\ thr[t].session \in Session
      BY <2>2, CreateTyped
    <3>2. m.pc # "wait"
      BY <3>1, LocalsAre DEF Pc
    <3> QED
      BY <3>1, <3>2, <1>1, <1>2
  <2> QED
    BY <1>5, <2>1, <2>2
<1>6. ASSUME NEW t \in Prober, StartCapture(t)
      PROVE  ProbersMove'
  <2>1. PICK e \in Session : e = thr[t].session
    BY <1>6, <1>1 DEF StartCapture, Types, Placed, PlacedAt, Working, Pc
  <2>2. thr' = [thr EXCEPT ![t] = Idle, ![e] = At("wait", e)] /\ e \notin Prober
    BY <1>6, <2>1, SessionAssumption DEF StartCapture
  <2>3. \A u \in Prober : thr'[u] = Idle \/ thr'[u] = thr[u]
    BY <1>1, <2>2 DEF Types, TypeOK
  <2> QED
    BY <2>3, LocalsAre DEF ProbersMove
<1>7. CASE Crash
  <2>1. \A u \in Prober : thr'[u] = Idle
    BY <1>1, <1>7 DEF Crash
  <2> QED
    BY <2>1, LocalsAre DEF ProbersMove
<1>8. ASSUME thr' = thr
      PROVE  ProbersMove'
  BY <1>8 DEF ProbersMove
<1>9. CASE Prune \/ DeleteChannel \/ \E s \in Session : ProcessExit(s) \/ Age(s)
  BY <1>8, <1>9 DEF Prune, DeleteChannel, ProcessExit, Age
<1> QED
  BY <1>3, <1>4, <1>5, <1>6, <1>7, <1>9, StepForms

\* only a restart counts as one
LEMMA CrashesCount ==
  ASSUME Types, Next, crashes' = 0
  PROVE  crashes = 0
<1>1. crashes' = crashes \/ (crashes' = crashes + 1 /\ crashes \in Nat)
  <2>1. CASE Crash
    BY <2>1, SessionAssumption DEF Crash, Types, TypeOK
  <2>2. CASE \E t \in Thread : Work(t)
    <3>1. PICK t \in Thread : Work(t)
      BY <2>2
    <3>2. CASE SessionStep(t)
      BY <3>2 DEF SessionStep, WriteSession, CloseSession, OpenSession, CreateSession, StartRefused
    <3>3. CASE ProberStep(t)
      BY <3>3 DEF ProberStep, CheckLoad, CheckBegin, CheckTransitions, CheckResolve, CheckOnline,
         StartNoSource, StartProcess, StartLaunch, StartCapture
    <3>4. CASE CaptureStep(t)
      BY <3>4 DEF CaptureStep, CaptureWait, CaptureLoad, CaptureSettle, CaptureBranch,
         CaptureConvert, CaptureRetry, CapturePop
    <3>5. CASE SchedStep
      BY <3>5 DEF SchedStep, Tick, TickStalled, TickRecover, TickRecovered
    <3> QED
      BY <3>1, <3>2, <3>3, <3>4, <3>5 DEF Work
  <2>3. CASE \/ \E k \in Checker : TriggerCheck(k)
             \/ \E s \in Session : ProcessExit(s) \/ Age(s)
             \/ Sweep \/ Prune \/ DeleteChannel
    BY <2>3 DEF TriggerCheck, ProcessExit, Age, Sweep, Prune, DeleteChannel
  <2> QED
    BY <2>1, <2>2, <2>3 DEF Next
<1> QED
  BY <1>1

LEMMA PidNext == Types /\ IInv /\ PidInv /\ [Next]_vars => PidInv'
<1> SUFFICES ASSUME Types, IInv, PidInv, [Next]_vars PROVE PidInv'
  OBVIOUS
<1>1. CASE UNCHANGED vars
  BY <1>1 DEF vars, PidInv, ProbersMove, RowsYoung, Traced, ObjCarried, WritesRight,
     RowsAccounted, Present, Worker, Closing, Ending
<1>2. CASE Next
  <2>1. ProbersMove'
    BY <1>2, ProbersNext DEF PidInv
  <2>2. ASSUME (crashes = 0)', Present'
        PROVE  RowsYoung' /\ Traced'
    <3>1. ASSUME crashes = 0, Present
          PROVE  RowsYoung' /\ Traced'
      <4>1. RowsYoung /\ Traced /\ ProbersMove
        BY <3>1 DEF PidInv
      <4>2. ASSUME NEW t \in Thread, NEW m \in Local, Steps(t, m), Form(t) \/ Written(t)
            PROVE  RowsYoung' /\ Traced'
        <5>1. thr[t].pc # "insert"
          BY <4>2 DEF Steps
        <5> QED
          BY <5>1, <4>1, <4>2, StepsTrace, YoungForm, YoungWritten
      <4>3. ASSUME NEW t \in Prober, OpenSession(t) \/ CreateSession(t) \/ StartCapture(t)
            PROVE  RowsYoung' /\ Traced'
        BY <4>1, <4>3, OpenTraces, CreateTraces, StartCaptureTraces
      <4>4. CASE Prune \/ \E s \in Session : Age(s)
        BY <4>1, <4>4, RowTraces
      <4>5. CASE \E s \in Session : ProcessExit(s)
        BY <4>1, <4>5 DEF ProcessExit, RowsYoung, Traced, ObjCarried, WritesRight,
           RowsAccounted, Worker, Closing, Ending
      <4>6. ~DeleteChannel /\ ~Crash
        BY <2>2, <3>1 DEF DeleteChannel, Crash, Present
      <4> QED
        BY <1>2, <2>2, <4>1, <4>2, <4>3, <4>4, <4>5, <4>6, StepsAre
    <3>2. Present
      <4>1. Keeps \/ chan' = chan \/ chan' = None
        <5>1. \A t \in Thread : Form(t) => Keeps
          BY DEF Form, Plain, Transits, Finishes
        <5> QED
          BY <1>2, <5>1, StepForms DEF Written, WriteSession, OpenSession, CreateSession,
             StartCapture, ProcessExit, Age, Prune, DeleteChannel, Crash
      <4> QED
        BY <2>2, <4>1 DEF Keeps, Present
    <3>3. crashes = 0
      BY <1>2, <2>2, CrashesCount
    <3> QED
      BY <3>1, <3>2, <3>3
  <2> QED
    BY <2>1, <2>2 DEF PidInv
<1> QED
  BY <1>1, <1>2

\* Before a restart, a row that names a process belongs to a session that some
\* thread still works for, as long as the channel exists: no handler that
\* returns leaves behind the pid that would keep retention from the row for ever.
THEOREM PidsMeanCaptures == Spec => []PidMeansCapture
<1>1. PidInv => PidMeansCapture
  <2> SUFFICES ASSUME PidInv, crashes = 0, Present,
                      NEW s \in Session, row[s] # None, row[s].pid
               PROVE  Held(s)
    BY DEF PidMeansCapture
  <2>1. PICK t \in Thread : Accounts(t, thr[t], s)
    BY DEF PidInv, Traced, RowsAccounted
  <2> QED
    BY <2>1 DEF Accounts, Carries, Held
<1>2. Init => Types /\ IInv /\ PidInv
  BY TypesInit, InvInit, PidInit
<1>3. Types /\ IInv /\ PidInv /\ [Next]_vars => Types' /\ IInv' /\ PidInv'
  BY TypesNext, InvNext, PidNext
<1> QED
  BY <1>1, <1>2, <1>3, PTL DEF Spec

===============================================================================
