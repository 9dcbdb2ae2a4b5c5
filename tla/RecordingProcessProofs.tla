----------------------- MODULE RecordingProcessProofs -----------------------
(***************************************************************************)
(* Theorems of RecordingLifecycle about what its threads hold and what its *)
(* processes do, on top of the types and the ownership of                  *)
(* RecordingLifecycleProofs.                                               *)
(*                                                                         *)
(* SlotsConserved: each step leaves the holders of a permit and the permits *)
(* alone, or moves one permit (SlotMove).                                  *)
(*                                                                         *)
(* NoStray and NeverRemuxLive follow from Watching, which is inductive     *)
(* given the types and the ownership: within one life of the worker each   *)
(* step moves a process, its capture thread and its launch in a few ways   *)
(* (ProcessMoves), so a process on record is reaped or waited for.         *)
(*                                                                         *)
(* SourceKept: a thread at "prune" has put the mp4 in place (Replaced).    *)
(* LaunchRespectsPid: a check on its way to a launch has a record that     *)
(* names only what is reaped or waited for (ProbesBacked).                 *)
(***************************************************************************)
EXTENDS RecordingLifecycleProofs, FiniteSetTheorems

USE ThreadAssumption, ConfigAssumption DEF Thread, Prober

-----------------------------------------------------------------------------
(* The permits of _probe_slots                                             *)

HoldPc == (CheckPc \ {"acquire"}) \cup StartPc

\* The places where a check holds a permit, spelt out.
LEMMA HoldNames ==
  /\ HoldPc = {"load", "busy", "begin", "resolve", "online", "offline", "start", "publish",
               "nosource"}
  /\ Holding = {k \in Prober : thr[k].pc \in HoldPc}
BY DEF HoldPc, CheckPc, StartPc, Holding

\* The places of the scheduler's own handlers, spelt out.
LEMMA SchedNames ==
  SchedPc = {"boot", "warmup", "command", "trigger", "stop", "remove", "tick", "recover",
             "adopt", "reset", "dead"}
BY DEF SchedPc

\* Where a step of the scheduler's own handlers takes it; the other threads are
\* left alone, but for the check it may spawn.
SchedAlone ==
  /\ thr'[Sched].pc \in SchedPc \cup {"acquire", "convert"}
  /\ \A u \in Thread : u # Sched =>
       \/ thr'[u] = thr[u]
       \/ u \in Checker /\ thr[u].pc = "idle" /\ thr'[u].pc = "acquire"

\* Those steps touch no permit.
LEMMA SchedThreads ==
  ASSUME TypeOK, SchedStep \/ CommandStep
  PROVE  /\ slots' = slots
         /\ thr[Sched].pc \in SchedPc
         /\ SchedAlone
<1> DEFINE me == thr[Sched]
<1> USE DEF SchedStep, CommandStep, Sched_at
<1>1. thr \in [Thread -> Placed] /\ Sched \in Thread /\ me \in Placed
  BY DEF TypeOK, ThreadsOK
<1>2. slots' = slots
  BY DEF SchedBoot, SchedList, SweepDone, SchedRecover, SchedAdopt, SchedReset,
     WarmupDone, VisitAlive, VisitSkip, VisitStale, VisitDue, WarmupChannel, CommandTrigger,
     CommandStop, CommandRemove, CommandCheck, CommandResume, CommandPause
<1>3. me.pc \in SchedPc
  BY SchedNames DEF SchedBoot, SchedList, SweepDone, SchedRecover, SchedAdopt, SchedReset,
     WarmupDone, VisitAlive, VisitSkip, VisitStale, VisitDue, WarmupChannel, CommandTrigger,
     CommandStop, CommandRemove, CommandCheck, CommandResume, CommandPause, Visiting
<1> SUFFICES SchedAlone
  BY <1>2, <1>3
<1>4. /\ \A p : At(p).pc = p
      /\ \A p, c : On(p, c).pc = p
  BY DEF At, On, Idle
<1>5. ASSUME NEW p \in SchedPc \cup {"acquire", "convert"},
             Become(Sched, At(p)) \/ \E c \in Channel : Become(Sched, On(p, c))
      PROVE  SchedAlone
  BY <1>1, <1>4, <1>5 DEF Become, SchedAlone
<1>6. ASSUME NEW c \in Channel \cup {None}, TriggerCheck(c)
      PROVE  SchedAlone
  <2>1. CASE SchedGoto("command")
    BY <1>5, <2>1, SchedNames DEF SchedGoto
  <2>2. ASSUME NEW k \in Checker, thr[k].pc = "idle",
               thr' = [thr EXCEPT ![k] = On("acquire", c), ![Sched] = At("command")]
        PROVE  SchedAlone
    BY <1>1, <1>4, <2>2, SchedNames DEF SchedAlone
  <2> QED
    BY <1>6, <2>1, <2>2 DEF TriggerCheck
<1>7. ASSUME thr' = thr
      PROVE  SchedAlone
  BY <1>3, <1>7 DEF SchedAlone
<1>8. CASE SchedStep
  <2>1. CASE SchedBoot \/ SchedList \/ SweepDone \/ WarmupDone \/ SchedAdopt \/ SchedReset
    <3>1. \E p \in {"tick", "warmup", "command", "dead"} : Become(Sched, At(p))
      BY <2>1 DEF SchedBoot, SchedList, SweepDone, WarmupDone, TakeSnapshot, SchedGoto, SchedAdopt,
         SchedReset, AfterRecovery
    <3> QED
      BY <1>5, <3>1, SchedNames
  <2>2. CASE SchedRecover
    <3>1. \A p \in Pc : [me EXCEPT !.why = "salvage", !.pc = p].pc = p
      BY <1>1 DEF Placed, Local
    <3>2. {"reset", "adopt", "convert"} \subseteq Pc
      BY PcNames
    <3>3. \E p \in {"reset", "adopt", "convert"} :
            Become(Sched, [me EXCEPT !.why = "salvage", !.pc = p])
      BY <2>2 DEF SchedRecover
    <3> QED
      BY <1>1, <3>1, <3>2, <3>3, SchedNames DEF SchedAlone, Become
  <2>3. ASSUME NEW c \in Channel, VisitStale(c)
        PROVE  SchedAlone
    <3>1. \A f, b, n : [On("recover", c) EXCEPT !.rec = f, !.paused = b, !.names = n].pc = "recover"
      BY DEF On, Idle
    <3>2. \E f, b, n : Become(Sched, [On("recover", c) EXCEPT !.rec = f, !.paused = b, !.names = n])
      BY <2>3 DEF VisitStale
    <3> QED
      BY <1>1, <3>1, <3>2, SchedNames DEF SchedAlone, Become
  <2>4. ASSUME NEW c \in Channel, VisitAlive(c) \/ VisitSkip(c) \/ VisitDue(c) \/ WarmupChannel(c)
        PROVE  SchedAlone
    <3>1. \/ thr' = thr \/ Become(Sched, On("acquire", c)) \/ Become(Sched, At("dead"))
      BY <2>4 DEF VisitAlive, VisitSkip, VisitDue, WarmupChannel, SchedGoto
    <3> QED
      BY <1>5, <1>7, <3>1, SchedNames
  <2> QED
    BY <1>8, <2>1, <2>2, <2>3, <2>4
<1>9. CASE CommandStep
  <2>1. CASE CommandTrigger \/ \E c \in Channel : CommandCheck(c)
    <3>1. me.chan \in Channel \cup {None}
      BY <1>1 DEF Placed, Local
    <3>2. \E c \in Channel \cup {None} : TriggerCheck(c)
      BY <2>1, <3>1 DEF CommandTrigger, CommandCheck
    <3> QED
      BY <1>6, <3>2
  <2>2. ASSUME NEW c \in Channel, CommandResume(c)
        PROVE  SchedAlone
    BY <1>5, <2>2, SchedNames DEF CommandResume
  <2>3. ASSUME NEW c \in Channel, NEW w \in {"pause", "delete"}, CommandPause(c, w)
        PROVE  SchedAlone
    <3>1. [On("stop", c) EXCEPT !.why = w].pc = "stop"
      BY DEF On, Idle
    <3>2. Become(Sched, [On("stop", c) EXCEPT !.why = w])
      BY <2>3 DEF CommandPause
    <3> QED
      BY <1>1, <3>1, <3>2, SchedNames DEF SchedAlone, Become
  <2>4. CASE CommandStop \/ CommandRemove
    <3>1. [me EXCEPT !.pc = "remove"].pc = "remove"
      BY <1>1, PcNames DEF Placed, Local
    <3>2. Become(Sched, [me EXCEPT !.pc = "remove"]) => SchedAlone
      BY <1>1, <3>1, SchedNames DEF SchedAlone, Become
    <3>3. Become(Sched, [me EXCEPT !.pc = "remove"]) \/ Become(Sched, At("command"))
      BY <2>4 DEF CommandStop, CommandRemove, SchedGoto
    <3> QED
      BY <1>5, <3>2, <3>3, SchedNames
  <2> QED
    BY <1>9, <2>1, <2>2, <2>3, <2>4
<1> QED
  BY <1>8, <1>9

\* What a step does to the permits: nothing, or one permit changes hands.
SlotMove ==
  \/ Holding' = Holding /\ slots' = slots
  \/ \E k \in Prober : k \notin Holding /\ Holding' = Holding \cup {k}
                       /\ slots > 0 /\ slots' = slots - 1
  \/ \E k \in Prober : k \in Holding /\ Holding' = Holding \ {k} /\ slots' = slots + 1
  \/ Holding' = {} /\ slots' = MaxSlots

\* One thread moves: it keeps its permit, takes one, or gives it back.
LEMMA HolderMoves ==
  ASSUME TypeOK, NEW t \in Thread, NEW me, Become(t, me)
  PROVE  /\ t \in Rec => Holding' = Holding
         /\ (me.pc \in HoldPc <=> thr[t].pc \in HoldPc) => Holding' = Holding
         /\ t \in Prober /\ me.pc \in HoldPc => Holding' = Holding \cup {t}
         /\ t \in Prober /\ me.pc \notin HoldPc => Holding' = Holding \ {t}
<1>1. thr \in [Thread -> Placed]
  BY DEF TypeOK, ThreadsOK
<1>2. thr'[t] = me /\ \A u \in Thread : u # t => thr'[u] = thr[u]
  BY <1>1 DEF Become
<1>3. /\ Holding = {k \in Prober : thr[k].pc \in HoldPc}
      /\ Holding' = {k \in Prober : thr'[k].pc \in HoldPc}
  BY DEF Holding, HoldPc
<1> QED
  BY <1>2, <1>3

\* A handler returns to rest and gives the permit back.
LEMMA PermitReturned ==
  ASSUME TypeOK, NEW k \in Prober, thr[k].pc \in HoldPc, NEW me, Become(k, me),
         me.pc \notin HoldPc, slots' = slots + 1
  PROVE  SlotMove
<1>1. k \in Holding
  BY HoldNames
<1>2. Holding' = Holding \ {k}
  BY HolderMoves
<1> QED
  BY <1>1, <1>2 DEF SlotMove

\* check_channel takes a permit when it starts and returns it when it ends.
LEMMA CheckSlots ==
  ASSUME TypeOK, NEW k \in Prober, CheckStep(k)
  PROVE  SlotMove
<1> DEFINE me == thr[k]
<1>1. k \in Thread /\ me \in Placed
  BY DEF TypeOK, ThreadsOK
<1>2. Rest(k).pc \notin HoldPc
  BY HoldNames DEF Rest, At, Idle
<1>3. ASSUME me.pc \in HoldPc, LeaveCheck(k)
      PROVE  SlotMove
  BY <1>2, <1>3, PermitReturned DEF LeaveCheck
<1>4. ASSUME me.pc \in HoldPc, NEW you, Become(k, you), you.pc \in HoldPc, slots' = slots
      PROVE  SlotMove
  BY <1>4, <1>1, HolderMoves DEF SlotMove
<1>5. \A p \in Pc : [me EXCEPT !.pc = p].pc = p
  BY <1>1 DEF Placed, Local
<1>6. {"load", "busy", "begin", "resolve", "online", "offline", "start"} \subseteq Pc \cap HoldPc
  BY PcNames, HoldNames
<1>7. CASE CheckAcquire(k)
  <2>1. me.pc = "acquire" /\ me.pc \notin HoldPc
    BY <1>7, HoldNames DEF CheckAcquire
  <2>2. CASE slots > 0 /\ slots' = slots - 1 /\ Goto(k, "load")
    <3>1. k \notin Holding
      BY <2>1, HoldNames
    <3>2. Holding' = Holding \cup {k}
      <4>1. PICK you : Become(k, you) /\ you.pc = "load"
        BY <1>5, <1>6, <2>2 DEF Goto
      <4> QED
        BY <1>1, <1>6, <4>1, HolderMoves
    <3> QED
      BY <2>2, <3>1, <3>2 DEF SlotMove
  <2>3. CASE slots' = slots /\ Become(k, Rest(k))
    <3>1. Holding' = Holding
      BY <1>1, <1>2, <2>1, <2>3, HolderMoves
    <3> QED
      BY <2>3, <3>1 DEF SlotMove
  <2> QED
    BY <1>7, <2>2, <2>3 DEF CheckAcquire
<1>8. CASE CheckLoad(k)
  <2>1. \A b : [me EXCEPT !.pc = "begin", !.paused = b].pc = "begin"
    BY <1>1 DEF Placed, Local
  <2>2. me.pc \in HoldPc
    BY <1>8, HoldNames DEF CheckLoad
  <2> QED
    BY <1>3, <1>4, <1>5, <1>6, <1>8, <2>1, <2>2 DEF CheckLoad, Goto
<1>9. CASE CheckResolve(k)
  <2>1. me.pc \in HoldPc
    BY <1>9, HoldNames DEF CheckResolve
  <2>2. ASSUME NEW w \in {"online", "nourl", "offline", "error"},
               Become(k, IF w \in {"online", "nourl"}
                         THEN [On("online", me.chan) EXCEPT !.why = w]
                         ELSE [me EXCEPT !.pc = "offline", !.why = w]),
               slots' = slots
        PROVE  SlotMove
    <3>1. /\ [On("online", me.chan) EXCEPT !.why = w].pc = "online"
          /\ [me EXCEPT !.pc = "offline", !.why = w].pc = "offline"
      BY <1>1 DEF On, Idle, Placed, Local
    <3> QED
      BY <1>4, <1>6, <2>1, <2>2, <3>1
  <2> QED
    BY <1>3, <1>9, <2>1, <2>2 DEF CheckResolve
<1>10. CASE CheckBusy(k) \/ CheckBegin(k) \/ CheckOnline(k) \/ CheckOffline(k)
  <2>1. me.pc \in HoldPc
    BY <1>10, HoldNames DEF CheckBusy, CheckBegin, CheckOnline, CheckOffline
  <2> QED
    BY <1>3, <1>4, <1>5, <1>6, <1>10, <2>1 DEF CheckBusy, CheckBegin, CheckOnline, CheckOffline, Goto
<1> QED
  BY <1>7, <1>8, <1>9, <1>10 DEF CheckStep

\* start_recording ends a check with its permit; in a capture thread there is none.
LEMMA StartSlots ==
  ASSUME TypeOK, Ownership, NEW t \in Thread, StartStep(t)
  PROVE  SlotMove
<1> DEFINE me == thr[t]
<1>1. thr \in [Thread -> Placed] /\ me \in Placed
  BY DEF TypeOK, ThreadsOK
<1>2. me.pc \in HoldPc
  BY HoldNames DEF StartStep, StartBegin, StartPublish, StartNoSource
<1>3. t \in Prober => AfterStart(t).pc \notin HoldPc
  BY HoldNames DEF AfterStart, Rest, At, Idle
<1>4. ASSUME LeaveStart(t)
      PROVE  SlotMove
  <2>1. CASE t \in Prober
    BY <1>2, <1>3, <1>4, <2>1, PermitReturned DEF LeaveStart, ReleaseSlot
  <2>2. CASE t \in Rec
    <3>1. Holding' = Holding /\ slots' = slots
      BY <1>4, <2>2, HolderMoves DEF LeaveStart, ReleaseSlot
    <3> QED
      BY <3>1 DEF SlotMove
  <2> QED
    BY <2>1, <2>2
<1>5. ASSUME NEW you, Become(t, you), you.pc \in HoldPc, slots' = slots
      PROVE  SlotMove
  BY <1>2, <1>5, HolderMoves DEF SlotMove
<1>6. CASE StartBegin(t)
  <2>1. /\ \A b : [me EXCEPT !.pc = "nosource", !.paused = b].pc = "nosource"
        /\ \A r : [me EXCEPT !.pc = "publish", !.rec = r].pc = "publish"
    BY <1>1 DEF Placed, Local
  <2>2. \/ LeaveStart(t)
        \/ slots' = slots /\ \E b : Become(t, [me EXCEPT !.pc = "nosource", !.paused = b])
        \/ slots' = slots /\ \E r : Become(t, [me EXCEPT !.pc = "publish", !.rec = r])
    BY <1>6 DEF StartBegin
  <2>3. ASSUME slots' = slots, NEW b, Become(t, [me EXCEPT !.pc = "nosource", !.paused = b])
        PROVE  SlotMove
    <3> DEFINE you == [me EXCEPT !.pc = "nosource", !.paused = b]
    <3>1. you.pc \in HoldPc /\ Become(t, you)
      BY <2>1, <2>3, HoldNames
    <3> HIDE DEF you
    <3>2. Holding' = Holding
      BY <1>2, <3>1, HolderMoves
    <3> QED
      BY <2>3, <3>2 DEF SlotMove
  <2>4. ASSUME slots' = slots, NEW r, Become(t, [me EXCEPT !.pc = "publish", !.rec = r])
        PROVE  SlotMove
    <3> DEFINE you == [me EXCEPT !.pc = "publish", !.rec = r]
    <3>1. you.pc \in HoldPc /\ Become(t, you)
      BY <2>1, <2>4, HoldNames
    <3> HIDE DEF you
    <3>2. Holding' = Holding
      BY <1>2, <3>1, HolderMoves
    <3> QED
      BY <2>4, <3>2 DEF SlotMove
  <2> QED
    BY <1>4, <2>2, <2>3, <2>4
<1>7. CASE StartNoSource(t)
  BY <1>4, <1>7 DEF StartNoSource
<1>8. CASE StartPublish(t)
  <2>1. CASE ~Present(me.chan)
    BY <1>4, <1>8, <2>1 DEF StartPublish
  <2>2. CASE Present(me.chan)
    <3>0. me.rec \in Rec /\ t \in Prober
      BY <1>8 DEF StartPublish, Ownership, LaunchesLocked
    <3>1. PICK capture : thr' = [thr EXCEPT ![me.rec] = capture, ![t] = AfterStart(t)]
      BY <1>8, <2>2 DEF StartPublish
    <3>2. \A k \in Prober : thr'[k] = IF k = t THEN AfterStart(t) ELSE thr[k]
      BY <1>1, <3>0, <3>1
    <3>3. Holding' = {k \in Prober : thr'[k].pc \in HoldPc}
      BY DEF Holding, HoldPc
    <3>4. t \in Holding /\ Holding' = Holding \ {t}
      BY <1>2, <1>3, <3>0, <3>2, <3>3, HoldNames
    <3>5. slots' = slots + 1
      BY <1>8, <2>2, <3>0 DEF StartPublish, ReleaseSlot
    <3> QED
      BY <3>0, <3>4, <3>5 DEF SlotMove
  <2> QED
    BY <2>1, <2>2
<1> QED
  BY <1>6, <1>7, <1>8 DEF StartStep

\* Each step moves at most one permit.
LEMMA SlotStep ==
  ASSUME TypeOK, Ownership, Next
  PROVE  SlotMove
<1>1. thr \in [Thread -> Placed]
  BY DEF TypeOK, ThreadsOK
<1>2. /\ Holding = {k \in Prober : thr[k].pc \in HoldPc}
      /\ Holding' = {k \in Prober : thr'[k].pc \in HoldPc}
  BY DEF Holding, HoldPc
<1>3. ASSUME NEW r \in Rec, CaptureStep(r)
      PROVE  SlotMove
  <2>1. slots' = slots /\ \E you : Become(r, you)
    BY <1>3 DEF CaptureStep, CaptureWait, CaptureLoad, CaptureSettle, CaptureClassify,
       CaptureReacquire, CaptureFail, CaptureForget, CapturePop, Goto
  <2> QED
    BY <2>1, HolderMoves DEF SlotMove
<1>4. ASSUME NEW t \in Rec \cup {Sched}, ConvertStep(t)
      PROVE  SlotMove
  <2>1. slots' = slots
    BY <1>4 DEF ConvertStep, ConvertBegin, ConvertFail, ConvertReplace, ConvertPrune, ConvertRecord
  <2>2. At("tick").pc \notin HoldPc /\ ConvertPc \cap HoldPc = {}
    BY HoldNames DEF At, Idle, ConvertPc
  <2>3. Holding' = Holding
    BY <1>4, <2>2, ConvertMoves, HolderMoves DEF Kept
  <2> QED
    BY <2>1, <2>3 DEF SlotMove
<1>5. CASE SchedStep \/ CommandStep
  <2>1. \A k \in Prober : thr[k].pc \in HoldPc <=> thr'[k].pc \in HoldPc
    BY <1>5, SchedThreads, SchedNames, HoldNames DEF SchedAlone
  <2> QED
    BY <1>2, <1>5, <2>1, SchedThreads DEF SlotMove
<1>6. CASE ApiStep \/ \E r \in Rec : ProcessStep(r)
  <2>1. thr' = thr /\ slots' = slots
    BY <1>6 DEF ApiStep, ApiUpsert, ApiDelete, ApiReadForEdit, ApiReadForDelete, ApiSetPaused,
       ProcessStep, ProcessWrites, ProcessExits
  <2> QED
    BY <1>2, <2>1 DEF SlotMove
<1>7. CASE Crash
  <2>1. \A t \in Thread : thr'[t].pc \in {"idle", "boot"}
    BY <1>7 DEF Crash, At, Idle
  <2> QED
    BY <1>2, <1>7, <2>1, HoldNames DEF SlotMove, Crash
<1> QED
  BY <1>3, <1>4, <1>5, <1>6, <1>7, CheckSlots, StartSlots DEF Next

\* SlotsConserved counts; the induction needs that there is something to count.
SlotInv == IsFiniteSet(Holding) /\ SlotsConserved

\* A move of one permit keeps the count.
LEMMA SlotsKept ==
  ASSUME TypeOK, SlotInv, SlotMove
  PROVE  SlotInv'
<1>1. slots \in Nat /\ MaxSlots \in Nat /\ Cardinality(Holding) \in Nat
  BY FS_CardinalityType DEF TypeOK, OthersOK, SlotInv
<1>2. SUFFICES ASSUME NEW H, H = Holding'
               PROVE  IsFiniteSet(H) /\ slots' + Cardinality(H) = MaxSlots
  BY DEF SlotInv, SlotsConserved
<1>3. CASE H = Holding /\ slots' = slots
  BY <1>3 DEF SlotInv, SlotsConserved
<1>4. ASSUME NEW k \in Prober, k \notin Holding, H = Holding \cup {k}, slots > 0,
             slots' = slots - 1
      PROVE  IsFiniteSet(H) /\ slots' + Cardinality(H) = MaxSlots
  <2>1. IsFiniteSet(H) /\ Cardinality(H) = Cardinality(Holding) + 1
    BY <1>4, FS_AddElement DEF SlotInv
  <2> QED
    BY <1>1, <1>4, <2>1 DEF SlotInv, SlotsConserved
<1>5. ASSUME NEW k \in Prober, k \in Holding, H = Holding \ {k}, slots' = slots + 1
      PROVE  IsFiniteSet(H) /\ slots' + Cardinality(H) = MaxSlots
  <2>1. IsFiniteSet(H) /\ Cardinality(H) = Cardinality(Holding) - 1
    BY <1>5, FS_RemoveElement DEF SlotInv
  <2> QED
    BY <1>1, <1>5, <2>1 DEF SlotInv, SlotsConserved
<1>6. CASE H = {} /\ slots' = MaxSlots
  BY <1>1, <1>6, FS_EmptySet
<1> QED
  BY <1>2, <1>3, <1>4, <1>5, <1>6 DEF SlotMove

\* Every permit of _probe_slots is free or held by one running check, on every
\* way out of check_channel.
THEOREM SlotsConservedHolds == Spec => []SlotsConserved
<1>1. Init => SlotInv
  <2> SUFFICES ASSUME Init PROVE SlotInv
    OBVIOUS
  <2>1. Holding = {}
    BY HoldNames DEF Init, At, Idle
  <2> QED
    BY <2>1, FS_EmptySet DEF Init, SlotInv, SlotsConserved
<1>2. TypeOK /\ Ownership /\ SlotInv /\ [Next]_vars => SlotInv'
  <2>1. UNCHANGED vars /\ SlotInv => SlotInv'
    BY DEF vars, SlotInv, SlotsConserved, Holding
  <2> QED
    BY <2>1, SlotStep, SlotsKept
<1>3. SlotInv => SlotsConserved
  BY DEF SlotInv
<1> QED
  BY <1>1, <1>2, <1>3, TypeCorrect, OwnershipHolds, PTL DEF Spec

-----------------------------------------------------------------------------
(* The processes and the capture threads that wait for them                *)

\* Where a step of the capture thread takes it, place by place.
LEMMA CaptureGoes ==
  ASSUME TypeOK, NEW r \in Rec, CaptureStep(r)
  PROVE  thr'[r].pc \in {"idle", "loadrow", "settle", "classify", "reacquire", "fail", "forget",
                         "start", "convert", "pop"}
<1> DEFINE me == thr[r]
           Goes == {"idle", "loadrow", "settle", "classify", "reacquire", "fail", "forget",
                    "start", "convert", "pop"}
<1> SUFFICES thr'[r].pc \in Goes
  OBVIOUS
<1>1. thr \in [Thread -> Placed] /\ me \in Local
  BY DEF TypeOK, ThreadsOK, Placed
<1>2. \A you : Become(r, you) => thr'[r] = you
  BY <1>1 DEF Become
<1>3. /\ Ending(me).pc = "pop" /\ Idle.pc = "idle"
      /\ \A w : Converting(me, w).pc = "convert"
  BY DEF Ending, Converting, On, Idle
<1>4. CASE CaptureWait(r)
  <2>1. \A w : [me EXCEPT !.pc = "loadrow", !.why = w].pc = "loadrow"
    BY <1>1 DEF Local
  <2>2. PICK w \in {"clean", "broken"} : Become(r, [me EXCEPT !.pc = "loadrow", !.why = w])
    BY <1>4 DEF CaptureWait
  <2> QED
    BY <1>1, <2>1, <2>2 DEF Become
<1>5. CASE CaptureLoad(r)
  <2>1. \A b, n : [me EXCEPT !.pc = "settle", !.paused = b, !.names = n].pc = "settle"
    BY <1>1 DEF Local
  <2> QED
    BY <1>1, <1>3, <1>5, <2>1 DEF CaptureLoad, Become
<1>6. CASE CaptureSettle(r)
  <2>1. [me EXCEPT !.pc = "classify"].pc = "classify"
    BY <1>1 DEF Local
  <2> QED
    BY <1>1, <1>3, <1>6, <2>1 DEF CaptureSettle, Become
<1>7. CASE CaptureClassify(r)
  <2>1. /\ \A p : [me EXCEPT !.why = "unstable", !.pc = p].pc = p
        /\ \A w : [me EXCEPT !.why = w, !.pc = "fail"].pc = "fail"
    BY <1>1 DEF Local
  <2>2. CASE Become(r, [me EXCEPT !.why = "unstable",
                                  !.pc = IF Artifact(r) THEN "convert" ELSE "reacquire"])
    BY <1>1, <2>1, <2>2 DEF Become
  <2>3. CASE \E w \in {"unavailable", "error"} : Become(r, [me EXCEPT !.why = w, !.pc = "fail"])
    BY <1>1, <2>1, <2>3 DEF Become
  <2> QED
    BY <1>7, <2>2, <2>3 DEF CaptureClassify
<1>8. CASE CaptureReacquire(r)
  <2>1. /\ [Ending(me) EXCEPT !.pc = "start", !.why = "online"].pc = "start"
        /\ [me EXCEPT !.pc = "fail", !.why = "error"].pc = "fail"
    BY <1>1 DEF Local, Ending, On, Idle
  <2> QED
    BY <1>1, <1>3, <1>8, <2>1 DEF CaptureReacquire, Become
<1>9. CASE CaptureFail(r) \/ CaptureForget(r) \/ CapturePop(r)
  <2>1. [Ending(me) EXCEPT !.pc = "forget"].pc = "forget"
    BY DEF Ending, On, Idle
  <2> QED
    BY <1>1, <1>3, <1>9, <2>1 DEF CaptureFail, CaptureForget, CapturePop, Become
<1> QED
  BY <1>4, <1>5, <1>6, <1>7, <1>8, <1>9 DEF CaptureStep

\* Where a step of convert_recording takes its thread, place by place.
LEMMA ConvertGoes ==
  ASSUME TypeOK, NEW t \in Rec \cup {Sched}, ConvertStep(t)
  PROVE  /\ thr'[t].pc \in {"remux", "prune", "record", "reacquire", "pop", "tick"}
         /\ thr'[t].pc = "prune" => ConvertReplace(t)
<1> DEFINE me == thr[t]
<1>1. thr \in [Thread -> Placed] /\ me \in Local
  BY DEF TypeOK, ThreadsOK, Placed
<1>2. AfterConvert(t).pc \in {"reacquire", "pop", "tick"}
  <2>1. [me EXCEPT !.pc = "reacquire", !.salvaged = TRUE].pc = "reacquire"
    BY <1>1 DEF Local
  <2>2. Ending(me).pc = "pop" /\ At("tick").pc = "tick"
    BY DEF Ending, On, At, Idle
  <2> QED
    BY <2>1, <2>2 DEF AfterConvert
<1>3. LeaveConvert(t) => thr'[t].pc \in {"reacquire", "pop", "tick"}
  BY <1>1, <1>2 DEF LeaveConvert, Become
<1>4. \A p : [me EXCEPT !.pc = p].pc = p
  BY <1>1 DEF Local
<1>5. \A p \in {"remux", "prune", "record"} : Goto(t, p) => thr'[t].pc = p
  BY <1>1, <1>4 DEF Goto, Become
<1> QED
  BY <1>3, <1>5 DEF ConvertStep, ConvertBegin, ConvertFail, ConvertReplace, ConvertPrune,
     ConvertRecord

\* A step within one life of the worker, seen by the thread of a recording...
WaitMove(r) ==
  \/ thr'[r] = thr[r]
  \/ Capturing(r) /\ thr[r].pc # "wait" /\ thr'[r].pc # "wait"
  \/ thr[r].pc = "wait" /\ thr'[r].pc # "wait" /\ proc'[r] = "reaped"
  \/ ~Capturing(r) /\ thr'[r].pc = "wait"

\* ... by its process...
ProcMove(r) ==
  \/ proc'[r] = proc[r]
  \/ proc[r] = "unborn" /\ proc'[r] = "running" /\ \E t \in Thread : Launching(t, r)'
  \/ /\ proc[r] \in {"running", "stopping", "exited"}
     /\ proc'[r] \in {"stopping", "exited", "reaped"}

\* ... and by the launch of it.
LaunchMove(r) ==
  \A t \in Thread : Launching(t, r) =>
    Launching(t, r)' \/ thr'[r].pc = "wait" \/ proc'[r] # "running"

ProcessMoves == \A r \in Rec : WaitMove(r) /\ ProcMove(r) /\ LaunchMove(r)

\* A signal is a move of the process.
LEMMA SignalMoves ==
  ASSUME TypeOK, NEW p \in Rec \cup {None}, Terminate(p)
  PROVE  \A r \in Rec : ProcMove(r)
BY DEF TypeOK, OthersOK, Terminate, ProcMove

\* A quiet step leaves every launch alone.
LEMMA QuietLaunches ==
  ASSUME Quiet
  PROVE  \A r \in Rec : LaunchMove(r)
BY DEF Quiet, QuietMove, LaunchMove, Launching, Starting

\* start_recording launches, gives up, or hands the recording to its thread.
LEMMA StartProcess ==
  ASSUME TypeOK, Ownership, NEW t \in Thread, StartStep(t)
  PROVE  ProcessMoves
<1> DEFINE me == thr[t]
           c == me.chan
<1>1. /\ thr \in [Thread -> Placed] /\ me \in Local /\ c \in Channel
      /\ proc \in [Rec -> {"unborn", "running", "stopping", "exited", "reaped"}]
  BY DEF TypeOK, ThreadsOK, OthersOK, StartStep, StartBegin, StartPublish, StartNoSource,
     Placed, AtRest
<1>2. AfterStart(t).pc \in {"tick", "idle", "pop"} /\ (t \in Rec => AfterStart(t).pc = "pop")
  BY DEF AfterStart, Rest, Ending, On, At, Idle
<1>3. me.pc \in {"start", "publish", "nosource"}
  BY DEF StartStep, StartBegin, StartPublish, StartNoSource
<1>4. ASSUME LeaveStart(t), me.pc # "publish", proc' = proc
      PROVE  ProcessMoves
  <2>1. thr'[t] = AfterStart(t) /\ \A u \in Thread : u # t => thr'[u] = thr[u]
    BY <1>1, <1>4 DEF LeaveStart, Become
  <2>2. \A r \in Rec : WaitMove(r)
    BY <1>2, <1>3, <2>1 DEF WaitMove, Capturing
  <2>3. \A r \in Rec : ProcMove(r) /\ LaunchMove(r)
    BY <1>4, <2>1 DEF ProcMove, LaunchMove, Launching
  <2> QED
    BY <2>2, <2>3 DEF ProcessMoves
<1>5. CASE StartBegin(t)
  <2>1. t \in Rec => Owned(c)
    BY <1>5 DEF StartBegin, Ownership, CapturesOwn, Capturing, Owned
  <2>2. ASSUME ~Owned(c), NEW b, Become(t, [me EXCEPT !.pc = "nosource", !.paused = b]),
               proc' = proc
        PROVE  ProcessMoves
    <3>1. /\ \A u \in Thread : u # t => thr'[u] = thr[u]
          /\ t \notin Rec /\ me.pc = "start"
      BY <1>1, <1>5, <2>1, <2>2 DEF Become, StartBegin
    <3> QED
      BY <2>2, <3>1 DEF ProcessMoves, WaitMove, ProcMove, LaunchMove, Launching
  <2>3. ASSUME ~Owned(c), NEW r \in Rec, proc[r] = "unborn", proc' = [proc EXCEPT ![r] = "running"],
               Become(t, [me EXCEPT !.pc = "publish", !.rec = r])
        PROVE  ProcessMoves
    <3>1. [me EXCEPT !.pc = "publish", !.rec = r].pc = "publish"
            /\ [me EXCEPT !.pc = "publish", !.rec = r].rec = r
      BY <1>1 DEF Local
    <3>2. /\ \A u \in Thread : u # t => thr'[u] = thr[u]
          /\ t \notin Rec /\ me.pc = "start"
          /\ Launching(t, r)'
      BY <1>1, <1>5, <2>1, <2>3, <3>1 DEF Become, StartBegin, Launching
    <3> QED
      BY <1>1, <2>3, <3>2 DEF ProcessMoves, WaitMove, ProcMove, LaunchMove, Launching
  <2> QED
    BY <1>4, <1>5, <2>2, <2>3 DEF StartBegin
<1>6. CASE StartNoSource(t)
  BY <1>4, <1>6 DEF StartNoSource
<1>7. CASE StartPublish(t)
  <2> DEFINE r == me.rec
  <2>1. r \in Rec /\ t \notin Rec /\ ~Capturing(r)
    BY <1>7 DEF StartPublish, Ownership, LaunchesLocked
  <2>2. CASE Present(c)
    <3> DEFINE capture == [On("wait", c) EXCEPT !.rec = r]
    <3>1. capture.pc = "wait"
      BY DEF On, Idle
    <3>2. thr' = [thr EXCEPT ![r] = capture, ![t] = AfterStart(t)] /\ proc' = proc
      BY <1>7, <2>2 DEF StartPublish
    <3> HIDE DEF capture
    <3>3. thr'[r] = capture /\ \A u \in Thread : u \notin {r, t} => thr'[u] = thr[u]
      BY <1>1, <2>1, <3>2
    <3>4. me.pc = "publish"
      BY <1>7 DEF StartPublish
    <3>5. ASSUME NEW q \in Rec
          PROVE  WaitMove(q) /\ ProcMove(q)
      BY <2>1, <3>1, <3>2, <3>3 DEF WaitMove, ProcMove
    <3>6. ASSUME NEW q \in Rec, NEW u \in Thread, Launching(u, q)
          PROVE  Launching(u, q)' \/ thr'[q].pc = "wait"
      BY <2>1, <3>1, <3>3, <3>6 DEF Launching, Capturing
    <3> QED
      BY <3>5, <3>6 DEF ProcessMoves, LaunchMove
  <2>3. CASE ~Present(c)
    <3>1. Terminate(r) /\ \A u \in Thread : u # t => thr'[u] = thr[u]
      BY <1>1, <1>7, <2>3 DEF StartPublish, LeaveStart, Become
    <3>2. proc'[r] # "running"
      BY <1>1, <2>1, <3>1 DEF Terminate
    <3>3. \A q \in Rec : ProcMove(q)
      BY <2>1, <3>1, SignalMoves
    <3> QED
      BY <2>1, <3>1, <3>2, <3>3 DEF ProcessMoves, WaitMove, LaunchMove, Launching
  <2> QED
    BY <2>2, <2>3
<1> QED
  BY <1>5, <1>6, <1>7 DEF StartStep

\* Every step within one life of the worker moves like that.
LEMMA ProcessForms ==
  ASSUME TypeOK, Ownership, Next, ~Crash
  PROVE  ProcessMoves
<1>1. /\ thr \in [Thread -> Placed]
      /\ proc \in [Rec -> {"unborn", "running", "stopping", "exited", "reaped"}]
  BY DEF TypeOK, ThreadsOK, OthersOK
<1>2. ASSUME NEW k \in Prober, CheckStep(k)
      PROVE  ProcessMoves
  <2>1. proc' = proc /\ \A r \in Rec : thr'[r] = thr[r]
    <3>1. proc' = proc
      BY <1>2 DEF CheckStep, CheckAcquire, CheckLoad, CheckBusy, CheckBegin, CheckResolve,
         CheckOnline, CheckOffline
    <3> QED
      BY <1>1, <1>2, <3>1, CheckMoves DEF Become
  <2> QED
    BY <1>2, <2>1, CheckQuiet, QuietLaunches DEF ProcessMoves, WaitMove, ProcMove
<1>3. ASSUME NEW r \in Rec, CaptureStep(r)
      PROVE  ProcessMoves
  <2>1. \A u \in Thread : u # r => thr'[u] = thr[u]
    BY <1>1, <1>3, CaptureMoves DEF Become
  <2>2. thr[r].pc \in CapturePc /\ thr'[r].pc # "wait" /\ Capturing(r)
    BY <1>3, CaptureMoves, CaptureGoes DEF CapturePc, Capturing
  <2>3. \A q \in Rec : LaunchMove(q)
    BY <2>1, <2>2 DEF LaunchMove, Launching, CapturePc
  <2>4. CASE CaptureWait(r)
    <3>1. proc[r] = "exited" /\ proc' = [proc EXCEPT ![r] = "reaped"] /\ thr[r].pc = "wait"
      BY <2>4 DEF CaptureWait
    <3> QED
      BY <1>1, <2>1, <2>2, <2>3, <3>1 DEF ProcessMoves, WaitMove, ProcMove
  <2>5. CASE ~CaptureWait(r)
    <3>1. proc' = proc /\ thr[r].pc # "wait"
      BY <1>3, <2>5 DEF CaptureStep, CaptureLoad, CaptureSettle, CaptureClassify,
         CaptureReacquire, CaptureFail, CaptureForget, CapturePop
    <3> QED
      BY <2>1, <2>2, <2>3, <3>1 DEF ProcessMoves, WaitMove, ProcMove
  <2> QED
    BY <2>4, <2>5
<1>4. ASSUME NEW t \in Rec \cup {Sched}, ConvertStep(t)
      PROVE  ProcessMoves
  <2>1. proc' = proc
    BY <1>4 DEF ConvertStep, ConvertBegin, ConvertFail, ConvertReplace, ConvertPrune, ConvertRecord
  <2>2. \A u \in Thread : u # t => thr'[u] = thr[u]
    BY <1>1, <1>4, ConvertMoves DEF Become
  <2>3. thr[t].pc \notin {"wait", "idle"} /\ thr'[t].pc # "wait"
    BY <1>4, ConvertMoves, ConvertGoes DEF ConvertPc
  <2> QED
    BY <1>4, <2>1, <2>2, <2>3, ConvertQuiet, QuietLaunches DEF ProcessMoves, WaitMove, ProcMove,
       Capturing
<1>5. CASE SchedStep \/ CommandStep
  <2>1. \A r \in Rec : WaitMove(r)
    BY <1>5, SchedThreads DEF SchedAlone, WaitMove
  <2>2. \A r \in Rec : ProcMove(r)
    BY <1>5, SchedSignals, SignalMoves DEF ProcMove
  <2> QED
    BY <1>5, <2>1, <2>2, SchedQuiet, QuietLaunches DEF ProcessMoves
<1>6. CASE ApiStep
  <2>1. thr' = thr /\ proc' = proc
    BY <1>6 DEF ApiStep, ApiUpsert, ApiDelete, ApiReadForEdit, ApiReadForDelete, ApiSetPaused
  <2> QED
    BY <2>1 DEF ProcessMoves, WaitMove, ProcMove, LaunchMove, Launching
<1>7. ASSUME NEW r \in Rec, ProcessStep(r)
      PROVE  ProcessMoves
  <2>1. thr' = thr
    BY <1>7 DEF ProcessStep, ProcessWrites, ProcessExits
  <2>2. \A q \in Rec : ProcMove(q)
    BY <1>1, <1>7 DEF ProcessStep, ProcessWrites, ProcessExits, ProcMove
  <2> QED
    BY <2>1, <2>2 DEF ProcessMoves, WaitMove, LaunchMove, Launching
<1> QED
  BY <1>2, <1>3, <1>4, <1>5, <1>6, <1>7, StartProcess DEF Next

\* What a record of c may name within one life of the worker: a recording that
\* is over, or one whose capture thread still waits for it.
Backed(r, c) == proc[r] = "reaped" \/ (thr[r].pc = "wait" /\ thr[r].chan = c)

\* A finalization goes on with a process that is reaped.
FinishedReaped ==
  \A r \in Rec : Capturing(r) /\ thr[r].pc # "wait" => proc[r] = "reaped"

\* Backed is for the life of the worker.
LEMMA BackedStays ==
  ASSUME ProcessMoves, NEW r \in Rec, NEW c, Backed(r, c)
  PROVE  Backed(r, c)'
BY DEF ProcessMoves, WaitMove, ProcMove, Backed, Capturing

\* FinishedReaped holds across restarts, since finalizations do not.
LEMMA FinishedReapedStep ==
  ASSUME TypeOK, Ownership, Next, FinishedReaped
  PROVE  FinishedReaped'
<1>1. CASE Crash
  <2>1. \A r \in Rec : thr'[r].pc = "idle"
    BY <1>1 DEF Crash, Idle
  <2> QED
    BY <2>1 DEF FinishedReaped, Capturing
<1>2. CASE ~Crash
  BY <1>2, ProcessForms DEF ProcessMoves, WaitMove, ProcMove, FinishedReaped, Capturing
<1> QED
  BY <1>1, <1>2

\* Within one life of the worker a running process has a capture thread that
\* waits for it, or is about to get one.
RunningWatched ==
  crashes = 0 => \A r \in Rec : proc[r] = "running" =>
    thr[r].pc = "wait" \/ \E t \in Thread : Launching(t, r)

\* Only a restart counts.
LEMMA CrashCounts ==
  ASSUME TypeOK, Next, crashes' = 0
  PROVE  crashes = 0 /\ ~Crash
<1>1. crashes \in Nat
  BY DEF TypeOK, OthersOK
<1>2. CASE Crash
  BY <1>1, <1>2 DEF Crash
<1>3. CASE ~Crash
  <2>1. ASSUME NEW k \in Thread, \/ CheckStep(k) \/ StartStep(k) \/ ConvertStep(k)
        PROVE  crashes' = crashes
    BY <2>1 DEF CheckStep, CheckAcquire, CheckLoad, CheckBusy, CheckBegin, CheckResolve,
       CheckOnline, CheckOffline, StartStep, StartBegin, StartPublish, StartNoSource,
       ConvertStep, ConvertBegin, ConvertFail, ConvertReplace, ConvertPrune, ConvertRecord
  <2>2. ASSUME NEW r \in Rec, CaptureStep(r) \/ ProcessStep(r)
        PROVE  crashes' = crashes
    BY <2>2 DEF CaptureStep, CaptureWait, CaptureLoad, CaptureSettle, CaptureClassify,
       CaptureReacquire, CaptureFail, CaptureForget, CapturePop, ProcessStep, ProcessWrites,
       ProcessExits
  <2>3. ASSUME SchedStep \/ CommandStep
        PROVE  crashes' = crashes
    BY <2>3 DEF SchedStep, CommandStep, SchedBoot, SchedList, SweepDone, SchedRecover, SchedAdopt,
       SchedReset, WarmupDone, VisitAlive, VisitSkip, VisitStale, VisitDue, WarmupChannel,
       CommandTrigger, CommandStop, CommandRemove, CommandCheck, CommandResume, CommandPause
  <2>4. ASSUME ApiStep
        PROVE  crashes' = crashes
    BY <2>4 DEF ApiStep, ApiUpsert, ApiDelete, ApiReadForEdit, ApiReadForDelete, ApiSetPaused
  <2> QED
    BY <1>3, <2>1, <2>2, <2>3, <2>4 DEF Next
<1> QED
  BY <1>2, <1>3

\* A launch ends with a capture thread or with a signal.
LEMMA RunningWatchedStep ==
  ASSUME TypeOK, Ownership, Next, RunningWatched
  PROVE  RunningWatched'
<1> SUFFICES ASSUME crashes' = 0, NEW r \in Rec, proc'[r] = "running"
             PROVE  thr'[r].pc = "wait" \/ \E t \in Thread : Launching(t, r)'
  BY DEF RunningWatched
<1>1. crashes = 0 /\ WaitMove(r) /\ ProcMove(r) /\ LaunchMove(r)
  BY CrashCounts, ProcessForms DEF ProcessMoves
<1>2. CASE proc[r] = "running"
  BY <1>1, <1>2 DEF RunningWatched, WaitMove, LaunchMove
<1>3. CASE proc[r] # "running"
  BY <1>1, <1>3 DEF ProcMove
<1> QED
  BY <1>2, <1>3

-----------------------------------------------------------------------------
(* What the records name                                                   *)

\* The writes of a row's pid: it names no new process but that of a capture
\* thread just started, or is the row of the API.
PidWrite(c) ==
  FromApi(c) \/ \A r \in Rec : db'[c] # None /\ db'[c].pid = r =>
                  Backed(r, c)' \/ (db[c] # None /\ db[c].pid = r)

\* The writes of a row's file, in the same way.
FileWrite(c) ==
  FromApi(c) \/ \A r \in Rec : db'[c] # None /\ db'[c].file = r =>
                  Backed(r, c)' \/ (db[c] # None /\ db[c].file = r)

\* Updates of status and paused leave the pid alone, settling clears it.
LEMMA PidKept ==
  ASSUME RowsOK, NEW c \in Channel, NEW d \in Channel, NEW s, NEW b \in BOOLEAN
  PROVE  /\ db' = db => SamePid(db'[d], db[d])
         /\ SetStatus(c, s) => SamePid(db'[d], db[d])
         /\ Settle(c, s) => SamePid(db'[d], db[d])
         /\ Present(c) /\ SetPaused(c, b) => SamePid(db'[d], db[d])
<1>1. None \notin Rec
  OBVIOUS
<1>2. /\ db' = db => SamePid(db'[d], db[d])
      /\ SetStatus(c, s) => SamePid(db'[d], db[d])
      /\ Present(c) /\ SetPaused(c, b) => SamePid(db'[d], db[d])
  BY DEF RowsOK, SetStatus, SetPaused, Present, Row, SamePid
<1>3. ASSUME Settle(c, s), Present(c)
      PROVE  SamePid(db'[d], db[d])
  <2>1. db[c] \in Row /\ db' = [db EXCEPT ![c] = [db[c] EXCEPT !.status = s, !.pid = None]]
    BY <1>3 DEF RowsOK, Settle, Present
  <2>2. [db[c] EXCEPT !.status = s, !.pid = None].pid = None
    BY <2>1 DEF Row
  <2>3. d # c => db'[d] = db[d]
    BY <2>1 DEF RowsOK
  <2>4. db'[c].pid = None
    BY <2>1, <2>2 DEF RowsOK
  <2> QED
    BY <1>1, <2>3, <2>4 DEF SamePid
<1>4. ASSUME Settle(c, s), ~Present(c)
      PROVE  SamePid(db'[d], db[d])
  BY <1>4 DEF Settle, SamePid
<1> QED
  BY <1>2, <1>3, <1>4

\* The row a publication writes, and the thread that backs it.
LEMMA PublishBacks ==
  ASSUME TypeOK, Ownership, NEW t \in Thread, StartPublish(t), NEW d \in Channel
  PROVE  \/ SamePid(db'[d], db[d]) /\ SameFile(db'[d], db[d])
         \/ \E r \in Rec : Backed(r, d)' /\ db'[d].pid = r /\ db'[d].file = r
<1> DEFINE c == thr[t].chan
<1>1. PICK r \in Rec : r = thr[t].rec
  BY DEF StartPublish, Ownership, LaunchesLocked
<1>2. /\ thr \in [Thread -> Placed] /\ c \in Channel /\ RowsOK /\ t \notin Rec
      /\ db \in [Channel -> Row \cup {None}]
  BY DEF TypeOK, ThreadsOK, RowsOK, StartPublish, Placed, AtRest, Ownership, LaunchesLocked
<1>3. CASE ~Present(c)
  BY <1>3 DEF StartPublish, SamePid, SameFile
<1>4. CASE Present(c) /\ d # c
  <2>1. db'[d] = db[d]
    BY <1>2, <1>4 DEF StartPublish
  <2> QED
    BY <2>1 DEF SamePid, SameFile
<1>5. CASE Present(c) /\ d = c
  <2>1. db' = [db EXCEPT ![c].status = "recording", ![c].pid = r, ![c].file = r, ![c].mp4 = FALSE]
    BY <1>1, <1>5 DEF StartPublish
  <2>2. db[c] \in Row
    BY <1>2, <1>5 DEF Present
  <2>3. db'[c] = [db[c] EXCEPT !.status = "recording", !.pid = r, !.file = r, !.mp4 = FALSE]
    BY <1>2, <2>1, <2>2
  <2>4. db'[c].file = r /\ db'[c].pid = r
    BY <2>2, <2>3 DEF Row
  <2>5. thr'[r] = [On("wait", c) EXCEPT !.rec = r]
    BY <1>1, <1>2, <1>5 DEF StartPublish
  <2>6. thr'[r].pc = "wait" /\ thr'[r].chan = c
    BY <2>5 DEF On, Idle
  <2> QED
    BY <1>5, <2>4, <2>6 DEF Backed
<1> QED
  BY <1>3, <1>4, <1>5

\* Every step writes the pids of the rows in one of these ways.
LEMMA PidWrites ==
  ASSUME TypeOK, Ownership, Next, NEW d \in Channel
  PROVE  PidWrite(d)
<1>1. RowsOK /\ thr \in [Thread -> Placed]
  BY DEF TypeOK, ThreadsOK
<1>2. SamePid(db'[d], db[d]) => PidWrite(d)
  BY DEF PidWrite, SamePid
<1>3. ASSUME NEW k \in Prober, CheckStep(k)
      PROVE  PidWrite(d)
  BY <1>1, <1>2, <1>3, CheckMoves, PidKept DEF CheckStep, CheckAcquire, CheckLoad, CheckBusy,
     CheckBegin, CheckResolve, CheckOnline, CheckOffline
<1>4. ASSUME NEW t \in Thread, StartStep(t)
      PROVE  PidWrite(d)
  <2>1. thr[t].chan \in Channel
    BY <1>1, <1>4 DEF StartStep, StartBegin, StartPublish, StartNoSource, Placed, AtRest
  <2>2. CASE StartPublish(t)
    BY <1>2, <2>2, PublishBacks DEF PidWrite
  <2>3. CASE StartBegin(t) \/ StartNoSource(t)
    BY <1>1, <1>2, <2>1, <2>3, PidKept DEF StartBegin, StartNoSource
  <2> QED
    BY <1>4, <2>2, <2>3 DEF StartStep
<1>5. ASSUME NEW r \in Rec, CaptureStep(r)
      PROVE  PidWrite(d)
  <2>1. thr[r].chan \in Channel
    BY <1>5, CaptureMoves
  <2>2. CASE CaptureForget(r)
    BY <1>1, <1>2, <2>1, <2>2 DEF CaptureForget, RowsOK, Present, Row, SamePid
  <2>3. CASE CaptureSettle(r) \/ CaptureFail(r)
    BY <1>1, <1>2, <2>1, <2>3, PidKept DEF CaptureSettle, CaptureFail
  <2> QED
    BY <1>1, <1>2, <1>5, <2>2, <2>3, PidKept DEF CaptureStep, CaptureWait, CaptureLoad,
       CaptureClassify, CaptureReacquire, CapturePop
<1>6. ASSUME NEW t \in Rec \cup {Sched}, ConvertStep(t)
      PROVE  PidWrite(d)
  <2>1. thr[t].chan \in Channel
    BY <1>6, ConvertMoves
  <2>2. CASE ConvertRecord(t)
    BY <1>1, <1>2, <2>1, <2>2 DEF ConvertRecord, RowsOK, Present, Row, SamePid
  <2> QED
    BY <1>1, <1>2, <1>6, <2>2, PidKept DEF ConvertStep, ConvertBegin, ConvertFail,
       ConvertReplace, ConvertPrune
<1>7. CASE SchedStep
  <2>1. CASE SchedReset
    <3>1. thr[Sched].chan \in Channel
      BY <1>1, <2>1 DEF SchedReset, Sched_at, Placed, AtRest
    <3> QED
      BY <1>1, <1>2, <2>1, <3>1, PidKept DEF SchedReset
  <2>2. CASE SchedAdopt
    <3> DEFINE me == thr[Sched]
    <3>1. me.chan \in Channel /\ None \notin Rec
      BY <1>1, <2>2 DEF SchedAdopt, Sched_at, Placed, AtRest
    <3>2. CASE Present(me.chan)
      <4>0. db[me.chan] \in Row /\ db \in [Channel -> Row \cup {None}]
        BY <1>1, <3>1, <3>2 DEF RowsOK, Present
      <4>1. /\ db[me.chan] \in Row
            /\ db' = [db EXCEPT ![me.chan] = [db[me.chan] EXCEPT !.status = Unpaused(me.paused),
                                        !.pid = None, !.file = me.rec, !.mp4 = TRUE]]
        BY <2>2, <3>1, <3>2, <4>0 DEF SchedAdopt
      <4>2. [db[me.chan] EXCEPT !.status = Unpaused(me.paused), !.pid = None, !.file = me.rec,
                                !.mp4 = TRUE].pid = None
        BY <4>1 DEF Row
      <4>3. db'[me.chan].pid = None
        BY <1>1, <3>1, <4>1, <4>2 DEF RowsOK
      <4>4. d # me.chan => db'[d] = db[d]
        BY <1>1, <4>1 DEF RowsOK
      <4> QED
        BY <1>2, <3>1, <4>3, <4>4 DEF SamePid
    <3>3. CASE ~Present(me.chan)
      BY <1>2, <2>2, <3>3 DEF SchedAdopt, SamePid
    <3> QED
      BY <3>2, <3>3
  <2> QED
    BY <1>1, <1>2, <1>7, <2>1, <2>2, PidKept DEF SchedStep, SchedBoot, SchedList,
       SweepDone, SchedRecover, WarmupDone, VisitAlive, VisitSkip, VisitStale, VisitDue, WarmupChannel
<1>8. CASE CommandStep
  <2>1. CASE CommandRemove
    BY <1>1, <1>2, <2>1 DEF CommandRemove, RowsOK, SamePid
  <2> QED
    BY <1>1, <1>2, <1>8, <2>1, PidKept DEF CommandStep, CommandTrigger, CommandStop, CommandCheck,
       CommandResume, CommandPause
<1>9. CASE ApiStep
  <2>1. CASE ApiDelete
    BY <1>1, <1>2, <2>1 DEF ApiDelete, RowsOK, SamePid
  <2>2. CASE ApiUpsert
    BY <1>1, <2>2 DEF ApiUpsert, RowsOK, PidWrite, FromApi
  <2> QED
    BY <1>1, <1>2, <1>9, <2>1, <2>2, PidKept DEF ApiStep, ApiReadForEdit, ApiReadForDelete, ApiSetPaused
<1>10. CASE Crash \/ \E r \in Rec : ProcessStep(r)
  BY <1>1, <1>2, <1>10, PidKept DEF Crash, ProcessStep, ProcessWrites, ProcessExits
<1> QED
  BY <1>3, <1>4, <1>5, <1>6, <1>7, <1>8, <1>9, <1>10 DEF Next

\* A record names what is Backed for its channel.
Traced(row, c) ==
  \A r \in Rec : row # None /\ (row.pid = r \/ row.file = r) => Backed(r, c)

\* So do, within one life of the worker, the rows of the table, of the
\* scheduler's snapshot, and the one the API is about to write back.
RowsTraced ==
  crashes = 0 =>
    /\ \A c \in Channel : Traced(db[c], c) /\ Traced(sweep.snap[c], c)
    /\ api.op = "edit" => Traced(api.row, api.chan)

\* Recovery converts a recording, whose process is reaped.
RecoveryTraced ==
  /\ thr[Sched].pc \in ConvertPc => thr[Sched].rec \in Rec
  /\ crashes = 0 => \A r \in Rec : thr[Sched].pc \in RecoveryPc /\ thr[Sched].rec = r
                                     => proc[r] = "reaped"

\* Where recovery is after a step, and on what, in the cases that matter.
LEMMA RecoveryConverts ==
  ASSUME TypeOK, TypeOK', Ownership, Next, thr'[Sched].pc \in ConvertPc
  PROVE  \/ thr'[Sched] = thr[Sched]
         \/ thr[Sched].pc \in ConvertPc /\ thr'[Sched].rec = thr[Sched].rec
         \/ thr'[Sched].rec \in Rec
<1>1. thr \in [Thread -> Placed] /\ ConvertPc \subseteq RecoveryPc
  BY DEF TypeOK, ThreadsOK, RecoveryPc
<1>2. ASSUME NEW k \in Prober, CheckStep(k)
      PROVE  thr'[Sched] = thr[Sched]
  <2>1. k = Sched => thr'[Sched].pc \in CheckPc \cup {"start", "tick", "idle"}
    BY <1>1, <1>2, CheckMoves DEF Become
  <2>2. k # Sched => thr'[Sched] = thr[Sched]
    BY <1>1, <1>2, CheckMoves DEF Become
  <2> QED
    BY <2>1, <2>2 DEF ConvertPc, CheckPc
<1>3. ASSUME NEW t \in Rec \cup {Sched}, ConvertStep(t)
      PROVE  \/ thr'[Sched] = thr[Sched]
             \/ thr[Sched].pc \in ConvertPc /\ thr'[Sched].rec = thr[Sched].rec
  <2>1. At("tick").pc \notin ConvertPc
    BY DEF At, Idle, ConvertPc
  <2> QED
    BY <1>1, <1>3, <2>1, ConvertMoves DEF Become, Kept
<1>4. ASSUME SchedRecover
      PROVE  thr'[Sched].rec \in Rec
  <2> DEFINE me == thr[Sched]
             r == me.rec
  <2>1. r # None
    <3>1. CASE r = None
      <4>1. [me EXCEPT !.why = "salvage", !.pc = "reset"].pc = "reset"
        BY <1>1 DEF Placed, Local
      <4>2. Become(Sched, [me EXCEPT !.why = "salvage", !.pc = "reset"])
        BY <1>4, <3>1 DEF SchedRecover
      <4>3. thr'[Sched].pc = "reset"
        BY <1>1, <4>1, <4>2 DEF Become
      <4> QED
        BY <4>3 DEF ConvertPc
    <3> QED
      BY <3>1
  <2>2. r \in Rec
    BY <1>1, <2>1 DEF Placed, Local
  <2>3. \A p : [me EXCEPT !.why = "salvage", !.pc = p].rec = r
    BY <1>1 DEF Placed, Local
  <2> QED
    BY <1>1, <1>4, <2>2, <2>3 DEF SchedRecover, Become
<1>5. CASE SchedStep \/ CommandStep
  <2>1. ASSUME NEW c \in Channel, VisitStale(c)
        PROVE  FALSE
    <3>1. thr'[Sched].pc = "recover"
      BY <1>1, <2>1 DEF VisitStale, Become, On, Idle
    <3> QED
      BY <3>1 DEF ConvertPc
  <2> QED
    BY <1>1, <1>4, <1>5, <2>1, SchedQuiet DEF Recovers
<1>6. ASSUME NEW t \in Thread, StartStep(t)
      PROVE  thr'[Sched] = thr[Sched]
  <2>1. t = Sched => thr'[Sched].pc \notin ConvertPc
    BY <1>6, StartGoes DEF ConvertPc
  <2> QED
    BY <1>6, <2>1, StartGoes
<1>7. ASSUME NEW r \in Rec, CaptureStep(r) \/ ProcessStep(r)
      PROVE  thr'[Sched] = thr[Sched]
  BY <1>1, <1>7, CaptureMoves DEF Become, ProcessStep, ProcessWrites, ProcessExits
<1>8. CASE ApiStep \/ Crash
  <2>1. Crash => thr'[Sched].pc = "boot"
    BY DEF Crash, At, Idle
  <2> QED
    BY <1>8, <2>1, ApiQuiet DEF ConvertPc
<1> QED
  BY <1>2, <1>3, <1>5, <1>6, <1>7, <1>8 DEF Next

\* A conversion writes the file of what its thread is done with.
LEMMA RecordBacks ==
  ASSUME TypeOK, Ownership, FinishedReaped, RecoveryTraced, ProcessMoves, crashes = 0,
         NEW t \in Rec \cup {Sched},
         ConvertRecord(t) \/ (t = Sched /\ SchedAdopt),
         NEW r \in Rec, NEW d \in Channel, db'[d] # None, db'[d].file = r
  PROVE  Backed(r, d)' \/ (db[d] # None /\ db[d].file = r)
<1> DEFINE me == thr[t]
           c == me.chan
<1>1. /\ thr \in [Thread -> Placed] /\ RowsOK /\ c \in Channel /\ db \in [Channel -> Row \cup {None}]
      /\ me.pc \in {"record", "adopt"} /\ (me.pc = "adopt" => t = Sched)
  BY DEF TypeOK, ThreadsOK, RowsOK, ConvertRecord, SchedAdopt, Sched_at, Placed, AtRest
<1>2. CASE ~Present(c) \/ d # c
  BY <1>1, <1>2 DEF ConvertRecord, SchedAdopt
<1>3. CASE Present(c) /\ d = c
  <2>1. db'[d].file = me.rec
    <3>1. db[c] \in Row
      BY <1>1, <1>3 DEF Present
    <3>2. CASE ConvertRecord(t)
      BY <1>1, <1>3, <3>1, <3>2 DEF ConvertRecord, Row
    <3>3. CASE t = Sched /\ SchedAdopt
      <4>1. db' = [db EXCEPT ![c] = [db[c] EXCEPT !.status = Unpaused(me.paused), !.pid = None,
                                                  !.file = me.rec, !.mp4 = TRUE]]
        BY <1>1, <1>3, <3>3 DEF SchedAdopt
      <4>2. [db[c] EXCEPT !.status = Unpaused(me.paused), !.pid = None,
                          !.file = me.rec, !.mp4 = TRUE].file = me.rec
        BY <3>1 DEF Row
      <4> QED
        BY <1>1, <1>3, <4>1, <4>2
    <3> QED
      BY <3>2, <3>3
  <2>2. proc[r] = "reaped"
    <3>1. CASE t = Sched
      BY <1>1, <2>1, <3>1 DEF RecoveryTraced, RecoveryPc, ConvertPc
    <3>2. CASE t \in Rec
      <4>1. Capturing(t) /\ me.pc # "wait" /\ me.rec = t
        BY <1>1, <3>2 DEF Capturing, Ownership, CapturesOwn
      <4> QED
        BY <2>1, <3>2, <4>1 DEF FinishedReaped
    <3> QED
      BY <3>1, <3>2
  <2> QED
    BY <2>2, BackedStays DEF Backed
<1> QED
  BY <1>2, <1>3

\* Every step writes the files of the rows in one of these ways.
LEMMA FileWrites ==
  ASSUME TypeOK, Ownership, Next, ProcessMoves, FinishedReaped, RecoveryTraced, crashes = 0,
         NEW d \in Channel
  PROVE  FileWrite(d)
<1>1. SameFile(db'[d], db[d]) \/ FromApi(d) => FileWrite(d)
  BY DEF FileWrite, SameFile
<1>2. ASSUME NEW t \in Thread, StartPublish(t)
      PROVE  FileWrite(d)
  BY <1>1, <1>2, PublishBacks DEF FileWrite
<1>3. ASSUME NEW t \in Rec \cup {Sched}, ConvertRecord(t) \/ (t = Sched /\ SchedAdopt)
      PROVE  FileWrite(d)
  BY <1>3, RecordBacks DEF FileWrite
<1> QED
  BY <1>1, <1>2, <1>3, FileMoves DEF FileMove

\* Every step within one life of the worker keeps the rows traced.
LEMMA RowsTracedStep ==
  ASSUME TypeOK, TypeOK', Ownership, Next, FinishedReaped, RecoveryTraced, RowsTraced
  PROVE  RowsTraced'
<1> SUFFICES ASSUME crashes' = 0
             PROVE  /\ \A c \in Channel : Traced(db[c], c)' /\ Traced(sweep.snap[c], c)'
                    /\ api'.op = "edit" => Traced(api.row, api.chan)'
  BY DEF RowsTraced
<1>1. crashes = 0 /\ ProcessMoves
  BY CrashCounts, ProcessForms
<1>2. \A r \in Rec : \A c : Backed(r, c) => Backed(r, c)'
  BY <1>1, BackedStays
<1>3. ASSUME NEW c \in Channel
      PROVE  Traced(db[c], c)'
  <2>1. PidWrite(c) /\ FileWrite(c)
    BY <1>1, PidWrites, FileWrites
  <2>2. Traced(db[c], c)
    BY <1>1 DEF RowsTraced
  <2>3. CASE FromApi(c)
    <3>1. Traced(db'[c], c)
      BY <1>1, <2>3 DEF FromApi, RowsTraced
    <3> QED
      BY <1>2, <3>1 DEF Traced
  <2>4. CASE ~FromApi(c)
    BY <1>2, <2>1, <2>2, <2>4 DEF PidWrite, FileWrite, Traced
  <2> QED
    BY <2>3, <2>4
<1>4. ASSUME NEW c \in Channel
      PROVE  Traced(sweep.snap[c], c)'
  <2>1. sweep'.snap[c] \in {None, sweep.snap[c], db[c]}
    BY SnapshotStep
  <2>2. Traced(sweep.snap[c], c) /\ Traced(db[c], c)
    BY <1>1 DEF RowsTraced
  <2> QED
    BY <1>2, <2>1, <2>2 DEF Traced
<1>5. ASSUME api'.op = "edit"
      PROVE  Traced(api.row, api.chan)'
  <2>1. CASE api' = api
    BY <1>1, <1>2, <1>5, <2>1 DEF RowsTraced, Traced
  <2>2. CASE SameFile(api'.row, db[api'.chan]) /\ SamePid(api'.row, db[api'.chan])
    <3>1. api'.chan \in Channel
      BY <1>5 DEF TypeOK, OthersOK, ApiCall, NoApi
    <3>2. Traced(db[api'.chan], api'.chan)
      BY <1>1, <3>1 DEF RowsTraced
    <3> QED
      BY <1>2, <2>2, <3>2 DEF Traced, SameFile, SamePid
  <2> QED
    BY <1>5, <2>1, <2>2, ApiReadStep
<1> QED
  BY <1>3, <1>4, <1>5

\* Recovery starts on a row whose recording no thread waits for.
LEMMA RecoveryTracedStep ==
  ASSUME TypeOK, TypeOK', Ownership, Next, RowsTraced, RecoveryTraced
  PROVE  RecoveryTraced'
<1>1. thr'[Sched].pc \in ConvertPc => thr'[Sched].rec \in Rec
  BY RecoveryConverts DEF RecoveryTraced
<1>2. ASSUME crashes' = 0, NEW r \in Rec, thr'[Sched].pc \in RecoveryPc, thr'[Sched].rec = r
      PROVE  proc'[r] = "reaped"
  <2>1. crashes = 0 /\ ProcessMoves
    BY <1>2, CrashCounts, ProcessForms
  <2>2. proc[r] = "reaped" => proc'[r] = "reaped"
    BY <2>1 DEF ProcessMoves, ProcMove
  <2>3. CASE \/ thr'[Sched] = thr[Sched]
             \/ thr[Sched].pc \in RecoveryPc /\ thr'[Sched].rec = thr[Sched].rec
    BY <1>2, <2>1, <2>2, <2>3 DEF RecoveryTraced
  <2>4. ASSUME NEW c \in Channel, VisitStale(c)
        PROVE  proc[r] = "reaped"
    <3>1. thr'[Sched].rec = sweep.snap[c].file
      BY <2>4 DEF TypeOK, ThreadsOK, VisitStale, Become, On, Idle
    <3>2. sweep.snap[c] # None
      BY <2>4 DEF TypeOK, ThreadsOK, SweepListed, VisitStale, Visiting, Sched_at
    <3>3. Backed(r, c)
      BY <1>2, <2>1, <3>1, <3>2 DEF RowsTraced, Traced
    <3>4. ~(thr[r].pc = "wait" /\ thr[r].chan = c)
      BY <2>4 DEF VisitStale, Owned, Ownership, CapturesOwn, Capturing
    <3> QED
      BY <3>3, <3>4 DEF Backed
  <2> QED
    BY <1>2, <2>2, <2>3, <2>4, RecoveryForms DEF RecoveryMove
<1> QED
  BY <1>1, <1>2 DEF RecoveryTraced

\* The inductive invariant about the processes.
Watching == FinishedReaped /\ RunningWatched /\ RowsTraced /\ RecoveryTraced

\* At the start there are no processes and no names.
LEMMA WatchingInit == Init => Watching
<1> SUFFICES ASSUME Init PROVE Watching
  OBVIOUS
<1>1. /\ \A r \in Rec : thr[r].pc = "idle" /\ proc[r] = "unborn"
      /\ thr[Sched].pc = "boot"
  BY DEF Init, At, Idle
<1>2. FinishedReaped /\ RunningWatched
  BY <1>1 DEF FinishedReaped, RunningWatched, Capturing
<1>3. RecoveryTraced
  BY <1>1 DEF RecoveryTraced, RecoveryPc, ConvertPc
<1>4. RowsTraced
  <2>1. None \notin Rec
    OBVIOUS
  <2>2. /\ \A c \in Channel : db[c].pid = None /\ db[c].file = None /\ sweep.snap[c] = None
        /\ api.op = "none"
    BY DEF Init, NoApi
  <2> QED
    BY <2>1, <2>2 DEF RowsTraced, Traced
<1> QED
  BY <1>2, <1>3, <1>4 DEF Watching

\* Every step keeps it.
LEMMA WatchingNext == TypeOK /\ TypeOK' /\ Ownership /\ Watching /\ [Next]_vars => Watching'
<1> SUFFICES ASSUME TypeOK, TypeOK', Ownership, Watching, [Next]_vars PROVE Watching'
  OBVIOUS
<1>1. CASE UNCHANGED vars
  BY <1>1 DEF vars, Watching, FinishedReaped, RunningWatched, RowsTraced, RecoveryTraced, Traced,
     Backed, Capturing, Launching
<1>2. CASE Next
  BY <1>2, FinishedReapedStep, RunningWatchedStep, RowsTracedStep, RecoveryTracedStep DEF Watching
<1> QED
  BY <1>1, <1>2

\* Finalization and recovery work on processes that are reaped; what runs is
\* waited for; records name only what is reaped or waited for.
THEOREM WatchingHolds == Spec => []Watching
BY TypeCorrect, OwnershipHolds, WatchingInit, WatchingNext, PTL DEF Spec

\* Within one life of the worker no recorder process runs unregistered: the
\* capture thread that waits for it, and the launch before it, own a channel.
THEOREM NoStrayHolds == Spec => []NoStray
<1>1. TypeOK /\ Ownership /\ Watching => NoStray
  <2> SUFFICES ASSUME TypeOK, Ownership, Watching, NEW r \in Rec, proc[r] = "running", crashes = 0
               PROVE  \E c \in Channel : active[c] = r
    BY DEF NoStray
  <2>1. thr \in [Thread -> Placed] /\ "wait" \notin AtRest /\ "publish" \notin AtRest
    BY DEF TypeOK, ThreadsOK, AtRest
  <2>2. CASE thr[r].pc = "wait"
    BY <2>1, <2>2 DEF Ownership, CapturesOwn, Capturing, Placed
  <2>3. ASSUME NEW t \in Thread, Launching(t, r)
        PROVE  \E c \in Channel : active[c] = r
    BY <2>1, <2>3 DEF Ownership, LaunchesLocked, Launching, Placed
  <2> QED
    BY <2>2, <2>3 DEF Watching, RunningWatched
<1> QED
  BY <1>1, TypeCorrect, OwnershipHolds, WatchingHolds, PTL

\* Within one life of the worker a conversion reads a recording whose process
\* has ended, also when recovery works on a snapshot that is minutes old.
THEOREM NeverRemuxLiveHolds == Spec => []NeverRemuxLive
<1>1. Ownership /\ Watching => NeverRemuxLive
  <2> SUFFICES ASSUME Ownership, Watching, NEW t \in Rec \cup {Sched}, Remuxing(t), crashes = 0
               PROVE  proc[thr[t].rec] \notin {"running", "stopping"}
    BY DEF NeverRemuxLive
  <2>1. CASE t \in Rec
    <3>1. Capturing(t) /\ thr[t].pc # "wait" /\ thr[t].rec = t
      BY <2>1 DEF Remuxing, ConvertPc, Capturing, Ownership, CapturesOwn
    <3> QED
      BY <2>1, <3>1 DEF Watching, FinishedReaped
  <2>2. CASE t = Sched
    BY <2>2 DEF Remuxing, Watching, RecoveryTraced, RecoveryPc
  <2> QED
    BY <2>1, <2>2
<1> QED
  BY <1>1, OwnershipHolds, WatchingHolds, PTL

-----------------------------------------------------------------------------
(* The files of a recording                                                *)

\* A thread outside start_recording is left alone by it, or is the capture
\* thread it starts.
LEMMA StartOthers ==
  ASSUME TypeOK, Ownership, NEW t \in Thread, StartStep(t), NEW u \in Thread, u # t
  PROVE  thr'[u] = thr[u] \/ thr'[u].pc = "wait"
<1>1. thr \in [Thread -> Placed]
  BY DEF TypeOK, ThreadsOK
<1>2. CASE StartBegin(t) \/ StartNoSource(t)
  BY <1>1, <1>2 DEF StartBegin, StartNoSource, LeaveStart, Become
<1>3. CASE StartPublish(t)
  <2> DEFINE capture == [On("wait", thr[t].chan) EXCEPT !.rec = thr[t].rec]
  <2>1. capture.pc = "wait" /\ thr[t].rec \in Rec
    BY <1>3 DEF On, Idle, StartPublish, Ownership, LaunchesLocked
  <2>2. CASE ~Present(thr[t].chan)
    BY <1>1, <1>3, <2>2 DEF StartPublish, LeaveStart, Become
  <2>3. CASE Present(thr[t].chan)
    <3>1. thr' = [thr EXCEPT ![thr[t].rec] = capture, ![t] = AfterStart(t)]
      BY <1>3, <2>3 DEF StartPublish
    <3> HIDE DEF capture
    <3> QED
      BY <1>1, <2>1, <3>1
  <2> QED
    BY <2>2, <2>3
<1> QED
  BY <1>2, <1>3 DEF StartStep

\* Only os.replace takes a conversion to the deletion of its source.
LEMMA PruneReached ==
  ASSUME TypeOK, Ownership, Next, NEW t \in Rec \cup {Sched}, thr'[t].pc = "prune"
  PROVE  thr'[t] = thr[t] \/ ConvertReplace(t)
<1>1. thr \in [Thread -> Placed]
  BY DEF TypeOK, ThreadsOK
<1>2. ASSUME NEW k \in Prober, CheckStep(k)
      PROVE  thr'[t] = thr[t]
  <2>1. t = k => thr'[t].pc \in CheckPc \cup {"start", "tick", "idle"}
    BY <1>1, <1>2, CheckMoves DEF Become
  <2>2. t # k => thr'[t] = thr[t]
    BY <1>1, <1>2, CheckMoves DEF Become
  <2> QED
    BY <2>1, <2>2 DEF CheckPc
<1>3. ASSUME NEW u \in Thread, StartStep(u)
      PROVE  thr'[t] = thr[t]
  <2>1. t = u => thr'[t].pc # "prune"
    BY <1>3, StartGoes
  <2> QED
    BY <1>3, <2>1, StartOthers
<1>4. ASSUME NEW r \in Rec, CaptureStep(r)
      PROVE  thr'[t] = thr[t]
  <2>1. t = r => thr'[t].pc # "prune"
    BY <1>4, CaptureGoes
  <2> QED
    BY <1>1, <1>4, <2>1, CaptureMoves DEF Become
<1>5. ASSUME NEW u \in Rec \cup {Sched}, ConvertStep(u)
      PROVE  thr'[t] = thr[t] \/ ConvertReplace(t)
  <2>1. t # u => thr'[t] = thr[t]
    BY <1>1, <1>5, ConvertMoves DEF Become
  <2> QED
    BY <1>5, <2>1, ConvertGoes
<1>6. ASSUME SchedStep \/ CommandStep
      PROVE  thr'[t] = thr[t]
  BY <1>6, SchedThreads, SchedNames DEF SchedAlone
<1>7. CASE ApiStep \/ \E r \in Rec : ProcessStep(r)
  BY <1>7, ApiQuiet DEF ProcessStep, ProcessWrites, ProcessExits
<1>8. CASE Crash
  <2>1. thr'[t].pc \in {"boot", "idle"}
    BY <1>8 DEF Crash, At, Idle
  <2> QED
    BY <2>1
<1> QED
  BY <1>2, <1>3, <1>4, <1>5, <1>6, <1>7, <1>8 DEF Next

\* What a step does to the files of a recording: only the deletion of the
\* source at the end of its conversion takes one away.
LEMMA DiskMoves ==
  ASSUME TypeOK, Next, NEW r \in Rec
  PROVE  /\ "mp4" \in disk[r] => "mp4" \in disk'[r]
         /\ \/ disk[r] \subseteq disk'[r]
            \/ \E t \in Rec \cup {Sched} : thr[t].pc = "prune" /\ thr[t].rec = r
<1>1. disk \in [Rec -> SUBSET {"src", "mp4"}]
  BY DEF TypeOK, OthersOK
<1>2. ASSUME NEW k \in Thread, CheckStep(k) \/ StartStep(k)
      PROVE  disk' = disk
  BY <1>2 DEF CheckStep, CheckAcquire, CheckLoad, CheckBusy, CheckBegin, CheckResolve,
     CheckOnline, CheckOffline, StartStep, StartBegin, StartPublish, StartNoSource
<1>3. ASSUME NEW q \in Rec, CaptureStep(q)
      PROVE  disk' = disk
  BY <1>3 DEF CaptureStep, CaptureWait, CaptureLoad, CaptureSettle, CaptureClassify,
     CaptureReacquire, CaptureFail, CaptureForget, CapturePop
<1>4. ASSUME SchedStep \/ CommandStep
      PROVE  disk' = disk
  BY <1>4 DEF SchedStep, CommandStep, SchedBoot, SchedList, SweepDone, SchedRecover, SchedAdopt,
     SchedReset, WarmupDone, VisitAlive, VisitSkip, VisitStale, VisitDue, WarmupChannel,
     CommandTrigger, CommandStop, CommandRemove, CommandCheck, CommandResume, CommandPause
<1>5. CASE ApiStep \/ Crash
  BY <1>5 DEF ApiStep, ApiUpsert, ApiDelete, ApiReadForEdit, ApiReadForDelete, ApiSetPaused, Crash
<1>6. ASSUME NEW t \in Rec \cup {Sched}, ConvertPrune(t)
      PROVE  /\ "mp4" \in disk[r] => "mp4" \in disk'[r]
             /\ disk'[r] = disk[r] \/ (thr[t].pc = "prune" /\ thr[t].rec = r)
  BY <1>1, <1>6 DEF ConvertPrune
<1>7. ASSUME NEW t \in Rec \cup {Sched}, ConvertStep(t), ~ConvertPrune(t)
      PROVE  disk[r] \subseteq disk'[r]
  BY <1>1, <1>7 DEF ConvertStep, ConvertBegin, ConvertFail, ConvertReplace, ConvertRecord
<1>8. ASSUME NEW q \in Rec, ProcessStep(q)
      PROVE  disk[r] \subseteq disk'[r]
  BY <1>1, <1>8 DEF ProcessStep, ProcessWrites, ProcessExits
<1>9. CASE disk[r] \subseteq disk'[r]
  BY <1>9
<1>10. CASE disk' = disk
  BY <1>10
<1> QED
  BY <1>2, <1>3, <1>4, <1>5, <1>6, <1>7, <1>8, <1>9, <1>10 DEF Next

\* A conversion about to delete its source has put the mp4 in place.
Replaced ==
  \A t \in Rec \cup {Sched} :
    thr[t].pc = "prune" => thr[t].rec \in Rec /\ "mp4" \in disk[thr[t].rec]

\* os.replace puts it there, and nothing takes an mp4 away.
LEMMA ReplacedStep ==
  ASSUME TypeOK, Ownership, Watching, Replaced, Next
  PROVE  Replaced'
<1> SUFFICES ASSUME NEW t \in Rec \cup {Sched}, thr'[t].pc = "prune"
             PROVE  \E r \in Rec : thr'[t].rec = r /\ "mp4" \in disk'[r]
  BY DEF Replaced
<1>1. CASE thr'[t] = thr[t]
  BY <1>1, DiskMoves DEF Replaced
<1>2. CASE ConvertReplace(t)
  <2>1. PICK r \in Rec : thr[t].rec = r
    <3>1. thr[t].pc = "remux"
      BY <1>2 DEF ConvertReplace
    <3>2. CASE t \in Rec
      BY <3>1, <3>2 DEF Capturing, Ownership, CapturesOwn
    <3>3. CASE t = Sched
      BY <3>1, <3>3 DEF Watching, RecoveryTraced, ConvertPc
    <3> QED
      BY <3>2, <3>3
  <2>2. disk' = [disk EXCEPT ![r] = @ \cup {"mp4"}] /\ disk \in [Rec -> SUBSET {"src", "mp4"}]
    BY <1>2, <2>1 DEF ConvertReplace, TypeOK, OthersOK
  <2>3. thr'[t].rec = r
    <3>1. thr[t] \in Local /\ thr \in [Thread -> Placed]
      BY DEF TypeOK, ThreadsOK, Placed
    <3>2. [thr[t] EXCEPT !.pc = "prune"].rec = r
      BY <2>1, <3>1 DEF Local
    <3> QED
      BY <1>2, <3>1, <3>2 DEF ConvertReplace, Goto, Become
  <2> QED
    BY <2>2, <2>3
<1> QED
  BY <1>1, <1>2, PruneReached

\* A capture artifact leaves the disk only when its mp4 is in place: no failed
\* conversion, recovery or retry deletes the only copy of a recording.
THEOREM SourceKeptHolds == Spec => SourceKept
<1>1. Init => Replaced
  <2> SUFFICES ASSUME Init, NEW t \in Thread PROVE thr[t].pc # "prune"
    BY DEF Replaced
  <2> QED
    BY DEF Init, At, Idle
<1>2. TypeOK /\ Ownership /\ Watching /\ Replaced /\ [Next]_vars => Replaced'
  <2>1. UNCHANGED vars /\ Replaced => Replaced'
    BY DEF vars, Replaced
  <2> QED
    BY <2>1, ReplacedStep
<1>3. TypeOK /\ Replaced /\ [Next]_vars
        => [\A r \in Rec : Artifact(r) /\ "src" \notin disk'[r] => "mp4" \in disk[r]]_vars
  BY DiskMoves DEF Artifact, Replaced, vars
<1> QED
  BY <1>1, <1>2, <1>3, TypeCorrect, OwnershipHolds, WatchingHolds, PTL DEF Spec, SourceKept

-----------------------------------------------------------------------------
(* The record a launch goes by                                             *)

\* A check between its look at the record and the launch.
ProbePc == {"begin", "resolve", "online", "start"}

\* What a record of c may name while a check is on its way to launch for c.
PidBacked(c) == \A r \in Rec : Present(c) /\ db[c].pid = r => Backed(r, c)

\* A check comes to these places from CheckLoad, and keeps its channel.
LEMMA ProbeForms ==
  ASSUME TypeOK, Ownership, Next, NEW k \in Prober, thr'[k].pc \in ProbePc
  PROVE  /\ ~Crash /\ thr'[k].chan = thr[k].chan
         /\ \/ thr[k].pc \in ProbePc
            \/ CheckLoad(k) /\ ~Claimed(thr[k].chan)
<1> DEFINE me == thr[k]
           Same == thr'[k].chan = me.chan /\ (me.pc \in ProbePc \/ (CheckLoad(k) /\ ~Claimed(me.chan)))
<1>1. thr \in [Thread -> Placed] /\ me \in Local
  BY DEF TypeOK, ThreadsOK, Placed
<1>2. ~Crash
  <2>1. Crash => thr'[k].pc \in {"boot", "idle"}
    BY DEF Crash, At, Idle
  <2> QED
    BY <2>1 DEF ProbePc
<1> SUFFICES Same
  BY <1>2
<1>3. thr'[k] = thr[k] => Same
  OBVIOUS
<1>4. ASSUME CheckStep(k)
      PROVE  Same
  <2>1. thr'[k].pc \notin {"idle", "tick", "load", "busy", "offline"}
    BY DEF ProbePc
  <2>2. ~Become(k, Rest(k))
    BY <1>1, <2>1 DEF Become, Rest, At, Idle
  <2>3. \A p \in Pc : Goto(k, p) => thr'[k].pc = p /\ thr'[k].chan = me.chan
    <3>1. \A p : [me EXCEPT !.pc = p].pc = p /\ [me EXCEPT !.pc = p].chan = me.chan
      BY <1>1 DEF Local
    <3> QED
      BY <1>1, <3>1 DEF Goto, Become
  <2>4. CASE CheckAcquire(k) \/ CheckBusy(k) \/ CheckOffline(k)
    BY <2>1, <2>2, <2>3, <2>4, PcNames DEF CheckAcquire, CheckBusy, CheckOffline, LeaveCheck
  <2>5. CASE CheckLoad(k)
    <3>1. \A b : [me EXCEPT !.pc = "begin", !.paused = b].chan = me.chan
      BY <1>1 DEF Local
    <3>2. ~Claimed(me.chan) /\ \E b : Become(k, [me EXCEPT !.pc = "begin", !.paused = b])
      BY <2>1, <2>2, <2>3, <2>5, PcNames DEF CheckLoad, LeaveCheck
    <3>3. thr'[k].chan = me.chan
      BY <1>1, <3>1, <3>2 DEF Become
    <3> QED
      BY <2>5, <3>2, <3>3
  <2>6. CASE CheckBegin(k) \/ CheckOnline(k)
    BY <2>2, <2>3, <2>6, PcNames DEF CheckBegin, CheckOnline, LeaveCheck, ProbePc
  <2>7. CASE CheckResolve(k)
    <3>1. \A w : [On("online", me.chan) EXCEPT !.why = w].chan = me.chan
      BY DEF On, Idle
    <3>2. \A w : [me EXCEPT !.pc = "offline", !.why = w].pc = "offline"
      BY <1>1 DEF Local
    <3>3. PICK you : /\ Become(k, you)
                     /\ \E w : \/ you = [On("online", me.chan) EXCEPT !.why = w]
                               \/ you = [me EXCEPT !.pc = "offline", !.why = w]
      BY <2>2, <2>7 DEF CheckResolve, LeaveCheck
    <3>4. thr'[k] = you
      BY <1>1, <3>3 DEF Become
    <3>5. thr'[k].chan = me.chan
      BY <2>1, <3>1, <3>2, <3>3, <3>4
    <3> QED
      BY <2>7, <3>5 DEF CheckResolve, ProbePc
  <2> QED
    BY <1>4, <2>4, <2>5, <2>6, <2>7 DEF CheckStep
<1>5. ASSUME NEW j \in Prober, j # k, CheckStep(j)
      PROVE  Same
  BY <1>1, <1>3, <1>5, CheckMoves DEF Become
<1>6. ASSUME NEW u \in Thread, StartStep(u)
      PROVE  Same
  <2>1. u # k
    BY <1>6, StartGoes DEF ProbePc
  <2> QED
    BY <1>3, <1>6, <2>1, StartOthers DEF ProbePc
<1>7. ASSUME NEW r \in Rec, CaptureStep(r) \/ ProcessStep(r)
      PROVE  Same
  BY <1>1, <1>3, <1>7, CaptureMoves DEF Become, ProcessStep, ProcessWrites, ProcessExits
<1>8. ASSUME NEW t \in Rec \cup {Sched}, ConvertStep(t)
      PROVE  Same
  <2>1. t # k
    BY <1>8, ConvertGoes DEF ProbePc
  <2> QED
    BY <1>1, <1>3, <1>8, <2>1, ConvertMoves DEF Become
<1>9. CASE SchedStep \/ CommandStep
  BY <1>3, <1>9, SchedThreads, SchedNames DEF SchedAlone, ProbePc
<1>10. CASE ApiStep
  BY <1>3, <1>10, ApiQuiet
<1> QED
  BY <1>2, <1>4, <1>5, <1>6, <1>7, <1>8, <1>9, <1>10 DEF Next

\* Without the API's read-modify-writes: a check on its way to a launch has
\* seen that no earlier worker's process is on record, and nothing but a
\* publication writes a pid.
ProbesBacked ==
  /\ api.op # "edit"
  /\ \A k \in Prober : thr[k].pc \in ProbePc => PidBacked(thr[k].chan)

\* No step of the worker leaves a check with a record it cannot trust.
LEMMA ProbesBackedStep ==
  ASSUME Requests \cap {"edit", "delete"} = {},
         TypeOK, TypeOK', Ownership, Next, ProbesBacked
  PROVE  ProbesBacked'
<1>1. api'.op # "edit"
  <2>1. CASE ApiStep
    <3>1. \A c \in Channel : ~ApiReadForEdit(c) /\ ~ApiReadForDelete(c)
      BY DEF ApiReadForEdit, ApiReadForDelete
    <3>2. ApiUpsert \/ ApiDelete => api' = NoApi
      BY DEF ApiUpsert, ApiDelete
    <3>3. \A c \in Channel, b \in BOOLEAN : ApiSetPaused(c, b) => api' = api
      BY DEF ApiSetPaused
    <3>4. NoApi.op = "none"
      BY DEF NoApi
    <3> QED
      BY <2>1, <3>1, <3>2, <3>3, <3>4 DEF ApiStep, ProbesBacked
  <2>2. CASE SchedStep \/ CommandStep \/ Crash
    BY <2>2 DEF ProbesBacked, SchedStep, CommandStep, SchedBoot, SchedList, SweepDone,
       SchedRecover, SchedAdopt, SchedReset, WarmupDone, VisitAlive, VisitSkip, VisitStale,
       VisitDue, WarmupChannel, CommandTrigger, CommandStop, CommandRemove, CommandCheck,
       CommandResume, CommandPause, Crash
  <2> QED
    BY <2>1, <2>2, ThreadKeeps DEF Next, ProbesBacked
<1>2. ASSUME NEW k \in Prober, thr'[k].pc \in ProbePc, NEW c, c = thr'[k].chan,
             NEW r \in Rec, db'[c] # None, db'[c].pid = r
      PROVE  Backed(r, c)'
  <2>1. c = thr[k].chan /\ c \in Channel /\ ProcessMoves
    <3>1. thr' \in [Thread -> Placed]
      BY DEF TypeOK, ThreadsOK
    <3> QED
      BY <1>2, <3>1, ProbeForms, ProcessForms DEF Placed, AtRest, ProbePc
  <2>2. Backed(r, c)' \/ (Present(c) /\ db[c].pid = r)
    BY <1>2, <2>1, PidWrites DEF PidWrite, FromApi, ProbesBacked, Present
  <2>3. CASE thr[k].pc \in ProbePc
    BY <2>1, <2>2, <2>3, BackedStays DEF ProbesBacked, PidBacked
  <2>4. CASE CheckLoad(k) /\ ~Claimed(thr[k].chan)
    <3>1. db[c].pid = None /\ db' = db
      BY <2>1, <2>4 DEF CheckLoad, Claimed
    <3> QED
      BY <1>2, <3>1
  <2> QED
    BY <1>2, <2>3, <2>4, ProbeForms
<1> QED
  BY <1>1, <1>2 DEF ProbesBacked, PidBacked, Present

\* Who gives a channel a recording: a launch by a check at "start".
LEMMA LaunchBy ==
  ASSUME TypeOK, Ownership, Next, NEW c \in Channel, active'[c] # active[c], active'[c] # None
  PROVE  \E t \in Prober : thr[t].pc = "start" /\ thr[t].chan = c /\ Present(c) /\ ~Owned(c)
<1>1. active \in [Channel -> Rec \cup {None}]
  BY DEF TypeOK, OthersOK
<1>2. ASSUME NEW t \in Thread, StartStep(t)
      PROVE  \E k \in Prober : thr[k].pc = "start" /\ thr[k].chan = c /\ Present(c) /\ ~Owned(c)
  <2>1. StartBegin(t)
    BY <1>1, <1>2 DEF StartStep, StartPublish, StartNoSource
  <2>2. thr[t].pc = "start" /\ thr[t].chan = c /\ Present(c) /\ ~Owned(c)
    BY <1>1, <2>1 DEF StartBegin
  <2>3. t \notin Rec
    BY <2>2 DEF Ownership, CapturesOwn, Capturing, Owned
  <2> QED
    BY <2>2, <2>3
<1>3. ASSUME NEW k \in Prober, CheckStep(k)
      PROVE  FALSE
  BY <1>3, CheckQuiet DEF Quiet
<1>4. ASSUME NEW r \in Rec, CaptureStep(r) \/ ProcessStep(r)
      PROVE  FALSE
  <2>1. CASE CapturePop(r)
    BY <1>1, <2>1 DEF CapturePop
  <2> QED
    BY <1>4, <2>1, CaptureQuiet, ProcessQuiet DEF Quiet
<1>5. ~(SchedStep \/ CommandStep \/ ApiStep) /\ \A t \in Rec \cup {Sched} : ~ConvertStep(t)
  BY SchedQuiet, ApiQuiet, ConvertQuiet DEF Quiet
<1>6. ~Crash
  BY DEF Crash
<1> QED
  BY <1>2, <1>3, <1>4, <1>5, <1>6 DEF Next

\* A recorder is never launched for a channel whose record names a process that
\* is alive, an orphan of an earlier worker included, if the worker is not
\* restarted or no edit of a channel is written back.  An edit that spans a
\* restart writes the pid it read over a record recovery has cleared, and a
\* check that has passed CheckLoad in between launches a second recorder.
THEOREM LaunchRespectsPidHolds ==
  ASSUME MaxCrashes = 0 \/ Requests \cap {"edit", "delete"} = {}
  PROVE  Spec => LaunchRespectsPid
<1> DEFINE Trusted == \A k \in Prober : thr[k].pc = "start" => PidBacked(thr[k].chan)
           Respects == \A c \in Channel : active'[c] # active[c] /\ active'[c] # None
                         => Present(c) /\ ~Alive(db[c])
<1>1. TypeOK /\ Ownership /\ Trusted /\ [Next]_vars => [Respects]_vars
  <2> SUFFICES ASSUME TypeOK, Ownership, Trusted, Next, NEW c \in Channel,
                      active'[c] # active[c], active'[c] # None
               PROVE  Present(c) /\ ~Alive(db[c])
    BY DEF vars
  <2>1. PidBacked(c) /\ Present(c) /\ ~Owned(c)
    BY LaunchBy
  <2>2. db[c].pid \in Rec \cup {None}
    BY <2>1 DEF TypeOK, RowsOK, Present, Row
  <2>3. ASSUME NEW r \in Rec, db[c].pid = r
        PROVE  ~PidExists(r)
    <3>1. Backed(r, c)
      BY <2>1, <2>3 DEF PidBacked
    <3>2. ~(thr[r].pc = "wait" /\ thr[r].chan = c)
      BY <2>1 DEF Ownership, CapturesOwn, Capturing, Owned
    <3> QED
      BY <3>1, <3>2 DEF Backed, PidExists
  <2> QED
    BY <2>1, <2>2, <2>3 DEF Alive
<1>2. CASE MaxCrashes = 0
  <2>1. TypeOK /\ Watching => Trusted
    <3> SUFFICES ASSUME TypeOK, Watching, NEW k \in Prober, thr[k].pc = "start"
                 PROVE  PidBacked(thr[k].chan)
      OBVIOUS
    <3>1. crashes = 0 /\ thr[k].chan \in Channel
      BY <1>2 DEF TypeOK, ThreadsOK, OthersOK, Placed, AtRest
    <3> QED
      BY <3>1 DEF Watching, RowsTraced, Traced, PidBacked, Present
  <2> HIDE DEF Trusted
  <2> QED
    BY <1>1, <2>1, TypeCorrect, OwnershipHolds, WatchingHolds, PTL DEF Spec, LaunchRespectsPid
<1>3. CASE Requests \cap {"edit", "delete"} = {}
  <2>1. Init => ProbesBacked
    <3> SUFFICES ASSUME Init PROVE ProbesBacked
      OBVIOUS
    <3>1. api.op = "none" /\ \A k \in Prober : thr[k].pc \notin ProbePc
      BY DEF Init, NoApi, At, Idle, ProbePc
    <3> QED
      BY <3>1 DEF ProbesBacked
  <2>2. TypeOK /\ TypeOK' /\ Ownership /\ ProbesBacked /\ [Next]_vars => ProbesBacked'
    <3>1. UNCHANGED vars /\ ProbesBacked => ProbesBacked'
      BY DEF vars, ProbesBacked, PidBacked, Present, Backed
    <3> QED
      BY <1>3, <3>1, ProbesBackedStep
  <2>3. ProbesBacked => Trusted
    BY DEF ProbesBacked, ProbePc
  <2> HIDE DEF Trusted
  <2> QED
    BY <1>1, <2>1, <2>2, <2>3, TypeCorrect, OwnershipHolds, PTL DEF Spec, LaunchRespectsPid
<1> QED
  BY <1>2, <1>3
=============================================================================
