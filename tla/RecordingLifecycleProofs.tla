---------------------- MODULE RecordingLifecycleProofs ----------------------
(***************************************************************************)
(* Theorems of RecordingLifecycle, for every set of channels, recordings   *)
(* and checker threads, any number of restarts and every configuration.    *)
(*                                                                         *)
(* Type correctness is inductive by itself.  OneCapture and OneConversion  *)
(* follow from Ownership, which is inductive given the types: Stable says  *)
(* what every step keeps of a published recording, and with it each action *)
(* is only examined for the rows it writes (RowWrite) and, where recovery  *)
(* starts, for the row it read.                                            *)
(***************************************************************************)
EXTENDS RecordingLifecycle, TLAPS

USE ThreadAssumption, ConfigAssumption DEF Thread, Prober

\* The program counter values, spelt out.
LEMMA PcNames ==
  /\ {"idle", "acquire", "load", "busy", "begin", "resolve", "online", "offline",
      "start", "publish", "nosource", "wait", "loadrow", "settle", "classify",
      "reacquire", "fail", "forget", "pop", "convert", "remux", "prune", "record",
      "boot", "warmup", "command", "trigger", "stop", "remove", "tick",
      "recover", "adopt", "reset", "dead"} = Pc
BY DEF Pc, CheckPc, StartPc, CapturePc, ConvertPc, SchedPc

\* A thread at rest is well typed.
LEMMA IdlePlaced == Idle \in Placed /\ Idle \in Local
BY PcNames DEF Idle, Placed, Local, Why, AtRest

\* So is one whose handler has returned.
LEMMA AtPlaced == ASSUME NEW p \in AtRest PROVE At(p) \in Placed /\ At(p).pc = p
<1>1. p \in Pc
  BY PcNames DEF AtRest
<1> QED
  BY <1>1, IdlePlaced DEF At, Placed, Local, Idle

\* A handler that starts on a channel is well typed.
LEMMA OnPlaced ==
  ASSUME NEW p \in Pc, NEW c \in Channel
  PROVE  On(p, c) \in Placed /\ On(p, c).pc = p /\ On(p, c).chan = c
BY IdlePlaced DEF On, Placed, Local, Idle

\* Locals at p, of the same channel and recording as me.
Kept(me, p) == {you \in Placed : you.pc = p /\ you.chan = me.chan /\ you.rec = me.rec}

\* A handler that keeps its channel may change any other local.
LEMMA LocalUpdates ==
  ASSUME NEW me \in Placed, me.chan \in Channel
  PROVE  /\ \A p \in Pc : [me EXCEPT !.pc = p] \in Kept(me, p)
         /\ \A b \in BOOLEAN : /\ [me EXCEPT !.paused = b] \in Kept(me, me.pc)
                               /\ [me EXCEPT !.names = b] \in Kept(me, me.pc)
                               /\ [me EXCEPT !.salvaged = b] \in Kept(me, me.pc)
         /\ \A w \in Why : [me EXCEPT !.why = w] \in Kept(me, me.pc)
         /\ \A r \in Rec \cup {None} : [me EXCEPT !.rec = r] \in Placed
         /\ Ending(me) \in Kept(me, "pop")
<1>1. "pop" \in Pc
  BY PcNames
<1>2. \A r \in Rec \cup {None} : [me EXCEPT !.rec = r] \in Placed
  BY DEF Placed, Local
<1>3. Ending(me) \in Kept(me, "pop")
  BY <1>1, OnPlaced DEF Kept, Placed, Local, Ending, On, Idle
<1> QED
  BY <1>2, <1>3 DEF Kept, Placed, Local

\* A step of one thread, the sweep unchanged, keeps the threads well typed.
LEMMA ThreadMoves ==
  ASSUME ThreadsOK, NEW t \in Thread, NEW me \in Placed, Become(t, me),
         thr[t].pc \notin {"warmup", "dead"}, sweep' = sweep
  PROVE  ThreadsOK'
<1>1. thr' \in [Thread -> Placed]
  BY DEF ThreadsOK, Become
<1>2. \/ thr'[Sched].pc = thr[Sched].pc
      \/ thr[Sched].pc \notin {"warmup", "dead"}
  BY DEF ThreadsOK, Become
<1> QED
  BY <1>1, <1>2 DEF ThreadsOK, SweepListed, Sched_at

\* Writing one row keeps the table well typed.
LEMMA RowsWritten ==
  ASSUME RowsOK, NEW c \in Channel, NEW s \in Status, NEW b \in BOOLEAN
  PROVE  /\ SetStatus(c, s) => RowsOK'
         /\ Settle(c, s) => RowsOK'
         /\ Present(c) /\ SetPaused(c, b) => RowsOK'
BY DEF RowsOK, SetStatus, Settle, SetPaused, Present, Row, Status, Unpaused

\* Where a step of check_channel takes its thread.
LEMMA CheckMoves ==
  ASSUME TypeOK, NEW k \in Prober, CheckStep(k)
  PROVE  /\ thr[k].pc \in CheckPc /\ thr[k].chan \in Channel
         /\ \E you \in Placed : /\ Become(k, you)
                                /\ you.pc \in CheckPc \cup {"start", "tick", "idle"}
<1> DEFINE me == thr[k]
<1> USE DEF CheckStep
<1>1. k \in Thread /\ me \in Placed /\ RowsOK
  BY DEF TypeOK, ThreadsOK
<1>2. me.pc \in CheckPc /\ me.chan \in Channel
  BY <1>1 DEF CheckAcquire, CheckLoad, CheckBusy, CheckBegin, CheckResolve, CheckOnline,
     CheckOffline, CheckPc, AtRest, Placed
<1>3. Rest(k) \in Placed /\ Rest(k).pc \in {"tick", "idle"}
  BY AtPlaced, IdlePlaced DEF Rest, AtRest, Idle
<1>4. \A p \in Pc : [me EXCEPT !.pc = p] \in Kept(me, p)
  BY <1>1, <1>2, LocalUpdates
<1>5. {"load", "busy", "begin", "resolve", "online", "offline", "start"} \subseteq Pc
  BY PcNames
<1> DEFINE Target == {you \in Placed : you.pc \in CheckPc \cup {"start", "tick", "idle"}}
<1>6. /\ Rest(k) \in Target
      /\ \A p \in {"load", "busy", "resolve", "start"} : [me EXCEPT !.pc = p] \in Target
  BY <1>3, <1>4, <1>5 DEF Kept, CheckPc
<1>7. CASE CheckAcquire(k) \/ CheckBusy(k) \/ CheckBegin(k) \/ CheckOnline(k) \/ CheckOffline(k)
  BY <1>2, <1>6, <1>7 DEF CheckAcquire, CheckBusy, CheckBegin, CheckOnline, CheckOffline,
     LeaveCheck, Goto
<1>8. CASE CheckLoad(k)
  <2>1. \A b \in BOOLEAN : [me EXCEPT !.pc = "begin", !.paused = b] \in Target
    BY <1>1, <1>2, <1>5 DEF Placed, Local, CheckPc
  <2>2. Present(me.chan) => db[me.chan].paused \in BOOLEAN
    BY <1>1, <1>2 DEF RowsOK, Row, Present
  <2> QED
    BY <1>2, <1>6, <1>8, <2>1, <2>2 DEF CheckLoad, LeaveCheck, Goto
<1>9. CASE CheckResolve(k)
  <2>1. ASSUME NEW w \in {"online", "nourl", "offline", "error"}
        PROVE  /\ [On("online", me.chan) EXCEPT !.why = w] \in Target
               /\ [me EXCEPT !.pc = "offline", !.why = w] \in Target
    <3>1. w \in Why
      BY DEF Why
    <3>2. /\ On("online", me.chan) \in Placed /\ On("online", me.chan).pc = "online"
          /\ On("online", me.chan).chan = me.chan
      BY <1>2, <1>5, OnPlaced
    <3>3. [On("online", me.chan) EXCEPT !.why = w] \in Target
      BY <1>2, <3>1, <3>2, LocalUpdates DEF Kept, CheckPc
    <3>4. [me EXCEPT !.pc = "offline", !.why = w] \in Target
      BY <1>1, <1>2, <1>5, <3>1 DEF Placed, Local, CheckPc
    <3> QED
      BY <3>3, <3>4
  <2>2. CASE LeaveCheck(k)
    BY <1>2, <1>6, <2>2 DEF LeaveCheck
  <2>3. ASSUME NEW w \in {"online", "nourl", "offline", "error"},
               Become(k, IF w \in {"online", "nourl"}
                         THEN [On("online", me.chan) EXCEPT !.why = w]
                         ELSE [me EXCEPT !.pc = "offline", !.why = w])
        PROVE  \E you \in Target : Become(k, you)
    BY <2>1, <2>3
  <2> QED
    BY <1>2, <1>9, <2>2, <2>3 DEF CheckResolve
<1> QED
  BY <1>7, <1>8, <1>9

\* check_channel keeps the types.
LEMMA CheckTypes ==
  ASSUME TypeOK, NEW k \in Prober, CheckStep(k)
  PROVE  TypeOK'
<1> DEFINE me == thr[k]
<1>1. k \in Thread /\ RowsOK /\ ThreadsOK /\ OthersOK
  BY DEF TypeOK
<1>2. me.pc \notin {"warmup", "dead"} /\ me.chan \in Channel
  BY CheckMoves DEF CheckPc
<1>3. OthersOK'
  BY <1>1 DEF CheckStep, CheckAcquire, CheckLoad, CheckBusy, CheckBegin, CheckResolve,
     CheckOnline, CheckOffline, OthersOK, LeaveCheck
<1>4. RowsOK'
  <2>1. {"recording", "checking", "paused", "idle", "error"} \subseteq Status
    BY DEF Status
  <2>2. db' = db => RowsOK'
    BY <1>1 DEF RowsOK
  <2> QED
    BY <1>1, <1>2, <2>1, <2>2, RowsWritten DEF CheckStep, CheckAcquire, CheckLoad, CheckBusy,
       CheckBegin, CheckResolve, CheckOnline, CheckOffline
<1>5. ThreadsOK'
  <2>1. sweep' = sweep
    BY DEF CheckStep, CheckAcquire, CheckLoad, CheckBusy, CheckBegin, CheckResolve,
       CheckOnline, CheckOffline
  <2> QED
    BY <1>1, <1>2, <2>1, CheckMoves, ThreadMoves
<1> QED
  BY <1>3, <1>4, <1>5 DEF TypeOK

\* start_recording keeps the types.
LEMMA StartTypes ==
  ASSUME TypeOK, NEW t \in Thread, StartStep(t)
  PROVE  TypeOK'
<1> DEFINE me == thr[t]
<1>1. /\ me \in Placed /\ RowsOK /\ ThreadsOK /\ OthersOK
      /\ sweep' = sweep /\ api' = api /\ disk' = disk /\ crashes' = crashes
  BY DEF TypeOK, ThreadsOK, StartStep, StartBegin, StartPublish, StartNoSource
<1>2. /\ me.pc \in StartPc /\ me.pc \notin AtRest
      /\ me.pc \notin {"warmup", "dead"} /\ me.chan \in Channel
      /\ me.rec \in Rec \cup {None} /\ me.why \in Why
  BY <1>1 DEF StartStep, StartBegin, StartPublish, StartNoSource, StartPc, AtRest, Placed, Local
<1>3. AfterStart(t) \in Placed
  BY <1>1, <1>2, AtPlaced, IdlePlaced, LocalUpdates DEF Kept, Rest, AtRest, AfterStart
<1>4. {"publish", "nosource", "wait"} \subseteq Pc
  BY PcNames
<1>5. {"recording", "paused", "idle", "error"} \subseteq Status
  BY DEF Status
<1>6. ReleaseSlot(t) => slots' \in Nat
  BY <1>1 DEF ReleaseSlot, OthersOK
<1>7. \A r \in Rec \cup {None} : Terminate(r) => proc' \in [Rec -> {"unborn", "running", "stopping", "exited", "reaped"}]
  BY <1>1 DEF Terminate, OthersOK
<1>8. CASE StartBegin(t)
  <2>1. RowsOK'
    BY <1>1, <1>2, <1>5, <1>8, RowsWritten DEF StartBegin, RowsOK
  <2>2. OthersOK'
    <3>1. slots' \in Nat
      BY <1>1, <1>6, <1>8 DEF StartBegin, OthersOK, LeaveStart
    <3>2. lock' \in Thread \cup {None}
      BY <1>1, <1>8 DEF StartBegin, OthersOK
    <3>3. \/ active' = active /\ proc' = proc
          \/ \E r \in Rec : /\ active' = [active EXCEPT ![me.chan] = r]
                            /\ proc' = [proc EXCEPT ![r] = "running"]
      BY <1>8 DEF StartBegin
    <3>4. /\ active' \in [Channel -> Rec \cup {None}]
          /\ proc' \in [Rec -> {"unborn", "running", "stopping", "exited", "reaped"}]
      BY <1>1, <3>3 DEF OthersOK
    <3> QED
      BY <1>1, <3>1, <3>2, <3>4 DEF OthersOK
  <2>3. ASSUME NEW b \in BOOLEAN
        PROVE  [me EXCEPT !.pc = "nosource", !.paused = b] \in Placed
    BY <1>1, <1>2, <1>4 DEF Placed, Local
  <2>4. ASSUME NEW r \in Rec
        PROVE  [me EXCEPT !.pc = "publish", !.rec = r] \in Placed
    BY <1>1, <1>2, <1>4 DEF Placed, Local
  <2>5. Present(me.chan) => db[me.chan].paused \in BOOLEAN
    BY <1>1, <1>2 DEF RowsOK, Row, Present
  <2>6. \E you \in Placed : Become(t, you)
    BY <1>3, <1>8, <2>3, <2>4, <2>5 DEF StartBegin, LeaveStart
  <2>7. ThreadsOK'
    BY <1>1, <1>2, <2>6, ThreadMoves
  <2> QED
    BY <2>1, <2>2, <2>7 DEF TypeOK
<1>9. CASE StartNoSource(t)
  <2>1. RowsOK'
    BY <1>1, <1>2, <1>5, <1>9, RowsWritten DEF StartNoSource
  <2>2. OthersOK'
    BY <1>1, <1>2, <1>6, <1>9 DEF StartNoSource, OthersOK, LeaveStart
  <2>3. ThreadsOK'
    BY <1>1, <1>2, <1>3, <1>9, ThreadMoves DEF StartNoSource, LeaveStart
  <2> QED
    BY <2>1, <2>2, <2>3 DEF TypeOK
<1>10. CASE StartPublish(t)
  <2> DEFINE r == me.rec
             capture == [On("wait", me.chan) EXCEPT !.rec = r]
  <2>1. capture \in Placed
    BY <1>2, <1>4, OnPlaced, LocalUpdates DEF Kept
  <2>2. CASE Present(me.chan)
    <3>1. RowsOK'
      <4>1. r \in Rec \cup {None}
        BY <1>2
      <4>2. db' = [db EXCEPT ![me.chan].status = "recording", ![me.chan].pid = r,
                             ![me.chan].file = r, ![me.chan].mp4 = FALSE]
        BY <1>10, <2>2 DEF StartPublish
      <4>3. db \in [Channel -> Row \cup {None}] /\ db[me.chan] \in Row
        BY <1>1, <1>2, <2>2 DEF RowsOK, Present
      <4>4. [db[me.chan] EXCEPT !.status = "recording", !.pid = r, !.file = r, !.mp4 = FALSE] \in Row
        BY <1>5, <4>1, <4>3 DEF Row
      <4>5. db' = [db EXCEPT ![me.chan] = [db[me.chan] EXCEPT !.status = "recording", !.pid = r,
                                                             !.file = r, !.mp4 = FALSE]]
        BY <1>2, <4>2, <4>3
      <4> QED
        BY <1>2, <4>3, <4>4, <4>5 DEF RowsOK
    <3>2. OthersOK'
      <4>1. UNCHANGED <<active, proc, disk, sweep, api, crashes>> /\ lock' = None
        BY <1>10, <2>2 DEF StartPublish
      <4>2. slots' \in Nat
        BY <1>1, <1>6, <1>10, <2>2 DEF StartPublish, OthersOK
      <4> QED
        BY <1>1, <4>1, <4>2 DEF OthersOK
    <3>3. thr' = [thr EXCEPT ![r] = capture, ![t] = AfterStart(t)]
      BY <1>10, <2>2 DEF StartPublish
    <3> HIDE DEF capture
    <3>4. ThreadsOK'
      BY <1>1, <1>2, <1>3, <2>1, <2>2, <3>3 DEF ThreadsOK, SweepListed, Sched_at
    <3> QED
      BY <3>1, <3>2, <3>4 DEF TypeOK
  <2>3. CASE ~Present(me.chan)
    <3>1. RowsOK' /\ OthersOK'
      <4>1. /\ UNCHANGED <<db, disk, sweep, api, crashes>> /\ lock' = None
            /\ active' = [active EXCEPT ![me.chan] = None] /\ Terminate(r) /\ ReleaseSlot(t)
        BY <1>10, <2>3 DEF StartPublish, LeaveStart
      <4>2. slots' \in Nat
        BY <1>1, <1>6, <4>1 DEF OthersOK
      <4>3. active' \in [Channel -> Rec \cup {None}]
        BY <1>1, <1>2, <4>1 DEF OthersOK
      <4>4. proc' \in [Rec -> {"unborn", "running", "stopping", "exited", "reaped"}]
        BY <1>1, <1>2, <1>7, <4>1 DEF OthersOK, Terminate
      <4> QED
        BY <1>1, <4>1, <4>2, <4>3, <4>4 DEF OthersOK, RowsOK
    <3>2. ThreadsOK'
      BY <1>1, <1>2, <1>3, <1>10, <2>3, ThreadMoves DEF StartPublish, LeaveStart
    <3> QED
      BY <3>1, <3>2 DEF TypeOK
  <2> QED
    BY <2>2, <2>3
<1> QED
  BY <1>8, <1>9, <1>10 DEF StartStep

\* Where a capture thread goes before it is done, on its channel and recording.
Working == CapturePc \cup ConvertPc \cup {"start"}

\* The places of a capture thread at work, spelt out.
LEMMA WorkingNames ==
  /\ Working = {"start", "wait", "loadrow", "settle", "classify", "reacquire", "fail",
                "forget", "pop", "convert", "remux", "prune", "record"}
  /\ Working \subseteq Pc /\ Working \cap AtRest = {}
BY PcNames DEF Working, CapturePc, ConvertPc, AtRest

\* Where a step of the capture thread takes it.
LEMMA CaptureMoves ==
  ASSUME TypeOK, NEW r \in Rec, CaptureStep(r)
  PROVE  /\ thr[r].pc \in CapturePc /\ thr[r].pc \in Working /\ thr[r].chan \in Channel
         /\ \/ CapturePop(r) /\ Become(r, Idle)
            \/ \E p \in Working : \E you \in Kept(thr[r], p) : Become(r, you)
<1> DEFINE me == thr[r]
<1> USE DEF CaptureStep
<1>1. r \in Thread /\ me \in Placed /\ RowsOK
  BY DEF TypeOK, ThreadsOK
<1>2. me.pc \in CapturePc /\ me.pc \in Working /\ me.chan \in Channel
  BY <1>1 DEF CaptureWait, CaptureLoad, CaptureSettle, CaptureClassify, CaptureReacquire,
     CaptureFail, CaptureForget, CapturePop, CapturePc, AtRest, Placed, Working
<1> DEFINE Target == {you \in Placed : /\ you.pc \in Working
                                       /\ you.chan = me.chan /\ you.rec = me.rec}
<1>3. {"clean", "broken", "stopped", "unstable", "unavailable", "error", "salvage", "online"} \subseteq Why
  BY DEF Why
<1>4. Ending(me) \in Kept(me, "pop")
  BY <1>1, <1>2, LocalUpdates
<1>5. ASSUME NEW you \in Placed, you.chan = me.chan, you.rec = me.rec,
             NEW p \in Working, NEW w \in Why
      PROVE  /\ [you EXCEPT !.pc = p, !.why = w] \in Target
             /\ [you EXCEPT !.why = w, !.pc = p] \in Target
  BY <1>2, <1>5, WorkingNames DEF Placed, Local
<1>6. \A p \in Working : [me EXCEPT !.pc = p] \in Target /\ [Ending(me) EXCEPT !.pc = p] \in Target
  BY <1>1, <1>2, <1>4, WorkingNames, LocalUpdates DEF Kept
<1>7. /\ {"loadrow", "settle", "classify", "reacquire", "fail", "forget", "start",
           "convert", "pop"} \subseteq Working
      /\ Ending(me) \in Target
  BY <1>4, WorkingNames DEF Kept
<1>8. \A w \in Why : Converting(me, w) \in Target
  BY <1>4, <1>5, <1>7 DEF Converting, Kept
<1>9. CapturePop(r) \/ \E you \in Target : Become(r, you)
  <2>1. CASE CaptureWait(r)
    <3>1. ASSUME NEW w \in {"clean", "broken"}
          PROVE  [me EXCEPT !.pc = "loadrow", !.why = w] \in Target
      <4>1. w \in Why /\ "loadrow" \in Working
        BY <1>3, <1>7
      <4> HIDE DEF Target
      <4> QED
        BY <1>1, <1>5, <4>1
    <3> QED
      BY <2>1, <3>1 DEF CaptureWait
  <2>2. CASE CaptureClassify(r)
    <3>1. [me EXCEPT !.why = "unstable", !.pc = IF Artifact(r) THEN "convert" ELSE "reacquire"]
            \in Target
      BY <1>1, <1>3, <1>5, <1>7
    <3>2. ASSUME NEW w \in {"unavailable", "error"}
          PROVE  [me EXCEPT !.why = w, !.pc = "fail"] \in Target
      BY <1>1, <1>3, <1>5, <1>7, <3>2
    <3> QED
      BY <2>2, <3>1, <3>2 DEF CaptureClassify
  <2>3. CASE CaptureReacquire(r)
    BY <1>1, <1>3, <1>4, <1>5, <1>7, <2>3 DEF CaptureReacquire, Kept
  <2>4. CASE CaptureLoad(r)
    <3>1. ASSUME NEW b \in BOOLEAN, NEW n \in BOOLEAN
          PROVE  [me EXCEPT !.pc = "settle", !.paused = b, !.names = n] \in Target
      BY <1>1, <1>2, <1>7, WorkingNames DEF Placed, Local
    <3>2. Present(me.chan) => db[me.chan].paused \in BOOLEAN /\ db[me.chan].mp4 \in BOOLEAN
      BY <1>1, <1>2 DEF RowsOK, Row, Present
    <3> QED
      BY <1>7, <2>4, <3>1, <3>2 DEF CaptureLoad
  <2>5. CASE CaptureSettle(r) \/ CaptureFail(r) \/ CaptureForget(r)
    BY <1>3, <1>6, <1>7, <1>8, <2>5 DEF CaptureSettle, CaptureFail, CaptureForget
  <2> QED
    BY <2>1, <2>2, <2>3, <2>4, <2>5
<1> QED
  BY <1>2, <1>9 DEF Kept, CapturePop

\* _wait_for_recording and _finalize_recording keep the types.
LEMMA CaptureTypes ==
  ASSUME TypeOK, NEW r \in Rec, CaptureStep(r)
  PROVE  TypeOK'
<1> DEFINE me == thr[r]
<1> USE DEF CaptureStep
<1>1. /\ r \in Thread /\ me \in Placed /\ RowsOK /\ ThreadsOK /\ OthersOK
      /\ sweep' = sweep
  BY DEF TypeOK, ThreadsOK, CaptureWait, CaptureLoad, CaptureSettle, CaptureClassify,
     CaptureReacquire, CaptureFail, CaptureForget, CapturePop
<1>2. me.pc \notin {"warmup", "dead"} /\ me.chan \in Channel
  BY CaptureMoves, WorkingNames
<1>3. ThreadsOK'
  BY <1>1, <1>2, CaptureMoves, IdlePlaced, ThreadMoves DEF Kept
<1>4. RowsOK'
  <2>1. Unpaused(me.paused) \in Status /\ "error" \in Status
    BY DEF Unpaused, Status
  <2>2. CASE CaptureForget(r)
    BY <1>1, <1>2, <2>2 DEF CaptureForget, RowsOK, Row, Present
  <2>3. CASE CaptureSettle(r) \/ CaptureFail(r)
    BY <1>1, <1>2, <2>1, <2>3, RowsWritten DEF CaptureSettle, CaptureFail
  <2> QED
    BY <1>1, <2>2, <2>3 DEF CaptureWait, CaptureLoad, CaptureClassify, CaptureReacquire,
       CapturePop, RowsOK
<1>5. OthersOK'
  BY <1>1, <1>2 DEF CaptureWait, CaptureLoad, CaptureSettle, CaptureClassify, CaptureReacquire,
     CaptureFail, CaptureForget, CapturePop, OthersOK
<1> QED
  BY <1>3, <1>4, <1>5 DEF TypeOK

\* Where a step of convert_recording takes its thread.
LEMMA ConvertMoves ==
  ASSUME TypeOK, NEW t \in Rec \cup {Sched}, ConvertStep(t)
  PROVE  /\ thr[t].pc \in ConvertPc /\ thr[t].chan \in Channel
         /\ \/ \E p \in Working \ {"start"} : \E you \in Kept(thr[t], p) : Become(t, you)
            \/ t = Sched /\ Become(t, At("tick"))
         /\ t = Sched => \/ Become(t, At("tick"))
                         \/ \E p \in ConvertPc : \E you \in Kept(thr[t], p) : Become(t, you)
<1> DEFINE me == thr[t]
<1> USE DEF ConvertStep
<1>1. t \in Thread /\ me \in Placed
  BY DEF TypeOK, ThreadsOK
<1>2. me.pc \in ConvertPc /\ me.chan \in Channel
  BY <1>1 DEF ConvertBegin, ConvertFail, ConvertReplace, ConvertPrune, ConvertRecord,
     ConvertPc, AtRest, Placed
<1>3. {"reacquire", "remux", "prune", "record", "pop"} \subseteq Working \ {"start"}
  BY WorkingNames
<1>4. \A p \in Pc : [me EXCEPT !.pc = p] \in Kept(me, p)
  BY <1>1, <1>2, LocalUpdates
<1>5. CASE LeaveConvert(t)
  <2>1. [me EXCEPT !.pc = "reacquire", !.salvaged = TRUE] \in Kept(me, "reacquire")
    BY <1>1, <1>2, PcNames DEF Kept, Placed, Local
  <2>2. Ending(me) \in Kept(me, "pop")
    BY <1>1, <1>2, LocalUpdates
  <2> QED
    BY <1>2, <1>3, <1>5, <2>1, <2>2 DEF LeaveConvert, AfterConvert
<1>6. CASE \E p \in {"remux", "prune", "record"} : Goto(t, p)
  BY <1>2, <1>3, <1>4, <1>6, PcNames DEF Goto, ConvertPc
<1> QED
  BY <1>5, <1>6 DEF ConvertBegin, ConvertFail, ConvertReplace, ConvertPrune, ConvertRecord

\* convert_recording keeps the types.
LEMMA ConvertTypes ==
  ASSUME TypeOK, NEW t \in Rec \cup {Sched}, ConvertStep(t)
  PROVE  TypeOK'
<1> DEFINE me == thr[t]
<1> USE DEF ConvertStep
<1>1. /\ t \in Thread /\ me \in Placed /\ RowsOK /\ ThreadsOK /\ OthersOK
      /\ sweep' = sweep
  BY DEF TypeOK, ThreadsOK, ConvertBegin, ConvertFail, ConvertReplace, ConvertPrune, ConvertRecord
<1>2. me.pc \notin {"warmup", "dead"} /\ me.chan \in Channel /\ me.rec \in Rec \cup {None}
  BY <1>1, ConvertMoves DEF ConvertPc, Placed, Local
<1>3. At("tick") \in Placed
  BY AtPlaced DEF AtRest
<1>4. ThreadsOK'
  BY <1>1, <1>2, <1>3, ConvertMoves, ThreadMoves DEF Kept
<1>5. RowsOK'
  BY <1>1, <1>2 DEF ConvertBegin, ConvertFail, ConvertReplace, ConvertPrune, ConvertRecord,
     RowsOK, Row, Present
<1>6. OthersOK'
  BY <1>1, <1>2 DEF ConvertBegin, ConvertFail, ConvertReplace, ConvertPrune, ConvertRecord, OthersOK
<1> QED
  BY <1>4, <1>5, <1>6 DEF TypeOK

\* The recorder process keeps the types.
LEMMA ProcessTypes ==
  ASSUME TypeOK, NEW r \in Rec, ProcessStep(r)
  PROVE  TypeOK'
<1>1. RowsOK' /\ ThreadsOK'
  BY DEF TypeOK, RowsOK, ThreadsOK, SweepListed, Sched_at, ProcessStep, ProcessWrites, ProcessExits
<1>2. OthersOK'
  BY DEF TypeOK, OthersOK, ProcessStep, ProcessWrites, ProcessExits
<1> QED
  BY <1>1, <1>2 DEF TypeOK

\* The scheduler thread acts on a process by Terminate alone.
LEMMA SchedSignals ==
  ASSUME TypeOK, SchedStep \/ CommandStep
  PROVE  proc' = proc \/ \E p \in Rec \cup {None} : Terminate(p)
<1> USE DEF SchedStep, CommandStep, Sched_at
<1>1. /\ thr \in [Thread -> Placed] /\ Sched \in Thread /\ RowsOK /\ OthersOK /\ SweepListed
  BY DEF TypeOK, ThreadsOK
<1>2. ASSUME NEW c \in Channel, VisitAlive(c)
      PROVE  proc' = proc \/ \E p \in Rec \cup {None} : Terminate(p)
  <2>1. sweep.snap[c] \in Row
    BY <1>1, <1>2 DEF VisitAlive, Visiting, SweepListed, OthersOK
  <2> QED
    BY <1>2, <2>1 DEF VisitAlive, Row
<1>3. CASE CommandStop
  <2> DEFINE c == thr[Sched].chan
  <2>1. c \in Channel
    BY <1>1, <1>3 DEF CommandStop, Placed, AtRest
  <2>2. active[c] \in Rec \cup {None}
    BY <1>1, <2>1 DEF OthersOK
  <2>3. Present(c) => db[c].pid \in Rec \cup {None}
    BY <1>1, <2>1 DEF RowsOK, Row, Present
  <2> QED
    BY <1>3, <2>2, <2>3 DEF CommandStop
<1> QED
  BY <1>2, <1>3 DEF SchedBoot, SchedList, SweepDone, SchedRecover, SchedAdopt, SchedReset,
     WarmupDone, VisitSkip, VisitStale, VisitDue, WarmupChannel, CommandTrigger,
     CommandRemove, CommandCheck, CommandResume, CommandPause

\* A step of the scheduler thread that enters a sweep, or leaves it alone.
LEMMA SchedMoves ==
  ASSUME ThreadsOK, NEW me \in Placed, Become(Sched, me),
         \/ me.pc \in {"warmup", "dead"}
         \/ \A c \in sweep'.todo : sweep'.snap[c] # None
  PROVE  ThreadsOK'
BY DEF ThreadsOK, SweepListed, Sched_at, Become

\* The scheduler loop and recovery keep the types.
LEMMA SchedTypes ==
  ASSUME TypeOK, SchedStep
  PROVE  TypeOK'
<1> DEFINE me == thr[Sched]
<1> USE DEF SchedStep
<1>1. /\ Sched \in Thread /\ me \in Placed /\ RowsOK /\ ThreadsOK /\ OthersOK
      /\ sweep \in [snap : [Channel -> Row \cup {None}], todo : SUBSET Channel, boot : BOOLEAN]
  BY DEF TypeOK, ThreadsOK, OthersOK
<1>2. \A p \in AtRest : At(p) \in Placed /\ At(p).pc = p
  BY AtPlaced
<1>3. SweepListed
  BY <1>1 DEF ThreadsOK
<1>4. CASE SchedBoot \/ SchedList
  <2>1. sweep' = [snap |-> db, todo |-> Listed, boot |-> Sched_at("boot")] /\ SchedGoto("tick")
    BY <1>4 DEF SchedBoot, SchedList, TakeSnapshot, Sched_at
  <2>2. RowsOK'
    BY <1>1, <1>4 DEF SchedBoot, SchedList, RowsOK
  <2>3. OthersOK'
    BY <1>1, <1>4, <2>1 DEF SchedBoot, SchedList, RowsOK, OthersOK, Listed, Sched_at
  <2>4. ThreadsOK'
    <3>1. \A c \in sweep'.todo : sweep'.snap[c] # None
      BY <2>1 DEF Listed, Present
    <3>2. Become(Sched, At("tick")) /\ At("tick") \in Placed
      BY <1>2, <2>1 DEF SchedGoto, AtRest
    <3> QED
      BY <1>1, <3>1, <3>2, SchedMoves
  <2> QED
    BY <2>2, <2>3, <2>4 DEF TypeOK
<1>5. CASE SweepDone
  <2>1. RowsOK'
    BY <1>1, <1>5 DEF SweepDone, RowsOK
  <2>2. OthersOK'
    BY <1>1, <1>5 DEF SweepDone, OthersOK, Listed
  <2>3. \E p \in {"warmup", "command"} :
          /\ SchedGoto(p)
          /\ p = "command" => sweep' = sweep /\ sweep.todo = {}
    BY <1>5 DEF SweepDone
  <2>4. ThreadsOK'
    BY <1>1, <1>2, <2>3, SchedMoves DEF SchedGoto, AtRest
  <2> QED
    BY <2>1, <2>2, <2>4 DEF TypeOK
<1>6. CASE WarmupDone
  <2>1. RowsOK' /\ OthersOK'
    BY <1>1, <1>6 DEF WarmupDone, RowsOK, OthersOK
  <2>2. Become(Sched, At("command")) /\ At("command") \in Placed /\ sweep'.todo = {}
    BY <1>2, <1>6 DEF WarmupDone, SchedGoto, AtRest
  <2>3. ThreadsOK'
    BY <1>1, <2>2, SchedMoves
  <2> QED
    BY <2>1, <2>3 DEF TypeOK
<1>7. CASE SchedRecover \/ SchedAdopt \/ SchedReset
  <2>1. /\ me.pc \in {"recover", "adopt", "reset"} /\ me.pc \notin AtRest
        /\ me.pc \notin {"warmup", "dead"} /\ me.chan \in Channel
        /\ me.paused \in BOOLEAN /\ me.rec \in Rec \cup {None}
        /\ sweep' = sweep
    BY <1>1, <1>7 DEF SchedRecover, SchedAdopt, SchedReset, Sched_at, Placed, Local, AtRest
  <2>2. RowsOK'
    <3>1. Unpaused(me.paused) \in Status
      BY DEF Unpaused, Status
    <3>2. CASE SchedReset
      BY <1>1, <2>1, <3>1, <3>2, RowsWritten DEF SchedReset
    <3>3. CASE SchedRecover
      BY <1>1, <3>3 DEF SchedRecover, RowsOK
    <3>4. CASE SchedAdopt
      <4>1. db \in [Channel -> Row \cup {None}]
        BY <1>1 DEF RowsOK
      <4>2. CASE ~Present(me.chan)
        BY <3>4, <4>1, <4>2 DEF SchedAdopt, RowsOK
      <4>3. CASE Present(me.chan)
        <5>1. db[me.chan] \in Row
          BY <2>1, <4>1, <4>3 DEF Present
        <5>2. [db[me.chan] EXCEPT !.status = Unpaused(me.paused), !.pid = None,
                                  !.file = me.rec, !.mp4 = TRUE] \in Row
          BY <2>1, <3>1, <5>1 DEF Row
        <5>3. db' = [db EXCEPT ![me.chan] = [db[me.chan] EXCEPT !.status = Unpaused(me.paused),
                                 !.pid = None, !.file = me.rec, !.mp4 = TRUE]]
          BY <2>1, <3>4, <4>1, <4>3 DEF SchedAdopt
        <5> QED
          BY <2>1, <4>1, <5>2, <5>3 DEF RowsOK
      <4> QED
        BY <4>2, <4>3
    <3> QED
      BY <1>7, <3>2, <3>3, <3>4
  <2>3. OthersOK'
    <3>1. UNCHANGED <<active, lock, slots, proc, disk, sweep, api, crashes>>
      BY <1>7 DEF SchedRecover, SchedAdopt, SchedReset
    <3> QED
      BY <1>1, <3>1 DEF OthersOK
  <2>4. ASSUME NEW p \in {"reset", "adopt", "convert"}
        PROVE  [me EXCEPT !.why = "salvage", !.pc = p] \in Placed
    <3>1. p \in Pc /\ "salvage" \in Why
      BY PcNames DEF Why
    <3> QED
      BY <1>1, <2>1, <3>1 DEF Placed, Local
  <2>5. \E you \in Placed : Become(Sched, you)
    <3>1. CASE SchedRecover
      BY <2>4, <3>1 DEF SchedRecover
    <3>2. CASE SchedAdopt \/ SchedReset
      BY <1>2, <3>2 DEF SchedAdopt, SchedReset, AfterRecovery, SchedGoto, AtRest
    <3> QED
      BY <1>7, <3>1, <3>2
  <2>6. ThreadsOK'
    BY <1>1, <2>1, <2>5, ThreadMoves
  <2> QED
    BY <2>2, <2>3, <2>6 DEF TypeOK
<1>8. ASSUME NEW c \in Channel,
             VisitAlive(c) \/ VisitSkip(c) \/ VisitStale(c) \/ VisitDue(c) \/ WarmupChannel(c)
      PROVE  TypeOK'
  <2> USE DEF Visiting, Visited
  <2>1. /\ sweep' = [sweep EXCEPT !.todo = @ \ {c}, !.snap[c] = None]
        /\ db' = db /\ active' = active /\ lock' = lock /\ slots' = slots /\ disk' = disk
        /\ api' = api /\ crashes' = crashes
    BY <1>8 DEF VisitAlive, VisitSkip, VisitStale, VisitDue, WarmupChannel
  <2>2. /\ sweep' \in [snap : [Channel -> Row \cup {None}], todo : SUBSET Channel, boot : BOOLEAN]
        /\ \A d \in sweep'.todo : d \in sweep.todo /\ sweep'.snap[d] = sweep.snap[d]
    BY <1>1, <2>1
  <2>3. RowsOK'
    BY <1>1, <2>1 DEF RowsOK
  <2>4. OthersOK'
    <3>1. ASSUME NEW p \in Rec \cup {None}, Terminate(p)
          PROVE  proc' \in [Rec -> {"unborn", "running", "stopping", "exited", "reaped"}]
      BY <1>1, <3>1 DEF Terminate, OthersOK
    <3>2. proc' \in [Rec -> {"unborn", "running", "stopping", "exited", "reaped"}]
      BY <1>1, <3>1, SchedSignals DEF OthersOK
    <3> QED
      BY <1>1, <2>1, <2>2, <3>2 DEF OthersOK
  <2>5. ThreadsOK'
    <3>1. CASE thr' = thr
      BY <1>1, <1>3, <2>2, <3>1 DEF ThreadsOK, SweepListed, Sched_at
    <3>2. CASE WarmupChannel(c) /\ SchedGoto("dead")
      BY <1>1, <1>2, <3>2, SchedMoves DEF SchedGoto, AtRest
    <3>3. CASE VisitStale(c) \/ VisitDue(c)
      <4> DEFINE row == sweep.snap[c]
      <4>1. row \in Row /\ \A d \in sweep'.todo : sweep'.snap[d] # None
        BY <1>1, <1>3, <2>2, <3>3 DEF VisitStale, VisitDue, SweepListed, Sched_at
      <4>2. "recover" \in Pc /\ "acquire" \in Pc
        BY PcNames
      <4>3. On("recover", c) \in Placed /\ On("recover", c).chan = c /\ On("acquire", c) \in Placed
        BY <4>2, OnPlaced
      <4>4. [On("recover", c) EXCEPT !.rec = row.file, !.paused = row.paused,
                                     !.names = ~row.mp4] \in Placed
        BY <4>1, <4>3 DEF Placed, Local, Row
      <4>5. \E you \in Placed : Become(Sched, you)
        BY <3>3, <4>3, <4>4 DEF VisitStale, VisitDue
      <4> QED
        BY <1>1, <4>1, <4>5, SchedMoves
    <3> QED
      BY <1>8, <3>1, <3>2, <3>3 DEF VisitAlive, VisitSkip, WarmupChannel
  <2> QED
    BY <2>3, <2>4, <2>5 DEF TypeOK
<1> QED
  BY <1>4, <1>5, <1>6, <1>7, <1>8

\* The commands keep the types.
LEMMA CommandTypes ==
  ASSUME TypeOK, CommandStep
  PROVE  TypeOK'
<1> DEFINE me == thr[Sched]
<1> USE DEF CommandStep
<1>1. /\ Sched \in Thread /\ me \in Placed /\ RowsOK /\ ThreadsOK /\ OthersOK
      /\ sweep' = sweep /\ me.pc \in Pc /\ me.why \in Why
      /\ active' = active /\ lock' = lock /\ slots' = slots /\ disk' = disk
      /\ api' = api /\ crashes' = crashes
  BY DEF TypeOK, ThreadsOK, Placed, Local, CommandTrigger, CommandStop, CommandRemove,
     CommandCheck, CommandResume, CommandPause
<1>2. me.pc \notin {"warmup", "dead"} /\ (me.pc # "command" => me.chan \in Channel)
  BY <1>1 DEF CommandTrigger, CommandStop, CommandRemove, CommandCheck, CommandResume,
     CommandPause, Sched_at, Placed, AtRest
<1>3. At("command") \in Placed
  BY AtPlaced DEF AtRest
<1>4. {"acquire", "trigger", "stop", "remove"} \subseteq Pc
  BY PcNames
<1>5. \A c \in Channel : \A p \in Pc : On(p, c) \in Placed /\ On(p, c).chan = c
  BY OnPlaced
<1>6. ASSUME NEW c \in Channel, TriggerCheck(c)
      PROVE  ThreadsOK'
  <2>1. CASE SchedGoto("command")
    BY <1>1, <1>2, <1>3, <2>1, ThreadMoves DEF SchedGoto
  <2>2. CASE \E k \in Checker :
               thr' = [thr EXCEPT ![k] = On("acquire", c), ![Sched] = At("command")]
    BY <1>1, <1>2, <1>3, <1>4, <1>5, <2>2 DEF ThreadsOK, SweepListed, Sched_at
  <2> QED
    BY <1>6, <2>1, <2>2 DEF TriggerCheck
<1>7. ThreadsOK'
  <2>1. CASE CommandTrigger \/ \E c \in Channel : CommandCheck(c)
    BY <1>1, <1>2, <1>6, <2>1 DEF CommandTrigger, CommandCheck, Sched_at
  <2>2. ASSUME NEW c \in Channel, NEW w \in {"pause", "delete"}, CommandPause(c, w)
        PROVE  ThreadsOK'
    <3> w \in Why
      BY DEF Why
    <3>1. [On("stop", c) EXCEPT !.why = w] \in Placed
      BY <1>4, <1>5, LocalUpdates DEF Kept
    <3> QED
      BY <1>1, <1>2, <2>2, <3>1, ThreadMoves DEF CommandPause
  <2>3. ASSUME NEW c \in Channel, CommandResume(c)
        PROVE  ThreadsOK'
    BY <1>1, <1>2, <1>4, <1>5, <2>3, ThreadMoves DEF CommandResume
  <2>4. CASE CommandStop \/ CommandRemove
    <3>1. [me EXCEPT !.pc = "remove"] \in Placed
      BY <1>1, <1>2, <1>4, <2>4, LocalUpdates DEF Kept, CommandStop, CommandRemove, Sched_at
    <3>2. Become(Sched, [me EXCEPT !.pc = "remove"]) \/ Become(Sched, At("command"))
      BY <2>4 DEF CommandStop, CommandRemove, SchedGoto
    <3> QED
      BY <1>1, <1>2, <1>3, <3>1, <3>2, ThreadMoves
  <2> QED
    BY <2>1, <2>2, <2>3, <2>4
<1>8. RowsOK'
  <2>1. db' = db => RowsOK'
    BY <1>1 DEF RowsOK
  <2>2. CASE \E c \in Channel : CommandResume(c) \/ \E w \in {"pause", "delete"} : CommandPause(c, w)
    <3>1. "idle" \in Status
      BY DEF Status
    <3> QED
      BY <1>1, <2>2, <3>1, RowsWritten DEF CommandResume, CommandPause
  <2>3. CASE CommandRemove
    BY <1>1, <2>3 DEF CommandRemove, RowsOK
  <2> QED
    BY <2>1, <2>2, <2>3 DEF CommandTrigger, CommandStop, CommandCheck
<1>9. OthersOK'
  <2>1. ASSUME NEW p \in Rec \cup {None}, Terminate(p)
        PROVE  proc' \in [Rec -> {"unborn", "running", "stopping", "exited", "reaped"}]
    BY <1>1, <2>1 DEF Terminate, OthersOK
  <2> QED
    BY <1>1, <2>1, SchedSignals DEF OthersOK
<1> QED
  BY <1>7, <1>8, <1>9 DEF TypeOK

\* The API handlers keep the types.
LEMMA ApiTypes ==
  ASSUME TypeOK, ApiStep
  PROVE  TypeOK'
<1> USE DEF ApiStep
<1>1. /\ RowsOK /\ ThreadsOK /\ OthersOK /\ api \in ApiCall
      /\ active' = active /\ lock' = lock /\ slots' = slots /\ proc' = proc
      /\ disk' = disk /\ thr' = thr /\ sweep' = sweep /\ crashes' = crashes
  BY DEF TypeOK, OthersOK, ApiUpsert, ApiDelete, ApiReadForEdit, ApiReadForDelete, ApiSetPaused
<1>2. ThreadsOK'
  BY <1>1 DEF ThreadsOK, SweepListed, Sched_at
<1>3. RowsOK'
  <2>1. ASSUME NEW c \in Channel, NEW b \in BOOLEAN, ApiSetPaused(c, b)
        PROVE  RowsOK'
    <3>1. "idle" \in Status
      BY DEF Status
    <3> QED
      BY <1>1, <2>1, <3>1, RowsWritten DEF ApiSetPaused
  <2>2. CASE ApiUpsert
    BY <1>1, <2>2 DEF ApiUpsert, ApiCall, NoApi, RowsOK
  <2>3. CASE ApiDelete
    BY <1>1, <2>3 DEF ApiDelete, RowsOK
  <2> QED
    BY <1>1, <2>1, <2>2, <2>3 DEF ApiReadForEdit, ApiReadForDelete, RowsOK
<1>4. api' \in ApiCall
  <2>1. ASSUME NEW c \in Channel, Present(c), NEW b \in BOOLEAN
        PROVE  db[c] \in Row /\ Edited(db[c], b) \in Row
    BY <1>1, <2>1 DEF RowsOK, Present, Edited, Row, Unpaused, Status
  <2>2. ASSUME NEW c \in Channel, ApiReadForEdit(c)
        PROVE  api' \in ApiCall
    <3>1. \A row \in Row : [op |-> "edit", chan |-> c, row |-> row] \in ApiCall
      BY DEF ApiCall
    <3>2. {db[c], Edited(db[c], TRUE), Edited(db[c], FALSE)} \subseteq Row
      BY <2>1, <2>2 DEF ApiReadForEdit
    <3> HIDE DEF ApiCall
    <3> QED
      BY <2>2, <3>1, <3>2 DEF ApiReadForEdit
  <2>3. ASSUME NEW c \in Channel, ApiReadForDelete(c)
        PROVE  api' \in ApiCall
    BY <2>1, <2>3 DEF ApiReadForDelete, ApiCall
  <2> QED
    BY <1>1, <2>2, <2>3 DEF ApiUpsert, ApiDelete, ApiSetPaused, ApiCall
<1> QED
  BY <1>1, <1>2, <1>3, <1>4 DEF TypeOK, OthersOK

\* A restart keeps the types.
LEMMA CrashTypes ==
  ASSUME TypeOK, Crash
  PROVE  TypeOK'
<1>1. RowsOK' /\ OthersOK'
  BY DEF TypeOK, RowsOK, OthersOK, Crash
<1>2. ThreadsOK'
  <2>1. At("boot") \in Placed /\ At("boot").pc = "boot"
    BY AtPlaced DEF AtRest
  <2> QED
    BY <2>1, IdlePlaced DEF Crash, ThreadsOK, SweepListed, Sched_at
<1> QED
  BY <1>1, <1>2 DEF TypeOK

\* The first state is well typed.
LEMMA InitTypes == Init => TypeOK
<1> SUFFICES ASSUME Init PROVE TypeOK
  OBVIOUS
<1>1. RowsOK /\ OthersOK
  BY DEF Init, RowsOK, OthersOK, Row, Status, ApiCall
<1>2. ThreadsOK
  <2>1. At("boot") \in Placed /\ At("boot").pc = "boot"
    BY AtPlaced DEF AtRest
  <2> QED
    BY <2>1, IdlePlaced DEF Init, ThreadsOK, SweepListed, Sched_at
<1> QED
  BY <1>1, <1>2 DEF TypeOK

\* Every step keeps the types.
LEMMA NextTypes == TypeOK /\ [Next]_vars => TypeOK'
<1> SUFFICES ASSUME TypeOK, [Next]_vars PROVE TypeOK'
  OBVIOUS
<1>1. CASE UNCHANGED vars
  BY <1>1 DEF vars, TypeOK, RowsOK, ThreadsOK, OthersOK, SweepListed, Sched_at
<1> QED
  BY <1>1, CheckTypes, StartTypes, CaptureTypes, ProcessTypes, ConvertTypes, SchedTypes,
     CommandTypes, ApiTypes, CrashTypes DEF Next

\* Type correctness: every reachable state has the shape the handlers assume;
\* in particular a working handler always knows its channel.
THEOREM TypeCorrect == Spec => []TypeOK
BY InitTypes, NextTypes, PTL DEF Spec

-----------------------------------------------------------------------------
(* Ownership: the threads                                                  *)

Starting == {"publish", "nosource"}

\* What a step of a thread outside start_recording may do to its locals: a
\* capture thread stays at work on its recording and channel.
QuietMove(t) ==
  \/ thr'[t] = thr[t]
  \/ /\ thr[t].pc \notin Starting /\ thr'[t].pc \notin Starting
     /\ t \in Rec => /\ thr[t].pc \in Working /\ thr'[t].pc \in Working
                     /\ thr'[t].chan = thr[t].chan /\ thr'[t].rec = thr[t].rec

Quiet ==
  /\ active' = active /\ lock' = lock
  /\ \A r \in Rec : proc'[r] = "unborn" <=> proc[r] = "unborn"
  /\ \A t \in Thread : QuietMove(t)

\* What every step keeps of a published recording.
Stable == \A r \in Rec : /\ \A c \in Channel : Settled(r, c) => Settled(r, c)'
                         /\ Loose(r) => Loose(r)'
ThreadsOwn == LaunchesLocked /\ CapturesOwn

\* A step outside start_recording and the pop keeps the ownership of threads.
LEMMA QuietKeeps ==
  ASSUME TypeOK, ThreadsOwn, Quiet
  PROVE  ThreadsOwn' /\ Stable
<1>1. \A r \in Rec : /\ Capturing(r) <=> Capturing(r)'
                     /\ Capturing(r) => /\ thr'[r].chan = thr[r].chan
                                        /\ thr'[r].rec = thr[r].rec
                                        /\ thr'[r].pc \in Working
  BY WorkingNames DEF Quiet, QuietMove, Capturing, ThreadsOwn, CapturesOwn, Working
<1>2. \A t \in Thread : thr[t].pc \in Starting \/ thr'[t].pc \in Starting => thr'[t] = thr[t]
  BY DEF Quiet, QuietMove
<1>3. CapturesOwn'
  BY <1>1 DEF ThreadsOwn, CapturesOwn, Quiet, Working
<1>4. LaunchesLocked'
  BY <1>1, <1>2 DEF ThreadsOwn, LaunchesLocked, Quiet, Starting
<1>5. \A r \in Rec : Published(r) => Published(r)'
  BY <1>2 DEF Published, Launching, Quiet, Starting
<1>6. Stable
  BY <1>1, <1>5 DEF Stable, Settled, Loose
<1> QED
  BY <1>3, <1>4, <1>6 DEF ThreadsOwn

\* One thread moves.
LEMMA ProberMoves ==
  ASSUME TypeOK, NEW t \in Prober, NEW me \in Placed, Become(t, me),
         thr[t].pc \notin Starting, me.pc \notin Starting
  PROVE  \A u \in Thread : QuietMove(u)
BY DEF TypeOK, ThreadsOK, Become, QuietMove

\* A capture thread moves on at its work.
LEMMA WorkMoves ==
  ASSUME TypeOK, NEW r \in Rec, NEW p \in Working, NEW me \in Kept(thr[r], p),
         Become(r, me), thr[r].pc \in Working
  PROVE  \A u \in Thread : QuietMove(u)
BY WorkingNames DEF TypeOK, ThreadsOK, Become, QuietMove, Kept, Starting

\* check_channel is quiet.
LEMMA CheckQuiet ==
  ASSUME TypeOK, NEW k \in Prober, CheckStep(k)
  PROVE  Quiet
<1>1. active' = active /\ lock' = lock /\ proc' = proc
  BY DEF CheckStep, CheckAcquire, CheckLoad, CheckBusy, CheckBegin, CheckResolve,
     CheckOnline, CheckOffline
<1>2. CheckPc \cap Starting = {}
  BY DEF CheckPc, Starting
<1>3. \A u \in Thread : QuietMove(u)
  BY <1>2, CheckMoves, ProberMoves DEF Starting
<1> QED
  BY <1>1, <1>3 DEF Quiet

\* The capture thread is quiet until it pops its entry.
LEMMA CaptureQuiet ==
  ASSUME TypeOK, NEW r \in Rec, CaptureStep(r), ~CapturePop(r)
  PROVE  Quiet
<1>1. active' = active /\ lock' = lock
  BY DEF CaptureStep, CaptureWait, CaptureLoad, CaptureSettle, CaptureClassify,
     CaptureReacquire, CaptureFail, CaptureForget
<1>2. \A q \in Rec : proc'[q] = "unborn" <=> proc[q] = "unborn"
  BY DEF TypeOK, OthersOK, CaptureStep, CaptureWait, CaptureLoad, CaptureSettle,
     CaptureClassify, CaptureReacquire, CaptureFail, CaptureForget
<1>3. \A u \in Thread : QuietMove(u)
  BY CaptureMoves, WorkMoves
<1> QED
  BY <1>1, <1>2, <1>3 DEF Quiet

\* convert_recording is quiet.
LEMMA ConvertQuiet ==
  ASSUME TypeOK, NEW t \in Rec \cup {Sched}, ConvertStep(t)
  PROVE  Quiet
<1>1. active' = active /\ lock' = lock /\ proc' = proc
  BY DEF ConvertStep, ConvertBegin, ConvertFail, ConvertReplace, ConvertPrune, ConvertRecord
<1>2. ConvertPc \subseteq Working /\ ConvertPc \cap Starting = {}
  BY DEF ConvertPc, Working, Starting
<1>3. At("tick") \in Placed /\ At("tick").pc = "tick"
  BY AtPlaced DEF AtRest
<1>4. ASSUME t = Sched
      PROVE  \A u \in Thread : QuietMove(u)
  <2>1. \E you \in Placed : Become(t, you) /\ you.pc \notin Starting
    BY <1>2, <1>3, <1>4, ConvertMoves DEF Kept, Starting
  <2> QED
    BY <1>2, <1>4, <2>1, ConvertMoves, ProberMoves
<1>5. ASSUME t \in Rec
      PROVE  \A u \in Thread : QuietMove(u)
  BY <1>2, <1>5, ConvertMoves, WorkMoves
<1> QED
  BY <1>1, <1>4, <1>5 DEF Quiet

\* The recorder process is quiet.
LEMMA ProcessQuiet ==
  ASSUME TypeOK, NEW r \in Rec, ProcessStep(r)
  PROVE  Quiet
BY DEF TypeOK, OthersOK, ProcessStep, ProcessWrites, ProcessExits, Quiet, QuietMove

\* Recovery is entered from a stale row and left for a rest.
Recovers ==
  thr'[Sched].pc \in RecoveryPc =>
    thr'[Sched] = thr[Sched] \/ SchedRecover \/ \E c \in Channel : VisitStale(c)

\* A scheduler step outside check_channel, start_recording and convert_recording.
LEMMA SchedQuiet ==
  ASSUME TypeOK, SchedStep \/ CommandStep
  PROVE  Quiet /\ Recovers
<1> DEFINE Moves == (\A u \in Thread : QuietMove(u)) /\ Recovers
<1> USE DEF SchedStep, CommandStep, Sched_at
<1>1. active' = active /\ lock' = lock /\ thr \in [Thread -> Placed] /\ Sched \in Thread
  BY DEF TypeOK, ThreadsOK, SchedBoot, SchedList, SweepDone, SchedRecover, SchedAdopt, SchedReset,
     WarmupDone, VisitAlive, VisitSkip, VisitStale, VisitDue, WarmupChannel, CommandTrigger,
     CommandStop, CommandRemove, CommandCheck, CommandResume, CommandPause
<1>2. thr[Sched].pc \notin Starting
  BY DEF SchedBoot, SchedList, SweepDone, SchedRecover, SchedAdopt, SchedReset,
     WarmupDone, VisitAlive, VisitSkip, VisitStale, VisitDue, WarmupChannel, CommandTrigger,
     CommandStop, CommandRemove, CommandCheck, CommandResume, CommandPause, Starting,
     Visiting
<1>3. \A r \in Rec : proc'[r] = "unborn" <=> proc[r] = "unborn"
  <2>1. ASSUME NEW p \in Rec \cup {None}, Terminate(p)
        PROVE  \A r \in Rec : proc'[r] = "unborn" <=> proc[r] = "unborn"
    BY <2>1 DEF TypeOK, OthersOK, Terminate
  <2> QED
    BY <2>1, SchedSignals
<1> SUFFICES Moves
  BY <1>1, <1>2, <1>3 DEF Quiet
<1>4. /\ \A p \in AtRest : At(p) \in Placed /\ At(p).pc = p
      /\ \A p \in Pc : \A c \in Channel : /\ On(p, c) \in Placed /\ On(p, c).pc = p
                                         /\ On(p, c).chan = c
  BY AtPlaced, OnPlaced
<1> DEFINE Away == {you \in Placed : you.pc \notin Starting \cup RecoveryPc}
<1>5. /\ At("tick") \in Away /\ At("command") \in Away
      /\ At("warmup") \in Away /\ At("dead") \in Away
      /\ \A p \in {"acquire", "trigger", "stop", "remove"} : \A c \in Channel : On(p, c) \in Away
  <2> {"acquire", "trigger", "stop", "remove"} \subseteq Pc
    BY PcNames
  <2> QED
    BY <1>4 DEF AtRest, Starting, RecoveryPc, ConvertPc
<1>6. ASSUME NEW you \in Away, Become(Sched, you)
      PROVE  Moves
  BY <1>1, <1>2, <1>6 DEF Become, QuietMove, Recovers
<1>7. ASSUME NEW c \in Channel, TriggerCheck(c)
      PROVE  Moves
  <2>1. CASE SchedGoto("command")
    BY <1>5, <1>6, <2>1 DEF SchedGoto
  <2>2. ASSUME NEW k \in Checker, thr[k].pc = "idle",
               thr' = [thr EXCEPT ![k] = On("acquire", c), ![Sched] = At("command")]
        PROVE  Moves
    BY <1>1, <1>2, <1>5, <2>2 DEF QuietMove, Starting, Recovers, RecoveryPc, ConvertPc
  <2> QED
    BY <1>7, <2>1, <2>2 DEF TriggerCheck
<1>8. CASE SchedStep
  <2>1. CASE SchedBoot \/ SchedList \/ SweepDone \/ WarmupDone
    BY <1>5, <1>6, <2>1 DEF SchedBoot, SchedList, SweepDone, WarmupDone, TakeSnapshot, SchedGoto
  <2>2. CASE SchedRecover
    <3>1. thr[Sched] \in Placed /\ thr[Sched].chan \in Channel
      BY <1>1, <2>2 DEF SchedRecover, Placed, AtRest
    <3>2. {"reset", "adopt", "convert"} \subseteq Pc /\ "salvage" \in Why
      BY PcNames DEF Why
    <3>3. \A p \in {"reset", "adopt", "convert"} :
            [thr[Sched] EXCEPT !.why = "salvage", !.pc = p].pc \notin Starting
      BY <3>1, <3>2 DEF Placed, Local, Starting
    <3>4. /\ \A u \in Thread : u # Sched => thr'[u] = thr[u]
          /\ thr'[Sched].pc \notin Starting
      BY <1>1, <2>2, <3>3 DEF SchedRecover, Become
    <3> QED
      BY <1>2, <2>2, <3>4 DEF QuietMove, Recovers
  <2>3. CASE SchedAdopt \/ SchedReset
    BY <1>5, <1>6, <2>3 DEF SchedAdopt, SchedReset, AfterRecovery, SchedGoto
  <2>4. ASSUME NEW c \in Channel, VisitAlive(c) \/ VisitSkip(c) \/ VisitDue(c) \/ WarmupChannel(c)
        PROVE  Moves
    <3>1. CASE thr' = thr
      BY <3>1 DEF QuietMove, Recovers
    <3>2. CASE Become(Sched, On("acquire", c)) \/ Become(Sched, At("dead"))
      BY <1>5, <1>6, <3>2
    <3> QED
      BY <2>4, <3>1, <3>2 DEF VisitAlive, VisitSkip, VisitDue, WarmupChannel, SchedGoto
  <2>5. ASSUME NEW c \in Channel, VisitStale(c)
        PROVE  Moves
    <3>1. /\ \A u \in Thread : u # Sched => thr'[u] = thr[u]
          /\ thr'[Sched].pc = "recover"
      BY <1>1, <2>5 DEF VisitStale, Become, On, Idle
    <3> QED
      BY <1>2, <2>5, <3>1 DEF QuietMove, Starting, Recovers
  <2> QED
    BY <1>8, <2>1, <2>2, <2>3, <2>4, <2>5
<1>9. CASE CommandStep
  <2>1. CASE CommandTrigger \/ \E c \in Channel : CommandCheck(c)
    <3>1. CommandTrigger => thr[Sched].chan \in Channel
      BY <1>1 DEF CommandTrigger, Placed, AtRest
    <3> QED
      BY <1>7, <2>1, <3>1 DEF CommandTrigger, CommandCheck
  <2>2. ASSUME NEW c \in Channel, CommandResume(c)
        PROVE  Moves
    BY <1>5, <1>6, <2>2 DEF CommandResume
  <2>3. ASSUME NEW c \in Channel, NEW w \in {"pause", "delete"}, CommandPause(c, w)
        PROVE  Moves
    <3> w \in Why /\ "stop" \in Pc
      BY PcNames DEF Why
    <3>1. [On("stop", c) EXCEPT !.why = w] \in Away
      BY <1>4, LocalUpdates DEF Kept, Starting, RecoveryPc, ConvertPc
    <3> QED
      BY <1>6, <2>3, <3>1 DEF CommandPause
  <2>4. CASE CommandStop \/ CommandRemove
    <3>1. thr[Sched] \in Placed /\ thr[Sched].chan \in Channel
      BY <1>1, <2>4 DEF CommandStop, CommandRemove, Placed, AtRest
    <3> "remove" \in Pc
      BY PcNames
    <3>2. [thr[Sched] EXCEPT !.pc = "remove"] \in Away
      BY <3>1, LocalUpdates DEF Kept, Starting, RecoveryPc, ConvertPc
    <3> QED
      BY <1>5, <1>6, <2>4, <3>2 DEF CommandStop, CommandRemove, SchedGoto
  <2> QED
    BY <1>9, <2>1, <2>2, <2>3, <2>4
<1> QED
  BY <1>8, <1>9

\* The API never touches the worker's memory.
LEMMA ApiQuiet == ASSUME TypeOK, ApiStep PROVE Quiet /\ thr' = thr
<1>1. /\ active' = active /\ lock' = lock /\ proc' = proc /\ thr' = thr
  BY DEF ApiStep, ApiUpsert, ApiDelete, ApiReadForEdit, ApiReadForDelete, ApiSetPaused
<1> QED
  BY <1>1 DEF Quiet, QuietMove

\* start_recording returns: the prober rests, the capture thread is left to pop.
LEMMA AfterStartMoves ==
  ASSUME TypeOK, NEW t \in Thread, thr[t].chan \in Channel
  PROVE  /\ t \in Prober => AfterStart(t) \in Placed /\ AfterStart(t).pc \notin Starting
         /\ t \in Rec => AfterStart(t) \in Kept(thr[t], "pop")
<1>1. thr[t] \in Placed
  BY DEF TypeOK, ThreadsOK
<1>2. t \in Rec => Ending(thr[t]) \in Kept(thr[t], "pop")
  BY <1>1, LocalUpdates
<1>3. Idle.pc = "idle" /\ "tick" \in AtRest
  BY DEF Idle, AtRest
<1> QED
  BY <1>2, <1>3, AtPlaced, IdlePlaced DEF AfterStart, Rest, Starting

\* start_recording takes the lock and launches only for a channel nobody owns.
LEMMA StartBeginOwn ==
  ASSUME TypeOK, ThreadsOwn, NEW t \in Thread, StartBegin(t)
  PROVE  ThreadsOwn' /\ Stable
<1> DEFINE me == thr[t]
           c == me.chan
<1>1. /\ thr \in [Thread -> Placed] /\ me \in Placed /\ me.pc = "start" /\ lock = None
      /\ c \in Channel /\ active \in [Channel -> Rec \cup {None}]
      /\ proc \in [Rec -> {"unborn", "running", "stopping", "exited", "reaped"}]
  BY DEF TypeOK, ThreadsOK, OthersOK, StartBegin, Placed, AtRest
<1>2. \A u \in Thread : thr[u].pc \notin Starting
  BY <1>1 DEF ThreadsOwn, LaunchesLocked, Starting
<1>3. t \in Rec => Owned(c)
  BY <1>1 DEF ThreadsOwn, CapturesOwn, Capturing, Owned
<1>4. CASE LeaveStart(t) /\ UNCHANGED <<active, lock, proc>>
  <2>1. \A u \in Thread : QuietMove(u)
    BY <1>1, <1>2, <1>4, AfterStartMoves, ProberMoves, WorkMoves, WorkingNames DEF LeaveStart
  <2>2. Quiet
    BY <1>4, <2>1 DEF Quiet
  <2> QED
    BY <2>2, QuietKeeps
<1>5. ASSUME ~Owned(c), active' = active, proc' = proc, lock' = t,
             NEW b \in BOOLEAN, Become(t, [me EXCEPT !.pc = "nosource", !.paused = b])
      PROVE  ThreadsOwn' /\ Stable
  <2>1. /\ \A u \in Thread : u # t => thr'[u] = thr[u]
        /\ thr'[t].pc = "nosource" /\ t \notin Rec
    BY <1>1, <1>3, <1>5 DEF Become, Placed, Local
  <2>2. LaunchesLocked' /\ CapturesOwn'
    BY <1>2, <1>5, <2>1 DEF ThreadsOwn, LaunchesLocked, CapturesOwn, Capturing, Starting
  <2>3. Stable
    BY <1>2, <1>5, <2>1 DEF Stable, Settled, Loose, Published, Launching, Capturing, Starting
  <2> QED
    BY <2>2, <2>3 DEF ThreadsOwn
<1>6. ASSUME ~Owned(c), NEW r \in Rec, proc[r] = "unborn", lock' = t,
             proc' = [proc EXCEPT ![r] = "running"], active' = [active EXCEPT ![c] = r],
             Become(t, [me EXCEPT !.pc = "publish", !.rec = r])
      PROVE  ThreadsOwn' /\ Stable
  <2>1. /\ \A u \in Thread : u # t => thr'[u] = thr[u]
        /\ thr'[t].pc = "publish" /\ thr'[t].rec = r /\ thr'[t].chan = c /\ t \notin Rec
    BY <1>1, <1>3, <1>6 DEF Become, Placed, Local
  <2>2. ~Capturing(r) /\ ~Capturing(r)'
    BY <1>6, <2>1 DEF ThreadsOwn, CapturesOwn, Capturing
  <2>3. LaunchesLocked'
    BY <1>1, <1>2, <1>6, <2>1, <2>2 DEF LaunchesLocked, Starting
  <2>4. CapturesOwn'
    <3>1. \A q \in Rec : Capturing(q) => thr[q].chan # c
      BY <1>6 DEF ThreadsOwn, CapturesOwn, Owned, Capturing
    <3>2. \A q \in Rec : Capturing(q) => thr[q].chan \in Channel
      BY <1>1, WorkingNames DEF ThreadsOwn, CapturesOwn, Placed, Working
    <3> QED
      BY <1>1, <1>6, <2>1, <3>1, <3>2 DEF ThreadsOwn, CapturesOwn, Capturing
  <2>5. Stable
    BY <1>1, <1>2, <1>6, <2>1, <2>2 DEF Stable, Settled, Loose, Published, Launching, Capturing, Starting
  <2> QED
    BY <2>3, <2>4, <2>5 DEF ThreadsOwn
<1>7. Present(c) => db[c].paused \in BOOLEAN
  BY <1>1 DEF TypeOK, RowsOK, Row, Present
<1> QED
  BY <1>4, <1>5, <1>6, <1>7 DEF StartBegin

\* start_recording publishes the recording, or gives it up, and leaves the lock.
LEMMA StartEndOwn ==
  ASSUME TypeOK, ThreadsOwn, NEW t \in Thread, StartPublish(t) \/ StartNoSource(t)
  PROVE  ThreadsOwn' /\ Stable
<1> DEFINE me == thr[t]
           c == me.chan
           r == me.rec
<1>1. /\ thr \in [Thread -> Placed] /\ me \in Placed /\ me.pc \in Starting
      /\ c \in Channel /\ active \in [Channel -> Rec \cup {None}]
      /\ proc \in [Rec -> {"unborn", "running", "stopping", "exited", "reaped"}]
      /\ lock' = None
  BY DEF TypeOK, ThreadsOK, OthersOK, StartPublish, StartNoSource, Starting, Placed, AtRest
<1>2. /\ lock = t /\ t \in Prober
      /\ \A u \in Thread : u # t => thr[u].pc \notin Starting
  BY <1>1 DEF ThreadsOwn, LaunchesLocked, Starting
<1>3. AfterStart(t) \in Placed /\ AfterStart(t).pc \notin Starting
  BY <1>1, <1>2, AfterStartMoves
<1>4. \A q \in Rec : Capturing(q) => thr[q].chan \in Channel
  BY <1>1, WorkingNames DEF ThreadsOwn, CapturesOwn, Placed, Working
<1>5. CASE StartNoSource(t)
  <2>1. active' = active /\ proc' = proc /\ thr' = [thr EXCEPT ![t] = AfterStart(t)]
    BY <1>5 DEF StartNoSource, LeaveStart, Become
  <2>2. \A u \in Thread : thr'[u].pc \notin Starting
    BY <1>1, <1>2, <1>3, <2>1
  <2>3. \A q \in Rec : thr'[q] = thr[q]
    BY <1>1, <1>2, <2>1
  <2>4. LaunchesLocked' /\ CapturesOwn'
    BY <2>1, <2>2, <2>3 DEF ThreadsOwn, LaunchesLocked, CapturesOwn, Capturing, Starting
  <2>5. Stable
    BY <2>1, <2>2, <2>3 DEF Stable, Settled, Loose, Published, Launching, Capturing, Starting
  <2> QED
    BY <2>4, <2>5 DEF ThreadsOwn
<1>6. CASE StartPublish(t)
  <2>1. /\ r \in Rec /\ active[c] = r /\ ~Capturing(r) /\ proc[r] # "unborn"
        /\ \A q \in Rec : Capturing(q) => thr[q].chan # c
    <3>1. /\ r \in Rec /\ active[c] = r /\ ~Capturing(r) /\ proc[r] # "unborn"
      BY <1>2, <1>6 DEF StartPublish, ThreadsOwn, LaunchesLocked
    <3>2. \A q \in Rec : Capturing(q) => active[thr[q].chan] = q
      BY DEF ThreadsOwn, CapturesOwn
    <3> QED
      BY <3>1, <3>2
  <2>2. ~Published(r)
    BY <1>6 DEF StartPublish, Published, Launching
  <2>3. CASE Present(c)
    <3> DEFINE capture == [On("wait", c) EXCEPT !.rec = r]
    <3>1. capture.pc = "wait" /\ capture.chan = c /\ capture.rec = r
      BY DEF On, Idle
    <3>2. active' = active /\ proc' = proc /\ thr' = [thr EXCEPT ![r] = capture, ![t] = AfterStart(t)]
      BY <1>6, <2>3 DEF StartPublish
    <3> HIDE DEF capture
    <3>3. /\ \A u \in Thread : thr'[u].pc \notin Starting
          /\ \A q \in Rec : q # r => thr'[q] = thr[q]
          /\ thr'[r] = capture
      BY <1>1, <1>2, <1>3, <2>1, <3>1, <3>2 DEF Starting
    <3>4. LaunchesLocked'
      BY <3>3 DEF LaunchesLocked, Starting
    <3>5. CapturesOwn'
      <4>1. "wait" \in CapturePc
        BY DEF CapturePc
      <4>2. /\ active'[thr'[r].chan] = r /\ thr'[r].rec = r /\ proc'[r] # "unborn"
            /\ thr'[r].pc \in CapturePc
        BY <2>1, <3>1, <3>2, <3>3, <4>1
      <4>3. ASSUME NEW q \in Rec, q # r, Capturing(q)'
            PROVE  /\ active'[thr'[q].chan] = q /\ thr'[q].rec = q /\ proc'[q] # "unborn"
                   /\ thr'[q].pc \in CapturePc \cup ConvertPc \cup {"start"}
        BY <3>2, <3>3, <4>3 DEF ThreadsOwn, CapturesOwn, Capturing
      <4> QED
        BY <4>2, <4>3 DEF CapturesOwn
    <3>6. \A q \in Rec : Published(q) => q # r /\ Published(q)'
      BY <2>2, <3>2, <3>3 DEF Published, Launching, Starting
    <3>7. Stable
      BY <3>3, <3>6 DEF Stable, Settled, Loose, Capturing
    <3> QED
      BY <3>4, <3>5, <3>7 DEF ThreadsOwn
  <2>4. CASE ~Present(c)
    <3>1. active' = [active EXCEPT ![c] = None] /\ thr' = [thr EXCEPT ![t] = AfterStart(t)]
      BY <1>6, <2>4 DEF StartPublish, LeaveStart, Become
    <3>2. \A q \in Rec : proc'[q] = "unborn" <=> proc[q] = "unborn"
      BY <1>1, <1>6, <2>1, <2>4 DEF StartPublish, Terminate
    <3>3. /\ \A u \in Thread : thr'[u].pc \notin Starting
          /\ \A q \in Rec : thr'[q] = thr[q]
      BY <1>1, <1>2, <1>3, <3>1
    <3>4. LaunchesLocked'
      BY <3>3 DEF LaunchesLocked, Starting
    <3>5. CapturesOwn'
      BY <1>1, <1>4, <2>1, <3>1, <3>2, <3>3 DEF ThreadsOwn, CapturesOwn, Capturing
    <3>6. Stable
      BY <3>2, <3>3 DEF Stable, Settled, Loose, Published, Launching, Capturing, Starting
    <3> QED
      BY <3>4, <3>5, <3>6 DEF ThreadsOwn
  <2> QED
    BY <2>3, <2>4
<1> QED
  BY <1>5, <1>6

\* The capture thread ends; another capture thread owns another channel.
LEMMA PopOwn ==
  ASSUME TypeOK, ThreadsOwn, NEW r \in Rec, CapturePop(r)
  PROVE  ThreadsOwn' /\ Stable
<1> DEFINE c == thr[r].chan
<1>1. /\ thr \in [Thread -> Placed] /\ c \in Channel /\ active \in [Channel -> Rec \cup {None}]
      /\ lock = None /\ lock' = None /\ proc' = proc /\ thr' = [thr EXCEPT ![r] = Idle]
      /\ Capturing(r)
  BY DEF TypeOK, ThreadsOK, OthersOK, CapturePop, Become, Placed, AtRest, Capturing
<1>2. active[c] = r /\ active' = [active EXCEPT ![c] = None]
  BY <1>1 DEF CapturePop, ThreadsOwn, CapturesOwn
<1>3. \A u \in Thread : thr[u].pc \notin Starting
  BY <1>1 DEF ThreadsOwn, LaunchesLocked, Starting
<1>4. /\ \A u \in Thread : thr'[u].pc \notin Starting
      /\ \A q \in Rec : q # r => thr'[q] = thr[q]
      /\ ~Capturing(r)'
  BY <1>1, <1>3 DEF Capturing, Idle, Starting
<1>5. LaunchesLocked'
  BY <1>4 DEF LaunchesLocked, Starting
<1>6. CapturesOwn'
  <2>1. \A q \in Rec : Capturing(q) => thr[q].chan \in Channel
    BY <1>1, WorkingNames DEF ThreadsOwn, CapturesOwn, Placed, Working
  <2> QED
    BY <1>1, <1>2, <1>4, <2>1 DEF ThreadsOwn, CapturesOwn, Capturing
<1>7. Stable
  BY <1>1, <1>4 DEF Stable, Settled, Loose, Published, Launching, Capturing, Starting
<1> QED
  BY <1>5, <1>6, <1>7 DEF ThreadsOwn

\* After a restart nobody owns anything.
LEMMA CrashOwn ==
  ASSUME TypeOK, ThreadsOwn, Crash
  PROVE  ThreadsOwn' /\ Stable
<1>1. \A t \in Thread : thr'[t].pc \in {"idle", "boot"}
  BY AtPlaced DEF Crash, Idle, AtRest
<1>2. \A r \in Rec : thr'[r].pc = "idle"
  BY DEF Crash, Idle
<1>3. \A r \in Rec : proc'[r] = "unborn" <=> proc[r] = "unborn"
  BY DEF TypeOK, OthersOK, Crash
<1>4. LaunchesLocked' /\ CapturesOwn'
  BY <1>1, <1>2 DEF LaunchesLocked, CapturesOwn, Capturing
<1>5. Stable
  BY <1>1, <1>2, <1>3 DEF Stable, Settled, Loose, Published, Launching, Capturing
<1> QED
  BY <1>4, <1>5 DEF ThreadsOwn

\* Every step keeps the ownership of threads and what is settled.
LEMMA ThreadsStep ==
  ASSUME TypeOK, ThreadsOwn, Next
  PROVE  ThreadsOwn' /\ Stable
<1>1. CASE \E t \in Thread : StartStep(t)
  BY <1>1, StartBeginOwn, StartEndOwn DEF StartStep
<1>2. CASE \E r \in Rec : CapturePop(r)
  BY <1>2, PopOwn
<1>3. CASE Crash
  BY <1>3, CrashOwn
<1>4. CASE Quiet
  BY <1>4, QuietKeeps
<1> QED
  BY <1>1, <1>2, <1>3, <1>4, CheckQuiet, CaptureQuiet, ProcessQuiet, ConvertQuiet, SchedQuiet,
     ApiQuiet DEF Next

-----------------------------------------------------------------------------
(* Ownership: the records and the recovery                                 *)

\* A row that names no other recording than another row does.
SameFile(new, old) == \A r \in Rec : new # None /\ new.file = r => old # None /\ old.file = r

\* The writes of the channels table: a row keeps its file, or names what a
\* capture thread, a conversion or recovery works on, or is the API's.
RowWrite(c) ==
  \/ SameFile(db'[c], db[c])
  \/ \E r \in Rec : Settled(r, c)' /\ db'[c].file = r
  \/ api.op = "edit" /\ api.chan = c /\ db'[c] = api.row

\* What a step may do to the records for them to stay settled.
LEMMA RecordsStep ==
  ASSUME RecordsSettled, Stable, api' \in ApiCall,
         \A c \in Channel : RowWrite(c),
         \A c \in Channel : sweep'.snap[c] \in {None, sweep.snap[c], db[c]},
         \/ api' = api
         \/ api'.op # "edit"
         \/ SameFile(api'.row, db[api'.chan])
  PROVE  RecordsSettled'
<1>1. ASSUME NEW c \in Channel, NEW r \in Rec
      PROVE  db'[c] # None /\ db'[c].file = r => Settled(r, c)'
  BY DEF RecordsSettled, Refers, Stable, RowWrite, SameFile
<1>2. ASSUME NEW c \in Channel, NEW r \in Rec
      PROVE  sweep'.snap[c] # None /\ sweep'.snap[c].file = r => Settled(r, c)'
  BY DEF RecordsSettled, Refers, Stable
<1>3. ASSUME NEW c \in Channel, NEW r \in Rec, api'.chan = c
      PROVE  api'.op = "edit" /\ api'.row # None /\ api'.row.file = r => Settled(r, c)'
  BY <1>3 DEF RecordsSettled, Refers, Stable, SameFile
<1>4. ASSUME NEW r \in Rec, api'.op = "edit", api'.row # None, api'.row.file = r
      PROVE  Settled(r, api.chan)'
  <2>1. api'.chan \in Channel
    BY <1>4 DEF ApiCall, NoApi
  <2> QED
    BY <1>3, <1>4, <2>1 DEF Settled
<1> QED
  BY <1>1, <1>2, <1>4 DEF RecordsSettled, Refers

\* Updates of status, pid and paused leave the file alone.
LEMMA FileKept ==
  ASSUME RowsOK, NEW c \in Channel, NEW d \in Channel, NEW s, NEW b \in BOOLEAN
  PROVE  /\ db' = db => SameFile(db'[d], db[d])
         /\ SetStatus(c, s) => SameFile(db'[d], db[d])
         /\ Settle(c, s) => SameFile(db'[d], db[d])
         /\ Present(c) /\ SetPaused(c, b) => SameFile(db'[d], db[d])
BY DEF RowsOK, SetStatus, Settle, SetPaused, Present, Row, SameFile

\* start_recording records a recording whose capture thread it started.
LEMMA PublishWrites ==
  ASSUME TypeOK, ThreadsOwn, ThreadsOwn', NEW t \in Thread, StartPublish(t), NEW d \in Channel
  PROVE  RowWrite(d)
<1> DEFINE c == thr[t].chan
<1>0. PICK r \in Rec : r = thr[t].rec
  BY DEF StartPublish, ThreadsOwn, LaunchesLocked
<1>1. /\ thr \in [Thread -> Placed] /\ c \in Channel /\ RowsOK
      /\ proc \in [Rec -> {"unborn", "running", "stopping", "exited", "reaped"}]
  BY DEF TypeOK, ThreadsOK, OthersOK, StartPublish, Placed, AtRest
<1>2. t \notin Rec /\ proc[r] # "unborn" /\ lock' = None
  BY <1>0 DEF StartPublish, ThreadsOwn, LaunchesLocked
<1>3. CASE ~Present(c)
  BY <1>1, <1>3, FileKept DEF StartPublish, RowWrite
<1>4. CASE Present(c)
  <2>1. /\ proc' = proc /\ db'[c].file = r
        /\ d # c => db'[d] = db[d]
    <3>1. /\ proc' = proc
          /\ db' = [db EXCEPT ![c].status = "recording", ![c].pid = r, ![c].file = r,
                              ![c].mp4 = FALSE]
      BY <1>0, <1>4 DEF StartPublish
    <3>2. db[c] \in Row /\ db \in [Channel -> Row \cup {None}]
      BY <1>1, <1>4 DEF RowsOK, Present
    <3>3. db'[c] = [db[c] EXCEPT !.status = "recording", !.pid = r, !.file = r, !.mp4 = FALSE]
      BY <1>1, <3>1, <3>2
    <3>4. d # c => db'[d] = db[d]
      BY <3>1, <3>2
    <3>5. db'[c].file = r
      BY <3>2, <3>3 DEF Row
    <3> QED
      BY <3>1, <3>4, <3>5
  <2>2. Published(r)'
    BY <1>2, <2>1 DEF Published, Launching, ThreadsOwn, LaunchesLocked
  <2>3. thr'[r].chan = c
    <3>1. thr'[r] = [On("wait", c) EXCEPT !.rec = r]
      BY <1>0, <1>1, <1>2, <1>4 DEF StartPublish
    <3> QED
      BY <3>1 DEF On, Idle
  <2> QED
    BY <1>2, <2>1, <2>2, <2>3 DEF RowWrite, Settled, SameFile
<1> QED
  BY <1>3, <1>4

\* A capture thread's own recording is published, on its channel.
LEMMA OwnSettled ==
  ASSUME TypeOK, ThreadsOwn, NEW r \in Rec, Capturing(r)
  PROVE  Settled(r, thr[r].chan) /\ thr[r].rec = r
BY DEF ThreadsOwn, CapturesOwn, LaunchesLocked, Settled, Published, Launching

\* A conversion records what its thread owns, recovery what is loose.
LEMMA RecordWrites ==
  ASSUME TypeOK, ThreadsOwn, RecoversLoose, Stable, NEW d \in Channel,
         \/ \E t \in Rec \cup {Sched} : ConvertRecord(t)
         \/ SchedAdopt
  PROVE  RowWrite(d)
<1>1. ASSUME NEW t \in Thread, thr[t].chan = d, db' # db,
             (t \in Rec /\ thr[t].pc = "record") \/ (t = Sched /\ thr[t].pc \in {"record", "adopt"}),
             Present(d), db'[d].file = thr[t].rec
      PROVE  RowWrite(d)
  <2>1. thr[t].rec \in Rec \cup {None}
    BY DEF TypeOK, ThreadsOK, Placed, Local
  <2>2. CASE thr[t].rec \in Rec
    <3>1. CASE t \in Rec
      BY <1>1, <2>2, <3>1, OwnSettled DEF Capturing, Stable, RowWrite
    <3>2. CASE t = Sched
      <4>1. Loose(thr[t].rec)
        BY <1>1, <2>2, <3>2 DEF RecoversLoose, RecoveryPc, ConvertPc
      <4>2. Settled(thr[t].rec, d)
        BY <4>1 DEF Loose, Settled
      <4> QED
        BY <1>1, <2>2, <4>2 DEF Stable, RowWrite
    <3> QED
      BY <1>1, <3>1, <3>2
  <2>3. CASE thr[t].rec = None
    BY <1>1, <2>3 DEF RowWrite, SameFile
  <2> QED
    BY <2>1, <2>2, <2>3
<1>2. ASSUME NEW t \in Thread,
             \/ t \in Rec \cup {Sched} /\ ConvertRecord(t)
             \/ t = Sched /\ SchedAdopt
      PROVE  RowWrite(d)
  <2> DEFINE c == thr[t].chan
  <2>1. /\ c \in Channel /\ RowsOK
        /\ (t \in Rec /\ thr[t].pc = "record") \/ (t = Sched /\ thr[t].pc \in {"record", "adopt"})
    BY <1>2 DEF TypeOK, ThreadsOK, ConvertRecord, SchedAdopt, Sched_at, Placed, AtRest
  <2>2. CASE db' = db
    BY <2>2 DEF RowWrite, SameFile
  <2>3. CASE db' # db /\ d # c
    <3>1. db'[d] = db[d]
      <4>1. CASE ConvertRecord(t)
        BY <2>1, <2>3, <4>1 DEF ConvertRecord, RowsOK
      <4>2. CASE t = Sched /\ SchedAdopt
        BY <2>1, <2>3, <4>2 DEF SchedAdopt, RowsOK
      <4> QED
        BY <1>2, <4>1, <4>2
    <3> QED
      BY <3>1 DEF RowWrite, SameFile
  <2>4. CASE db' # db /\ d = c
    <3>1. Present(d) /\ db'[d].file = thr[t].rec
      <4>1. CASE t \in Rec \cup {Sched} /\ ConvertRecord(t)
        BY <2>1, <2>4, <4>1 DEF ConvertRecord, RowsOK, Present, Row
      <4>2. CASE t = Sched /\ SchedAdopt
        <5>1. /\ Present(d)
              /\ db' = [db EXCEPT ![d] = [db[d] EXCEPT !.status = Unpaused(thr[t].paused), !.pid = None,
                                                       !.file = thr[t].rec, !.mp4 = TRUE]]
          BY <2>4, <4>2 DEF SchedAdopt
        <5>2. db[d] \in Row
          BY <2>1, <5>1 DEF RowsOK, Present
        <5>3. [db[d] EXCEPT !.status = Unpaused(thr[t].paused), !.pid = None,
                            !.file = thr[t].rec, !.mp4 = TRUE].file = thr[t].rec
          BY <5>2 DEF Row
        <5> QED
          BY <2>1, <5>1, <5>3 DEF RowsOK
      <4> QED
        BY <1>2, <4>1, <4>2
    <3> QED
      BY <1>1, <2>1, <2>4, <3>1
  <2> QED
    BY <2>2, <2>3, <2>4
<1> QED
  BY <1>2

\* Who may give a row another file: the API, a publication, a conversion, recovery.
FromApi(c) == api.op = "edit" /\ api.chan = c /\ db'[c] = api.row
FileMove(c) ==
  \/ SameFile(db'[c], db[c])
  \/ FromApi(c)
  \/ \E t \in Thread : StartPublish(t)
  \/ \E t \in Rec \cup {Sched} : ConvertRecord(t)
  \/ SchedAdopt

\* Every step is one of these.
LEMMA FileMoves ==
  ASSUME TypeOK, Next, NEW d \in Channel
  PROVE  FileMove(d)
<1>1. RowsOK /\ thr \in [Thread -> Placed]
  BY DEF TypeOK, ThreadsOK
<1>2. SameFile(db'[d], db[d]) => FileMove(d)
  BY DEF FileMove
<1>3. ASSUME NEW k \in Prober, CheckStep(k)
      PROVE  FileMove(d)
  BY <1>1, <1>2, <1>3, CheckMoves, FileKept DEF CheckStep, CheckAcquire, CheckLoad, CheckBusy,
     CheckBegin, CheckResolve, CheckOnline, CheckOffline
<1>4. ASSUME NEW t \in Thread, StartStep(t)
      PROVE  FileMove(d)
  <2>1. thr[t].chan \in Channel
    BY <1>1, <1>4 DEF StartStep, StartBegin, StartPublish, StartNoSource, Placed, AtRest
  <2>2. CASE StartPublish(t)
    BY <2>2 DEF FileMove
  <2>3. CASE StartBegin(t) \/ StartNoSource(t)
    BY <1>1, <1>2, <2>1, <2>3, FileKept DEF StartBegin, StartNoSource
  <2> QED
    BY <1>4, <2>2, <2>3 DEF StartStep
<1>5. ASSUME NEW r \in Rec, CaptureStep(r)
      PROVE  FileMove(d)
  <2>1. thr[r].chan \in Channel
    BY <1>5, CaptureMoves
  <2>2. CASE CaptureForget(r)
    BY <1>1, <1>2, <2>1, <2>2 DEF CaptureForget, RowsOK, Present, Row, SameFile
  <2>3. CASE CaptureSettle(r) \/ CaptureFail(r)
    BY <1>1, <1>2, <2>1, <2>3, FileKept DEF CaptureSettle, CaptureFail
  <2> QED
    BY <1>1, <1>2, <1>5, <2>2, <2>3, FileKept DEF CaptureStep, CaptureWait, CaptureLoad,
       CaptureClassify, CaptureReacquire, CapturePop
<1>6. ASSUME NEW t \in Rec \cup {Sched}, ConvertStep(t)
      PROVE  FileMove(d)
  BY <1>1, <1>2, <1>6, FileKept DEF ConvertStep, ConvertBegin, ConvertFail, ConvertReplace,
     ConvertPrune, FileMove
<1>7. CASE SchedStep
  <2>1. CASE SchedReset
    <3>1. thr[Sched].chan \in Channel
      BY <1>1, <2>1 DEF SchedReset, Sched_at, Placed, AtRest
    <3> QED
      BY <1>1, <1>2, <2>1, <3>1, FileKept DEF SchedReset
  <2> QED
    BY <1>1, <1>2, <1>7, <2>1, FileKept DEF FileMove, SchedStep, SchedBoot, SchedList,
       SweepDone, SchedRecover, WarmupDone, VisitAlive, VisitSkip, VisitStale, VisitDue, WarmupChannel
<1>8. CASE CommandStep
  <2>1. CASE CommandRemove
    BY <1>1, <1>2, <2>1 DEF CommandRemove, RowsOK, SameFile
  <2> QED
    BY <1>1, <1>2, <1>8, <2>1, FileKept DEF CommandStep, CommandTrigger, CommandStop, CommandCheck,
       CommandResume, CommandPause
<1>9. CASE ApiStep
  <2>1. CASE ApiDelete
    BY <1>1, <1>2, <2>1 DEF ApiDelete, RowsOK, SameFile
  <2>2. CASE ApiUpsert
    BY <1>1, <2>2 DEF ApiUpsert, RowsOK, FileMove, FromApi, SameFile
  <2> QED
    BY <1>1, <1>2, <1>9, <2>1, <2>2, FileKept DEF ApiStep, ApiReadForEdit, ApiReadForDelete, ApiSetPaused
<1>10. CASE Crash \/ \E r \in Rec : ProcessStep(r)
  BY <1>1, <1>2, <1>10, FileKept DEF Crash, ProcessStep, ProcessWrites, ProcessExits
<1> QED
  BY <1>3, <1>4, <1>5, <1>6, <1>7, <1>8, <1>9, <1>10 DEF Next

\* Every step writes rows in one of the ways of RowWrite.
LEMMA RowWrites ==
  ASSUME TypeOK, Ownership, Next, ThreadsOwn', Stable, NEW d \in Channel
  PROVE  RowWrite(d)
<1>1. ThreadsOwn /\ RecoversLoose
  BY DEF Ownership, ThreadsOwn
<1>2. SameFile(db'[d], db[d]) \/ FromApi(d) => RowWrite(d)
  BY DEF RowWrite, FromApi
<1> QED
  BY <1>1, <1>2, FileMoves, PublishWrites, RecordWrites DEF FileMove

\* Only the scheduler's sweep and the API change what they have read.
LEMMA ThreadKeeps ==
  ASSUME \E k \in Thread : \/ k \in Prober /\ CheckStep(k)
                           \/ StartStep(k)
                           \/ k \in Rec /\ (CaptureStep(k) \/ ProcessStep(k))
                           \/ k \in Rec \cup {Sched} /\ ConvertStep(k)
  PROVE  sweep' = sweep /\ api' = api
<1>1. ASSUME NEW k \in Thread, CheckStep(k)
      PROVE  sweep' = sweep /\ api' = api
  BY <1>1 DEF CheckStep, CheckAcquire, CheckLoad, CheckBusy, CheckBegin, CheckResolve,
     CheckOnline, CheckOffline
<1>2. ASSUME NEW k \in Thread, StartStep(k)
      PROVE  sweep' = sweep /\ api' = api
  BY <1>2 DEF StartStep, StartBegin, StartPublish, StartNoSource
<1>3. ASSUME NEW k \in Thread, CaptureStep(k) \/ ProcessStep(k)
      PROVE  sweep' = sweep /\ api' = api
  BY <1>3 DEF CaptureStep, CaptureWait, CaptureLoad, CaptureSettle, CaptureClassify,
     CaptureReacquire, CaptureFail, CaptureForget, CapturePop, ProcessStep, ProcessWrites,
     ProcessExits
<1>4. ASSUME NEW k \in Thread, ConvertStep(k)
      PROVE  sweep' = sweep /\ api' = api
  BY <1>4 DEF ConvertStep, ConvertBegin, ConvertFail, ConvertReplace, ConvertPrune, ConvertRecord
<1> QED
  BY <1>1, <1>2, <1>3, <1>4

\* The snapshot of a sweep holds rows of the table as they were.
LEMMA SnapshotStep ==
  ASSUME TypeOK, Next, NEW c \in Channel
  PROVE  sweep'.snap[c] \in {None, sweep.snap[c], db[c]}
<1>0. /\ RowsOK
      /\ sweep \in [snap : [Channel -> Row \cup {None}], todo : SUBSET Channel, boot : BOOLEAN]
  BY DEF TypeOK, OthersOK
<1>1. CASE \E e \in Channel : VisitAlive(e) \/ VisitSkip(e) \/ VisitStale(e) \/ VisitDue(e)
                              \/ WarmupChannel(e)
  <2>1. PICK e \in Channel : sweep' = [sweep EXCEPT !.todo = @ \ {e}, !.snap[e] = None]
    BY <1>1 DEF VisitAlive, VisitSkip, VisitStale, VisitDue, WarmupChannel, Visited
  <2>2. sweep'.snap = [sweep.snap EXCEPT ![e] = None]
    BY <1>0, <2>1
  <2> QED
    BY <1>0, <2>2
<1>2. CASE SchedBoot \/ SchedList \/ SweepDone \/ Crash
  BY <1>0, <1>2 DEF SchedBoot, SchedList, SweepDone, Crash, TakeSnapshot
<1>3. CASE SchedRecover \/ SchedAdopt \/ SchedReset \/ WarmupDone \/ CommandStep \/ ApiStep
  BY <1>3 DEF SchedRecover, SchedAdopt, SchedReset, WarmupDone, CommandStep, CommandTrigger,
     CommandStop, CommandRemove, CommandCheck, CommandResume, CommandPause, ApiStep, ApiUpsert,
     ApiDelete, ApiReadForEdit, ApiReadForDelete, ApiSetPaused
<1> QED
  BY ThreadKeeps, <1>1, <1>2, <1>3 DEF Next, SchedStep

\* A row that names no other process than another row does.
SamePid(new, old) == \A r \in Rec : new # None /\ new.pid = r => old # None /\ old.pid = r

\* A row the API is about to write back names what the row it read names.
LEMMA ApiReadStep ==
  ASSUME TypeOK, Next
  PROVE  \/ api' = api
         \/ api'.op # "edit"
         \/ SameFile(api'.row, db[api'.chan]) /\ SamePid(api'.row, db[api'.chan])
<1>0. RowsOK
  BY DEF TypeOK
<1>1. ASSUME NEW c \in Channel, ApiReadForEdit(c) \/ ApiReadForDelete(c)
      PROVE  \/ api'.op # "edit"
             \/ SameFile(api'.row, db[api'.chan]) /\ SamePid(api'.row, db[api'.chan])
  <2>1. db[c] \in Row /\ db[c] # None
    BY <1>0, <1>1 DEF RowsOK, Present, ApiReadForEdit, ApiReadForDelete
  <2>2. /\ Edited(db[c], TRUE).file = db[c].file /\ Edited(db[c], FALSE).file = db[c].file
        /\ Edited(db[c], TRUE).pid = db[c].pid /\ Edited(db[c], FALSE).pid = db[c].pid
    BY <2>1 DEF Edited, Row
  <2>3. CASE \E row \in {db[c], Edited(db[c], TRUE), Edited(db[c], FALSE)} :
               api' = [op |-> "edit", chan |-> c, row |-> row]
    <3> PICK row \in {db[c], Edited(db[c], TRUE), Edited(db[c], FALSE)} :
               api' = [op |-> "edit", chan |-> c, row |-> row]
      BY <2>3
    <3>0. row.file = db[c].file /\ row.pid = db[c].pid
      BY <2>2
    <3>1. api'.chan = c /\ api'.row = row
      OBVIOUS
    <3> QED
      BY <2>1, <3>0, <3>1 DEF SameFile, SamePid
  <2>4. CASE api' = [op |-> "delete", chan |-> c, row |-> None]
    BY <2>4
  <2> QED
    BY <1>1, <2>3, <2>4 DEF ApiReadForEdit, ApiReadForDelete
<1>2. CASE ApiUpsert \/ ApiDelete
  BY <1>2 DEF ApiUpsert, ApiDelete, NoApi
<1>3. CASE Crash \/ SchedStep \/ CommandStep \/ \E c \in Channel : \E b \in BOOLEAN : ApiSetPaused(c, b)
  BY <1>3 DEF Crash, SchedStep, SchedBoot, SchedList, SweepDone, SchedRecover, SchedAdopt,
     SchedReset, WarmupDone, VisitAlive, VisitSkip, VisitStale, VisitDue, WarmupChannel,
     CommandStep, CommandTrigger, CommandStop, CommandRemove, CommandCheck, CommandResume,
     CommandPause, ApiSetPaused
<1> QED
  BY ThreadKeeps, <1>1, <1>2, <1>3 DEF Next, ApiStep

\* Every step keeps the records settled.
LEMMA RecordsSettledStep ==
  ASSUME TypeOK, TypeOK', Ownership, Next, ThreadsOwn', Stable
  PROVE  RecordsSettled'
<1>1. \A c \in Channel : RowWrite(c)
  BY RowWrites
<1>2. RecordsSettled /\ api' \in ApiCall
  BY DEF Ownership, TypeOK, OthersOK
<1>3. \A c \in Channel : sweep'.snap[c] \in {None, sweep.snap[c], db[c]}
  BY SnapshotStep
<1>4. \/ api' = api
      \/ api'.op # "edit"
      \/ SameFile(api'.row, db[api'.chan])
  BY ApiReadStep
<1> QED
  BY <1>1, <1>2, <1>3, <1>4, RecordsStep

\* Where a step of start_recording takes its thread, and which thread it starts.
LEMMA StartGoes ==
  ASSUME TypeOK, Ownership, NEW t \in Thread, StartStep(t)
  PROVE  /\ thr'[t].pc \in {"tick", "idle", "pop", "publish", "nosource"}
         /\ \A u \in Prober : u # t => thr'[u] = thr[u]
<1> DEFINE me == thr[t]
           Goes == {"tick", "idle", "pop", "publish", "nosource"}
<1>1. thr \in [Thread -> Placed] /\ me \in Local
  BY DEF TypeOK, ThreadsOK, Placed
<1>2. AfterStart(t).pc \in Goes
  BY DEF AfterStart, Rest, Ending, On, At, Idle
<1>3. CASE StartBegin(t)
  <2>1. ASSUME NEW b, Become(t, [me EXCEPT !.pc = "nosource", !.paused = b])
        PROVE  thr'[t].pc = "nosource" /\ \A u \in Prober : u # t => thr'[u] = thr[u]
    BY <1>1, <2>1 DEF Become, Local
  <2>2. ASSUME NEW r, Become(t, [me EXCEPT !.pc = "publish", !.rec = r])
        PROVE  thr'[t].pc = "publish" /\ \A u \in Prober : u # t => thr'[u] = thr[u]
    BY <1>1, <2>2 DEF Become, Local
  <2>3. ASSUME LeaveStart(t)
        PROVE  thr'[t].pc \in Goes /\ \A u \in Prober : u # t => thr'[u] = thr[u]
    BY <1>1, <1>2, <2>3 DEF LeaveStart, Become
  <2> QED
    BY <1>3, <2>1, <2>2, <2>3 DEF StartBegin
<1>4. CASE StartNoSource(t)
  BY <1>1, <1>2, <1>4 DEF StartNoSource, LeaveStart, Become
<1>5. CASE StartPublish(t)
  <2>1. me.rec \in Rec /\ t \notin Rec
    BY <1>5 DEF StartPublish, Ownership, LaunchesLocked
  <2> QED
    BY <1>1, <1>2, <1>5, <2>1 DEF StartPublish, LeaveStart, Become
<1> QED
  BY <1>3, <1>4, <1>5 DEF StartStep

\* How the scheduler comes to be at recovery: it was, or it found a stale row.
RecoveryMove ==
  \/ thr'[Sched] = thr[Sched]
  \/ thr'[Sched].pc \notin RecoveryPc
  \/ thr[Sched].pc \in RecoveryPc /\ thr'[Sched].rec = thr[Sched].rec
  \/ \E c \in Channel : VisitStale(c)

\* Every step that leaves the scheduler at recovery is one of these.
LEMMA RecoveryForms ==
  ASSUME TypeOK, TypeOK', Ownership, Next
  PROVE  RecoveryMove
<1>1. thr \in [Thread -> Placed] /\ thr' \in [Thread -> Placed] /\ Sched \in Thread
  BY DEF TypeOK, ThreadsOK
<1>2. ASSUME NEW t \in Thread, t # Sched, NEW me, Become(t, me)
      PROVE  thr'[Sched] = thr[Sched]
  BY <1>1, <1>2 DEF Become
<1>3. ASSUME NEW k \in Prober, CheckStep(k)
      PROVE  thr'[Sched] = thr[Sched] \/ thr'[Sched].pc \notin RecoveryPc
  BY <1>1, <1>3, CheckMoves DEF Become, CheckPc, RecoveryPc, ConvertPc
<1>4. ASSUME NEW t \in Thread, StartStep(t)
      PROVE  thr'[Sched] = thr[Sched] \/ thr'[Sched].pc \notin RecoveryPc
  <2>1. CASE t = Sched
    BY <1>4, <2>1, StartGoes DEF RecoveryPc, ConvertPc
  <2>2. CASE t # Sched
    BY <1>4, <2>2, StartGoes
  <2> QED
    BY <2>1, <2>2
<1>5. ASSUME NEW r \in Rec, CaptureStep(r) \/ ProcessStep(r)
      PROVE  thr'[Sched] = thr[Sched]
  BY <1>1, <1>5, CaptureMoves DEF Become, ProcessStep, ProcessWrites, ProcessExits
<1>6. ASSUME NEW t \in Rec \cup {Sched}, ConvertStep(t)
      PROVE  \/ thr'[Sched] = thr[Sched] \/ thr'[Sched].pc \notin RecoveryPc
             \/ thr[Sched].pc \in RecoveryPc /\ thr'[Sched].rec = thr[Sched].rec
  <2>1. At("tick").pc \notin RecoveryPc
    BY DEF At, Idle, RecoveryPc, ConvertPc
  <2> QED
    BY <1>1, <1>6, <2>1, ConvertMoves DEF Become, Kept, RecoveryPc
<1>7. ASSUME SchedRecover
      PROVE  thr[Sched].pc \in RecoveryPc /\ thr'[Sched].rec = thr[Sched].rec
  <2>1. \A p \in Pc : \A w \in Why : [thr[Sched] EXCEPT !.why = w, !.pc = p].rec = thr[Sched].rec
    BY <1>1 DEF Placed, Local
  <2>2. {"reset", "adopt", "convert"} \subseteq Pc /\ "salvage" \in Why
    BY PcNames DEF Why
  <2> QED
    BY <1>1, <1>7, <2>1, <2>2 DEF SchedRecover, Become, Sched_at, RecoveryPc
<1>8. CASE SchedStep \/ CommandStep
  BY <1>7, <1>8, SchedQuiet DEF Recovers, RecoveryMove
<1>9. CASE ApiStep \/ Crash
  <2>1. At("boot").pc \notin RecoveryPc
    BY DEF At, Idle, RecoveryPc, ConvertPc
  <2> QED
    BY <1>1, <1>9, <2>1, ApiQuiet DEF Crash, RecoveryMove
<1> QED
  BY <1>3, <1>4, <1>5, <1>6, <1>8, <1>9 DEF Next, RecoveryMove

\* Recovery enters with the recording of a row whose channel no thread owns.
LEMMA RecoversLooseStep ==
  ASSUME TypeOK, TypeOK', Ownership, Next, Stable
  PROVE  RecoversLoose'
<1>1. thr \in [Thread -> Placed] /\ thr' \in [Thread -> Placed] /\ Sched \in Thread
  BY DEF TypeOK, ThreadsOK
<1>2. CASE \/ thr'[Sched] = thr[Sched]
           \/ thr[Sched].pc \in RecoveryPc /\ thr'[Sched].rec = thr[Sched].rec
  BY <1>2 DEF Ownership, RecoversLoose, Stable
<1>3. CASE thr'[Sched].pc \notin RecoveryPc
  BY <1>3 DEF RecoversLoose
<1>4. ASSUME NEW c \in Channel, VisitStale(c)
       PROVE  RecoversLoose'
  <2>1. thr'[Sched].rec = sweep.snap[c].file
    BY <1>1, <1>4 DEF VisitStale, Become, On, Idle
  <2>2. SweepListed /\ sweep.snap[c] # None
    BY <1>4 DEF TypeOK, ThreadsOK, SweepListed, VisitStale, Visiting, Sched_at
  <2>3. ASSUME NEW r \in Rec, sweep.snap[c].file = r
        PROVE  Loose(r)
    <3>1. Settled(r, c)
      BY <2>2, <2>3 DEF Ownership, RecordsSettled, Refers
    <3>2. ~Owned(c)
      BY <1>4 DEF VisitStale
    <3> QED
      BY <3>1, <3>2 DEF Settled, Loose, Owned, Ownership, CapturesOwn
  <2> QED
    BY <2>1, <2>3 DEF RecoversLoose, Stable
<1> QED
  BY <1>2, <1>3, <1>4, RecoveryForms DEF RecoveryMove

\* At the start nothing is launched, owned, named or recovered.
LEMMA OwnershipInit == Init => Ownership
<1> SUFFICES ASSUME Init PROVE Ownership
  OBVIOUS
<1>1. \A t \in Thread : thr[t].pc \in {"idle", "boot"} /\ (t # Sched => thr[t].pc = "idle")
  BY DEF Init, At, Idle
<1>2. LaunchesLocked /\ CapturesOwn /\ RecoversLoose
  BY <1>1 DEF LaunchesLocked, CapturesOwn, Capturing, RecoversLoose, RecoveryPc, ConvertPc
<1>3. RecordsSettled
  BY DEF Init, RecordsSettled, Refers, NoApi
<1> QED
  BY <1>2, <1>3 DEF Ownership

\* Every step keeps the ownership.
LEMMA OwnershipNext == TypeOK /\ TypeOK' /\ Ownership /\ [Next]_vars => Ownership'
<1> SUFFICES ASSUME TypeOK, TypeOK', Ownership, [Next]_vars PROVE Ownership'
  OBVIOUS
<1>1. CASE UNCHANGED vars
  BY <1>1 DEF vars, Ownership, LaunchesLocked, CapturesOwn, Capturing, RecordsSettled, Refers,
     RecoversLoose, Settled, Loose, Published, Launching
<1>2. CASE Next
  <2>1. ThreadsOwn' /\ Stable
    BY <1>2, ThreadsStep DEF Ownership, ThreadsOwn
  <2> QED
    BY <1>2, <2>1, RecordsSettledStep, RecoversLooseStep DEF Ownership, ThreadsOwn
<1> QED
  BY <1>1, <1>2

\* The inductive invariant: a recording is launched inside _record_lock, owned
\* by its capture thread's entry, named only by records of its channel, and
\* recovered only when no capture thread has it.
THEOREM OwnershipHolds == Spec => []Ownership
BY TypeCorrect, OwnershipInit, OwnershipNext, PTL DEF Spec

\* While a capture thread lives, _active_processes names its recording.
THEOREM OneCaptureHolds == Spec => []OneCapture
<1>1. Ownership => OneCapture
  BY DEF Ownership, CapturesOwn, OneCapture
<1> QED
  BY <1>1, OwnershipHolds, PTL

\* The capture thread and the recovering scheduler never remux one recording.
THEOREM OneConversionHolds == Spec => []OneConversion
<1>1. Ownership => OneConversion
  <2> SUFFICES ASSUME Ownership, NEW r \in Rec, Remuxing(r), Remuxing(Sched),
                      thr[Sched].rec = thr[r].rec
               PROVE  FALSE
    BY DEF OneConversion
  <2>1. Capturing(r) /\ thr[r].rec = r
    BY DEF Ownership, CapturesOwn, Capturing, Remuxing, ConvertPc
  <2>2. Loose(r)
    BY <2>1 DEF Ownership, RecoversLoose, RecoveryPc, Remuxing
  <2> QED
    BY <2>1, <2>2 DEF Loose
<1> QED
  BY <1>1, OwnershipHolds, PTL
=============================================================================
