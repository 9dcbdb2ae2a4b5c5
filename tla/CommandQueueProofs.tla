------------------------- MODULE CommandQueueProofs -------------------------
(* Proofs about CommandQueue: the order of the table survives the two-step     *)
(* claim, the queue implements OrderedCommands, and what the user asked for    *)
(* comes about (Promises: for every channel with a promise, what is still on   *)
(* the way adds up to it).                                                     *)
EXTENDS CommandQueue, SequenceTheorems, TLAPS

\* A handler at work knows its channel and what it has to write or enqueue.
LEMMA CallFields ==
  ASSUME TypeOK
  PROVE  /\ call.op = "enqueue" => call.chan \in Channel /\ call.kind \in Kind
         /\ call.op = "write" => /\ call.chan \in Channel /\ call.row \in BOOLEAN
                                 /\ call.kind \in {None, "delete"}
BY DEF TypeOK, NoCall

\* The commands table is a sequence of commands, and its ids are its indices.
LEMMA Table ==
  ASSUME TypeOK
  PROVE  /\ Len(commands) \in Nat
         /\ \A i \in Ids : commands[i] \in Command
         /\ Pending \subseteq Ids
         /\ Ids \subseteq Nat
BY LenProperties, ElementOfSeq DEF TypeOK, Ids, Pending

\* What a command says; its state is the rest of it.
SameWords(new, old) == new.chan = old.chan /\ new.kind = old.kind

\* Marking ids as claimed keeps the table a table of the same length.
LEMMA Marking ==
  ASSUME TypeOK, NEW s
  PROVE  /\ Claimed(s) \in Seq(Command)
         /\ Len(Claimed(s)) = Len(commands)
         /\ \A i \in Ids : /\ Claimed(s)[i].state = IF i \in s THEN "claimed" ELSE commands[i].state
                          /\ SameWords(Claimed(s)[i], commands[i])
<1>1. \A i \in Ids : (IF i \in s THEN [commands[i] EXCEPT !.state = "claimed"] ELSE commands[i])
                       \in Command
  BY Table DEF Command
<1>2. Claimed(s) \in [1..Len(commands) -> Command]
  BY <1>1 DEF Claimed, Ids
<1>3. Len(commands) \in Nat
  BY Table
<1>4. Claimed(s) \in Seq(Command) /\ Len(Claimed(s)) = Len(commands)
  BY <1>2, <1>3
<1>5. ASSUME NEW i \in Ids
      PROVE  /\ Claimed(s)[i].state = IF i \in s THEN "claimed" ELSE commands[i].state
             /\ SameWords(Claimed(s)[i], commands[i])
  BY <1>1, <1>5, Table DEF Claimed, Command, SameWords
<1> QED BY <1>4, <1>5

\* Completing a command changes its state and nothing else.
LEMMA Completing ==
  ASSUME TypeOK, NEW j \in Ids, Done(j)
  PROVE  /\ commands' \in Seq(Command)
         /\ Len(commands') = Len(commands)
         /\ \A i \in Ids : /\ commands'[i].state = IF i = j THEN "done" ELSE commands[i].state
                          /\ SameWords(commands'[i], commands[i])
<1>1. [commands[j] EXCEPT !.state = "done"] \in Command
  BY Table DEF Command
<1>2. commands' = [commands EXCEPT ![j] = [commands[j] EXCEPT !.state = "done"]]
  BY DEF Done
<1>3. j \in 1..Len(commands) /\ commands \in Seq(Command)
  BY DEF Ids, TypeOK
<1> QED BY <1>1, <1>2, <1>3, ExceptSeq, Table DEF Ids, Command, SameWords

\* Enqueueing adds one pending command with the next id.
LEMMA Enqueueing ==
  ASSUME TypeOK, NEW r \in Command, r.state = "new", commands' = Append(commands, r)
  PROVE  /\ commands' \in Seq(Command)
         /\ Len(commands') = Len(commands) + 1
         /\ Ids' = Ids \cup {Len(commands) + 1}
         /\ Pending' = Pending \cup {Len(commands) + 1}
         /\ commands'[Len(commands) + 1] = r
         /\ \A i \in Ids : SameWords(commands'[i], commands[i])
<1>1. commands \in Seq(Command) /\ Len(commands) \in Nat
  BY Table DEF TypeOK
<1>2. commands' \in Seq(Command) /\ Len(commands') = Len(commands) + 1
  BY <1>1
<1>3. \A i \in 1..Len(commands) : commands'[i] = commands[i]
  BY <1>1
<1>4. commands'[Len(commands) + 1] = r
  BY <1>1
<1>5. Ids' = Ids \cup {Len(commands) + 1}
  BY <1>1, <1>2 DEF Ids
<1> QED BY <1>1, <1>2, <1>3, <1>4, <1>5 DEF Pending, Ids, SameWords

\* The API writes rows and enqueues; the worker's side is untouched.
LEMMA ApiTypes ==
  ASSUME TypeOK, ApiStep
  PROVE  TypeOK'
<1> USE QueueAssumption
<1>1. CASE ApiWrite
  BY <1>1, CallFields DEF ApiWrite, TypeOK, history, Enqueuing, NoCall, Kind, Ids
<1>2. CASE ApiEnqueue
  <2>1. [kind |-> call.kind, chan |-> call.chan, state |-> "new"] \in Command
    BY <1>2, CallFields DEF ApiEnqueue, Command
  <2>2. /\ commands' \in Seq(Command)
        /\ Len(commands') = Len(commands) + 1 /\ Ids \subseteq Ids'
    BY <1>2, <2>1, Enqueueing DEF ApiEnqueue
  <2> QED BY <1>2, <2>2, Table DEF ApiEnqueue, TypeOK, history, Ids
<1>3. ASSUME NEW c \in Channel, NEW k \in Kind
      PROVE  /\ Enqueuing(c, k) \in [op : {"enqueue"}, chan : Channel, row : {None}, kind : Kind]
             /\ Writing(c, TRUE, "delete") \in
                  [op : {"write"}, chan : Channel, row : BOOLEAN, kind : {None, "delete"}]
  BY <1>3 DEF Enqueuing, Writing
<1>4. CASE \E c \in Channel : ApiCheck(c) \/ ApiDelete(c)
  <2> PICK c \in Channel : ApiCheck(c) \/ ApiDelete(c)
    BY <1>4
  <2>1. CASE ApiCheck(c)
    <3>1. call' \in [op : {"enqueue"}, chan : Channel, row : {None}, kind : Kind]
      BY <1>3, <2>1 DEF ApiCheck, Kind
    <3> QED BY <2>1, <3>1 DEF ApiCheck, TypeOK, history, Ids
  <2>2. CASE ApiDelete(c)
    <3>1. \/ call' = call
          \/ call' \in [op : {"write"}, chan : Channel, row : BOOLEAN, kind : {None, "delete"}]
      BY <1>3, <2>2 DEF ApiDelete, Kind
    <3>2. rows' \in [Channel -> BOOLEAN \cup {None}]
      BY <2>2 DEF ApiDelete, TypeOK
    <3> QED BY <2>2, <3>1, <3>2 DEF ApiDelete, TypeOK, Ids
  <2> QED BY <2>1, <2>2
<1>6. CASE \E c \in Channel, b \in BOOLEAN : ApiSetPaused(c, b) \/ ApiCreate(c, b)
  <2> PICK c \in Channel, b \in BOOLEAN : ApiSetPaused(c, b) \/ ApiCreate(c, b)
    BY <1>6
  <2>1. \/ call' = NoCall
        \/ call' \in [op : {"enqueue"}, chan : Channel, row : {None}, kind : Kind]
    <3>1. "check" \in Kind /\ (IF b THEN "pause" ELSE "resume") \in Kind
      BY DEF Kind
    <3>2. CASE ApiSetPaused(c, b)
      <4>1. call' = Enqueuing(c, IF b THEN "pause" ELSE "resume")
        BY <3>2 DEF ApiSetPaused
      <4> QED BY <1>3, <3>1, <4>1
    <3>3. CASE ApiCreate(c, b)
      <4>1. call' = NoCall \/ call' = Enqueuing(c, "check")
        BY <3>3 DEF ApiCreate
      <4>2. Enqueuing(c, "check") \in [op : {"enqueue"}, chan : Channel, row : {None}, kind : Kind]
        BY <1>3, <3>1
      <4> QED BY <4>1, <4>2
    <3> QED BY <3>2, <3>3
  <2>2. /\ rows' \in [Channel -> BOOLEAN \cup {None}]
        /\ intent' \in [Channel -> BOOLEAN \cup {None, Any}]
    BY DEF ApiSetPaused, ApiCreate, Direct, TypeOK
  <2> QED BY <2>1, <2>2 DEF ApiSetPaused, ApiCreate, TypeOK, Ids
<1>5. CASE \E c \in Channel, b \in BOOLEAN \cup {None} : ApiEdit(c, b)
  <2> PICK c \in Channel, b \in BOOLEAN \cup {None} : ApiEdit(c, b)
    BY <1>5
  <2>1. (IF b = None THEN rows[c] ELSE b) \in BOOLEAN
    BY DEF ApiEdit, Ready, TypeOK
  <2>2. call' \in [op : {"write"}, chan : Channel, row : BOOLEAN, kind : {None, "delete"}]
    BY <2>1 DEF ApiEdit, Writing
  <2>3. intent' \in [Channel -> BOOLEAN \cup {None, Any}]
    BY DEF ApiEdit, Direct, TypeOK
  <2> QED BY <2>2, <2>3 DEF ApiEdit, TypeOK, Ids
<1> QED BY <1>1, <1>2, <1>4, <1>5, <1>6 DEF ApiStep

\* The worker's steps and its failures.
LEMMA WorkerTypes ==
  ASSUME TypeOK, WorkerStep \/ Raise \/ Crash
  PROVE  TypeOK'
<1> USE QueueAssumption
<1>1. CASE ReadBatch
  BY <1>1 DEF ReadBatch, At, OldestBatch, Pending, TypeOK, history, Ids
<1>2. CASE Claim
  BY <1>2, Marking DEF Claim, At, TypeOK, history, Ids
<1>3. CASE Remove
  <2>1. worker.id \in Ids /\ worker' \in [pc : {"complete"}, id : Ids]
    BY <1>3 DEF Remove, TypeOK
  <2>2. commands[worker.id].chan \in Channel
    BY <2>1, Table DEF Command
  <2> QED BY <1>3, <2>1, <2>2 DEF Remove, TypeOK, history, Ids
<1>4. CASE Complete
  BY <1>4, Completing DEF Complete, At, TypeOK, history, Ids
<1>5. CASE BatchDone
  BY <1>5 DEF BatchDone, At, TypeOK, history, Ids
<1>6. CASE \E i \in batch : BeginCommand(i)
  <2> PICK i \in batch : BeginCommand(i)
    BY <1>6
  <2>1. i \in Ids /\ commands[i].chan \in Channel
    BY Table DEF TypeOK, Command
  <2>2. i \in 1..Len(commands)
    BY <2>1 DEF Ids
  <2>3. rows' \in [Channel -> BOOLEAN \cup {None}]
    BY DEF BeginCommand, TypeOK
  <2> QED BY <2>1, <2>2, <2>3 DEF BeginCommand, TypeOK, Ids
<1>7. CASE Raise \/ Crash
  <2>1. Abandon /\ UNCHANGED <<rows, call, last, intent>>
    BY <1>7 DEF Raise, Crash
  <2>2. /\ commands' \in Seq(Command) /\ Len(commands') = Len(commands)
    <3>1. CASE commands' = commands
      BY <3>1 DEF TypeOK
    <3>2. CASE Raise /\ worker.pc # "claim" /\ Done(worker.id)
      <4>1. worker.id \in Ids
        BY <3>2 DEF Raise, TypeOK
      <4> QED BY <3>2, <4>1, Completing
    <3> QED BY <1>7, <3>1, <3>2 DEF Raise, Crash
  <2>3. failures' \in 0..MaxFailures /\ Running \subseteq Ids
    BY <2>1 DEF Abandon, TypeOK, Running
  <2> QED BY <2>1, <2>2, <2>3 DEF Abandon, At, TypeOK, Ids
<1> QED BY <1>1, <1>2, <1>3, <1>4, <1>5, <1>6, <1>7 DEF WorkerStep

\* Type correctness of CommandQueue, for every number of channels and commands.
THEOREM QueueTypeCorrect == Spec => []TypeOK
<1>1. Init => TypeOK
  BY QueueAssumption DEF Init, TypeOK, NoCall, Ids
<1>2. TypeOK /\ [Next]_vars => TypeOK'
  <2>1. ASSUME TypeOK, UNCHANGED vars PROVE TypeOK'
    BY <2>1 DEF vars, TypeOK, Ids
  <2> QED BY <2>1, ApiTypes, WorkerTypes DEF Next
<1> QED BY <1>1, <1>2, PTL DEF Spec

-----------------------------------------------------------------------------
\* The API only adds newer pending commands.
LEMMA ApiInOrder ==
  ASSUME TypeOK, InOrder, ApiStep
  PROVE  InOrder' /\ last' = last
         /\ (Len(commands') = Len(commands) \/ Len(commands') = Len(commands) + 1)
<1>1. CASE ApiEnqueue
  <2>1. [kind |-> call.kind, chan |-> call.chan, state |-> "new"] \in Command
    BY <1>1, CallFields DEF ApiEnqueue, Command
  <2>2. /\ Len(commands') = Len(commands) + 1
        /\ Ids' = Ids \cup {Len(commands) + 1}
        /\ Pending' = Pending \cup {Len(commands) + 1}
    BY <1>1, <2>1, Enqueueing DEF ApiEnqueue
  <2>3. \A i \in batch \cup {last} : i < Len(commands) + 1
    BY Table DEF TypeOK, Ids
  <2>4. Len(commands) + 1 \notin batch
    BY Table DEF TypeOK, Ids
  <2>5. UNCHANGED <<batch, worker, failures, last>>
    BY <1>1 DEF ApiEnqueue, history
  <2>6. Running' = Running
    BY <2>5 DEF Running
  <2> QED BY <2>2, <2>3, <2>4, <2>5, <2>6 DEF InOrder
<1>2. CASE UNCHANGED <<commands, batch, worker, failures, last>>
  BY <1>2, Table DEF InOrder, Pending, Ids, Running
<1>3. ~ApiEnqueue => UNCHANGED <<commands, batch, worker, failures, last>>
  BY DEF ApiStep, ApiWrite, ApiCheck, ApiDelete, ApiSetPaused, ApiCreate, ApiEdit, history
<1> QED BY <1>1, <1>2, <1>3

\* The worker claims what it read, begins with the oldest, and drops its batch
\* when it fails.
LEMMA WorkerInOrder ==
  ASSUME TypeOK, InOrder, WorkerStep \/ Raise \/ Crash
  PROVE  InOrder' /\ Len(commands') = Len(commands)
<1> USE QueueAssumption
<1>0. Len(commands) \in Nat /\ Ids \subseteq Nat /\ Pending \subseteq Ids /\ last \in Nat
  BY Table DEF TypeOK
<1>1. CASE ReadBatch
  <2>1. PICK s \in SUBSET Pending : OldestBatch(s) /\ batch' = s
    BY <1>1 DEF ReadBatch
  <2>2. /\ UNCHANGED <<commands, failures, last>> /\ Running' = {}
        /\ worker.pc = "idle" /\ worker'.pc = "claim"
    BY <1>1 DEF ReadBatch, At, Running, history
  <2>3. Ids' = Ids /\ Pending' = Pending
    BY <2>2 DEF Ids, Pending
  <2>4. /\ \A i \in Running' : i = last'
        /\ \A i \in batch' \cup Pending' : last' < i
        /\ \A i \in batch', j \in Pending' \ batch' : i < j
        /\ batch' \subseteq Pending'
    BY <2>1, <2>2, <2>3 DEF InOrder, OldestBatch
  <2>5. batch = {}
    BY <2>2 DEF InOrder
  <2>6. failures' = 0 => \A i \in Ids' : i > last' => i \in batch' \cup Pending'
    BY <2>2, <2>3, <2>5 DEF InOrder
  <2> QED BY <2>2, <2>4, <2>6 DEF InOrder
<1>2. CASE Claim
  <2>1. Ids' = Ids /\ Pending' = Pending \ batch
    BY <1>2, Marking DEF Claim, Pending, Ids
  <2>2. Len(commands') = Len(commands) /\ UNCHANGED <<batch, failures, last>>
    BY <1>2, Marking DEF Claim, history
  <2>3. worker.pc = "claim" /\ worker'.pc = "run" /\ Running' = {}
    BY <1>2 DEF Claim, At, Running
  <2>4. batch \cap Pending' = {} /\ batch \cup Pending' = batch \cup Pending
    BY <2>1
  <2> QED BY <2>1, <2>2, <2>3, <2>4 DEF InOrder
<1>3. CASE Remove \/ BatchDone
  <2>1. /\ worker.pc # "claim" /\ worker'.pc # "claim"
        /\ worker'.pc = "idle" => batch = {}
    BY <1>3 DEF Remove, BatchDone, At, TypeOK
  <2>2. UNCHANGED <<commands, batch, failures, last>>
    BY <1>3 DEF Remove, BatchDone, history
  <2>3. Running' = Running
    <3>1. CASE Remove
      <4>1. worker'.id = worker.id /\ worker.pc = "remove" /\ worker'.pc = "complete"
        BY <3>1 DEF Remove, TypeOK
      <4> QED BY <4>1 DEF Running
    <3>2. CASE BatchDone
      BY <3>2 DEF BatchDone, At, Running
    <3> QED BY <1>3, <3>1, <3>2
  <2> QED BY <2>1, <2>2, <2>3 DEF InOrder, Pending, Ids
<1>4. CASE Complete
  <2>1. worker.id \in Ids /\ Done(worker.id)
    BY <1>4 DEF Complete, TypeOK
  <2>2. Ids' = Ids /\ Pending' = Pending \ {worker.id} /\ Len(commands') = Len(commands)
    BY <2>1, Completing DEF Pending, Ids
  <2>3. /\ UNCHANGED <<batch, failures, last>> /\ Running' = {}
        /\ worker.pc = "complete" /\ worker'.pc = "run"
    BY <1>4 DEF Complete, At, history, Running
  <2>4. worker.id \notin Pending
    BY <1>0, <1>4, <2>1 DEF Complete, InOrder, Running
  <2>5. Pending' = Pending
    BY <2>2, <2>4
  <2>6. /\ \A i \in Running' : i = last'
        /\ \A i \in batch' \cup Pending' : last' < i
        /\ \A i \in batch', j \in Pending' \ batch' : i < j
        /\ batch' \cap Pending' = {}
    BY <2>3, <2>5 DEF InOrder
  <2>7. failures' = 0 => \A i \in Ids' : i > last' => i \in batch' \cup Pending'
    BY <2>2, <2>3, <2>5 DEF InOrder
  <2> QED BY <2>2, <2>3, <2>6, <2>7 DEF InOrder
<1>5. CASE \E i \in batch : BeginCommand(i)
  <2> PICK i \in batch : BeginCommand(i)
    BY <1>5
  <2>1. /\ UNCHANGED <<commands, failures>> /\ batch' = batch \ {i} /\ last' = i
        /\ worker.pc = "run" /\ \A j \in batch : i <= j
    BY DEF BeginCommand, FirstRead
  <2>2. Ids' = Ids /\ Pending' = Pending /\ batch \subseteq Nat
    BY <1>0, <2>1 DEF Ids, Pending, TypeOK
  <2>3. worker' = [pc |-> "remove", id |-> i] \/ worker' = [pc |-> "complete", id |-> i]
    BY DEF BeginCommand
  <2>4. worker'.pc \notin {"claim", "idle"} /\ \A j \in Running' : j = i
    BY <2>3 DEF Running
  <2>5. batch \cap Pending = {} /\ \A j \in Pending : i < j
    BY <2>1 DEF InOrder
  <2>6. \A j \in batch' \cup Pending' : last' < j
    BY <1>0, <2>1, <2>2, <2>5
  <2>7. failures' = 0 => \A j \in Ids' : j > last' => j \in batch' \cup Pending'
    <3> SUFFICES ASSUME failures = 0, NEW j \in Ids, j > i
                 PROVE  j \in (batch \ {i}) \cup Pending
      BY <2>1, <2>2
    <3>1. last < i /\ i \in Nat /\ j \in Nat
      BY <1>0, <2>2 DEF InOrder
    <3>2. j > last /\ j # i
      BY <1>0, <3>1
    <3> QED BY <3>2 DEF InOrder
  <2> QED BY <2>1, <2>2, <2>4, <2>5, <2>6, <2>7 DEF InOrder
<1>6. CASE Raise \/ Crash
  <2>1. Abandon /\ last' = last
    BY <1>6 DEF Raise, Crash
  <2>2. Ids' = Ids /\ Pending' \subseteq Pending /\ Len(commands') = Len(commands)
    <3>1. CASE commands' = commands
      BY <3>1 DEF Ids, Pending
    <3>2. CASE Raise /\ worker.pc # "claim" /\ Done(worker.id)
      <4>1. worker.id \in Ids
        BY <3>2 DEF Raise, TypeOK
      <4> QED BY <3>2, <4>1, Completing DEF Ids, Pending
    <3> QED BY <1>6, <3>1, <3>2 DEF Raise, Crash
  <2>3. failures' # 0
    BY <2>1 DEF Abandon, TypeOK
  <2>4. batch' = {} /\ worker'.pc = "idle" /\ Running' = {}
    BY <2>1 DEF Abandon, At, Running
  <2> QED BY <1>0, <2>1, <2>2, <2>3, <2>4 DEF InOrder
<1> QED BY <1>1, <1>2, <1>3, <1>4, <1>5, <1>6 DEF WorkerStep

\* What the worker holds is the oldest of what is left, and nothing is missing
\* until it fails.
THEOREM InOrderHolds == Spec => []InOrder
<1>1. Init => InOrder
  BY DEF Init, InOrder, Ids, Pending, Running
<1>2. TypeOK /\ InOrder /\ [Next]_vars => InOrder'
  <2>1. ASSUME InOrder, UNCHANGED vars PROVE InOrder'
    BY <2>1 DEF vars, InOrder, Ids, Pending, Running
  <2> QED BY <2>1, ApiInOrder, WorkerInOrder DEF Next
<1> QED BY <1>1, <1>2, QueueTypeCorrect, PTL DEF Spec

\* Commands are begun in the order of submission, each at most once, and without
\* failures none is passed over: the table implements OrderedCommands.
THEOREM QueueImplements == Spec => InSubmissionOrder
<1>1. Init => Ordered!Init
  BY DEF Init, Ordered!Init
<1>2. TypeOK /\ InOrder /\ [Next]_vars => [Ordered!Next]_<<Len(commands), last>>
  <2> SUFFICES ASSUME TypeOK, InOrder, [Next]_vars
               PROVE  [Ordered!Next]_<<Len(commands), last>>
    OBVIOUS
  <2>1. CASE ApiStep
    BY <2>1, ApiInOrder DEF Ordered!Next, Ordered!Submit
  <2>2. CASE \E i \in batch : BeginCommand(i)
    <3> PICK i \in batch : BeginCommand(i)
      BY <2>2
    <3>1. Len(commands') = Len(commands) /\ last' = i
      BY DEF BeginCommand
    <3>2. last \in Nat /\ i \in Ids /\ last < i
      BY Table DEF TypeOK, InOrder
    <3>3. i \in (last + 1)..Len(commands)
      BY <3>2, Table DEF Ids
    <3>4. MaxFailures = 0 => i = last + 1
      <4> SUFFICES ASSUME MaxFailures = 0 PROVE i = last + 1
        OBVIOUS
      <4>1. failures = 0
        BY DEF TypeOK
      <4>2. last + 1 \in Ids
        BY <3>2, <3>3, Table DEF Ids
      <4>3. last + 1 \in batch \cup Pending
        BY <3>2, <4>1, <4>2 DEF InOrder
      <4>4. i <= last + 1
        BY <3>2, <4>2, <4>3, Table DEF BeginCommand, FirstRead, InOrder
      <4> QED BY <3>2, <4>4, Table
    <3>5. (MaxFailures > 0) \/ i = last + 1
      BY <3>4, QueueAssumption
    <3> QED BY <3>1, <3>3, <3>5 DEF Ordered!Next, Ordered!Execute
  <2>3. CASE (WorkerStep /\ ~\E i \in batch : BeginCommand(i)) \/ Raise \/ Crash
    <3>1. Len(commands') = Len(commands)
      BY <2>3, WorkerInOrder
    <3>2. last' = last
      BY <2>3 DEF WorkerStep, ReadBatch, Claim, Remove, Complete, BatchDone, Raise, Crash, history
    <3> QED BY <3>1, <3>2
  <2>4. CASE UNCHANGED vars
    BY <2>4 DEF vars
  <2> QED BY <2>1, <2>2, <2>3, <2>4 DEF Next, WorkerStep
<1> QED BY <1>1, <1>2, QueueTypeCorrect, InOrderHolds, PTL DEF Spec, InSubmissionOrder, Ordered!Spec

-----------------------------------------------------------------------------
(* What the queue will make of a row                                           *)

\* Commands still to be begun that can change the flag of c, and the deletion of
\* its row between the two writes of a DELETE.
Waiting(c) == {i \in Pending \cup batch : commands[i].chan = c /\ commands[i].kind # "check"}
Removing(c) == worker.pc = "remove" /\ commands[worker.id].chan = c

\* The handler in flight neither writes the row of c nor enqueues a command that does.
Silent(c) == call.chan # c \/ (call.op = "enqueue" /\ call.kind = "check")

\* The command that sets the flag to b; the newest in the queue has the last
\* word, without one the row has it.
Word(b) == IF b THEN "pause" ELSE "resume"
Queued(c, b) ==
  /\ \A i \in Waiting(c) : (\A j \in Waiting(c) : j <= i) => commands[i].kind = Word(b)
  /\ Waiting(c) = {} => rows[c] = b

\* The row of c stays, and its flag will be b.
WillBe(c, b) ==
  /\ rows[c] \in BOOLEAN /\ ~Removing(c)
  /\ \A i \in Waiting(c) : commands[i].kind # "delete"
  /\ \/ Silent(c) /\ Queued(c, b)
     \/ call.chan = c /\ call.op = "enqueue" /\ call.kind = Word(b)
     \/ call.chan = c /\ call.op = "write" /\ call.kind = None /\ call.row = b /\ Waiting(c) = {}

\* The row of c is gone or will be removed.
WillGo(c) ==
  /\ call.op = "write" /\ call.chan = c => call.kind = "delete"
  /\ \/ rows[c] = None /\ (call.op = "write" => call.chan # c)
     \/ call.chan = c /\ call.kind = "delete"
     \/ \E i \in Waiting(c) : commands[i].kind = "delete"
     \/ Removing(c)

\* The inductive invariant behind IntentKept: what the user was promised comes
\* about whatever is on the way, unless a failure cut a command of c short.
Outcome(c, b) ==
  /\ b \in BOOLEAN => WillBe(c, b)
  /\ b = None => WillGo(c)
Promises ==
  /\ \A c \in Channel : Broken(c) \/ Outcome(c, intent[c])
  /\ worker.pc = "remove" => commands[worker.id].kind = "delete"

\* Commands keep what they say, and what a failure cut short stays so.
LEMMA TableKept ==
  ASSUME TypeOK, Next
  PROVE  /\ Ids \subseteq Ids' /\ \A i \in Ids : SameWords(commands'[i], commands[i])
         /\ cut \subseteq cut'
<1>1. commands' = commands => Ids \subseteq Ids' /\ \A i \in Ids : SameWords(commands'[i], commands[i])
  BY DEF Ids, SameWords
<1>2. CASE ApiStep
  <2>1. cut' = cut /\ (ApiEnqueue \/ commands' = commands)
    BY <1>2 DEF ApiStep, ApiWrite, ApiEnqueue, ApiCheck, ApiDelete, ApiSetPaused, ApiCreate,
       ApiEdit, history
  <2>2. CASE ApiEnqueue
    <3>1. [kind |-> call.kind, chan |-> call.chan, state |-> "new"] \in Command
      BY <2>2, CallFields DEF ApiEnqueue, Command
    <3> QED BY <2>1, <2>2, <3>1, Enqueueing DEF ApiEnqueue
  <2> QED BY <1>1, <2>1, <2>2
<1>3. CASE Claim
  BY <1>3, Marking DEF Claim, history, Ids
<1>4. CASE Complete
  BY <1>4, Completing DEF Complete, TypeOK, history, Ids
<1>5. CASE ReadBatch \/ Remove \/ BatchDone \/ \E i \in batch : BeginCommand(i)
  BY <1>1, <1>5 DEF ReadBatch, Remove, BatchDone, BeginCommand, history
<1>6. CASE Raise \/ Crash
  <2>1. cut \subseteq cut'
    BY <1>6 DEF Raise, Crash, Abandon
  <2>2. CASE commands' = commands
    BY <1>1, <2>1, <2>2
  <2>3. CASE worker.pc # "claim" /\ Raise /\ Done(worker.id)
    <3>1. worker.id \in Ids
      BY <2>3 DEF Raise, TypeOK
    <3> QED BY <2>1, <2>3, <3>1, Completing DEF Ids
  <2> QED BY <1>6, <2>2, <2>3 DEF Raise, Crash
<1> QED BY <1>2, <1>3, <1>4, <1>5, <1>6 DEF Next, WorkerStep

\* A promise that is broken stays broken.
LEMMA BrokenStays ==
  ASSUME TypeOK, Next, NEW c \in Channel, Broken(c)
  PROVE  Broken(c)'
BY TableKept DEF Broken, TypeOK, SameWords

\* A step that leaves the row of c, what waits for it and what is said of it.
LEMMA Unmoved ==
  ASSUME TypeOK, TypeOK', Next, NEW c \in Channel, Outcome(c, intent[c]),
         intent'[c] = intent[c], rows'[c] = rows[c],
         call' = call \/ (Silent(c) /\ Silent(c)'),
         Waiting(c)' = Waiting(c), Removing(c)' <=> Removing(c)
  PROVE  Outcome(c, intent[c])'
<1>1. \A i \in Waiting(c) : commands'[i].kind = commands[i].kind
  BY TableKept, Table DEF Waiting, SameWords, TypeOK
<1>2. ASSUME NEW b \in BOOLEAN, WillBe(c, b)
      PROVE  WillBe(c, b)'
  <2>1. Queued(c, b) => Queued(c, b)'
    BY <1>1 DEF Queued
  <2>2. Word(b) # "check"
    BY DEF Word
  <2>3. CASE call' = call
    BY <1>1, <1>2, <2>1, <2>3 DEF WillBe, Silent
  <2>4. CASE Silent(c) /\ Silent(c)'
    BY <1>1, <1>2, <2>1, <2>2, <2>4, QueueAssumption DEF WillBe, Silent
  <2> QED BY <2>3, <2>4
<1>3. ASSUME WillGo(c)
      PROVE  WillGo(c)'
  <2>1. CASE call' = call
    BY <1>1, <1>3, <2>1 DEF WillGo
  <2>2. CASE Silent(c) /\ Silent(c)'
    BY <1>1, <1>3, <2>2 DEF WillGo, Silent
  <2> QED BY <2>1, <2>2
<1> QED BY <1>2, <1>3 DEF Outcome

\* With nothing on the way for c the row is what was promised.
LEMMA NothingComing ==
  ASSUME TypeOK, Promises, NEW c \in Channel, ~Coming(c)
  PROVE  /\ Waiting(c) = {} /\ ~Removing(c) /\ call.chan # c /\ Silent(c)
         /\ ~Broken(c) => AsAsked(c)
<1>1. Waiting(c) = {} /\ call.chan # c /\ Silent(c)
  BY DEF Coming, Waiting, Silent
<1>2. ~Removing(c)
  BY DEF Coming, Removing, Running, Promises
<1>3. ASSUME ~Broken(c)
      PROVE  AsAsked(c)
  <2>1. Outcome(c, intent[c]) /\ intent[c] \in BOOLEAN \cup {None, Any}
    BY <1>3 DEF Promises, TypeOK
  <2>2. CASE intent[c] \in BOOLEAN
    BY <1>1, <2>1, <2>2 DEF Outcome, WillBe, Queued, AsAsked
  <2>3. CASE intent[c] = None
    BY <1>1, <1>2, <2>1, <2>3 DEF Outcome, WillGo, AsAsked
  <2> QED BY <2>1, <2>2, <2>3 DEF AsAsked
<1> QED BY <1>1, <1>2, <1>3

\* A request on c itself: the handler reads and writes the row of c.
LEMMA RequestKept ==
  ASSUME TypeOK, TypeOK', Promises, NEW c \in Channel, ~Broken(c),
         \/ ApiCheck(c) \/ ApiDelete(c)
         \/ \E b \in BOOLEAN : ApiSetPaused(c, b) \/ ApiCreate(c, b)
         \/ \E b \in BOOLEAN \cup {None} : ApiEdit(c, b)
  PROVE  Outcome(c, intent[c])'
<1> USE QueueAssumption
<1>1. /\ Next /\ Outcome(c, intent[c]) /\ call = NoCall
      /\ intent[c] \in BOOLEAN \cup {None, Any} /\ rows[c] \in BOOLEAN \cup {None}
      /\ rows \in [Channel -> BOOLEAN \cup {None}]
      /\ intent \in [Channel -> BOOLEAN \cup {None, Any}]
  BY DEF TypeOK, Promises, ApiCheck, ApiDelete, ApiSetPaused, ApiCreate, ApiEdit, Ready, Next, ApiStep
<1>2. /\ commands' = commands /\ batch' = batch /\ worker' = worker
      /\ Waiting(c)' = Waiting(c) /\ (Removing(c)' <=> Removing(c))
  BY DEF ApiCheck, ApiDelete, ApiSetPaused, ApiCreate, ApiEdit, Waiting, Removing, Pending, Ids
<1>3. Silent(c) /\ call.chan # c /\ call.op = "none"
  BY <1>1 DEF NoCall, Silent
<1>4. /\ \A k : Enqueuing(c, k).op = "enqueue" /\ Enqueuing(c, k).chan = c /\ Enqueuing(c, k).kind = k
      /\ \A b, k : Writing(c, b, k).op = "write" /\ Writing(c, b, k).chan = c
                   /\ Writing(c, b, k).kind = k /\ Writing(c, b, k).row = b
      /\ NoCall.op = "none" /\ NoCall.chan # c
  BY DEF Enqueuing, Writing, NoCall
<1>5. CASE ApiCheck(c)
  <2>1. rows' = rows /\ intent' = intent /\ call' = Enqueuing(c, "check")
    BY <1>5 DEF ApiCheck, history
  <2>2. Silent(c)'
    BY <1>4, <2>1 DEF Silent
  <2> QED BY <1>1, <1>2, <1>3, <2>1, <2>2, Unmoved
<1>6. CASE ApiDelete(c)
  <2>1. intent'[c] = None
    BY <1>1, <1>6 DEF ApiDelete
  <2>2. CASE rows' = [rows EXCEPT ![c] = None] /\ call' = call
    <3>1. rows'[c] = None /\ call'.op = "none"
      BY <1>1, <1>3, <2>2
    <3>2. WillGo(c)'
      BY <3>1 DEF WillGo
    <3> QED BY <2>1, <3>2, QueueAssumption DEF Outcome
  <2>3. CASE call' = Writing(c, TRUE, "delete")
    <3>1. call'.chan = c /\ call'.kind = "delete"
      BY <2>3 DEF Writing
    <3>2. WillGo(c)'
      BY <3>1 DEF WillGo
    <3> QED BY <2>1, <3>2, QueueAssumption DEF Outcome
  <2> QED BY <1>6, <2>2, <2>3 DEF ApiDelete
<1>7. ASSUME NEW b \in BOOLEAN, ApiSetPaused(c, b)
      PROVE  Outcome(c, intent[c])'
  <2>1. /\ rows[c] # None /\ rows'[c] = b
        /\ call'.chan = c /\ call'.op = "enqueue" /\ call'.kind = Word(b)
    BY <1>1, <1>4, <1>7 DEF ApiSetPaused, Ready, Word
  <2>2. CASE intent'[c] = b
    <3>1. ~Removing(c) /\ \A i \in Waiting(c) : commands[i].kind # "delete"
      <4>1. CASE ~Coming(c)
        BY <4>1, NothingComing
      <4>2. CASE intent[c] \in BOOLEAN
        BY <1>1, <4>2 DEF Outcome, WillBe
      <4>3. CASE intent[c] \notin BOOLEAN /\ Coming(c)
        BY <1>1, <1>7, <2>2, <4>3 DEF ApiSetPaused
      <4> QED BY <4>1, <4>2, <4>3
    <3>2. WillBe(c, b)'
      BY <1>2, <2>1, <3>1 DEF WillBe, Word
    <3> QED BY <2>2, <3>2 DEF Outcome
  <2>3. CASE intent[c] = None /\ intent'[c] = None
    <3>1. Removing(c) \/ \E i \in Waiting(c) : commands[i].kind = "delete"
      BY <1>1, <1>3, <2>1, <2>3 DEF Outcome, WillGo
    <3>2. WillGo(c)'
      BY <1>2, <2>1, <3>1 DEF WillGo
    <3> QED BY <2>3, <3>2 DEF Outcome
  <2>4. CASE intent'[c] = Any
    BY <2>4 DEF Outcome
  <2> QED BY <1>1, <1>7, <2>2, <2>3, <2>4 DEF ApiSetPaused
<1>8. ASSUME NEW b \in BOOLEAN, ApiCreate(c, b)
      PROVE  Outcome(c, intent[c])'
  <2>1. CASE Coming(c)
    <3>1. intent'[c] = Any
      BY <1>1, <1>8, <2>1 DEF ApiCreate, Direct
    <3> QED BY <3>1 DEF Outcome
  <2>2. CASE ~Coming(c)
    <3>1. intent'[c] = b /\ rows'[c] = b
      BY <1>1, <1>8, <2>2 DEF ApiCreate, Direct
    <3>2. call' = NoCall \/ call' = Enqueuing(c, "check")
      BY <1>8 DEF ApiCreate
    <3>3. Silent(c)'
      BY <1>4, <3>2 DEF Silent
    <3>4. WillBe(c, b)'
      BY <1>2, <2>2, <3>1, <3>3, NothingComing DEF WillBe, Queued
    <3> QED BY <3>1, <3>4 DEF Outcome
  <2> QED BY <2>1, <2>2
<1>9. ASSUME NEW b \in BOOLEAN \cup {None}, ApiEdit(c, b)
      PROVE  Outcome(c, intent[c])'
  <2>1. CASE Coming(c)
    <3>1. intent'[c] = Any
      BY <1>1, <1>9, <2>1 DEF ApiEdit, Direct
    <3> QED BY <3>1 DEF Outcome
  <2>2. CASE ~Coming(c)
    <3>1. intent'[c] = IF b = None THEN intent[c] ELSE b
      BY <1>1, <1>9, <2>2 DEF ApiEdit, Direct
    <3>2. intent[c] \in {Any, rows[c]} /\ rows[c] \in BOOLEAN
      BY <1>1, <1>9, <2>2, NothingComing DEF ApiEdit, Ready, AsAsked
    <3>3. CASE intent'[c] = Any
      BY <3>3 DEF Outcome
    <3>4. CASE intent'[c] # Any
      <4> DEFINE v == IF b = None THEN rows[c] ELSE b
      <4>1. intent'[c] = v /\ v \in BOOLEAN /\ rows'[c] = rows[c]
        BY <1>9, <3>1, <3>2, <3>4 DEF ApiEdit
      <4>2. call'.chan = c /\ call'.op = "write" /\ call'.kind = None /\ call'.row = v
        BY <1>4, <1>9 DEF ApiEdit
      <4>3. WillBe(c, v)'
        BY <1>2, <2>2, <3>2, <4>1, <4>2, NothingComing DEF WillBe
      <4> QED BY <4>1, <4>3 DEF Outcome
    <3> QED BY <3>3, <3>4
  <2> QED BY <2>1, <2>2
<1> QED BY <1>5, <1>6, <1>7, <1>8, <1>9

\* An API step on another channel.
LEMMA OtherRequest ==
  ASSUME TypeOK, TypeOK', Promises, NEW c \in Channel, ~Broken(c), NEW d \in Channel, d # c,
         \/ ApiCheck(d) \/ ApiDelete(d)
         \/ \E b \in BOOLEAN : ApiSetPaused(d, b) \/ ApiCreate(d, b)
         \/ \E b \in BOOLEAN \cup {None} : ApiEdit(d, b)
  PROVE  Outcome(c, intent[c])'
<1> USE QueueAssumption
<1>1. Next /\ Outcome(c, intent[c]) /\ call = NoCall
  BY DEF Promises, ApiCheck, ApiDelete, ApiSetPaused, ApiCreate, ApiEdit, Ready, Next, ApiStep
<1>2. Waiting(c)' = Waiting(c) /\ (Removing(c)' <=> Removing(c))
  BY DEF ApiCheck, ApiDelete, ApiSetPaused, ApiCreate, ApiEdit, Waiting, Removing, Pending, Ids
<1>3. rows'[c] = rows[c] /\ intent'[c] = intent[c]
  <2>1. /\ rows \in [Channel -> BOOLEAN \cup {None}]
        /\ intent \in [Channel -> BOOLEAN \cup {None, Any}]
    BY DEF TypeOK
  <2>2. rows' = rows \/ \E v : rows' = [rows EXCEPT ![d] = v]
    BY DEF ApiCheck, ApiDelete, ApiSetPaused, ApiCreate, ApiEdit
  <2>3. intent' = intent \/ \E v : intent' = [intent EXCEPT ![d] = v]
    BY DEF ApiCheck, ApiDelete, ApiSetPaused, ApiCreate, ApiEdit, Direct, history
  <2> QED BY <2>1, <2>2, <2>3
<1>4. Silent(c) /\ Silent(c)'
  <2>1. NoCall.chan # c
    BY DEF NoCall
  <2>2. \/ call' \in {NoCall, call} \/ \E k : call' = Enqueuing(d, k)
        \/ \E b, k : call' = Writing(d, b, k)
    BY DEF ApiCheck, ApiDelete, ApiSetPaused, ApiCreate, ApiEdit
  <2>3. call'.chan # c
    BY <1>1, <2>1, <2>2 DEF Enqueuing, Writing
  <2> QED BY <1>1, <2>1, <2>3 DEF Silent
<1> QED BY <1>1, <1>2, <1>3, <1>4, Unmoved

\* The write a handler had still to do.
LEMMA WriteKept ==
  ASSUME TypeOK, TypeOK', Promises, NEW c \in Channel, ~Broken(c), ApiWrite
  PROVE  Outcome(c, intent[c])'
<1> USE QueueAssumption
<1>1. Next /\ Outcome(c, intent[c]) /\ intent' = intent
  BY DEF Promises, ApiWrite, Next, ApiStep, history
<1>2. Waiting(c)' = Waiting(c) /\ (Removing(c)' <=> Removing(c)) /\ commands' = commands
  BY DEF ApiWrite, Waiting, Removing, Pending, Ids
<1>3. /\ call.op = "write" /\ rows' = [rows EXCEPT ![call.chan] = call.row]
      /\ call.chan \in Channel /\ rows \in [Channel -> BOOLEAN \cup {None}]
  BY CallFields DEF ApiWrite, TypeOK
<1>4. /\ call.kind = None => call' = NoCall
      /\ call.kind # None => call'.chan = call.chan /\ call'.op = "enqueue" /\ call'.kind = call.kind
      /\ NoCall.chan # c /\ NoCall.op # "write"
  BY DEF ApiWrite, Enqueuing, NoCall
<1>5. CASE call.chan # c
  <2>1. Silent(c) /\ Silent(c)'
    BY <1>4, <1>5 DEF Silent
  <2> QED BY <1>1, <1>2, <1>3, <1>5, <2>1, Unmoved
<1>6. CASE call.chan = c
  <2>1. ASSUME NEW b \in BOOLEAN, WillBe(c, b)
        PROVE  WillBe(c, b)'
    <3>1. call.kind = None /\ call.row = b /\ Waiting(c) = {} /\ ~Removing(c)
      BY <1>3, <1>6, <2>1 DEF WillBe, Silent
    <3>2. rows'[c] = b /\ Silent(c)'
      BY <1>3, <1>4, <1>6, <3>1 DEF Silent
    <3> QED BY <1>2, <3>1, <3>2 DEF WillBe, Queued
  <2>2. ASSUME WillGo(c)
        PROVE  WillGo(c)'
    <3>1. call.kind = "delete"
      BY <1>3, <1>6, <2>2 DEF WillGo
    <3>2. call'.chan = c /\ call'.op = "enqueue" /\ call'.kind = "delete"
      BY <1>4, <1>6, <3>1 DEF Kind
    <3> QED BY <3>2 DEF WillGo
  <2> QED BY <1>1, <2>1, <2>2 DEF Outcome
<1> QED BY <1>5, <1>6

\* The command a handler had still to enqueue gets the last word.
LEMMA EnqueueKept ==
  ASSUME TypeOK, TypeOK', Promises, NEW c \in Channel, ~Broken(c), ApiEnqueue
  PROVE  Outcome(c, intent[c])'
<1> USE QueueAssumption
<1> DEFINE n == Len(commands) + 1
           new == [kind |-> call.kind, chan |-> call.chan, state |-> "new"]
<1>1. Next /\ Outcome(c, intent[c]) /\ intent' = intent /\ rows' = rows
  BY DEF Promises, ApiEnqueue, Next, ApiStep, history
<1>2. call.op = "enqueue" /\ new \in Command /\ batch' = batch /\ worker' = worker
  BY CallFields DEF ApiEnqueue, Command
<1>3. /\ Pending' = Pending \cup {n} /\ commands'[n] = new
      /\ \A i \in Ids : SameWords(commands'[i], commands[i])
  BY <1>2, Enqueueing DEF ApiEnqueue
<1>4. /\ n \in Nat /\ n \notin Ids /\ \A i \in Ids : i \in Nat /\ i < n
      /\ Waiting(c) \subseteq Ids
  <2>1. Len(commands) \in Nat
    BY Table
  <2>2. Waiting(c) \subseteq Ids
    BY Table DEF Waiting, TypeOK
  <2> QED BY <2>1, <2>2 DEF Ids
<1>5. Removing(c)' <=> Removing(c)
  BY <1>2, <1>3 DEF Removing, TypeOK, SameWords
<1>6. Waiting(c)' = IF Silent(c) THEN Waiting(c) ELSE Waiting(c) \cup {n}
  <2>1. \A i \in Pending \cup batch : SameWords(commands'[i], commands[i])
    BY <1>3, Table DEF TypeOK
  <2>2. commands'[n].chan = c /\ commands'[n].kind # "check" <=> ~Silent(c)
    BY <1>2, <1>3 DEF Silent
  <2> QED BY <1>2, <1>3, <2>1, <2>2 DEF Waiting, SameWords
<1>7. call' = NoCall /\ Silent(c)'
  BY DEF ApiEnqueue, NoCall, Silent
<1>8. CASE Silent(c)
  BY <1>1, <1>5, <1>6, <1>7, <1>8, Unmoved
<1>9. CASE ~Silent(c)
  <2>1. \A i \in Waiting(c) : commands'[i].kind = commands[i].kind
    BY <1>3, <1>4 DEF SameWords
  <2>2. commands'[n].kind = call.kind /\ call.chan = c
    BY <1>3, <1>9 DEF Silent
  <2>3. ASSUME NEW b \in BOOLEAN, WillBe(c, b)
        PROVE  WillBe(c, b)'
    <3>1. call.kind = Word(b) /\ Word(b) # "delete"
      BY <1>2, <1>9, <2>3 DEF WillBe, Word
    <3>2. \A i \in Waiting(c)' : commands'[i].kind # "delete"
      BY <1>6, <1>9, <2>1, <2>2, <2>3, <3>1 DEF WillBe
    <3>3. Queued(c, b)'
      <4>1. \A i \in Waiting(c)' : (\A j \in Waiting(c)' : j <= i) => i = n
        BY <1>4, <1>6, <1>9
      <4> QED BY <1>6, <1>9, <2>2, <3>1, <4>1 DEF Queued
    <3> QED BY <1>1, <1>5, <1>7, <2>3, <3>2, <3>3 DEF WillBe
  <2>4. ASSUME WillGo(c)
        PROVE  WillGo(c)'
    <3>1. call'.op # "write"
      BY <1>7 DEF NoCall
    <3>2. CASE rows[c] = None \/ Removing(c)
      BY <1>1, <1>5, <3>1, <3>2 DEF WillGo
    <3>3. CASE call.kind = "delete" \/ \E i \in Waiting(c) : commands[i].kind = "delete"
      <4>1. \E i \in Waiting(c)' : commands'[i].kind = "delete"
        BY <1>6, <1>9, <2>1, <2>2, <3>3
      <4> QED BY <3>1, <4>1 DEF WillGo
    <3> QED BY <2>4, <3>2, <3>3 DEF WillGo
  <2> QED BY <1>1, <2>3, <2>4 DEF Outcome
<1> QED BY <1>8, <1>9

\* The worker begins the oldest command it holds.
LEMMA BeginKept ==
  ASSUME TypeOK, TypeOK', InOrder, Promises, NEW i \in batch, BeginCommand(i),
         NEW c \in Channel, ~Broken(c)
  PROVE  Outcome(c, intent[c])'
<1> USE QueueAssumption
<1> DEFINE d == commands[i].chan
           k == commands[i].kind
<1>1. /\ Next /\ Outcome(c, intent[c]) /\ intent' = intent /\ call' = call /\ commands' = commands
      /\ worker.pc = "run" /\ batch' = batch \ {i} /\ Pending' = Pending /\ ~Removing(c)
  BY DEF Promises, BeginCommand, Next, WorkerStep, Pending, Ids, Removing
<1>2. /\ i \in Ids /\ i \in Nat /\ d \in Channel /\ i \notin Pending
      /\ \A j \in Pending \cup batch : j \in Nat /\ i <= j
  <2>1. /\ \A j \in batch : i <= j
        /\ \A j \in Pending : j \notin batch => i < j
        /\ batch \cap Pending = {}
    BY <1>1 DEF BeginCommand, FirstRead, InOrder
  <2>2. batch \subseteq Ids /\ Pending \subseteq Ids /\ Ids \subseteq Nat
    BY Table DEF TypeOK
  <2>3. d \in Channel
    BY <2>2, Table DEF Command
  <2> QED BY <2>1, <2>2, <2>3
<1>3. Waiting(c)' = Waiting(c) \ {i}
  BY <1>1, <1>2 DEF Waiting
<1>4. /\ worker'.pc = (IF rows[d] # None /\ k = "delete" THEN "remove" ELSE "complete")
      /\ worker'.id = i
      /\ rows' = IF rows[d] # None /\ k # "check" THEN [rows EXCEPT ![d] = (k # "resume")] ELSE rows
  BY DEF BeginCommand
<1>5. Removing(c)' <=> rows[d] # None /\ k = "delete" /\ d = c
  BY <1>1, <1>4 DEF Removing
<1>6. rows \in [Channel -> BOOLEAN \cup {None}]
  BY DEF TypeOK
<1>7. CASE d # c \/ k = "check"
  <2>1. Waiting(c)' = Waiting(c)
    BY <1>3, <1>7 DEF Waiting
  <2>2. rows'[c] = rows[c]
    BY <1>2, <1>4, <1>6, <1>7
  <2> QED BY <1>1, <1>5, <1>7, <2>1, <2>2, Unmoved
<1>8. CASE d = c /\ k # "check"
  <2>0. i \in Waiting(c) /\ Waiting(c) \subseteq Pending \cup batch
    BY <1>8 DEF Waiting
  <2>1. ASSUME NEW b \in BOOLEAN, WillBe(c, b)
        PROVE  WillBe(c, b)'
    <3>1. k # "delete" /\ rows[c] # None /\ rows'[c] = (k # "resume")
      BY <1>2, <1>4, <1>6, <1>8, <2>0, <2>1 DEF WillBe
    <3>2. Silent(c)' <=> Silent(c)
      BY <1>1 DEF Silent
    <3>3. Queued(c, b) => Queued(c, b)'
      <4> SUFFICES ASSUME Queued(c, b) PROVE Queued(c, b)'
        OBVIOUS
      <4>1. ASSUME NEW m \in Waiting(c), m # i, \A j \in Waiting(c) \ {i} : j <= m
            PROVE  commands[m].kind = Word(b)
        <5>1. \A j \in Waiting(c) : j <= m
          BY <1>2, <2>0, <4>1
        <5> QED BY <5>1 DEF Queued
      <4>2. ASSUME Waiting(c) \ {i} = {}
            PROVE  rows'[c] = b
        <5>1. k = Word(b)
          <6>1. \A j \in Waiting(c) : j <= i
            BY <1>2, <4>2
          <6> QED BY <2>0, <6>1 DEF Queued
        <5> QED BY <3>1, <5>1 DEF Word
      <4> QED BY <1>1, <1>3, <4>1, <4>2 DEF Queued
    <3>4. \A j \in Waiting(c)' : commands'[j].kind # "delete"
      BY <1>1, <1>3, <2>1 DEF WillBe
    <3>5. rows'[c] \in BOOLEAN /\ ~Removing(c)'
      BY <1>5, <3>1
    <3>6. Waiting(c) # {}
      BY <2>0
    <3> QED BY <1>1, <2>1, <3>2, <3>3, <3>4, <3>5, <3>6 DEF WillBe
  <2>2. ASSUME WillGo(c)
        PROVE  WillGo(c)'
    <3>1. rows[c] = None => rows'[c] = None
      BY <1>4, <1>8
    <3>2. CASE k = "delete"
      BY <1>1, <1>5, <1>8, <2>2, <3>1, <3>2 DEF WillGo
    <3>3. CASE k # "delete"
      BY <1>1, <1>3, <2>2, <3>1, <3>3 DEF WillGo
    <3> QED BY <3>2, <3>3
  <2> QED BY <1>1, <2>1, <2>2 DEF Outcome
<1> QED BY <1>7, <1>8

\* A worker step other than that changes nothing for c, but to remove its row,
\* or is cut short.
LEMMA WorkerKept ==
  ASSUME TypeOK, TypeOK', InOrder, Promises, NEW c \in Channel, ~Broken(c), ~Broken(c)',
         \/ ReadBatch \/ Claim \/ Remove \/ Complete \/ BatchDone \/ Raise \/ Crash
  PROVE  Outcome(c, intent[c])'
<1> USE QueueAssumption
<1>1. Next /\ Outcome(c, intent[c]) /\ intent' = intent /\ call' = call
  BY DEF Promises, Next, WorkerStep, ReadBatch, Claim, Remove, Complete, BatchDone, Raise, Crash, history
<1>2. Pending \subseteq Ids /\ \A i \in Ids : SameWords(commands'[i], commands[i])
  BY <1>1, Table, TableKept
<1>3. Waiting(c)' = Waiting(c)
  <2>1. \A q \in SUBSET Ids : Pending' \cup batch' = q =>
          Waiting(c)' = {i \in q : commands[i].chan = c /\ commands[i].kind # "check"}
    BY <1>2 DEF Waiting, SameWords
  <2>2. CASE ReadBatch \/ Remove \/ BatchDone
    <3>1. commands' = commands /\ (batch' = batch \/ (batch = {} /\ batch' \subseteq Pending))
      BY <2>2 DEF ReadBatch, Remove, BatchDone, history, InOrder
    <3>2. Pending' = Pending
      BY <3>1 DEF Pending, Ids
    <3> QED BY <3>1, <3>2 DEF Waiting
  <2>3. CASE Claim
    <3>1. batch \subseteq Pending /\ batch' = batch
      BY <2>3 DEF Claim, InOrder, history
    <3>2. Pending' = Pending \ batch
      BY <2>3, Marking DEF Claim, Pending, Ids
    <3>3. Pending' \cup batch' = Pending \cup batch /\ Pending \cup batch \subseteq Ids
      BY <1>2, <3>1, <3>2
    <3> QED BY <2>1, <3>3 DEF Waiting
  <2>4. ASSUME NEW j \in Ids, Running = {j}, Done(j)
        PROVE  Pending' = Pending
    <3>1. j \notin Pending
      BY <2>4, Table DEF InOrder, TypeOK
    <3> QED BY <2>4, <3>1, Completing DEF Pending, Ids
  <2>5. CASE Complete
    <3>1. worker.id \in Ids /\ Running = {worker.id} /\ batch' = batch
      BY <2>5 DEF Complete, TypeOK, Running, history
    <3>2. Pending' = Pending
      BY <2>4, <2>5, <3>1 DEF Complete
    <3>3. Pending' \cup batch' = Pending \cup batch /\ Pending \cup batch \subseteq Ids
      BY <1>2, <3>1, <3>2 DEF TypeOK
    <3> QED BY <2>1, <3>3 DEF Waiting
  <2>6. CASE Raise \/ Crash
    <3>1. Abandon /\ batch \subseteq Ids
      BY <2>6 DEF Raise, Crash, TypeOK
    <3>2. Pending' = Pending /\ batch' = {}
      <4>1. CASE commands' = commands
        BY <3>1, <4>1 DEF Pending, Ids, Abandon
      <4>2. CASE Raise /\ worker.pc # "claim" /\ Done(worker.id)
        <5>1. worker.id \in Ids /\ Running = {worker.id}
          BY <4>2 DEF Raise, TypeOK, Running
        <5> QED BY <2>4, <3>1, <4>2, <5>1 DEF Abandon
      <4> QED BY <2>6, <4>1, <4>2 DEF Raise, Crash
    <3>3. \A i \in batch : i \in Pending \/ commands[i].chan # c
      <4>1. CASE worker.pc = "claim"
        BY <4>1 DEF InOrder
      <4>2. CASE worker.pc # "claim"
        BY <1>2, <3>1, <4>2 DEF Abandon, Broken, SameWords
      <4> QED BY <4>1, <4>2
    <3>4. Waiting(c)' = {i \in Pending : commands[i].chan = c /\ commands[i].kind # "check"}
      BY <1>2, <2>1, <3>2
    <3> QED BY <3>3, <3>4 DEF Waiting
  <2> QED BY <2>2, <2>3, <2>5, <2>6
<1>4. CASE Remove /\ Removing(c)
  <2>1. worker.id \in Ids /\ commands[worker.id].chan = c /\ commands' = commands
    BY <1>4 DEF Remove, Removing, TypeOK
  <2>2. rows'[c] = None
    BY <1>4, <2>1 DEF Remove, TypeOK
  <2>3. WillGo(c) => WillGo(c)'
    BY <1>1, <2>2 DEF WillGo
  <2>4. \A b : ~WillBe(c, b)
    BY <1>4 DEF WillBe
  <2> QED BY <1>1, <2>3, <2>4 DEF Outcome
<1>5. CASE ~(Remove /\ Removing(c))
  <2>1. rows'[c] = rows[c]
    <3>1. CASE Remove
      <4>1. worker.pc = "remove" /\ commands[worker.id].chan # c
        BY <1>5, <3>1 DEF Remove, Removing
      <4> QED BY <3>1, <4>1 DEF Remove, TypeOK
    <3>2. CASE ~Remove
      BY <3>2 DEF ReadBatch, Claim, Complete, BatchDone, Raise, Crash
    <3> QED BY <3>1, <3>2
  <2>2. ~Removing(c)
    <3>1. CASE Raise \/ Crash
      <4> SUFFICES ASSUME Removing(c) PROVE FALSE
        OBVIOUS
      <4>1. worker.id \in Running /\ worker.id \in Ids /\ worker.pc # "claim"
        BY DEF Removing, Running, TypeOK
      <4>2. worker.id \in cut' /\ commands'[worker.id].chan = c
        BY <1>2, <3>1, <4>1 DEF Raise, Crash, Abandon, Removing, SameWords
      <4> QED BY <4>2 DEF Broken
    <3>2. CASE Remove
      BY <1>5, <3>2
    <3>3. CASE ReadBatch \/ Claim \/ Complete \/ BatchDone
      BY <3>3 DEF ReadBatch, Claim, Complete, BatchDone, Removing
    <3> QED BY <3>1, <3>2, <3>3
  <2>3. ~Removing(c)'
    BY DEF ReadBatch, Claim, Remove, Complete, BatchDone, Raise, Crash, Abandon, At, TypeOK, Removing
  <2> QED BY <1>1, <1>3, <2>1, <2>2, <2>3, Unmoved
<1> QED BY <1>4, <1>5

\* Every step keeps the promises.
LEMMA PromisesNext ==
  ASSUME TypeOK, TypeOK', InOrder, Promises, Next
  PROVE  Promises'
<1>1. ASSUME NEW c \in Channel, ~Broken(c)'
      PROVE  Outcome(c, intent[c])'
  <2>1. ~Broken(c)
    BY <1>1, BrokenStays
  <2>2. CASE ApiStep
    <3>1. CASE ApiWrite \/ ApiEnqueue
      BY <2>1, <3>1, WriteKept, EnqueueKept
    <3>2. ASSUME NEW d \in Channel,
                 \/ ApiCheck(d) \/ ApiDelete(d)
                 \/ \E b \in BOOLEAN : ApiSetPaused(d, b) \/ ApiCreate(d, b)
                 \/ \E b \in BOOLEAN \cup {None} : ApiEdit(d, b)
          PROVE  Outcome(c, intent[c])'
      BY <2>1, <3>2, RequestKept, OtherRequest
    <3> QED BY <2>2, <3>1, <3>2 DEF ApiStep
  <2> QED BY <1>1, <2>1, <2>2, BeginKept, WorkerKept DEF Next, WorkerStep
<1>2. worker'.pc = "remove" => commands'[worker'.id].kind = "delete"
  <2>1. CASE ApiStep
    <3>1. worker' = worker
      BY <2>1 DEF ApiStep, ApiWrite, ApiEnqueue, ApiCheck, ApiDelete, ApiSetPaused, ApiCreate, ApiEdit
    <3>2. worker.pc = "remove" => worker.id \in Ids
      BY DEF TypeOK
    <3> QED BY <3>1, <3>2, TableKept DEF Promises, SameWords
  <2>2. ASSUME NEW i \in batch, BeginCommand(i)
        PROVE  worker'.pc = "remove" => commands'[worker'.id].kind = "delete"
    BY <2>2 DEF BeginCommand
  <2>3. CASE \/ ReadBatch \/ Claim \/ Remove \/ Complete \/ BatchDone \/ Raise \/ Crash
    <3>1. worker'.pc # "remove"
      BY <2>3 DEF ReadBatch, Claim, Remove, Complete, BatchDone, Raise, Crash, Abandon, At, TypeOK
    <3> QED BY <3>1
  <2> QED BY <2>1, <2>2, <2>3 DEF Next, WorkerStep
<1> QED BY <1>1, <1>2 DEF Promises

\* When the queue has nothing left for a channel, its row is what the user asked
\* for last, whatever commands and edits overtook each other on the way.
THEOREM IntentKeptHolds == Spec => []IntentKept
<1> USE QueueAssumption
<1>1. Init => Promises
  <2> SUFFICES ASSUME Init PROVE Promises
    OBVIOUS
  <2>1. /\ worker.pc = "idle" /\ call.op = "none" /\ call.chan = None /\ batch = {}
        /\ intent = rows /\ rows \in [Channel -> BOOLEAN]
    BY DEF Init, NoCall
  <2>2. Pending = {}
    BY DEF Init, Pending, Ids
  <2>3. \A c \in Channel : Waiting(c) = {} /\ ~Removing(c) /\ Silent(c) /\ intent[c] \in BOOLEAN
    BY <2>1, <2>2 DEF Waiting, Removing, Silent
  <2> QED BY <2>1, <2>3 DEF Promises, Outcome, WillBe, Queued
<1>2. TypeOK /\ TypeOK' /\ InOrder /\ Promises /\ [Next]_vars => Promises'
  <2>1. ASSUME Promises, UNCHANGED vars PROVE Promises'
    <3>1. /\ rows' = rows /\ call' = call /\ intent' = intent /\ worker' = worker
          /\ commands' = commands
      BY <2>1 DEF vars
    <3>2. ASSUME NEW c \in Channel
          PROVE  /\ Waiting(c)' = Waiting(c) /\ (Broken(c)' <=> Broken(c))
                 /\ (Removing(c)' <=> Removing(c)) /\ (Silent(c)' <=> Silent(c))
      BY <2>1 DEF vars, Waiting, Broken, Removing, Silent, Pending, Ids
    <3>3. ASSUME NEW c \in Channel, NEW b, Outcome(c, b)
          PROVE  Outcome(c, b)'
      BY <3>1, <3>2, <3>3 DEF Outcome, WillBe, WillGo, Queued
    <3> QED BY <2>1, <3>1, <3>2, <3>3 DEF Promises
  <2> QED BY <2>1, PromisesNext
<1>3. TypeOK /\ Promises => IntentKept
  BY NothingComing DEF IntentKept
<1> QED BY <1>1, <1>2, <1>3, QueueTypeCorrect, InOrderHolds, PTL DEF Spec
=============================================================================
