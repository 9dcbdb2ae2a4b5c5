---------------------------- MODULE CommandQueue ----------------------------
(***************************************************************************)
(* The commands table between the API process and the worker, and what the *)
(* commands and the API do to the paused flag of a channel.                *)
(*                                                                         *)
(* The API handlers run one at a time on its event loop; each writes the   *)
(* channel row in one transaction and enqueues a command in another.  The  *)
(* worker reads a batch of pending commands, marks it claimed in a second  *)
(* statement, and executes it command by command.  created_at is the clock *)
(* of the only process that enqueues, so the order of the table is the     *)
(* order of the ids.                                                       *)
(***************************************************************************)
EXTENDS Naturals, Sequences, FiniteSets

CONSTANTS
  Channel,       \* channel ids
  None, Any,     \* no value; no promise
  BatchLimit,    \* claim_pending_commands(limit)
  MaxCommands,   \* length of the table: a bound
  MaxFailures    \* crashes and exceptions of the worker: a bound

Kind == {"check", "pause", "resume", "delete"}
Command == [kind : Kind, chan : Channel, state : {"new", "claimed", "done"}]

ASSUME QueueAssumption ==
  /\ BatchLimit \in Nat \ {0} /\ MaxCommands \in Nat /\ MaxFailures \in Nat
  /\ None \notin Channel /\ None \notin Kind
  /\ {None, Any} \cap BOOLEAN = {} /\ Any # None

VARIABLES
  commands,  \* the table: [kind, chan, state], the index is the id
  rows,      \* paused of each channel's row, None without a row
  call,      \* the API handler in flight: the writes it has still to do
  batch,     \* ids the worker has read and not begun
  worker,    \* where process_commands is, and the command it executes
  failures,
  last,      \* history: the last command whose execution began
  cut,       \* history: claimed commands that a failure cut short or skipped
  intent     \* history: what the user asked of the channel last

vars == <<commands, rows, call, batch, worker, failures, last, cut, intent>>
history == <<last, cut, intent>>

Ids == 1..Len(commands)
Pending == {i \in Ids : commands[i].state = "new"}
Running == IF worker.pc \in {"remove", "complete"} THEN {worker.id} ELSE {}

\* Commands on the way that still can change the flag of c
Coming(c) ==
  \/ \E i \in Pending \cup batch \cup Running :
       commands[i].chan = c /\ commands[i].kind # "check"
  \/ call.chan = c
Broken(c) == \E i \in cut : commands[i].chan = c

NoCall == [op |-> "none", chan |-> None, row |-> None, kind |-> None]
Enqueuing(c, k) == [op |-> "enqueue", chan |-> c, row |-> None, kind |-> k]
Writing(c, b, k) == [op |-> "write", chan |-> c, row |-> b, kind |-> k]

At(p) == worker' = [pc |-> p, id |-> None]

Init ==
  /\ commands = <<>>
  /\ rows \in [Channel -> BOOLEAN]
  /\ call = NoCall
  /\ batch = {}
  /\ worker = [pc |-> "idle", id |-> None]
  /\ failures = 0
  /\ last = 0
  /\ cut = {}
  /\ intent = rows

-----------------------------------------------------------------------------
(* The API process                                                         *)

Ready(c) == call = NoCall /\ Len(commands) < MaxCommands /\ rows[c] # None

\* A change that does not go through the queue is overtaken by what is in it:
\* then no outcome is promised.
Direct(c, b) == intent' = [intent EXCEPT ![c] = IF Coming(c) THEN Any ELSE b]

\* POST /pause and /resume.  A channel being deleted stays so, and a promise
\* once withdrawn is not renewed before the queue has caught up.
ApiSetPaused(c, b) ==
  /\ Ready(c)
  /\ rows' = [rows EXCEPT ![c] = b]
  /\ call' = Enqueuing(c, IF b THEN "pause" ELSE "resume")
  /\ intent' = [intent EXCEPT ![c] = IF @ = None \/ (@ = Any /\ Coming(c)) THEN @ ELSE b]
  /\ UNCHANGED <<commands, batch, worker, failures, last, cut>>

ApiCheck(c) ==
  /\ Ready(c)
  /\ call' = Enqueuing(c, "check")
  /\ UNCHANGED <<commands, rows, batch, worker, failures, history>>

\* POST /channels: writes the row whether there is one or not, and enqueues a
\* check unless the channel is created paused or disabled.
ApiCreate(c, b) ==
  /\ call = NoCall /\ Len(commands) < MaxCommands
  /\ rows' = [rows EXCEPT ![c] = b]
  /\ call' = NoCall \/ (~b /\ call' = Enqueuing(c, "check"))
  /\ Direct(c, b)
  /\ UNCHANGED <<commands, batch, worker, failures, last, cut>>

\* PATCH: the row is read here and written back by ApiWrite; b is None when the
\* payload leaves paused alone.
ApiEdit(c, b) ==
  /\ Ready(c)
  /\ call' = Writing(c, IF b = None THEN rows[c] ELSE b, None)
  /\ Direct(c, IF b = None THEN intent[c] ELSE b)
  /\ UNCHANGED <<commands, rows, batch, worker, failures, last, cut>>

\* DELETE of an idle channel removes the row; an active one is paused, and the
\* command deletes it.
ApiDelete(c) ==
  /\ Ready(c)
  /\ \/ rows' = [rows EXCEPT ![c] = None] /\ call' = call
     \/ rows' = rows /\ call' = Writing(c, TRUE, "delete")
  /\ intent' = [intent EXCEPT ![c] = None]
  /\ UNCHANGED <<commands, batch, worker, failures, last, cut>>

ApiWrite ==
  /\ call.op = "write"
  /\ rows' = [rows EXCEPT ![call.chan] = call.row]
  /\ call' = IF call.kind = None THEN NoCall ELSE Enqueuing(call.chan, call.kind)
  /\ UNCHANGED <<commands, batch, worker, failures, history>>

\* enqueue_command
ApiEnqueue ==
  /\ call.op = "enqueue"
  /\ commands' = Append(commands, [kind |-> call.kind, chan |-> call.chan, state |-> "new"])
  /\ call' = NoCall
  /\ UNCHANGED <<rows, batch, worker, failures, history>>

-----------------------------------------------------------------------------
(* The worker: claim_pending_commands, process_commands                    *)

\* Mutant: the newest pending commands are read first
NewestBatch(s) ==
  /\ s \subseteq Pending
  /\ \A i \in s, j \in Pending \ s : i > j
  /\ Cardinality(s) <= BatchLimit
  /\ Cardinality(s) = BatchLimit \/ s = Pending

\* SELECT ... ORDER BY created_at, id LIMIT limit
OldestBatch(s) ==
  /\ s \subseteq Pending
  /\ \A i \in s, j \in Pending \ s : i < j
  /\ Cardinality(s) <= BatchLimit
  /\ Cardinality(s) = BatchLimit \/ s = Pending

ReadBatch ==
  /\ worker.pc = "idle"
  /\ \E s \in SUBSET Pending : s # {} /\ OldestBatch(s) /\ batch' = s
  /\ At("claim")
  /\ UNCHANGED <<commands, rows, call, failures, history>>

Claimed(s) ==
  [i \in Ids |-> IF i \in s THEN [commands[i] EXCEPT !.state = "claimed"] ELSE commands[i]]

\* Mutant: every pending command is marked, not the ones that were read
ClaimAllPending ==
  /\ worker.pc = "claim"
  /\ commands' = Claimed(Pending)
  /\ At("run")
  /\ UNCHANGED <<rows, call, batch, failures, history>>

\* UPDATE commands SET claimed_at WHERE id IN the ids that were read
Claim ==
  /\ worker.pc = "claim"
  /\ commands' = Claimed(batch)
  /\ At("run")
  /\ UNCHANGED <<rows, call, batch, failures, history>>

\* Mutant: the batch is executed from its end
LastRead(i) == i \in batch /\ \A j \in batch : i >= j
\* for command in commands: the batch is executed in the order it was read
FirstRead(i) == i \in batch /\ \A j \in batch : i <= j

\* One command up to its first write; a channel that is gone raises KeyError,
\* which only skips the command.
BeginCommand(i) ==
  LET c == commands[i].chan
      k == commands[i].kind
      there == rows[c] # None IN
  /\ worker.pc = "run" /\ FirstRead(i)
  /\ batch' = batch \ {i}
  /\ last' = i
  /\ rows' = IF there /\ k # "check" THEN [rows EXCEPT ![c] = (k # "resume")] ELSE rows
  /\ worker' = [pc |-> IF there /\ k = "delete" THEN "remove" ELSE "complete", id |-> i]
  /\ UNCHANGED <<commands, call, failures, cut, intent>>

Remove ==
  /\ worker.pc = "remove"
  /\ rows' = [rows EXCEPT ![commands[worker.id].chan] = None]
  /\ worker' = [worker EXCEPT !.pc = "complete"]
  /\ UNCHANGED <<commands, call, batch, failures, history>>

Done(i) == commands' = [commands EXCEPT ![i].state = "done"]

\* complete_command, in the finally clause
Complete ==
  /\ worker.pc = "complete"
  /\ Done(worker.id)
  /\ At("run")
  /\ UNCHANGED <<rows, call, batch, failures, history>>

BatchDone ==
  /\ worker.pc = "run" /\ batch = {}
  /\ At("idle")
  /\ UNCHANGED <<commands, rows, call, batch, failures, history>>

\* What a failure of the worker leaves behind: claimed commands nobody executes
Abandon ==
  /\ failures < MaxFailures
  /\ failures' = failures + 1
  /\ cut' = cut \cup (IF worker.pc = "claim" THEN {} ELSE batch \cup Running)
  /\ batch' = {}
  /\ At("idle")

\* An exception other than KeyError (a locked database, an unreadable
\* configuration) leaves process_commands; the finally clause completes the
\* command, unless the exception is its own.
Raise ==
  /\ worker.pc \in {"claim", "remove", "complete"}
  /\ Abandon
  /\ \/ commands' = commands
     \/ worker.pc # "claim" /\ Done(worker.id)
  /\ UNCHANGED <<rows, call, last, intent>>

Crash ==
  /\ Abandon
  /\ UNCHANGED <<commands, rows, call, last, intent>>

ApiStep ==
  \/ ApiWrite \/ ApiEnqueue
  \/ \E c \in Channel :
       \/ ApiCheck(c) \/ ApiDelete(c)
       \/ \E b \in BOOLEAN : ApiSetPaused(c, b) \/ ApiCreate(c, b)
       \/ \E b \in BOOLEAN \cup {None} : ApiEdit(c, b)

WorkerStep ==
  \/ ReadBatch \/ Claim \/ Remove \/ Complete \/ BatchDone
  \/ \E i \in batch : BeginCommand(i)

Next == ApiStep \/ WorkerStep \/ Raise \/ Crash

Spec == Init /\ [][Next]_vars

\* The loop of the worker goes on, and an API handler that began ends.
FairSpec == Spec /\ WF_vars(WorkerStep) /\ WF_vars(ApiWrite \/ ApiEnqueue)

-----------------------------------------------------------------------------
TypeOK ==
  /\ commands \in Seq(Command)
  /\ rows \in [Channel -> BOOLEAN \cup {None}]
  /\ call \in {NoCall} \cup [op : {"enqueue"}, chan : Channel, row : {None}, kind : Kind]
                \cup [op : {"write"}, chan : Channel, row : BOOLEAN, kind : {None, "delete"}]
  /\ batch \subseteq Ids /\ cut \subseteq Ids
  /\ worker \in [pc : {"idle", "claim", "run"}, id : {None}]
                  \cup [pc : {"remove", "complete"}, id : Ids]
  /\ failures \in 0..MaxFailures
  /\ last \in 0..Len(commands)
  /\ intent \in [Channel -> BOOLEAN \cup {None, Any}]

\* The order of the table survives the two-step claim: what the worker holds is
\* the oldest of what is left, newer than all it has begun, and what it has not
\* claimed is newer still; until the worker fails, nothing is missing.
InOrder ==
  /\ \A i \in Running : i = last
  /\ \A i \in batch \cup Pending : last < i
  /\ \A i \in batch, j \in Pending \ batch : i < j
  /\ worker.pc = "idle" => batch = {}
  /\ IF worker.pc = "claim" THEN batch \subseteq Pending ELSE batch \cap Pending = {}
  /\ failures = 0 => \A i \in Ids : i > last => i \in batch \cup Pending

\* Each command is executed at most once and in the order of the API's requests;
\* none is skipped if the worker does not fail.
Ordered == INSTANCE OrderedCommands WITH
  submitted <- Len(commands), last <- last, MayLose <- (MaxFailures > 0)
InSubmissionOrder == Ordered!Spec

\* When the queue has nothing left for a channel, its row is what the user asked
\* for last: the flag written by the API and the one the worker writes again
\* later agree in the end, unless a failure cut one of the commands short.
AsAsked(c) == intent[c] \in {Any, rows[c]}
IntentKept == \A c \in Channel : ~Coming(c) /\ ~Broken(c) => AsAsked(c)

\* Every command is carried out, or a failure of the worker cut it short.
Served(i) == i \in Ids /\ (commands[i].state = "done" \/ i \in cut)
EveryCommandServed == \A i \in 1..MaxCommands : i \in Ids ~> Served(i)
=============================================================================
