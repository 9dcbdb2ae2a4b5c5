--------------------------- MODULE EventLogProofs ---------------------------
(***************************************************************************)
(* What TLAPS proves of EventLog for every value of the constants: types,  *)
(* that suppressed errors are shown, that both logs agree (AgreeInv), that *)
(* repeats of an error need a race (RaceInv), that nothing is shown as     *)
(* faulty without a failure (AlarmInv), and that what records is listed.   *)
(***************************************************************************)
EXTENDS EventLog, FiniteSetTheorems, TLAPS

-----------------------------------------------------------------------------
(* Types                                                                   *)

LEMMA MessagesAre ==
  Message = {"started", "resolution", "checking", "live", "recording", "converting",
             "salvaging", "finished", "recovering", "recovered", "converted", "unconverted",
             "missing", "login", "died", "stalled", "password", "private", "offline"}
BY DEF Message, Says

LEMMA ConversionsLead ==
  /\ Converting = {"converting", "breaking", "salvaging"}
  /\ \A p \in Converting : Converted[p] \in {"converted", "broken", "salvaged"}
BY DEF Converting, Converted

LEMMA SamplesTyped ==
  /\ Excuse \subseteq Message
  /\ \A f \in Failure : f.message \in Message /\ f.category \in Category
BY SampleAssumption, MessagesAre DEF Category

\* The event Tell makes.
Made(s, c, type, message, category) ==
  [id |-> 0, mark |-> nextId - 1, time |-> now,
   level |-> IF type = "failed" THEN "ERROR" ELSE "INFO", type |-> type, channel |-> c,
   message |-> message, category |-> IF category = None THEN sticky[s] ELSE category,
   session |-> s]

\* A log position a comparison was made at exists: nextId is positive.
Types == TypeOK /\ nextId > 0

LEMMA MadeTyped ==
  ASSUME Types, NEW s \in Session, NEW c \in Channel, NEW type \in Type,
         NEW message \in Message, NEW category \in Category \cup {None}
  PROVE  Made(s, c, type, message, category) \in Event
<1>1. nextId - 1 \in Nat /\ now \in 0..MaxTime /\ sticky[s] \in Category \cup {None}
  BY DEF Types, TypeOK
<1> QED
  BY <1>1 DEF Made, Event

LEMMA TellTyped ==
  ASSUME Types, NEW s \in Session, NEW next \in Phase, NEW type \in Type,
         NEW message \in Message, NEW category \in Category \cup {None},
         Tell(s, next, type, message, category), of'[s] \in Channel
  PROVE  /\ now' \in 0..MaxTime /\ nextId' \in Nat /\ nextId' > 0
         /\ phase' \in [Session -> Phase]
         /\ rows' \subseteq Session /\ wrote' \in [Session -> 0..MaxTime]
         /\ pending' \in [Session -> Pending \cup {None}]
         /\ events' \subseteq Event /\ sessionLog' \subseteq Event /\ withheld' \subseteq Event
<1> DEFINE e == Made(s, of'[s], type, message, category)
<1>1. e \in Event
  BY MadeTyped
<1>2. /\ phase' = [phase EXCEPT ![s] = next]
      /\ rows' = rows \cup {s}
      /\ wrote' = [wrote EXCEPT ![s] = now]
      /\ withheld' \subseteq withheld \cup {e}
      /\ sessionLog' \subseteq sessionLog \cup {e}
      /\ \/ UNCHANGED pending
         \/ \E to \in {"global", "session"} :
              pending' = [pending EXCEPT ![s] = [event |-> e, to |-> to]]
      /\ UNCHANGED <<now, nextId, events>>
  BY DEF Tell, Made
<1> HIDE DEF e
<1>3. \A to \in {"global", "session"} : [event |-> e, to |-> to] \in Pending
  BY <1>1 DEF Pending
<1> QED
  BY <1>1, <1>2, <1>3 DEF Types, TypeOK

LEMMA AppendTyped ==
  ASSUME Types, NEW c \in Channel, NEW type \in Type, NEW level \in {"INFO", "ERROR"},
         NEW message \in Message, Append(type, level, c, message)
  PROVE  events' \subseteq Event /\ nextId' \in Nat /\ nextId' > 0
<1> DEFINE e == [id |-> nextId, mark |-> 0, time |-> now, level |-> level, type |-> type,
                 channel |-> c, message |-> message, category |-> None, session |-> None]
<1>1. e \in Event
  BY DEF Types, TypeOK, Event
<1>2. events' = events \cup {e} /\ nextId' = nextId + 1
  BY DEF Append
<1> QED
  BY <1>1, <1>2 DEF Types, TypeOK

\* A handler runs for a session that was opened for a channel.
Placed == \A s \in Session : phase[s] # "none" => of[s] \in Channel

LEMMA TypesInit == Init => Types /\ Placed
<1> SUFFICES ASSUME Init PROVE Types /\ Placed
  OBVIOUS
<1>1. events \subseteq Event /\ failed \subseteq Channel
  <2>1. CASE events = {} /\ failed = {}
    BY <2>1
  <2>2. ASSUME NEW c \in Channel, NEW f \in Earlier,
               events = {[id |-> 1, mark |-> 0, time |-> 0, level |-> "ERROR", type |-> "failed",
                          channel |-> c, message |-> f.message, category |-> f.category,
                          session |-> None]},
               failed = {c}
        PROVE  events \subseteq Event /\ failed \subseteq Channel
    <3>1. f.message \in Message /\ f.category \in Category
      BY LogAssumption, SamplesTyped
    <3>2. 0 \in 0..MaxTime
      BY LogAssumption
    <3> QED
      BY <2>2, <3>1, <3>2 DEF Event, Type
  <2> QED
    BY <2>1, <2>2 DEF Init
<1>2. MaxTime \in Nat
  BY LogAssumption
<1> QED
  BY <1>1, <1>2 DEF Init, Types, TypeOK, Placed, Phase

ChannelState == [status : {"idle", "checking", "recording", "error"},
                 pid : BOOLEAN, error : Message \cup {None}]

LEMMA PutTyped ==
  ASSUME Types, NEW s \in Session, of[s] \in Channel,
         NEW status \in {"idle", "checking", "recording", "error"}, NEW pid \in BOOLEAN,
         NEW error \in Message \cup {None}, Put(s, status, pid, error)
  PROVE  chan' \in [Channel -> ChannelState]
<1>1. [status |-> status, pid |-> pid, error |-> error] \in ChannelState
  BY DEF ChannelState
<1> QED
  BY <1>1 DEF Put, Types, TypeOK, ChannelState

-----------------------------------------------------------------------------
(* Every step of a handler that tells something is a Telling, whatever it  *)
(* tells: the proofs below need no more of it.                             *)

Telling(s) ==
  /\ pending[s] = None
  /\ phase[s] \in {"ended", "left"} => s \in rows
  /\ \E next \in Phase \ {"none"}, type \in Type, message \in Message,
        category \in Category \cup {None} : Tell(s, next, type, message, category)
  /\ of'[s] \in Channel
  /\ of' \in [Session -> Channel \cup {None}]
  /\ \A t \in Session \ {s} : of'[t] = of[t]
  /\ chan' \in [Channel -> ChannelState]
  /\ sticky' \in [Session -> Category \cup {None}]
  /\ failed' \subseteq Channel

LEMMA OpenTells ==
  ASSUME Types, Placed, NEW s \in Session, NEW c \in Channel, Open(s, c)
  PROVE  Telling(s)
<1>1. /\ pending[s] = None /\ phase[s] = "none"
      /\ of' = [of EXCEPT ![s] = c] /\ chan' = [chan EXCEPT ![c].status = "checking"]
      /\ Tell(s, "opened", "started", "started", None)
      /\ UNCHANGED <<sticky, failed>>
  BY DEF Open, At
<1>2. [chan[c] EXCEPT !.status = "checking"] \in ChannelState
  BY DEF Types, TypeOK, ChannelState
<1>3. of' \in [Session -> Channel \cup {None}] /\ chan' \in [Channel -> ChannelState]
  BY <1>1, <1>2 DEF Types, TypeOK, ChannelState
<1>4. "opened" \in Phase \ {"none"} /\ "started" \in Type /\ "started" \in Message
  BY MessagesAre DEF Phase, Type
<1> QED
  BY <1>1, <1>3, <1>4 DEF Telling, Types, TypeOK

\* The other steps leave the session with its channel.
LEMMA OthersTell ==
  ASSUME Types, Placed, NEW s \in Session, pending[s] = None, phase[s] # "none",
         phase[s] \in {"ended", "left"} => s \in rows,
         NEW next \in Phase \ {"none"}, NEW type \in Type, NEW message \in Message,
         NEW category \in Category \cup {None}, Tell(s, next, type, message, category),
         UNCHANGED of, chan' \in [Channel -> ChannelState],
         UNCHANGED sticky \/ sticky' = [sticky EXCEPT ![s] = "source_unstable"],
         UNCHANGED failed \/ Fails(s)
  PROVE  Telling(s)
<1>1. of[s] \in Channel
  BY DEF Placed
<1>2. "source_unstable" \in Category
  BY DEF Category
<1>3. sticky' \in [Session -> Category \cup {None}] /\ failed' \subseteq Channel
  BY <1>1, <1>2 DEF Types, TypeOK, Fails
<1> QED
  BY <1>1, <1>3 DEF Telling, Types, TypeOK

LEMMA HandlersTell ==
  ASSUME Types, Placed, NEW s \in Session,
         \/ Resolve(s) \/ Acquire(s) \/ Unavailable(s) \/ Reject(s) \/ Launch(s)
         \/ StallFail(s) \/ Finish(s) \/ Complete(s) \/ Break(s) \/ Retry(s)
         \/ Recover(s) \/ Recovered(s)
  PROVE  Telling(s)
<1> USE MessagesAre
<1>0. /\ \A x \in {"probing", "source_resolution", "source_acquired", "recording", "converting",
                   "retry", "recovering", "completed", "aborted", "failed"} : x \in Type
      /\ \A x \in {"probing", "resolving", "acquired", "recording", "stalled", "converting",
                   "breaking", "salvaging", "retrying", "recovering", "ended"} :
           x \in Phase \ {"none"}
      /\ {"unknown", "process_failure", "source_unstable"} \subseteq Category
  BY DEF Type, Phase, Category
<1>1. phase[s] # "none" => of[s] \in Channel
  BY DEF Placed
<1>2. chan \in [Channel -> ChannelState]
      /\ \A c \in Channel : chan[c].pid \in BOOLEAN /\ chan[c].error \in Message \cup {None}
  BY DEF Types, TypeOK, ChannelState
<1>3. CASE Resolve(s)
  BY <1>0, <1>2, <1>3, OthersTell DEF Resolve, At
<1>4. CASE Acquire(s)
  <2>1. chan' \in [Channel -> ChannelState]
    BY <1>1, <1>2, <1>4, PutTyped DEF Acquire, At
  <2> QED
    BY <1>0, <1>4, <2>1, OthersTell DEF Acquire, At
<1>5. CASE Unavailable(s)
  <2>1. chan' \in [Channel -> ChannelState]
    BY <1>1, <1>2, <1>5, PutTyped DEF Unavailable, At
  <2> QED
    BY <1>0, <1>5, <2>1, SamplesTyped, OthersTell DEF Unavailable, At
<1>6. CASE Reject(s)
  <2>1. PICK f \in Failure : /\ Put(s, "error", chan[of[s]].pid, f.message)
                             /\ Tell(s, "ended", "failed", f.message, f.category)
    BY <1>6 DEF Reject
  <2>2. chan' \in [Channel -> ChannelState]
    BY <1>1, <1>2, <1>6, <2>1, SamplesTyped, PutTyped DEF Reject, At
  <2> QED
    BY <1>0, <1>6, <2>1, <2>2, SamplesTyped, OthersTell DEF Reject, At
<1>7. CASE Launch(s)
  <2>1. chan' \in [Channel -> ChannelState]
    BY <1>1, <1>7, PutTyped DEF Launch, At
  <2> QED
    BY <1>0, <1>7, <2>1, OthersTell DEF Launch, At
<1>8. CASE StallFail(s)
  BY <1>0, <1>2, <1>8, OthersTell DEF StallFail, At
<1>9. CASE Finish(s)
  <2>1. chan' \in [Channel -> ChannelState]
    BY <1>1, <1>9, PutTyped DEF Finish, At
  <2>2. /\ pending[s] = None /\ phase[s] \in {"recording", "stalled"}
        /\ UNCHANGED <<of, sticky>> /\ (UNCHANGED failed \/ Fails(s))
        /\ \/ Tell(s, "converting", "converting", "converting", None)
           \/ \E m \in Excuse : Tell(s, "ended", "aborted", m, None)
           \/ Tell(s, "breaking", "converting", "converting", None)
           \/ Tell(s, "salvaging", "converting", "salvaging", None)
    BY <1>9 DEF Finish, At
  <2> QED
    BY <1>0, <2>1, <2>2, SamplesTyped, OthersTell
<1>10. CASE Complete(s)
  BY <1>0, <1>2, <1>10, SamplesTyped, OthersTell DEF Complete, At
<1>11. CASE Break(s)
  <2>1. PICK f \in Failure : /\ Put(s, "error", FALSE, f.message)
                             /\ Tell(s, "ended", "failed", f.message, f.category)
    BY <1>11 DEF Break
  <2>2. chan' \in [Channel -> ChannelState]
    BY <1>1, <1>11, <2>1, SamplesTyped, PutTyped DEF Break, At
  <2> QED
    BY <1>0, <1>11, <2>1, <2>2, SamplesTyped, OthersTell DEF Break, At
<1>12. CASE Retry(s)
  BY <1>0, <1>2, <1>12, OthersTell DEF Retry, At
<1>13. CASE Recover(s)
  BY <1>0, <1>2, <1>13, OthersTell DEF Recover, At
<1>14. CASE Recovered(s)
  <2>1. chan' \in [Channel -> ChannelState]
    BY <1>1, <1>2, <1>14, PutTyped DEF Recovered, At
  <2> QED
    BY <1>0, <1>14, <2>1, OthersTell DEF Recovered, At
<1> QED
  BY <1>3, <1>4, <1>5, <1>6, <1>7, <1>8, <1>9, <1>10, <1>11, <1>12, <1>13, <1>14

\* A step of a handler tells, or appends the pending event, or does neither.
LEMMA SessionSteps ==
  ASSUME Types, Placed, NEW s \in Session, SessionStep(s)
  PROVE  \/ Telling(s) \/ AppendEvent(s) \/ AppendSessionEvent(s)
         \/ Refuse(s) \/ Lose(s) \/ Stall(s) \/ Convert(s)
BY OpenTells, HandlersTell DEF SessionStep

LEMMA TypesNext == Types /\ Placed /\ [Next]_vars => Types' /\ Placed'
<1> SUFFICES ASSUME Types, Placed, [Next]_vars
             PROVE  Types' /\ Placed'
  OBVIOUS
<1>1. ASSUME NEW s \in Session, Telling(s)
      PROVE  Types' /\ Placed'
  <2>1. PICK next \in Phase \ {"none"}, type \in Type, message \in Message,
             category \in Category \cup {None} : Tell(s, next, type, message, category)
    BY <1>1 DEF Telling
  <2>2. of'[s] \in Channel
    BY <1>1 DEF Telling
  <2>3. /\ now' \in 0..MaxTime /\ nextId' \in Nat /\ nextId' > 0
        /\ phase' \in [Session -> Phase]
        /\ rows' \subseteq Session /\ wrote' \in [Session -> 0..MaxTime]
        /\ pending' \in [Session -> Pending \cup {None}]
        /\ events' \subseteq Event /\ sessionLog' \subseteq Event /\ withheld' \subseteq Event
    BY <2>1, <2>2, TellTyped
  <2>4. Types'
    BY <1>1, <2>3 DEF Telling, Types, TypeOK, ChannelState
  <2>5. Placed'
    BY <1>1, <2>1 DEF Telling, Tell, Placed, Types, TypeOK
  <2> QED
    BY <2>4, <2>5
<1>2. ASSUME NEW s \in Session, AppendEvent(s)
      PROVE  Types' /\ Placed'
  <2>1. pending[s] \in Pending
    BY <1>2 DEF AppendEvent, Types, TypeOK
  <2>2. [pending[s].event EXCEPT !.id = nextId] \in Event
        /\ [pending[s] EXCEPT !.to = "session"] \in Pending
    BY <2>1 DEF Pending, Event, Types, TypeOK
  <2>3. Types'
    BY <1>2, <2>2 DEF AppendEvent, Types, TypeOK
  <2>4. Placed'
    BY <1>2 DEF AppendEvent, Placed
  <2> QED
    BY <2>3, <2>4
<1>3. ASSUME NEW s \in Session, AppendSessionEvent(s)
      PROVE  Types' /\ Placed'
  <2>1. pending[s].event \in Event
    BY <1>3 DEF AppendSessionEvent, Types, TypeOK, Pending
  <2> QED
    BY <1>3, <2>1 DEF AppendSessionEvent, Types, TypeOK, Placed
<1>4. ASSUME NEW s \in Session, Refuse(s) \/ Lose(s)
      PROVE  Types' /\ Placed'
  <2>1. of[s] \in Channel
    BY <1>4 DEF Refuse, Lose, At, Placed
  <2>2. chan' \in [Channel -> ChannelState]
    <3>1. chan[of[s]].pid \in BOOLEAN
      BY <2>1 DEF Types, TypeOK
    <3> QED
      BY <1>4, <2>1, <3>1, PutTyped DEF Refuse, Lose
  <2>3. \E next \in Phase : phase' = [phase EXCEPT ![s] = next]
    BY <1>4 DEF Refuse, Lose, Phase
  <2>4. /\ UNCHANGED <<now, of, sticky, rows, wrote, pending, nextId, events, sessionLog, withheld>>
        /\ failed' \subseteq Channel
    BY <1>4, <2>1 DEF Refuse, Lose, Fails, Types, TypeOK
  <2> QED
    BY <2>1, <2>2, <2>3, <2>4 DEF Types, TypeOK, Placed, ChannelState
<1>5. ASSUME NEW s \in Session, Stall(s) \/ Convert(s)
      PROVE  Types' /\ Placed'
  <2>1. of[s] \in Channel
    BY <1>5, ConversionsLead DEF Stall, Convert, At, Placed
  <2>2. events' \subseteq Event /\ nextId' \in Nat /\ nextId' > 0
    BY <1>5, <2>1, MessagesAre, AppendTyped DEF Stall, Convert, Type
  <2>3. /\ phase' \in [Session -> Phase] /\ failed' \subseteq Channel
        /\ UNCHANGED <<now, chan, of, sticky, rows, wrote, pending, sessionLog, withheld>>
    BY <1>5, <2>1, ConversionsLead DEF Stall, Convert, Fails, Phase, Types, TypeOK
  <2>4. \A t \in Session : phase'[t] # "none" => phase[t] # "none"
    BY <1>5, ConversionsLead DEF Stall, Convert, At, Types, TypeOK
  <2> QED
    BY <2>2, <2>3, <2>4 DEF Types, TypeOK, Placed
<1>6. CASE Tick
  BY <1>6, LogAssumption DEF Tick, Types, TypeOK, Placed
<1>7. CASE Prune
  <2>1. events' \subseteq events /\ rows' \subseteq rows /\ sessionLog' \subseteq sessionLog
    BY <1>7 DEF Prune
  <2> QED
    BY <1>7, <2>1 DEF Prune, Types, TypeOK, Placed
<1>8. CASE UNCHANGED vars
  BY <1>8 DEF vars, Types, TypeOK, Placed
<1> QED
  BY <1>1, <1>2, <1>3, <1>4, <1>5, <1>6, <1>7, <1>8, SessionSteps DEF Next

\* Every state of the log, of the sessions' own logs and of the channels is
\* well formed, whatever the constants are.
THEOREM TypeCorrect == Spec => []TypeOK
<1>1. Types /\ Placed => TypeOK
  BY DEF Types
<1> QED
  BY <1>1, TypesInit, TypesNext, PTL DEF Spec

-----------------------------------------------------------------------------
(* What is held back can be read                                           *)

LEMMA ShownNext ==
  Types /\ Types' /\ SuppressedShown /\ [Next]_vars /\ Placed => SuppressedShown'
<1> SUFFICES ASSUME Types, Types', Placed, SuppressedShown, [Next]_vars
             PROVE  SuppressedShown'
  OBVIOUS
<1>0. /\ now \in Nat /\ now' \in Nat
      /\ \A e \in Event : e.time \in Nat
      /\ {Window, LogAge, ErrorAge} \subseteq Nat
  BY LogAssumption DEF Types, TypeOK, Event
<1>1. ASSUME events \subseteq events', withheld' = withheld, now' >= now
      PROVE  SuppressedShown'
  <2> SUFFICES ASSUME NEW e \in withheld, now' - e.time + Window <= ErrorAge
               PROVE  \E f \in events' : f.level = "ERROR" /\ Same(e, f)
                                         /\ e.time <= f.time + Window
    BY <1>1 DEF SuppressedShown, Same
  <2>1. now - e.time + Window <= ErrorAge
    <3>1. e.time \in Nat
      BY <1>0 DEF Types, TypeOK
    <3> QED
      BY <1>0, <1>1, <3>1
  <2> QED
    BY <1>1, <2>1 DEF SuppressedShown
<1>2. ASSUME NEW s \in Session, Telling(s)
      PROVE  SuppressedShown'
  <2>1. PICK next \in Phase \ {"none"}, type \in Type, message \in Message,
             category \in Category \cup {None} : Tell(s, next, type, message, category)
    BY <1>2 DEF Telling
  <2> DEFINE e == Made(s, of'[s], type, message, category)
  <2>2. withheld' = withheld \/ (Repeated(e) /\ withheld' = withheld \cup {e})
    BY <2>1 DEF Tell, Made
  <2>3. UNCHANGED <<now, events>>
    BY <2>1 DEF Tell
  <2> HIDE DEF e
  <2>4. Repeated(e) => \E f \in events : f.level = "ERROR" /\ Same(e, f)
                                         /\ e.time <= f.time + Window
    BY DEF Repeated, RecentErrors, Newest, ErrorsOf
  <2> QED
    BY <2>2, <2>3, <2>4 DEF SuppressedShown, Same
<1>3. ASSUME NEW s \in Session,
             \/ AppendEvent(s) \/ AppendSessionEvent(s)
             \/ Refuse(s) \/ Lose(s) \/ Stall(s) \/ Convert(s)
      PROVE  SuppressedShown'
  <2>1. events \subseteq events' /\ withheld' = withheld /\ now' = now
    BY <1>3 DEF AppendEvent, AppendSessionEvent, Refuse, Lose, Stall, Convert, Append
  <2> QED
    BY <1>0, <1>1, <2>1
<1>4. CASE Tick \/ UNCHANGED vars
  <2>1. events' = events /\ withheld' = withheld /\ now' >= now
    BY <1>0, <1>4 DEF Tick, vars
  <2> QED
    BY <1>1, <2>1
<1>5. CASE Prune
  \* the error that is shown was told no longer than Window before
  <2> SUFFICES ASSUME NEW e \in withheld, now - e.time + Window <= ErrorAge
               PROVE  \E f \in events' : f.level = "ERROR" /\ Same(e, f)
                                         /\ e.time <= f.time + Window
    BY <1>5 DEF Prune, SuppressedShown, Same
  <2>1. PICK f \in events : f.level = "ERROR" /\ Same(e, f) /\ e.time <= f.time + Window
    BY DEF SuppressedShown
  <2>2. e.time \in Nat /\ f.time \in Nat
    BY <1>0 DEF Types, TypeOK
  <2>3. now - f.time <= ErrorAge
    BY <1>0, <2>1, <2>2
  <2>4. f \in events'
    BY <1>5, <2>1, <2>3 DEF Prune, Retained
  <2> QED
    BY <2>1, <2>4
<1> QED
  BY <1>2, <1>3, <1>4, <1>5, SessionSteps DEF Next

\* An error the registry held back can be read in the global log, for as long as
\* the retention of errors allows (_should_suppress_global_event, prune_event_logs).
THEOREM SuppressedErrorsAreShown == Spec => []SuppressedShown
<1>1. Init => SuppressedShown
  BY DEF Init, SuppressedShown
<1> QED
  BY <1>1, TypesInit, TypesNext, ShownNext, PTL DEF Spec

-----------------------------------------------------------------------------
(* The logs agree.  The inductive invariant adds what is in flight.        *)

\* A pending event is its handler's own, was made at this time (time does not
\* pass while one is pending), and is in the global log once it is due for the
\* session's own, unless it is held back.
InFlight ==
  \A s \in Session : pending[s] # None =>
    LET e == pending[s].event IN
    /\ e.session = s /\ e.id = 0 /\ e.time = now /\ s \in rows
    /\ pending[s].to = "session" => e \in withheld \/ \E f \in events : Told(f) = e

\* A row is missing before the session is opened, or after it was forgotten.
RowsLeft == \A s \in Session \ rows : phase[s] \in {"none", "ended", "left"}

\* Nothing is told of a session that is yet to be opened.
Unheard ==
  \A s \in Session : phase[s] = "none" =>
    s \notin rows /\ \A e \in events \cup sessionLog \cup withheld : e.session # s

AgreeInv == InFlight /\ RowsLeft /\ Unheard /\ LogsAgree

\* The three parts of LogsAgree, of one session
GlobalInOwn(s) ==
  \A e \in events : e.session = s =>
    Told(e) \in sessionLog \/ (pending[s] # None /\ Told(e) = pending[s].event)
OwnInGlobal(s) ==
  \A e \in sessionLog : e.session = s /\ ~Noise(e) /\ e \notin withheld =>
    \E f \in events : f.session = s /\ Told(f) = e
WithheldInOwn(s) ==
  \A e \in withheld : e.session = s /\ Retained(e) =>
    e \in sessionLog \/ (pending[s] # None /\ e = pending[s].event)

LEMMA ToldSession ==
  ASSUME NEW e \in Event
  PROVE  /\ Told(e) \in Event
         /\ Told(e).session = e.session /\ Told(e).time = e.time
         /\ Told(e).level = e.level /\ Told(e).id = 0
BY DEF Told, Event

InParts == \A s \in rows : GlobalInOwn(s) /\ OwnInGlobal(s) /\ WithheldInOwn(s)

LEMMA AgreeInParts == Types => (LogsAgree <=> InParts)
<1> SUFFICES ASSUME Types
             PROVE  LogsAgree <=> InParts
  OBVIOUS
<1> DEFINE Global(s) == {Told(e) : e \in {e \in events : e.session = s}}
           Own(s) == {e \in sessionLog : e.session = s}
           Due(s) == IF pending[s] = None THEN {} ELSE {pending[s].event}
<1>1. \A e \in events : Told(e).session = e.session
  BY ToldSession DEF Types, TypeOK
<1>2. ASSUME NEW s \in rows
      PROVE  Global(s) \subseteq Own(s) \cup Due(s) <=> GlobalInOwn(s)
  BY <1>1 DEF GlobalInOwn
<1>3. ASSUME NEW s \in rows
      PROVE  {e \in Own(s) : ~Noise(e) /\ e \notin withheld} \subseteq Global(s) <=> OwnInGlobal(s)
  BY DEF OwnInGlobal
<1>4. ASSUME NEW s \in rows
      PROVE  {e \in withheld : e.session = s /\ Retained(e)} \subseteq Own(s) \cup Due(s)
             <=> WithheldInOwn(s)
  BY DEF WithheldInOwn
<1>5. LogsAgree <=> \A s \in rows :
        /\ Global(s) \subseteq Own(s) \cup Due(s)
        /\ {e \in Own(s) : ~Noise(e) /\ e \notin withheld} \subseteq Global(s)
        /\ {e \in withheld : e.session = s /\ Retained(e)} \subseteq Own(s) \cup Due(s)
  BY DEF LogsAgree
<1> HIDE DEF Global, Own, Due
<1> QED
  BY <1>2, <1>3, <1>4, <1>5 DEF InParts

LEMMA AgreeInPartsNext == Types' => (LogsAgree' <=> InParts')
BY AgreeInParts, PTL

LEMMA AgreeInit == Init => AgreeInv
<1> SUFFICES ASSUME Init PROVE AgreeInv
  OBVIOUS
<1>1. /\ rows = {} /\ withheld = {} /\ sessionLog = {}
      /\ \A s \in Session : phase[s] = "none" /\ pending[s] = None
  BY DEF Init
<1>2. \A e \in events : e.session = None
  BY DEF Init
<1> QED
  BY <1>1, <1>2, LogAssumption DEF AgreeInv, InFlight, RowsLeft, Unheard, LogsAgree

Agreeing == Types /\ Placed /\ AgreeInv

\* An operation of the registry appends its event, or has it pending.
LEMMA TellingAgrees ==
  ASSUME Agreeing, Types', NEW s \in Session, Telling(s)
  PROVE  AgreeInv'
<1>1. PICK next \in Phase \ {"none"}, type \in Type, message \in Message,
           category \in Category \cup {None} : Tell(s, next, type, message, category)
  BY DEF Telling
<1> DEFINE e == Made(s, of'[s], type, message, category)
<1>2. e \in Event /\ e.session = s /\ e.id = 0 /\ e.time = now
      /\ e.level = (IF type = "failed" THEN "ERROR" ELSE "INFO")
  BY <1>1, MadeTyped DEF Made, Telling, Agreeing
<1>3. /\ phase' = [phase EXCEPT ![s] = next] /\ rows' = rows \cup {s}
      /\ UNCHANGED <<now, nextId, events>>
      /\ \/ /\ e.level = "INFO" /\ Noise(e) /\ withheld' = withheld
            /\ sessionLog' = sessionLog \cup {e} /\ UNCHANGED pending
         \/ /\ sessionLog' = sessionLog
            /\ \/ withheld' = withheld /\ pending' = [pending EXCEPT ![s] = [event |-> e, to |-> "global"]]
               \/ /\ withheld' = withheld \cup {e}
                  /\ pending' = [pending EXCEPT ![s] = [event |-> e, to |-> "session"]]
  BY <1>1 DEF Tell, Made
<1> HIDE DEF e
<1>4. pending[s] = None /\ (s \in rows \/ phase[s] = "none")
  BY DEF Telling, Agreeing, AgreeInv, RowsLeft, Phase
<1>4a. pending \in [Session -> Pending \cup {None}] /\ phase \in [Session -> Phase]
  BY DEF Agreeing, Types, TypeOK
<1>5. InFlight'
  <2> SUFFICES ASSUME NEW t \in Session, pending'[t] # None
               PROVE  LET f == pending'[t].event IN
                      /\ f.session = t /\ f.id = 0 /\ f.time = now' /\ t \in rows'
                      /\ pending'[t].to = "session" =>
                           f \in withheld' \/ \E g \in events' : Told(g) = f
    BY DEF InFlight, Told
  <2>1. CASE t = s
    BY <1>2, <1>3, <1>4, <1>4a, <2>1
  <2>2. CASE t # s
    <3>1. pending'[t] = pending[t]
      BY <1>3, <1>4a, <2>2
    <3> QED
      BY <1>3, <3>1 DEF InFlight, Agreeing, AgreeInv
  <2> QED
    BY <2>1, <2>2
<1>6. RowsLeft'
  BY <1>3, <1>4a DEF RowsLeft, Agreeing, AgreeInv
<1>7. Unheard'
  <2> SUFFICES ASSUME NEW t \in Session, phase'[t] = "none"
               PROVE  t \notin rows' /\ \A f \in events' \cup sessionLog' \cup withheld' :
                                          f.session # t
    BY DEF Unheard
  <2>1. t # s /\ phase[t] = "none"
    BY <1>3, <1>4a
  <2>2. events' \cup sessionLog' \cup withheld' \subseteq events \cup sessionLog \cup withheld \cup {e}
    BY <1>3
  <2> QED
    BY <1>2, <1>3, <2>1, <2>2 DEF Unheard, Agreeing, AgreeInv
<1>8. LogsAgree'
  <2> SUFFICES ASSUME NEW t \in rows'
               PROVE  (GlobalInOwn(t) /\ OwnInGlobal(t) /\ WithheldInOwn(t))'
    BY AgreeInPartsNext DEF InParts
  <2>1. GlobalInOwn(t) /\ OwnInGlobal(t) /\ WithheldInOwn(t)
    <3>1. CASE t \in rows
      BY <3>1, AgreeInParts DEF InParts, Agreeing, AgreeInv
    <3>2. CASE t \notin rows
      <4>1. t = s /\ phase[s] = "none"
        BY <1>3, <1>4, <3>2
      <4> QED
        BY <4>1 DEF GlobalInOwn, OwnInGlobal, WithheldInOwn, Unheard, Agreeing, AgreeInv
    <3> QED
      BY <3>1, <3>2
  <2>2. \A f \in Event : /\ Noise(f)' = Noise(f) /\ Retained(f)' = Retained(f)
                         /\ Told(f)' = Told(f)
    BY <1>3 DEF Noise, Retained, Told
  <2>3. t # s => pending'[t] = pending[t]
    BY <1>3, <1>4a DEF Agreeing, Types, TypeOK
  <2>4. GlobalInOwn(t)'
    BY <1>3, <1>4, <2>1, <2>2, <2>3 DEF GlobalInOwn, Told
  <2>5. OwnInGlobal(t)'
    BY <1>3, <2>1 DEF OwnInGlobal, Told, Noise
  <2>6. WithheldInOwn(t)'
    <3> SUFFICES ASSUME NEW f \in withheld', f.session = t, Retained(f)'
                 PROVE  f \in sessionLog' \/ (pending'[t] # None /\ f = pending'[t].event)
      BY DEF WithheldInOwn
    <3>1. CASE f \in withheld
      <4>1. Retained(f)
        BY <1>3 DEF Retained
      <4> QED
        BY <1>3, <1>4, <2>1, <2>3, <3>1, <4>1 DEF WithheldInOwn
    <3>2. CASE f \notin withheld
      <4>1. f = e /\ pending' = [pending EXCEPT ![s] = [event |-> e, to |-> "session"]]
        BY <1>3, <3>2
      <4>2. t = s
        BY <1>2, <4>1
      <4>3. pending'[s] \in Pending \cup {None} /\ pending'[s] = [event |-> e, to |-> "session"]
        BY <1>4a, <4>1 DEF Types, TypeOK
      <4>4. [event |-> e, to |-> "session"] # None
        BY <1>2, NoneAssumption DEF Pending
      <4> QED
        BY <4>1, <4>2, <4>3, <4>4
    <3> QED
      BY <3>1, <3>2
  <2> QED
    BY <2>4, <2>5, <2>6
<1> QED
  BY <1>5, <1>6, <1>7, <1>8 DEF AgreeInv

\* The first of the two appends of _emit.
LEMMA AppendEventAgrees ==
  ASSUME Agreeing, Types', NEW s \in Session, AppendEvent(s)
  PROVE  AgreeInv'
<1> DEFINE e == pending[s].event
           told == [e EXCEPT !.id = nextId]
<1>1. /\ pending[s] # None /\ pending[s] \in Pending /\ e \in Event
      /\ events' = events \cup {told}
      /\ pending' = [pending EXCEPT ![s].to = "session"]
      /\ UNCHANGED <<now, phase, rows, sessionLog, withheld>>
  BY DEF AppendEvent, Agreeing, Types, TypeOK, Pending
<1>2. /\ e.session = s /\ e.id = 0 /\ e.time = now /\ s \in rows
  BY <1>1 DEF Agreeing, AgreeInv, InFlight
<1>3. Told(told) = e /\ told.session = s
  BY <1>1, <1>2 DEF Told, Event
<1>4. /\ pending'[s] # None /\ pending'[s].event = e /\ pending'[s].to = "session"
      /\ \A t \in Session : t # s => pending'[t] = pending[t]
  <2>1. pending'[s] = [pending[s] EXCEPT !.to = "session"] /\ pending'[s] \in Pending
    BY <1>1 DEF Agreeing, Types, TypeOK, Pending
  <2> QED
    BY <1>1, <2>1, NoneAssumption DEF Agreeing, Types, TypeOK, Pending
<1> HIDE DEF e, told
<1>5. InFlight'
  <2> SUFFICES ASSUME NEW t \in Session, pending'[t] # None
               PROVE  LET f == pending'[t].event IN
                      /\ f.session = t /\ f.id = 0 /\ f.time = now' /\ t \in rows'
                      /\ pending'[t].to = "session" =>
                           f \in withheld' \/ \E g \in events' : Told(g) = f
    BY DEF InFlight, Told
  <2>1. CASE t = s
    <3>1. told \in events'
      BY <1>1
    <3> QED
      BY <1>1, <1>2, <1>3, <1>4, <2>1, <3>1
  <2>2. CASE t # s
    BY <1>1, <1>4, <2>2 DEF InFlight, Agreeing, AgreeInv
  <2> QED
    BY <2>1, <2>2
<1>6. RowsLeft' /\ Unheard'
  BY <1>1, <1>2, <1>3 DEF RowsLeft, Unheard, Agreeing, AgreeInv
<1>7. InParts'
  <2> SUFFICES ASSUME NEW t \in rows'
               PROVE  GlobalInOwn(t)' /\ OwnInGlobal(t)' /\ WithheldInOwn(t)'
    BY DEF InParts
  <2>1. t \in Session /\ GlobalInOwn(t) /\ OwnInGlobal(t) /\ WithheldInOwn(t)
    BY <1>1, AgreeInParts DEF InParts, Agreeing, AgreeInv, Types, TypeOK
  <2>2. pending'[t] # None <=> pending[t] # None
    BY <1>1, <1>4, <2>1
  <2>3. pending[t] # None => pending'[t].event = pending[t].event
    BY <1>1, <1>4, <2>1 DEF e
  <2>4. GlobalInOwn(t)'
    BY <1>1, <1>3, <1>4, <2>1, <2>2, <2>3 DEF GlobalInOwn, Told
  <2>5. OwnInGlobal(t)'
    BY <1>1, <2>1 DEF OwnInGlobal, Noise, Told
  <2>6. WithheldInOwn(t)'
    BY <1>1, <2>1, <2>2, <2>3 DEF WithheldInOwn, Retained
  <2> QED
    BY <2>4, <2>5, <2>6
<1> QED
  BY <1>5, <1>6, <1>7, AgreeInPartsNext DEF AgreeInv

\* The second.
LEMMA AppendSessionEventAgrees ==
  ASSUME Agreeing, Types', NEW s \in Session, AppendSessionEvent(s)
  PROVE  AgreeInv'
<1> DEFINE e == pending[s].event
<1>1. /\ pending[s] # None /\ pending[s].to = "session" /\ e \in Event
      /\ sessionLog' = sessionLog \cup {e} /\ pending' = [pending EXCEPT ![s] = None]
      /\ UNCHANGED <<now, phase, rows, events, withheld>>
  BY DEF AppendSessionEvent, Agreeing, Types, TypeOK, Pending
<1>2. /\ e.session = s /\ s \in rows
      /\ e \in withheld \/ \E f \in events : Told(f) = e
  BY <1>1 DEF Agreeing, AgreeInv, InFlight
<1>3. pending'[s] = None /\ \A t \in Session : t # s => pending'[t] = pending[t]
  BY <1>1 DEF Agreeing, Types, TypeOK
<1>4. \A f \in events : Told(f).session = f.session
  BY ToldSession DEF Agreeing, Types, TypeOK
<1>5. InFlight'
  <2> SUFFICES ASSUME NEW t \in Session, pending'[t] # None
               PROVE  LET f == pending[t].event IN
                      /\ f.session = t /\ f.id = 0 /\ f.time = now /\ t \in rows
                      /\ pending[t].to = "session" =>
                           f \in withheld \/ \E g \in events : Told(g) = f
    BY <1>1, <1>3 DEF InFlight, Told
  <2>1. pending[t] # None
    BY <1>3
  <2> QED
    BY <2>1 DEF InFlight, Agreeing, AgreeInv
<1>6. RowsLeft' /\ Unheard'
  BY <1>1, <1>2 DEF RowsLeft, Unheard, Agreeing, AgreeInv
<1>7. InParts'
  <2> SUFFICES ASSUME NEW t \in rows'
               PROVE  GlobalInOwn(t)' /\ OwnInGlobal(t)' /\ WithheldInOwn(t)'
    BY DEF InParts
  <2>1. t \in Session /\ GlobalInOwn(t) /\ OwnInGlobal(t) /\ WithheldInOwn(t)
    BY <1>1, AgreeInParts DEF InParts, Agreeing, AgreeInv, Types, TypeOK
  <2>2. GlobalInOwn(t)'
    BY <1>1, <1>3, <2>1 DEF GlobalInOwn, Told
  <2>3. OwnInGlobal(t)'
    BY <1>1, <1>2, <1>4, <2>1 DEF OwnInGlobal, Noise, Told
  <2>4. WithheldInOwn(t)'
    BY <1>1, <1>3, <2>1 DEF WithheldInOwn, Retained
  <2> QED
    BY <2>2, <2>3, <2>4
<1> QED
  BY <1>5, <1>6, <1>7, AgreeInPartsNext DEF AgreeInv

\* The errors and the notes that only the global log gets name no session.
LEMMA GlobalOnlyAgrees ==
  ASSUME Agreeing, Types', NEW s \in Session,
         Refuse(s) \/ Lose(s) \/ Stall(s) \/ Convert(s)
  PROVE  AgreeInv'
<1>1. /\ UNCHANGED <<now, rows, pending, sessionLog, withheld>>
      /\ phase[s] \in {"acquired", "retrying", "recording", "stalled"} \cup Converting
      /\ \E next \in {"left", "stalling", "converted", "broken", "salvaged"} :
           phase' = [phase EXCEPT ![s] = next]
      /\ events \subseteq events' /\ \A e \in events' \ events : e.session = None
  <2>1. CASE Refuse(s)
    BY <2>1 DEF Refuse, At
  <2>2. CASE Lose(s)
    BY <2>2 DEF Lose, At
  <2>3. CASE Stall(s)
    BY <2>3 DEF Stall, Append, At
  <2>4. CASE Convert(s)
    <3>1. phase[s] \in Converting /\ phase' = [phase EXCEPT ![s] = Converted[phase[s]]]
      BY <2>4 DEF Convert
    <3>2. Converted[phase[s]] \in {"converted", "broken", "salvaged"}
      BY <3>1, ConversionsLead
    <3>3. /\ UNCHANGED <<now, rows, pending, sessionLog, withheld>>
          /\ events \subseteq events' /\ \A e \in events' \ events : e.session = None
      BY <2>4 DEF Convert, Append
    <3> QED
      BY <3>1, <3>2, <3>3
  <2> QED
    BY <2>1, <2>2, <2>3, <2>4
<1>2. None \notin Session
  BY LogAssumption
<1>3. InFlight'
  BY <1>1 DEF InFlight, Told, Agreeing, AgreeInv
<1>4. RowsLeft'
  <2>1. phase[s] \notin {"none", "left", "ended"}
    BY <1>1, ConversionsLead
  <2>2. phase' \in [Session -> Phase] /\ phase \in [Session -> Phase]
    BY DEF Agreeing, Types, TypeOK
  <2> QED
    BY <1>1, <2>1, <2>2 DEF RowsLeft, Agreeing, AgreeInv
<1>5. Unheard'
  <2> SUFFICES ASSUME NEW t \in Session, phase'[t] = "none"
               PROVE  t \notin rows /\ \A e \in events' \cup sessionLog \cup withheld :
                                         e.session # t
    BY <1>1 DEF Unheard
  <2>1. phase[t] = "none"
    BY <1>1 DEF Agreeing, Types, TypeOK
  <2> QED
    BY <1>1, <1>2, <2>1 DEF Unheard, Agreeing, AgreeInv
<1>6. InParts'
  <2> SUFFICES ASSUME NEW t \in rows'
               PROVE  GlobalInOwn(t)' /\ OwnInGlobal(t)' /\ WithheldInOwn(t)'
    BY DEF InParts
  <2>1. t \in Session /\ GlobalInOwn(t) /\ OwnInGlobal(t) /\ WithheldInOwn(t)
    BY <1>1, AgreeInParts DEF InParts, Agreeing, AgreeInv, Types, TypeOK
  <2>2. GlobalInOwn(t)'
    BY <1>1, <1>2, <2>1 DEF GlobalInOwn, Told
  <2>3. OwnInGlobal(t)'
    BY <1>1, <2>1 DEF OwnInGlobal, Noise, Told
  <2>4. WithheldInOwn(t)'
    BY <1>1, <2>1 DEF WithheldInOwn, Retained
  <2> QED
    BY <2>2, <2>3, <2>4
<1> QED
  BY <1>3, <1>4, <1>5, <1>6, AgreeInPartsNext DEF AgreeInv

\* Time passes while nothing is pending, so that no retention runs between the
\* two appends.
LEMMA TickAgrees ==
  ASSUME Agreeing, Types', Tick
  PROVE  AgreeInv'
<1>1. /\ now' = now + 1 /\ \A s \in Session : pending[s] = None
      /\ UNCHANGED <<phase, rows, pending, events, sessionLog, withheld>>
  BY DEF Tick
<1>2. InFlight' /\ RowsLeft' /\ Unheard'
  BY <1>1 DEF InFlight, RowsLeft, Unheard, Agreeing, AgreeInv
<1>3. \A e \in Event : Retained(e)' => Retained(e)
  BY <1>1, LogAssumption DEF Retained, Event, Agreeing, Types, TypeOK
<1>4. InParts'
  <2> SUFFICES ASSUME NEW t \in rows'
               PROVE  GlobalInOwn(t)' /\ OwnInGlobal(t)' /\ WithheldInOwn(t)'
    BY DEF InParts
  <2>1. t \in Session /\ GlobalInOwn(t) /\ OwnInGlobal(t) /\ WithheldInOwn(t)
    BY <1>1, AgreeInParts DEF InParts, Agreeing, AgreeInv, Types, TypeOK
  <2>2. GlobalInOwn(t)' /\ OwnInGlobal(t)'
    BY <1>1, <2>1 DEF GlobalInOwn, OwnInGlobal, Noise, Told
  <2>3. WithheldInOwn(t)'
    BY <1>1, <1>3, <2>1 DEF WithheldInOwn, Agreeing, Types, TypeOK
  <2> QED
    BY <2>2, <2>3
<1> QED
  BY <1>2, <1>4, AgreeInPartsNext DEF AgreeInv

\* Both logs forget by the same rule, and a pending event is too young for it.
LEMMA PruneAgrees ==
  ASSUME Agreeing, Types', Prune
  PROVE  AgreeInv'
<1>1. /\ events' = {e \in events : Retained(e)}
      /\ rows' = {s \in rows : ~Expired(s)}
      /\ sessionLog' = {e \in sessionLog : Retained(e) /\ e.session \in rows'}
      /\ UNCHANGED <<now, phase, pending, withheld>>
  BY DEF Prune
<1>2. \A e \in events : Retained(Told(e)) <=> Retained(e)
  BY ToldSession DEF Retained, Agreeing, Types, TypeOK
<1>3. \A e \in Event : e.time = now => Retained(e)
  BY LogAssumption DEF Retained, Event, Agreeing, Types, TypeOK
<1>4. \A s \in rows \ rows' : phase[s] \in {"ended", "left"} /\ pending[s] = None
  BY <1>1 DEF Expired
<1>5. InFlight'
  <2> SUFFICES ASSUME NEW s \in Session, pending[s] # None
               PROVE  LET e == pending[s].event IN
                      /\ e.session = s /\ e.id = 0 /\ e.time = now /\ s \in rows'
                      /\ pending[s].to = "session" =>
                           e \in withheld \/ \E f \in events' : Told(f) = e
    BY <1>1 DEF InFlight, Told
  <2>1. LET e == pending[s].event IN
        /\ e.session = s /\ e.id = 0 /\ e.time = now /\ s \in rows
        /\ pending[s].to = "session" => e \in withheld \/ \E f \in events : Told(f) = e
    BY DEF InFlight, Agreeing, AgreeInv
  <2>2. pending[s].event \in Event
    BY DEF Agreeing, Types, TypeOK, Pending
  <2>3. ASSUME NEW f \in events, Told(f) = pending[s].event
        PROVE  f \in events'
    BY <1>1, <1>2, <1>3, <2>1, <2>2, <2>3
  <2> QED
    BY <1>4, <2>1, <2>3
<1>6. RowsLeft'
  BY <1>1, <1>4 DEF RowsLeft, Agreeing, AgreeInv
<1>7. Unheard'
  BY <1>1 DEF Unheard, Agreeing, AgreeInv
<1>8. InParts'
  <2> SUFFICES ASSUME NEW t \in rows'
               PROVE  GlobalInOwn(t)' /\ OwnInGlobal(t)' /\ WithheldInOwn(t)'
    BY DEF InParts
  <2>1. t \in Session /\ GlobalInOwn(t) /\ OwnInGlobal(t) /\ WithheldInOwn(t)
    BY <1>1, AgreeInParts DEF InParts, Agreeing, AgreeInv, Types, TypeOK
  <2>2. GlobalInOwn(t)'
    <3> SUFFICES ASSUME NEW e \in events', e.session = t
                 PROVE  Told(e) \in sessionLog'
                        \/ (pending[t] # None /\ Told(e) = pending[t].event)
      BY <1>1 DEF GlobalInOwn, Told
    <3>1. e \in events /\ Retained(Told(e)) /\ Told(e).session = t
      BY <1>1, <1>2, ToldSession DEF Agreeing, Types, TypeOK
    <3> QED
      BY <1>1, <2>1, <3>1 DEF GlobalInOwn
  <2>3. OwnInGlobal(t)'
    <3> SUFFICES ASSUME NEW e \in sessionLog', e.session = t, ~Noise(e), e \notin withheld
                 PROVE  \E f \in events' : f.session = t /\ Told(f) = e
      BY <1>1 DEF OwnInGlobal, Told, Noise
    <3>1. e \in sessionLog /\ Retained(e)
      BY <1>1
    <3>2. PICK f \in events : f.session = t /\ Told(f) = e
      BY <2>1, <3>1 DEF OwnInGlobal
    <3> QED
      BY <1>1, <1>2, <3>1, <3>2
  <2>4. WithheldInOwn(t)'
    BY <1>1, <2>1 DEF WithheldInOwn, Retained
  <2> QED
    BY <2>2, <2>3, <2>4
<1> QED
  BY <1>5, <1>6, <1>7, <1>8, AgreeInPartsNext DEF AgreeInv

LEMMA AgreeNext == Agreeing /\ Types' /\ [Next]_vars => AgreeInv'
<1> SUFFICES ASSUME Agreeing, Types', [Next]_vars
             PROVE  AgreeInv'
  OBVIOUS
<1>1. ASSUME NEW s \in Session, SessionStep(s)
      PROVE  AgreeInv'
  BY <1>1, SessionSteps, TellingAgrees, AppendEventAgrees, AppendSessionEventAgrees,
     GlobalOnlyAgrees DEF Agreeing
<1>2. CASE UNCHANGED vars
  <2>1. UNCHANGED <<now, phase, rows, pending, events, sessionLog, withheld>>
    BY <1>2 DEF vars
  <2> QED
    BY <2>1 DEF Agreeing, AgreeInv, InFlight, RowsLeft, Unheard, LogsAgree, Told, Noise, Retained
<1> QED
  BY <1>1, <1>2, TickAgrees, PruneAgrees DEF Next

\* A kept session's own log and the global one tell the same about it, through the
\* two appends of _emit, suppression and the retention of both logs.
THEOREM BothLogsAgree == Spec => []LogsAgree
<1>1. Init => Agreeing
  BY TypesInit, AgreeInit DEF Agreeing
<1>2. Agreeing /\ [Next]_vars => Agreeing'
  BY TypesNext, AgreeNext DEF Agreeing
<1>3. Agreeing => LogsAgree
  BY DEF Agreeing, AgreeInv
<1> QED
  BY <1>1, <1>2, <1>3, PTL DEF Spec

-----------------------------------------------------------------------------
(* The global log is finite, and positions in it are positions it reached. *)

InLog ==
  /\ IsFiniteSet(events)
  /\ \A e \in events : 0 < e.id /\ e.id < nextId /\ e.mark < e.id
  /\ \A s \in Session : pending[s] # None => pending[s].event.mark < nextId

LEMMA InLogInit == Init => InLog
<1> SUFFICES ASSUME Init PROVE InLog
  OBVIOUS
<1>1. IsFiniteSet(events)
  <2>1. events = {} \/ \E e : events = {e}
    BY DEF Init
  <2> QED
    BY <2>1, FS_EmptySet, FS_Singleton
<1>2. \A e \in events : e.id = 1 /\ e.mark = 0
  BY DEF Init
<1> QED
  BY <1>1, <1>2 DEF Init, InLog

\* An event the global log alone gets is appended at once.
LEMMA GlobalOnly ==
  ASSUME NEW s \in Session, Stall(s) \/ Convert(s)
  PROVE  \E e : /\ events' = events \cup {e} /\ nextId' = nextId + 1
                /\ e.id = nextId /\ e.mark = 0 /\ e.type # "failed"
<1>1. \E type \in Type \ {"failed"}, level \in {"INFO", "ERROR"}, message \in Message :
        Append(type, level, of[s], message)
  BY MessagesAre DEF Stall, Convert, Type
<1>2. PICK type \in Type \ {"failed"}, level \in {"INFO", "ERROR"}, message \in Message :
        Append(type, level, of[s], message)
  BY <1>1
<1> DEFINE e == [id |-> nextId, mark |-> 0, time |-> now, level |-> level, type |-> type,
                 channel |-> of[s], message |-> message, category |-> None, session |-> None]
<1>3. events' = events \cup {e} /\ nextId' = nextId + 1
  BY <1>2 DEF Append
<1>4. e.id = nextId /\ e.mark = 0 /\ e.type # "failed"
  OBVIOUS
<1> QED
  BY <1>3, <1>4

LEMMA InLogNext == Types /\ Types' /\ Placed /\ InLog /\ [Next]_vars => InLog'
<1> SUFFICES ASSUME Types, Types', Placed, InLog, [Next]_vars
             PROVE  InLog'
  OBVIOUS
<1>0. /\ nextId \in Nat /\ nextId > 0
      /\ pending \in [Session -> Pending \cup {None}]
      /\ \A e \in Event : e.id \in Nat /\ e.mark \in Nat
      /\ events \subseteq Event
  BY DEF Types, TypeOK, Event
<1>1. ASSUME NEW e, events' = events \cup {e}, nextId' = nextId + 1, e.id = nextId,
             e.mark < nextId,
             \A s \in Session : pending'[s] # None => pending'[s].event.mark < nextId
      PROVE  InLog'
  <2>1. IsFiniteSet(events')
    BY <1>1, FS_AddElement DEF InLog
  <2>2. \A f \in events' : 0 < f.id /\ f.id < nextId' /\ f.mark < f.id
    BY <1>0, <1>1 DEF InLog
  <2>3. \A s \in Session : pending'[s] # None => pending'[s].event.mark < nextId'
    <3> SUFFICES ASSUME NEW s \in Session, pending'[s] # None
                 PROVE  pending'[s].event.mark < nextId'
      OBVIOUS
    <3>1. pending'[s].event.mark \in Nat
      BY DEF Types, TypeOK, Pending, Event
    <3> QED
      BY <1>0, <1>1, <3>1
  <2> QED
    BY <2>1, <2>2, <2>3 DEF InLog
<1>2. ASSUME NEW s \in Session, Telling(s)
      PROVE  InLog'
  <2>1. PICK next \in Phase \ {"none"}, type \in Type, message \in Message,
             category \in Category \cup {None} : Tell(s, next, type, message, category)
    BY <1>2 DEF Telling
  <2> DEFINE e == Made(s, of'[s], type, message, category)
  <2>2. /\ UNCHANGED <<nextId, events>>
        /\ \/ UNCHANGED pending
           \/ \E to \in {"global", "session"} :
                pending' = [pending EXCEPT ![s] = [event |-> e, to |-> to]]
    BY <2>1 DEF Tell, Made
  <2>3. e.mark < nextId
    BY <1>0 DEF Made
  <2> HIDE DEF e
  <2> QED
    BY <1>0, <2>2, <2>3 DEF InLog
<1>3. ASSUME NEW s \in Session, AppendEvent(s)
      PROVE  InLog'
  <2>1. pending[s] \in Pending
    BY <1>0, <1>3 DEF AppendEvent
  <2> DEFINE e == [pending[s].event EXCEPT !.id = nextId]
  <2>2. e.id = nextId /\ e.mark = pending[s].event.mark
    BY <2>1 DEF Pending, Event
  <2>3. /\ events' = events \cup {e} /\ nextId' = nextId + 1
        /\ pending[s] # None /\ pending' = [pending EXCEPT ![s].to = "session"]
    BY <1>3 DEF AppendEvent
  <2> HIDE DEF e
  <2>4. pending'[s].event = pending[s].event
    BY <1>0, <2>1, <2>3 DEF Pending
  <2> QED
    BY <1>0, <1>1, <2>2, <2>3, <2>4 DEF InLog
<1>4. ASSUME NEW s \in Session, AppendSessionEvent(s)
      PROVE  InLog'
  BY <1>0, <1>4 DEF AppendSessionEvent, InLog
<1>5. ASSUME NEW s \in Session, Refuse(s) \/ Lose(s)
      PROVE  InLog'
  BY <1>5 DEF Refuse, Lose, InLog
<1>6. ASSUME NEW s \in Session, Stall(s) \/ Convert(s)
      PROVE  InLog'
  <2>1. PICK e : /\ events' = events \cup {e} /\ nextId' = nextId + 1
                 /\ e.id = nextId /\ e.mark = 0
    BY <1>6, GlobalOnly
  <2>2. UNCHANGED pending
    BY <1>6 DEF Stall, Convert
  <2> QED
    BY <1>0, <1>1, <2>1, <2>2 DEF InLog
<1>7. CASE Tick \/ UNCHANGED vars
  BY <1>7 DEF Tick, vars, InLog
<1>8. CASE Prune
  <2>1. events' \subseteq events /\ UNCHANGED <<nextId, pending>>
    BY <1>8 DEF Prune
  <2>2. IsFiniteSet(events')
    BY <2>1, FS_Subset DEF InLog
  <2> QED
    BY <2>1, <2>2 DEF InLog
<1> QED
  BY <1>2, <1>3, <1>4, <1>5, <1>6, <1>7, <1>8, SessionSteps DEF Next

-----------------------------------------------------------------------------
(* An error is repeated within the window only behind the comparison's     *)
(* back.                                                                   *)

\* The newer errors of its channel that a comparison with the log up to mark saw
Behind(e, mark, log) ==
  {g \in log : /\ g.channel = e.channel /\ g.level = "ERROR"
                  /\ Newer(g, e) /\ g.id <= mark}

\* RepeatsNeedARace, of an error in the log or about to be appended to it
NeedsRace(f, log) ==
  \A e \in log :
    e.type = "failed" /\ Same(e, f) /\ f.time <= e.time + Window /\ e.id <= f.mark =>
      Cardinality(Behind(e, f.mark, log)) >= Recent

RaceInv ==
  /\ \A f \in events : f.type = "failed" => f.level = "ERROR" /\ NeedsRace(f, events)
  /\ \A s \in Session : pending[s] # None /\ pending[s].event.type = "failed" =>
       /\ pending[s].event.level = "ERROR"
       /\ pending[s].to = "global" => NeedsRace(pending[s].event, events)

LEMMA RaceInit == Init => RaceInv
<1> SUFFICES ASSUME Init PROVE RaceInv
  OBVIOUS
<1>1. \A e \in events : e.id = 1 /\ e.mark = 0 /\ e.level = "ERROR"
  BY DEF Init
<1> QED
  BY <1>1 DEF Init, RaceInv, NeedsRace

\* What was seen of the log stays seen: later events have later positions, ...
LEMMA RaceGrows ==
  ASSUME Types, InLog, NEW e, e.id = nextId, events' = events \cup {e},
         NEW f, f.mark \in Nat, f.mark < nextId, NeedsRace(f, events)
  PROVE  NeedsRace(f, events')
<1>1. \A g \in events' : g.id <= f.mark => g \in events
  BY DEF Types, TypeOK
<1>2. ASSUME NEW g \in events, g.id <= f.mark
      PROVE  Behind(g, f.mark, events') = Behind(g, f.mark, events)
  BY <1>1, <1>2 DEF Behind, Newer
<1> QED
  BY <1>1, <1>2 DEF NeedsRace, Same

\* ... and retention takes an older error first.
LEMMA RacePruned ==
  ASSUME Types, RaceInv, Prune, NEW f, NeedsRace(f, events)
  PROVE  NeedsRace(f, events')
<1>1. events' = {e \in events : Retained(e)} /\ UNCHANGED now
  BY DEF Prune
<1>2. ASSUME NEW e \in events', e.type = "failed"
      PROVE  Behind(e, f.mark, events') = Behind(e, f.mark, events)
  <2>1. e \in events /\ e.level = "ERROR" /\ now - e.time <= ErrorAge
    BY <1>1, <1>2 DEF RaceInv, Retained
  <2>2. ASSUME NEW g \in events, g.level = "ERROR", Newer(g, e)
        PROVE  g \in events'
    <3>1. g.time >= e.time /\ g.time \in Nat /\ e.time \in Nat /\ now \in Nat /\ ErrorAge \in Nat
      BY <2>1, <2>2, LogAssumption DEF Newer, Types, TypeOK, Event
    <3> QED
      BY <1>1, <2>1, <2>2, <3>1 DEF Retained
  <2> QED
    BY <1>1, <2>2 DEF Behind, Newer
<1> QED
  BY <1>1, <1>2 DEF NeedsRace, Same

LEMMA RaceStays ==
  ASSUME NEW f, NeedsRace(f, events), UNCHANGED events
  PROVE  NeedsRace(f, events')
<1>1. \A g, mark : Behind(g, mark, events') = Behind(g, mark, events)
  BY DEF Behind, Newer
<1> QED
  BY <1>1 DEF NeedsRace, Same

\* An error that is told was compared: the earlier one was not among the newest.
LEMMA ComparedErrors ==
  ASSUME Types, InLog, RaceInv, NEW e \in Event, e.level = "ERROR", ~Repeated(e),
         e.mark = nextId - 1
  PROVE  NeedsRace(e, events)
<1> SUFFICES ASSUME NEW f \in events, f.type = "failed", Same(f, e),
                    e.time <= f.time + Window
             PROVE  Cardinality(Behind(f, e.mark, events)) >= Recent
  BY DEF NeedsRace
<1>1. f \in ErrorsOf(e.channel) /\ f \notin RecentErrors(e.channel)
  BY DEF RaceInv, ErrorsOf, Same, Repeated
<1> DEFINE S == {g \in ErrorsOf(e.channel) : Newer(g, f)}
<1>2. ~(Cardinality(S) < Recent)
  BY <1>1 DEF RecentErrors, Newest
<1>3. \A g \in events : g.id <= e.mark
  BY DEF InLog, Types, TypeOK, Event
<1>4. S = Behind(f, e.mark, events)
  BY <1>3 DEF Behind, ErrorsOf, Same
<1>5. IsFiniteSet(S)
  BY FS_Subset DEF InLog, ErrorsOf
<1>6. Cardinality(S) \in Nat /\ Recent \in Nat
  BY <1>5, FS_CardinalityType, LogAssumption
<1> HIDE DEF S
<1> QED
  BY <1>2, <1>4, <1>6

LEMMA TellingRaces ==
  ASSUME Types, InLog, RaceInv, NEW s \in Session, Telling(s)
  PROVE  RaceInv'
<1>1. PICK next \in Phase \ {"none"}, type \in Type, message \in Message,
           category \in Category \cup {None} : Tell(s, next, type, message, category)
  BY DEF Telling
<1> DEFINE e == Made(s, of'[s], type, message, category)
<1>2. e \in Event /\ e.mark = nextId - 1 /\ e.type = type
      /\ e.level = (IF type = "failed" THEN "ERROR" ELSE "INFO")
  BY <1>1, MadeTyped DEF Made, Telling
<1>3. /\ UNCHANGED events
      /\ \/ UNCHANGED pending
         \/ pending' = [pending EXCEPT ![s] = [event |-> e, to |-> "session"]]
         \/ /\ pending' = [pending EXCEPT ![s] = [event |-> e, to |-> "global"]]
            /\ ~(e.level = "ERROR" /\ Repeated(e))
  BY <1>1 DEF Tell, Made
<1> HIDE DEF e
<1>4. \A f : NeedsRace(f, events) => NeedsRace(f, events')
  BY <1>3, RaceStays
<1>5. ASSUME NEW t \in Session, pending'[t] # None, pending'[t].event.type = "failed"
      PROVE  /\ pending'[t].event.level = "ERROR"
             /\ pending'[t].to = "global" => NeedsRace(pending'[t].event, events')
  <2>1. pending \in [Session -> Pending \cup {None}]
    BY DEF Types, TypeOK
  <2>2. CASE pending'[t] = pending[t]
    BY <1>4, <1>5, <2>2 DEF RaceInv
  <2>3. CASE pending'[t] # pending[t]
    <3>1. /\ pending'[t].event = e
          /\ pending'[t].to = "global" => ~(e.level = "ERROR" /\ Repeated(e))
      BY <1>3, <2>1, <2>3
    <3>2. e.level = "ERROR"
      BY <1>2, <1>5, <3>1
    <3>3. pending'[t].to = "global" => NeedsRace(e, events)
      BY <1>2, <3>1, <3>2, ComparedErrors
    <3> QED
      BY <1>4, <3>1, <3>2, <3>3
  <2> QED
    BY <2>2, <2>3
<1>6. \A f \in events' : f.type = "failed" => f.level = "ERROR" /\ NeedsRace(f, events')
  BY <1>3, <1>4 DEF RaceInv
<1> QED
  BY <1>5, <1>6 DEF RaceInv

LEMMA AppendEventRaces ==
  ASSUME Types, InLog, RaceInv, NEW s \in Session, AppendEvent(s)
  PROVE  RaceInv'
<1>0. pending \in [Session -> Pending \cup {None}] /\ events \subseteq Event /\ nextId \in Nat
  BY DEF Types, TypeOK
<1>1. pending[s] \in Pending
  BY <1>0 DEF AppendEvent
<1> DEFINE p == pending[s].event
           e == [p EXCEPT !.id = nextId]
<1>2. /\ p \in Event /\ p.mark \in Nat /\ p.mark < nextId
      /\ e.id = nextId /\ e.mark = p.mark /\ e.type = p.type /\ e.level = p.level
      /\ e.time = p.time /\ e.message = p.message /\ e.category = p.category
      /\ e.channel = p.channel
  BY <1>1 DEF Pending, Event, InLog, AppendEvent
<1>3. /\ events' = events \cup {e} /\ pending[s] # None /\ pending[s].to = "global"
      /\ pending' = [pending EXCEPT ![s].to = "session"]
  BY DEF AppendEvent
<1> HIDE DEF e
<1>4. \A f : f.mark \in Nat /\ f.mark < nextId /\ NeedsRace(f, events) => NeedsRace(f, events')
  BY <1>2, <1>3, RaceGrows
<1>5. pending'[s].event = p /\ pending'[s].to = "session"
      /\ \A t \in Session : t # s => pending'[t] = pending[t]
  BY <1>0, <1>1, <1>3 DEF Pending
<1>6. \A t \in Session : pending[t] # None => pending[t].event.mark \in Nat
                                              /\ pending[t].event.mark < nextId
  BY <1>0 DEF InLog, Pending, Event
<1>7. \A t \in Session : pending'[t] # None /\ pending'[t].event.type = "failed" =>
        /\ pending'[t].event.level = "ERROR"
        /\ pending'[t].to = "global" => NeedsRace(pending'[t].event, events')
  BY <1>3, <1>4, <1>5, <1>6 DEF RaceInv
<1>8. ASSUME e.type = "failed"
      PROVE  e.level = "ERROR" /\ NeedsRace(e, events')
  <2>1. p.type = "failed" /\ p.level = "ERROR" /\ NeedsRace(p, events)
    BY <1>2, <1>3, <1>8 DEF RaceInv
  <2>2. NeedsRace(p, events')
    BY <1>2, <1>4, <2>1
  <2> HIDE DEF p
  <2>3. NeedsRace(e, events')
    BY <1>2, <2>2 DEF NeedsRace, Same
  <2> QED
    BY <1>2, <2>1, <2>3
<1>9. ASSUME NEW f \in events, f.type = "failed"
      PROVE  f.level = "ERROR" /\ NeedsRace(f, events')
  <2>1. f.mark \in Nat /\ f.mark < nextId
    BY <1>0 DEF InLog, Event
  <2> QED
    BY <1>4, <1>9, <2>1 DEF RaceInv
<1> QED
  BY <1>3, <1>7, <1>8, <1>9 DEF RaceInv

LEMMA RaceNext == Types /\ Placed /\ InLog /\ RaceInv /\ [Next]_vars => RaceInv'
<1> SUFFICES ASSUME Types, Placed, InLog, RaceInv, [Next]_vars
             PROVE  RaceInv'
  OBVIOUS
<1>0. pending \in [Session -> Pending \cup {None}] /\ events \subseteq Event
  BY DEF Types, TypeOK
<1>1. ASSUME UNCHANGED events,
             \A t \in Session : pending'[t] # None => pending'[t] = pending[t]
      PROVE  RaceInv'
  BY <1>1, RaceStays DEF RaceInv
<1>2. ASSUME NEW s \in Session, AppendSessionEvent(s) \/ Refuse(s) \/ Lose(s)
      PROVE  RaceInv'
  BY <1>0, <1>1, <1>2 DEF AppendSessionEvent, Refuse, Lose
<1>3. ASSUME NEW s \in Session, Stall(s) \/ Convert(s)
      PROVE  RaceInv'
  <2>1. PICK e : /\ events' = events \cup {e} /\ e.id = nextId
                 /\ e.type # "failed"
    BY <1>3, GlobalOnly
  <2>2. UNCHANGED pending
    BY <1>3 DEF Stall, Convert
  <2>3. \A f : f.mark \in Nat /\ f.mark < nextId /\ NeedsRace(f, events) => NeedsRace(f, events')
    BY <2>1, RaceGrows
  <2>4. \A f \in events : f.mark \in Nat /\ f.mark < nextId
    BY <1>0 DEF InLog, Event, Types, TypeOK
  <2>5. \A t \in Session : pending[t] # None => pending[t].event.mark \in Nat
                                                /\ pending[t].event.mark < nextId
    BY <1>0 DEF InLog, Pending, Event
  <2> QED
    BY <2>1, <2>2, <2>3, <2>4, <2>5 DEF RaceInv
<1>4. CASE Tick \/ UNCHANGED vars
  BY <1>1, <1>4 DEF Tick, vars
<1>5. CASE Prune
  <2>1. events' \subseteq events /\ UNCHANGED pending
    BY <1>5 DEF Prune
  <2> QED
    BY <1>5, <2>1, RacePruned DEF RaceInv
<1> QED
  BY <1>2, <1>3, <1>4, <1>5, SessionSteps, TellingRaces, AppendEventRaces DEF Next

\* Within the window an error is repeated in the global log only when the first was
\* appended after the comparison, or was no longer among the errors it compares
\* with: retention and the other handlers never hide it
\* (_should_suppress_global_event, _emit).
THEOREM RepeatsRaced == Spec => []RepeatsNeedARace
<1>1. Types /\ InLog /\ RaceInv => RepeatsNeedARace
  <2> SUFFICES ASSUME Types, InLog, RaceInv, NEW e \in events, NEW f \in events,
                      e.type = "failed", f.type = "failed", Same(e, f),
                      f.time <= e.time + Window
               PROVE  \/ e.id > f.mark
                      \/ Cardinality({g \in events : g.channel = e.channel /\ g.level = "ERROR"
                                                     /\ Newer(g, e) /\ g.id <= f.mark}) >= Recent
    BY DEF RepeatsNeedARace
  <2>1. e.id \in Nat /\ f.mark \in Nat
    BY DEF Types, TypeOK, Event
  <2> QED
    BY <2>1 DEF RaceInv, NeedsRace, Behind
<1>2. Types /\ Placed /\ [Next]_vars => Types' /\ Placed'
  BY TypesNext
<1> QED
  BY <1>1, <1>2, TypesInit, InLogInit, InLogNext, RaceInit, RaceNext, PTL DEF Spec

-----------------------------------------------------------------------------
(* No false alarm.                                                         *)

\* What the dashboard takes for a source or an authentication issue.  The words
\* of a check that resolves a source would be among them: they are noise.
Blames(message, category) ==
  \/ message \in {"resolution", "salvaging", "missing", "login"}
  \/ category \in {"source_unstable", "auth_invalid"}

Sound(row) == row.status # "error" /\ row.error \notin {"missing", "login"}

\* Only a channel something went wrong with has an error of its own, events that
\* blame it, a session with a failure's category, or one that salvages a file.
ChannelsSound == \A c \in Channel \ failed : Sound(chan[c])
EventsSound == \A e \in events : e.channel \notin failed => ~Blames(e.message, e.category)
PendingSound ==
  \A s \in Session : pending[s] # None /\ pending[s].event.channel \notin failed =>
    ~Blames(pending[s].event.message, pending[s].event.category)
SessionsSound ==
  \A s \in Session :
    /\ sticky[s] # None => phase[s] # "none" /\ of[s] \in failed
    /\ phase[s] \in {"salvaging", "salvaged"} => of[s] \in failed

AlarmInv == ChannelsSound /\ EventsSound /\ PendingSound /\ SessionsSound

LEMMA AlarmInit == Init => AlarmInv
<1> SUFFICES ASSUME Init PROVE AlarmInv
  OBVIOUS
<1>1. ChannelsSound
  BY NoneAssumption, MessagesAre DEF Init, ChannelsSound, Sound
<1>2. EventsSound
  BY DEF Init, EventsSound
<1>3. PendingSound /\ SessionsSound
  BY DEF Init, PendingSound, SessionsSound
<1> QED
  BY <1>1, <1>2, <1>3 DEF AlarmInv

\* An event that is told blames no channel but one that failed, or is noise.
LEMMA TellSound ==
  ASSUME Types, AlarmInv, NEW s \in Session, NEW next \in Phase, NEW type \in Type,
         NEW message \in Message, NEW category \in Category \cup {None},
         Tell(s, next, type, message, category), failed \subseteq failed',
         \/ of'[s] \in failed' \/ type = "probing"
         \/ sticky[s] = None /\ ~Blames(message, category)
  PROVE  EventsSound' /\ PendingSound'
<1> DEFINE e == Made(s, of'[s], type, message, category)
<1>1. /\ e.message = message /\ e.type = type /\ e.channel = of'[s]
      /\ e.category = IF category = None THEN sticky[s] ELSE category
      /\ e.level = IF type = "failed" THEN "ERROR" ELSE "INFO"
  BY DEF Made
<1>2. /\ UNCHANGED events
      /\ \/ UNCHANGED pending
         \/ /\ ~(e.level = "INFO" /\ Noise(e))
            /\ \E to \in {"global", "session"} :
                 pending' = [pending EXCEPT ![s] = [event |-> e, to |-> to]]
  BY DEF Tell, Made
<1> HIDE DEF e
<1>3. EventsSound'
  BY <1>2 DEF EventsSound, AlarmInv
<1>4. CASE UNCHANGED pending
  BY <1>3, <1>4 DEF PendingSound, AlarmInv
<1>5. CASE /\ ~(e.level = "INFO" /\ Noise(e))
           /\ \E to \in {"global", "session"} :
                pending' = [pending EXCEPT ![s] = [event |-> e, to |-> to]]
  <2>1. type # "probing"
    BY <1>1, <1>5 DEF Noise
  <2>2. e.channel \notin failed' => ~Blames(e.message, e.category)
    BY <1>1, <2>1 DEF Blames
  <2>3. \A t \in Session : pending'[t] # None => pending'[t].event = e \/ pending'[t] = pending[t]
    BY <1>5 DEF Types, TypeOK
  <2>4. PendingSound'
    BY <2>2, <2>3 DEF PendingSound, AlarmInv
  <2> QED
    BY <1>3, <2>4
<1> QED
  BY <1>2, <1>4, <1>5

LEMMA PutSound ==
  ASSUME Types, AlarmInv, NEW s \in Session, of[s] \in Channel,
         NEW status, NEW pid, NEW error, Put(s, status, pid, error), failed \subseteq failed',
         of[s] \in failed' \/ (status # "error" /\ error \notin {"missing", "login"})
  PROVE  ChannelsSound'
BY DEF Put, ChannelsSound, Sound, AlarmInv, Types, TypeOK

LEMMA ChannelsKept ==
  ASSUME AlarmInv, UNCHANGED chan, failed \subseteq failed'
  PROVE  ChannelsSound'
BY DEF ChannelsSound, AlarmInv

LEMMA SessionsKept ==
  ASSUME Types, AlarmInv, NEW s \in Session, UNCHANGED of, failed \subseteq failed',
         NEW next, phase' = [phase EXCEPT ![s] = next], next # "none",
         next \in {"salvaging", "salvaged"} => of[s] \in failed',
         sticky' = sticky \/ (of[s] \in failed /\ \E x : sticky' = [sticky EXCEPT ![s] = x])
  PROVE  SessionsSound'
BY DEF SessionsSound, AlarmInv, Types, TypeOK

\* A step that leaves the session with its channel, and tells.
LEMMA TalkSound ==
  ASSUME Types, Placed, AlarmInv, NEW s \in Session, UNCHANGED of, failed \subseteq failed',
         phase[s] # "none", NEW next \in Phase \ {"none"}, NEW type \in Type,
         NEW message \in Message, NEW category \in Category \cup {None},
         Tell(s, next, type, message, category),
         of[s] \in failed' \/ type = "probing" \/ ~Blames(message, category),
         next \in {"salvaging", "salvaged"} => of[s] \in failed',
         sticky' = sticky \/ (of[s] \in failed /\ \E x : sticky' = [sticky EXCEPT ![s] = x]),
         \/ UNCHANGED chan \/ ChannelsSound'
         \/ \E status, pid, error :
              /\ Put(s, status, pid, error)
              /\ of[s] \in failed' \/ (status # "error" /\ error \notin {"missing", "login"})
  PROVE  AlarmInv'
<1>1. sticky[s] = None \/ of[s] \in failed'
  BY DEF AlarmInv, SessionsSound
<1>2. EventsSound' /\ PendingSound'
  BY <1>1, TellSound
<1>3. of[s] \in Channel
  BY DEF Placed
<1>4. ChannelsSound'
  BY <1>3, PutSound, ChannelsKept
<1>5. phase' = [phase EXCEPT ![s] = next]
  BY DEF Tell
<1>6. SessionsSound'
  BY <1>5, SessionsKept
<1> QED
  BY <1>2, <1>4, <1>6 DEF AlarmInv

LEMMA OpenSound ==
  ASSUME Types, AlarmInv, NEW s \in Session, NEW c \in Channel, Open(s, c)
  PROVE  AlarmInv'
<1>1. /\ phase[s] = "none" /\ of' = [of EXCEPT ![s] = c]
      /\ chan' = [chan EXCEPT ![c].status = "checking"]
      /\ Tell(s, "opened", "started", "started", None)
      /\ UNCHANGED <<sticky, failed>>
  BY DEF Open, At
<1>2. sticky[s] = None
  BY <1>1 DEF AlarmInv, SessionsSound
<1>3. EventsSound' /\ PendingSound'
  <2>1. "opened" \in Phase /\ "started" \in Type /\ "started" \in Message
    BY MessagesAre DEF Phase, Type
  <2>2. ~Blames("started", None)
    BY NoneAssumption DEF Blames, Category
  <2> QED
    BY <1>1, <1>2, <2>1, <2>2, TellSound
<1>4. ChannelsSound'
  BY <1>1 DEF ChannelsSound, Sound, AlarmInv, Types, TypeOK
<1>5. phase' = [phase EXCEPT ![s] = "opened"]
  BY <1>1 DEF Tell
<1>6. SessionsSound'
  BY <1>1, <1>2, <1>5 DEF SessionsSound, AlarmInv, Types, TypeOK
<1> QED
  BY <1>3, <1>4, <1>6 DEF AlarmInv

LEMMA HandlersSound ==
  ASSUME Types, Placed, AlarmInv, NEW s \in Session,
         \/ Resolve(s) \/ Acquire(s) \/ Unavailable(s) \/ Reject(s) \/ Launch(s)
         \/ StallFail(s) \/ Finish(s) \/ Complete(s) \/ Break(s) \/ Retry(s)
         \/ Recover(s) \/ Recovered(s)
  PROVE  AlarmInv'
<1> USE MessagesAre
<1>0. /\ \A x \in {"probing", "source_resolution", "source_acquired", "recording", "converting",
                   "retry", "recovering", "completed", "aborted", "failed"} : x \in Type
      /\ \A x \in {"probing", "resolving", "acquired", "recording", "stalled", "converting",
                   "breaking", "salvaging", "retrying", "recovering", "ended"} :
           x \in Phase \ {"none"}
      /\ {"unknown", "process_failure", "source_unstable"} \subseteq Category
  BY DEF Type, Phase, Category
<1>1. /\ \A m \in Message \ {"resolution", "salvaging", "missing", "login"},
            k \in {None, "unknown", "process_failure"} : ~Blames(m, k)
      /\ Excuse \subseteq Message \ {"resolution", "salvaging", "missing", "login"}
      /\ None \notin {"missing", "login"}
  BY NoneAssumption, SampleAssumption DEF Blames, Category
<1>2. phase[s] # "none" => of[s] \in Channel
  BY DEF Placed
<1>3. CASE Resolve(s)
  BY <1>0, <1>1, <1>3, TalkSound DEF Resolve, At
<1>4. CASE Acquire(s)
  BY <1>0, <1>1, <1>4, TalkSound DEF Acquire, At
<1>5. CASE Unavailable(s)
  <2>1. /\ phase[s] # "none" /\ UNCHANGED <<of, sticky, failed>>
        /\ Put(s, "idle", chan[of[s]].pid, None)
    BY <1>5 DEF Unavailable, At
  <2>2. PICK m \in Excuse : Tell(s, "ended", "aborted", m, None)
    BY <1>5 DEF Unavailable
  <2>3. m \in Message /\ ~Blames(m, None)
    BY <1>1
  <2>4. ChannelsSound'
    BY <1>1, <1>2, <2>1, PutSound
  <2> QED
    BY <1>0, <2>1, <2>2, <2>3, <2>4, TalkSound
<1>6. CASE Reject(s)
  <2>1. PICK f \in Failure : /\ Put(s, "error", chan[of[s]].pid, f.message)
                             /\ Tell(s, "ended", "failed", f.message, f.category)
    BY <1>6 DEF Reject
  <2>2. phase[s] # "none" /\ UNCHANGED <<of, sticky>> /\ failed' = failed \cup {of[s]}
    BY <1>6 DEF Reject, At, Fails
  <2> QED
    BY <1>0, <2>1, <2>2, SamplesTyped, TalkSound
<1>7. CASE Launch(s)
  <2>1. /\ phase[s] # "none" /\ UNCHANGED <<of, sticky, failed>>
        /\ Put(s, "recording", TRUE, None)
        /\ Tell(s, "recording", "recording", "recording", None)
    BY <1>7 DEF Launch, At
  <2>2. ~Blames("recording", None)
    BY <1>1
  <2>3. ChannelsSound'
    BY <1>1, <1>2, <2>1, PutSound
  <2> QED
    BY <1>0, <2>1, <2>2, <2>3, TalkSound
<1>8. CASE StallFail(s)
  BY <1>0, <1>1, <1>8, TalkSound DEF StallFail, At
<1>9. CASE Finish(s)
  <2>1. phase[s] # "none" /\ UNCHANGED <<of, sticky>> /\ Put(s, "idle", FALSE, None)
    BY <1>9 DEF Finish, At
  <2>2. CASE /\ \/ Tell(s, "converting", "converting", "converting", None)
                \/ \E m \in Excuse : Tell(s, "ended", "aborted", m, None)
             /\ UNCHANGED failed
    <3>0. ChannelsSound' /\ ~Blames("converting", None)
      BY <1>1, <1>2, <2>1, <2>2, PutSound
    <3>1. CASE Tell(s, "converting", "converting", "converting", None)
      BY <1>0, <2>1, <2>2, <3>0, <3>1, TalkSound
    <3>2. ASSUME NEW m \in Excuse, Tell(s, "ended", "aborted", m, None)
          PROVE  AlarmInv'
      <4>1. m \in Message /\ ~Blames(m, None)
        BY <1>1
      <4> QED
        BY <1>0, <2>1, <2>2, <3>0, <3>2, <4>1, TalkSound
    <3> QED
      BY <2>2, <3>1, <3>2
  <2>3. CASE /\ \/ Tell(s, "breaking", "converting", "converting", None)
                \/ Tell(s, "salvaging", "converting", "salvaging", None)
             /\ failed' = failed \cup {of[s]}
    BY <1>0, <2>1, <2>3, TalkSound
  <2> QED
    BY <1>9, <2>2, <2>3 DEF Finish, Fails
<1>10. CASE Complete(s)
  BY <1>0, <1>1, <1>10, TalkSound DEF Complete, At
<1>11. CASE Break(s)
  <2>1. PICK f \in Failure : /\ Put(s, "error", FALSE, f.message)
                             /\ Tell(s, "ended", "failed", f.message, f.category)
    BY <1>11 DEF Break
  <2>2. phase[s] # "none" /\ UNCHANGED <<of, sticky>> /\ failed' = failed \cup {of[s]}
    BY <1>11 DEF Break, At, Fails
  <2> QED
    BY <1>0, <2>1, <2>2, SamplesTyped, TalkSound
<1>12. CASE Retry(s)
  <2>1. /\ phase[s] = "salvaged" /\ UNCHANGED <<of, chan, failed>>
        /\ sticky' = [sticky EXCEPT ![s] = "source_unstable"]
        /\ Tell(s, "retrying", "retry", "missing", "source_unstable")
    BY <1>12 DEF Retry, At
  <2>2. of[s] \in failed
    BY <2>1 DEF AlarmInv, SessionsSound
  <2> QED
    BY <1>0, <2>1, <2>2, TalkSound
<1>13. CASE Recover(s)
  BY <1>0, <1>1, <1>13, TalkSound DEF Recover, At
<1>14. CASE Recovered(s)
  <2>1. /\ phase[s] = "recovering" /\ UNCHANGED <<of, sticky, failed>>
        /\ Put(s, "idle", FALSE, chan[of[s]].error)
        /\ \E t \in {"completed", "aborted"} : Tell(s, "ended", t, "recovered", None)
    BY <1>14 DEF Recovered, At
  <2>2. of[s] \in failed' \/ chan[of[s]].error \notin {"missing", "login"}
    BY <2>1 DEF AlarmInv, ChannelsSound, Sound, Placed
  <2>3. PICK t \in {"completed", "aborted"} : Tell(s, "ended", t, "recovered", None)
    BY <2>1
  <2>4. ~Blames("recovered", None)
    BY <1>1
  <2>5. ChannelsSound'
    BY <1>2, <2>1, <2>2, PutSound
  <2> QED
    BY <1>0, <2>1, <2>3, <2>4, <2>5, TalkSound
<1> QED
  BY <1>3, <1>4, <1>5, <1>6, <1>7, <1>8, <1>9, <1>10, <1>11, <1>12, <1>13, <1>14

LEMMA AlarmNext == Types /\ Placed /\ AlarmInv /\ [Next]_vars => AlarmInv'
<1> SUFFICES ASSUME Types, Placed, AlarmInv, [Next]_vars
             PROVE  AlarmInv'
  OBVIOUS
<1>0. /\ pending \in [Session -> Pending \cup {None}] /\ events \subseteq Event
      /\ phase \in [Session -> Phase]
  BY DEF Types, TypeOK
<1>1. ASSUME NEW s \in Session, AppendEvent(s)
      PROVE  AlarmInv'
  <2>1. pending[s] \in Pending
    BY <1>0, <1>1 DEF AppendEvent
  <2> DEFINE p == pending[s].event
             e == [p EXCEPT !.id = nextId]
  <2>2. e.channel = p.channel /\ e.message = p.message /\ e.category = p.category
    BY <2>1 DEF Pending, Event
  <2>3. /\ events' = events \cup {e} /\ pending[s] # None
        /\ pending' = [pending EXCEPT ![s].to = "session"]
        /\ UNCHANGED <<chan, phase, of, sticky, failed>>
    BY <1>1 DEF AppendEvent
  <2> HIDE DEF e
  <2>4. EventsSound'
    BY <2>2, <2>3 DEF EventsSound, PendingSound, AlarmInv
  <2> HIDE DEF p
  <2>5. \A t \in Session : pending'[t] # None =>
          pending[t] # None /\ pending'[t].event = pending[t].event
    BY <1>0, <2>1, <2>3 DEF Pending
  <2>6. PendingSound'
    BY <2>3, <2>5 DEF PendingSound, AlarmInv
  <2>7. ChannelsSound' /\ SessionsSound'
    BY <2>3 DEF ChannelsSound, SessionsSound, AlarmInv
  <2> QED
    BY <2>4, <2>6, <2>7 DEF AlarmInv
<1>2. ASSUME NEW s \in Session, AppendSessionEvent(s)
      PROVE  AlarmInv'
  BY <1>0, <1>2 DEF AppendSessionEvent, AlarmInv, ChannelsSound, EventsSound, PendingSound,
     SessionsSound
<1>3. ASSUME NEW s \in Session, Refuse(s) \/ Lose(s)
      PROVE  AlarmInv'
  <2>1. /\ UNCHANGED <<of, sticky, pending, events>> /\ failed \subseteq failed'
        /\ \E status \in {"idle", "recording"}, pid \in BOOLEAN \cup {chan[of[s]].pid} :
             Put(s, status, pid, None)
        /\ phase[s] # "none"
        /\ \E next : /\ phase' = [phase EXCEPT ![s] = next] /\ next # "none"
                     /\ next \in {"salvaging", "salvaged"} => of[s] \in failed'
    BY <1>3 DEF Refuse, Lose, Fails, At
  <2>2. of[s] \in Channel /\ None \notin {"missing", "login"}
    BY <2>1, NoneAssumption, MessagesAre DEF Placed
  <2>3. ChannelsSound'
    BY <2>1, <2>2, PutSound
  <2>4. SessionsSound'
    BY <2>1, SessionsKept
  <2>5. EventsSound' /\ PendingSound'
    BY <2>1 DEF EventsSound, PendingSound, AlarmInv
  <2> QED
    BY <2>3, <2>4, <2>5 DEF AlarmInv
<1>4. ASSUME NEW s \in Session, Stall(s) \/ Convert(s)
      PROVE  AlarmInv'
  <2>1. /\ UNCHANGED <<chan, of, sticky, pending>> /\ failed \subseteq failed'
        /\ \E message \in {"stalled", "converted", "unconverted"} :
             \A e \in events' : e \in events \/ (e.message = message /\ e.category = None)
    BY <1>4 DEF Stall, Convert, Fails, Append
  <2>2. \A m \in {"stalled", "converted", "unconverted"} : ~Blames(m, None)
    BY NoneAssumption DEF Blames, Category
  <2>3. EventsSound' /\ PendingSound' /\ ChannelsSound'
    BY <2>1, <2>2 DEF EventsSound, PendingSound, ChannelsSound, AlarmInv
  <2>4. CASE Stall(s)
    BY <2>1, <2>3, <2>4, SessionsKept DEF Stall, AlarmInv
  <2>5. CASE Convert(s)
    <3>1. /\ phase[s] \in Converting /\ phase' = [phase EXCEPT ![s] = Converted[phase[s]]]
          /\ Converted[phase[s]] \in {"converted", "broken", "salvaged"}
          /\ Converted[phase[s]] = "salvaged" => phase[s] = "salvaging"
      BY <2>5, ConversionsLead DEF Convert, Converted, Converting
    <3>2. phase[s] = "salvaging" => of[s] \in failed'
      BY <2>1 DEF SessionsSound, AlarmInv
    <3>3. SessionsSound'
      BY <2>1, <3>1, <3>2, SessionsKept
    <3> QED
      BY <2>3, <3>3 DEF AlarmInv
  <2> QED
    BY <1>4, <2>4, <2>5
<1>5. CASE Tick \/ Prune \/ UNCHANGED vars
  <2>1. events' \subseteq events /\ UNCHANGED <<chan, phase, of, sticky, pending, failed>>
    BY <1>5 DEF Tick, Prune, vars
  <2> QED
    BY <2>1 DEF AlarmInv, ChannelsSound, EventsSound, PendingSound, SessionsSound
<1> QED
  BY <1>1, <1>2, <1>3, <1>4, <1>5, OpenSound, HandlersSound DEF Next, SessionStep

\* A nonempty set of numbers has a least one.
LEMMA LeastOf ==
  ASSUME NEW N, N \subseteq Nat, N # {}
  PROVE  \E m \in N : \A k \in N : m <= k
<1>1. PICK m \in N : \A k \in N : <<k, m>> \notin OpToRel(<, Nat)
  BY WFMin, NatLessThanWellFounded, Zenon
<1>2. \A k \in N : ~(k < m)
  BY <1>1, Zenon DEF OpToRel
<1> QED
  BY <1>2

\* Events have a newest among them: the latest ones, and of these the last.
LEMMA NewestExists ==
  ASSUME Types, InLog, NEW S, S \subseteq events, S # {}
  PROVE  \E e \in S : \A f \in S : ~Newer(f, e)
<1>0. /\ \A e \in S : e.time \in Nat /\ e.time <= MaxTime /\ e.id \in Nat /\ e.id < nextId
      /\ MaxTime \in Nat /\ nextId \in Nat
  BY LogAssumption DEF InLog, Types, TypeOK, Event
<1> DEFINE Ages == {MaxTime - e.time : e \in S}
<1>1. Ages \subseteq Nat /\ Ages # {}
  BY <1>0
<1>2. PICK a \in Ages : \A b \in Ages : a <= b
  <2> HIDE DEF Ages
  <2> QED
    BY <1>1, LeastOf
<1>3. PICK d \in S : \A f \in S : f.time <= d.time
  <2>1. PICK d \in S : a = MaxTime - d.time
    OBVIOUS
  <2>2. ASSUME NEW f \in S
        PROVE  f.time <= d.time
    <3>1. MaxTime - d.time <= MaxTime - f.time
      BY <1>2, <2>1
    <3> QED
      BY <1>0, <3>1
  <2> QED
    BY <2>2
<1> DEFINE T == {e \in S : e.time = d.time}
           Ranks == {nextId - e.id : e \in T}
<1>4. Ranks \subseteq Nat /\ Ranks # {}
  BY <1>0
<1>5. PICK r \in Ranks : \A q \in Ranks : r <= q
  <2> HIDE DEF Ranks
  <2> QED
    BY <1>4, LeastOf
<1>6. PICK e \in T : \A f \in T : f.id <= e.id
  <2>1. PICK e \in T : r = nextId - e.id
    OBVIOUS
  <2>2. ASSUME NEW f \in T
        PROVE  f.id <= e.id
    <3>1. nextId - e.id <= nextId - f.id
      BY <1>5, <2>1
    <3> QED
      BY <1>0, <3>1
  <2> QED
    BY <2>2
<1>7. \A f \in S : ~Newer(f, e)
  BY <1>0, <1>3, <1>6 DEF Newer
<1> QED
  BY <1>7

LEMMA LatestSeen ==
  ASSUME Types, InLog, NEW c
  PROVE  Latest(c) = None \/ (Latest(c) \in events /\ Latest(c).channel = c)
<1> DEFINE mine == {e \in Seen : e.channel = c}
<1>1. mine \subseteq events
  BY DEF Seen, Newest
<1>2. Latest(c) = IF mine = {} THEN None ELSE CHOOSE e \in mine : \A f \in mine : ~Newer(f, e)
  BY DEF Latest
<1>3. CASE mine = {}
  BY <1>2, <1>3
<1>4. CASE mine # {}
  <2>1. \E e \in mine : \A f \in mine : ~Newer(f, e)
    <3> HIDE DEF mine
    <3> QED
      BY <1>1, <1>4, NewestExists
  <2>2. Latest(c) \in mine
    BY <1>2, <1>4, <2>1
  <2> QED
    BY <1>1, <2>2
<1> QED
  BY <1>3, <1>4

\* The phrases the dashboard looks for, by the messages that hold them
LEMMA Phrases ==
  /\ \A m \in Message : "404" \in Says[m] => m = "missing"
  /\ \A m \in Message : "auth" \in Says[m] => m = "login"
  /\ \A m \in Message : "source" \in Says[m] => m \in {"resolution", "salvaging", "missing"}
BY MessagesAre DEF Says

\* A channel nothing ever went wrong with is not shown as faulty, and is counted
\* neither among the source nor among the authentication issues: no routine event,
\* refused retry, stop or recovery reads like a failure (_channel_status_from_event,
\* _infer_failure_category).
THEOREM NoFalseAlarms == Spec => []NoFalseAlarm
<1>1. Types /\ InLog /\ AlarmInv => NoFalseAlarm
  <2> SUFFICES ASSUME Types, InLog, AlarmInv, NEW c \in Channel, c \notin failed
               PROVE  Detail(c) \notin Bad /\ ~SourceIssue(c) /\ ~AuthIssue(c)
    BY DEF NoFalseAlarm
  <2>1. /\ chan[c].status # "error" /\ chan[c].error \notin {"missing", "login"}
        /\ chan[c].error \in Message \cup {None}
    BY DEF AlarmInv, ChannelsSound, Sound, Types, TypeOK
  <2>2. ASSUME Latest(c) # None
        PROVE  /\ ~Blames(Latest(c).message, Latest(c).category)
               /\ Latest(c).message \in Message
               /\ Latest(c).message \notin {"resolution", "salvaging", "missing", "login"}
               /\ Latest(c).category \notin {"source_unstable", "auth_invalid"}
    <3>1. Latest(c) \in events /\ Latest(c).channel = c
      BY <2>2, LatestSeen
    <3>2. Latest(c).message \in Message
      BY <3>1 DEF Types, TypeOK, Event
    <3>3. ~Blames(Latest(c).message, Latest(c).category)
      BY <3>1 DEF AlarmInv, EventsSound
    <3> QED
      BY <3>2, <3>3 DEF Blames
  <2>3. "404" \notin Texts(c) /\ "auth" \notin Texts(c)
    BY <2>1, <2>2, Phrases DEF Texts, SaysOf
  <2>4. Detail(c) \notin Bad
    <3> DEFINE order == <<"password", "private", "404", "auth", "offline">>
               shown == <<"Password protected", "Private show", "Source unstable", "Auth issue",
                          "Offline">>
               found == {i \in 1..5 : order[i] \in Texts(c)}
    <3>1. Detail(c) = IF chan[c].status = "recording" THEN "Online"
                      ELSE IF found # {} THEN shown[CHOOSE i \in found : \A j \in found : i <= j]
                      ELSE IF chan[c].status = "error" THEN "Error" ELSE "Offline"
      BY DEF Detail
    <3>2. found \subseteq {1, 2, 5}
      BY <2>3
    <3>3. ASSUME found # {}
          PROVE  (CHOOSE i \in found : \A j \in found : i <= j) \in {1, 2, 5}
      <4>1. \E i \in found : \A j \in found : i <= j
        <5>1. found \subseteq Nat
          BY <3>2
        <5> HIDE DEF found
        <5> QED
          BY <3>3, <5>1, LeastOf
      <4> QED
        BY <3>2, <4>1
    <3>4. /\ shown[1] = "Password protected" /\ shown[2] = "Private show"
          /\ shown[5] = "Offline"
      OBVIOUS
    <3> HIDE DEF found, shown
    <3> QED
      BY <2>1, <3>1, <3>3, <3>4 DEF Bad
  <2>5. FailureCategory(c) \notin {"source_unstable", "auth_invalid"}
    <3>1. CASE Latest(c) = None
      BY <3>1, NoneAssumption DEF FailureCategory, Category
    <3>2. CASE Latest(c) # None
      <4>1. Says[Latest(c).message] \cap {"source", "404", "auth"} = {}
        BY <2>2, <3>2, Phrases
      <4> QED
        BY <2>2, <3>2, <4>1, NoneAssumption DEF FailureCategory, Category
    <3> QED
      BY <3>1, <3>2
  <2> QED
    BY <2>4, <2>5 DEF SourceIssue, AuthIssue
<1>2. Types /\ Placed /\ [Next]_vars => Types' /\ Placed'
  BY TypesNext
<1> QED
  BY <1>1, <1>2, TypesInit, InLogInit, InLogNext, AlarmInit, AlarmNext, PTL DEF Spec

-----------------------------------------------------------------------------
(* The list of recent sessions.                                            *)

\* While the list has room for the channels that record it shows them, however many
\* others have news: a recording one sorts before every one that does not
\* (_sort_session_snapshot).
THEOREM ActiveAreListed == Spec => []ActiveListed
<1>1. Types => ActiveListed
  <2> DEFINE Active == {d \in Channel : IsActive(d)}
  <2> SUFFICES ASSUME Cardinality(Active) <= Shown, NEW c \in Channel, IsActive(c), MayBeCut(c)
               PROVE  FALSE
    BY DEF ActiveListed
  <2> DEFINE rivals == {d \in {x \in Channel : Meaningful(x)} \ {c} : ~Before(c, d)}
  <2>1. Cardinality(rivals) >= Shown
    BY DEF MayBeCut
  <2>2. rivals \subseteq Active \ {c} /\ c \in Active
    BY DEF Before
  <2>3. IsFiniteSet(Active)
    BY FS_Subset, LogAssumption
  <2> HIDE DEF Active, rivals
  <2>4. /\ IsFiniteSet(Active \ {c})
        /\ Cardinality(Active \ {c}) = Cardinality(Active) - 1
    BY <2>2, <2>3, FS_RemoveElement
  <2>5. Cardinality(rivals) <= Cardinality(Active) - 1 /\ IsFiniteSet(rivals)
    BY <2>2, <2>4, FS_Subset
  <2>6. Cardinality(rivals) \in Nat /\ Cardinality(Active) \in Nat /\ Shown \in Nat
    BY <2>3, <2>5, FS_CardinalityType, LogAssumption
  <2> QED
    BY <2>1, <2>5, <2>6
<1> QED
  BY <1>1, TypesInit, TypesNext, PTL DEF Spec
=============================================================================
