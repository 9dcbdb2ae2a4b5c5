------------------------ MODULE SourceResolutionProofs ------------------------
(***************************************************************************)
(* What TLAPS proves of SourceResolution for every value of the constants: *)
(* the retry budget (BudgetInv), which dead sources are retried and which  *)
(* are overlooked (FateDecides, RecordingWhole), types (SourceTypes), and a*)
(* probe's verdict (ProbeInv).                                             *)
(***************************************************************************)
EXTENDS SourceResolution, TLAPS

\* The delay before an attempt is capped, whatever the multiplier makes of it
\* (compute_source_retry_delay).
LEMMA DelayCapped ==
  ASSUME NEW n \in 0..MaxAttempts
  PROVE  Delay(n) \in 0..MaxDelay
<1> DEFINE e == IF n > 0 THEN n - 1 ELSE 0
<1>1. e \in 0..MaxAttempts
  BY RetryAssumption
<1>2. InitialDelay * Multiplier^e \in Nat
  BY <1>1, GrowthAssumption
<1>3. Delay(n) = IF InitialDelay * Multiplier^e < MaxDelay
                 THEN InitialDelay * Multiplier^e ELSE MaxDelay
  BY DEF Delay
<1> HIDE DEF e
<1> QED
  BY <1>2, <1>3, RetryAssumption

\* The types the budget's arithmetic needs, and the budget: inductive.
BudgetInv ==
  /\ pc \in {"idle", "delay", "ask", "anonymous", "recording"}
  /\ caller \in {"probe", "retry"}
  /\ attempt \in 0..MaxAttempts
  /\ asked \in Nat /\ slept \in Nat
  /\ RetryBudget

LEMMA BudgetInit == Init => BudgetInv
BY RetryAssumption DEF Init, BudgetInv, RetryBudget, Searching

LEMMA ConcludeKeeps ==
  ASSUME BudgetInv, NEW r, Searching, Conclude(r),
         UNCHANGED <<caller, attempt>>, asked' \in Nat, slept' \in Nat
  PROVE  BudgetInv'
<1>1. pc' \in {"idle", "recording"}
  BY DEF Conclude, Record, Report
<1> QED
  BY <1>1 DEF BudgetInv, RetryBudget, Searching

\* The loop's body after a request: another attempt starts at its delay.
LEMMA AnsweredKeeps ==
  ASSUME BudgetInv, NEW r, pc \in {"ask", "anonymous"}, Answered(r),
         asked' = asked + 1, UNCHANGED <<caller, slept>>
  PROVE  BudgetInv'
<1> DEFINE again == r.url = None /\ Retryable(ResolutionCategory(r)) /\ attempt < MaxAttempts
<1>0. asked' \in Nat /\ slept' \in Nat
  BY DEF BudgetInv
<1>1. CASE again
  <2>1. attempt' = attempt + 1 /\ pc' = "delay" /\ UNCHANGED <<caller, slept>>
    BY <1>1 DEF Answered
  <2>2. Start' = Start /\ Start \in Nat /\ Sleeps' = Sleeps
    BY <2>1 DEF Start, Sleeps, BudgetInv
  <2>3. RetryBudget'
    BY <1>1, <2>1, <2>2, RetryAssumption DEF RetryBudget, BudgetInv, Searching
  <2> QED
    BY <1>0, <1>1, <2>1, <2>3, RetryAssumption DEF BudgetInv
<1>2. CASE ~again
  <2>1. Conclude(r) /\ UNCHANGED attempt
    BY <1>2 DEF Answered
  <2> QED
    BY <1>0, <2>1, ConcludeKeeps DEF Searching
<1> QED
  BY <1>1, <1>2

LEMMA SleepKeeps ==
  ASSUME BudgetInv, Sleep
  PROVE  BudgetInv'
<1> DEFINE d == Delay(attempt)
<1>1. d \in 0..MaxDelay
  BY DelayCapped DEF BudgetInv
<1>2. pc = "delay" /\ pc' = "ask" /\ slept' = slept + d
      /\ UNCHANGED <<caller, attempt, asked>>
  BY DEF Sleep
<1> HIDE DEF d
<1>3. Start' = Start /\ Sleeps' = Sleeps + 1 /\ Sleeps \in Int
  BY <1>2, RetryAssumption DEF Start, Sleeps, BudgetInv
<1>4. slept <= MaxDelay * Sleeps
  BY <1>2 DEF BudgetInv, RetryBudget, Searching
<1>5. MaxDelay * (Sleeps + 1) = MaxDelay * Sleeps + MaxDelay /\ MaxDelay * Sleeps \in Int
  BY <1>3, RetryAssumption
<1>6. slept' <= MaxDelay * Sleeps'
  BY <1>1, <1>2, <1>3, <1>4, <1>5, RetryAssumption DEF BudgetInv
<1> QED
  BY <1>1, <1>2, <1>3, <1>6, RetryAssumption DEF BudgetInv, RetryBudget, Searching

LEMMA AskKeeps ==
  ASSUME BudgetInv, Ask
  PROVE  BudgetInv'
<1>1. PICK r \in Answers :
        /\ Request(r)
        /\ IF r.room = "public" \/ r.code = None
           THEN Answered(r) /\ UNCHANGED first
           ELSE /\ pc' = "anonymous" /\ first' = r
                /\ UNCHANGED <<attempt, source, broken, row>>
  BY DEF Ask
<1>2. pc = "ask" /\ asked' = asked + 1 /\ UNCHANGED <<caller, slept>>
  BY <1>1 DEF Ask, Request
<1>3. CASE r.room = "public" \/ r.code = None
  BY <1>1, <1>2, <1>3, AnsweredKeeps
<1>4. CASE ~(r.room = "public" \/ r.code = None)
  <2>1. pc' = "anonymous" /\ UNCHANGED attempt
    BY <1>1, <1>4
  <2>2. Start' = Start /\ Sleeps' = Sleeps /\ Start \in Nat
    BY <1>2, <2>1 DEF Start, Sleeps, BudgetInv
  <2> QED
    BY <1>2, <2>1, <2>2, RetryAssumption DEF BudgetInv, RetryBudget, Searching
<1> QED
  BY <1>3, <1>4

LEMMA AskAnonymousKeeps ==
  ASSUME BudgetInv, AskAnonymous
  PROVE  BudgetInv'
<1>1. PICK r \in Answers : Request(r) /\ Answered(Better(r))
  BY DEF AskAnonymous
<1>2. pc = "anonymous" /\ asked' = asked + 1 /\ UNCHANGED <<caller, slept>>
  BY <1>1 DEF AskAnonymous, Request
<1> QED
  BY <1>1, <1>2, AnsweredKeeps

LEMMA InterruptKeeps ==
  ASSUME BudgetInv, Interrupt
  PROVE  BudgetInv'
<1>1. pc = "recording"
  BY DEF Interrupt
<1>2. CASE pc' = "delay"
  <2>1. caller' = "retry" /\ attempt' = 1 /\ MaxAttempts > 0
        /\ asked' = 0 /\ slept' = 0
    BY <1>2 DEF Interrupt, Report
  <2>2. Start' = attempt' /\ Sleeps' = 0
    BY <1>1, <1>2, <2>1 DEF Start, Sleeps, BudgetInv
  <2> QED
    BY <1>1, <1>2, <2>1, <2>2, RetryAssumption DEF BudgetInv, RetryBudget, Searching
<1>3. CASE pc' # "delay"
  <2>1. pc' = "idle" /\ UNCHANGED <<caller, attempt, asked, slept>>
    BY <1>3 DEF Interrupt, Report
  <2> QED
    BY <1>1, <2>1 DEF BudgetInv, RetryBudget, Searching
<1> QED
  BY <1>2, <1>3

LEMMA BudgetNext == BudgetInv /\ [Next]_vars => BudgetInv'
<1> SUFFICES ASSUME BudgetInv, [Next]_vars PROVE BudgetInv'
  OBVIOUS
<1>1. CASE Check
  <2>1. pc' = "ask" /\ caller' = "probe" /\ attempt' = 0
        /\ asked' = 0 /\ slept' = 0
    BY <1>1 DEF Check
  <2>2. Start' = 0 /\ Sleeps' = 0
    BY <2>1 DEF Start, Sleeps
  <2> QED
    BY <2>1, <2>2, RetryAssumption DEF BudgetInv, RetryBudget, Searching
<1>2. CASE Sleep
  BY <1>2, SleepKeeps
<1>3. CASE Ask
  BY <1>3, AskKeeps
<1>4. CASE AskAnonymous
  BY <1>4, AskAnonymousKeeps
<1>5. CASE Raise
  BY <1>5 DEF Raise, BudgetInv, RetryBudget, Searching
<1>6. CASE Finish
  BY <1>6 DEF Finish, BudgetInv, RetryBudget, Searching
<1>7. CASE Interrupt
  BY <1>7, InterruptKeeps
<1>8. CASE Recover
  BY <1>8 DEF Recover, BudgetInv, RetryBudget, Searching
<1>9. CASE UNCHANGED vars
  BY <1>9 DEF vars, BudgetInv, RetryBudget, Searching, Start, Sleeps
<1> QED
  BY <1>1, <1>2, <1>3, <1>4, <1>5, <1>6, <1>7, <1>8, <1>9 DEF Next, Step

\* However the platform answers and however recordings break, an acquisition
\* stays within two requests and one capped delay per attempt it had left
\* (acquire_resolved_source, _finalize_recording), for every configuration.
THEOREM RetryBudgetHolds == Spec => []RetryBudget
<1>1. BudgetInv => RetryBudget
  BY DEF BudgetInv
<1> QED
  BY BudgetInit, BudgetNext, <1>1, PTL DEF Spec

\* The three tables of phrases, for every stderr: the runs look at those of at most
\* three phrases.  A refresh is both wanted and allowed exactly when SourceFate
\* says so; what is overlooked is reported as something else.
LEMMA FateDecides ==
  ASSUME NEW w
  PROVE  /\ ShouldRefresh(w) /\ Retryable(RecordingCategory(w))
              <=> SourceFate(w) = "dead"
         /\ SourceFate(w) = "overlooked" =>
              RecordingCategory(w) \in {"process_failure", "auth_invalid",
                                       "platform_unavailable"}
<1> DEFINE known == \/ \/ "#extm3u absent" \in w \/ "http error 404" \in w
                       \/ "invalid data" \in w \/ "5xx" \in w
                       \/ "http error 403" \in w \/ "401" \in w
                    \/ /\ "manifest" \in w \/ "manifestloaderror" \in w
                       /\ "404" \in w
<1>1. CASE ~ShouldRefresh(w)
  BY <1>1 DEF SourceFate
<1>2. CASE RoomClosed(w)
  <2>0. FailureCode(w) = "RECORDER_EXITED"
    BY <1>2 DEF RoomClosed, FailureCode
  <2>1. RecordingCategory(w) = "platform_unavailable"
    BY <1>2, <2>0 DEF RoomClosed, RecordingCategory
  <2> QED
    BY <1>2, <2>1 DEF SourceFate, Retryable
<1>3. CASE ~RoomClosed(w) /\ known
  <2>1. FailureCode(w) \in {"SOURCE_URL_EXPIRED", "PLAYLIST_PARSE_FAILED"}
    BY <1>3 DEF FailureCode, RoomClosed
  <2>2. RecordingCategory(w) = "source_unstable"
    BY <1>3, <2>1 DEF RecordingCategory, RoomClosed
  <2>3. ~Overlooked(w)
    BY <1>3 DEF Overlooked
  <2> QED
    BY <1>3, <2>2, <2>3 DEF SourceFate, Retryable
<1>4. CASE ShouldRefresh(w) /\ ~RoomClosed(w) /\ ~known
  <2>1. FailureCode(w) = IF "cookie" \in w THEN "AUTH_OR_COOKIE_FAILED"
                         ELSE IF "timed out" \in w THEN "TIMEOUT"
                         ELSE "RECORDER_EXITED"
    BY <1>4 DEF FailureCode, RoomClosed
  <2>2. CASE "cookie" \in w \/ "auth" \in w
    <3>1. RecordingCategory(w) = "auth_invalid"
      BY <1>4, <2>1, <2>2 DEF RecordingCategory, RoomClosed
    <3>2. Overlooked(w)
      BY <1>4, <2>2 DEF Overlooked
    <3> QED
      BY <1>4, <3>1, <3>2 DEF SourceFate, Retryable
  <2>3. CASE /\ "cookie" \notin w /\ "auth" \notin w
             /\ \/ "404" \in w \/ "playlist" \in w \/ "timed out" \in w
                \/ "failed to download m3u8 information" \in w
    <3>1. RecordingCategory(w) \in {"source_unstable", "network_transient"}
      BY <1>4, <2>1, <2>3 DEF RecordingCategory, RoomClosed
    <3>2. ~Overlooked(w)
      BY <2>3 DEF Overlooked
    <3> QED
      BY <1>4, <3>1, <3>2 DEF SourceFate, Retryable
  <2>4. CASE /\ "cookie" \notin w /\ "auth" \notin w
             /\ "404" \notin w /\ "playlist" \notin w /\ "timed out" \notin w
             /\ "failed to download m3u8 information" \notin w
    <3>1. RecordingCategory(w) \in {"process_failure", "platform_unavailable"}
      BY <1>4, <2>1, <2>4 DEF RecordingCategory, RoomClosed
    <3>2. Overlooked(w)
      BY <1>4, <2>4 DEF Overlooked
    <3> QED
      BY <1>4, <3>1, <3>2 DEF SourceFate, Retryable
  <2> QED
    BY <2>2, <2>3, <2>4
<1> QED
  BY <1>1, <1>2, <1>3, <1>4

LEMMA FateTyped == ASSUME NEW w PROVE SourceFate(w) \in Fate
BY DEF SourceFate, Fate

\* A recording that runs is not broken yet.
RecordingWhole == pc = "recording" => broken = NotBroken

LEMMA WholeInit == Init => RecordingWhole
BY DEF Init, RecordingWhole

LEMMA WholeNext == RecordingWhole /\ [Next]_vars => RecordingWhole'
<1> SUFFICES ASSUME RecordingWhole, [Next]_vars, pc' = "recording"
             PROVE  broken' = NotBroken
  BY DEF RecordingWhole
<1>1. ASSUME NEW r, Answered(r)
      PROVE  broken' = NotBroken
  BY <1>1 DEF Answered, Conclude, Record, Report
<1>2. CASE Ask \/ AskAnonymous
  BY <1>1, <1>2 DEF Ask, AskAnonymous
<1>3. CASE UNCHANGED vars
  BY <1>3 DEF vars, RecordingWhole
<1> QED
  BY <1>2, <1>3 DEF Next, Step, Check, Sleep, Raise, Recover, Finish, Interrupt, Report

\* A fresh source is asked for exactly when SourceFate says that the source died, if
\* attempts are allowed, and a death that is overlooked is reported as a failure of
\* something else (_finalize_recording, should_refresh_stream_source,
\* map_recording_failure and classify_recording_failure), whatever phrases the
\* stderr holds.
THEOREM DeadSourcesRetried == Spec => DeadSourceRetried
<1> DEFINE Retried ==
      pc = "recording" /\ pc' # "recording" /\ MaxAttempts > 0 =>
        /\ pc' = "delay" <=> broken'.dead = "dead"
        /\ broken'.dead = "overlooked" =>
             row'.category \in {"process_failure", "auth_invalid",
                               "platform_unavailable"}
<1>1. ASSUME RecordingWhole, [Next]_vars
      PROVE  [Retried]_vars
  <2> SUFFICES ASSUME Next, pc = "recording", MaxAttempts > 0
               PROVE  /\ pc' = "delay" <=> broken'.dead = "dead"
                      /\ broken'.dead = "overlooked" =>
                           row'.category \in {"process_failure", "auth_invalid",
                                             "platform_unavailable"}
    BY <1>1
  <2>1. CASE Interrupt
    <3>1. PICK w \in LastWords :
            /\ broken' = [category |-> RecordingCategory(w), dead |-> SourceFate(w)]
            /\ IF ShouldRefresh(w) /\ Retryable(RecordingCategory(w))
               THEN pc' = "delay"
               ELSE Report(RecordingCategory(w))
      BY <2>1 DEF Interrupt
    <3>2. broken'.dead = SourceFate(w)
      BY <3>1
    <3>3. CASE ShouldRefresh(w) /\ Retryable(RecordingCategory(w))
      BY <3>1, <3>2, <3>3, FateDecides
    <3>4. CASE ~(ShouldRefresh(w) /\ Retryable(RecordingCategory(w)))
      <4>1. pc' = "idle" /\ row'.category = RecordingCategory(w)
        BY <3>1, <3>4 DEF Report
      <4> QED
        BY <3>2, <3>4, <4>1, FateDecides
    <3> QED
      BY <3>3, <3>4
  <2>2. CASE Finish
    <3>1. broken' = NotBroken /\ pc' = "idle"
      BY <1>1, <2>2 DEF Finish, RecordingWhole
    <3> QED
      BY <3>1 DEF NotBroken
  <2> QED
    BY <2>1, <2>2 DEF Next, Check, Step, Sleep, Ask, AskAnonymous, Raise, Recover
<1> QED
  BY <1>1, WholeInit, WholeNext, PTL DEF Spec, DeadSourceRetried

-----------------------------------------------------------------------------
(* What the tables return.                                                 *)

LEMMA AnswerTyped == Answers \subseteq Result
<1> SUFFICES ASSUME NEW r \in Answers PROVE r \in Result
  OBVIOUS
<1>1. ASSUME NEW p \in RoomPage, r = FromPage(p)
      PROVE  r \in Result
  <2>1. /\ p.room \in Room /\ p.url \in Url \cup {None}
        /\ p.text = {} \/ p.text = {"auth"} \/ p.text = {"404"}
    BY DEF RoomPage
  <2>2. {} \subseteq Phrase /\ {"auth"} \subseteq Phrase /\ {"404"} \subseteq Phrase
    BY DEF Phrase
  <2> QED
    BY <1>1, <2>1, <2>2 DEF FromPage, Result, Code
<1>2. ASSUME NEW e \in Refusal, r = FromRefusal(e)
      PROVE  r \in Result
  <2>1. CASE Excuse(e.body) # None
    <3>1. Excuse(e.body) \in {"offline", "private", "hidden"}
      BY <2>1 DEF Excuse
    <3> QED
      BY <1>2, <2>1, <3>1 DEF FromRefusal, NoResult, Result, Room, Unavailable
  <2>2. CASE ~(Excuse(e.body) # None)
    <3> DEFINE text == IF e.status \in {401, 403} THEN {"auth"}
                       ELSE IF e.status = 404 THEN {"404"} ELSE {}
               code == IF e.status \in {401, 403} THEN "AUTH_OR_COOKIE_FAILED"
                       ELSE "SOURCE_RESOLVE_FAILED"
    <3>1. r = [NoResult EXCEPT !.code = code, !.text = text]
      BY <1>2, <2>2 DEF FromRefusal
    <3>2. code \in Code /\ text \subseteq Phrase
      BY DEF Code, Phrase
    <3> HIDE DEF code, text
    <3>3. NoResult \in Result
      BY DEF NoResult, Result
    <3>4. \A q \in Result : [q EXCEPT !.code = code] \in Result
      BY <3>2 DEF Result
    <3>5. \A q \in Result : [q EXCEPT !.text = text] \in Result
      BY <3>2 DEF Result
    <3> QED
      BY <3>1, <3>3, <3>4, <3>5
  <2> QED
    BY <2>1, <2>2
<1>3. ASSUME NEW s \in Silence, r = FromSilence(s)
      PROVE  r \in Result
  BY <1>3 DEF FromSilence, NoResult, Result, Code, Phrase
<1> QED
  BY <1>1, <1>2, <1>3 DEF Answers

\* A failure comes with neither a URL nor a reason of the room's own.
LEMMA FailureAnswers ==
  ASSUME NEW r \in Answers, r.code # None
  PROVE  r.url = None /\ r.room \notin Unavailable
<1>1. ASSUME NEW p \in RoomPage, r = FromPage(p)
      PROVE  r.url = None /\ r.room \notin Unavailable
  BY <1>1 DEF FromPage, Unavailable
<1>2. ASSUME NEW e \in Refusal, r = FromRefusal(e)
      PROVE  r.url = None /\ r.room \notin Unavailable
  BY <1>2, NoneAssumption DEF FromRefusal, NoResult, Room
<1>3. ASSUME NEW s \in Silence, r = FromSilence(s)
      PROVE  r.url = None /\ r.room \notin Unavailable
  BY <1>3, NoneAssumption DEF FromSilence, NoResult, Room
<1> QED
  BY <1>1, <1>2, <1>3 DEF Answers

LEMMA Categories ==
  /\ \A r : ResolutionCategory(r) \in Category
  /\ \A w : RecordingCategory(w) \in Category
<1>1. ASSUME NEW r PROVE ResolutionCategory(r) \in Category
  BY DEF ResolutionCategory, Category
<1>2. ASSUME NEW w PROVE RecordingCategory(w) \in Category
  <2>1. FailureCode(w) \in Code
    BY DEF FailureCode, Code
  <2>2. w \cap {"private show", "performer is currently away"} = {} => FailureCode(w) \in
          {"SOURCE_URL_EXPIRED", "PLAYLIST_PARSE_FAILED", "AUTH_OR_COOKIE_FAILED",
           "TIMEOUT", "RECORDER_EXITED"}
    BY DEF FailureCode
  <2> DEFINE gone == w \cap {"private show", "performer is currently away"} # {}
  <2>3. CASE gone
    BY <2>3 DEF RecordingCategory, Category, FailureCode
  <2>4. CASE ~gone
    BY <2>2, <2>4 DEF RecordingCategory, Category
  <2> QED
    BY <2>3, <2>4
<1> QED
  BY <1>1, <1>2

\* classify_resolution_failure: only the room's own reason is no error.
LEMMA RoomsReason ==
  ASSUME NEW r
  PROVE  ResolutionCategory(r) = "platform_unavailable" <=> r.room \in Unavailable
BY DEF ResolutionCategory

-----------------------------------------------------------------------------
(* Types.                                                                  *)

RowState == [status : {"idle", "checking", "recording", "error"},
             category : Category \cup {"none"}, backoff : {0, 120, 600, 900}]

LEMMA ReportTyped ==
  ASSUME NEW category \in Category \cup {"none"}, Report(category)
  PROVE  /\ pc' = "idle"
         /\ row' \in RowState
<1>1. Backoff(category) \in {0, 120, 600, 900}
  BY DEF Backoff
<1> QED
  BY <1>1 DEF Report, RowState

LEMMA RowStates ==
  ASSUME NEW r \in RowState, NEW status \in {"idle", "checking", "recording", "error"}
  PROVE  /\ [r EXCEPT !.status = status] \in RowState
         /\ [r EXCEPT !.status = status, !.backoff = 0] \in RowState
         /\ [r EXCEPT !.status = status, !.category = "none"] \in RowState
<1>1. \A q \in RowState : [q EXCEPT !.status = status] \in RowState
  BY DEF RowState
<1>2. \A q \in RowState : [q EXCEPT !.backoff = 0] \in RowState
  BY DEF RowState
<1>3. \A q \in RowState : [q EXCEPT !.category = "none"] \in RowState
  BY DEF RowState
<1> QED
  BY <1>1, <1>2, <1>3

\* A failed request with cookies is one of the platform's answers, and an
\* interrupted recording has a source.
SourceTypes ==
  /\ TypeOK
  /\ pc = "anonymous" => first \in Answers /\ first.code # None
  /\ pc = "recording" => source # None
  /\ pc = "ask" => said = {}
  /\ pc = "anonymous" => said = {first}

LEMMA SourceTypesInit == Init => SourceTypes
<1> SUFFICES ASSUME Init PROVE SourceTypes
  OBVIOUS
<1>1. NoResult \in Result
  BY DEF NoResult, Result
<1>2. NotBroken \in [category : Category \cup {"none"}, dead : Fate]
  BY DEF NotBroken, Fate
<1>3. row \in [status : {"idle", "checking", "recording", "error"},
               category : Category \cup {"none"}, backoff : {0, 120, 600, 900}]
  BY DEF Init
<1> QED
  BY <1>1, <1>2, <1>3, RetryAssumption DEF Init, SourceTypes, TypeOK

\* What follows a request that was answered.
LEMMA AnsweredTyped ==
  ASSUME SourceTypes, NEW r \in Answers, Answered(r)
  PROVE  /\ pc' \in {"idle", "delay", "recording"}
         /\ attempt' \in 0..MaxAttempts
         /\ source' \in Url \cup {None}
         /\ broken' \in [category : Category \cup {"none"}, dead : Fate]
         /\ row' \in RowState
         /\ pc' = "recording" => source' # None
<1>1. r.url \in Url \cup {None}
  BY AnswerTyped DEF Result
<1>2. NotBroken \in [category : Category \cup {"none"}, dead : Fate]
  BY DEF NotBroken, Fate
<1> DEFINE again == r.url = None /\ Retryable(ResolutionCategory(r)) /\ attempt < MaxAttempts
<1>3. CASE again
  BY <1>3, RetryAssumption DEF Answered, SourceTypes, TypeOK, RowState
<1>4. CASE ~again
  <2>1. Conclude(r) /\ UNCHANGED attempt
    BY <1>4 DEF Answered
  <2>2. CASE r.url # None /\ (caller = "retry" => r.url # source)
    <3>1. Record(r.url)
      BY <2>1, <2>2 DEF Conclude
    <3>2. row \in RowState
      BY DEF SourceTypes, TypeOK, RowState
    <3>2a. row' \in RowState
      BY <3>1, <3>2, RowStates DEF Record
    <3> QED
      BY <1>1, <1>2, <2>1, <2>2, <3>1, <3>2a DEF Record, SourceTypes, TypeOK
  <2>3. CASE ~(r.url # None /\ (caller = "retry" => r.url # source))
    <3> DEFINE category == IF caller = "retry" THEN broken.category ELSE ResolutionCategory(r)
    <3>1. Report(category) /\ UNCHANGED <<source, broken>>
      BY <2>1, <2>3 DEF Conclude
    <3>2. category \in Category \cup {"none"}
      BY Categories DEF SourceTypes, TypeOK
    <3> HIDE DEF category
    <3>3. pc' = "idle" /\ row' \in RowState
      BY <3>1, <3>2, ReportTyped
    <3> QED
      BY <2>1, <3>1, <3>3 DEF SourceTypes, TypeOK
  <2> QED
    BY <2>2, <2>3
<1> QED
  BY <1>3, <1>4

LEMMA AskTyped ==
  ASSUME SourceTypes, Ask
  PROVE  SourceTypes'
<1>1. PICK r \in Answers :
        /\ Request(r)
        /\ IF r.room = "public" \/ r.code = None
           THEN Answered(r) /\ UNCHANGED first
           ELSE /\ pc' = "anonymous" /\ first' = r
                /\ UNCHANGED <<attempt, source, broken, row>>
  BY DEF Ask
<1>2. pc = "ask" /\ asked' = asked + 1 /\ said' = {r} /\ UNCHANGED <<caller, slept>>
  BY <1>1 DEF Ask, Request, SourceTypes
<1>3. r \in Result
  BY AnswerTyped
<1>4. CASE r.room = "public" \/ r.code = None
  <2>1. Answered(r) /\ UNCHANGED first
    BY <1>1, <1>4
  <2> QED
    BY <1>2, <1>3, <2>1, AnsweredTyped DEF SourceTypes, TypeOK, RowState
<1>5. CASE ~(r.room = "public" \/ r.code = None)
  <2>1. pc' = "anonymous" /\ first' = r /\ UNCHANGED <<attempt, source, broken, row>>
    BY <1>1, <1>5
  <2> QED
    BY <1>2, <1>3, <1>5, <2>1 DEF SourceTypes, TypeOK
<1> QED
  BY <1>4, <1>5

LEMMA AskAnonymousTyped ==
  ASSUME SourceTypes, AskAnonymous
  PROVE  SourceTypes'
<1>1. PICK r \in Answers : Request(r) /\ Answered(Better(r))
  BY DEF AskAnonymous
<1>2. /\ pc = "anonymous" /\ asked' = asked + 1 /\ said' = {first, r}
      /\ first' = NoResult /\ UNCHANGED <<caller, slept>>
  BY <1>1 DEF AskAnonymous, Request, SourceTypes
<1>3. Better(r) \in Answers /\ r \in Result /\ first \in Result /\ NoResult \in Result
  BY <1>2, AnswerTyped DEF Better, SourceTypes, NoResult, Result
<1> QED
  BY <1>1, <1>2, <1>3, AnsweredTyped DEF SourceTypes, TypeOK, RowState

LEMMA InterruptTyped ==
  ASSUME SourceTypes, Interrupt
  PROVE  SourceTypes'
<1>1. PICK w \in LastWords :
        LET category == RecordingCategory(w) IN
        /\ broken' = [category |-> category, dead |-> SourceFate(w)]
        /\ IF ShouldRefresh(w) /\ Retryable(category) /\ MaxAttempts > 0
           THEN /\ pc' = "delay" /\ caller' = "retry" /\ attempt' = 1
                /\ row' = [row EXCEPT !.status = "idle", !.backoff = 0]
                /\ asked' = 0 /\ slept' = 0 /\ said' = {}
           ELSE /\ Report(category)
                /\ UNCHANGED <<caller, attempt, asked, slept, said>>
  BY DEF Interrupt
<1> DEFINE category == RecordingCategory(w)
<1>2. category \in Category
  BY Categories
<1>3. UNCHANGED <<first, source>> /\ broken' \in [category : Category \cup {"none"}, dead : Fate]
  BY <1>1, <1>2, FateTyped DEF Interrupt
<1> HIDE DEF category
<1>4. CASE ShouldRefresh(w) /\ Retryable(category) /\ MaxAttempts > 0
  <2>1. /\ pc' = "delay" /\ caller' = "retry" /\ attempt' = 1
        /\ row' = [row EXCEPT !.status = "idle", !.backoff = 0]
        /\ asked' = 0 /\ slept' = 0 /\ said' = {}
    BY <1>1, <1>4 DEF category
  <2>1a. row \in RowState
    BY DEF SourceTypes, TypeOK, RowState
  <2>2. row' \in RowState
    BY <2>1, <2>1a, RowStates
  <2> QED
    BY <1>3, <1>4, <2>1, <2>2, RetryAssumption DEF SourceTypes, TypeOK, RowState
<1>5. CASE ~(ShouldRefresh(w) /\ Retryable(category) /\ MaxAttempts > 0)
  <2>1. Report(category) /\ UNCHANGED <<caller, attempt, asked, slept, said>>
    BY <1>1, <1>5 DEF category
  <2> QED
    BY <1>2, <1>3, <2>1, ReportTyped DEF SourceTypes, TypeOK, RowState
<1> QED
  BY <1>4, <1>5

LEMMA SourceTypesNext == SourceTypes /\ [Next]_vars => SourceTypes'
<1> SUFFICES ASSUME SourceTypes, [Next]_vars PROVE SourceTypes'
  OBVIOUS
<1>1. CASE Check
  <2>1. row' \in RowState
    BY <1>1 DEF Check, SourceTypes, TypeOK, RowState
  <2>2. broken' \in [category : Category \cup {"none"}, dead : Fate]
    BY <1>1 DEF Check, NotBroken, Fate
  <2> QED
    BY <1>1, <2>1, <2>2, RetryAssumption DEF Check, SourceTypes, TypeOK, RowState
<1>2. CASE Sleep
  <2>1. Delay(attempt) \in Nat
    BY DelayCapped DEF SourceTypes, TypeOK
  <2> QED
    BY <1>2, <2>1 DEF Sleep, SourceTypes, TypeOK
<1>3. CASE Raise
  <2>1. NoResult \in Result
    BY DEF NoResult, Result
  <2> QED
    BY <1>3, <2>1 DEF Raise, SourceTypes, TypeOK
<1>4. CASE Recover
  <2>1. row' \in RowState
    BY <1>4 DEF Recover, SourceTypes, TypeOK, RowState
  <2> QED
    BY <1>4, <2>1 DEF Recover, SourceTypes, TypeOK, RowState
<1>5. CASE Finish
  <2>0. row \in RowState
    BY DEF SourceTypes, TypeOK, RowState
  <2>1. row' \in RowState
    BY <1>5, <2>0, RowStates DEF Finish
  <2> QED
    BY <1>5, <2>1 DEF Finish, SourceTypes, TypeOK, RowState
<1>6. CASE UNCHANGED vars
  BY <1>6 DEF vars, SourceTypes, TypeOK
<1> QED
  BY <1>1, <1>2, <1>3, <1>4, <1>5, <1>6, AskTyped, AskAnonymousTyped, InterruptTyped
  DEF Next, Step

\* The states of an acquisition, the channel's row and the answers keep their types:
\* every failure has a category and every category one of the code's backoffs
\* (classify_resolution_failure, classify_recording_failure, failure_backoff_seconds).
THEOREM SourceTypeCorrect == Spec => []TypeOK
<1>1. SourceTypes => TypeOK
  BY DEF SourceTypes
<1> QED
  BY SourceTypesInit, SourceTypesNext, <1>1, PTL DEF Spec

-----------------------------------------------------------------------------
(* The verdict of a probe.                                                 *)

\* A probe's channel says "checking" until the probe ends, and is never left
\* "recording" by a probe that found no source.
ProbeInv ==
  /\ Searching /\ caller = "probe" => row.status = "checking"
  /\ pc = "idle" /\ caller = "probe" => row.status # "recording"
  /\ ProbeVerdict

LEMMA ProbeInit == Init => ProbeInv
BY DEF Init, ProbeInv, ProbeVerdict, Searching

\* An answer that ends a probe: a stream is recorded, anything else is reported
\* as what all the answers to the attempt's requests say.
LEMMA AnsweredVerdict ==
  ASSUME SourceTypes, ProbeInv, pc \in {"ask", "anonymous"}, NEW r \in Answers, Answered(r),
         UNCHANGED caller, r \in said',
         r.url = None => /\ \A a \in said' : a.url = None
                         /\ r.room \in Unavailable <=> \E a \in said' : a.room \in Unavailable
  PROVE  ProbeInv'
<1> DEFINE again == r.url = None /\ Retryable(ResolutionCategory(r)) /\ attempt < MaxAttempts
<1>1. CASE again
  <2>1. pc' = "delay" /\ UNCHANGED row
    BY <1>1 DEF Answered
  <2> QED
    BY <2>1 DEF ProbeInv, ProbeVerdict, Searching
<1>2. CASE ~again /\ r.url # None /\ (caller = "retry" => r.url # source)
  <2>1. Record(r.url)
    BY <1>2 DEF Answered, Conclude
  <2> QED
    BY <2>1, <1>2 DEF Record, ProbeInv, ProbeVerdict, Searching
<1>3. CASE ~again /\ ~(r.url # None /\ (caller = "retry" => r.url # source))
  <2>1. Report(IF caller = "retry" THEN broken.category ELSE ResolutionCategory(r))
    BY <1>3 DEF Answered, Conclude
  <2>2. CASE caller = "retry"
    BY <2>1, <2>2 DEF Report, ProbeInv, ProbeVerdict, Searching
  <2>3. CASE caller # "retry"
    <3>1. /\ r.url = None /\ pc' = "idle"
          /\ row'.status = IF ResolutionCategory(r) = "platform_unavailable" THEN "idle" ELSE "error"
      BY <1>3, <2>1, <2>3 DEF Report
    <3> QED
      BY <3>1, RoomsReason DEF ProbeInv, ProbeVerdict, Searching
  <2> QED
    BY <2>2, <2>3
<1> QED
  BY <1>1, <1>2, <1>3

LEMMA AskVerdict ==
  ASSUME SourceTypes, ProbeInv, Ask
  PROVE  ProbeInv'
<1>1. PICK r \in Answers :
        /\ Request(r)
        /\ IF r.room = "public" \/ r.code = None
           THEN Answered(r) /\ UNCHANGED first
           ELSE /\ pc' = "anonymous" /\ first' = r
                /\ UNCHANGED <<attempt, source, broken, row>>
  BY DEF Ask
<1>2. pc = "ask" /\ said' = {r} /\ UNCHANGED caller
  BY <1>1 DEF Ask, Request, SourceTypes
<1>3. CASE r.room = "public" \/ r.code = None
  <2>1. Answered(r)
    BY <1>1, <1>3
  <2> QED
    BY <1>2, <2>1, AnsweredVerdict
<1>4. CASE ~(r.room = "public" \/ r.code = None)
  BY <1>1, <1>2, <1>4 DEF ProbeInv, ProbeVerdict, Searching
<1> QED
  BY <1>3, <1>4

\* The request without cookies decides unless it fails too: then neither has a
\* stream, and neither has a reason of the room's own.
LEMMA AskAnonymousVerdict ==
  ASSUME SourceTypes, ProbeInv, AskAnonymous
  PROVE  ProbeInv'
<1>1. PICK r \in Answers : Request(r) /\ Answered(Better(r))
  BY DEF AskAnonymous
<1>2. pc = "anonymous" /\ said' = {first, r} /\ UNCHANGED caller
  BY <1>1 DEF AskAnonymous, Request, SourceTypes
<1>3. first \in Answers /\ first.url = None /\ first.room \notin Unavailable
  BY <1>2, FailureAnswers DEF SourceTypes
<1>4. r.url = None /\ r.code # None => r.room \notin Unavailable
  BY FailureAnswers
<1>5. Better(r) \in Answers /\ Better(r) \in said'
  BY <1>2, <1>3 DEF Better
<1>6. Better(r).url = None => r.url = None
  BY <1>3 DEF Better
<1>7. r.url = None => (Better(r).room \in Unavailable
                        <=> \E a \in said' : a.room \in Unavailable)
  <2>1. CASE r.code = None
    BY <1>2, <1>3, <2>1 DEF Better
  <2>2. CASE r.code # None
    BY <1>2, <1>3, <1>4, <2>2 DEF Better
  <2> QED
    BY <2>1, <2>2
<1>8. r.url = None => \A a \in said' : a.url = None
  BY <1>2, <1>3
<1> QED
  BY <1>1, <1>2, <1>5, <1>6, <1>7, <1>8, AnsweredVerdict

LEMMA ProbeNext == SourceTypes /\ ProbeInv /\ [Next]_vars => ProbeInv'
<1> SUFFICES ASSUME SourceTypes, ProbeInv, [Next]_vars PROVE ProbeInv'
  OBVIOUS
<1>1. CASE Check \/ Sleep \/ Raise
  <2>1. row \in RowState
    BY DEF SourceTypes, TypeOK, RowState
  <2> QED
    BY <1>1, <2>1 DEF Check, Sleep, Raise, ProbeInv, ProbeVerdict, Searching, RowState
<1>2. CASE Recover
  BY <1>2 DEF Recover, ProbeInv, ProbeVerdict, Searching
<1>3. CASE Finish
  <2>1. row \in RowState
    BY DEF SourceTypes, TypeOK, RowState
  <2> QED
    BY <1>3, <2>1 DEF Finish, SourceTypes, ProbeInv, ProbeVerdict, Searching, RowState
<1>4. CASE Interrupt
  BY <1>4 DEF Interrupt, Report, SourceTypes, ProbeInv, ProbeVerdict, Searching
<1>5. CASE UNCHANGED vars
  BY <1>5 DEF vars, ProbeInv, ProbeVerdict, Searching
<1> QED
  BY <1>1, <1>2, <1>3, <1>4, <1>5, AskVerdict, AskAnonymousVerdict DEF Next, Step

\* A probe that ends without a recording saw no stream, and leaves the channel in
\* error exactly when the room gave no reason of its own, whichever of the two
\* requests and however many attempts failed (check_channel, resolve_stream_source,
\* classify_resolution_failure).
THEOREM ProbeVerdictHolds == Spec => []ProbeVerdict
<1>1. ProbeInv => ProbeVerdict
  BY DEF ProbeInv
<1> QED
  BY SourceTypesInit, SourceTypesNext, ProbeInit, ProbeNext, <1>1, PTL DEF Spec
=============================================================================
