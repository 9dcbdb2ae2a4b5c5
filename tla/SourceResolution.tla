--------------------------- MODULE SourceResolution ---------------------------
(***************************************************************************)
(* How one channel gets a stream URL and keeps it: the requests to the     *)
(* platform with and without cookies, the bounded attempts with growing    *)
(* delays, the classification of what failed, the error and the backoff    *)
(* the channel is left with, and the segmented retry of an interrupted     *)
(* recording, which asks again with the attempts that are left, and whose  *)
(* fresh URL start_recording refuses (RecordingLifecycle shows why).       *)
(*                                                                         *)
(* One thread works for the channel, so the nondeterminism is the          *)
(* platform's answers and yt-dlp's last words.  Text is the set of the     *)
(* phrases the code looks for in it.                                       *)
(***************************************************************************)
EXTENDS Integers, FiniteSets

CONSTANTS
  MaxAttempts,   \* config.source_retry_max_attempts
  InitialDelay,  \* config.source_retry_initial_delay_seconds
  Multiplier,    \* config.source_retry_backoff_multiplier
  MaxDelay,      \* config.source_retry_max_delay_seconds
  Url,           \* stream URLs the platform hands out
  LastWords,     \* what a recorder's stderr may say: sets of phrases
  None

ASSUME RetryAssumption ==
  /\ MaxAttempts \in Nat /\ MaxDelay \in Nat
  /\ InitialDelay \in Nat /\ Multiplier \in Nat

Phrase == {"private show", "performer is currently away", "#extm3u absent",
           "http error 404", "404", "manifest", "manifestloaderror",
           "failed to download m3u8 information", "invalid data",
           "5xx", "http error 403", "401", "cookie", "auth", "timed out",
           "playlist", "hidden"}
\* Natural powers are natural: the provers do not know it, TLC evaluates it.
ASSUME GrowthAssumption ==
  \A n \in 0..MaxAttempts : InitialDelay * Multiplier^n \in Nat
ASSUME WordsAssumption == LastWords \subseteq SUBSET Phrase

VARIABLES
  pc,       \* what the channel's thread does next
  caller,   \* who acquires: a probe (check_channel) or the segmented retry
  attempt,  \* acquire_resolved_source's attempt
  first,    \* the answer to the request with cookies
  source,   \* the URL being recorded, or that failed
  broken,   \* why the recording was interrupted: a category, and its stderr
  row,      \* the channel: status, category behind it, backoff of its next check
  asked,    \* requests sent by this acquisition (history)
  slept,    \* seconds this acquisition slept (history)
  said      \* the answers to this attempt's requests (history)

vars == <<pc, caller, attempt, first, source, broken, row, asked, slept, said>>

Unavailable == {"offline", "not_online", "away", "private", "group_show", "hidden"}
Room == Unavailable \cup {"public", "other"}
Code == {"SOURCE_RESOLVE_FAILED", "AUTH_OR_COOKIE_FAILED", "TIMEOUT",
         "SOURCE_URL_EXPIRED", "PLAYLIST_PARSE_FAILED", "RECORDER_EXITED"}
Category == {"platform_unavailable", "auth_invalid", "network_transient",
             "source_unstable", "process_failure", "unknown"}
ASSUME NoneAssumption == None \notin Room \cup Code \cup Url

Result == [room : Room \cup {None}, url : Url \cup {None},
           code : Code \cup {None}, text : SUBSET Phrase]
NoResult == [room |-> None, url |-> None, code |-> None, text |-> {}]

-----------------------------------------------------------------------------
(* The platform and ChaturbatePlatform.resolve_stream_source               *)

\* What a request meets: a page about the room, an HTTP error, or no answer
RoomPage == [room : Room, url : Url \cup {None}, text : {{}, {"auth"}, {"404"}}]
Refusal == [status : {401, 403, 404, 500},
            body : {"not found page", "private", "group_show", "hidden",
                    "password", "anything"}]
Silence == {"timed out", "unreachable", "invalid json"}

\* _expected_unavailable_from_error_body
Excuse(body) ==
  CASE body = "not found page" -> "offline"
    [] body \in {"private", "group_show", "password"} -> "private"
    [] body = "hidden" -> "hidden"
    [] OTHER -> None

FromPage(p) ==
  [room |-> p.room,
   url  |-> IF p.room = "public" THEN p.url ELSE None,
   code |-> IF p.room = "other" THEN "SOURCE_RESOLVE_FAILED" ELSE None,
   text |-> IF p.room = "other" THEN p.text ELSE {}]   \* the page's last line

FromRefusal(e) ==
  IF Excuse(e.body) # None THEN [NoResult EXCEPT !.room = Excuse(e.body)]
  ELSE IF e.status \in {401, 403}
  THEN [NoResult EXCEPT !.code = "AUTH_OR_COOKIE_FAILED", !.text = {"auth"}]
  ELSE [NoResult EXCEPT !.code = "SOURCE_RESOLVE_FAILED",
                        !.text = IF e.status = 404 THEN {"404"} ELSE {}]

FromSilence(s) ==
  IF s = "timed out" THEN [NoResult EXCEPT !.code = "TIMEOUT", !.text = {"timed out"}]
  ELSE [NoResult EXCEPT !.code = "SOURCE_RESOLVE_FAILED"]

Answers == {FromPage(p) : p \in RoomPage} \cup {FromRefusal(e) : e \in Refusal}
           \cup {FromSilence(s) : s \in Silence}

-----------------------------------------------------------------------------
(* What a failure means                                                    *)

\* classify_resolution_failure
ResolutionCategory(r) ==
  CASE r.room \in Unavailable -> "platform_unavailable"
    [] r.room \notin Unavailable
       /\ (r.code = "AUTH_OR_COOKIE_FAILED" \/ "auth" \in r.text) -> "auth_invalid"
    [] r.room \notin Unavailable /\ "auth" \notin r.text
       /\ r.code = "TIMEOUT" -> "network_transient"
    [] r.room \notin Unavailable /\ "auth" \notin r.text
       /\ r.code = "SOURCE_RESOLVE_FAILED" ->
         IF "404" \in r.text THEN "source_unstable" ELSE "network_transient"
    [] OTHER -> "unknown"

Retryable(category) == category \in {"source_unstable", "network_transient"}

\* Mutant: the edge's 5xx pages are left out of the mapping
FailureCodeNo5xx(w) ==
  IF w \cap {"private show", "performer is currently away"} # {} THEN "RECORDER_EXITED"
  ELSE IF \/ w \cap {"#extm3u absent", "http error 404"} # {}
          \/ w \cap {"manifest", "manifestloaderror"} # {} /\ "404" \in w
  THEN "SOURCE_URL_EXPIRED"
  ELSE IF "invalid data" \in w THEN "PLAYLIST_PARSE_FAILED"
  ELSE IF w \cap {"http error 403", "401"} # {} THEN "SOURCE_URL_EXPIRED"
  ELSE IF "cookie" \in w THEN "AUTH_OR_COOKIE_FAILED"
  ELSE IF "timed out" \in w THEN "TIMEOUT"
  ELSE "RECORDER_EXITED"

\* ChaturbatePlatform.map_recording_failure: the first phrase found decides
FailureCode(w) ==
  IF w \cap {"private show", "performer is currently away"} # {} THEN "RECORDER_EXITED"
  ELSE IF \/ w \cap {"#extm3u absent", "http error 404"} # {}
          \/ w \cap {"manifest", "manifestloaderror"} # {} /\ "404" \in w
  THEN "SOURCE_URL_EXPIRED"
  ELSE IF "invalid data" \in w THEN "PLAYLIST_PARSE_FAILED"
  ELSE IF w \cap {"5xx", "http error 403", "401"} # {} THEN "SOURCE_URL_EXPIRED"
  ELSE IF "cookie" \in w THEN "AUTH_OR_COOKIE_FAILED"
  ELSE IF "timed out" \in w THEN "TIMEOUT"
  ELSE "RECORDER_EXITED"

\* classify_recording_failure of map_recording_failure.  A recognized cause has
\* a message of its own; the other messages are the stderr, whose words count.
RecordingCategory(w) ==
  LET code == FailureCode(w)
      gone == w \cap {"private show", "performer is currently away"} # {} IN
  CASE gone -> "platform_unavailable"
    [] code \in {"SOURCE_URL_EXPIRED", "PLAYLIST_PARSE_FAILED"} -> "source_unstable"
    [] code = "AUTH_OR_COOKIE_FAILED" -> "auth_invalid"
    [] code = "TIMEOUT" ->
         IF "auth" \in w THEN "auth_invalid" ELSE "network_transient"
    [] code = "RECORDER_EXITED" /\ ~gone ->
         IF "auth" \in w THEN "auth_invalid"
         ELSE IF w \cap {"404", "playlist", "failed to download m3u8 information"} # {}
         THEN "source_unstable"
         ELSE IF "hidden" \in w THEN "platform_unavailable"
         ELSE "process_failure"

\* should_refresh_stream_source
ShouldRefresh(w) ==
  \/ w \cap {"#extm3u absent", "http error 404", "http error 403", "5xx",
             "manifestloaderror", "invalid data"} # {}
  \/ /\ "failed to download m3u8 information" \in w
     /\ w \cap {"404", "http error 404"} # {}

\* failure_backoff_seconds
Backoff(category) ==
  CASE category = "platform_unavailable" -> 0
    [] category = "source_unstable" -> 900
    [] category = "auth_invalid" -> 600
    [] OTHER -> 120

\* compute_source_retry_delay
Delay(n) ==
  LET grown == InitialDelay * Multiplier^(IF n > 0 THEN n - 1 ELSE 0) IN
  IF grown < MaxDelay THEN grown ELSE MaxDelay

-----------------------------------------------------------------------------
(* acquire_resolved_source, and what its callers do with the answer        *)

Fate == {"no", "dead", "overlooked"}
NotBroken == [category |-> "none", dead |-> "no"]

Init ==
  /\ pc = "idle" /\ caller = "probe" /\ attempt = 0 /\ first = NoResult
  /\ source = None /\ broken = NotBroken
  /\ row = [status |-> "idle", category |-> "none", backoff |-> 0]
  /\ asked = 0 /\ slept = 0 /\ said = {}

\* the channel's status, last_error and next_check_at after a failure
Report(category) ==
  /\ pc' = "idle"
  /\ row' = [status   |-> IF category = "platform_unavailable" THEN "idle" ELSE "error",
             category |-> category,
             backoff  |-> Backoff(category)]

\* start_recording with a resolved source: the retry's own thread still owns the
\* channel, so that only the status is set
Record(u) ==
  /\ row' = [row EXCEPT !.status = "recording", !.category = "none"]
  /\ IF caller = "retry"
     THEN pc' = "idle" /\ UNCHANGED <<source, broken>>
     ELSE pc' = "recording" /\ source' = u /\ broken' = NotBroken

\* check_channel and _finalize_recording: record, or report.  A retry that got
\* the URL that just failed, or none, reports the failure of the recording.
Conclude(r) ==
  IF r.url # None /\ (caller = "retry" => r.url # source) THEN Record(r.url)
  ELSE /\ Report(IF caller = "retry" THEN broken.category ELSE ResolutionCategory(r))
       /\ UNCHANGED <<source, broken>>

\* Mutant: the last attempt is repeated
AnsweredOnceMore(r) ==
  IF r.url = None /\ Retryable(ResolutionCategory(r)) /\ attempt <= MaxAttempts
  THEN /\ attempt' = attempt + 1
       /\ pc' = "delay"
       /\ UNCHANGED <<source, broken, row>>
  ELSE Conclude(r) /\ UNCHANGED attempt

\* the end of the loop's body: a URL, a final answer, or another attempt
Answered(r) ==
  IF r.url = None /\ Retryable(ResolutionCategory(r)) /\ attempt < MaxAttempts
  THEN /\ attempt' = attempt + 1
       /\ pc' = "delay"
       /\ UNCHANGED <<source, broken, row>>
  ELSE Conclude(r) /\ UNCHANGED attempt

Check ==
  /\ pc = "idle" /\ row.status # "recording"
  /\ pc' = "ask" /\ caller' = "probe" /\ attempt' = 0
  /\ source' = None /\ broken' = NotBroken
  /\ row' = [row EXCEPT !.status = "checking"]
  /\ asked' = 0 /\ slept' = 0 /\ said' = {}
  /\ UNCHANGED first

Sleep ==
  /\ pc = "delay"
  /\ pc' = "ask"
  /\ slept' = slept + Delay(attempt)
  /\ said' = {}
  /\ UNCHANGED <<caller, attempt, first, source, broken, row, asked>>

Request(r) == asked' = asked + 1 /\ said' = said \cup {r}

Ask ==
  /\ pc = "ask"
  /\ \E r \in Answers :
       /\ Request(r)
       /\ IF r.room = "public" \/ r.code = None
          THEN Answered(r) /\ UNCHANGED first
          ELSE /\ pc' = "anonymous" /\ first' = r
               /\ UNCHANGED <<attempt, source, broken, row>>
  /\ UNCHANGED <<caller, slept>>

\* Mutant: only a stream counts, not the room's own reason
BetterOnlyStream(r) == IF r.url # None THEN r ELSE first

\* without cookies: the answer counts only when it is not a failure
Better(r) == IF r.url # None \/ r.code = None THEN r ELSE first

AskAnonymous ==
  /\ pc = "anonymous"
  /\ \E r \in Answers : Request(r) /\ Answered(Better(r))
  /\ first' = NoResult
  /\ UNCHANGED <<caller, slept>>

\* A read timeout, or a page that is no JSON object, is caught nowhere: the
\* thread ends, the channel keeps the status it had.
Raise ==
  /\ pc \in {"ask", "anonymous"}
  /\ pc' = "idle"
  /\ asked' = asked + 1
  /\ first' = NoResult
  /\ UNCHANGED <<caller, attempt, source, broken, row, slept, said>>

\* recover_stale_recording: nothing records, though the row says so
Recover ==
  /\ pc = "idle" /\ row.status = "recording"
  /\ row' = [row EXCEPT !.status = "idle"]
  /\ UNCHANGED <<pc, caller, attempt, first, source, broken, asked, slept, said>>

Finish ==
  /\ pc = "recording"
  /\ pc' = "idle"
  /\ row' = [row EXCEPT !.status = "idle", !.backoff = 0]
  /\ UNCHANGED <<caller, attempt, first, source, broken, asked, slept, said>>

\* the room gave a reason of its own: the recording ended with the show
RoomClosed(w) == w \cap {"private show", "performer is currently away"} # {}

\* should_refresh_stream_source recognizes the source as dead by a phrase
\* map_recording_failure does not know ("manifestloaderror" without "404", or the
\* m3u8 information that met a 404 and no manifest), and the other words decide:
\* credentials, or nothing that speaks of a source or of a timeout.
Overlooked(w) ==
  /\ w \cap {"#extm3u absent", "http error 404", "invalid data", "5xx",
             "http error 403", "401"} = {}
  /\ w \cap {"manifest", "manifestloaderror"} = {} \/ "404" \notin w
  /\ \/ w \cap {"cookie", "auth"} # {}
     \/ w \cap {"404", "playlist", "failed to download m3u8 information",
                "timed out"} = {}

\* what an interrupted recording's stderr says of its source
SourceFate(w) ==
  IF ~ShouldRefresh(w) \/ RoomClosed(w) THEN "no"
  ELSE IF Overlooked(w) THEN "overlooked" ELSE "dead"

\* _finalize_recording of an interrupted recording, whose retry_attempt is 0.  If
\* no attempt is allowed acquire_resolved_source returns without a request.
Interrupt ==
  /\ pc = "recording"
  /\ \E w \in LastWords :
       LET category == RecordingCategory(w) IN
       /\ broken' = [category |-> category, dead |-> SourceFate(w)]
       /\ IF ShouldRefresh(w) /\ Retryable(category) /\ MaxAttempts > 0
          THEN /\ pc' = "delay" /\ caller' = "retry" /\ attempt' = 1
               /\ row' = [row EXCEPT !.status = "idle", !.backoff = 0]
               /\ asked' = 0 /\ slept' = 0 /\ said' = {}
          ELSE /\ Report(category)
               /\ UNCHANGED <<caller, attempt, asked, slept, said>>
  /\ UNCHANGED <<first, source>>

Step == Sleep \/ Ask \/ AskAnonymous \/ Raise
Next == Check \/ Step \/ Recover \/ Finish \/ Interrupt

Spec == Init /\ [][Next]_vars

-----------------------------------------------------------------------------
(* Properties                                                              *)

TypeOK ==
  /\ pc \in {"idle", "delay", "ask", "anonymous", "recording"}
  /\ caller \in {"probe", "retry"}
  /\ attempt \in 0..MaxAttempts
  /\ first \in Result
  /\ source \in Url \cup {None}
  /\ broken \in [category : Category \cup {"none"}, dead : Fate]
  /\ row \in [status : {"idle", "checking", "recording", "error"},
              category : Category \cup {"none"}, backoff : {0, 120, 600, 900}]
  /\ asked \in Nat /\ slept \in Nat
  /\ said \in SUBSET Result

Searching == pc \in {"delay", "ask", "anonymous"}
Start == IF caller = "retry" THEN 1 ELSE 0
\* the delays slept through: none before the first attempt of a probe
Sleeps == attempt - Start + (IF caller = "retry" THEN 1 ELSE 0)
                          - (IF pc = "delay" THEN 1 ELSE 0)

\* The attempts bound the work for one channel, however long it fails: the
\* probe slot is held, and a dead recording is finalized, only after at most
\* two requests and one capped delay per attempt that was left.
RetryBudget ==
  Searching =>
    /\ attempt \in Start..MaxAttempts
    /\ asked <= 2 * (attempt - Start) + (IF pc = "anonymous" THEN 1 ELSE 0)
    /\ slept <= MaxDelay * Sleeps

\* A probe that ends without a recording saw no stream in its last attempt,
\* and it raises an alarm exactly when the room gave no reason of its own:
\* neither the request without cookies nor the classification turns an offline
\* or private room into an error, or a failure into a quiet "offline" that no
\* answer gave.  One answer is enough: with credentials refused, a room that the
\* request without cookies calls offline is quietly offline.
ProbeVerdict ==
  pc = "idle" /\ caller = "probe" /\ source = None /\ asked > 0
      /\ row.status # "checking" =>
    /\ \A r \in said : r.url = None
    /\ row.status = "idle" <=> \E r \in said : r.room \in Unavailable

\* A recording whose source died asks for a fresh one, if attempts are allowed,
\* whatever else its stderr says and only then: should_refresh_stream_source,
\* map_recording_failure and classify_recording_failure, three tables of phrases
\* written apart, agree but for the texts that Overlooked lists.  There the code
\* says "refresh" and does not: the death of the source is reported as a failure
\* of the process, of the credentials or of the room.
DeadSourceRetried ==
  [][pc = "recording" /\ pc' # "recording" /\ MaxAttempts > 0 =>
       /\ pc' = "delay" <=> broken'.dead = "dead"
       /\ broken'.dead = "overlooked" =>
            row'.category \in {"process_failure", "auth_invalid",
                              "platform_unavailable"}]_vars
=============================================================================
