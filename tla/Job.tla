-------------------------------- MODULE Job --------------------------------
(***************************************************************************)
(* One job, from its lease to its last submit (PollOnce and                *)
(* submitWithRetry in internal/v2/v2.go, Fetch in internal/crapi,          *)
(* Battlelog in internal/filter): wait for the pace, fetch a player's      *)
(* battles, drop those the hub holds, and submit what is left, again if    *)
(* need be, while the lease runs out.                                      *)
(*                                                                         *)
(* The hub leases each job to one collector for LeaseTTL, names the newest *)
(* battle it holds, and may lose any call on its way in or out. The API    *)
(* shows the last WindowSize battles, in the order they were played. A     *)
(* battle is its number, and its battleTime too.                           *)
(***************************************************************************)
EXTENDS Integers, FiniteSets

CONSTANTS
  MaxTimeout,      \* the longest submit timeout a config can ask for
  MaxBackoff,      \* and the longest first back-off
  DefaultBackoff,  \* what replaces one out of range
  MaxRetryAfter,   \* maxSubmitRetryAfter
  LeaseTTL,        \* the lease's lifetime
  FetchTimeout,    \* timeoutMs of the API client
  Pacing,          \* pacing_ms
  Holds,           \* waits a 429 of the API can ask for
  Configs,         \* submit_retry as the hub can name it, see ConfigType
  Afters,          \* Retry-After of a submit answer: seconds or NoHeader
  NoHeader,        \* no Retry-After, or one that is not a count of seconds
  Half,            \* durations wrap past it: 2^63 ns in the code
  Unreadable,      \* battles without a readable battleTime
  WindowSize,      \* how many battles the API shows
  Fits,            \* how many fit under overflow_bytes
  MaxBattles,      \* bound: battles played
  CallTimes        \* bound: a call takes one of these, or its whole timeout

Battles == 1 .. MaxBattles

\* An HTTP status, as far as the submit tells them apart: below 400, 429,
\* any other 4xx, 5xx. "lost" is a call without an answer.
Statuses == {"success", "throttled", "refusal", "trouble"}

ConfigType == [attempts : Int, timeout : Int, backoff : Int,
               listed : SUBSET Statuses]

ASSUME DurationAssumption ==
  /\ {MaxTimeout, DefaultBackoff, MaxBackoff, Half} \subseteq Nat \ {0}
  /\ DefaultBackoff <= MaxBackoff
  /\ {MaxRetryAfter, LeaseTTL, FetchTimeout, Pacing} \subseteq Nat
  /\ Holds \subseteq Nat
ASSUME HubAssumption ==
  /\ Configs \subseteq ConfigType
  /\ NoHeader \notin Int /\ Afters \subseteq Nat \cup {NoHeader}
ASSUME BattleAssumption ==
  /\ {WindowSize, Fits, MaxBattles} \subseteq Nat
  /\ Unreadable \subseteq Battles

VARIABLES
  \* The collector.
  pc,        \* the line it stands at
  cfg,       \* Config.SubmitRetry
  rest,      \* what is left of pace's wait, from lastFetchStarted
  mark,      \* the lease's filter.battles_after, 0 for none
  fetched,   \* what the API said: its kind, and the battles of the array
  submit,    \* the result sent: status, body and what the hub reads it as,
             \* observed and filtered
  attempt, backoff, wait,  \* locals of submitWithRetry
  answer,    \* the answer a sleep follows: its status and Retry-After
  stopping,  \* a signal has cancelled the context
  \* The world.
  played,    \* battles played so far
  stored,    \* battles the hub holds
  \* History.
  age,       \* time since the lease was granted
  spent,     \* time since the submit began
  held,      \* what the hub held when it granted the lease
  shown      \* battles in the fetches whose result the hub took

local == <<cfg, mark, fetched, submit, attempt, backoff, wait, answer>>
times == <<rest, age, spent>>
vars == <<pc, local, stopping, times, played, stored, held, shown>>

-----------------------------------------------------------------------------
\* Helpers

Larger(x, y) == IF x > y THEN x ELSE y
Less(x, d) == Larger(x - d, 0)

\* time.Duration(n) * time.Second, in 64 bits.
Wrapped(n) == ((n + Half) % (2 * Half)) - Half

\* How long a call with this timeout can take.
Durations(limit) == {d \in 0 .. limit : d \in CallTimes \cup {limit}}

\* The age of a lease that is over is not told apart.
Aged(d) == IF age + d > LeaseTTL THEN LeaseTTL + 1 ELSE age + d

\* d passes.
Passes(d) ==
  /\ age' = Aged(d) /\ spent' = spent + d /\ rest' = Less(rest, d)

\* Client.Sleep: a signal cuts it short, and every later one.
Sleep(w) == IF stopping THEN {0, w} ELSE {w}

\* What the API shows once n battles are played.
WindowAt(n) == {b \in 1 .. n : b > n - WindowSize}
Window == WindowAt(played)

Newest(battles) ==
  IF battles \ Unreadable = {} THEN 0
  ELSE CHOOSE b \in battles \ Unreadable :
         \A c \in battles \ Unreadable : c <= b

NoFetch == [kind |-> "none", battles |-> {}]
NoSubmit == [status |-> "none", body |-> {}, as |-> "none", observed |-> 0,
             filtered |-> 0]
NoConfig == [attempts |-> 0, timeout |-> 0, backoff |-> 0, listed |-> {}]
NoAnswer == [status |-> "none", after |-> NoHeader]

Init ==
  /\ pc = "idle"
  /\ cfg = NoConfig /\ mark = 0 /\ fetched = NoFetch /\ submit = NoSubmit
  /\ attempt = 0 /\ backoff = 0 /\ wait = 0 /\ answer = NoAnswer
  /\ rest = 0 /\ age = 0 /\ spent = 0 /\ stopping = FALSE
  /\ played = 0 /\ stored = {} /\ held = {} /\ shown = {}

-----------------------------------------------------------------------------
\* The filter

Kept_ReadableOnly(battles, after) == {b \in battles \ Unreadable : b > after}
Kept(battles, after) ==
  IF after = 0 THEN battles ELSE {b \in battles : b \in Unreadable \/ b > after}

\* A 200 whose body was kept.
HasBody_Any200(kind) == kind \in {"log", "null", "other", "large"}
HasBody(kind) == kind \in {"log", "null", "other"}

\* What the body says when it goes out. Filtered, a JSON null decodes into an
\* array without entries and becomes one; what decodes into none stays as it is.
ReadAs(kind, after) == IF kind = "null" /\ after # 0 THEN "log" ELSE kind

\* The overflow is judged on what the filter left.
Overflows_Unfiltered(f, kept) == Cardinality(f.battles) > Fits
Overflows(f, kept) == Cardinality(kept) > Fits

Result_CutToFit(f, after) ==
  LET kept == Kept(f.battles, after)
      sent == {b \in kept : Cardinality({c \in kept : c <= b}) <= Fits}
  IN  [status |-> IF HasBody(f.kind) THEN "ok" ELSE "error",
       body |-> IF HasBody(f.kind) THEN sent ELSE {},
       as |-> IF HasBody(f.kind) THEN ReadAs(f.kind, after) ELSE "none",
       observed |-> IF after = 0 THEN 0 ELSE Cardinality(f.battles),
       filtered |-> Cardinality(f.battles) - Cardinality(sent)]
\* observed and filtered are sent with a filtered battlelog only.
Result(f, after) ==
  LET kept == Kept(f.battles, after)
      ok == HasBody(f.kind) /\ ~Overflows(f, kept)
  IN  [status |-> IF ok THEN "ok" ELSE "error",
       body |-> IF ok THEN kept ELSE {},
       as |-> IF ok THEN ReadAs(f.kind, after) ELSE "none",
       observed |-> IF after = 0 THEN 0 ELSE Cardinality(f.battles),
       filtered |-> Cardinality(f.battles) - Cardinality(kept)]

-----------------------------------------------------------------------------
\* Lease and fetch

\* The mark is the newest battle the hub holds for the player.
MarkOf(battles) == Newest(battles)

Leases ==
  /\ pc = "idle"
  /\ pc' = "pace"
  /\ \E c \in Configs : cfg' = c
  /\ mark' = MarkOf(stored) /\ held' = stored
  /\ age' = 0 /\ spent' = 0
  /\ UNCHANGED <<rest, fetched, submit, attempt, backoff, wait, answer,
                 stopping, played, stored, shown>>

\* pace sleeps what is left, a 429's hold included, and notes the start.
Paces ==
  /\ pc = "pace"
  /\ pc' = "fetch"
  /\ \E d \in Sleep(rest) : age' = Aged(d)
  /\ rest' = Pacing
  /\ UNCHANGED <<local, stopping, spent, played, stored, held, shown>>

\* Out-of-range values of the config get the code's own.
Attempts(c) == IF c.attempts < 1 \/ c.attempts > 3 THEN 3 ELSE c.attempts
InRange_NoCeiling(x, limit, otherwise) == IF x <= 0 THEN otherwise ELSE x
InRange(x, limit, otherwise) ==
  IF x <= 0 \/ x > limit THEN otherwise ELSE x
Timeout(c) == InRange(Wrapped(c.timeout), MaxTimeout, MaxTimeout)
FirstBackoff(c) == InRange(Wrapped(c.backoff), MaxBackoff, DefaultBackoff)

\* Whatever the API says, in time or not, is submitted.
Fetch(kind, battles) ==
  /\ pc = "fetch"
  /\ fetched' = [kind |-> kind, battles |-> battles]
  /\ submit' = Result(fetched', mark)
  /\ pc' = "submit" /\ attempt' = 1 /\ backoff' = FirstBackoff(cfg)
  /\ \E d \in Durations(FetchTimeout) :
       /\ age' = Aged(d) /\ spent' = 0
       /\ IF kind = "held" THEN rest' \in Holds ELSE rest' = Less(rest, d)
  /\ UNCHANGED <<cfg, mark, wait, answer, stopping, played, stored, held,
                 shown>>

\* The array, or a 200 with a null or anything else for one; a body over the
\* bound, a 429, and any other status or no answer carry no battles. A
\* cancelled context fails.
FetchesLog == ~stopping /\ Fetch("log", Window)
FetchesNoLog ==
  \E kind \in {"null", "other", "large", "held", "failed"} :
    /\ stopping => kind = "failed"
    /\ Fetch(kind, {})

-----------------------------------------------------------------------------
\* Submit

\* Only a 4xx can be made retryable by the config.
Retryable(status) ==
  status \in {"refusal", "throttled"} /\ status \in cfg.listed

Final(status) == status \notin {"lost", "trouble"} /\ ~Retryable(status)

\* A Retry-After the lease cannot wait for ends the submit; one in range, of
\* a 4xx, can only lengthen the back-off.
TooFar(a) ==
  /\ a.status \notin {"lost", "trouble"}
  /\ a.after # NoHeader /\ Wrapped(a.after) > MaxRetryAfter

WaitFor_BackoffOnly(a) == backoff
WaitFor(a) ==
  IF a.status \in {"lost", "trouble"} \/ a.after = NoHeader THEN backoff
  ELSE Larger(backoff, Wrapped(a.after))

GivesUp_OneMore(a) == Final(a.status) \/ attempt > Attempts(cfg) \/ TooFar(a)
GivesUp(a) == Final(a.status) \/ attempt = Attempts(cfg) \/ TooFar(a)

Hears(a) ==
  /\ pc = "submit"
  /\ IF GivesUp(a) THEN pc' = "end" /\ UNCHANGED <<answer, wait>>
                   ELSE pc' = "sleep" /\ answer' = a /\ wait' = WaitFor(a)
  /\ \E d \in Durations(Timeout(cfg)) : Passes(d)
  /\ UNCHANGED <<cfg, mark, fetched, submit, attempt, backoff, stopping, played,
                 held>>

\* The hub takes a result while the lease lasts; taken twice, it is the same.
Takes ==
  /\ age <= LeaseTTL
  /\ stored' = stored \cup submit.body
  /\ shown' = IF submit.status = "ok" THEN shown \cup fetched.battles ELSE shown

Accepted == Hears([status |-> "success", after |-> NoHeader]) /\ Takes

\* The hub is out of reach, or its answer is.
AnswerLost ==
  /\ Hears([status |-> "lost", after |-> NoHeader])
  /\ Takes \/ UNCHANGED <<stored, shown>>

\* Of a 5xx the Retry-After is not read.
Refusals == {[status |-> "trouble", after |-> NoHeader]}
              \cup [status : {"throttled", "refusal"}, after : Afters]

Refused ==
  /\ \E a \in Refusals : Hears(a)
  /\ UNCHANGED <<stored, shown>>

\* c.Sleep(wait); backoff *= 2; and the next attempt.
Sleeps ==
  /\ pc = "sleep"
  /\ pc' = "submit"
  /\ \E d \in Sleep(wait) : Passes(d)
  /\ attempt' = attempt + 1 /\ backoff' = 2 * backoff
  /\ wait' = 0 /\ answer' = NoAnswer
  /\ UNCHANGED <<cfg, mark, fetched, submit, stopping, played, stored, held,
                 shown>>

Forgets ==
  /\ pc' = "idle"
  /\ cfg' = NoConfig /\ mark' = 0 /\ fetched' = NoFetch /\ submit' = NoSubmit
  /\ attempt' = 0 /\ backoff' = 0 /\ wait' = 0 /\ answer' = NoAnswer
  /\ age' = 0 /\ spent' = 0 /\ held' = {} /\ stopping' = FALSE
  /\ UNCHANGED <<played, stored, shown>>

\* PollOnce returns, and the next check-in is as far off as the door says; or
\* the process ends, and the next one remembers no hold.
Ends ==
  /\ pc = "end" /\ Forgets
  /\ IF stopping THEN rest' = 0 ELSE rest' \in {rest, 0}

\* SIGTERM or SIGINT: the job goes on to its end, without waiting.
Signalled ==
  /\ pc # "idle" /\ ~stopping
  /\ stopping' = TRUE
  /\ UNCHANGED <<pc, local, times, played, stored, held, shown>>

\* A crash, or a kill.
Dies == pc # "idle" /\ Forgets /\ rest' = 0

-----------------------------------------------------------------------------
\* The world

Plays ==
  /\ played < MaxBattles
  /\ played' = played + 1
  /\ UNCHANGED <<pc, local, stopping, times, stored, held, shown>>

\* Without a valid lease here, the job is another collector's.
OtherCollects ==
  /\ pc = "idle" \/ age > LeaseTTL
  /\ stored' = stored \cup Kept(Window, MarkOf(stored))
  /\ shown' = shown \cup Window
  /\ UNCHANGED <<pc, local, stopping, times, played, held>>

Next == \/ Leases \/ Paces \/ FetchesLog \/ FetchesNoLog
        \/ Accepted \/ AnswerLost \/ Refused \/ Sleeps \/ Ends
        \/ Signalled \/ Dies \/ Plays \/ OtherCollects

Spec == Init /\ [][Next]_vars

(***************************************************************************)
(* The loop keeps checking in, and neither kills nor signals, the API or   *)
(* the hub stand in the way for ever.                                      *)
(***************************************************************************)
Fairness ==
  /\ WF_vars(Leases \/ Paces \/ FetchesNoLog \/ Refused \/ Sleeps \/ Ends)
  /\ SF_vars(~stopping /\ Paces) /\ SF_vars(FetchesLog)
  /\ SF_vars(fetched.kind = "log" /\ Accepted)

LiveSpec == Spec /\ Fairness

-----------------------------------------------------------------------------
\* Properties

Submitting == {"submit", "sleep", "end"}

\* Every variable has its type.
TypeOK ==
  /\ pc \in {"idle", "pace", "fetch"} \cup Submitting
  /\ cfg \in Configs \cup {NoConfig}
  /\ rest \in Nat /\ age \in Nat /\ spent \in Nat
  /\ mark \in Battles \cup {0}
  /\ fetched.battles \subseteq Battles
  /\ submit.status \in {"none", "ok", "error"}
  /\ submit.body \subseteq Battles
  /\ submit.as \in {"none", "log", "null", "other"}
  /\ attempt \in 0 .. 3 /\ backoff \in Nat /\ wait \in Nat
  /\ answer.status \in Statuses \cup {"none", "lost"}
  /\ answer.after \in Afters \cup {NoHeader} /\ stopping \in BOOLEAN
  /\ played \in Battles \cup {0}
  /\ stored \subseteq Battles /\ held \subseteq Battles /\ shown \subseteq Battles

\* The most a submit can take: three calls and two waits.
Budget == 3 * MaxTimeout + Larger(MaxBackoff, MaxRetryAfter)
                         + Larger(2 * MaxBackoff, MaxRetryAfter)

\* "The server supplies the budget; guards keep a malformed or older config
\* safely inside the 90-second lease TTL": whatever the config and whatever
\* Retry-After the hub sends, wrapped durations included, no submit takes
\* longer than Budget from its first call to its last answer.
BudgetKept == pc \in Submitting => spent <= Budget

\* A result is sent again only if the hub has not answered it with a success
\* or an error the config does not list, and not before the Retry-After of
\* that answer is over (one past 2^63 ns is not seen), unless the collector
\* has been told to stop and gives the job its last chances at once.
ResendsAreWarranted ==
  [][pc = "sleep" /\ pc' = "submit" =>
       /\ answer.status # "success"
       /\ answer.status \in {"refusal", "throttled"} =>
            /\ answer.status \in cfg.listed
            /\ answer.after \in 0 .. Half - 1 /\ ~stopping =>
                 spent' - spent >= answer.after]_vars

\* What goes out as a success is what the API showed less exactly what the
\* hub held when it asked, entries without a readable time kept, and the counts
\* add up. A body that was cut off is never passed off as a battlelog, and one
\* that is no battlelog only if it is a null that a mark has had filtered.
SendsExactlyTheNew ==
  submit.status = "ok" =>
    /\ submit.body = fetched.battles \ (held \ Unreadable)
    /\ fetched.kind \in {"log", "null", "other"}
    /\ submit.as = fetched.kind \/ (fetched.kind = "null" /\ mark # 0)
    /\ mark # 0 =>
         submit.observed - submit.filtered = Cardinality(submit.body)

\* Across jobs, collectors, lost answers and crashes, every battle that was
\* in a fetch whose result the hub took is in the hub: dropping what is not
\* after the mark drops nothing it lacks.
NothingShownIsMissed == shown \subseteq stored

\* A battle the API goes on showing reaches the hub, unless there are too many
\* new ones for one submit.
BattlesArrive ==
  []<>(Window \subseteq stored
       \/ Cardinality(Kept(Window, MarkOf(stored))) > Fits)

\* README.md:527-530: "it retries the same lease within the server-supplied
\* retry budget, which stays inside the lease's 90-second lifetime."
SentWithinLease == pc = "submit" => age <= LeaseTTL

=============================================================================
