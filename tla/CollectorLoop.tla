--------------------------- MODULE CollectorLoop ---------------------------
(***************************************************************************)
(* One collector's forever loop (Run, PollOnce, LoadConfig, pace and       *)
(* refusedAsTooOld in internal/v2/v2.go) with its breaker: config, then    *)
(* check in, fetch, submit, and sleep as long as the door said.            *)
(*                                                                         *)
(* Time is what the loop is about. Every timestamp of the Client is kept   *)
(* as the time since it, negative when the code put it in the future, and  *)
(* every call and sleep takes some of it. The hub and the CR API answer as *)
(* they like.                                                              *)
(***************************************************************************)
EXTENDS Breaker

CONSTANTS
  Bodies,           \* what a /config answer can carry, see BodyType
  ErrorBodies,      \* and what an error answer of /config can carry
  Absent,           \* a field the answer leaves out
  DefaultPacing,    \* defaultPacingMS
  Watchdog,         \* WatchdogTimeout
  ConfigEvery,      \* the hourly refresh
  TooOldEvery,      \* tooOldConfigEvery
  PollError,        \* the sleep after a poll error
  IdleCheckIn,      \* idleCheckIn
  MinCheckIn,       \* minCheckIn
  CheckIns,         \* values the door can name as next_check_in_s
  LeaseAnswers,     \* answers of /lease in play, see AllLeaseAnswers
  Holds,            \* waits a 429 of the CR API can ask for, the 60 s default
                    \* of the code among them
  MaxCall,          \* bound: the longest door call
  MaxFetch,         \* bound: the longest CR fetch
  MaxSubmit,        \* bound: the longest submit, its retries included
  Slack,            \* bound: how much later than asked a sleep may end
  Cap               \* bound: each timer counts up to here

(***************************************************************************)
(* silent: no usable response at all. garbled: a response whose body does  *)
(* not decode. tooOld: 426. refused: any other status without a lease.     *)
(* empty: 200, no job.                                                     *)
(***************************************************************************)
AllLeaseAnswers == {"silent", "garbled", "tooOld", "refused", "empty", "job"}

BodyType == [pacing : Int \cup {Absent}, threshold : Int \cup {Absent},
             cooldown : Int \cup {Absent}]

\* answer, config and fetch are lastProgress, lastConfig and lastFetchStarted;
\* the rest are history: the last answer, the last fetch, the end of the last
\* 429's hold, the last 403, the last re-read a 426 caused, the last check-in.
Timers == {"answer", "config", "fetch", "heard", "started", "hold", "denied",
           "reread", "lease"}

ASSUME BodyAssumption ==
  /\ Absent \notin Int
  /\ Bodies \subseteq BodyType /\ ErrorBodies \subseteq BodyType
ASSUME DurationAssumption ==
  /\ {DefaultPacing, Watchdog, ConfigEvery, TooOldEvery, PollError,
      IdleCheckIn, MinCheckIn} \subseteq Nat \ {0}
  /\ {MaxCall, MaxFetch, MaxSubmit, Slack} \subseteq Nat
  /\ MinCheckIn <= PollError
  /\ CheckIns \subseteq Nat
  /\ Holds \subseteq Nat \ {0}
ASSUME AnswerAssumption == LeaseAnswers \subseteq AllLeaseAnswers
ASSUME CapAssumption ==
  /\ Cap \in [Timers -> Nat]
  /\ Cap["answer"] > Watchdog /\ Cap["config"] > ConfigEvery
  /\ Cap["config"] >= TooOldEvery /\ Cap["reread"] >= TooOldEvery
  /\ Cap["lease"] >= MinCheckIn
  /\ \A p \in {b.pacing : b \in Bodies \cup ErrorBodies}
              \cup {DefaultPacing} :
       p # Absent => p <= Cap["fetch"] /\ p <= Cap["started"]
  /\ \A c \in {b.cooldown : b \in Bodies \cup ErrorBodies}
              \cup {DefaultCooldown} :
       c # Absent => c <= Cap["denied"]

VARIABLES
  pc,       \* the line it stands at, "down" when it is not running
  cfg,      \* Client.cfg: pacing, threshold and cooldown as decoded
  brk,      \* Client.brk
  tooOld,   \* Client.tooOld
  age,      \* the timers
  \* History of this process.
  deaf,     \* a door call since the last answer got none
  granted,  \* the last check-in granted a job
  served,   \* a check-in since the last re-read was answered without a 426
  tripped,  \* a 403 has opened the breaker; since then no 200, and no higher
            \* limit while it was half-open
  heldAt,   \* the pacing in force at the last 429
  short     \* what the hold of the last fetch's 429 lacked of the pacing then

hist == <<deaf, granted, served, tripped, heldAt, short>>
vars == <<pc, cfg, brk, tooOld, age, hist>>

-----------------------------------------------------------------------------
\* Helpers

Larger(x, y) == IF x > y THEN x ELSE y
Capped(x, t) == IF x > Cap[t] THEN Cap[t] ELSE x

\* d passes on every timer; the breaker counts too.
Passed(d) == [t \in Timers |-> Capped(age[t] + d, t)]
Waits(b, d) == Elapse(b, d, Cap["denied"])

\* A sleep of w ends at w or somewhat later; one of w <= 0 is skipped.
Sleeps(w) == IF w > 0 THEN w .. w + Slack ELSE {0}

\* next_check_in_s, or fallback when the door names none.
NextWaits_NoFloor(fallback, floor) == {fallback} \cup CheckIns
NextWaits(fallback, floor) ==
  {Larger(w, floor) : w \in {fallback} \cup CheckIns}

LongAgo == [t \in Timers |-> Cap[t]]

Blank == [pacing |-> 0, threshold |-> 0, cooldown |-> 0]

\* The zero value of a Client, and of what a fresh process remembers.
Fresh ==
  /\ cfg = Blank /\ brk = New(0, 0) /\ tooOld = FALSE
  /\ age = LongAgo
  /\ deaf = FALSE /\ granted = FALSE /\ served = FALSE /\ tripped = FALSE
  /\ heldAt = 0 /\ short = 0

Forget ==
  /\ cfg' = Blank /\ brk' = New(0, 0) /\ tooOld' = FALSE
  /\ age' = LongAgo
  /\ deaf' = FALSE /\ granted' = FALSE /\ served' = FALSE /\ tripped' = FALSE
  /\ heldAt' = 0 /\ short' = 0

Init == pc = "down" /\ Fresh

-----------------------------------------------------------------------------
\* LoadConfig, at its three places

\* /config is decoded into the config in use: a field left out keeps its
\* value, whatever the status.
Merged(body) ==
  [f \in {"pacing", "threshold", "cooldown"} |->
     IF body[f] = Absent THEN cfg[f] ELSE body[f]]

WithDefaults_Negative(c) ==
  [c EXCEPT !.pacing = IF @ < 0 THEN DefaultPacing ELSE @]
WithDefaults(c) == [c EXCEPT !.pacing = IF @ <= 0 THEN DefaultPacing ELSE @]

\* lastConfig is set before the call, lastProgress when it is answered.
Called(d) ==
  [Passed(d) EXCEPT !["config"] = Capped(d, "config"),
                    !["reread"] = IF pc = "tooold" THEN Capped(d, "reread")
                                  ELSE @]

\* A half-open breaker has its streak from the limits of the moment it opened
\* by half.
LimitRaised ==
  /\ brk.openFor = Closed
  /\ brk'.threshold > brk.threshold \/ brk'.cooldown > brk.cooldown

ConfigRead(d) ==
  \E body \in Bodies :
    /\ cfg' = WithDefaults(Merged(body))
    /\ brk' = Configure(Waits(brk, d), Merged(body).threshold,
                        Merged(body).cooldown)
    /\ age' = [Called(d) EXCEPT !["answer"] = 0, !["heard"] = 0]
    /\ deaf' = FALSE /\ tripped' = (tripped /\ ~LimitRaised)

\* A status other than 200, or a body that stops decoding part way.
ConfigRefused(d) ==
  \E body \in ErrorBodies :
    /\ cfg' = Merged(body)
    /\ brk' = Waits(brk, d)
    /\ age' = [Called(d) EXCEPT !["answer"] = 0, !["heard"] = 0]
    /\ deaf' = FALSE /\ tripped' = tripped

ConfigUnanswered(d) ==
  /\ cfg' = cfg
  /\ brk' = Waits(brk, d)
  /\ age' = Called(d)
  /\ deaf' = TRUE /\ tripped' = tripped

Starts == pc = "down" /\ pc' = "boot" /\ Forget

\* Run returns the error of a first /config that fails, and main exits.
BootConfig ==
  /\ pc = "boot"
  /\ \E d \in 0 .. MaxCall :
       \/ ConfigRead(d) /\ pc' = "top"
       \/ (ConfigRefused(d) \/ ConfigUnanswered(d)) /\ pc' = "down"
  /\ UNCHANGED <<tooOld, granted, served, heldAt, short>>

RefreshConfig ==
  /\ pc = "refresh"
  /\ \E d \in 0 .. MaxCall :
       ConfigRead(d) \/ ConfigRefused(d) \/ ConfigUnanswered(d)
  /\ pc' = "poll"
  /\ UNCHANGED <<tooOld, granted, served, heldAt, short>>

\* Signal, kill, panic, or a self-update that a config answer started. After a
\* signal no sleep waits and no fetch is sent; what the last job still does is
\* Job's.
Dies ==
  /\ pc # "down"
  /\ pc' = "down"
  /\ UNCHANGED <<cfg, brk, tooOld, age, hist>>

-----------------------------------------------------------------------------
\* The top of the loop

Wedged_AtLimit == age["answer"] >= Watchdog
Wedged == age["answer"] > Watchdog

RefreshDue_Never == FALSE
RefreshDue == age["config"] > ConfigEvery

WatchdogExits ==
  /\ pc = "top" /\ Wedged
  /\ pc' = "down"
  /\ UNCHANGED <<cfg, brk, tooOld, age, hist>>

LoopTop ==
  /\ pc = "top" /\ ~Wedged
  /\ pc' = IF RefreshDue THEN "refresh" ELSE "poll"
  /\ UNCHANGED <<cfg, brk, tooOld, age, hist>>

-----------------------------------------------------------------------------
\* PollOnce up to the lease

BreakerWaits ==
  /\ pc = "poll" /\ IsOpen(brk)
  /\ \E d \in Sleeps(brk.cooldown) :
       age' = Passed(d) /\ brk' = Waits(brk, d)
  /\ pc' = "top"
  /\ UNCHANGED <<cfg, tooOld, hist>>

\* A check-in that takes d, then a sleep of s. An answer resets the
\* watchdog's clock, silence does not.
Progress_OnAttempt(answered) == TRUE
Progress(answered) == answered

CheckIn(answered, d, s) ==
  /\ pc = "poll" /\ ~IsOpen(brk)
  /\ brk' = Waits(HalfOpen(brk), d + s)
  /\ age' = [Passed(d + s) EXCEPT
               !["lease"] = Capped(d + s, "lease"),
               !["answer"] = IF Progress(answered) THEN Capped(s, "answer")
                             ELSE @,
               !["heard"] = IF answered THEN Capped(s, "heard") ELSE @]
  /\ deaf' = ~answered
  /\ UNCHANGED <<cfg, tripped, heldAt, short>>

LeaseFails ==
  /\ \E a \in LeaseAnswers \cap {"silent", "garbled"},
        d \in 0 .. MaxCall, s \in Sleeps(PollError) :
       CheckIn(a = "garbled", d, s)
  /\ pc' = "top" /\ granted' = FALSE
  /\ UNCHANGED <<tooOld, served>>

LeaseTooOld ==
  /\ "tooOld" \in LeaseAnswers
  /\ \E d \in 0 .. MaxCall : CheckIn(TRUE, d, 0)
  /\ pc' = "tooold" /\ granted' = FALSE
  /\ UNCHANGED <<tooOld, served>>

LeaseRefused ==
  /\ "refused" \in LeaseAnswers
  /\ \E d \in 0 .. MaxCall, w \in NextWaits(IdleCheckIn, MinCheckIn) :
       \E s \in Sleeps(w) : CheckIn(TRUE, d, s)
  /\ pc' = "top" /\ granted' = FALSE /\ tooOld' = FALSE /\ served' = TRUE

LeaseEmpty ==
  /\ "empty" \in LeaseAnswers
  /\ \E d \in 0 .. MaxCall, w \in NextWaits(IdleCheckIn, MinCheckIn) :
       \E s \in Sleeps(w) : CheckIn(TRUE, d, s)
  /\ pc' = "top" /\ granted' = FALSE /\ tooOld' = FALSE /\ served' = TRUE

LeaseJob ==
  /\ "job" \in LeaseAnswers
  /\ \E d \in 0 .. MaxCall : CheckIn(TRUE, d, 0)
  /\ pc' = "pace" /\ granted' = TRUE /\ tooOld' = FALSE /\ served' = TRUE

-----------------------------------------------------------------------------
\* Fetch and submit

PaceWait_None == 0
PaceWait == cfg.pacing - age["fetch"]

Pace ==
  /\ pc = "pace"
  /\ \E d \in Sleeps(PaceWait) :
       age' = Passed(d) /\ brk' = Waits(brk, d)
  /\ pc' = "fetch"
  /\ UNCHANGED <<cfg, tooOld, hist>>

\* lastFetchStarted is now; d later the CR API has answered.
Fetched(d) == [Passed(d) EXCEPT !["fetch"] = Capped(d, "fetch"),
                                !["started"] = Capped(d, "started")]

FetchSucceeds ==
  /\ pc = "fetch"
  /\ \E d \in 0 .. MaxFetch : age' = Fetched(d)
  /\ brk' = RecordSuccess(brk) /\ tripped' = FALSE
  /\ pc' = "submit"
  /\ short' = 0
  /\ UNCHANGED <<cfg, tooOld, deaf, granted, served, heldAt>>

FetchForbidden ==
  /\ pc = "fetch"
  /\ \E d \in 0 .. MaxFetch :
       /\ age' = [Fetched(d) EXCEPT !["denied"] = 0]
       /\ brk' = Record403(Waits(brk, d))
  /\ tripped' = (tripped \/ IsOpen(brk'))
  /\ pc' = "submit"
  /\ short' = 0
  /\ UNCHANGED <<cfg, tooOld, deaf, granted, served, heldAt>>

\* lastFetchStarted after a 429 is the hold's end less the pacing.
HeldFrom_Now(h) == 0
HeldFrom(h) == cfg.pacing - h

FetchThrottled ==
  /\ pc = "fetch"
  /\ \E d \in 0 .. MaxFetch, h \in Holds :
       /\ age' = [Fetched(d) EXCEPT
                    !["fetch"] = Capped(HeldFrom(h), "fetch"),
                    !["hold"] = -h]
       /\ brk' = Waits(brk, d)
       /\ heldAt' = cfg.pacing /\ short' = Larger(cfg.pacing - h, 0)
  /\ pc' = "submit"
  /\ UNCHANGED <<cfg, tooOld, deaf, granted, served, tripped>>

\* Any other status, or none.
FetchFails ==
  /\ pc = "fetch"
  /\ \E d \in 0 .. MaxFetch : age' = Fetched(d) /\ brk' = Waits(brk, d)
  /\ pc' = "submit" /\ short' = 0
  /\ UNCHANGED <<cfg, tooOld, deaf, granted, served, tripped, heldAt>>

\* submitWithRetry takes d, all attempts together.
Submitted(d, s) ==
  /\ pc = "submit"
  /\ brk' = Waits(brk, d + s)
  /\ age' = [Passed(d + s) EXCEPT !["answer"] = Capped(s, "answer"),
                                  !["heard"] = Capped(s, "heard")]
  /\ deaf' = FALSE
  /\ UNCHANGED <<cfg, tripped, served, granted, tooOld, heldAt, short>>

\* The last attempt got no answer; an earlier one may have got a 5xx.
SubmitFails ==
  /\ pc = "submit"
  /\ \E d \in 0 .. MaxSubmit, s \in Sleeps(PollError) :
       /\ brk' = Waits(brk, d + s)
       /\ \/ age' = Passed(d + s)
          \/ \E x \in s .. d + s :
               age' = [Passed(d + s) EXCEPT !["answer"] = Capped(x, "answer"),
                                            !["heard"] = Capped(x, "heard")]
  /\ deaf' = TRUE
  /\ pc' = "top"
  /\ UNCHANGED <<cfg, tripped, served, granted, tooOld, heldAt, short>>

\* A job done may be followed by the next one at once.
SubmitDone ==
  /\ \E d \in 0 .. MaxSubmit, w \in NextWaits(0, 0) :
       \E s \in Sleeps(w) : Submitted(d, s)
  /\ pc' = "top"

SubmitTooOld ==
  /\ "tooOld" \in LeaseAnswers
  /\ \E d \in 0 .. MaxSubmit : Submitted(d, 0)
  /\ pc' = "tooold"

-----------------------------------------------------------------------------
\* refusedAsTooOld

\* The first 426 forgets lastConfig, so the re-read is due at once.
RereadDue_Always == TRUE
RereadDue == ~tooOld \/ age["config"] >= TooOldEvery

TooOldRereads ==
  /\ pc = "tooold" /\ RereadDue
  /\ tooOld' = TRUE
  /\ \E d \in 0 .. MaxCall :
       ConfigRead(d) \/ ConfigRefused(d) \/ ConfigUnanswered(d)
  /\ served' = FALSE
  /\ pc' = "rest"
  /\ UNCHANGED <<granted, heldAt, short>>

\* Re-read or not, the normal wait follows.
TooOldRests ==
  /\ pc = "rest" \/ (pc = "tooold" /\ ~RereadDue)
  /\ \E w \in NextWaits(IdleCheckIn, MinCheckIn) :
       \E s \in Sleeps(w) : age' = Passed(s) /\ brk' = Waits(brk, s)
  /\ pc' = "top"
  /\ UNCHANGED <<cfg, tooOld, hist>>

-----------------------------------------------------------------------------
\* The specification

Config == BootConfig \/ RefreshConfig \/ TooOldRereads
Lease == \/ LeaseFails \/ LeaseTooOld \/ LeaseRefused \/ LeaseEmpty
         \/ LeaseJob
Fetch == Pace \/ FetchSucceeds \/ FetchForbidden \/ FetchThrottled \/ FetchFails
Submit == SubmitFails \/ SubmitDone \/ SubmitTooOld

Collector == \/ Starts \/ Config \/ WatchdogExits \/ LoopTop \/ BreakerWaits
             \/ Lease \/ Fetch \/ Submit \/ TooOldRests

Next == Collector \/ Dies

Spec == Init /\ [][Next]_vars

\* A running process runs, and its supervisor starts it again.
LiveSpec == Spec /\ WF_vars(Collector)
-----------------------------------------------------------------------------
\* Properties

Lines == {"down", "boot", "top", "refresh", "poll", "pace", "fetch",
          "submit", "tooold", "rest"}

\* Every variable has its type, and no timer passes its cap.
TypeOK ==
  /\ pc \in Lines
  /\ cfg \in [pacing : Int, threshold : Int, cooldown : Int]
  /\ brk \in Breakers
  /\ age \in [Timers -> Int] /\ \A t \in Timers : age[t] <= Cap[t]
  /\ {tooOld, deaf, granted, served, tripped} \subseteq BOOLEAN
  /\ heldAt \in Int /\ short \in Nat

\* When a fetch starts, the last one of this process started at least the
\* pacing ago, 429s in between or not (pace, and the arithmetic on
\* lastFetchStarted), less only what a Retry-After shorter than the pacing has
\* put in its place. README.md:521: "It paces itself (server-configured)".
PacingKept == pc = "fetch" => age["started"] >= cfg.pacing - short

\* No fetch starts before a 429's Retry-After is over (lastFetchStarted is
\* put in the future, and pace waits it out whatever happens in between), but
\* for what the pacing is lower now than it was at that 429: lastFetchStarted
\* is kept relative to it.
HoldKept ==
  pc = "fetch" =>
    age["hold"] >= IF cfg.pacing < heldAt THEN cfg.pacing - heldAt ELSE 0

\* No fetch is unpaced: a missing or zero pacing_ms falls back to the default
\* before a fetch can use it.
FetchesArePaced == pc = "fetch" => cfg.pacing > 0

\* Once 403s have opened the breaker, and until the CR API answers 200, every
\* fetch is at least a cooldown after the last 403: one probe per cooldown,
\* across refreshes that raise or lower the limits, refusals and failed
\* check-ins. A limit raised between half-open and the probe's 403 ends this
\* until the breaker opens again.
OneProbePerCooldown ==
  pc \in {"pace", "fetch"} /\ tripped => age["denied"] >= brk.cooldown

\* The watchdog only restarts a process whose calls the hub left unanswered:
\* waiting, for a breaker or for the door's own interval, is not a wedge.
WatchdogMeansUnreachable == pc = "top" /\ Wedged => deaf

\* The longest way from one look at the watchdog to the next without an
\* answer: a refresh, then a check-in or an open breaker.
Unwatched == MaxCall + Larger(MaxCall + PollError, brk.cooldown) + Slack

\* A hub that stops answering is noticed: no process comes to the top of the
\* loop with its last answer older than the watchdog's limit and one such way.
OutageIsNoticed == pc = "top" => age["heard"] <= Watchdog + Unwatched

\* Two check-ins follow each other at once only when the first one granted a
\* job; every other answer, and every failure, costs at least minCheckIn.
NoTightLoop == pc = "poll" => age["lease"] >= MinCheckIn \/ granted

\* While the hub answers this client with nothing but 426, /config is re-read
\* at most every tooOldConfigEvery, whether or not the re-reads succeed (so
\* lastConfig is set before the call, and a failed call must not clear it).
RereadsAreSpaced ==
  pc = "tooold" /\ RereadDue => age["reread"] >= TooOldEvery \/ served

\* The update authority is asked again and again, whatever the hub and the
\* CR API answer: no refusal, open breaker, hold or outage stops it.
ConfigIsReadAgain == []<>(pc \in {"boot", "refresh", "rest"})

=============================================================================
