------------------------ MODULE CollectorLoopProofs ------------------------
(***************************************************************************)
(* Theorems about CollectorLoop and its breaker, for every set of          *)
(* durations, every hub and every CR API.                                  *)
(***************************************************************************)
EXTENDS CollectorLoop, TLAPS

-----------------------------------------------------------------------------
\* The breaker's operators

\* A breaker with a field replaced.
LEMMA BreakerFields ==
  ASSUME NEW b \in Breakers
  PROVE  /\ b.threshold \in Nat \ {0} /\ b.cooldown \in Nat \ {0}
         /\ b.streak \in Nat /\ b.openFor \in Nat \cup {Closed}
BY DEF Breakers

LEMMA ConfiguredBreaker ==
  ASSUME NEW b \in Breakers, NEW t \in Int, NEW c \in Int
  PROVE  LET n == Configure(b, t, c) IN
         /\ n \in Breakers
         /\ n.streak = b.streak /\ n.openFor = b.openFor
         /\ n.threshold = IF t > 0 THEN t ELSE DefaultThreshold
         /\ n.cooldown = IF c > 0 THEN c ELSE DefaultCooldown
<1> DEFINE T == IF t > 0 THEN t ELSE DefaultThreshold
           C == IF c > 0 THEN c ELSE DefaultCooldown
<1>1. T \in Nat \ {0} /\ C \in Nat \ {0}
  BY BreakerAssumption
<1>2. Configure(b, t, c) = [b EXCEPT !.threshold = T, !.cooldown = C]
  BY DEF Configure
<1>3. /\ Configure(b, t, c) \in Breakers
      /\ Configure(b, t, c).threshold = T /\ Configure(b, t, c).cooldown = C
      /\ Configure(b, t, c).streak = b.streak
      /\ Configure(b, t, c).openFor = b.openFor
  <2> HIDE DEF T, C
  <2> QED
    BY <1>1, <1>2 DEF Breakers
<1> QED
  BY <1>3

LEMMA NewBreaker ==
  New(0, 0) = [threshold |-> DefaultThreshold, cooldown |-> DefaultCooldown,
               streak |-> 0, openFor |-> Closed]
<1> DEFINE z == [threshold |-> DefaultThreshold, cooldown |-> DefaultCooldown,
                 streak |-> 0, openFor |-> Closed]
<1>1. New(0, 0) = [z EXCEPT !.threshold = DefaultThreshold,
                            !.cooldown = DefaultCooldown]
  BY DEF New, Configure
<1> QED
  BY <1>1

LEMMA ElapsedBreaker ==
  ASSUME NEW b \in Breakers, NEW d \in Nat, NEW limit \in Nat
  PROVE  LET n == Elapse(b, d, limit) IN
         /\ n \in Breakers
         /\ n.threshold = b.threshold /\ n.cooldown = b.cooldown
         /\ n.streak = b.streak
         /\ b.openFor = Closed => n.openFor = Closed
         /\ b.openFor # Closed =>
              /\ n.openFor # Closed
              /\ n.openFor = IF b.openFor + d > limit THEN limit
                             ELSE b.openFor + d
BY DEF Elapse, Breakers, Closed

LEMMA HalfOpenBreaker ==
  ASSUME NEW b \in Breakers
  PROVE  LET n == HalfOpen(b) IN
         /\ n \in Breakers
         /\ n.threshold = b.threshold /\ n.cooldown = b.cooldown
         /\ b.openFor = Closed \/ IsOpen(b) => n = b
         /\ b.openFor # Closed /\ ~IsOpen(b) =>
              n.openFor = Closed /\ n.streak = b.threshold - 1
<1>1. b.threshold - 1 \in Nat
  BY BreakerFields
<1>2. CASE b.openFor = Closed \/ IsOpen(b)
  BY <1>2 DEF HalfOpen, IsOpen
<1>3. CASE ~(b.openFor = Closed \/ IsOpen(b))
  <2>1. HalfOpen(b) = [b EXCEPT !.openFor = Closed, !.streak = b.threshold - 1]
    BY <1>3 DEF HalfOpen
  <2> QED
    BY <1>1, <1>3, <2>1 DEF Breakers
<1> QED
  BY <1>2, <1>3

LEMMA SucceededBreaker ==
  ASSUME NEW b \in Breakers
  PROVE  LET n == RecordSuccess(b) IN
         /\ n \in Breakers
         /\ n.threshold = b.threshold /\ n.cooldown = b.cooldown
         /\ n.openFor = Closed
BY DEF RecordSuccess, Breakers, Closed

\* A 403 for a breaker that is not open opens it at its threshold.
LEMMA DeniedBreaker ==
  ASSUME NEW b \in Breakers
  PROVE  LET n == Record403(b) IN
         /\ n \in Breakers
         /\ n.threshold = b.threshold /\ n.cooldown = b.cooldown
         /\ b.openFor = Closed =>
              /\ b.streak + 1 >= b.threshold => n.openFor = 0 /\ IsOpen(n)
              /\ b.streak + 1 < b.threshold => n.openFor = Closed /\ ~IsOpen(n)
<1> DEFINE opens == b.streak + 1 >= b.threshold /\ b.openFor = Closed
           m == [b EXCEPT !.streak = @ + 1,
                          !.openFor = IF opens THEN 0 ELSE @]
<1>1. /\ m \in Breakers
      /\ m.threshold = b.threshold /\ m.cooldown = b.cooldown
      /\ m.openFor = IF opens THEN 0 ELSE b.openFor
  <2>1. b.streak + 1 \in Nat /\ (IF opens THEN 0 ELSE b.openFor) \in Nat \cup {Closed}
    BY BreakerFields
  <2>2. m = [b EXCEPT !.streak = b.streak + 1,
                      !.openFor = IF opens THEN 0 ELSE b.openFor]
    OBVIOUS
  <2> HIDE DEF m, opens
  <2> QED
    BY <2>1, <2>2 DEF Breakers
<1>2. b.streak \in Nat /\ b.threshold \in Nat \ {0} /\ b.cooldown \in Nat \ {0}
  BY DEF Breakers
<1>3. Record403(b) = HalfOpen(m)
  BY DEF Record403
<1> HIDE DEF m
<1>4. m.openFor = 0 => IsOpen(m)
  BY <1>1, <1>2 DEF IsOpen, Closed
<1>5. m.openFor = Closed => ~IsOpen(m)
  BY DEF IsOpen
<1> QED
  BY <1>1, <1>2, <1>3, <1>4, <1>5, HalfOpenBreaker DEF Closed

-----------------------------------------------------------------------------
\* The timers

Ages == {a \in [Timers -> Int] : \A t \in Timers : a[t] <= Cap[t]}

LEMMA CappedTimer ==
  ASSUME NEW x \in Int, NEW t \in Timers
  PROVE  /\ Capped(x, t) \in Int
         /\ Capped(x, t) <= Cap[t] /\ Capped(x, t) <= x
         /\ x <= Cap[t] => Capped(x, t) = x
         /\ x >= Cap[t] => Capped(x, t) = Cap[t]
         /\ x >= 0 => Capped(x, t) >= 0
BY CapAssumption DEF Capped

LEMMA PassedTimers ==
  ASSUME age \in Ages, NEW d \in Nat
  PROVE  /\ Passed(d) \in Ages
         /\ \A t \in Timers : Passed(d)[t] = Capped(age[t] + d, t)
BY CappedTimer DEF Passed, Ages

\* A timer of an answer, of a call, of a sleep is set to some time.
LEMMA SetTimers ==
  ASSUME NEW a \in Ages, NEW t \in Timers, NEW x \in Int, x <= Cap[t]
  PROVE  /\ [a EXCEPT ![t] = x] \in Ages
         /\ [a EXCEPT ![t] = x][t] = x
         /\ \A u \in Timers \ {t} : [a EXCEPT ![t] = x][u] = a[u]
BY DEF Ages

LEMMA LongAgoTimers == LongAgo \in Ages /\ \A t \in Timers : LongAgo[t] = Cap[t]
BY CapAssumption DEF LongAgo, Ages

LEMMA SleepTimes == \A w \in Int : Sleeps(w) \subseteq Nat
BY DurationAssumption DEF Sleeps

LEMMA WaitTimes ==
  ASSUME NEW f \in Nat, NEW g \in Nat
  PROVE  NextWaits(f, g) \subseteq Nat
BY DurationAssumption DEF NextWaits, Larger

-----------------------------------------------------------------------------
\* What a stretch without a fetch does: the fetch timers and the breaker, b
\* when it begins, see d pass and nothing else.

CfgType == [pacing : Int, threshold : Int, cooldown : Int]

FetchTimers == {"fetch", "started", "hold", "denied"}

Quiet(b, d) ==
  /\ age' \in Ages /\ \A t \in FetchTimers : age'[t] = Capped(age[t] + d, t)
  /\ brk' \in Breakers
  /\ brk'.streak = b.streak
  /\ b.openFor = Closed => brk'.openFor = Closed
  /\ b.openFor # Closed => brk'.openFor = Capped(b.openFor + d, "denied")

LEMMA TypedState ==
  TypeOK => /\ age \in Ages /\ cfg \in CfgType /\ brk \in Breakers
            /\ {tooOld, deaf, granted, served, tripped} \subseteq BOOLEAN
            /\ heldAt \in Int /\ short \in Nat
BY DEF TypeOK, Ages, CfgType

LEMMA WaitedBreaker ==
  ASSUME NEW b \in Breakers, NEW d \in Nat
  PROVE  /\ Waits(b, d) \in Breakers /\ Waits(b, d).streak = b.streak
         /\ Waits(b, d).threshold = b.threshold
         /\ Waits(b, d).cooldown = b.cooldown
         /\ b.openFor = Closed => Waits(b, d).openFor = Closed
         /\ b.openFor # Closed =>
              Waits(b, d).openFor = Capped(b.openFor + d, "denied")
<1>1. Cap["denied"] \in Nat
  BY CapAssumption DEF Timers
<1>2. b.openFor # Closed => b.openFor \in Nat
  BY BreakerFields
<1> QED
  BY <1>1, <1>2, ElapsedBreaker DEF Waits, Capped

LEMMA WaitIsQuiet ==
  ASSUME TypeOK, NEW d \in Nat, age' = Passed(d), brk' = Waits(brk, d)
  PROVE  Quiet(brk, d) /\ brk'.threshold = brk.threshold
                       /\ brk'.cooldown = brk.cooldown
<1>1. age' \in Ages /\ \A t \in FetchTimers : age'[t] = Capped(age[t] + d, t)
  BY TypedState, PassedTimers DEF FetchTimers, Timers
<1> QED
  BY <1>1, TypedState, WaitedBreaker DEF Quiet

\* Timers other than a fetch's may be set on the way.
LEMMA AnswerIsQuiet ==
  ASSUME TypeOK, NEW d \in Nat, NEW x \in Int, NEW y \in Int,
         x <= Cap["answer"], y <= Cap["heard"],
         age' = [Passed(d) EXCEPT !["answer"] = x, !["heard"] = y]
  PROVE  age' \in Ages /\ \A t \in FetchTimers : age'[t] = Capped(age[t] + d, t)
<1>1. Passed(d) \in Ages
      /\ \A t \in Timers : Passed(d)[t] = Capped(age[t] + d, t)
  BY TypedState, PassedTimers
<1> HIDE DEF Passed
<1> QED
  BY <1>1 DEF Ages, FetchTimers, Timers

LEMMA CalledTimers ==
  ASSUME TypeOK, NEW d \in Nat
  PROVE  Called(d) \in Ages
         /\ \A t \in FetchTimers : Called(d)[t] = Capped(age[t] + d, t)
<1>1. Passed(d) \in Ages
      /\ \A t \in Timers : Passed(d)[t] = Capped(age[t] + d, t)
  BY TypedState, PassedTimers
<1>2. /\ Capped(d, "config") \in Int /\ Capped(d, "config") <= Cap["config"]
      /\ Capped(d, "reread") \in Int /\ Capped(d, "reread") <= Cap["reread"]
  BY CappedTimer DEF Timers
<1>3. CASE pc = "tooold"
  <2>1. Called(d) = [Passed(d) EXCEPT !["config"] = Capped(d, "config"),
                                      !["reread"] = Capped(d, "reread")]
    BY <1>3 DEF Called
  <2> HIDE DEF Passed, Capped
  <2> QED
    BY <1>1, <1>2, <2>1 DEF Ages, FetchTimers, Timers
<1>4. CASE pc # "tooold"
  <2>1. Called(d) = [Passed(d) EXCEPT !["config"] = Capped(d, "config"),
                                      !["reread"] = @]
    BY <1>4 DEF Called
  <2> HIDE DEF Passed, Capped
  <2> QED
    BY <1>1, <1>2, <2>1 DEF Ages, FetchTimers, Timers
<1> QED
  BY <1>3, <1>4

LEMMA MergedConfig ==
  ASSUME cfg \in CfgType, NEW body \in BodyType
  PROVE  /\ Merged(body) \in CfgType
         /\ \A f \in {"pacing", "threshold", "cooldown"} :
              Merged(body)[f] = IF body[f] = Absent THEN cfg[f] ELSE body[f]
BY DEF Merged, CfgType, BodyType

LEMMA DefaultedConfig ==
  ASSUME NEW c \in CfgType
  PROVE  /\ WithDefaults(c) \in CfgType
         /\ WithDefaults(c).pacing =
              IF c.pacing <= 0 THEN DefaultPacing ELSE c.pacing
         /\ WithDefaults(c).threshold = c.threshold
         /\ WithDefaults(c).cooldown = c.cooldown
BY DurationAssumption DEF WithDefaults, CfgType

LEMMA AnsweredCall ==
  ASSUME TypeOK, NEW d \in Nat,
         age' = [Called(d) EXCEPT !["answer"] = 0, !["heard"] = 0]
  PROVE  age' \in Ages /\ \A t \in FetchTimers : age'[t] = Capped(age[t] + d, t)
<1>1. Cap["answer"] \in Nat /\ Cap["heard"] \in Nat
  BY CapAssumption DEF Timers
<1>2. Called(d) \in Ages
      /\ \A t \in FetchTimers : Called(d)[t] = Capped(age[t] + d, t)
  BY CalledTimers
<1> HIDE DEF Called
<1> QED
  BY <1>1, <1>2 DEF Ages, FetchTimers, Timers

\* /config touches neither the fetch timers nor what the breaker counts.
LEMMA ConfigIsQuiet ==
  ASSUME TypeOK, NEW d \in Nat,
         ConfigRead(d) \/ ConfigRefused(d) \/ ConfigUnanswered(d)
  PROVE  Quiet(brk, d) /\ cfg' \in CfgType /\ {deaf', tripped'} \subseteq BOOLEAN
<1>0. tripped' \in BOOLEAN
  BY TypedState, Zenon DEF ConfigRead, ConfigRefused, ConfigUnanswered
<1>1. CASE ConfigRead(d)
  <2>1. PICK body \in Bodies :
          /\ cfg' = WithDefaults(Merged(body))
          /\ brk' = Configure(Waits(brk, d), Merged(body).threshold,
                              Merged(body).cooldown)
          /\ age' = [Called(d) EXCEPT !["answer"] = 0, !["heard"] = 0]
          /\ deaf' = FALSE
    BY <1>1 DEF ConfigRead
  <2>2. Merged(body) \in CfgType
    BY TypedState, MergedConfig, BodyAssumption
  <2>3. Merged(body).threshold \in Int /\ Merged(body).cooldown \in Int
    BY <2>2 DEF CfgType
  <2>4. /\ brk' \in Breakers /\ brk'.streak = Waits(brk, d).streak
        /\ brk'.openFor = Waits(brk, d).openFor
    BY <2>1, <2>3, TypedState, WaitedBreaker, ConfiguredBreaker
  <2> QED
    BY <1>0, <2>1, <2>2, <2>4, TypedState, WaitedBreaker, AnsweredCall,
       DefaultedConfig DEF Quiet
<1>2. CASE ConfigRefused(d)
  <2>1. PICK body \in ErrorBodies :
          /\ cfg' = Merged(body)
          /\ brk' = Waits(brk, d)
          /\ age' = [Called(d) EXCEPT !["answer"] = 0, !["heard"] = 0]
          /\ deaf' = FALSE
    BY <1>2 DEF ConfigRefused
  <2>2. Merged(body) \in CfgType
    BY TypedState, MergedConfig, BodyAssumption
  <2> QED
    BY <1>0, <2>1, <2>2, TypedState, WaitedBreaker, AnsweredCall DEF Quiet
<1>3. CASE ConfigUnanswered(d)
  BY <1>0, <1>3, TypedState, WaitedBreaker, CalledTimers
     DEF ConfigUnanswered, Quiet
<1> QED
  BY <1>1, <1>2, <1>3

\* A check-in makes the breaker half-open if it is time.
LEMMA CheckInIsQuiet ==
  ASSUME TypeOK, NEW d \in Nat, NEW s \in Nat, NEW answered \in BOOLEAN,
         CheckIn(answered, d, s)
  PROVE  /\ Quiet(HalfOpen(brk), d + s) /\ ~IsOpen(brk)
         /\ brk'.threshold = brk.threshold /\ brk'.cooldown = brk.cooldown
         /\ deaf' \in BOOLEAN /\ UNCHANGED <<cfg, tripped, heldAt, short>>
<1>1. Passed(d + s) \in Ages
      /\ \A t \in Timers : Passed(d + s)[t] = Capped(age[t] + (d + s), t)
  BY TypedState, PassedTimers
<1>2. \A t \in Timers : /\ Capped(s, t) \in Int /\ Capped(s, t) <= Cap[t]
                        /\ Capped(d + s, t) \in Int
                        /\ Capped(d + s, t) <= Cap[t]
  BY CappedTimer
<1>3. PICK x \in Int, y \in Int :
        /\ age' = [Passed(d + s) EXCEPT !["lease"] = Capped(d + s, "lease"),
                                        !["answer"] = x, !["heard"] = y]
        /\ x <= Cap["answer"] /\ y <= Cap["heard"]
  <2>1. CASE answered
    BY <2>1, <1>2 DEF CheckIn, Progress, Timers
  <2>2. CASE ~answered
    <3>1. /\ Passed(d + s)["answer"] \in Int
          /\ Passed(d + s)["answer"] <= Cap["answer"]
          /\ Passed(d + s)["heard"] \in Int
          /\ Passed(d + s)["heard"] <= Cap["heard"]
      BY <1>1 DEF Ages, Timers
    <3> HIDE DEF Passed, Capped
    <3> QED
      BY <2>2, <3>1 DEF CheckIn, Progress
  <2> QED
    BY <2>1, <2>2
<1>4. age' \in Ages
      /\ \A t \in FetchTimers : age'[t] = Capped(age[t] + (d + s), t)
  BY <1>1, <1>2, <1>3 DEF Ages, FetchTimers, Timers
<1>5. brk' = Waits(HalfOpen(brk), d + s) /\ HalfOpen(brk) \in Breakers
  BY TypedState, HalfOpenBreaker DEF CheckIn
<1>6. /\ Waits(HalfOpen(brk), d + s) \in Breakers
      /\ Waits(HalfOpen(brk), d + s).streak = HalfOpen(brk).streak
      /\ HalfOpen(brk).openFor = Closed =>
           Waits(HalfOpen(brk), d + s).openFor = Closed
      /\ HalfOpen(brk).openFor # Closed =>
           Waits(HalfOpen(brk), d + s).openFor
             = Capped(HalfOpen(brk).openFor + (d + s), "denied")
      /\ Waits(HalfOpen(brk), d + s).threshold = HalfOpen(brk).threshold
      /\ Waits(HalfOpen(brk), d + s).cooldown = HalfOpen(brk).cooldown
  BY <1>5, WaitedBreaker
<1>7. Quiet(HalfOpen(brk), d + s)
  <2> HIDE DEF Waits, HalfOpen, Capped
  <2> QED
    BY <1>4, <1>5, <1>6 DEF Quiet
<1>8. brk'.threshold = brk.threshold /\ brk'.cooldown = brk.cooldown
  BY <1>5, <1>6, TypedState, HalfOpenBreaker
<1>9. ~IsOpen(brk) /\ UNCHANGED <<cfg, tripped, heldAt, short>>
  BY DEF CheckIn
<1>10. deaf' \in BOOLEAN
  BY Zenon DEF CheckIn
<1> QED
  BY <1>7, <1>8, <1>9, <1>10

-----------------------------------------------------------------------------
\* Every action, as far as the fetches are concerned.

\* d passed; the limits, the config and the history of the breaker stay.
Steady(b, d) ==
  /\ Quiet(b, d)
  /\ brk'.threshold = brk.threshold /\ brk'.cooldown = brk.cooldown
  /\ UNCHANGED <<cfg, tripped, heldAt, short>>
  /\ {tooOld', deaf', granted', served'} \subseteq BOOLEAN

Waiting == BreakerWaits \/ Pace \/ TooOldRests

LEMMA AnyWaitIsSteady ==
  ASSUME TypeOK, Waiting
  PROVE  /\ \E d \in Nat : /\ Steady(brk, d)
                           /\ pc' = "fetch" => d >= PaceWait
         /\ pc' \in {"top", "fetch"}
         /\ pc' = "fetch" => pc = "pace"
<1>1. CASE BreakerWaits
  <2>1. PICK d \in Sleeps(brk.cooldown) :
          age' = Passed(d) /\ brk' = Waits(brk, d)
    BY <1>1 DEF BreakerWaits
  <2>2. d \in Nat
    BY TypedState, BreakerFields, SleepTimes
  <2> QED
    BY <1>1, <2>1, <2>2, WaitIsQuiet, TypedState DEF BreakerWaits, Steady, hist
<1>2. CASE Pace
  <2>1. PICK d \in Sleeps(PaceWait) : age' = Passed(d) /\ brk' = Waits(brk, d)
    BY <1>2 DEF Pace
  <2>2. PaceWait \in Int
    BY TypedState DEF PaceWait, CfgType, Ages, Timers
  <2>3. d \in Nat /\ d >= PaceWait
    BY <2>1, <2>2, DurationAssumption DEF Sleeps
  <2> QED
    BY <1>2, <2>1, <2>3, WaitIsQuiet, TypedState DEF Pace, Steady, hist
<1>3. CASE TooOldRests
  <2>1. PICK w \in NextWaits(IdleCheckIn, MinCheckIn) :
          \E s \in Sleeps(w) : age' = Passed(s) /\ brk' = Waits(brk, s)
    BY <1>3 DEF TooOldRests
  <2>2. w \in Nat
    BY DurationAssumption, WaitTimes
  <2>3. PICK s \in Sleeps(w) : age' = Passed(s) /\ brk' = Waits(brk, s)
    BY <2>1
  <2>4. s \in Nat
    BY <2>2, SleepTimes
  <2> QED
    BY <1>3, <2>3, <2>4, WaitIsQuiet, TypedState
       DEF TooOldRests, Steady, hist
<1> QED
  BY <1>1, <1>2, <1>3 DEF Waiting

LEMMA LeaseIsSteady ==
  ASSUME TypeOK, Lease
  PROVE  /\ pc = "poll" /\ ~IsOpen(brk)
         /\ \E d \in Nat : Steady(HalfOpen(brk), d)
         /\ pc' \in {"top", "tooold", "pace"}
<1>1. \E answered \in BOOLEAN, d \in Nat, s \in Nat : CheckIn(answered, d, s)
  <2>1. 0 \in Nat /\ \A d \in 0 .. MaxCall : d \in Nat
    BY DurationAssumption
  <2>2. \A s \in Sleeps(PollError) : s \in Nat
    BY DurationAssumption, SleepTimes
  <2>3. \A w \in NextWaits(IdleCheckIn, MinCheckIn) : \A s \in Sleeps(w) : s \in Nat
    BY DurationAssumption, WaitTimes, SleepTimes
  <2>4. CASE LeaseFails
    BY <2>1, <2>2, <2>4 DEF LeaseFails
  <2>5. CASE LeaseTooOld \/ LeaseJob
    BY <2>1, <2>5 DEF LeaseTooOld, LeaseJob
  <2>6. CASE LeaseRefused
    BY <2>1, <2>3, <2>6 DEF LeaseRefused
  <2>7. CASE LeaseEmpty
    BY <2>1, <2>3, <2>7 DEF LeaseEmpty
  <2> QED
    BY <2>4, <2>5, <2>6, <2>7 DEF Lease
<1>2. {tooOld', granted', served'} \subseteq BOOLEAN
      /\ pc' \in {"top", "tooold", "pace"}
  BY TypedState DEF Lease, LeaseFails, LeaseTooOld, LeaseRefused, LeaseEmpty,
     LeaseJob
<1>3. PICK answered \in BOOLEAN, d \in Nat, s \in Nat : CheckIn(answered, d, s)
  BY <1>1
<1>4. /\ Quiet(HalfOpen(brk), d + s) /\ ~IsOpen(brk)
      /\ brk'.threshold = brk.threshold /\ brk'.cooldown = brk.cooldown
      /\ deaf' \in BOOLEAN /\ UNCHANGED <<cfg, tripped, heldAt, short>>
  BY <1>3, CheckInIsQuiet
<1>5. pc = "poll" /\ d + s \in Nat
  BY <1>3 DEF CheckIn
<1> QED
  BY <1>2, <1>4, <1>5 DEF Steady

LEMMA SubmitIsSteady ==
  ASSUME TypeOK, Submit
  PROVE  \E d \in Nat : Steady(brk, d) /\ pc' \in {"top", "tooold"}
<1>1. \A d \in 0 .. MaxSubmit : d \in Nat
  BY DurationAssumption
<1>2. \A w \in NextWaits(0, 0) : \A s \in Sleeps(w) : s \in Nat
  BY WaitTimes, SleepTimes
<1>3. \A s \in Sleeps(PollError) : s \in Nat
  BY DurationAssumption, SleepTimes
<1>4. ASSUME NEW d \in Nat, NEW s \in Nat, Submitted(d, s)
      PROVE  Quiet(brk, d + s) /\ UNCHANGED <<cfg, tripped, heldAt, short>>
             /\ brk'.threshold = brk.threshold /\ brk'.cooldown = brk.cooldown
             /\ {tooOld', deaf', granted', served'} \subseteq BOOLEAN
  <2>1. /\ Capped(s, "answer") \in Int /\ Capped(s, "answer") <= Cap["answer"]
        /\ Capped(s, "heard") \in Int /\ Capped(s, "heard") <= Cap["heard"]
    BY CappedTimer DEF Timers
  <2>2. d + s \in Nat
    OBVIOUS
  <2> QED
    BY <1>4, <2>1, <2>2, AnswerIsQuiet, WaitedBreaker, TypedState
       DEF Submitted, Quiet
<1>5. CASE SubmitFails
  <2>1. PICK d \in Nat, s \in Nat :
          /\ brk' = Waits(brk, d + s)
          /\ \/ age' = Passed(d + s)
             \/ \E x \in s .. d + s :
                  age' = [Passed(d + s) EXCEPT
                            !["answer"] = Capped(x, "answer"),
                            !["heard"] = Capped(x, "heard")]
    BY <1>1, <1>3, <1>5 DEF SubmitFails
  <2>2. d + s \in Nat /\ \A x \in s .. d + s : x \in Int
    OBVIOUS
  <2>3. \A x \in Int :
          /\ Capped(x, "answer") \in Int /\ Capped(x, "answer") <= Cap["answer"]
          /\ Capped(x, "heard") \in Int /\ Capped(x, "heard") <= Cap["heard"]
    BY CappedTimer DEF Timers
  <2>4. Quiet(brk, d + s)
    <3>1. CASE age' = Passed(d + s)
      BY <3>1, <2>1, <2>2, WaitIsQuiet
    <3>2. CASE \E x \in s .. d + s :
                 age' = [Passed(d + s) EXCEPT !["answer"] = Capped(x, "answer"),
                                              !["heard"] = Capped(x, "heard")]
      BY <3>2, <2>1, <2>2, <2>3, AnswerIsQuiet, WaitedBreaker, TypedState
         DEF Quiet
    <3> QED
      BY <2>1, <3>1, <3>2
  <2> QED
    BY <1>5, <2>1, <2>2, <2>4, WaitedBreaker, TypedState DEF SubmitFails, Steady
<1>6. CASE SubmitDone
  <2>1. PICK d \in Nat, s \in Nat : Submitted(d, s)
    BY <1>1, <1>2, <1>6 DEF SubmitDone
  <2>2. d + s \in Nat
    OBVIOUS
  <2> QED
    BY <1>4, <1>6, <2>1, <2>2 DEF SubmitDone, Steady
<1>7. CASE SubmitTooOld
  <2>1. PICK d \in Nat : Submitted(d, 0)
    BY <1>1, <1>7 DEF SubmitTooOld
  <2>2. d + 0 \in Nat
    OBVIOUS
  <2> QED
    BY <1>4, <1>7, <2>1, <2>2 DEF SubmitTooOld, Steady
<1> QED
  BY <1>5, <1>6, <1>7 DEF Submit

\* A fetch: its timers start again, and a 429 puts lastFetchStarted ahead.
Fetching(d) ==
  /\ pc = "fetch" /\ pc' = "submit"
  /\ age' \in Ages
  /\ age'["started"] = Capped(d, "started")
  /\ \/ /\ age'["fetch"] = Capped(d, "fetch")
        /\ age'["hold"] = Capped(age["hold"] + d, "hold")
        /\ heldAt' = heldAt /\ short' = 0
     \/ \E h \in Holds : /\ age'["fetch"] = Capped(cfg.pacing - h, "fetch")
                         /\ age'["hold"] = -h
                         /\ heldAt' = cfg.pacing
                         /\ short' = Larger(cfg.pacing - h, 0)
  /\ brk' \in Breakers
  /\ brk'.threshold = brk.threshold /\ brk'.cooldown = brk.cooldown
  /\ UNCHANGED <<cfg, tooOld, deaf, granted, served>>

\* Whatever the CR API answers, the breaker counts a 403 and forgets at a 200.
Counting(d) ==
  \/ /\ brk' = RecordSuccess(brk) /\ tripped' = FALSE
  \/ /\ brk' = Record403(Waits(brk, d)) /\ age'["denied"] = 0
     /\ tripped' = (tripped \/ IsOpen(brk'))
  \/ /\ brk' = Waits(brk, d) /\ tripped' = tripped
     /\ age'["denied"] = Capped(age["denied"] + d, "denied")

LEMMA FetchIsCounted ==
  ASSUME TypeOK,
         FetchSucceeds \/ FetchForbidden \/ FetchThrottled \/ FetchFails
  PROVE  \E d \in Nat : Fetching(d) /\ Counting(d)
<1>1. \A d \in 0 .. MaxFetch : d \in Nat
  BY DurationAssumption
<1>2. ASSUME NEW d \in Nat
      PROVE  /\ Fetched(d) \in Ages
             /\ Fetched(d)["started"] = Capped(d, "started")
             /\ Fetched(d)["fetch"] = Capped(d, "fetch")
             /\ Fetched(d)["denied"] = Capped(age["denied"] + d, "denied")
             /\ Fetched(d)["hold"] = Capped(age["hold"] + d, "hold")
  <2>1. Passed(d) \in Ages
        /\ \A t \in Timers : Passed(d)[t] = Capped(age[t] + d, t)
    BY TypedState, PassedTimers
  <2>2. \A t \in Timers : Capped(d, t) \in Int /\ Capped(d, t) <= Cap[t]
    BY CappedTimer
  <2> HIDE DEF Passed, Capped
  <2> QED
    BY <2>1, <2>2 DEF Fetched, Ages, Timers
<1>3. CASE FetchSucceeds
  BY <1>1, <1>2, <1>3, TypedState, SucceededBreaker
     DEF FetchSucceeds, Fetching, Counting
<1>4. CASE FetchForbidden
  <2>1. PICK d \in Nat : /\ age' = [Fetched(d) EXCEPT !["denied"] = 0]
                         /\ brk' = Record403(Waits(brk, d))
    BY <1>1, <1>4 DEF FetchForbidden
  <2>2. 0 <= Cap["denied"]
    BY CapAssumption DEF Timers
  <2>3. /\ age' \in Ages /\ age'["denied"] = 0
        /\ age'["started"] = Capped(d, "started")
        /\ age'["fetch"] = Capped(d, "fetch")
        /\ age'["hold"] = Capped(age["hold"] + d, "hold")
    BY <1>2, <2>1, <2>2 DEF Ages, Timers
  <2>4. /\ brk' \in Breakers
        /\ brk'.threshold = brk.threshold /\ brk'.cooldown = brk.cooldown
    <3>1. /\ Waits(brk, d) \in Breakers
          /\ Waits(brk, d).threshold = brk.threshold
          /\ Waits(brk, d).cooldown = brk.cooldown
      BY TypedState, WaitedBreaker
    <3> HIDE DEF Waits, Record403
    <3> QED
      BY <2>1, <3>1, DeniedBreaker
  <2>5. Fetching(d)
    BY <1>4, <2>3, <2>4 DEF FetchForbidden, Fetching
  <2>6. Counting(d)
    BY <1>4, <2>1, <2>3, Zenon DEF FetchForbidden, Counting
  <2> QED
    BY <2>5, <2>6
<1>5. CASE FetchThrottled
  <2>1. PICK d \in Nat, h \in Holds :
          /\ age' = [Fetched(d) EXCEPT
                       !["fetch"] = Capped(HeldFrom(h), "fetch"),
                       !["hold"] = -h]
          /\ brk' = Waits(brk, d)
          /\ heldAt' = cfg.pacing /\ short' = Larger(cfg.pacing - h, 0)
    BY <1>1, <1>5 DEF FetchThrottled
  <2>2. h \in Nat /\ HeldFrom(h) = cfg.pacing - h /\ HeldFrom(h) \in Int
    BY DurationAssumption, TypedState DEF HeldFrom, CfgType
  <2>3. -h \in Int /\ -h <= Cap["hold"]
    BY <2>2, CapAssumption DEF Timers
  <2>4. /\ Capped(HeldFrom(h), "fetch") \in Int
        /\ Capped(HeldFrom(h), "fetch") <= Cap["fetch"]
    BY <2>2, CappedTimer DEF Timers
  <2>5. /\ age' \in Ages
        /\ age'["denied"] = Fetched(d)["denied"]
        /\ age'["started"] = Fetched(d)["started"]
        /\ age'["fetch"] = Capped(HeldFrom(h), "fetch")
        /\ age'["hold"] = -h
    <3> HIDE DEF Fetched, Capped
    <3> QED
      BY <1>2, <2>1, <2>3, <2>4 DEF Ages, Timers
  <2> QED
    BY <1>2, <1>5, <2>1, <2>2, <2>5, TypedState, WaitedBreaker
       DEF FetchThrottled, Fetching, Counting
<1>6. CASE FetchFails
  <2>1. PICK d \in Nat : age' = Fetched(d) /\ brk' = Waits(brk, d)
    BY <1>1, <1>6 DEF FetchFails
  <2>2. /\ Waits(brk, d) \in Breakers
        /\ Waits(brk, d).threshold = brk.threshold
        /\ Waits(brk, d).cooldown = brk.cooldown
    BY TypedState, WaitedBreaker
  <2>3. Fetching(d)
    BY <1>2, <1>6, <2>1, <2>2 DEF FetchFails, Fetching
  <2>4. Counting(d)
    BY <1>2, <1>6, <2>1 DEF FetchFails, Counting
  <2> QED
    BY <2>3, <2>4
<1> QED
  BY <1>3, <1>4, <1>5, <1>6

LEMMA ForgottenState ==
  ASSUME Forget
  PROVE  /\ cfg' = Blank /\ cfg' \in CfgType
         /\ brk' \in Breakers /\ brk'.openFor = Closed /\ brk'.streak = 0
         /\ brk'.threshold = DefaultThreshold
         /\ brk'.cooldown = DefaultCooldown
         /\ age' \in Ages /\ \A t \in Timers : age'[t] = Cap[t]
         /\ {tooOld', deaf', granted', served', tripped'} \subseteq BOOLEAN
         /\ tripped' = FALSE /\ heldAt' = 0 /\ short' = 0
<1>1. brk' = [threshold |-> DefaultThreshold, cooldown |-> DefaultCooldown,
              streak |-> 0, openFor |-> Closed]
  BY NewBreaker DEF Forget
<1>2. /\ brk' \in Breakers /\ brk'.openFor = Closed /\ brk'.streak = 0
      /\ brk'.threshold = DefaultThreshold /\ brk'.cooldown = DefaultCooldown
  BY <1>1, BreakerAssumption DEF Breakers
<1>3. cfg' = Blank /\ cfg' \in CfgType
  BY DEF Forget, Blank, CfgType
<1>4. age' \in Ages /\ \A t \in Timers : age'[t] = Cap[t]
  BY LongAgoTimers DEF Forget
<1> QED
  BY <1>2, <1>3, <1>4 DEF Forget

-----------------------------------------------------------------------------
\* Type correctness

LEMMA LoopTypeStep == TypeOK /\ [Next]_vars => TypeOK'
<1> SUFFICES ASSUME TypeOK, [Next]_vars PROVE TypeOK'
  OBVIOUS
<1>1. /\ pc' \in Lines /\ cfg' \in CfgType /\ brk' \in Breakers
      /\ age' \in Ages
      /\ {tooOld', deaf', granted', served', tripped'} \subseteq BOOLEAN
      /\ heldAt' \in Int /\ short' \in Nat
      => TypeOK'
  BY DEF TypeOK, CfgType, Ages
<1>2. CASE Starts
  <2>1. heldAt' \in Int /\ short' \in Nat
    BY <1>2, ForgottenState DEF Starts
  <2>2. pc' \in Lines
    BY <1>2 DEF Starts, Lines
  <2> QED
    BY <1>1, <1>2, <2>1, <2>2, ForgottenState, Zenon DEF Starts
<1>3. CASE Config
  <2>1. PICK d \in Nat : ConfigRead(d) \/ ConfigRefused(d) \/ ConfigUnanswered(d)
    BY <1>3, DurationAssumption
       DEF Config, BootConfig, RefreshConfig, TooOldRereads
  <2>2. /\ pc' \in Lines /\ {tooOld', granted', served'} \subseteq BOOLEAN
        /\ UNCHANGED <<heldAt, short>>
    BY <1>3, TypedState
       DEF Config, BootConfig, RefreshConfig, TooOldRereads, Lines
  <2> QED
    BY <1>1, <2>1, <2>2, ConfigIsQuiet, TypedState DEF Quiet
<1>4. CASE WatchdogExits \/ LoopTop \/ Dies \/ UNCHANGED vars
  BY <1>1, <1>4, TypedState
     DEF WatchdogExits, LoopTop, Dies, vars, hist, Lines, TypeOK
<1>5. CASE Waiting
  <2>1. PICK d \in Nat : Steady(brk, d)
    BY <1>5, AnyWaitIsSteady
  <2>2. pc' \in Lines
    BY <1>5, AnyWaitIsSteady DEF Lines
  <2> QED
    BY <1>1, <2>1, <2>2, TypedState DEF Steady, Quiet
<1>6. CASE Lease
  BY <1>1, <1>6, LeaseIsSteady, TypedState DEF Steady, Quiet, Lines
<1>7. CASE FetchSucceeds \/ FetchForbidden \/ FetchThrottled \/ FetchFails
  <2>1. PICK d \in Nat : Fetching(d) /\ Counting(d)
    BY <1>7, FetchIsCounted
  <2>2. tripped' \in BOOLEAN
    BY <2>1, TypedState DEF Counting, IsOpen
  <2>3. heldAt' \in Int /\ short' \in Nat
    BY <2>1, TypedState, DurationAssumption DEF Fetching, Larger, CfgType
  <2> QED
    BY <1>1, <2>1, <2>2, <2>3, TypedState DEF Fetching, Lines
<1>8. CASE Submit
  BY <1>1, <1>8, SubmitIsSteady, TypedState DEF Steady, Quiet, Lines
<1> QED
  BY <1>2, <1>3, <1>4, <1>5, <1>6, <1>7, <1>8 DEF Next, Collector, Fetch, Waiting

LEMMA LoopTypeInit == Init => TypeOK
<1> SUFFICES ASSUME Init PROVE TypeOK
  OBVIOUS
<1>1. brk = [threshold |-> DefaultThreshold, cooldown |-> DefaultCooldown,
             streak |-> 0, openFor |-> Closed]
  BY NewBreaker DEF Init, Fresh
<1>2. brk \in Breakers
  BY <1>1, BreakerAssumption DEF Breakers
<1>3. age \in [Timers -> Int] /\ \A t \in Timers : age[t] <= Cap[t]
  BY LongAgoTimers DEF Init, Fresh, Ages
<1>4. cfg \in [pacing : Int, threshold : Int, cooldown : Int]
  BY DEF Init, Fresh, Blank
<1>5. pc \in Lines /\ heldAt \in Int /\ short \in Nat
  BY DEF Init, Fresh, Lines
<1>6. {tooOld, deaf, granted, served, tripped} \subseteq BOOLEAN
  BY DEF Init, Fresh
<1> QED
  BY <1>2, <1>3, <1>4, <1>5, <1>6 DEF TypeOK

\* Whatever the hub and the CR API answer, every variable keeps its type, no
\* timer passes its cap, and the breaker keeps limits above zero (Configure's
\* defaults).
THEOREM LoopTypeCorrect == Spec => []TypeOK
BY LoopTypeInit, LoopTypeStep, PTL DEF Spec

-----------------------------------------------------------------------------
\* Pacing

\* Every pacing that can be in force.
Pacings == {0, DefaultPacing}
             \cup ({b.pacing : b \in Bodies \cup ErrorBodies} \ {Absent})

\* The gap that pace waits for is never more than the one to the last fetch:
\* a 429 puts lastFetchStarted later, or earlier by what it lacks.
PacingInv ==
  /\ cfg.pacing \in Pacings
  /\ age["started"] >= age["fetch"] - short \/ age["started"] = Cap["started"]
  /\ pc = "fetch" => age["fetch"] >= cfg.pacing

LEMMA PacingsFit ==
  \A p \in Pacings : p \in Int /\ p <= Cap["fetch"] /\ p <= Cap["started"]
<1>1. Cap["fetch"] \in Nat /\ Cap["started"] \in Nat
  BY CapAssumption DEF Timers
<1>2. \A b \in Bodies \cup ErrorBodies : b.pacing \in Int \cup {Absent}
  BY BodyAssumption DEF BodyType
<1> SUFFICES ASSUME NEW p \in Pacings
             PROVE  p \in Int /\ p <= Cap["fetch"] /\ p <= Cap["started"]
  OBVIOUS
<1>3. CASE p = 0
  BY <1>1, <1>3
<1>4. CASE p \in ({b.pacing : b \in Bodies \cup ErrorBodies}
                   \cup {DefaultPacing}) /\ p # Absent
  <2>1. p \in Int
    BY <1>2, <1>4, DurationAssumption
  <2> QED
    BY <1>4, <2>1, CapAssumption
<1>5. DefaultPacing # Absent
  BY BodyAssumption, DurationAssumption
<1> QED
  BY <1>3, <1>4, <1>5 DEF Pacings

\* A config that is read keeps to the pacings that can be in force.
LEMMA ConfigPacing ==
  ASSUME TypeOK, cfg.pacing \in Pacings, NEW d,
         ConfigRead(d) \/ ConfigRefused(d) \/ ConfigUnanswered(d)
  PROVE  cfg'.pacing \in Pacings
<1>1. ASSUME NEW body \in Bodies \cup ErrorBodies
      PROVE  /\ Merged(body) \in CfgType /\ Merged(body).pacing \in Pacings
             /\ WithDefaults(Merged(body)).pacing \in Pacings
  <2>1. body \in BodyType
    BY BodyAssumption
  <2>2. /\ Merged(body) \in CfgType
        /\ Merged(body).pacing = IF body.pacing = Absent THEN cfg.pacing
                                 ELSE body.pacing
    BY <2>1, TypedState, MergedConfig
  <2>3. Merged(body).pacing \in Pacings
    BY <2>2 DEF Pacings
  <2> QED
    BY <2>2, <2>3, DefaultedConfig DEF Pacings
<1> QED
  BY <1>1 DEF ConfigRead, ConfigRefused, ConfigUnanswered

\* Time passing keeps the order of the two timers.
LEMMA QuietPacing ==
  ASSUME TypeOK, NEW b, NEW d \in Nat, Quiet(b, d),
         age["started"] >= age["fetch"] - short \/ age["started"] = Cap["started"],
         short' = short
  PROVE  /\ \/ age'["started"] >= age'["fetch"] - short'
            \/ age'["started"] = Cap["started"]
         /\ \A p \in Pacings : age["fetch"] + d >= p => age'["fetch"] >= p
<1>1. /\ age["fetch"] \in Int /\ age["started"] \in Int
      /\ age["fetch"] <= Cap["fetch"] /\ age["started"] <= Cap["started"]
      /\ Cap["fetch"] \in Nat /\ Cap["started"] \in Nat /\ short \in Nat
  BY TypedState, CapAssumption DEF Ages, Timers
<1>2. /\ age'["fetch"] = Capped(age["fetch"] + d, "fetch")
      /\ age'["started"] = Capped(age["started"] + d, "started")
  BY DEF Quiet, FetchTimers
<1> QED
  BY <1>1, <1>2, PacingsFit DEF Capped

LEMMA PacingStep ==
  ASSUME TypeOK, PacingInv, [Next]_vars
  PROVE  PacingInv'
<1>1. CASE Starts
  <2>1. cfg'.pacing \in Pacings
    BY <1>1, ForgottenState DEF Starts, Blank, Pacings
  <2> QED
    BY <1>1, <2>1, ForgottenState DEF Starts, PacingInv, Timers
<1>2. CASE Config
  <2>1. PICK d \in Nat : ConfigRead(d) \/ ConfigRefused(d) \/ ConfigUnanswered(d)
    BY <1>2, DurationAssumption
       DEF Config, BootConfig, RefreshConfig, TooOldRereads
  <2>2. pc' # "fetch" /\ short' = short
    BY <1>2 DEF Config, BootConfig, RefreshConfig, TooOldRereads
  <2>3. Quiet(brk, d)
    BY <2>1, ConfigIsQuiet
  <2> QED
    BY <2>1, <2>2, <2>3, ConfigPacing, QuietPacing DEF PacingInv
<1>3. CASE WatchdogExits \/ LoopTop \/ Dies \/ UNCHANGED vars
  BY <1>3 DEF WatchdogExits, LoopTop, Dies, vars, hist, PacingInv
<1>4. CASE Waiting
  <2>1. PICK d \in Nat : Steady(brk, d) /\ (pc' = "fetch" => d >= PaceWait)
    BY <1>4, AnyWaitIsSteady
  <2>2. cfg' = cfg /\ short' = short /\ Quiet(brk, d)
    BY <2>1 DEF Steady
  <2>3. pc' = "fetch" => age["fetch"] + d >= cfg.pacing
    BY <2>1, TypedState DEF PaceWait, Ages, CfgType, Timers
  <2> QED
    BY <2>2, <2>3, QuietPacing DEF PacingInv
<1>5. CASE Lease
  <2>1. PICK d \in Nat : Steady(HalfOpen(brk), d)
    BY <1>5, LeaseIsSteady
  <2> QED
    BY <1>5, <2>1, LeaseIsSteady, QuietPacing DEF PacingInv, Steady
<1>6. CASE FetchSucceeds \/ FetchForbidden \/ FetchThrottled \/ FetchFails
  <2>1. PICK d \in Nat : Fetching(d)
    BY <1>6, FetchIsCounted
  <2>2. /\ Cap["fetch"] \in Nat /\ Cap["started"] \in Nat
        /\ \A x \in Int : Capped(x, "fetch") \in Int /\ Capped(x, "fetch") <= x
    BY CapAssumption, CappedTimer DEF Timers
  <2>3. short' \in Nat /\ age'["fetch"] \in Int /\ age'["fetch"] <= d + short'
    <3>1. CASE age'["fetch"] = Capped(d, "fetch") /\ short' = 0
      BY <2>2, <3>1
    <3>2. CASE \E h \in Holds : /\ age'["fetch"] = Capped(cfg.pacing - h, "fetch")
                                /\ short' = Larger(cfg.pacing - h, 0)
      <4>1. PICK h \in Holds : /\ age'["fetch"] = Capped(cfg.pacing - h, "fetch")
                               /\ short' = Larger(cfg.pacing - h, 0)
        BY <3>2
      <4>2. cfg.pacing - h \in Int
        BY TypedState, DurationAssumption DEF CfgType
      <4>3. /\ age'["fetch"] \in Int /\ age'["fetch"] <= cfg.pacing - h
            /\ short' \in Nat /\ cfg.pacing - h <= short'
        BY <2>2, <4>1, <4>2 DEF Larger
      <4> QED
        BY <4>2, <4>3
    <3> QED
      BY <2>1, <3>1, <3>2 DEF Fetching
  <2>4. \/ age'["started"] >= age'["fetch"] - short'
        \/ age'["started"] = Cap["started"]
    BY <2>1, <2>2, <2>3 DEF Fetching, Capped
  <2> QED
    BY <2>1, <2>4 DEF Fetching, PacingInv
<1>7. CASE Submit
  <2>1. PICK d \in Nat : Steady(brk, d) /\ pc' \in {"top", "tooold"}
    BY <1>7, SubmitIsSteady
  <2> QED
    BY <2>1, QuietPacing DEF PacingInv, Steady
<1> QED
  BY <1>1, <1>2, <1>3, <1>4, <1>5, <1>6, <1>7 DEF Next, Collector, Fetch, Waiting

\* Fetches keep the pacing in force when they start, whatever the hub makes of
\* the pacing meanwhile and whatever a 429 asks for: only a Retry-After that is
\* shorter than the pacing takes its place, for the one gap after it.
THEOREM PacingAlwaysKept == Spec => []PacingKept
<1>1. Init => PacingInv
  BY LongAgoTimers DEF Init, Fresh, Blank, PacingInv, Pacings, Timers
<1>2. TypeOK /\ PacingInv /\ [Next]_vars => PacingInv'
  BY PacingStep
<1>3. TypeOK /\ PacingInv => PacingKept
  BY TypedState, PacingsFit DEF PacingInv, PacingKept, Ages, Timers
<1> QED
  BY <1>1, <1>2, <1>3, LoopTypeInit, LoopTypeStep, PTL DEF Spec

-----------------------------------------------------------------------------
\* No fetch unpaced

\* An error answer of /config carries no pacing that is zero or negative.
ErrorsKeepPacing ==
  \A b \in ErrorBodies : b.pacing # Absent => b.pacing > 0

PacedInv == pc \notin {"down", "boot"} => cfg.pacing > 0

LEMMA PacedStep ==
  ASSUME ErrorsKeepPacing, TypeOK, PacedInv, [Next]_vars
  PROVE  PacedInv'
<1>1. CASE Starts
  BY <1>1 DEF Starts, PacedInv
<1>2. CASE Config
  <2>1. \A d : ConfigRead(d) => cfg'.pacing > 0
    BY TypedState, MergedConfig, DefaultedConfig, BodyAssumption,
       DurationAssumption DEF ConfigRead, CfgType
  <2>2. \A d : ConfigRefused(d) /\ cfg.pacing > 0 => cfg'.pacing > 0
    BY TypedState, MergedConfig, BodyAssumption
       DEF ConfigRefused, CfgType, ErrorsKeepPacing
  <2>3. \A d : ConfigUnanswered(d) => cfg' = cfg
    BY DEF ConfigUnanswered
  <2> QED
    BY <1>2, <2>1, <2>2, <2>3
       DEF Config, BootConfig, RefreshConfig, TooOldRereads, PacedInv
<1>3. CASE WatchdogExits \/ LoopTop \/ Dies \/ UNCHANGED vars
  BY <1>3 DEF WatchdogExits, LoopTop, Dies, vars, hist, PacedInv
<1>4. CASE Waiting
  BY <1>4 DEF Waiting, BreakerWaits, Pace, TooOldRests, PacedInv
<1>5. CASE Lease
  BY <1>5, LeaseIsSteady DEF Steady, PacedInv
<1>6. CASE FetchSucceeds \/ FetchForbidden \/ FetchThrottled \/ FetchFails
  BY <1>6, FetchIsCounted DEF Fetching, PacedInv
<1>7. CASE Submit
  BY <1>7 DEF Submit, SubmitFails, SubmitDone, SubmitTooOld, Submitted, PacedInv
<1> QED
  BY <1>1, <1>2, <1>3, <1>4, <1>5, <1>6, <1>7 DEF Next, Collector, Fetch, Waiting

\* No fetch is unpaced, whatever pacing_ms a good answer of /config carries,
\* and however many refreshes fail.
THEOREM FetchesAlwaysPaced ==
  ASSUME ErrorsKeepPacing
  PROVE  Spec => []FetchesArePaced
<1>1. Init => PacedInv
  BY DEF Init, PacedInv
<1>2. TypeOK /\ PacedInv /\ [Next]_vars => PacedInv'
  BY PacedStep
<1>3. PacedInv => FetchesArePaced
  BY DEF PacedInv, FetchesArePaced
<1> QED
  BY <1>1, <1>2, <1>3, LoopTypeInit, LoopTypeStep, PTL DEF Spec

-----------------------------------------------------------------------------
\* A 429's hold

\* lastFetchStarted plus the pacing of the last 429 is never before the end of
\* its hold.
HoldInv ==
  /\ cfg.pacing \in Pacings
  /\ age["hold"] >= 0 \/ age["hold"] >= age["fetch"] - heldAt
  /\ pc = "fetch" => age["fetch"] >= cfg.pacing

LEMMA HoldTimers ==
  ASSUME TypeOK
  PROVE  /\ age["hold"] \in Int /\ age["fetch"] \in Int
         /\ age["fetch"] <= Cap["fetch"]
         /\ Cap["hold"] \in Nat /\ Cap["fetch"] \in Nat
         /\ cfg.pacing \in Int /\ heldAt \in Int
BY TypedState, CapAssumption DEF Ages, Timers, CfgType

LEMMA QuietHold ==
  ASSUME TypeOK, HoldInv, NEW b, NEW d \in Nat, Quiet(b, d), heldAt' = heldAt
  PROVE  /\ age'["hold"] >= 0 \/ age'["hold"] >= age'["fetch"] - heldAt'
         /\ \A p \in Pacings : age["fetch"] + d >= p => age'["fetch"] >= p
<1>1. /\ age'["fetch"] = Capped(age["fetch"] + d, "fetch")
      /\ age'["hold"] = Capped(age["hold"] + d, "hold")
  BY DEF Quiet, FetchTimers
<1> QED
  BY <1>1, HoldTimers, PacingsFit DEF HoldInv, Capped

LEMMA FetchHold ==
  ASSUME TypeOK, HoldInv, cfg.pacing > 0, NEW d \in Nat, Fetching(d)
  PROVE  age'["hold"] >= 0 \/ age'["hold"] >= age'["fetch"] - heldAt'
<1>1. CASE /\ age'["fetch"] = Capped(d, "fetch")
           /\ age'["hold"] = Capped(age["hold"] + d, "hold")
           /\ heldAt' = heldAt
  <2>1. age["hold"] >= 0 \/ age["hold"] >= cfg.pacing - heldAt
    BY HoldTimers DEF HoldInv, Fetching
  <2> QED
    BY <1>1, <2>1, HoldTimers DEF Capped
<1>2. CASE \E h \in Holds : /\ age'["fetch"] = Capped(cfg.pacing - h, "fetch")
                            /\ age'["hold"] = -h
                            /\ heldAt' = cfg.pacing
  <2>1. PICK h \in Holds : /\ age'["fetch"] = Capped(cfg.pacing - h, "fetch")
                           /\ age'["hold"] = -h
                           /\ heldAt' = cfg.pacing
    BY <1>2
  <2>2. h \in Nat
    BY DurationAssumption
  <2>3. age'["fetch"] \in Int /\ age'["fetch"] <= cfg.pacing - h
    <3>1. cfg.pacing - h \in Int
      BY <2>2, HoldTimers
    <3>2. /\ Capped(cfg.pacing - h, "fetch") \in Int
          /\ Capped(cfg.pacing - h, "fetch") <= cfg.pacing - h
      BY <3>1, CappedTimer DEF Timers
    <3> QED
      BY <2>1, <3>2
  <2> QED
    BY <2>1, <2>2, <2>3, HoldTimers
<1> QED
  BY <1>1, <1>2 DEF Fetching

LEMMA HoldStep ==
  ASSUME TypeOK, PacedInv, HoldInv, [Next]_vars
  PROVE  HoldInv'
<1>1. CASE Starts
  <2>1. cfg'.pacing \in Pacings
    BY <1>1, ForgottenState DEF Starts, Blank, Pacings
  <2>2. age'["hold"] = Cap["hold"] /\ Cap["hold"] \in Nat /\ pc' = "boot"
    BY <1>1, ForgottenState, CapAssumption DEF Starts, Timers
  <2> QED
    BY <2>1, <2>2 DEF HoldInv
<1>2. CASE Config
  <2>1. PICK d \in Nat : ConfigRead(d) \/ ConfigRefused(d) \/ ConfigUnanswered(d)
    BY <1>2, DurationAssumption
       DEF Config, BootConfig, RefreshConfig, TooOldRereads
  <2>2. pc' # "fetch" /\ heldAt' = heldAt
    BY <1>2 DEF Config, BootConfig, RefreshConfig, TooOldRereads
  <2>3. Quiet(brk, d)
    BY <2>1, ConfigIsQuiet
  <2> QED
    BY <2>1, <2>2, <2>3, ConfigPacing, QuietHold DEF HoldInv
<1>3. CASE WatchdogExits \/ LoopTop \/ Dies \/ UNCHANGED vars
  BY <1>3 DEF WatchdogExits, LoopTop, Dies, vars, hist, HoldInv
<1>4. CASE Waiting
  <2>1. PICK d \in Nat : Steady(brk, d) /\ (pc' = "fetch" => d >= PaceWait)
    BY <1>4, AnyWaitIsSteady
  <2>2. cfg' = cfg /\ heldAt' = heldAt /\ Quiet(brk, d)
    BY <2>1 DEF Steady
  <2>3. pc' = "fetch" => age["fetch"] + d >= cfg.pacing
    BY <2>1, HoldTimers DEF PaceWait
  <2> QED
    BY <2>2, <2>3, QuietHold DEF HoldInv
<1>5. CASE Lease
  <2>1. PICK d \in Nat : Steady(HalfOpen(brk), d)
    BY <1>5, LeaseIsSteady
  <2> QED
    BY <1>5, <2>1, LeaseIsSteady, QuietHold DEF HoldInv, Steady
<1>6. CASE FetchSucceeds \/ FetchForbidden \/ FetchThrottled \/ FetchFails
  <2>1. PICK d \in Nat : Fetching(d)
    BY <1>6, FetchIsCounted
  <2>2. cfg.pacing > 0
    BY <2>1 DEF Fetching, PacedInv
  <2> QED
    BY <2>1, <2>2, FetchHold DEF Fetching, HoldInv
<1>7. CASE Submit
  <2>1. PICK d \in Nat : Steady(brk, d) /\ pc' \in {"top", "tooold"}
    BY <1>7, SubmitIsSteady
  <2> QED
    BY <2>1, QuietHold DEF HoldInv, Steady
<1> QED
  BY <1>1, <1>2, <1>3, <1>4, <1>5, <1>6, <1>7 DEF Next, Collector, Fetch, Waiting

\* No fetch starts inside a 429's hold, but for what the pacing is lower than
\* it was then, however short the hold and whatever happens within it.
THEOREM HoldAlwaysKept ==
  ASSUME ErrorsKeepPacing
  PROVE  Spec => []HoldKept
<1>1. Init => PacedInv /\ HoldInv
  <2>1. LongAgo["hold"] = Cap["hold"] /\ Cap["hold"] \in Nat
    BY LongAgoTimers, CapAssumption DEF Timers
  <2> HIDE DEF LongAgo
  <2> QED
    BY <2>1 DEF Init, Fresh, Blank, PacedInv, HoldInv, Pacings
<1>2. TypeOK /\ PacedInv /\ [Next]_vars => PacedInv'
  BY PacedStep
<1>3. TypeOK /\ PacedInv /\ HoldInv /\ [Next]_vars => HoldInv'
  BY HoldStep
<1>4. TypeOK /\ HoldInv => HoldKept
  BY HoldTimers, PacingsFit DEF HoldInv, HoldKept
<1> QED
  BY <1>1, <1>2, <1>3, <1>4, LoopTypeInit, LoopTypeStep, PTL DEF Spec

-----------------------------------------------------------------------------
\* One probe per cooldown

\* An open breaker is as old as the last 403; a breaker that has opened and
\* closed again is one 403 from opening, and its cooldown is over.
ProbeInv ==
  /\ brk.cooldown <= Cap["denied"] /\ cfg.cooldown <= Cap["denied"]
  /\ pc \in {"pace", "fetch"} => brk.openFor = Closed
  /\ brk.openFor # Closed => tripped /\ age["denied"] = brk.openFor
  /\ tripped /\ brk.openFor = Closed =>
       brk.streak >= brk.threshold - 1 /\ age["denied"] >= brk.cooldown

LEMMA DeniedTimer ==
  ASSUME TypeOK
  PROVE  /\ Cap["denied"] \in Nat /\ DefaultCooldown <= Cap["denied"]
         /\ age["denied"] \in Int /\ age["denied"] <= Cap["denied"]
         /\ DefaultCooldown \in Nat \ {0}
<1>1. DefaultCooldown # Absent
  BY BreakerAssumption, BodyAssumption
<1> QED
  BY <1>1, TypedState, CapAssumption, BreakerAssumption DEF Ages, Timers

\* What the breaker counts, when time passes and its limits may have moved.
LEMMA ProbeMoved ==
  ASSUME TypeOK, ProbeInv, NEW d \in Nat, Quiet(brk, d),
         tripped' => tripped /\ ~LimitRaised, brk.openFor # Closed => tripped'
  PROVE  /\ brk.openFor = Closed => brk'.openFor = Closed
         /\ brk'.openFor # Closed => tripped' /\ age'["denied"] = brk'.openFor
         /\ tripped' /\ brk'.openFor = Closed =>
              /\ brk'.streak >= brk'.threshold - 1
              /\ age'["denied"] >= brk'.cooldown
<1>1. /\ age'["denied"] = Capped(age["denied"] + d, "denied")
      /\ brk'.streak = brk.streak /\ brk' \in Breakers
      /\ brk.openFor = Closed => brk'.openFor = Closed
      /\ brk.openFor # Closed => brk'.openFor = Capped(brk.openFor + d, "denied")
  BY DEF Quiet, FetchTimers
<1>2. brk.openFor # Closed => brk'.openFor # Closed
  BY <1>1, TypedState, BreakerFields, DeniedTimer DEF Capped, Closed
<1>3. /\ brk.threshold \in Nat /\ brk.cooldown \in Nat /\ brk.streak \in Nat
      /\ brk'.threshold \in Nat /\ brk'.cooldown \in Nat
  BY <1>1, TypedState, BreakerFields
<1>4. age["denied"] >= brk.cooldown => age'["denied"] >= brk.cooldown
  BY <1>1, <1>3, DeniedTimer DEF ProbeInv, Capped
<1>5. ASSUME tripped', brk'.openFor = Closed
      PROVE  /\ brk'.streak >= brk'.threshold - 1
             /\ age'["denied"] >= brk'.cooldown
  <2>1. brk.openFor = Closed /\ tripped /\ ~LimitRaised
    BY <1>2, <1>5
  <2>2. brk'.threshold <= brk.threshold /\ brk'.cooldown <= brk.cooldown
    BY <1>3, <2>1 DEF LimitRaised
  <2>3. brk.streak >= brk.threshold - 1 /\ age["denied"] >= brk.cooldown
    BY <2>1 DEF ProbeInv
  <2>4. age'["denied"] \in Int
    BY <1>1, DeniedTimer DEF Capped
  <2> QED
    BY <1>1, <1>3, <1>4, <2>2, <2>3, <2>4
<1>6. ASSUME brk'.openFor # Closed
      PROVE  tripped' /\ age'["denied"] = brk'.openFor
  <2>1. brk.openFor # Closed
    BY <1>1, <1>6
  <2> QED
    BY <1>1, <2>1 DEF ProbeInv
<1> QED
  BY <1>1, <1>5, <1>6

LEMMA QuietProbe ==
  ASSUME TypeOK, ProbeInv, NEW d \in Nat, Quiet(brk, d), tripped' = tripped,
         brk'.threshold = brk.threshold, brk'.cooldown = brk.cooldown
  PROVE  /\ brk.openFor = Closed => brk'.openFor = Closed
         /\ brk'.openFor # Closed => tripped' /\ age'["denied"] = brk'.openFor
         /\ tripped' /\ brk'.openFor = Closed =>
              /\ brk'.streak >= brk'.threshold - 1
              /\ age'["denied"] >= brk'.cooldown
<1>1. ~LimitRaised
  BY TypedState, BreakerFields DEF LimitRaised
<1>2. tripped' => tripped /\ ~LimitRaised
  BY <1>1
<1>3. brk.openFor # Closed => tripped'
  BY DEF ProbeInv
<1> QED
  BY <1>2, <1>3, ProbeMoved

\* A config may move the limits of a breaker: one that is open compares with
\* the new ones, one that is half-open is either let off or asked for no more.
LEMMA ProbeConfig ==
  ASSUME TypeOK, ProbeInv, NEW d \in Nat,
         ConfigRead(d) \/ ConfigRefused(d) \/ ConfigUnanswered(d)
  PROVE  /\ brk'.cooldown <= Cap["denied"] /\ cfg'.cooldown <= Cap["denied"]
         /\ brk'.openFor # Closed => tripped' /\ age'["denied"] = brk'.openFor
         /\ tripped' /\ brk'.openFor = Closed =>
              /\ brk'.streak >= brk'.threshold - 1
              /\ age'["denied"] >= brk'.cooldown
<1>1. ASSUME NEW body \in Bodies \cup ErrorBodies
      PROVE  LET m == Merged(body) IN
             /\ m \in CfgType /\ m.threshold \in Int /\ m.cooldown \in Int
             /\ m.cooldown <= Cap["denied"]
  <2>1. /\ Merged(body) \in CfgType
        /\ Merged(body).cooldown = IF body.cooldown = Absent
                                   THEN cfg.cooldown ELSE body.cooldown
    BY TypedState, MergedConfig, BodyAssumption
  <2>2. body.cooldown # Absent => body.cooldown <= Cap["denied"]
    BY CapAssumption
  <2> QED
    BY <2>1, <2>2 DEF ProbeInv, CfgType
<1>2. /\ Waits(brk, d) \in Breakers
      /\ Waits(brk, d).threshold = brk.threshold
      /\ Waits(brk, d).cooldown = brk.cooldown
  BY TypedState, WaitedBreaker
<1>3. Quiet(brk, d)
  BY ConfigIsQuiet
<1>4. CASE ConfigRead(d)
  <2>1. PICK body \in Bodies :
          /\ cfg' = WithDefaults(Merged(body))
          /\ brk' = Configure(Waits(brk, d), Merged(body).threshold,
                              Merged(body).cooldown)
    BY <1>4 DEF ConfigRead
  <2>2. brk'.cooldown <= Cap["denied"]
    <3>1. brk'.cooldown = IF Merged(body).cooldown > 0
                          THEN Merged(body).cooldown ELSE DefaultCooldown
      BY <1>1, <1>2, <2>1, ConfiguredBreaker
    <3> QED
      BY <1>1, <3>1, DeniedTimer
  <2>3. cfg'.cooldown <= Cap["denied"]
    BY <1>1, <2>1, DefaultedConfig
  <2>4. tripped' => tripped /\ ~LimitRaised
    BY <1>4, TypedState, Zenon DEF ConfigRead
  <2>5. brk.openFor # Closed => tripped'
    <3>1. brk.openFor # Closed => tripped /\ ~LimitRaised
      BY DEF ProbeInv, LimitRaised
    <3> QED
      BY <1>4, <3>1, TypedState, Zenon DEF ConfigRead
  <2> QED
    BY <1>3, <2>2, <2>3, <2>4, <2>5, ProbeMoved
<1>5. CASE ConfigRefused(d) \/ ConfigUnanswered(d)
  <2>1. /\ brk' = Waits(brk, d) /\ tripped' = tripped
        /\ cfg'.cooldown <= Cap["denied"]
    BY <1>1, <1>5 DEF ConfigRefused, ConfigUnanswered, ProbeInv
  <2> QED
    BY <1>2, <1>3, <2>1, QuietProbe DEF ProbeInv
<1> QED
  BY <1>4, <1>5

\* A check-in finds the breaker closed, or past its cooldown and opens it by
\* half.
LEMMA ProbeLease ==
  ASSUME TypeOK, ProbeInv, Lease
  PROVE  ProbeInv'
<1>1. PICK d \in Nat : Steady(HalfOpen(brk), d)
  BY LeaseIsSteady
<1>2. /\ ~IsOpen(brk) /\ HalfOpen(brk).openFor = Closed
      /\ brk.openFor = Closed => HalfOpen(brk) = brk
      /\ brk.openFor # Closed => HalfOpen(brk).streak = brk.threshold - 1
  BY LeaseIsSteady, TypedState, HalfOpenBreaker
<1>3. /\ brk'.openFor = Closed /\ brk'.streak = HalfOpen(brk).streak
      /\ brk'.threshold = brk.threshold /\ brk'.cooldown = brk.cooldown
      /\ age'["denied"] = Capped(age["denied"] + d, "denied")
      /\ cfg' = cfg /\ tripped' = tripped
  BY <1>1, <1>2 DEF Steady, Quiet, FetchTimers
<1>4. tripped => age["denied"] >= brk.cooldown
  BY <1>2, TypedState, BreakerFields DEF ProbeInv, IsOpen
<1>5. tripped => age'["denied"] >= brk.cooldown
  <2>1. brk.cooldown \in Nat /\ brk.cooldown <= Cap["denied"]
    BY TypedState, BreakerFields DEF ProbeInv
  <2> QED
    BY <1>3, <1>4, <2>1, DeniedTimer DEF Capped
<1>6. tripped => brk'.streak >= brk.threshold - 1
  BY <1>2, <1>3, TypedState, BreakerFields DEF ProbeInv
<1> QED
  BY <1>3, <1>5, <1>6 DEF ProbeInv

LEMMA ProbeFetch ==
  ASSUME TypeOK, ProbeInv, NEW d \in Nat, Fetching(d), Counting(d)
  PROVE  ProbeInv'
<1> DEFINE w == Waits(brk, d)
<1>1. /\ w \in Breakers /\ w.streak = brk.streak /\ w.openFor = Closed
      /\ w.threshold = brk.threshold /\ w.cooldown = brk.cooldown
  BY TypedState, WaitedBreaker DEF ProbeInv, Fetching
<1>2. /\ brk'.threshold = brk.threshold /\ brk'.cooldown = brk.cooldown
      /\ cfg' = cfg /\ pc' = "submit"
  BY DEF Fetching
<1>3. CASE brk' = RecordSuccess(brk) /\ tripped' = FALSE
  BY <1>2, <1>3, TypedState, SucceededBreaker DEF ProbeInv
<1>4. CASE /\ brk' = Record403(w) /\ age'["denied"] = 0
           /\ tripped' = (tripped \/ IsOpen(brk'))
  <2>1. CASE brk.streak + 1 >= brk.threshold
    <3>1. brk'.openFor = 0 /\ IsOpen(brk')
      BY <1>1, <1>4, <2>1, DeniedBreaker
    <3>2. tripped' = TRUE
      BY <1>4, <3>1, Zenon
    <3> QED
      BY <1>2, <1>4, <3>1, <3>2 DEF ProbeInv, Closed
  <2>2. CASE ~(brk.streak + 1 >= brk.threshold)
    <3>1. brk.streak + 1 < brk.threshold
      BY <2>2, TypedState, BreakerFields
    <3>2. brk'.openFor = Closed /\ ~IsOpen(brk')
      BY <1>1, <1>4, <3>1, DeniedBreaker
    <3>3. ~tripped
      BY <3>1, TypedState, BreakerFields DEF ProbeInv, Fetching
    <3> QED
      BY <1>2, <1>4, <3>2, <3>3 DEF ProbeInv
  <2> QED
    BY <2>1, <2>2
<1>5. CASE /\ brk' = w /\ tripped' = tripped
           /\ age'["denied"] = Capped(age["denied"] + d, "denied")
  <2>1. tripped => age'["denied"] >= brk.cooldown
    <3>1. brk.cooldown \in Nat /\ brk.cooldown <= Cap["denied"]
      BY TypedState, BreakerFields DEF ProbeInv
    <3>2. tripped => age["denied"] >= brk.cooldown
      BY DEF ProbeInv, Fetching
    <3> QED
      BY <1>5, <3>1, <3>2, DeniedTimer DEF Capped
  <2> QED
    BY <1>1, <1>2, <1>5, <2>1 DEF ProbeInv, Fetching
<1> QED
  BY <1>3, <1>4, <1>5 DEF Counting

LEMMA ProbeStep ==
  ASSUME TypeOK, ProbeInv, [Next]_vars
  PROVE  ProbeInv'
<1>1. CASE Starts
  BY <1>1, ForgottenState, DeniedTimer DEF Starts, ProbeInv, Blank
<1>2. CASE Config
  <2>1. PICK d \in Nat : ConfigRead(d) \/ ConfigRefused(d) \/ ConfigUnanswered(d)
    BY <1>2, DurationAssumption
       DEF Config, BootConfig, RefreshConfig, TooOldRereads
  <2>2. pc' \notin {"pace", "fetch"}
    BY <1>2 DEF Config, BootConfig, RefreshConfig, TooOldRereads
  <2> QED
    BY <2>1, <2>2, ProbeConfig DEF ProbeInv
<1>3. CASE WatchdogExits \/ LoopTop \/ Dies \/ UNCHANGED vars
  BY <1>3 DEF WatchdogExits, LoopTop, Dies, vars, hist, ProbeInv
<1>4. CASE Waiting
  <2>1. PICK d \in Nat : Steady(brk, d)
    BY <1>4, AnyWaitIsSteady
  <2>2. pc' # "pace" /\ (pc' = "fetch" => brk.openFor = Closed)
    BY <1>4, AnyWaitIsSteady DEF ProbeInv
  <2> QED
    BY <2>1, <2>2, QuietProbe DEF ProbeInv, Steady
<1>5. CASE Lease
  BY <1>5, ProbeLease
<1>6. CASE FetchSucceeds \/ FetchForbidden \/ FetchThrottled \/ FetchFails
  BY <1>6, FetchIsCounted, ProbeFetch
<1>7. CASE Submit
  <2>1. PICK d \in Nat : Steady(brk, d) /\ pc' \in {"top", "tooold"}
    BY <1>7, SubmitIsSteady
  <2> QED
    BY <2>1, QuietProbe DEF ProbeInv, Steady
<1> QED
  BY <1>1, <1>2, <1>3, <1>4, <1>5, <1>6, <1>7 DEF Next, Collector, Fetch, Waiting

\* Once 403s have opened the breaker, and until a 200, fetches are a cooldown
\* apart: no refresh, refusal, failed check-in or failed probe closes it early,
\* whatever the hub makes of its limits, unless it raises one of a breaker that
\* is half-open just then.
THEOREM OneProbeAlways == Spec => []OneProbePerCooldown
<1>1. Init => ProbeInv
  <2> SUFFICES ASSUME Init PROVE ProbeInv
    OBVIOUS
  <2>1. brk.cooldown = DefaultCooldown /\ brk.openFor = Closed
    BY NewBreaker DEF Init, Fresh
  <2>2. TypeOK
    BY LoopTypeInit
  <2> QED
    BY <2>1, <2>2, DeniedTimer DEF Init, Fresh, Blank, ProbeInv
<1>2. TypeOK /\ ProbeInv /\ [Next]_vars => ProbeInv'
  BY ProbeStep
<1>3. ProbeInv => OneProbePerCooldown
  BY DEF ProbeInv, OneProbePerCooldown
<1> QED
  BY <1>1, <1>2, <1>3, LoopTypeInit, LoopTypeStep, PTL DEF Spec

=============================================================================
