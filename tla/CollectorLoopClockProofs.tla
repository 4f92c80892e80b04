---------------------- MODULE CollectorLoopClockProofs ----------------------
(***************************************************************************)
(* Theorems about the clocks of CollectorLoop that run between its calls   *)
(* to the hub: check-ins and re-reads that follow each other, the watchdog *)
(* against the loop's own waits, and the outages it has to notice, for     *)
(* every set of durations.                                                 *)
(***************************************************************************)
EXTENDS CollectorLoopProofs

-----------------------------------------------------------------------------
\* What each action does to the timers of the door

\* The timers no answer resets.
CallTimers == {"config", "reread", "lease"}

\* All that run between calls to the door.
DoorTimers == CallTimers \cup {"answer", "heard"}

\* What the loop may wait for at the end of a turn.
Rests == CheckIns \cup {IdleCheckIn, MinCheckIn, PollError, 0}

\* No longer than the loop wanted to rest, and what a sleep may add to it.
Rested(x) == \E w \in Rests : x <= w + Slack

LEMMA RestTimes ==
  /\ Rests \subseteq Nat /\ Slack \in Nat /\ Rested(0)
  /\ \A w \in Rests : \A s \in Sleeps(w) : s \in Nat /\ s >= w /\ Rested(s)
  /\ \A w \in NextWaits(IdleCheckIn, MinCheckIn) : w \in Rests /\ w >= MinCheckIn
  /\ NextWaits(0, 0) \subseteq Rests
<1>1. Rests \subseteq Nat /\ Slack \in Nat
  <2>1. /\ IdleCheckIn \in Nat /\ MinCheckIn \in Nat /\ PollError \in Nat
        /\ CheckIns \subseteq Nat /\ Slack \in Nat
    BY DurationAssumption
  <2> QED
    BY <2>1 DEF Rests
<1>2. Rested(0)
  BY <1>1 DEF Rested, Rests
<1>3. ASSUME NEW w \in Rests, NEW s \in Sleeps(w)
      PROVE  s \in Nat /\ s >= w /\ Rested(s)
  BY <1>1 DEF Sleeps, Rested
<1>4. \A w \in NextWaits(IdleCheckIn, MinCheckIn) : w \in Rests /\ w >= MinCheckIn
  BY DurationAssumption DEF NextWaits, Larger, Rests
<1>5. NextWaits(0, 0) \subseteq Rests
  BY DurationAssumption DEF NextWaits, Larger, Rests
<1> QED
  BY <1>1, <1>2, <1>3, <1>4, <1>5

\* /config starts its own timer, and the re-read's where a 426 has led to it.
LEMMA ConfigTimers ==
  ASSUME TypeOK, Config
  PROVE  \E d \in Nat :
           /\ ConfigRead(d) \/ ConfigRefused(d) \/ ConfigUnanswered(d)
           /\ age'["lease"] = Capped(age["lease"] + d, "lease")
           /\ age'["config"] = Capped(d, "config")
           /\ age'["reread"] = IF pc = "tooold" THEN Capped(d, "reread")
                               ELSE Capped(age["reread"] + d, "reread")
           /\ deaf' \/ (age'["answer"] = 0 /\ ~deaf')
<1>1. PICK d \in Nat : ConfigRead(d) \/ ConfigRefused(d) \/ ConfigUnanswered(d)
  BY DurationAssumption DEF Config, BootConfig, RefreshConfig, TooOldRereads
<1>2. /\ Passed(d) \in Ages
      /\ \A t \in Timers : Passed(d)[t] = Capped(age[t] + d, t)
  BY TypedState, PassedTimers
<1>3. /\ Called(d)["lease"] = Capped(age["lease"] + d, "lease")
      /\ Called(d)["config"] = Capped(d, "config")
      /\ Called(d)["reread"] = IF pc = "tooold" THEN Capped(d, "reread")
                               ELSE Capped(age["reread"] + d, "reread")
  <2> HIDE DEF Passed, Capped
  <2> QED
    BY <1>2 DEF Called, Ages, Timers
<1>4. Called(d) \in Ages
  BY CalledTimers
<1>5. \/ age' = [Called(d) EXCEPT !["answer"] = 0, !["heard"] = 0] /\ ~deaf'
      \/ age' = Called(d) /\ deaf'
  BY <1>1 DEF ConfigRead, ConfigRefused, ConfigUnanswered
<1> HIDE DEF Called, Capped
<1>6. /\ age'["lease"] = Called(d)["lease"]
      /\ age'["config"] = Called(d)["config"]
      /\ age'["reread"] = Called(d)["reread"]
      /\ deaf' \/ (age'["answer"] = 0 /\ ~deaf')
  BY <1>4, <1>5 DEF Ages, Timers
<1> QED
  BY <1>1, <1>3, <1>6

\* A check-in starts the lease's timer, and an answer the watchdog's; then the
\* loop rests, unless there is a job or a 426.
LEMMA LeaseTimers ==
  ASSUME TypeOK, Lease
  PROVE  \E d \in Nat, s \in Nat :
           /\ age'["lease"] = Capped(d + s, "lease")
           /\ \A t \in {"config", "reread"} :
                age'[t] = Capped(age[t] + (d + s), t)
           /\ brk' = Waits(HalfOpen(brk), d + s)
           /\ deaf' \/ (age'["answer"] = Capped(s, "answer") /\ ~deaf')
           /\ pc' = "top" => s >= MinCheckIn /\ Rested(s)
           /\ pc' # "top" => s = 0
           /\ pc' = "pace" => granted'
           /\ \/ UNCHANGED <<tooOld, served>>
              \/ ~tooOld' /\ served'
           /\ UNCHANGED cfg
<1>1. ASSUME NEW answered \in BOOLEAN, NEW d \in Nat, NEW s \in Nat,
             CheckIn(answered, d, s)
      PROVE  /\ age'["lease"] = Capped(d + s, "lease")
             /\ \A t \in {"config", "reread"} :
                  age'[t] = Capped(age[t] + (d + s), t)
             /\ brk' = Waits(HalfOpen(brk), d + s)
             /\ deaf' \/ (age'["answer"] = Capped(s, "answer") /\ ~deaf')
             /\ UNCHANGED cfg
  <2>1. /\ Passed(d + s) \in Ages
        /\ \A t \in Timers : Passed(d + s)[t] = Capped(age[t] + (d + s), t)
    BY TypedState, PassedTimers
  <2>2. PICK x, y :
          /\ age' = [Passed(d + s) EXCEPT !["lease"] = Capped(d + s, "lease"),
                                          !["answer"] = x, !["heard"] = y]
          /\ answered => x = Capped(s, "answer")
    BY <1>1 DEF CheckIn, Progress
  <2>3. /\ age'["lease"] = Capped(d + s, "lease") /\ age'["answer"] = x
        /\ \A t \in {"config", "reread"} : age'[t] = Passed(d + s)[t]
    <3> HIDE DEF Passed, Capped
    <3> QED
      BY <2>1, <2>2 DEF Ages, Timers
  <2> QED
    BY <1>1, <2>1, <2>2, <2>3 DEF CheckIn, Timers
<1>2. \A d \in 0 .. MaxCall : d \in Nat
  BY DurationAssumption
<1>3. PollError \in Rests /\ PollError >= MinCheckIn
  BY DurationAssumption DEF Rests
<1>4. CASE LeaseFails
  <2>1. PICK a \in LeaseAnswers, d \in Nat, s \in Sleeps(PollError) :
          CheckIn(a = "garbled", d, s)
    BY <1>2, <1>4 DEF LeaseFails
  <2>2. s \in Nat /\ s >= MinCheckIn /\ Rested(s)
    BY <1>3, RestTimes, DurationAssumption
  <2>3. (a = "garbled") \in BOOLEAN
    OBVIOUS
  <2> QED
    BY <1>1, <1>4, <2>1, <2>2, <2>3 DEF LeaseFails
<1>5. CASE LeaseTooOld
  <2>1. PICK d \in Nat : CheckIn(TRUE, d, 0)
    BY <1>2, <1>5 DEF LeaseTooOld
  <2> QED
    BY <1>1, <1>5, <2>1 DEF LeaseTooOld
<1>6. CASE LeaseRefused \/ LeaseEmpty
  <2>1. PICK d \in Nat, w \in NextWaits(IdleCheckIn, MinCheckIn) :
          \E s \in Sleeps(w) : CheckIn(TRUE, d, s)
    BY <1>2, <1>6 DEF LeaseRefused, LeaseEmpty
  <2>2. PICK s \in Sleeps(w) : CheckIn(TRUE, d, s)
    BY <2>1
  <2>3. s \in Nat /\ s >= MinCheckIn /\ Rested(s)
    <3>1. w \in Rests /\ w \in Nat /\ w >= MinCheckIn /\ MinCheckIn \in Nat
      BY RestTimes, DurationAssumption
    <3>2. s \in Nat /\ s >= w /\ Rested(s)
      BY <3>1, <2>2, RestTimes
    <3> QED
      BY <3>1, <3>2
  <2> QED
    BY <1>1, <1>6, <2>2, <2>3 DEF LeaseRefused, LeaseEmpty
<1>7. CASE LeaseJob
  <2>1. PICK d \in Nat : CheckIn(TRUE, d, 0)
    BY <1>2, <1>7 DEF LeaseJob
  <2> QED
    BY <1>1, <1>7, <2>1 DEF LeaseJob
<1> QED
  BY <1>4, <1>5, <1>6, <1>7 DEF Lease

\* A submit that was answered starts the watchdog's timer again.
LEMMA SubmitTimers ==
  ASSUME TypeOK, Submit
  PROVE  \E d \in Nat, s \in Nat :
           /\ \A t \in CallTimers : age'[t] = Capped(age[t] + (d + s), t)
           /\ brk' = Waits(brk, d + s)
           /\ deaf' \/ (age'["answer"] = Capped(s, "answer") /\ ~deaf')
           /\ Rested(s)
           /\ pc' = "tooold" => s = 0
           /\ pc = "submit" /\ pc' \in {"top", "tooold"}
           /\ UNCHANGED <<granted, served, tooOld, cfg>>
<1>1. \A d \in 0 .. MaxSubmit : d \in Nat
  BY DurationAssumption
<1>2. ASSUME NEW d \in Nat, NEW x, NEW y,
             \/ age' = Passed(d)
             \/ age' = [Passed(d) EXCEPT !["answer"] = x, !["heard"] = y]
      PROVE  \A t \in CallTimers : age'[t] = Capped(age[t] + d, t)
  <2>1. /\ Passed(d) \in Ages
        /\ \A t \in Timers : Passed(d)[t] = Capped(age[t] + d, t)
    BY TypedState, PassedTimers
  <2> HIDE DEF Passed, Capped
  <2> QED
    BY <1>2, <2>1 DEF Ages, CallTimers, Timers
<1>3. ASSUME NEW d \in Nat, NEW s \in Nat, Submitted(d, s)
      PROVE  /\ \A t \in CallTimers : age'[t] = Capped(age[t] + (d + s), t)
             /\ brk' = Waits(brk, d + s)
             /\ age'["answer"] = Capped(s, "answer") /\ ~deaf'
  <2>1. Passed(d + s) \in Ages
    BY TypedState, PassedTimers
  <2>2. age'["answer"] = Capped(s, "answer")
    <3> HIDE DEF Passed, Capped
    <3> QED
      BY <1>3, <2>1 DEF Submitted, Ages, Timers
  <2> QED
    BY <1>2, <1>3, <2>2 DEF Submitted
<1>4. CASE SubmitFails
  <2>1. PICK d \in Nat, s \in Sleeps(PollError) :
          /\ brk' = Waits(brk, d + s)
          /\ \/ age' = Passed(d + s)
             \/ \E x \in s .. d + s :
                  age' = [Passed(d + s) EXCEPT
                            !["answer"] = Capped(x, "answer"),
                            !["heard"] = Capped(x, "heard")]
    BY <1>1, <1>4 DEF SubmitFails
  <2>2. s \in Nat /\ Rested(s)
    BY RestTimes DEF Rests
  <2>3. d + s \in Nat
    BY <2>2
  <2>4. \A t \in CallTimers : age'[t] = Capped(age[t] + (d + s), t)
    BY <1>2, <2>1, <2>3
  <2> QED
    BY <1>4, <2>1, <2>2, <2>4 DEF SubmitFails
<1>5. CASE SubmitDone
  <2>1. PICK d \in Nat, w \in NextWaits(0, 0) :
          \E s \in Sleeps(w) : Submitted(d, s)
    BY <1>1, <1>5 DEF SubmitDone
  <2>2. PICK s \in Sleeps(w) : Submitted(d, s)
    BY <2>1
  <2>3. s \in Nat /\ Rested(s)
    BY RestTimes
  <2> QED
    BY <1>3, <1>5, <2>2, <2>3 DEF SubmitDone, Submitted
<1>6. CASE SubmitTooOld
  <2>1. PICK d \in Nat : Submitted(d, 0)
    BY <1>1, <1>6 DEF SubmitTooOld
  <2> QED
    BY <1>3, <1>6, <2>1, RestTimes DEF SubmitTooOld, Submitted
<1> QED
  BY <1>4, <1>5, <1>6 DEF Submit

\* A fetch lets time pass for the door.
LEMMA FetchTimersOfTheDoor ==
  ASSUME TypeOK,
         FetchSucceeds \/ FetchForbidden \/ FetchThrottled \/ FetchFails
  PROVE  /\ \E d \in 0 .. MaxFetch : \A t \in DoorTimers :
              age'[t] = Capped(age[t] + d, t)
         /\ pc = "fetch" /\ pc' = "submit"
         /\ UNCHANGED <<tooOld, deaf, granted, served>>
<1>1. ASSUME NEW d \in Nat, NEW x, NEW y, NEW z,
             \/ age' = Fetched(d)
             \/ age' = [Fetched(d) EXCEPT !["denied"] = z]
             \/ age' = [Fetched(d) EXCEPT !["fetch"] = x, !["hold"] = y]
      PROVE  \A t \in DoorTimers : age'[t] = Capped(age[t] + d, t)
  <2>1. /\ Passed(d) \in Ages
        /\ \A t \in Timers : Passed(d)[t] = Capped(age[t] + d, t)
    BY TypedState, PassedTimers
  <2> HIDE DEF Passed, Capped
  <2>2. \A t \in DoorTimers : Fetched(d)[t] = Passed(d)[t]
    BY <2>1 DEF Fetched, Ages, DoorTimers, CallTimers, Timers
  <2>3. DOMAIN Fetched(d) = Timers
    BY <2>1 DEF Fetched, Ages
  <2>4. \A t \in DoorTimers : age'[t] = Fetched(d)[t]
    <3> HIDE DEF Fetched
    <3> QED
      BY <1>1, <2>3 DEF DoorTimers, CallTimers, Timers
  <2> QED
    BY <2>1, <2>2, <2>4 DEF DoorTimers, CallTimers, Timers
<1>2. \A d \in 0 .. MaxFetch : d \in Nat
  BY DurationAssumption
<1>3. \E d \in 0 .. MaxFetch : \E x, y, z :
        \/ age' = Fetched(d)
        \/ age' = [Fetched(d) EXCEPT !["denied"] = z]
        \/ age' = [Fetched(d) EXCEPT !["fetch"] = x, !["hold"] = y]
  BY DEF FetchSucceeds, FetchForbidden, FetchThrottled, FetchFails
<1> QED
  BY <1>1, <1>2, <1>3 DEF FetchSucceeds, FetchForbidden, FetchThrottled, FetchFails

-----------------------------------------------------------------------------
\* Check-ins and re-reads are spaced

\* What comes before a check-in has rested, unless it granted a job; the first
\* 426 after another answer may re-read at once, and while they go on the last
\* re-read is at least as old as the last look at /config.
SpacedInv ==
  /\ \A t \in CallTimers : age[t] >= 0
  /\ pc \in {"boot", "top", "refresh", "poll"} =>
       age["lease"] >= MinCheckIn \/ granted
  /\ pc \in {"pace", "fetch", "submit"} => granted
  /\ ~tooOld => age["reread"] >= TooOldEvery \/ served
  /\ age["reread"] >= TooOldEvery \/ age["reread"] >= age["config"]

LEMMA CallCaps ==
  /\ \A t \in CallTimers : Cap[t] \in Nat
  /\ Cap["lease"] >= MinCheckIn /\ Cap["reread"] >= TooOldEvery
  /\ MinCheckIn \in Nat /\ TooOldEvery \in Nat
BY CapAssumption, DurationAssumption DEF CallTimers, Timers

\* Time passes.
LEMMA SpacedLater ==
  ASSUME TypeOK, SpacedInv, NEW d \in Nat,
         \A t \in CallTimers : age'[t] = Capped(age[t] + d, t)
  PROVE  /\ \A t \in CallTimers : age'[t] >= 0
         /\ age["lease"] >= MinCheckIn \/ d >= MinCheckIn =>
              age'["lease"] >= MinCheckIn
         /\ age["reread"] >= TooOldEvery => age'["reread"] >= TooOldEvery
         /\ age'["reread"] >= TooOldEvery \/ age'["reread"] >= age'["config"]
<1>1. \A t \in CallTimers : age[t] \in Int
  BY TypedState DEF Ages, CallTimers, Timers
<1>2. \A t \in CallTimers :
        age'[t] = IF age[t] + d > Cap[t] THEN Cap[t] ELSE age[t] + d
  BY DEF Capped
<1> QED
  BY <1>1, <1>2, CallCaps DEF SpacedInv, CallTimers

LEMMA SpacedStep ==
  ASSUME TypeOK, SpacedInv, [Next]_vars
  PROVE  SpacedInv'
<1>1. CASE Starts
  <2>1. \A t \in CallTimers : age'[t] = Cap[t]
    BY <1>1, ForgottenState DEF Starts, CallTimers, Timers
  <2>2. pc' = "boot"
    BY <1>1 DEF Starts
  <2>3. /\ \A t \in CallTimers : age'[t] >= 0
        /\ age'["lease"] >= MinCheckIn /\ age'["reread"] >= TooOldEvery
    BY <2>1, CallCaps DEF CallTimers
  <2> QED
    BY <2>2, <2>3 DEF SpacedInv
<1>2. CASE Config
  <2>1. PICK d \in Nat :
          /\ age'["lease"] = Capped(age["lease"] + d, "lease")
          /\ age'["config"] = Capped(d, "config")
          /\ age'["reread"] = IF pc = "tooold" THEN Capped(d, "reread")
                              ELSE Capped(age["reread"] + d, "reread")
    BY <1>2, ConfigTimers
  <2>2. \A t \in CallTimers : age[t] \in Int /\ age[t] >= 0
    BY TypedState DEF Ages, CallTimers, Timers, SpacedInv
  <2>3. /\ \A t \in CallTimers : age'[t] >= 0
        /\ age["lease"] >= MinCheckIn => age'["lease"] >= MinCheckIn
        /\ age'["reread"] >= TooOldEvery \/ age'["reread"] >= age'["config"]
        /\ pc # "tooold" /\ age["reread"] >= TooOldEvery =>
             age'["reread"] >= TooOldEvery
    BY <2>1, <2>2, CallCaps DEF CallTimers, Capped
  <2>4. CASE pc = "tooold"
    BY <1>2, <2>3, <2>4 DEF Config, BootConfig, RefreshConfig, TooOldRereads,
                            SpacedInv
  <2>5. CASE pc # "tooold"
    BY <1>2, <2>3, <2>5 DEF Config, BootConfig, RefreshConfig, TooOldRereads,
                            SpacedInv
  <2> QED
    BY <2>4, <2>5
<1>3. CASE WatchdogExits \/ LoopTop \/ Dies \/ UNCHANGED vars
  BY <1>3 DEF WatchdogExits, LoopTop, Dies, vars, hist, SpacedInv
<1>4. CASE Waiting
  <2>1. PICK d \in Nat :
          /\ age' = Passed(d)
          /\ pc \in {"rest", "tooold"} => d >= MinCheckIn
    <3>1. CASE BreakerWaits
      BY <3>1, SleepTimes, TypedState, BreakerFields DEF BreakerWaits
    <3>2. CASE Pace
      <4>1. PaceWait \in Int
        BY TypedState DEF PaceWait, CfgType, Ages, Timers
      <4> QED
        BY <3>2, <4>1, SleepTimes DEF Pace
    <3>3. CASE TooOldRests
      <4>1. PICK w \in NextWaits(IdleCheckIn, MinCheckIn) :
              \E s \in Sleeps(w) : age' = Passed(s)
        BY <3>3 DEF TooOldRests
      <4>2. PICK s \in Sleeps(w) : age' = Passed(s)
        BY <4>1
      <4>3. w \in Rests /\ w \in Nat /\ w >= MinCheckIn /\ MinCheckIn \in Nat
        BY RestTimes, DurationAssumption
      <4>4. s \in Nat /\ s >= w
        BY <4>2, <4>3, RestTimes
      <4> QED
        BY <4>2, <4>3, <4>4
    <3> QED
      BY <1>4, <3>1, <3>2, <3>3 DEF Waiting
  <2>2. \A t \in CallTimers : age'[t] = Capped(age[t] + d, t)
    BY <2>1, TypedState, PassedTimers DEF CallTimers, Timers
  <2>3. UNCHANGED <<tooOld, granted, served>>
    BY <1>4 DEF Waiting, BreakerWaits, Pace, TooOldRests, hist
  <2>4. \/ pc = "poll" /\ pc' = "top"
        \/ pc = "pace" /\ pc' = "fetch"
        \/ pc \in {"rest", "tooold"} /\ pc' = "top"
    BY <1>4 DEF Waiting, BreakerWaits, Pace, TooOldRests, hist
  <2> QED
    BY <2>1, <2>2, <2>3, <2>4, SpacedLater DEF SpacedInv
<1>5. CASE Lease
  <2>1. PICK d \in Nat, s \in Nat :
          /\ age'["lease"] = Capped(d + s, "lease")
          /\ \A t \in {"config", "reread"} :
               age'[t] = Capped(age[t] + (d + s), t)
          /\ pc' = "top" => s >= MinCheckIn
          /\ pc' = "pace" => granted'
          /\ UNCHANGED <<tooOld, served>> \/ (~tooOld' /\ served')
    BY <1>5, LeaseTimers
  <2>2. \A t \in CallTimers : age[t] \in Int /\ age[t] >= 0
    BY TypedState DEF Ages, CallTimers, Timers, SpacedInv
  <2>3. /\ \A t \in CallTimers : age'[t] >= 0
        /\ s >= MinCheckIn => age'["lease"] >= MinCheckIn
        /\ age'["reread"] >= TooOldEvery \/ age'["reread"] >= age'["config"]
        /\ age["reread"] >= TooOldEvery => age'["reread"] >= TooOldEvery
    BY <2>1, <2>2, CallCaps DEF CallTimers, Capped, SpacedInv
  <2>4. pc' \in {"top", "tooold", "pace"}
    BY <1>5, LeaseIsSteady
  <2> QED
    BY <2>1, <2>3, <2>4 DEF SpacedInv
<1>6. CASE FetchSucceeds \/ FetchForbidden \/ FetchThrottled \/ FetchFails
  <2>1. \A d \in 0 .. MaxFetch : d \in Nat
    BY DurationAssumption
  <2>2. \E d \in Nat : \A t \in CallTimers : age'[t] = Capped(age[t] + d, t)
    BY <1>6, <2>1, FetchTimersOfTheDoor DEF DoorTimers
  <2> QED
    BY <1>6, <2>2, FetchTimersOfTheDoor, SpacedLater DEF SpacedInv
<1>7. CASE Submit
  <2>1. PICK d \in Nat, s \in Nat :
          /\ \A t \in CallTimers : age'[t] = Capped(age[t] + (d + s), t)
          /\ pc = "submit" /\ pc' \in {"top", "tooold"}
          /\ UNCHANGED <<granted, served, tooOld>>
    BY <1>7, SubmitTimers
  <2>2. d + s \in Nat
    OBVIOUS
  <2> QED
    BY <2>1, <2>2, SpacedLater DEF SpacedInv
<1> QED
  BY <1>1, <1>2, <1>3, <1>4, <1>5, <1>6, <1>7 DEF Next, Collector, Fetch, Waiting

LEMMA SpacedInit == Init => SpacedInv
BY LongAgoTimers, CallCaps DEF Init, Fresh, SpacedInv, CallTimers, Timers

\* The collector never hammers a door that has nothing for it: whatever the
\* hub answers or fails to, check-ins without a job are minCheckIn apart.
THEOREM NeverATightLoop == Spec => []NoTightLoop
<1>1. SpacedInv => NoTightLoop
  BY DEF SpacedInv, NoTightLoop
<1> QED
  BY LoopTypeInit, LoopTypeStep, SpacedInit, SpacedStep, <1>1, PTL DEF Spec

\* While 426s go on, /config is re-read at most every tooOldConfigEvery,
\* whatever the re-reads and the hourly refreshes between them do.
THEOREM RereadsAlwaysSpaced == Spec => []RereadsAreSpaced
<1>1. TypeOK /\ SpacedInv => RereadsAreSpaced
  <2>1. TypeOK => /\ age["config"] \in Int /\ age["reread"] \in Int
                  /\ TooOldEvery \in Nat
    BY TypedState, DurationAssumption DEF Ages, Timers
  <2> QED
    BY <2>1 DEF SpacedInv, RereadsAreSpaced, RereadDue
<1> QED
  BY LoopTypeInit, LoopTypeStep, SpacedInit, SpacedStep, <1>1, PTL DEF Spec

-----------------------------------------------------------------------------
\* The watchdog

\* Every cooldown that can be in force.
Cooldowns == {DefaultCooldown}
  \cup ({b.cooldown : b \in Bodies \cup ErrorBodies} \ {Absent})

\* The watchdog is longer than every rest.
RestsFit == \A w \in Rests : w + Slack <= Watchdog

\* And than the cooldown in force after any rest: a breaker is open when a rest
\* ends only for less than its cooldown, so twice the cooldown does as well.
CooldownFits ==
  \A w \in Rests : \/ w + Slack + brk.cooldown + Slack <= Watchdog
                   \/ brk.cooldown - 1 + brk.cooldown + Slack <= Watchdog

\* An open breaker has been waited out, and its cooldown does not fit: the one
\* sleep of the loop that can take the watchdog to its limit.
LongCooldownIsOver ==
  brk.openFor # Closed /\ ~IsOpen(brk) /\ ~CooldownFits

\* Where the last call was answered, the answer is as old as a rest, or a
\* cooldown that is now over has been waited out after it; while a breaker is
\* open, it opened before that answer.
WatchInv ==
  /\ brk.cooldown \in Cooldowns
  /\ cfg.cooldown > 0 => cfg.cooldown \in Cooldowns
  /\ pc \in {"tooold", "rest"} /\ ~deaf => age["answer"] <= 0
  /\ pc \in {"top", "refresh", "poll"} /\ ~deaf =>
       \/ Rested(age["answer"])
       \/ ~IsOpen(brk) /\ (age["answer"] <= Watchdog \/ LongCooldownIsOver)
  /\ pc \in {"top", "refresh", "poll", "tooold", "rest"} /\ ~deaf
       /\ IsOpen(brk) => age["answer"] <= brk.openFor

LEMMA CooldownsFit ==
  /\ DefaultCooldown \in Cooldowns
  /\ \A c \in Cooldowns : c \in Int /\ c <= Cap["denied"]
  /\ Cap["denied"] \in Nat
<1>1. DefaultCooldown \in Nat /\ DefaultCooldown # Absent
  BY BreakerAssumption, BodyAssumption
<1>2. \A b \in Bodies \cup ErrorBodies : b.cooldown \in Int \cup {Absent}
  BY BodyAssumption DEF BodyType
<1>3. Cap["denied"] \in Nat
  BY CapAssumption DEF Timers
<1> QED
  BY <1>1, <1>2, <1>3, CapAssumption DEF Cooldowns

LEMMA RestedBefore ==
  ASSUME NEW x \in Int, NEW y \in Int, y <= x, Rested(x)
  PROVE  Rested(y)
BY RestTimes DEF Rested

\* An open breaker was open before some time passed, and has counted it all;
\* one that has waited its cooldown is open no more.
LEMMA OpenAfter ==
  ASSUME NEW b \in Breakers, b.cooldown <= Cap["denied"], NEW d \in Nat
  PROVE  /\ IsOpen(Waits(b, d)) =>
              IsOpen(b) /\ Waits(b, d).openFor = b.openFor + d
         /\ d >= b.cooldown => ~IsOpen(Waits(b, d))
         /\ IsOpen(b) => b.openFor \in Nat /\ b.openFor <= b.cooldown - 1
<1>1. /\ b.cooldown \in Nat \ {0} /\ b.openFor \in Nat \cup {-1}
      /\ Cap["denied"] \in Nat
  BY BreakerFields, CapAssumption DEF Closed, Timers
<1>2. /\ Waits(b, d).cooldown = b.cooldown
      /\ b.openFor = -1 => Waits(b, d).openFor = -1
      /\ b.openFor # -1 =>
           Waits(b, d).openFor = IF b.openFor + d > Cap["denied"]
                                 THEN Cap["denied"] ELSE b.openFor + d
  BY WaitedBreaker DEF Closed, Capped
<1> QED
  BY <1>1, <1>2 DEF IsOpen, Closed

LEMMA WatchConfig ==
  ASSUME TypeOK, WatchInv, NEW d \in Nat,
         ConfigRead(d) \/ ConfigRefused(d) \/ ConfigUnanswered(d)
  PROVE  /\ brk'.cooldown \in Cooldowns
         /\ cfg'.cooldown > 0 => cfg'.cooldown \in Cooldowns
<1>1. ASSUME NEW body \in Bodies \cup ErrorBodies
      PROVE  LET m == Merged(body) IN
             /\ m \in CfgType /\ m.threshold \in Int /\ m.cooldown \in Int
             /\ m.cooldown > 0 => m.cooldown \in Cooldowns
  <2>1. /\ Merged(body) \in CfgType
        /\ Merged(body).cooldown = IF body.cooldown = Absent
                                   THEN cfg.cooldown ELSE body.cooldown
    BY TypedState, MergedConfig, BodyAssumption
  <2>2. body.cooldown # Absent => body.cooldown \in Cooldowns
    BY DEF Cooldowns
  <2> QED
    BY <2>1, <2>2 DEF WatchInv, CfgType
<1>2. Waits(brk, d) \in Breakers /\ Waits(brk, d).cooldown \in Cooldowns
  BY TypedState, WaitedBreaker DEF WatchInv
<1>3. CASE ConfigRead(d)
  <2>1. PICK body \in Bodies :
          /\ cfg' = WithDefaults(Merged(body))
          /\ brk' = Configure(Waits(brk, d), Merged(body).threshold,
                              Merged(body).cooldown)
    BY <1>3 DEF ConfigRead
  <2>2. brk'.cooldown = IF Merged(body).cooldown > 0
                        THEN Merged(body).cooldown ELSE DefaultCooldown
    BY <1>1, <1>2, <2>1, ConfiguredBreaker
  <2>3. cfg'.cooldown = Merged(body).cooldown
    BY <1>1, <2>1, DefaultedConfig
  <2> QED
    BY <1>1, <2>2, <2>3, CooldownsFit
<1>4. CASE ConfigRefused(d)
  BY <1>1, <1>2, <1>4 DEF ConfigRefused
<1>5. CASE ConfigUnanswered(d)
  BY <1>2, <1>5 DEF ConfigUnanswered, WatchInv
<1> QED
  BY <1>3, <1>4, <1>5

\* A sleep before an open breaker whose cooldown fits ends within the limit.
LEMMA WatchBreaker ==
  ASSUME TypeOK, WatchInv, BreakerWaits
  PROVE  WatchInv'
<1>1. PICK d \in Sleeps(brk.cooldown) : age' = Passed(d) /\ brk' = Waits(brk, d)
  BY DEF BreakerWaits
<1> DEFINE c == brk.cooldown
<1>2. /\ brk \in Breakers /\ c \in Nat \ {0} /\ c \in Cooldowns
      /\ c <= Cap["denied"] /\ Slack \in Nat /\ Watchdog \in Nat
  BY TypedState, BreakerFields, CooldownsFit, DurationAssumption DEF WatchInv
<1>3. d \in Nat /\ d >= c /\ d <= c + Slack
  BY <1>2 DEF Sleeps
<1>4. brk'.cooldown = c /\ ~IsOpen(brk') /\ brk'.openFor # Closed
  <2>1. brk.openFor # Closed /\ brk.openFor \in Nat
    BY <1>2, BreakerFields DEF BreakerWaits, IsOpen
  <2>2. Capped(brk.openFor + d, "denied") \in Nat
    BY <1>3, <2>1, CapAssumption DEF Capped, Timers
  <2> QED
    <3>1. /\ brk'.cooldown = c
          /\ brk'.openFor = Capped(brk.openFor + d, "denied")
      BY <1>1, <1>2, <1>3, <2>1, WaitedBreaker
    <3>2. ~IsOpen(brk')
      BY <1>1, <1>2, <1>3, OpenAfter
    <3> QED
      BY <2>2, <3>1, <3>2 DEF Closed
<1>5. /\ age["answer"] \in Int /\ age'["answer"] \in Int
      /\ age'["answer"] <= age["answer"] + d
  <2>1. age \in Ages /\ "answer" \in Timers /\ age["answer"] \in Int
    BY TypedState DEF Ages, Timers
  <2>2. age'["answer"] = Capped(age["answer"] + d, "answer")
    BY <1>1, <1>3, <2>1, PassedTimers
  <2>3. age["answer"] + d \in Int
    BY <1>3, <2>1
  <2>4. /\ Capped(age["answer"] + d, "answer") \in Int
        /\ Capped(age["answer"] + d, "answer") <= age["answer"] + d
    BY <2>1, <2>3, CappedTimer
  <2> QED
    BY <2>1, <2>2, <2>4
<1>6. ASSUME ~deaf, CooldownFits PROVE age'["answer"] <= Watchdog
  <2>1. Rested(age["answer"]) /\ age["answer"] <= c - 1
    BY <1>2, <1>5, <1>6, OpenAfter DEF WatchInv, BreakerWaits
  <2>2. PICK w \in Rests : age["answer"] <= w + Slack
    BY <2>1 DEF Rested
  <2>3. w \in Nat
    BY RestTimes
  <2>4. w + Slack + c + Slack <= Watchdog \/ c - 1 + c + Slack <= Watchdog
    BY <1>6, <2>2 DEF CooldownFits
  <2> QED
    BY <1>2, <1>3, <1>5, <2>1, <2>2, <2>3, <2>4
<1>7. CooldownFits' = CooldownFits
  BY <1>4 DEF CooldownFits
<1>8. ~deaf => age'["answer"] <= Watchdog \/ LongCooldownIsOver'
  BY <1>4, <1>6, <1>7 DEF LongCooldownIsOver, IsOpen
<1> QED
  BY <1>2, <1>4, <1>8 DEF BreakerWaits, WatchInv, hist

LEMMA WatchStep ==
  ASSUME TypeOK, WatchInv, [Next]_vars
  PROVE  WatchInv'
<1>0. /\ brk \in Breakers /\ brk.cooldown <= Cap["denied"]
      /\ age["answer"] \in Int /\ age'["answer"] \in Int
  <2>1. TypeOK'
    BY LoopTypeStep
  <2>2. age' \in [Timers -> Int]
    BY <2>1 DEF TypeOK
  <2> QED
    BY <2>2, TypedState, CooldownsFit DEF WatchInv, Ages, Timers
<1>1. CASE Starts
  BY <1>1, ForgottenState, CooldownsFit DEF Starts, WatchInv, Blank
<1>2. CASE Config
  <2>1. PICK d \in Nat :
          /\ ConfigRead(d) \/ ConfigRefused(d) \/ ConfigUnanswered(d)
          /\ deaf' \/ age'["answer"] = 0
    BY <1>2, ConfigTimers
  <2>2. /\ brk'.cooldown \in Cooldowns
        /\ cfg'.cooldown > 0 => cfg'.cooldown \in Cooldowns
    BY <2>1, WatchConfig
  <2>3. IsOpen(brk') => 0 <= brk'.openFor
    BY <2>1, ConfigIsQuiet, BreakerFields DEF Quiet, IsOpen
  <2> QED
    BY <2>1, <2>2, <2>3, RestTimes DEF WatchInv
<1>3. CASE WatchdogExits \/ LoopTop \/ Dies \/ UNCHANGED vars
  BY <1>3 DEF WatchdogExits, LoopTop, Dies, vars, hist, WatchInv,
               LongCooldownIsOver, CooldownFits
<1>4. CASE BreakerWaits
  BY <1>4, WatchBreaker
<1>5. CASE Pace
  BY <1>5, AnyWaitIsSteady DEF Waiting, Steady, Pace, WatchInv
<1>6. CASE TooOldRests
  <2>1. PICK w \in NextWaits(IdleCheckIn, MinCheckIn) :
          \E s \in Sleeps(w) : age' = Passed(s) /\ brk' = Waits(brk, s)
    BY <1>6 DEF TooOldRests
  <2>2. PICK s \in Sleeps(w) : age' = Passed(s) /\ brk' = Waits(brk, s)
    BY <2>1
  <2>3. s \in Nat /\ Rested(s)
    BY <2>2, RestTimes
  <2>4. age'["answer"] <= age["answer"] + s
    <3>1. "answer" \in Timers /\ age["answer"] + s \in Int
      BY <1>0, <2>3, TypedState DEF Timers
    <3>2. Capped(age["answer"] + s, "answer") <= age["answer"] + s
      BY <3>1, CappedTimer
    <3>3. age'["answer"] = Capped(age["answer"] + s, "answer")
      BY <2>2, <3>1 DEF Passed
    <3> QED
      BY <3>2, <3>3
  <2>5. brk'.cooldown = brk.cooldown
        /\ (IsOpen(brk') => IsOpen(brk) /\ brk'.openFor = brk.openFor + s
                            /\ brk.openFor \in Nat)
    BY <1>0, <2>2, <2>3, OpenAfter, WaitedBreaker
  <2>6. ASSUME ~deaf
        PROVE  Rested(age'["answer"])
               /\ (IsOpen(brk') => age'["answer"] <= brk'.openFor)
    <3>1. age["answer"] <= 0 /\ (IsOpen(brk) => age["answer"] <= brk.openFor)
      BY <1>6, <2>6 DEF TooOldRests, WatchInv
    <3>2. age'["answer"] <= s
      BY <1>0, <2>3, <2>4, <3>1
    <3> QED
      BY <1>0, <2>3, <2>4, <2>5, <3>1, <3>2, RestedBefore
  <2> QED
    BY <1>6, <2>5, <2>6 DEF TooOldRests, WatchInv, hist
<1>7. CASE Lease
  <2>1. PICK d \in Nat, s \in Nat :
          /\ brk' = Waits(HalfOpen(brk), d + s)
          /\ deaf' \/ age'["answer"] = Capped(s, "answer")
          /\ pc' = "top" => Rested(s)
          /\ pc' # "top" => s = 0
          /\ UNCHANGED cfg
    BY <1>7, LeaseTimers
  <2>2. HalfOpen(brk) \in Breakers /\ HalfOpen(brk).openFor = Closed
        /\ HalfOpen(brk).cooldown = brk.cooldown
    BY <1>0, <1>7, LeaseIsSteady, HalfOpenBreaker
  <2>3. d + s \in Nat
    OBVIOUS
  <2>4. brk'.cooldown = brk.cooldown /\ ~IsOpen(brk')
    BY <2>1, <2>2, <2>3, WaitedBreaker DEF IsOpen
  <2>5. ~deaf' => age'["answer"] <= s
    <3>1. "answer" \in Timers /\ s \in Int
      BY DEF Timers
    <3>2. Capped(s, "answer") <= s
      BY <3>1, CappedTimer
    <3> QED
      BY <2>1, <3>2
  <2>6. pc' \in {"top", "tooold", "pace"}
    BY <1>7, LeaseIsSteady
  <2>7. ~deaf' /\ pc' = "top" => Rested(age'["answer"])
    BY <1>0, <2>1, <2>5, RestedBefore
  <2> QED
    BY <2>1, <2>4, <2>5, <2>6, <2>7 DEF WatchInv
<1>8. CASE FetchSucceeds \/ FetchForbidden \/ FetchThrottled \/ FetchFails
  BY <1>8, FetchIsCounted DEF Fetching, WatchInv
<1>9. CASE Submit
  <2>1. PICK d \in Nat, s \in Nat :
          /\ brk' = Waits(brk, d + s)
          /\ deaf' \/ age'["answer"] = Capped(s, "answer")
          /\ Rested(s)
          /\ pc' = "tooold" => s = 0
          /\ pc' \in {"top", "tooold"}
          /\ UNCHANGED cfg
    BY <1>9, SubmitTimers
  <2>2. d + s \in Nat
    OBVIOUS
  <2>3. /\ brk'.cooldown = brk.cooldown
        /\ IsOpen(brk') => brk'.openFor = brk.openFor + (d + s)
                           /\ brk.openFor \in Nat
    BY <1>0, <2>1, <2>2, OpenAfter, WaitedBreaker
  <2>4. ~deaf' => age'["answer"] <= s
    <3>1. "answer" \in Timers /\ s \in Int
      BY DEF Timers
    <3>2. Capped(s, "answer") <= s
      BY <3>1, CappedTimer
    <3> QED
      BY <2>1, <3>2
  <2>5. ~deaf' => Rested(age'["answer"])
    BY <1>0, <2>1, <2>4, RestedBefore
  <2>6. ~deaf' /\ IsOpen(brk') => age'["answer"] <= brk'.openFor
    BY <1>0, <2>3, <2>4
  <2> QED
    BY <2>1, <2>3, <2>4, <2>5, <2>6 DEF WatchInv
<1> QED
  BY <1>1, <1>2, <1>3, <1>4, <1>5, <1>6, <1>7, <1>8, <1>9
  DEF Next, Collector, Fetch

\* A restart by the watchdog means that the hub left calls unanswered: no rest
\* the door asked for, no job and no open breaker is ever taken for a wedged
\* process. The one exception is an open breaker that has just been waited out
\* and whose cooldown does not fit under the watchdog, as the default does not.
THEOREM WatchdogAlwaysMeansUnreachable ==
  ASSUME RestsFit
  PROVE  Spec => [](LongCooldownIsOver \/ WatchdogMeansUnreachable)
<1>1. Init => WatchInv
  <2> SUFFICES ASSUME Init PROVE WatchInv
    OBVIOUS
  <2>1. brk.cooldown = DefaultCooldown
    BY NewBreaker DEF Init, Fresh
  <2> QED
    BY <2>1, CooldownsFit DEF Init, Fresh, Blank, WatchInv
<1>2. TypeOK /\ WatchInv /\ [Next]_vars => WatchInv'
  BY WatchStep
<1>3. TypeOK /\ WatchInv => LongCooldownIsOver \/ WatchdogMeansUnreachable
  <2> SUFFICES ASSUME TypeOK, WatchInv, pc = "top", ~deaf, ~LongCooldownIsOver
               PROVE  ~Wedged
    BY DEF WatchdogMeansUnreachable
  <2>1. age["answer"] \in Int /\ Watchdog \in Nat /\ brk.cooldown > 0
    BY TypedState, BreakerFields, DurationAssumption DEF Ages, Timers
  <2>2. Rested(age["answer"]) => age["answer"] <= Watchdog
    <3>1. SUFFICES ASSUME NEW w \in Rests, age["answer"] <= w + Slack
                   PROVE  age["answer"] <= Watchdog
      BY DEF Rested
    <3>2. w \in Nat /\ Slack \in Nat /\ w + Slack <= Watchdog
      BY RestTimes DEF RestsFit
    <3> QED
      BY <2>1, <3>1, <3>2
  <2> QED
    BY <2>1, <2>2 DEF WatchInv, Wedged
<1> QED
  BY <1>1, <1>2, <1>3, LoopTypeInit, LoopTypeStep, PTL DEF Spec

-----------------------------------------------------------------------------
\* Outages are noticed

\* A stretch of d without an answer, and an answer x ago.
Unheard(d) == \A t \in {"answer", "heard"} : age'[t] = Capped(age[t] + d, t)
Heard(x) == \A t \in {"answer", "heard"} : age'[t] = Capped(x, t)

LEMMA WaitHears ==
  ASSUME TypeOK, Waiting
  PROVE  \E d \in Nat :
           /\ Unheard(d)
           /\ \/ pc = "poll" /\ pc' = "top" /\ d <= brk.cooldown + Slack
                 /\ brk'.cooldown = brk.cooldown
              \/ pc = "pace" /\ pc' = "fetch" /\ d <= Larger(PaceWait, 0) + Slack
              \/ pc \in {"rest", "tooold"} /\ pc' = "top" /\ Rested(d)
<1>1. \A d \in Nat : age' = Passed(d) => Unheard(d)
  BY TypedState, PassedTimers DEF Unheard, Timers
<1>2. Slack \in Nat
  BY RestTimes
<1>3. CASE BreakerWaits
  <2>1. PICK d \in Sleeps(brk.cooldown) :
          age' = Passed(d) /\ brk' = Waits(brk, d)
    BY <1>3 DEF BreakerWaits
  <2>2. d \in Nat /\ d <= brk.cooldown + Slack
    BY <1>2, TypedState, BreakerFields DEF Sleeps
  <2> QED
    BY <1>1, <1>3, <2>1, <2>2, TypedState, WaitedBreaker DEF BreakerWaits
<1>4. CASE Pace
  <2>1. PICK d \in Sleeps(PaceWait) : age' = Passed(d)
    BY <1>4 DEF Pace
  <2>2. PaceWait \in Int
    BY TypedState DEF PaceWait, CfgType, Ages, Timers
  <2>3. d \in Nat /\ d <= Larger(PaceWait, 0) + Slack
    BY <1>2, <2>2 DEF Sleeps, Larger
  <2> QED
    BY <1>1, <1>4, <2>1, <2>3 DEF Pace
<1>5. CASE TooOldRests
  <2>1. PICK w \in NextWaits(IdleCheckIn, MinCheckIn) :
          \E s \in Sleeps(w) : age' = Passed(s)
    BY <1>5 DEF TooOldRests
  <2>2. PICK s \in Sleeps(w) : age' = Passed(s)
    BY <2>1
  <2>3. s \in Nat /\ Rested(s)
    BY RestTimes
  <2> QED
    BY <1>1, <1>5, <2>2, <2>3 DEF TooOldRests
<1> QED
  BY <1>3, <1>4, <1>5 DEF Waiting

LEMMA ConfigHears ==
  ASSUME TypeOK, Config
  PROVE  /\ \E d \in 0 .. MaxCall : Unheard(d) \/ Heard(0)
         /\ \/ pc = "boot" /\ (pc' = "top" => Heard(0))
            \/ pc = "refresh" /\ pc' = "poll"
            \/ pc = "tooold" /\ pc' = "rest"
<1>1. ASSUME NEW d \in 0 .. MaxCall
      PROVE  /\ ConfigRead(d) \/ ConfigRefused(d) => Heard(0)
             /\ ConfigUnanswered(d) => Unheard(d)
  <2>1. d \in Nat
    BY DurationAssumption
  <2>2. /\ Called(d) \in Ages
        /\ Passed(d) \in Ages
        /\ \A t \in Timers : Passed(d)[t] = Capped(age[t] + d, t)
    BY <2>1, CalledTimers, TypedState, PassedTimers
  <2>3. \A t \in {"answer", "heard"} : Called(d)[t] = Passed(d)[t]
    <3> HIDE DEF Passed, Capped
    <3> QED
      BY <2>2 DEF Called, Ages, Timers
  <2>4. \A t \in {"answer", "heard"} : Capped(0, t) = 0
    <3>1. \A t \in {"answer", "heard"} : Cap[t] \in Nat
      BY CapAssumption DEF Timers
    <3> QED
      BY <3>1 DEF Capped
  <2>5. ConfigRead(d) \/ ConfigRefused(d) =>
          \A t \in {"answer", "heard"} : age'[t] = 0
    <3> HIDE DEF Called
    <3> QED
      BY <2>2 DEF ConfigRead, ConfigRefused, Ages, Timers
  <2>6. ConfigUnanswered(d) => \A t \in {"answer", "heard"} : age'[t] = Called(d)[t]
    BY DEF ConfigUnanswered
  <2> QED
    BY <2>2, <2>3, <2>4, <2>5, <2>6 DEF Heard, Unheard, Timers
<1> QED
  BY <1>1 DEF Config, BootConfig, RefreshConfig, TooOldRereads

LEMMA LeaseHears ==
  ASSUME TypeOK, Lease
  PROVE  \E s \in Nat :
           /\ \/ Heard(s) /\ Rested(s)
              \/ /\ pc' = "top" /\ s <= MaxCall + PollError + Slack
                 /\ Unheard(s)
           /\ pc' # "top" => s = 0 /\ Heard(s)
<1>1. ASSUME NEW answered \in BOOLEAN, NEW d \in Nat, NEW s \in Nat,
             CheckIn(answered, d, s)
      PROVE  IF answered THEN Heard(s) ELSE Unheard(d + s)
  <2>1. /\ Passed(d + s) \in Ages
        /\ \A t \in Timers : Passed(d + s)[t] = Capped(age[t] + (d + s), t)
    BY TypedState, PassedTimers
  <2>2. age' = [Passed(d + s) EXCEPT
                  !["lease"] = Capped(d + s, "lease"),
                  !["answer"] = IF answered THEN Capped(s, "answer") ELSE @,
                  !["heard"] = IF answered THEN Capped(s, "heard") ELSE @]
    BY <1>1 DEF CheckIn, Progress
  <2> HIDE DEF Passed, Capped
  <2>3. CASE answered
    BY <2>1, <2>2, <2>3 DEF Heard, Ages, Timers
  <2>4. CASE ~answered
    <3>1. /\ age'["answer"] = Passed(d + s)["answer"]
          /\ age'["heard"] = Passed(d + s)["heard"]
      BY <2>1, <2>2, <2>4 DEF Ages, Timers
    <3> QED
      BY <2>1, <2>4, <3>1 DEF Unheard, Timers
  <2> QED
    BY <2>3, <2>4
<1>2. MaxCall \in Nat /\ PollError \in Nat /\ Slack \in Nat
  BY DurationAssumption
<1>3. CASE LeaseFails
  <2>1. PICK a \in LeaseAnswers, d \in 0 .. MaxCall, s \in Sleeps(PollError) :
          CheckIn(a = "garbled", d, s)
    BY <1>3 DEF LeaseFails
  <2>2. s \in Nat /\ Rested(s) /\ s <= PollError + Slack
    BY <1>2, RestTimes DEF Rests, Sleeps
  <2>3. d \in Nat /\ d + s \in Nat /\ d + s <= MaxCall + PollError + Slack
    BY <1>2, <2>2
  <2>4. CASE a = "garbled"
    <3>1. CheckIn(TRUE, d, s)
      BY <2>1, <2>4
    <3> QED
      BY <1>1, <1>3, <2>2, <2>3, <3>1 DEF LeaseFails
  <2>5. CASE a # "garbled"
    <3>1. CheckIn(FALSE, d, s)
      BY <2>1, <2>5
    <3>2. Unheard(d + s)
      BY <1>1, <2>2, <2>3, <3>1
    <3> QED
      BY <1>3, <2>3, <3>2 DEF LeaseFails
  <2> QED
    BY <2>4, <2>5
<1>4. CASE LeaseTooOld \/ LeaseJob
  <2>1. PICK d \in 0 .. MaxCall : CheckIn(TRUE, d, 0)
    BY <1>4 DEF LeaseTooOld, LeaseJob
  <2>2. d \in Nat
    BY <1>2
  <2>3. Heard(0)
    BY <1>1, <2>1, <2>2
  <2> QED
    BY <2>3, RestTimes
<1>5. CASE LeaseRefused \/ LeaseEmpty
  <2>1. PICK d \in 0 .. MaxCall, w \in NextWaits(IdleCheckIn, MinCheckIn) :
          \E s \in Sleeps(w) : CheckIn(TRUE, d, s)
    BY <1>5 DEF LeaseRefused, LeaseEmpty
  <2>2. PICK s \in Sleeps(w) : CheckIn(TRUE, d, s)
    BY <2>1
  <2>3. d \in Nat /\ s \in Nat /\ Rested(s)
    <3>1. d \in Nat /\ w \in Rests
      BY <1>2, RestTimes
    <3> QED
      BY <2>2, <3>1, RestTimes
  <2>4. Heard(s) /\ pc' = "top"
    BY <1>1, <1>5, <2>2, <2>3 DEF LeaseRefused, LeaseEmpty
  <2> QED
    BY <2>3, <2>4
<1> QED
  BY <1>3, <1>4, <1>5 DEF Lease

LEMMA SubmitHears ==
  ASSUME TypeOK, Submit
  PROVE  /\ pc = "submit" /\ pc' \in {"top", "tooold"}
         /\ \/ \E s \in Nat : Rested(s) /\ Heard(s) /\ (pc' = "tooold" => s = 0)
            \/ /\ pc' = "top"
               /\ \E d \in 0 .. (MaxSubmit + PollError + Slack) :
                    Unheard(d) \/ \E x \in 0 .. d : Heard(x)
<1>1. MaxSubmit \in Nat /\ PollError \in Nat /\ Slack \in Nat
  BY DurationAssumption
<1>2. ASSUME NEW d \in Nat, NEW x \in Int,
             age' = [Passed(d) EXCEPT !["answer"] = Capped(x, "answer"),
                                      !["heard"] = Capped(x, "heard")]
      PROVE  Heard(x)
  <2>1. Passed(d) \in Ages
    BY TypedState, PassedTimers
  <2> HIDE DEF Passed, Capped
  <2> QED
    BY <1>2, <2>1 DEF Heard, Ages, Timers
<1>3. ASSUME NEW d \in Nat, age' = Passed(d) PROVE Unheard(d)
  BY <1>3, TypedState, PassedTimers DEF Unheard, Timers
<1>4. CASE SubmitFails
  <2>1. PICK d \in 0 .. MaxSubmit, s \in Sleeps(PollError) :
          \/ age' = Passed(d + s)
          \/ \E x \in s .. d + s :
               age' = [Passed(d + s) EXCEPT !["answer"] = Capped(x, "answer"),
                                            !["heard"] = Capped(x, "heard")]
    BY <1>4 DEF SubmitFails
  <2>2. s \in Nat /\ s <= PollError + Slack
    BY <1>1 DEF Sleeps
  <2>3. d + s \in 0 .. (MaxSubmit + PollError + Slack) /\ d + s \in Nat
    BY <1>1, <2>2
  <2>4. \A x \in s .. d + s : x \in Int /\ x \in 0 .. (d + s)
    BY <1>1, <2>2
  <2>5. Unheard(d + s) \/ \E x \in 0 .. (d + s) : Heard(x)
    BY <1>2, <1>3, <2>1, <2>3, <2>4
  <2> QED
    BY <1>4, <2>3, <2>5 DEF SubmitFails
<1>5. ASSUME NEW d \in 0 .. MaxSubmit, NEW s \in Nat, Submitted(d, s)
      PROVE  Heard(s) /\ pc = "submit"
  <2>1. d + s \in Nat
    BY <1>1
  <2> QED
    BY <1>2, <1>5, <2>1 DEF Submitted
<1>6. CASE SubmitDone
  <2>1. PICK d \in 0 .. MaxSubmit, w \in NextWaits(0, 0) :
          \E s \in Sleeps(w) : Submitted(d, s)
    BY <1>6 DEF SubmitDone
  <2>2. PICK s \in Sleeps(w) : Submitted(d, s)
    BY <2>1
  <2>3. s \in Nat /\ Rested(s)
    BY RestTimes
  <2> QED
    BY <1>5, <1>6, <2>2, <2>3 DEF SubmitDone
<1>7. CASE SubmitTooOld
  BY <1>5, <1>7, RestTimes DEF SubmitTooOld
<1> QED
  BY <1>4, <1>6, <1>7 DEF Submit

\* How long a job that has just been granted may wait for its fetch: for the
\* pacing, or for the rest of a hold, which is kept relative to the pacing of
\* its time.
Gaps == {p - q + h : p \in Pacings, q \in Pacings, h \in Holds \cup {0}}
Waited(x) == \E g \in Gaps : x <= g + Slack

\* The watchdog is longer than every rest, and a job is over, its waits and
\* retries included, soon enough not to outlast the watchdog by more than two
\* calls.
OutagesFit ==
  /\ \A w \in Rests : w + Slack <= Watchdog
  /\ \A g \in Gaps : g + Slack + MaxFetch + MaxSubmit <= Watchdog + 2 * MaxCall

\* The watchdog's clock is never behind the last answer, so that a look at it
\* bounds the latter, and from then on every line adds what it may take.
HeardInv ==
  /\ cfg.pacing \in Pacings
  /\ \E q \in Pacings, h \in Holds \cup {0} : age["fetch"] >= q - h
  /\ age["answer"] <= Watchdog => age["heard"] <= age["answer"]
  /\ pc = "top" => age["heard"] <= Watchdog + Unwatched
  /\ pc = "refresh" => age["heard"] <= Watchdog
  /\ pc = "poll" => age["heard"] <= Watchdog + MaxCall
  /\ pc \in {"tooold", "pace"} => age["heard"] <= 0
  /\ pc = "rest" => age["heard"] <= MaxCall
  /\ pc = "fetch" => Waited(age["heard"])
  /\ pc = "submit" => Waited(age["heard"] - MaxFetch)

LEMMA HeardNumbers ==
  TypeOK =>
    /\ {age["answer"], age["heard"], age["fetch"], cfg.pacing} \subseteq Int
    /\ brk.cooldown \in Nat
    /\ {Watchdog, MaxCall, MaxFetch, MaxSubmit, PollError, Slack} \subseteq Nat
    /\ Unwatched \in Nat
    /\ Unwatched >= 2 * MaxCall + PollError + Slack
    /\ Unwatched >= MaxCall + brk.cooldown + Slack
<1> SUFFICES ASSUME TypeOK
             PROVE  /\ {age["answer"], age["heard"], age["fetch"],
                        cfg.pacing} \subseteq Int
                    /\ brk.cooldown \in Nat
                    /\ {Watchdog, MaxCall, MaxFetch, MaxSubmit, PollError,
                        Slack} \subseteq Nat
                    /\ Unwatched \in Nat
                    /\ Unwatched >= 2 * MaxCall + PollError + Slack
                    /\ Unwatched >= MaxCall + brk.cooldown + Slack
  OBVIOUS
<1>1. {age["answer"], age["heard"], age["fetch"], cfg.pacing} \subseteq Int
  BY TypedState DEF Ages, Timers, CfgType
<1>2. brk.cooldown \in Nat
  BY TypedState, BreakerFields
<1>3. {Watchdog, MaxCall, MaxFetch, MaxSubmit, PollError, Slack} \subseteq Nat
  BY DurationAssumption
<1> QED
  BY <1>1, <1>2, <1>3 DEF Unwatched, Larger

LEMMA GapsAreTimes ==
  /\ \A g \in Gaps : g \in Int
  /\ 0 \in Gaps
<1>1. \A p \in Pacings : p \in Int
  BY PacingsFit
<1>2. \A h \in Holds \cup {0} : h \in Int
  BY DurationAssumption
<1>3. 0 \in Pacings /\ 0 - 0 + 0 = 0
  BY DEF Pacings
<1> QED
  BY <1>1, <1>2, <1>3 DEF Gaps

\* What a stretch without an answer, and an answer, do to the two clocks.
LEMMA HeardAfter ==
  ASSUME TypeOK, HeardInv, NEW d \in Nat, Unheard(d) \/ Heard(d)
  PROVE  /\ Unheard(d) => age'["heard"] <= age["heard"] + d
         /\ Heard(d) => age'["heard"] <= d
         /\ age'["answer"] <= Watchdog => age'["heard"] <= age'["answer"]
         /\ age'["heard"] \in Int
<1>1. /\ Cap["answer"] \in Nat /\ Cap["heard"] \in Nat
      /\ Cap["answer"] > Watchdog
  BY CapAssumption DEF Timers
<1>2. /\ age["answer"] \in Int /\ age["heard"] \in Int /\ Watchdog \in Nat
      /\ age["answer"] <= Watchdog => age["heard"] <= age["answer"]
  BY HeardNumbers DEF HeardInv
<1>3. CASE Unheard(d)
  <2>1. /\ age'["answer"] = IF age["answer"] + d > Cap["answer"]
                            THEN Cap["answer"] ELSE age["answer"] + d
        /\ age'["heard"] = IF age["heard"] + d > Cap["heard"]
                           THEN Cap["heard"] ELSE age["heard"] + d
    BY <1>3 DEF Unheard, Capped
  <2>2. /\ age'["heard"] <= age["heard"] + d
        /\ age'["answer"] <= Watchdog => age'["heard"] <= age'["answer"]
        /\ age'["heard"] \in Int
    BY <1>1, <1>2, <2>1
  <2>3. Heard(d) => age'["heard"] <= d
    BY <1>1 DEF Heard, Capped
  <2> QED
    BY <2>2, <2>3
<1>4. CASE Heard(d) /\ ~Unheard(d)
  <2>1. /\ age'["answer"] = IF d > Cap["answer"] THEN Cap["answer"] ELSE d
        /\ age'["heard"] = IF d > Cap["heard"] THEN Cap["heard"] ELSE d
    BY <1>4 DEF Heard, Capped
  <2> QED
    BY <1>1, <1>2, <1>4, <2>1
<1> QED
  BY <1>3, <1>4

\* Time passing never brings the end of a hold nearer than it was.
LEMMA FloorKept ==
  ASSUME TypeOK, HeardInv, NEW b, NEW d \in Nat, Quiet(b, d)
  PROVE  \E q \in Pacings, h \in Holds \cup {0} : age'["fetch"] >= q - h
<1>1. PICK q \in Pacings, h \in Holds \cup {0} : age["fetch"] >= q - h
  BY DEF HeardInv
<1>2. q \in Int /\ q <= Cap["fetch"] /\ Cap["fetch"] \in Nat /\ h \in Nat
  BY PacingsFit, CapAssumption, DurationAssumption DEF Timers
<1>3. age'["fetch"] = IF age["fetch"] + d > Cap["fetch"] THEN Cap["fetch"]
                      ELSE age["fetch"] + d
  BY DEF Quiet, FetchTimers, Capped
<1>4. age'["fetch"] >= q - h
  BY <1>1, <1>2, <1>3, HeardNumbers
<1> QED
  BY <1>4

\* A job waits for its fetch no longer than a gap.
LEMMA PaceIsAGap ==
  ASSUME TypeOK, HeardInv
  PROVE  \E g \in Gaps : Larger(PaceWait, 0) <= g
<1>1. PICK q \in Pacings, h \in Holds \cup {0} : age["fetch"] >= q - h
  BY DEF HeardInv
<1>2. q \in Int /\ h \in Int /\ cfg.pacing \in Int /\ age["fetch"] \in Int
  BY PacingsFit, DurationAssumption, HeardNumbers
<1>3. cfg.pacing - q + h \in Gaps
  BY DEF Gaps, HeardInv
<1>4. PaceWait <= cfg.pacing - q + h
  BY <1>1, <1>2 DEF PaceWait
<1>5. CASE PaceWait > 0
  BY <1>2, <1>3, <1>4, <1>5 DEF Larger, PaceWait
<1>6. CASE ~(PaceWait > 0)
  BY <1>6, GapsAreTimes DEF Larger
<1> QED
  BY <1>5, <1>6

LEMMA HeardStep ==
  ASSUME OutagesFit, TypeOK, HeardInv, [Next]_vars
  PROVE  HeardInv'
<1>0. /\ TypeOK' /\ Unwatched' \in Nat
      /\ Unwatched' >= 2 * MaxCall + PollError + Slack
      /\ Unwatched' >= MaxCall + brk'.cooldown + Slack
  <2>1. TypeOK'
    BY LoopTypeStep
  <2>2. brk'.cooldown \in Nat
    BY <2>1, BreakerFields DEF TypeOK
  <2> QED
    BY <2>1, <2>2, HeardNumbers DEF Unwatched, Larger
<1>1. CASE Starts
  <2>1. /\ cfg'.pacing = 0 /\ pc' = "boot"
        /\ \A t \in Timers : age'[t] = Cap[t]
    BY <1>1, ForgottenState DEF Starts, Blank
  <2>2. /\ age'["answer"] = Cap["answer"] /\ Cap["answer"] > Watchdog
        /\ age'["fetch"] >= 0 /\ 0 \in Pacings
        /\ Watchdog \in Int /\ Cap["answer"] \in Int
    BY <2>1, CapAssumption, DurationAssumption DEF Timers, Pacings
  <2>3. 0 - 0 = 0
    OBVIOUS
  <2>4. \E q \in Pacings, h \in Holds \cup {0} : age'["fetch"] >= q - h
    BY <2>2, <2>3
  <2>5. ~(age'["answer"] <= Watchdog)
    BY <2>2
  <2> QED
    BY <2>1, <2>2, <2>4, <2>5 DEF HeardInv
<1>2. CASE Config
  <2>1. PICK d \in 0 .. MaxCall : Unheard(d) \/ Heard(0)
    BY <1>2, ConfigHears
  <2>2. PICK e \in Nat : ConfigRead(e) \/ ConfigRefused(e) \/ ConfigUnanswered(e)
    BY <1>2, ConfigTimers
  <2>3. /\ cfg'.pacing \in Pacings
        /\ \E q \in Pacings, h \in Holds \cup {0} : age'["fetch"] >= q - h
    BY <2>2, ConfigPacing, ConfigIsQuiet, FloorKept DEF HeardInv
  <2>4. /\ d \in Nat /\ d <= MaxCall
        /\ age'["heard"] <= age["heard"] + d \/ age'["heard"] <= 0
        /\ Heard(0) => age'["heard"] <= 0
        /\ age'["answer"] <= Watchdog => age'["heard"] <= age'["answer"]
        /\ age'["heard"] \in Int
    BY <2>1, HeardNumbers, HeardAfter
  <2>5. \/ pc = "boot" /\ (pc' = "top" => Heard(0)) /\ pc' \in {"top", "down"}
        \/ pc = "refresh" /\ pc' = "poll"
        \/ pc = "tooold" /\ pc' = "rest"
    BY <1>2, ConfigHears DEF Config, BootConfig, RefreshConfig, TooOldRereads
  <2> QED
    BY <1>0, <2>3, <2>4, <2>5, HeardNumbers DEF HeardInv
<1>3. CASE WatchdogExits \/ Dies
  BY <1>3 DEF WatchdogExits, Dies, HeardInv
<1>4. CASE LoopTop
  BY <1>4, HeardNumbers DEF LoopTop, Wedged, HeardInv
<1>5. CASE UNCHANGED vars
  BY <1>5 DEF vars, hist, HeardInv, Unwatched
<1>6. CASE Waiting
  <2>1. PICK d \in Nat :
          /\ Unheard(d)
          /\ \/ pc = "poll" /\ pc' = "top" /\ d <= brk.cooldown + Slack
                /\ brk'.cooldown = brk.cooldown
             \/ pc = "pace" /\ pc' = "fetch"
                /\ d <= Larger(PaceWait, 0) + Slack
             \/ pc \in {"rest", "tooold"} /\ pc' = "top" /\ Rested(d)
    BY <1>6, WaitHears
  <2>2. PICK e \in Nat : Steady(brk, e)
    BY <1>6, AnyWaitIsSteady
  <2>3. /\ cfg'.pacing \in Pacings
        /\ \E q \in Pacings, h \in Holds \cup {0} : age'["fetch"] >= q - h
    BY <2>2, FloorKept DEF Steady, HeardInv
  <2>4. /\ age'["heard"] <= age["heard"] + d
        /\ age'["answer"] <= Watchdog => age'["heard"] <= age'["answer"]
        /\ age'["heard"] \in Int
    BY <2>1, HeardAfter
  <2>5. CASE pc = "poll" /\ pc' = "top"
    BY <1>0, <2>1, <2>3, <2>4, <2>5, HeardNumbers DEF HeardInv
  <2>6. CASE pc = "pace" /\ pc' = "fetch"
    <3>1. PICK g \in Gaps : Larger(PaceWait, 0) <= g
      BY PaceIsAGap
    <3>2. g \in Int /\ Larger(PaceWait, 0) \in Int
      BY GapsAreTimes, HeardNumbers DEF Larger, PaceWait
    <3>3. age'["heard"] <= g + Slack
      BY <2>1, <2>4, <2>6, <3>1, <3>2, HeardNumbers DEF HeardInv
    <3> QED
      BY <2>3, <2>4, <2>6, <3>3 DEF HeardInv, Waited
  <2>7. CASE pc \in {"rest", "tooold"} /\ pc' = "top"
    <3>1. PICK w \in Rests : d <= w + Slack
      BY <2>1, <2>7 DEF Rested
    <3>2. w \in Nat /\ w + Slack <= Watchdog
      BY RestTimes DEF OutagesFit
    <3>3. age["heard"] <= MaxCall
      BY <2>7, HeardNumbers DEF HeardInv
    <3> QED
      BY <1>0, <2>3, <2>4, <2>7, <3>1, <3>2, <3>3, HeardNumbers DEF HeardInv
  <2> QED
    BY <2>1, <2>5, <2>6, <2>7
<1>7. CASE Lease
  <2>1. PICK s \in Nat :
          /\ \/ Heard(s) /\ Rested(s)
             \/ /\ pc' = "top" /\ s <= MaxCall + PollError + Slack
                /\ Unheard(s)
          /\ pc' # "top" => s = 0 /\ Heard(s)
    BY <1>7, LeaseHears
  <2>2. PICK e \in Nat : Steady(HalfOpen(brk), e)
    BY <1>7, LeaseIsSteady
  <2>3. /\ cfg'.pacing \in Pacings
        /\ \E q \in Pacings, h \in Holds \cup {0} : age'["fetch"] >= q - h
    BY <2>2, FloorKept DEF Steady, HeardInv
  <2>4. /\ Unheard(s) => age'["heard"] <= age["heard"] + s
        /\ Heard(s) => age'["heard"] <= s
        /\ age'["answer"] <= Watchdog => age'["heard"] <= age'["answer"]
        /\ age'["heard"] \in Int
    BY <2>1, HeardAfter
  <2>5. pc = "poll" /\ pc' \in {"top", "tooold", "pace"}
    BY <1>7, LeaseIsSteady
  <2>6. Heard(s) /\ Rested(s) => age'["heard"] <= Watchdog
    <3>1. SUFFICES ASSUME Heard(s), NEW w \in Rests, s <= w + Slack
                   PROVE  age'["heard"] <= Watchdog
      BY DEF Rested
    <3>2. w \in Nat /\ w + Slack <= Watchdog
      BY RestTimes DEF OutagesFit
    <3> QED
      BY <2>4, <3>1, <3>2, HeardNumbers
  <2>7. CASE pc' = "top"
    BY <1>0, <2>1, <2>3, <2>4, <2>5, <2>6, <2>7, HeardNumbers DEF HeardInv
  <2>8. CASE pc' # "top"
    BY <2>1, <2>3, <2>4, <2>5, <2>8 DEF HeardInv
  <2> QED
    BY <2>7, <2>8
<1>8. CASE FetchSucceeds \/ FetchForbidden \/ FetchThrottled \/ FetchFails
  <2>1. PICK d \in 0 .. MaxFetch :
          \A t \in DoorTimers : age'[t] = Capped(age[t] + d, t)
    BY <1>8, FetchTimersOfTheDoor
  <2>2. d \in Nat /\ d <= MaxFetch /\ Unheard(d)
    BY <2>1, HeardNumbers DEF Unheard, DoorTimers
  <2>3. PICK e \in Nat : Fetching(e)
    BY <1>8, FetchIsCounted
  <2>4. /\ age'["heard"] <= age["heard"] + d
        /\ age'["answer"] <= Watchdog => age'["heard"] <= age'["answer"]
        /\ age'["heard"] \in Int
    BY <2>2, HeardAfter
  <2>5. \E q \in Pacings, h \in Holds \cup {0} : age'["fetch"] >= q - h
    <3>1. Cap["fetch"] \in Nat /\ 0 \in Pacings /\ 0 - 0 = 0
      BY CapAssumption DEF Timers, Pacings
    <3>2. CASE age'["fetch"] = Capped(e, "fetch")
      <4>1. age'["fetch"] >= 0
        BY <3>1, <3>2 DEF Capped
      <4> QED
        BY <3>1, <4>1
    <3>3. CASE \E h \in Holds : age'["fetch"] = Capped(cfg.pacing - h, "fetch")
      <4>1. PICK h \in Holds : age'["fetch"] = Capped(cfg.pacing - h, "fetch")
        BY <3>3
      <4>2. cfg.pacing \in Pacings /\ cfg.pacing \in Int /\ h \in Nat
            /\ cfg.pacing <= Cap["fetch"]
        BY PacingsFit, DurationAssumption DEF HeardInv
      <4>3. age'["fetch"] >= cfg.pacing - h
        BY <3>1, <4>1, <4>2 DEF Capped
      <4> QED
        BY <4>2, <4>3
    <3> QED
      BY <2>3, <3>2, <3>3 DEF Fetching
  <2>6. pc = "fetch" /\ pc' = "submit" /\ cfg' = cfg
    BY <2>3 DEF Fetching
  <2>7. Waited(age'["heard"] - MaxFetch)
    <3>1. PICK g \in Gaps : age["heard"] <= g + Slack
      BY <2>6 DEF HeardInv, Waited
    <3>2. age'["heard"] - MaxFetch <= g + Slack
      BY <2>2, <2>4, <3>1, GapsAreTimes, HeardNumbers
    <3> QED
      BY <3>2 DEF Waited
  <2> QED
    BY <2>4, <2>5, <2>6, <2>7 DEF HeardInv
<1>9. CASE Submit
  <2>1. PICK e \in Nat : Steady(brk, e)
    BY <1>9, SubmitIsSteady
  <2>2. /\ cfg'.pacing \in Pacings
        /\ \E q \in Pacings, h \in Holds \cup {0} : age'["fetch"] >= q - h
    BY <2>1, FloorKept DEF Steady, HeardInv
  <2>3. pc = "submit" /\ pc' \in {"top", "tooold"}
    BY <1>9, SubmitHears
  <2>4. CASE \E s \in Nat : Rested(s) /\ Heard(s) /\ (pc' = "tooold" => s = 0)
    <3>1. PICK s \in Nat : Rested(s) /\ Heard(s) /\ (pc' = "tooold" => s = 0)
      BY <2>4
    <3>2. /\ age'["heard"] <= s /\ age'["heard"] \in Int
          /\ age'["answer"] <= Watchdog => age'["heard"] <= age'["answer"]
      BY <3>1, HeardAfter
    <3>3. PICK w \in Rests : s <= w + Slack
      BY <3>1 DEF Rested
    <3>4. w \in Nat /\ w + Slack <= Watchdog
      BY RestTimes DEF OutagesFit
    <3>5. age'["heard"] <= Watchdog + Unwatched'
      BY <1>0, <3>2, <3>3, <3>4, HeardNumbers
    <3> QED
      BY <2>2, <2>3, <3>1, <3>2, <3>5 DEF HeardInv
  <2>5. CASE pc' = "top" /\ \E d \in 0 .. (MaxSubmit + PollError + Slack) :
                              Unheard(d) \/ \E x \in 0 .. d : Heard(x)
    <3>1. PICK d \in 0 .. (MaxSubmit + PollError + Slack) :
            Unheard(d) \/ \E x \in 0 .. d : Heard(x)
      BY <2>5
    <3>2. d \in Nat /\ d <= MaxSubmit + PollError + Slack
      BY <3>1, HeardNumbers
    <3>3. PICK g \in Gaps : age["heard"] - MaxFetch <= g + Slack
      BY <2>3 DEF HeardInv, Waited
    <3>4. /\ g \in Int
          /\ g + Slack + MaxFetch + MaxSubmit <= Watchdog + 2 * MaxCall
          /\ 0 + Slack + MaxFetch + MaxSubmit <= Watchdog + 2 * MaxCall
      BY GapsAreTimes DEF OutagesFit
    <3>5. /\ age'["heard"] <= age["heard"] + d \/ age'["heard"] <= d
          /\ age'["answer"] <= Watchdog => age'["heard"] <= age'["answer"]
          /\ age'["heard"] \in Int
      <4>1. CASE Unheard(d)
        BY <3>2, <4>1, HeardAfter
      <4>2. CASE \E x \in 0 .. d : Heard(x)
        <5>1. PICK x \in 0 .. d : Heard(x)
          BY <4>2
        <5>2. x \in Nat /\ x <= d
          BY <3>2
        <5> QED
          BY <3>2, <5>1, <5>2, HeardAfter
      <4> QED
        BY <3>1, <4>1, <4>2
    <3>6. age'["heard"] <= Watchdog + Unwatched'
      BY <1>0, <3>2, <3>3, <3>4, <3>5, HeardNumbers
    <3> QED
      BY <2>2, <2>5, <3>5, <3>6 DEF HeardInv
  <2> QED
    BY <1>9, <2>4, <2>5, SubmitHears
<1> QED
  BY <1>1, <1>2, <1>3, <1>4, <1>5, <1>6, <1>7, <1>8, <1>9
  DEF Next, Collector, Fetch, Waiting

\* A hub that has gone silent is noticed, whatever the loop waits for: no
\* process comes to the top of its loop with its last answer older than the
\* watchdog's limit and the calls between two looks at it.
THEOREM OutagesAlwaysNoticed ==
  ASSUME OutagesFit
  PROVE  Spec => []OutageIsNoticed
<1>1. Init => HeardInv
  <2> SUFFICES ASSUME Init PROVE HeardInv
    OBVIOUS
  <2>1. /\ cfg.pacing = 0 /\ pc = "down" /\ 0 \in Pacings
        /\ age["answer"] = Cap["answer"] /\ age["fetch"] = Cap["fetch"]
    BY LongAgoTimers DEF Init, Fresh, Blank, Pacings, Timers
  <2>2. /\ Cap["answer"] > Watchdog /\ Watchdog \in Nat
        /\ Cap["answer"] \in Nat /\ Cap["fetch"] \in Nat
    BY CapAssumption, DurationAssumption DEF Timers
  <2>3. age["fetch"] >= 0 - 0 /\ ~(age["answer"] <= Watchdog)
    BY <2>1, <2>2
  <2> QED
    BY <2>1, <2>3 DEF HeardInv
<1>2. TypeOK /\ HeardInv /\ [Next]_vars => HeardInv'
  BY HeardStep
<1>3. HeardInv => OutageIsNoticed
  BY DEF HeardInv, OutageIsNoticed
<1> QED
  BY <1>1, <1>2, <1>3, LoopTypeInit, LoopTypeStep, PTL DEF Spec

=============================================================================
