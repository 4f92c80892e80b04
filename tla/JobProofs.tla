----------------------------- MODULE JobProofs -----------------------------
(***************************************************************************)
(* Theorems about Job: for every configuration, every set of durations and *)
(* every order of battles, fetches and answers.                            *)
(***************************************************************************)
EXTENDS JobRefinement, TLAPS, FiniteSetTheorems, WellFoundedInduction

-----------------------------------------------------------------------------
\* The mark

LEMMA LeastExists ==
  ASSUME NEW T, T \subseteq Nat, T # {}
  PROVE  \E x \in T : \A y \in T : x <= y
<1> DEFINE R == {ss \in Nat \X Nat : ss[1] < ss[2]}
<1>1. IsWellFoundedOn(R, Nat)
  BY NatLessThanWellFounded DEF OpToRel
<1>2. \E x \in T : \A y \in T : ~ (<<y, x>> \in R)
  <2> HIDE DEF R
  <2> QED
    BY <1>1, WFMin
<1>3. \A x \in T, y \in T : ~ (<<y, x>> \in R) => x <= y
  <2> SUFFICES ASSUME NEW x \in T, NEW y \in T, ~ (y < x)
               PROVE  x <= y
    OBVIOUS
  <2> QED
    OBVIOUS
<1> QED
  BY <1>2, <1>3

LEMMA GreatestExists ==
  ASSUME NEW n \in Nat, NEW S, S \subseteq 1 .. n, S # {}
  PROVE  \E x \in S : \A y \in S : y <= x
<1> DEFINE T == {n - x : x \in S}
<1>1. T \subseteq Nat
  BY SMT
<1>2. T # {}
  OBVIOUS
<1>3. PICK t \in T : \A y \in T : t <= y
  <2> HIDE DEF T
  <2> QED
    BY <1>1, <1>2, LeastExists
<1>4. PICK x \in S : t = n - x
  OBVIOUS
<1>5. \A y \in S : t <= n - y
  BY <1>3
<1> QED
  BY <1>4, <1>5

\* The newest readable battle is one of them, and none is newer.
LEMMA NewestIsNewest ==
  ASSUME NEW S, S \subseteq Battles
  PROVE  /\ Newest(S) \in Battles \cup {0}
         /\ Newest(S) # 0 => Newest(S) \in S \ Unreadable
         /\ \A b \in S \ Unreadable : b <= Newest(S)
<1>1. CASE S \ Unreadable = {}
  BY <1>1 DEF Newest
<1>2. CASE S \ Unreadable # {}
  <2>1. \E b \in S \ Unreadable : \A c \in S \ Unreadable : c <= b
    BY <1>2, GreatestExists, BattleAssumption DEF Battles
  <2>2. /\ Newest(S) \in S \ Unreadable
        /\ \A c \in S \ Unreadable : c <= Newest(S)
    BY <1>2, <2>1 DEF Newest
  <2> QED
    BY <2>2
<1> QED
  BY <1>1, <1>2

-----------------------------------------------------------------------------
\* The config, whatever it holds, becomes durations in range.

LEMMA WrappedIsInt ==
  ASSUME NEW x \in Int
  PROVE  Wrapped(x) \in Int
BY DurationAssumption DEF Wrapped

LEMMA WrappedInRange ==
  ASSUME NEW x \in 0 .. Half - 1
  PROVE  Wrapped(x) = x
<1>1. (x + Half) % (2 * Half) = x + Half
  BY DurationAssumption
<1> QED
  BY <1>1, DurationAssumption DEF Wrapped

LEMMA RangesKept ==
  ASSUME NEW c \in Configs \cup {NoConfig}
  PROVE  /\ Attempts(c) \in 1 .. 3
         /\ Timeout(c) \in 1 .. MaxTimeout
         /\ FirstBackoff(c) \in 1 .. MaxBackoff
<1>1. c.attempts \in Int /\ c.timeout \in Int /\ c.backoff \in Int
  BY HubAssumption DEF NoConfig, ConfigType
<1>2. Wrapped(c.timeout) \in Int /\ Wrapped(c.backoff) \in Int
  BY <1>1, WrappedIsInt
<1> QED
  BY <1>1, <1>2, DurationAssumption DEF Attempts, Timeout, FirstBackoff, InRange

LEMMA DurationsInRange ==
  ASSUME NEW limit \in Nat, NEW d \in Durations(limit)
  PROVE  d \in Nat /\ d <= limit
BY DEF Durations

LEMMA AgedIsNat ==
  ASSUME NEW d \in Nat, age \in Nat
  PROVE  Aged(d) \in Nat
BY DurationAssumption DEF Aged

LEMMA LessIsNat ==
  ASSUME NEW x \in Nat, NEW d \in Nat
  PROVE  Less(x, d) \in Nat
BY DEF Less, Larger

LEMMA PassesTypes ==
  ASSUME NEW d \in Nat, TypeOK, Passes(d)
  PROVE  /\ age' \in Nat /\ spent' \in Nat /\ rest' \in Nat
         /\ spent' = spent + d
BY AgedIsNat, LessIsNat DEF Passes, TypeOK

LEMMA SleepsInTime ==
  ASSUME NEW w \in Nat, NEW d \in Sleep(w)
  PROVE  d \in Nat /\ d <= w /\ (~stopping => d = w)
BY DEF Sleep

LEMMA SleepPasses ==
  ASSUME TypeOK, Sleeps
  PROVE  /\ age' \in Nat /\ spent' \in Nat /\ rest' \in Nat
         /\ spent' <= spent + wait /\ (~stopping => spent' = spent + wait)
<1>1. PICK d \in Sleep(wait) : Passes(d)
  BY DEF Sleeps
<1>2. d \in Nat /\ d <= wait /\ (~stopping => d = wait)
  BY <1>1, SleepsInTime DEF TypeOK
<1> QED
  BY <1>1, <1>2, PassesTypes DEF TypeOK

-----------------------------------------------------------------------------
\* What one answer does to the submit

\* Every answer the hub can give, a lost one included.
Answers == [status : {"success", "lost", "throttled", "refusal", "trouble"},
            after : Afters \cup {NoHeader}]

LEMMA HearsCall ==
  ASSUME IInv, NEW a \in Answers, Hears(a)
  PROVE  /\ pc = "submit" /\ pc' \in {"sleep", "end"}
         /\ answer' \in {a, answer} /\ (pc' = "sleep" => answer' = a)
         /\ age' \in Nat /\ rest' \in Nat
         /\ spent' \in Nat /\ spent' <= spent + MaxTimeout
         /\ UNCHANGED <<cfg, mark, fetched, submit, attempt, backoff, stopping,
                        played, held>>
<1>1. PICK d \in Durations(Timeout(cfg)) : Passes(d)
  BY DEF Hears
<1>2. Timeout(cfg) \in 1 .. MaxTimeout
  BY RangesKept DEF IInv, TypeOK
<1>3. d \in Nat /\ d <= MaxTimeout
  BY <1>1, <1>2, DurationsInRange, DurationAssumption
<1>4. age' \in Nat /\ rest' \in Nat /\ spent' \in Nat /\ spent' = spent + d
  BY <1>1, <1>3, PassesTypes DEF IInv
<1> QED
  BY <1>3, <1>4, DurationAssumption DEF Hears, IInv, TypeOK

LEMMA HearsSleep ==
  ASSUME IInv, NEW a \in Answers, Hears(a), pc' = "sleep"
  PROVE  /\ wait' \in Nat
         /\ attempt < Attempts(cfg)
         /\ wait' <= Larger(backoff, MaxRetryAfter)
         /\ a.status # "success"
         /\ a.status \in {"refusal", "throttled"} =>
              /\ a.status \in cfg.listed
              /\ a.after # NoHeader => wait' >= Wrapped(a.after)
<1>1. /\ ~GivesUp(a) /\ wait' = WaitFor(a)
  BY DEF Hears
<1>2. /\ attempt \in 1 .. Attempts(cfg) /\ backoff \in Nat
  BY DEF Hears, IInv, BudgetInv, TypeOK
<1>3. Attempts(cfg) \in 1 .. 3
  BY RangesKept DEF IInv, TypeOK
<1>4. attempt < Attempts(cfg)
  BY <1>1, <1>2, <1>3 DEF GivesUp
<1>5. a.after # NoHeader => Wrapped(a.after) \in Int
  <2>1. a.after \in Afters \cup {NoHeader}
    BY DEF Answers
  <2>2. Afters \subseteq Nat \cup {NoHeader}
    BY HubAssumption
  <2>3. a.after # NoHeader => a.after \in Nat
    BY <2>1, <2>2, Zenon
  <2> QED
    BY <2>3, WrappedIsInt
<1>6. CASE a.status \in {"lost", "trouble"} \/ a.after = NoHeader
  <2>1. wait' = backoff
    BY <1>1, <1>6 DEF WaitFor
  <2>2. a.status \notin {"lost", "trouble"} => a.status \in cfg.listed
                                              /\ a.status # "success"
    BY <1>1 DEF GivesUp, Final, Retryable
  <2> QED
    BY <1>2, <1>4, <1>6, <2>1, <2>2, DurationAssumption DEF Larger, Answers
<1>7. CASE a.status \notin {"lost", "trouble"} /\ a.after # NoHeader
  <2>1. wait' = Larger(backoff, Wrapped(a.after))
    BY <1>1, <1>7 DEF WaitFor
  <2>2. Wrapped(a.after) <= MaxRetryAfter
    BY <1>1, <1>5, <1>7, DurationAssumption DEF GivesUp, TooFar
  <2>3. a.status \in cfg.listed /\ a.status # "success"
    BY <1>1, <1>7 DEF GivesUp, Final, Retryable
  <2> QED
    BY <1>2, <1>4, <1>5, <1>7, <2>1, <2>2, <2>3, DurationAssumption DEF Larger
<1> QED
  BY <1>6, <1>7

\* The three actions in which the submit hears something.
LEMMA HearsSomething ==
  ASSUME IInv, Accepted \/ AnswerLost \/ Refused
  PROVE  /\ \E a \in Answers : Hears(a)
         /\ Takes \/ UNCHANGED <<stored, shown>>
<1>1. CASE Accepted
  BY <1>1 DEF Accepted, Answers
<1>2. CASE AnswerLost
  BY <1>2 DEF AnswerLost, Answers
<1>3. CASE Refused
  <2>1. PICK a \in Refusals : Hears(a)
    BY <1>3 DEF Refused
  <2>2. a \in Answers
    BY DEF Refusals, Answers
  <2> QED
    BY <1>3, <2>1, <2>2 DEF Refused
<1> QED
  BY <1>1, <1>2, <1>3

-----------------------------------------------------------------------------
\* Types

LEMMA TypeInit ==
  ASSUME Init
  PROVE  TypeOK
<1>1. stopping \in BOOLEAN
  BY Zenon DEF Init
<1> QED
  BY <1>1 DEF Init, TypeOK, NoFetch, NoSubmit, NoAnswer, Submitting, Battles

LEMMA WindowIsBattles ==
  ASSUME NEW n \in Battles \cup {0}
  PROVE  WindowAt(n) \subseteq Battles
BY BattleAssumption DEF WindowAt, Battles

\* What a fetch and its filter make is made of battles.
LEMMA ResultTypes ==
  ASSUME NEW kind, NEW battles \in SUBSET Battles, NEW after
  PROVE  LET r == Result([kind |-> kind, battles |-> battles], after) IN
         /\ r.status \in {"ok", "error"}
         /\ r.body \subseteq battles
         /\ r.as \in {"none", "log", "null", "other"}
<1> DEFINE f == [kind |-> kind, battles |-> battles]
           ok == HasBody(kind) /\ ~Overflows(f, Kept(battles, after))
           r == Result(f, after)
<1>1. /\ r.status = IF ok THEN "ok" ELSE "error"
      /\ r.body = IF ok THEN Kept(battles, after) ELSE {}
      /\ r.as = IF ok THEN ReadAs(kind, after) ELSE "none"
  BY DEF Result
<1>2. Kept(battles, after) \subseteq battles
  BY DEF Kept
<1>3. ok => ReadAs(kind, after) \in {"log", "null", "other"}
  BY DEF HasBody, ReadAs
<1> QED
  BY <1>1, <1>2, <1>3

LEMMA TypeStep ==
  ASSUME IInv, [Next]_vars
  PROVE  TypeOK'
<1> USE DEF Submitting
<1>1. CASE Leases
  <2>1. mark' \in Battles \cup {0}
    BY <1>1, NewestIsNewest DEF Leases, MarkOf, IInv, TypeOK
  <2> QED
    BY <1>1, <2>1 DEF Leases, IInv, TypeOK
<1>2. CASE Paces
  <2>1. PICK d \in Sleep(rest) : age' = Aged(d)
    BY <1>2 DEF Paces
  <2>2. age' \in Nat /\ rest' \in Nat
    BY <1>2, <2>1, SleepsInTime, AgedIsNat, DurationAssumption
    DEF Paces, IInv, TypeOK
  <2> QED
    BY <1>2, <2>2 DEF Paces, local, IInv, TypeOK
<1>3. ASSUME NEW kind, NEW battles \in SUBSET Battles, Fetch(kind, battles)
      PROVE  TypeOK'
  <2>1. age' \in Nat /\ spent' \in Nat /\ rest' \in Nat
    <3>1. PICK d \in Durations(FetchTimeout) :
            /\ age' = Aged(d) /\ spent' = 0
            /\ IF kind = "held" THEN rest' \in Holds ELSE rest' = Less(rest, d)
      BY <1>3 DEF Fetch
    <3>2. d \in Nat /\ FetchTimeout \in Nat
      BY <3>1, DurationsInRange, DurationAssumption
    <3> QED
      BY <3>1, <3>2, AgedIsNat, LessIsNat, DurationAssumption DEF IInv, TypeOK
  <2>2. /\ submit'.status \in {"none", "ok", "error"}
        /\ submit'.body \subseteq Battles
        /\ submit'.as \in {"none", "log", "null", "other"}
    BY <1>3, ResultTypes DEF Fetch
  <2>3. fetched'.battles \subseteq Battles
    BY <1>3 DEF Fetch
  <2>4. attempt' \in 0 .. 3 /\ backoff' \in Nat
    BY <1>3, RangesKept DEF Fetch, IInv, TypeOK
  <2> QED
    BY <1>3, <2>1, <2>2, <2>3, <2>4 DEF Fetch, IInv, TypeOK
<1>4. CASE FetchesLog
  BY <1>3, <1>4, WindowIsBattles DEF FetchesLog, Window, IInv, TypeOK
<1>5. CASE FetchesNoLog
  BY <1>3, <1>5 DEF FetchesNoLog
<1>6. CASE Accepted \/ AnswerLost \/ Refused
  <2>1. PICK a \in Answers : Hears(a)
    BY <1>6, HearsSomething
  <2>2. wait' \in Nat
    BY <2>1, HearsSleep DEF Hears, IInv, TypeOK
  <2>3. stored' \subseteq Battles /\ shown' \subseteq Battles
    BY <1>6, HearsSomething DEF Takes, IInv, TypeOK
  <2>4. /\ answer'.status \in Statuses \cup {"none", "lost"}
        /\ answer'.after \in Afters \cup {NoHeader}
    BY <2>1, HearsCall DEF Answers, Statuses, IInv, TypeOK
  <2>5. pc' \in Submitting
    BY <2>1, HearsCall
  <2> QED
    BY <2>1, <2>2, <2>3, <2>4, <2>5, HearsCall DEF IInv, TypeOK
<1>7. CASE Sleeps
  <2>1. age' \in Nat /\ spent' \in Nat /\ rest' \in Nat
    BY <1>7, SleepPasses DEF IInv
  <2>2. attempt' \in 0 .. 3
    BY <1>7, RangesKept DEF Sleeps, IInv, TypeOK, BudgetInv
  <2> QED
    BY <1>7, <2>1, <2>2 DEF Sleeps, NoAnswer, IInv, TypeOK
<1>8. CASE Ends \/ Dies
  <2>1. stopping' \in BOOLEAN
    BY <1>8, Zenon DEF Ends, Dies, Forgets
  <2> QED
    BY <1>8, <2>1
    DEF Ends, Dies, Forgets, NoFetch, NoSubmit, NoAnswer, IInv, TypeOK
<1>9. CASE Plays
  BY <1>9, BattleAssumption
  DEF Plays, local, times, IInv, TypeOK, Battles
<1>10. CASE OtherCollects
  <2>1. Kept(Window, MarkOf(stored)) \subseteq Battles /\ Window \subseteq Battles
    BY WindowIsBattles DEF Kept, Window, IInv, TypeOK
  <2> QED
    BY <1>10, <2>1 DEF OtherCollects, local, times, IInv, TypeOK
<1>11. CASE Signalled
  <2>1. stopping' \in BOOLEAN
    BY <1>11, Zenon DEF Signalled
  <2> QED
    BY <1>11, <2>1 DEF Signalled, local, times, IInv, TypeOK
<1>12. CASE UNCHANGED vars
  BY <1>12 DEF vars, local, times, IInv, TypeOK
<1> QED
  BY <1>1, <1>2, <1>4, <1>5, <1>6, <1>7, <1>8, <1>9, <1>10, <1>11, <1>12 DEF Next

-----------------------------------------------------------------------------
\* The budget

LEMMA WaitsAreNat ==
  /\ FirstWait \in Nat /\ SecondWait \in Nat
  /\ MaxBackoff <= FirstWait /\ MaxRetryAfter <= FirstWait
  /\ 2 * MaxBackoff <= SecondWait /\ MaxRetryAfter <= SecondWait
  /\ Budget = 3 * MaxTimeout + FirstWait + SecondWait
BY DurationAssumption DEF FirstWait, SecondWait, Budget, Larger

LEMMA BudgetStep ==
  ASSUME IInv, [Next]_vars
  PROVE  BudgetInv'
<1>1. CASE Leases \/ Paces \/ Ends \/ Dies
  BY <1>1 DEF Leases, Paces, Ends, Dies, Forgets, BudgetInv
<1>2. ASSUME NEW kind, NEW battles, Fetch(kind, battles)
      PROVE  BudgetInv'
  <2>1. pc' = "submit" /\ attempt' = 1 /\ spent' = 0 /\ cfg' = cfg
    BY <1>2 DEF Fetch
  <2>2. backoff' <= MaxBackoff
    BY <1>2, RangesKept, DurationAssumption DEF Fetch, IInv, TypeOK
  <2>3. Attempts(cfg) \in 1 .. 3
    BY RangesKept DEF IInv, TypeOK
  <2>4. 1 \in 1 .. Attempts(cfg') /\ 0 <= Before(1)
    BY <2>1, <2>3 DEF Before
  <2> QED
    BY <2>1, <2>2, <2>4 DEF BudgetInv
<1>3. CASE FetchesLog \/ FetchesNoLog
  BY <1>2, <1>3 DEF FetchesLog, FetchesNoLog
<1>4. CASE Accepted \/ AnswerLost \/ Refused
  <2>1. PICK a \in Answers : Hears(a)
    BY <1>4, HearsSomething
  <2>2. /\ pc = "submit" /\ spent' \in Nat /\ spent' <= spent + MaxTimeout
        /\ pc' \in {"sleep", "end"}
        /\ cfg' = cfg /\ attempt' = attempt /\ backoff' = backoff
    BY <2>1, HearsCall
  <2>3. /\ attempt \in 1 .. Attempts(cfg) /\ Attempts(cfg) \in 1 .. 3
        /\ attempt = 1 => backoff <= MaxBackoff
        /\ attempt = 2 => backoff <= 2 * MaxBackoff
        /\ spent <= Before(attempt)
        /\ spent \in Nat /\ backoff \in Nat
    BY <2>2, RangesKept DEF IInv, BudgetInv, TypeOK
  <2>4. Before(attempt) \in Nat /\ spent' <= Before(attempt) + MaxTimeout
    BY <2>2, <2>3, WaitsAreNat, DurationAssumption DEF Before
  <2>5. Before(attempt) + MaxTimeout <= Budget
    BY <2>3, WaitsAreNat, DurationAssumption DEF Before
  <2>6. CASE pc' = "end"
    BY <2>2, <2>4, <2>5, <2>6, WaitsAreNat, DurationAssumption DEF BudgetInv
  <2>7. CASE pc' = "sleep"
    <3>1. /\ attempt < Attempts(cfg) /\ wait' \in Nat
          /\ wait' <= Larger(backoff, MaxRetryAfter)
      BY <2>1, <2>7, HearsSleep
    <3>2. attempt \in {1, 2}
      BY <2>3, <3>1
    <3>3. wait' <= IF attempt = 1 THEN FirstWait ELSE SecondWait
      BY <2>3, <3>1, <3>2, WaitsAreNat, DurationAssumption DEF Larger
    <3> QED
      BY <2>2, <2>3, <2>4, <2>7, <3>1, <3>3 DEF BudgetInv, Attempts
  <2> QED
    BY <2>2, <2>6, <2>7
<1>5. CASE Sleeps
  <2>1. /\ pc' = "submit" /\ cfg' = cfg /\ attempt' = attempt + 1
        /\ backoff' = 2 * backoff
    BY <1>5 DEF Sleeps
  <2>2. spent' \in Nat /\ spent' <= spent + wait
    BY <1>5, SleepPasses DEF IInv
  <2>3. /\ attempt \in 1 .. Attempts(cfg) /\ Attempts(cfg) \in 1 .. 3
        /\ attempt < Attempts(cfg)
        /\ attempt = 1 => backoff <= MaxBackoff
        /\ spent <= Before(attempt) + MaxTimeout
        /\ wait <= IF attempt = 1 THEN FirstWait ELSE SecondWait
        /\ spent \in Nat /\ backoff \in Nat /\ wait \in Nat
    BY <1>5, RangesKept DEF Sleeps, IInv, BudgetInv, TypeOK
  <2>4. spent' <= Before(attempt')
    BY <2>1, <2>2, <2>3, WaitsAreNat, DurationAssumption DEF Before
  <2>5. /\ attempt' \in 1 .. Attempts(cfg) /\ attempt' # 1
        /\ attempt' = 2 => backoff' <= 2 * MaxBackoff
    BY <2>1, <2>3, DurationAssumption
  <2> QED
    BY <2>1, <2>4, <2>5 DEF BudgetInv, Attempts
<1>6. CASE Signalled \/ Plays \/ OtherCollects \/ UNCHANGED vars
  BY <1>6 DEF Signalled, Plays, OtherCollects, vars, local, times, IInv, BudgetInv,
              Attempts
<1> QED
  BY <1>1, <1>3, <1>4, <1>5, <1>6 DEF Next

LEMMA AnswerStep ==
  ASSUME IInv, [Next]_vars
  PROVE  AnswerInv'
<1>1. CASE pc' # "sleep"
  BY <1>1 DEF AnswerInv
<1>2. CASE UNCHANGED <<pc, cfg, answer, wait>>
  BY <1>2 DEF IInv, AnswerInv
<1>3. CASE Accepted \/ AnswerLost \/ Refused
  <2>1. PICK a \in Answers : Hears(a)
    BY <1>3, HearsSomething
  <2> QED
    BY <2>1, HearsCall, HearsSleep DEF AnswerInv
<1> QED
  BY <1>1, <1>2, <1>3
  DEF Next, vars, local, Leases, Paces, FetchesLog, FetchesNoLog, Fetch, Sleeps,
      Ends, Dies, Forgets, Signalled, Plays,
      OtherCollects

-----------------------------------------------------------------------------
\* The battles

\* A later window begins later.
LEMMA WindowsMove ==
  ASSUME NEW n \in Nat, NEW b \in Battles, b > (n + 1) - WindowSize
  PROVE  b > n - WindowSize
BY BattleAssumption DEF Battles

\* What the hub holds stays a stretch without gaps when it takes the part of
\* some window that lies above a mark, all below the mark being there.
LEMMA StretchGrows ==
  ASSUME BattleInv, TypeOK, NEW after \in Nat, NEW n \in 0 .. played,
         NEW body, body = Kept(WindowAt(n), after),
         \A b \in WindowAt(n) : after # 0 /\ b <= after => b \in stored
  PROVE  /\ stored \cup body \subseteq 1 .. played
         /\ WindowAt(n) \subseteq stored \cup body
         /\ \A m \in (stored \cup body) \ Unreadable, b \in Battles :
              b <= m /\ b > played - WindowSize => b \in stored \cup body
<1>1. played \in Nat /\ WindowSize \in Nat
  BY BattleAssumption DEF TypeOK, Battles
<1>2. WindowAt(n) \subseteq 1 .. played
  BY <1>1 DEF WindowAt
<1>3. body \subseteq WindowAt(n)
  BY DEF Kept
<1>4. WindowAt(n) \subseteq stored \cup body
  <2> SUFFICES ASSUME NEW b \in WindowAt(n), b \notin body
               PROVE  b \in stored
    OBVIOUS
  <2>1. after # 0 /\ ~(b > after)
    BY DEF Kept
  <2>2. b \in Nat
    BY DEF WindowAt
  <2> QED
    BY <2>1, <2>2
<1>5. ASSUME NEW m \in stored \cup body, m \notin Unreadable,
             NEW b \in Battles, b <= m, b > played - WindowSize
      PROVE  b \in stored \cup body
  <2>1. CASE m \in stored
    BY <1>5, <2>1 DEF BattleInv
  <2>2. CASE m \in body
    <3>1. m \in 1 .. n
      BY <1>3, <2>2 DEF WindowAt
    <3>2. b \in 1 .. n /\ b > n - WindowSize
      BY <1>1, <1>5, <3>1 DEF Battles
    <3> QED
      BY <1>4, <3>2 DEF WindowAt
  <2> QED
    BY <2>1, <2>2
<1> QED
  BY <1>2, <1>3, <1>4, <1>5 DEF BattleInv

\* What one submit brings the hub.
LEMMA TakesKeepsBattles ==
  ASSUME IInv, Takes,
         UNCHANGED <<mark, fetched, submit, played, held>>
  PROVE  BattleInv' /\ NothingShownIsMissed'
<1>1. mark \in Nat /\ fetched.battles \subseteq Battles
  BY DEF IInv, TypeOK, Battles
<1>2. CASE submit.body = {}
  <2>1. stored' = stored
    BY <1>2 DEF Takes
  <2>2. shown' \subseteq stored'
    <3>1. CASE submit.status # "ok"
      BY <2>1, <3>1 DEF Takes, IInv, NothingShownIsMissed
    <3>2. CASE submit.status = "ok"
      <4>1. Kept(fetched.battles, mark) = {}
        BY <1>2, <3>2 DEF IInv, ResultInv
      <4>2. fetched.battles \subseteq held
        <5> SUFFICES ASSUME NEW b \in fetched.battles
                     PROVE  b \in held
          OBVIOUS
        <5>1. mark # 0 /\ ~(b > mark)
          BY <4>1 DEF Kept
        <5>2. b <= mark
          BY <1>1, <5>1 DEF Battles
        <5> QED
          BY <5>2 DEF IInv, BattleInv
      <4> QED
        BY <2>1, <3>2, <4>2 DEF Takes, IInv, NothingShownIsMissed, BattleInv
    <3> QED
      BY <3>1, <3>2
  <2> QED
    BY <2>1, <2>2 DEF IInv, BattleInv, NothingShownIsMissed
<1>3. CASE submit.body # {}
  <2>1. submit.body = Kept(fetched.battles, mark)
    BY <1>3 DEF IInv, ResultInv
  <2>2. PICK n \in 0 .. played : fetched.battles = WindowAt(n)
    <3>1. fetched.battles # {}
      BY <1>3, <2>1 DEF Kept
    <3> QED
      BY <3>1 DEF IInv, BattleInv
  <2>3. \A b \in WindowAt(n) : mark # 0 /\ b <= mark => b \in stored
    BY <2>2 DEF IInv, BattleInv
  <2>4. /\ stored' \subseteq 1 .. played
        /\ fetched.battles \subseteq stored'
        /\ \A m \in stored' \ Unreadable, b \in Battles :
              b <= m /\ b > played - WindowSize => b \in stored'
    <3>1. stored' = stored \cup submit.body
      BY DEF Takes
    <3>2. BattleInv /\ TypeOK
      BY DEF IInv
    <3> QED
      BY <1>1, <2>1, <2>2, <2>3, <3>1, <3>2, StretchGrows
  <2>5. held \subseteq stored'
    BY DEF Takes, IInv, BattleInv
  <2>6. shown' \subseteq stored'
    BY <2>4 DEF Takes, IInv, NothingShownIsMissed
  <2> QED
    BY <2>4, <2>5, <2>6 DEF IInv, BattleInv, NothingShownIsMissed
<1> QED
  BY <1>2, <1>3

LEMMA BattleStep ==
  ASSUME IInv, [Next]_vars
  PROVE  BattleInv' /\ NothingShownIsMissed'
<1> USE DEF Submitting
<1>1. CASE Leases
  <2>1. /\ mark' = Newest(stored) /\ held' = stored /\ fetched'.battles = {}
        /\ UNCHANGED <<stored, played, shown>>
    BY <1>1 DEF Leases, MarkOf, IInv, ResultInv
  <2>2. /\ Newest(stored) # 0 => Newest(stored) \in stored \ Unreadable
        /\ \A b \in stored \ Unreadable : b <= Newest(stored)
        /\ Newest(stored) \in Battles \cup {0}
    BY NewestIsNewest DEF IInv, TypeOK
  <2>3. \A b \in Battles : b <= mark' /\ b > played - WindowSize => b \in stored
    <3> SUFFICES ASSUME NEW b \in Battles, b <= mark', b > played - WindowSize
                 PROVE  b \in stored
      OBVIOUS
    <3>1. mark' # 0
      BY <2>1, <2>2 DEF Battles
    <3> QED
      BY <2>1, <2>2, <3>1 DEF IInv, BattleInv
  <2> QED
    BY <2>1, <2>2, <2>3 DEF IInv, BattleInv, NothingShownIsMissed
<1>2. CASE UNCHANGED <<mark, held, fetched, stored, played, shown>>
  BY <1>2 DEF IInv, BattleInv, NothingShownIsMissed
<1>3. CASE Paces \/ Sleeps \/ Signalled \/ UNCHANGED vars
  BY <1>2, <1>3 DEF Paces, Sleeps, Signalled, vars, local
<1>4. CASE FetchesLog
  <2>1. /\ fetched'.battles = WindowAt(played)
        /\ UNCHANGED <<mark, held, stored, played, shown>>
    BY <1>4 DEF FetchesLog, Fetch, Window
  <2>2. played \in 0 .. played
    BY DEF IInv, TypeOK, Battles
  <2>3. \A b \in WindowAt(played) : b <= mark => b \in held
    BY WindowIsBattles DEF WindowAt, IInv, TypeOK, BattleInv
  <2> QED
    BY <2>1, <2>2, <2>3 DEF IInv, BattleInv, NothingShownIsMissed
<1>5. CASE FetchesNoLog
  <2>1. /\ fetched'.battles = {}
        /\ UNCHANGED <<mark, held, stored, played, shown>>
    BY <1>5 DEF FetchesNoLog, Fetch
  <2> QED
    BY <2>1 DEF IInv, BattleInv, NothingShownIsMissed
<1>6. CASE Accepted \/ AnswerLost \/ Refused
  <2>1. PICK a \in Answers : Hears(a)
    BY <1>6, HearsSomething
  <2>2. UNCHANGED <<mark, fetched, submit, played, held>>
    BY <2>1, HearsCall
  <2> QED
    BY <1>2, <1>6, <2>2, HearsSomething, TakesKeepsBattles
<1>7. CASE Ends \/ Dies
  <2>1. /\ mark' = 0 /\ held' = {} /\ fetched'.battles = {}
        /\ UNCHANGED <<played, stored, shown>>
    BY <1>7 DEF Ends, Dies, Forgets, NoFetch
  <2> QED
    BY <2>1 DEF IInv, BattleInv, NothingShownIsMissed, Battles
<1>8. CASE Plays
  <2>1. /\ played' = played + 1 /\ played \in Nat
        /\ UNCHANGED <<mark, held, fetched, stored, shown>>
    BY <1>8 DEF Plays, local, IInv, TypeOK, Battles
  <2>2. stored \subseteq 1 .. played'
    BY <2>1 DEF IInv, BattleInv
  <2>3. \A b \in Battles : b > played' - WindowSize => b > played - WindowSize
    BY <2>1, WindowsMove
  <2>4. fetched.battles = {} \/ \E n \in 0 .. played' : fetched.battles = WindowAt(n)
    BY <2>1 DEF IInv, BattleInv
  <2> QED
    BY <2>1, <2>2, <2>3, <2>4 DEF IInv, BattleInv, NothingShownIsMissed
<1>9. CASE OtherCollects
  <2> DEFINE body == Kept(WindowAt(played), Newest(stored))
  <2>1. /\ stored' = stored \cup body /\ shown' = shown \cup WindowAt(played)
        /\ UNCHANGED <<mark, held, fetched, played>>
    BY <1>9 DEF OtherCollects, local, MarkOf, Window
  <2>2. /\ Newest(stored) # 0 => Newest(stored) \in stored \ Unreadable
        /\ Newest(stored) \in Nat
    <3>1. stored \subseteq Battles
      BY DEF IInv, TypeOK
    <3>2. /\ Newest(stored) \in Battles \cup {0}
          /\ Newest(stored) # 0 => Newest(stored) \in stored \ Unreadable
      BY <3>1, NewestIsNewest
    <3> QED
      BY <3>2 DEF Battles
  <2>3. played \in 0 .. played
    BY DEF IInv, TypeOK, Battles
  <2>4. \A b \in WindowAt(played) :
           Newest(stored) # 0 /\ b <= Newest(stored) => b \in stored
    BY <2>2, WindowIsBattles DEF WindowAt, IInv, TypeOK, BattleInv
  <2>5. BattleInv /\ TypeOK /\ shown \subseteq stored
    BY DEF IInv, NothingShownIsMissed
  <2> HIDE DEF body
  <2>6. /\ stored' \subseteq 1 .. played
        /\ WindowAt(played) \subseteq stored'
        /\ \A m \in stored' \ Unreadable, b \in Battles :
              b <= m /\ b > played - WindowSize => b \in stored'
    BY <2>1, <2>2, <2>3, <2>4, <2>5, StretchGrows DEF body
  <2> QED
    BY <2>1, <2>5, <2>6 DEF BattleInv, NothingShownIsMissed
<1> QED
  BY <1>1, <1>3, <1>4, <1>5, <1>6, <1>7, <1>8, <1>9 DEF Next

LEMMA CountsAddUp ==
  ASSUME NEW F \in SUBSET Battles, NEW K \in SUBSET F
  PROVE  Cardinality(F) - (Cardinality(F) - Cardinality(K)) = Cardinality(K)
<1>1. IsFiniteSet(Battles)
  BY FS_Interval, BattleAssumption DEF Battles
<1>2. IsFiniteSet(F) /\ IsFiniteSet(K)
  BY <1>1, FS_Subset
<1>3. Cardinality(F) \in Nat /\ Cardinality(K) \in Nat
  BY <1>2, FS_CardinalityType
<1> QED
  BY <1>3

LEMMA ResultStep ==
  ASSUME IInv, [Next]_vars
  PROVE  ResultInv'
<1> USE DEF Submitting
<1>1. ASSUME NEW kind, NEW battles \in SUBSET Battles, Fetch(kind, battles)
      PROVE  ResultInv'
  <2> DEFINE f == [kind |-> kind, battles |-> battles]
             kept == Kept(battles, mark)
  <2>1. /\ fetched' = f /\ submit' = Result(f, mark) /\ mark' = mark
        /\ pc' = "submit"
    BY <1>1 DEF Fetch
  <2>2. kept \in SUBSET battles
    BY DEF Kept
  <2>3. f.kind = kind /\ f.battles = battles
    OBVIOUS
  <2> HIDE DEF f
  <2>4. /\ submit'.status # "ok" => submit'.body = {}
        /\ submit'.status = "ok" =>
             /\ submit'.body = kept
             /\ kind \in {"log", "null", "other"}
             /\ submit'.as = ReadAs(kind, mark)
        /\ mark # 0 => submit'.observed = Cardinality(battles)
        /\ submit'.filtered = Cardinality(battles) - Cardinality(kept)
    BY <2>1, <2>3 DEF Result, HasBody
  <2>5. Cardinality(battles) - (Cardinality(battles) - Cardinality(kept))
          = Cardinality(kept)
    BY <2>2, CountsAddUp
  <2> HIDE DEF kept
  <2>6. mark # 0 /\ submit'.status = "ok" =>
          submit'.observed - submit'.filtered = Cardinality(submit'.body)
    BY <2>4, <2>5
  <2>7. kept = Kept(fetched'.battles, mark')
    BY <2>1, <2>3 DEF kept
  <2> QED
    BY <2>1, <2>3, <2>4, <2>6, <2>7 DEF ResultInv
<1>2. CASE FetchesLog
  BY <1>1, <1>2, WindowIsBattles DEF FetchesLog, Window, IInv, TypeOK
<1>3. CASE FetchesNoLog
  BY <1>1, <1>3 DEF FetchesNoLog
<1>4. CASE Accepted \/ AnswerLost \/ Refused
  <2>1. PICK a \in Answers : Hears(a)
    BY <1>4, HearsSomething
  <2> QED
    BY <2>1, HearsCall DEF IInv, ResultInv
<1>5. CASE Ends \/ Dies
  BY <1>5 DEF Ends, Dies, Forgets, NoFetch, NoSubmit, ResultInv
<1>6. CASE Leases
  <2>1. submit = NoSubmit /\ fetched.battles = {}
    BY <1>6 DEF Leases, IInv, ResultInv
  <2>2. submit' = submit /\ fetched' = fetched /\ pc' = "pace"
    BY <1>6 DEF Leases
  <2>3. submit.status = "none" /\ submit.body = {}
    BY <2>1 DEF NoSubmit
  <2> HIDE DEF NoSubmit
  <2> QED
    BY <2>1, <2>2, <2>3 DEF ResultInv
<1>7. CASE \/ Paces \/ Sleeps \/ Signalled \/ Plays
           \/ OtherCollects \/ UNCHANGED vars
  <2>1. /\ UNCHANGED <<submit, fetched, mark>>
        /\ pc' \in Submitting => pc \in Submitting
        /\ pc' \notin Submitting => pc \notin Submitting
    BY <1>7 DEF Paces, Sleeps, Signalled, Plays, OtherCollects, vars, local
  <2> HIDE DEF Submitting
  <2> QED
    BY <2>1 DEF IInv, ResultInv
<1> QED
  BY <1>2, <1>3, <1>4, <1>5, <1>6, <1>7 DEF Next

-----------------------------------------------------------------------------
\* The theorems

LEMMA IInvHolds == Spec => []IInv
<1>1. Init => IInv
  <2> SUFFICES ASSUME Init PROVE IInv
    OBVIOUS
  <2>1. TypeOK
    BY TypeInit
  <2>2. BudgetInv /\ AnswerInv
    BY DEF Init, BudgetInv, AnswerInv
  <2>3. BattleInv /\ NothingShownIsMissed
    BY DEF Init, NoFetch, BattleInv, NothingShownIsMissed, Battles
  <2>4. ResultInv
    BY DEF Init, NoFetch, NoSubmit, ResultInv
  <2> QED
    BY <2>1, <2>2, <2>3, <2>4 DEF IInv
<1>2. IInv /\ [Next]_vars => IInv'
  <2> SUFFICES ASSUME IInv, [Next]_vars PROVE IInv'
    OBVIOUS
  <2> QED
    BY TypeStep, BudgetStep, AnswerStep, BattleStep, ResultStep DEF IInv
<1> QED
  BY <1>1, <1>2, PTL DEF Spec

\* Every variable keeps its type.
THEOREM TypeCorrect == Spec => []TypeOK
<1>1. IInv => TypeOK
  BY DEF IInv
<1> QED
  BY <1>1, IInvHolds, PTL

\* No submit outlasts its budget, whatever submit_retry and Retry-After say.
THEOREM SubmitsEndInTime == Spec => []BudgetKept
<1>1. IInv => BudgetKept
  <2> SUFFICES ASSUME IInv, pc \in Submitting PROVE spent <= Budget
    BY DEF BudgetKept
  <2>1. /\ attempt \in 1 .. 3 \/ pc = "end"
        /\ attempt < 3 \/ pc # "sleep"
        /\ spent \in Nat
    BY RangesKept DEF IInv, BudgetInv, TypeOK, Submitting
  <2> QED
    BY <2>1, WaitsAreNat, DurationAssumption
    DEF IInv, BudgetInv, Before, Submitting
<1> QED
  BY <1>1, IInvHolds, PTL

\* Nothing goes out again that was accepted or refused for good, nor before
\* its Retry-After is over.
THEOREM ResendsWarranted == Spec => ResendsAreWarranted
<1>1. IInv /\ [Next]_vars =>
        [pc = "sleep" /\ pc' = "submit" =>
           /\ answer.status # "success"
           /\ answer.status \in {"refusal", "throttled"} =>
                /\ answer.status \in cfg.listed
                /\ answer.after \in 0 .. Half - 1 /\ ~stopping =>
                     spent' - spent >= answer.after]_vars
  <2> SUFFICES ASSUME IInv, [Next]_vars, pc = "sleep", pc' = "submit"
               PROVE  /\ answer.status # "success"
                      /\ answer.status \in {"refusal", "throttled"} =>
                           /\ answer.status \in cfg.listed
                           /\ answer.after \in 0 .. Half - 1 /\ ~stopping =>
                                spent' - spent >= answer.after
    BY DEF vars
  <2>1. Sleeps
    BY DEF Next, vars, Leases, Paces, FetchesLog, FetchesNoLog, Fetch, Accepted,
           AnswerLost, Refused, Hears, Ends, Dies, Forgets, Signalled, Plays,
      OtherCollects
  <2>2. /\ ~stopping => spent' = spent + wait
        /\ spent \in Nat /\ wait \in Nat
    BY <2>1, SleepPasses DEF IInv, TypeOK
  <2>3. answer.after \in 0 .. Half - 1 => answer.after # NoHeader
    BY HubAssumption, DurationAssumption
  <2>4. answer.after \in 0 .. Half - 1 => Wrapped(answer.after) = answer.after
    BY WrappedInRange
  <2> QED
    BY <2>2, <2>3, <2>4, DurationAssumption DEF IInv, AnswerInv
<1> QED
  BY <1>1, IInvHolds, PTL DEF Spec, ResendsAreWarranted

\* The body of a success is what the API showed less what the hub held.
THEOREM SubmitsSendTheNew == Spec => []SendsExactlyTheNew
<1>1. IInv => SendsExactlyTheNew
  <2> SUFFICES ASSUME IInv, submit.status = "ok"
               PROVE  submit.body = fetched.battles \ (held \ Unreadable)
    <3>1. IInv /\ submit.status = "ok" =>
            submit.as = fetched.kind \/ (fetched.kind = "null" /\ mark # 0)
      BY DEF IInv, ResultInv, ReadAs
    <3> QED
      BY <3>1 DEF SendsExactlyTheNew, IInv, ResultInv
  <2>1. submit.body = Kept(fetched.battles, mark)
    BY DEF IInv, ResultInv
  <2>2. /\ \A b \in held \ Unreadable : b <= mark
        /\ \A b \in fetched.battles : b <= mark => b \in held
        /\ fetched.battles \subseteq Nat /\ held \subseteq Nat \ {0}
        /\ mark \in Nat
    BY DEF IInv, BattleInv, TypeOK, Battles
  <2>3. CASE mark = 0
    <3>1. held \ Unreadable = {}
      <4> SUFFICES ASSUME NEW b \in held \ Unreadable PROVE FALSE
        OBVIOUS
      <4>1. b <= 0 /\ b \in Nat \ {0}
        BY <2>2, <2>3
      <4> QED
        BY <4>1
    <3> QED
      BY <2>1, <2>3, <3>1 DEF Kept
  <2>4. CASE mark # 0
    <3>1. submit.body = {b \in fetched.battles : b \in Unreadable \/ b > mark}
      BY <2>1, <2>4 DEF Kept
    <3> QED
      BY <2>2, <3>1
  <2> QED
    BY <2>3, <2>4
<1> QED
  BY <1>1, IInvHolds, PTL

\* No battle of a fetch the hub took is missing there.
THEOREM NothingIsMissed == Spec => []NothingShownIsMissed
<1>1. IInv => NothingShownIsMissed
  BY DEF IInv
<1> QED
  BY <1>1, IInvHolds, PTL

-----------------------------------------------------------------------------
\* Job implements Delivery

\* What the filter leaves out of a body, the hub has: to take the body is to
\* take the whole battlelog.
LEMMA TakesTheWhole ==
  ASSUME IInv, Takes
  PROVE  stored' = stored \cup Carried
<1>1. NothingShownIsMissed /\ stored' = stored \cup submit.body
  BY DEF IInv, Takes
<1>2. CASE submit.status = "ok"
  <2>1. submit.body = Kept(fetched.battles, mark)
    BY <1>2 DEF IInv, ResultInv
  <2>2. submit.body \subseteq fetched.battles
    BY <2>1 DEF Kept
  <2>3. fetched.battles \subseteq stored \cup submit.body
    <3> SUFFICES ASSUME NEW b \in fetched.battles, b \notin submit.body
                 PROVE  b \in stored
      OBVIOUS
    <3>1. mark # 0 /\ ~(b > mark)
      BY <2>1 DEF Kept
    <3>2. b \in Nat /\ mark \in Nat
      BY DEF IInv, TypeOK, Battles
    <3>3. b \in held
      BY <3>1, <3>2 DEF IInv, BattleInv
    <3> QED
      BY <3>3 DEF IInv, BattleInv
  <2> QED
    BY <1>1, <1>2, <2>2, <2>3 DEF Carried
<1>3. CASE submit.status # "ok"
  BY <1>1, <1>3 DEF Carried, IInv, ResultInv
<1> QED
  BY <1>2, <1>3

\* So for another collector, with a mark of its own.
LEMMA OtherTakesTheWhole ==
  ASSUME IInv, OtherCollects
  PROVE  stored' = stored \cup Window
<1>1. stored' = stored \cup Kept(Window, Newest(stored))
  BY DEF OtherCollects, MarkOf
<1>2. Kept(Window, Newest(stored)) \subseteq Window
  BY DEF Kept
<1>3. Window \subseteq stored'
  BY <1>1, BattleStep DEF OtherCollects, Next, NothingShownIsMissed
<1> QED
  BY <1>1, <1>2, <1>3

LEMMA DeliveryStep ==
  ASSUME IInv, [Next]_vars
  PROVE  [Whole!Next]_(Whole!vars)
<1> USE DEF Whole!vars, Whole!Next
<1>1. CASE FetchesLog \/ FetchesNoLog
  <2>1. /\ Carried = {} /\ UNCHANGED <<played, stored>>
        /\ fetched'.battles \in {{}, Whole!Window}
    BY <1>1 DEF FetchesLog, FetchesNoLog, Fetch, Window, WindowAt, Whole!Window,
                Carried, IInv, ResultInv, NoSubmit, Submitting
  <2>2. Carried' \in {{}, Whole!Window}
    BY <2>1 DEF Carried
  <2> QED
    BY <2>1, <2>2 DEF Whole!Look
<1>2. CASE Accepted \/ AnswerLost \/ Refused
  <2>1. UNCHANGED <<played, Carried>> /\ (Takes \/ UNCHANGED stored)
    <3>1. PICK a \in Answers : Hears(a)
      BY <1>2, HearsSomething
    <3>2. UNCHANGED <<fetched, submit, played>>
      BY <3>1, HearsCall
    <3> QED
      BY <1>2, <3>2 DEF Accepted, AnswerLost, Refused, Carried
  <2> QED
    BY <2>1, TakesTheWhole DEF Whole!Give
<1>3. CASE Ends \/ Dies
  <2>1. Carried' = {} /\ UNCHANGED <<played, stored>>
    BY <1>3 DEF Ends, Dies, Forgets, NoSubmit, Carried
  <2> QED
    BY <2>1 DEF Whole!Forget
<1>4. CASE Plays
  BY <1>4 DEF Plays, local, Carried, Whole!Play
<1>5. CASE OtherCollects
  <2>1. UNCHANGED <<played, Carried>>
    BY <1>5 DEF OtherCollects, local, Carried
  <2>2. stored' = stored \cup Whole!Window
    BY <1>5, OtherTakesTheWhole DEF Window, WindowAt, Whole!Window
  <2> QED
    BY <2>1, <2>2 DEF Whole!OtherGives
<1>6. CASE Leases \/ Paces \/ Sleeps \/ Signalled \/ UNCHANGED vars
  BY <1>6 DEF Leases, Paces, Sleeps, Signalled, vars, local, Carried
<1> QED
  BY <1>1, <1>2, <1>3, <1>4, <1>5, <1>6 DEF Next

\* Whatever is filtered, retried, lost, killed or collected by others in
\* between, the hub gets what whole battlelogs would have given it.
THEOREM FilterIsNeverSeen == Spec => FilterIsUnseen
<1>1. Init => Whole!Init
  BY DEF Init, NoSubmit, Carried, Whole!Init
<1>2. IInv /\ [Next]_vars => [Whole!Next]_(Whole!vars)
  BY DeliveryStep
<1> QED
  BY <1>1, <1>2, IInvHolds, PTL DEF Spec, FilterIsUnseen, Whole!Spec
=============================================================================
