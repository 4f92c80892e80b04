------------------------------- MODULE JobInv -------------------------------
(***************************************************************************)
(* Inductive invariants of Job: how much of the budget each line of        *)
(* submitWithRetry may have used, and why the battles that the mark hides  *)
(* from a submit are battles the hub has.                                  *)
(***************************************************************************)
EXTENDS Job

\* The longest waits after the first and the second attempt, and all that can
\* come before an attempt.
FirstWait == Larger(MaxBackoff, MaxRetryAfter)
SecondWait == Larger(2 * MaxBackoff, MaxRetryAfter)

Before(n) == IF n = 1 THEN 0
             ELSE IF n = 2 THEN MaxTimeout + FirstWait
             ELSE 2 * MaxTimeout + FirstWait + SecondWait

BudgetInv ==
  /\ pc \in {"submit", "sleep"} =>
       /\ attempt \in 1 .. Attempts(cfg)
       /\ attempt = 1 => backoff <= MaxBackoff
       /\ attempt = 2 => backoff <= 2 * MaxBackoff
  /\ pc = "submit" => spent <= Before(attempt)
  /\ pc = "sleep" =>
       /\ attempt < Attempts(cfg)
       /\ spent <= Before(attempt) + MaxTimeout
       /\ wait <= IF attempt = 1 THEN FirstWait ELSE SecondWait
  /\ pc = "end" => spent <= Budget

\* What a sleep knows of the answer it follows.
AnswerInv ==
  pc = "sleep" =>
    /\ answer.status # "success"
    /\ answer.status \in {"refusal", "throttled"} =>
         /\ answer.status \in cfg.listed
         /\ answer.after # NoHeader => wait >= Wrapped(answer.after)

\* Each set of battles is a stretch of what was played, and what lies below
\* the mark in it is held.
BattleInv ==
  /\ stored \subseteq 1 .. played /\ held \subseteq stored
  /\ \A m \in stored \ Unreadable, b \in Battles :
       b <= m /\ b > played - WindowSize => b \in stored
  /\ mark # 0 => mark \in held
  /\ \A b \in held \ Unreadable : b <= mark
  /\ \A b \in Battles : b <= mark /\ b > played - WindowSize => b \in held
  /\ fetched.battles = {}
       \/ \E n \in 0 .. played : fetched.battles = WindowAt(n)
  /\ \A b \in fetched.battles : b <= mark => b \in held

ResultInv ==
  /\ pc \notin Submitting => fetched.battles = {} /\ submit = NoSubmit
  /\ submit.status # "ok" => submit.body = {}
  /\ submit.status = "ok" =>
       /\ submit.body = Kept(fetched.battles, mark)
       /\ fetched.kind \in {"log", "null", "other"}
       /\ submit.as = ReadAs(fetched.kind, mark)
       /\ mark # 0 =>
            submit.observed - submit.filtered = Cardinality(submit.body)

IInv == /\ TypeOK /\ BudgetInv /\ AnswerInv /\ BattleInv /\ ResultInv
        /\ NothingShownIsMissed

=============================================================================
