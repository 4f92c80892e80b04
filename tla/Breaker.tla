------------------------------ MODULE Breaker ------------------------------
(***************************************************************************)
(* The 403 circuit breaker (internal/breaker/breaker.go). A breaker is a   *)
(* record; each operator returns the breaker a method leaves behind. What  *)
(* the code keeps as openedAt is kept here as the time since then, Closed  *)
(* for nil, and Elapse is the clock.                                       *)
(***************************************************************************)
EXTENDS Integers

CONSTANTS
  DefaultThreshold,  \* 403s in a row that open it when the server names none
  DefaultCooldown    \* and how long it then stays open

ASSUME BreakerAssumption ==
  /\ DefaultThreshold \in Nat \ {0}
  /\ DefaultCooldown \in Nat \ {0}

Closed == -1

Breakers == [threshold : Nat \ {0}, cooldown : Nat \ {0},
             streak : Nat, openFor : Nat \cup {Closed}]

\* New limits, the rest untouched: a refresh must not close an open breaker.
Configure_NoDefaults(b, threshold, cooldown) ==
  [b EXCEPT !.threshold = threshold, !.cooldown = cooldown]
Configure_Rebuilds(b, threshold, cooldown) ==
  [threshold |-> IF threshold > 0 THEN threshold ELSE DefaultThreshold,
   cooldown |-> IF cooldown > 0 THEN cooldown ELSE DefaultCooldown,
   streak |-> 0, openFor |-> Closed]
Configure(b, threshold, cooldown) ==
  [b EXCEPT !.threshold = IF threshold > 0 THEN threshold ELSE DefaultThreshold,
            !.cooldown = IF cooldown > 0 THEN cooldown ELSE DefaultCooldown]

New(threshold, cooldown) ==
  Configure([threshold |-> DefaultThreshold, cooldown |-> DefaultCooldown,
             streak |-> 0, openFor |-> Closed], threshold, cooldown)

IsOpen(b) == b.openFor # Closed /\ b.openFor < b.cooldown

\* What asking IsOpen does: past the cooldown the breaker is half-open, one
\* 403 short of its threshold.
HalfOpen(b) ==
  IF b.openFor = Closed \/ IsOpen(b) THEN b
  ELSE [b EXCEPT !.openFor = Closed, !.streak = b.threshold - 1]

RecordSuccess(b) == [b EXCEPT !.streak = 0, !.openFor = Closed]

\* Ends in IsOpen, like the code.
Record403(b) ==
  LET opens == b.streak + 1 >= b.threshold /\ b.openFor = Closed
  IN  HalfOpen([b EXCEPT !.streak = @ + 1,
                         !.openFor = IF opens THEN 0 ELSE @])

\* d passes; times past limit are not told apart.
Elapse(b, d, limit) ==
  [b EXCEPT !.openFor = IF @ = Closed THEN Closed
                        ELSE IF @ + d > limit THEN limit ELSE @ + d]

=============================================================================
