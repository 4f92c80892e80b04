--------------------------- MODULE UpdatePromise ---------------------------
(***************************************************************************)
(* What the self-update promises, with the files and the process hidden:   *)
(* one current binary and the set of those that are vouched for. A current *)
(* binary nobody vouches for always has a fallback somebody did vouch for, *)
(* and is left in three ways only: an answer of the hub vouches for it, an *)
(* operator replaces it, or, once it has failed often enough and has been  *)
(* refused here, its fallback takes its place. Updater implements this     *)
(* (PromiseKept in UpdaterRefinement).                                     *)
(***************************************************************************)
EXTENDS Naturals

CONSTANTS
  Releases,  \* versions
  Limit,     \* failures before an unproven binary is given up
  None       \* no version

VARIABLES
  current,   \* the binary the next start runs
  vouched,   \* those the hub answered, or an operator chose, since installed
  fallback,  \* what replaces an unproven current that fails, else None
  failures,  \* deaths of an unproven current since its install, else 0
  target,    \* the version being installed, or None
  refused,   \* the version refused here, or None
  named      \* the version the hub names, or None

vars == <<current, vouched, fallback, failures, target, refused, named>>

Proven == current \in vouched

Settled == Proven' /\ fallback' = None /\ failures' = 0

Init ==
  /\ current \in Releases /\ vouched = {current}
  /\ fallback = None /\ failures = 0
  /\ target = None /\ refused = None
  /\ named \in Releases \cup {None}

HubNames ==
  /\ named' \in Releases \cup {None}
  /\ UNCHANGED <<current, vouched, fallback, failures, target, refused>>

\* Only what the hub names now is aimed at, and never what is refused here; a
\* refusal is cleared by the hub naming another version.
Aim ==
  /\ Proven /\ named # None /\ named # refused
  /\ refused' = None
  /\ target' \in {named, target}
  /\ UNCHANGED <<current, vouched, fallback, failures, named>>

GiveUpTarget ==
  /\ target' = None
  /\ UNCHANGED <<current, vouched, fallback, failures, refused, named>>

\* The new binary starts unproven and insured; bytes an operator had already
\* put here stay vouched for.
Install ==
  /\ target # None /\ Proven
  /\ current' = target /\ target' = None
  /\ \/ /\ vouched' = vouched \ {target}
        /\ fallback' \in vouched' /\ failures' = 0
     \/ vouched' = vouched \cup {target} /\ Settled
  /\ UNCHANGED <<refused, named>>

\* The image that is answered is the current one, unless an operator has
\* replaced it meanwhile.
Answered ==
  /\ \E v \in Releases : vouched' = vouched \cup {v} /\ (Proven \/ v = current)
  /\ current' = current /\ Settled
  /\ UNCHANGED <<target, refused, named>>

Fail ==
  /\ ~Proven /\ failures < Limit
  /\ failures' = failures + 1 /\ target' = None
  /\ UNCHANGED <<current, vouched, fallback, refused, named>>

\* First the refusal, then the way back. An operator may replace the binary
\* under a process that does this, which goes on.
Refuse ==
  /\ ~Proven => failures >= Limit /\ refused' = current
  /\ refused' \in Releases
  /\ UNCHANGED <<current, vouched, fallback, failures, target, named>>

RollBack ==
  /\ ~Proven => failures >= Limit /\ refused = current /\ current' = fallback
  /\ current' \in vouched /\ Settled
  /\ target' = None
  /\ UNCHANGED <<vouched, refused, named>>

OperatorInstalls ==
  /\ \E v \in Releases : current' = v /\ vouched' = vouched \cup {v}
  /\ Settled
  /\ UNCHANGED <<target, refused, named>>

OperatorForgives ==
  /\ refused' = None
  /\ UNCHANGED <<current, vouched, fallback, failures, target, named>>

Next == \/ HubNames \/ Aim \/ GiveUpTarget \/ Install \/ Answered \/ Fail
        \/ Refuse \/ RollBack \/ OperatorInstalls \/ OperatorForgives

Spec == Init /\ [][Next]_vars

=============================================================================
