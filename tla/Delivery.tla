------------------------------ MODULE Delivery ------------------------------
(***************************************************************************)
(* What a collection promises, with leases, marks, filters and retries     *)
(* hidden: a collector looks at the battles the API shows and gives the    *)
(* hub all of them, perhaps more than once, or none. Job implements this   *)
(* (FilterIsUnseen in JobRefinement): what the hub ends up holding is what *)
(* it would hold if nothing were ever left out of a submit.                *)
(***************************************************************************)
EXTENDS Integers

CONSTANTS
  MaxBattles,  \* bound: battles played
  WindowSize   \* how many of them the API shows

VARIABLES
  played,   \* battles played so far
  carried,  \* the whole battlelog a collector has looked at and may give, or {}
  stored    \* battles the hub holds

vars == <<played, carried, stored>>

Window == {b \in 1 .. played : b > played - WindowSize}

Init == played = 0 /\ carried = {} /\ stored = {}

Play == /\ played < MaxBattles
        /\ played' = played + 1
        /\ UNCHANGED <<carried, stored>>

Look == /\ carried = {}
        /\ carried' = Window
        /\ UNCHANGED <<played, stored>>

Give == /\ stored' = stored \cup carried
        /\ UNCHANGED <<played, carried>>

Forget == /\ carried' = {}
          /\ UNCHANGED <<played, stored>>

\* Another collector, from its look to its gift.
OtherGives == /\ stored' = stored \cup Window
              /\ UNCHANGED <<played, carried>>

Next == Play \/ Look \/ Give \/ Forget \/ OtherGives

Spec == Init /\ [][Next]_vars

=============================================================================
