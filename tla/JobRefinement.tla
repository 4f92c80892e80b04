--------------------------- MODULE JobRefinement ---------------------------
(***************************************************************************)
(* Job implements Delivery.                                                *)
(***************************************************************************)
EXTENDS JobInv

\* The battlelog behind a result that goes out as a success.
Carried == IF submit.status = "ok" THEN fetched.battles ELSE {}

Whole == INSTANCE Delivery WITH carried <- Carried

\* "Drop what the hub already holds": with a mark taken at the lease, a submit
\* after battles, kills, lost answers and other collectors, the hub gets from
\* what the filter left exactly what the whole battlelog would have given it,
\* and nothing from a result that is an error.
FilterIsUnseen == Whole!Spec
=============================================================================
