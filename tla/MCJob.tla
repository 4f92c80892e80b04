------------------------------- MODULE MCJob -------------------------------
(***************************************************************************)
(* An instance of Job for TLC, in ticks of 5 s: calls up to 20 s, a first  *)
(* back-off up to 5 s, Retry-After up to 10 s, a lease of 90 s, fetches up *)
(* to 15 s, the 60 s hold of a 429. Durations wrap past 32 ticks.          *)
(***************************************************************************)
EXTENDS JobRefinement, TLC

Retry(n, timeout, first, listed) ==
  [attempts |-> n, timeout |-> timeout, backoff |-> first, listed |-> listed]

\* One that names no attempts and asks for more time than is granted; one that
\* lists a success by mistake, with a timeout that wraps to 1.
MCConfigs == {Retry(0, 5, 40, {"throttled"}),
              Retry(2, 65, 1, {"throttled", "success"})}

\* None, longer than the back-off, too long, and one that wraps to -2.
MCAfters == {NoHeader, 2, 3, 62}

\* The code's own numbers leave the lease room for a submit.
ASSUME Budget <= LeaseTTL
=============================================================================
