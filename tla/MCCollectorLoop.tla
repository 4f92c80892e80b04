-------------------------- MODULE MCCollectorLoop --------------------------
(***************************************************************************)
(* Instances of CollectorLoop for TLC. The durations keep the order of the *)
(* code's: pacing 1.5 s and minCheckIn 1 s < poll error 10 s < idle 20 s < *)
(* a 429's 60 s < watchdog = too-old re-read 300 s < refresh 3600 s. The   *)
(* default cooldown is 300 s in the code: LoopDefault has it as long as    *)
(* the watchdog's limit, Loop has it shorter, like one that the hub names. *)
(***************************************************************************)
EXTENDS CollectorLoop

Body(pacing, threshold, cooldown) ==
  [pacing |-> pacing, threshold |-> threshold, cooldown |-> cooldown]

\* A hub that names limits above and below the defaults, nonsensical ones, or
\* nothing at all; its pacing goes up, and down again.
AnyLimits == {Body(2, 3, 2), Body(0, Absent, 0), Body(Absent, 0, Absent)}

Nothing == {Body(Absent, Absent, Absent)}

Caps ==
  [t \in Timers |->
     CASE t = "answer" -> Watchdog + 1
       [] t = "heard" -> 12
       [] t = "config" -> 10
       [] t = "reread" -> 6
       [] t = "denied" -> DefaultCooldown
       [] t \in {"fetch", "started"} -> 2
       [] t = "hold" -> 0
       [] t = "lease" -> 1]
=============================================================================
