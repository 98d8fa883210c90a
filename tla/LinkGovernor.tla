---------------------------- MODULE LinkGovernor ----------------------------
(***************************************************************************)
(* What qosmon promises about the limit it asks the kernel to enforce: the *)
(* link is throttled to Unload for a measurement only, is governed within  *)
(* [Floor, Full] otherwise, and is given back at Full when the daemon      *)
(* stops.  This is the abstract specification that Qosmon implements.      *)
(***************************************************************************)
EXTENDS Integers

CONSTANTS Full, Floor, Unload   \* in a sensible system Unload < Floor <= Full

VARIABLES phase, \* waiting, measuring, governing or released
          limit  \* the limit last asked for

vars == <<phase, limit>>

Init == phase = "waiting" /\ limit = Full

\* The target answers: throttle the link to measure an unloaded round trip.
Measure == phase = "waiting" /\ phase' = "measuring" /\ limit' = Unload

\* The measurement is over, or none is needed, or the limit is adjusted.
Govern == /\ phase \in {"waiting", "measuring", "governing"}
          /\ phase' = "governing"
          /\ limit' \in Floor .. Full

\* The class tree changed: wait for the target again, keeping the limit.
Restart == /\ phase \in {"measuring", "governing"}
           /\ phase' = "waiting" /\ UNCHANGED limit

\* The daemon stops and gives the link back.
Release == phase # "released" /\ phase' = "released" /\ limit' = Full

Next == Measure \/ Govern \/ Restart \/ Release

Spec == Init /\ [][Next]_vars
=============================================================================
