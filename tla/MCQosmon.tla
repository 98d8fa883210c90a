------------------------------ MODULE MCQosmon ------------------------------
(***************************************************************************)
(* The small instance of Qosmon: limits in percent of the link, two round  *)
(* trip times on the two sides of the ping limits, a tree that fits and a  *)
(* tree with too many classes.                                             *)
(***************************************************************************)
EXTENDS Qosmon

CONSTANTS small, big, none

MCRates == {10, 120}
MCNoRates == {}
MCLoads == {0, 12, 60, 100}
MCFewLoads == {0, 100}
MCTrips == {10, 40}
MCLayouts == {small, big}
MCFitting == {small}
MCOversize == {big}
MCNoneOversize == {}
MCAbsent == none
=============================================================================
