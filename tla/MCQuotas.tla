------------------------------ MODULE MCQuotas ------------------------------
(***************************************************************************)
(* Small instances of Quotas: three sections whose first ip is the same,   *)
(* one of which is defined anew, one removed, and one lists a network too; *)
(* and a single one (d) that is edited in every way.  None is for          *)
(* ALL_OTHERS, which have a base name of their own and share no id with    *)
(* these.                                                                  *)
(***************************************************************************)
EXTENDS Quotas, TLC

CONSTANTS a, b, c, d, ip, noId, none

MCPlace == [q \in Sections |-> CASE q = a -> 1 [] q = b -> 2 [] q = c -> 3 [] q = d -> 4]
MCOthers == {}
MCBase == [q \in Sections |-> ip]
MCSlashed == {b} \cap Sections
MCNoId == noId
MCNone == none
MCEdits == [q \in Sections |-> CASE q = a -> {"define"}
                                 [] q = b -> {}
                                 [] q = c -> {"remove"}
                                 [] q = d -> {"define", "remove", "switch"}]

\* Runs of the same program are alike.
Alike == Permutations(Restores) \cup Permutations(Backups)
=============================================================================
