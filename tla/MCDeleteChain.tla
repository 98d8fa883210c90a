--------------------------- MODULE MCDeleteChain ---------------------------
(***************************************************************************)
(* Small instance of DeleteChain: two chains with jumps to a third.        *)
(***************************************************************************)
EXTENDS DeleteChain

MCChains == {"FORWARD", "PREROUTING", "quotas"}
MCPosition == [c \in MCChains |->
    CASE c = "PREROUTING" -> 1 [] c = "FORWARD" -> 2 [] c = "quotas" -> 3]
MCTargets == {"quotas", "other"}

To(t) == [to |-> t, late |-> FALSE]

MCLists == {<<>>} \cup UNION {[1 .. n -> {To(t) : t \in MCTargets}] : n \in 1 .. 3}

MCTables ==
    {[c \in MCChains |->
        CASE c = "PREROUTING" -> p [] c = "FORWARD" -> f [] c = "quotas" -> q] :
        p \in MCLists, f \in {<<>>, <<To("other"), To("quotas")>>},
        q \in {<<>>, <<To("other")>>}}
=============================================================================
