----------------------------- MODULE QuotaChain ----------------------------
(***************************************************************************)
(* The chains that restore_quotas.c makes of the quota sections.  Every    *)
(* forwarded packet of a connection without the death mark visits the      *)
(* chain of its direction and, unless its connection has just died, the    *)
(* chain for both directions.  A quota has a block of rules in each.  The  *)
(* upper half of the connmark's high byte says that some explicit quota    *)
(* was for this host, so that the quotas for all others let it alone; the  *)
(* lower half is for quotas with more than one address.  The chains are    *)
(* deleted and built command by command, and packets come in between.      *)
(*                                                                         *)
(* A quota [who, hosts, list, limits, soft, off, on] is for some hosts (a   *)
(* `list' or one), for all, or for all others, together or each on its     *)
(* own; `limits' are the options that are set; a `soft' one has speeds for *)
(* the time after, which turn into a mark for QoS, and a hard one ends     *)
(* connections; `off' and `on' are its off-peak and its on-peak times.     *)
(***************************************************************************)
EXTENDS Traffic, Sequences

Types == {"egress", "ingress", "combined"}
TimeOptions == {"hours", "weekdays", "weekly_ranges"}
Times == [given : SUBSET TimeOptions, at : [TimeOptions -> SUBSET Packets]]

Quota ==
    [who : {"some", "all", "others", "each"}, hosts : SUBSET {Host[p] : p \in Packets},
     list : BOOLEAN, limits : SUBSET Types, soft : BOOLEAN, off : Times, on : Times]

VARIABLES
    frame,      \* how many commands of the chains' frame were run, see below
    loaded,     \* how many slots have all their rules; Sealed
    part,       \* how far the next slot, or the end of the chains, has come
    rejecting,  \* the REJECT rule for dead connections in FORWARD: none, in front
                \* of the restrictions or behind them
    over,       \* counters above their limit
    dead,       \* the connection has the death mark
    slowed,     \* the packet has a mark of a slow class
    charged,    \* history: the counters that counted the packet
    lane,       \* the chain the packet is in
    slot        \* and the block of rules it is at

builtVars == <<frame, loaded, part, rejecting>>
quotaVars == <<builtVars, over, dead, slowed, charged, lane, slot>>

-----------------------------------------------------------------------------
(***************************************************************************)
(* The frame.  1 to 6 are the rules of forward_quotas: the jumps to the    *)
(* chain of each direction, the low bits for the way into the chain for    *)
(* both, the jump to it, and the end of the low bits; 7 to 12 the first    *)
(* two rules of each chain.  13 to 15 are the deletions of the chains one   *)
(* after the other; the last one, of forward_quotas, leads back to 0.       *)
(***************************************************************************)
Whole == 12
Rank(t) == CASE t = "egress" -> 1 [] t = "ingress" -> 2 [] OTHER -> 3

Reaches(t) ==
    /\ frame >= (IF t = "combined" THEN 5 ELSE Rank(t))
    /\ frame < Whole + Rank(t)
MarksLow(t) == frame >= (IF t = "ingress" THEN 3 ELSE 4)
Tidied(m) == IF frame >= 6 THEN m \ Low ELSE m
Revives(t) == frame >= 6 + Rank(t)
Wipes(t) == frame >= 9 + Rank(t)

-----------------------------------------------------------------------------
(***************************************************************************)
(* Blocks of rules.  The quotas q are taken in the order of the            *)
(* configuration, but those for all others go to a second list that is     *)
(* taken when the first is empty.  Slots 1 to N belong to the first list,  *)
(* the next N to the second.                                               *)
(***************************************************************************)
Others(quota) == quota.who \in {"others", "each"}

Slots(q) == 1 .. 2 * Len(q)
Sealed(q) == 2 * Len(q) + 1
Index(q, n) == IF n <= Len(q) THEN n ELSE n - Len(q)

Filled_InOrder(q, n) == n <= Len(q)
Filled(q, n) == Others(q[Index(q, n)]) <=> n > Len(q)

\* ALL_OTHERS_INDIVIDUAL counts every host on its own.
Counter(quota, k, t, p) ==
    <<k, t, IF quota.who = "each" THEN Host[p] ELSE "shared">>

Opposite(t) == IF t = "egress" THEN "ingress" ELSE "egress"

\* Off-peak times hide on-peak times, and weekly ranges hours and weekdays.
Within(times, p) ==
    IF "weekly_ranges" \in times.given THEN p \in times.at["weekly_ranges"]
    ELSE \A o \in times.given : p \in times.at[o]
Active(quota, p) ==
    IF quota.off.given # {} THEN ~Within(quota.off, p) ELSE Within(quota.on, p)

\* Is the host found with the help of the lower half?
ByMark(quota, t) == quota.who = "some" /\ (quota.list \/ t = "combined")

(***************************************************************************)
(* The rules of a block, type after type, in the order of the code: those  *)
(* that note a host in the lower half (a first part of them, and all),     *)
(* the one that names it in the upper half for the others, the soft        *)
(* quota's look at the other direction, the count with its limit, the two  *)
(* marks of a soft quota for both directions, the count from the backup,   *)
(* and the end of the low bits.                                            *)
(***************************************************************************)
Kinds == <<"some_notes", "notes", "name", "other_way", "limit", "slow_out", "slow_in",
           "restored", "clear">>
TypeOf(n) == CASE n <= 9 -> "ingress" [] n > 18 -> "combined" [] OTHER -> "egress"
Offset(t) == CASE t = "ingress" -> 0 [] t = "egress" -> 9 [] OTHER -> 18
Groups == 1 .. 27
Kind(n) == Kinds[n - Offset(TypeOf(n))]

Exists(quota, t, kind) ==
    CASE kind \in {"some_notes", "notes"} -> ByMark(quota, t)
      [] kind = "name" -> quota.who = "some"
      [] kind = "other_way" -> quota.soft /\ t # "combined" /\ Opposite(t) \in quota.limits
      [] kind \in {"limit", "restored"} -> t \in quota.limits
      [] kind \in {"slow_out", "slow_in"} ->
            quota.soft /\ t = "combined" /\ t \in quota.limits
      [] kind = "clear" -> ByMark(quota, t) \/ Others(quota)

\* Are these rules of slot n there?
InPlace(q, n, t, kind) ==
    /\ Filled(q, n) /\ Exists(q[Index(q, n)], t, kind)
    /\ \/ n <= loaded
       \/ n = loaded + 1 /\ \E g \in 1 .. part : TypeOf(g) = t /\ Kind(g) = kind

Hit(quota, t, p, m) ==
    \/ Others(quota) /\ m \cap High = {}
    \/ quota.who = "all"
    \/ ByMark(quota, t) /\ Low \subseteq m
    \/ quota.who = "some" /\ ~ByMark(quota, t) /\ Host[p] \in quota.hosts

\* In the chains for one direction, a soft quota looks at the counter of the
\* other direction as well.
OtherWayOver(quota, k, t, p) == Counter(quota, k, Opposite(t), p) \in over

-----------------------------------------------------------------------------
(***************************************************************************)
(* A packet in the chains of the quotas q.                                 *)
(***************************************************************************)

\* A chain begins by clearing the death mark and the byte, which was m.
EnterChain(t, m) ==
    /\ lane' = t /\ slot' = 1
    /\ scratch' = (IF Wipes(t) THEN {} ELSE m)
    /\ dead' = (dead /\ ~Revives(t))
    /\ UNCHANGED <<pkt, builtVars, over, slowed, charged>>

\* Does the block note the packet's host?  With a part of the rules, perhaps.
Notes(q, quota) ==
    {noted \in BOOLEAN :
        LET mine == Host[pkt] \in quota.hosts IN
        /\ noted => mine /\ InPlace(q, slot, lane, "some_notes")
        /\ mine /\ InPlace(q, slot, lane, "notes") => noted}

Block(q) ==
    /\ lane # "none" /\ slot \in Slots(q) /\ slot <= loaded + 1
    /\ LET k == Index(q, slot)
           quota == q[k]
           c == Counter(quota, k, lane, pkt)
           Has(kind) == InPlace(q, slot, lane, kind)
       IN \E noted \in Notes(q, quota) :
          LET m == IF noted THEN scratch \cup Low ELSE scratch
              hit == Hit(quota, lane, pkt, m)
              limited == Has("limit") /\ hit /\ Active(quota, pkt)
              named == IF Has("name") /\ hit THEN m \cup High ELSE m
          IN /\ charged' = IF limited THEN charged \cup {c} ELSE charged
             /\ over' \in IF limited THEN {over, over \cup {c}} ELSE {over}
             /\ dead' = (dead \/ (limited /\ ~quota.soft /\ c \in over'))
             /\ slowed' =
                  \/ slowed
                  \/ /\ Has("other_way") /\ hit /\ Active(quota, pkt)
                     /\ OtherWayOver(quota, k, lane, pkt)
                  \/ /\ limited /\ quota.soft /\ c \in over'
                     /\ lane = "combined" =>
                          Has(IF pkt \in Outward THEN "slow_out" ELSE "slow_in")
             /\ scratch' = IF Has("clear") THEN named \ Low ELSE named
    /\ slot' = slot + 1
    /\ UNCHANGED <<pkt, builtVars, lane>>

\* When all rules are there the byte is cleared at the end of a chain;
\* forward_quotas clears its lower half after the chain for both directions.
AtEnd(q) == lane # "none" /\ (slot \notin Slots(q) \/ slot > loaded + 1)

Ends(q, t) == loaded = Sealed(q) \/ (loaded = 2 * Len(q) /\ part >= Rank(t))

EndChain_NotCleared(q) ==
    /\ AtEnd(q)
    /\ scratch' = IF lane = "combined" THEN Tidied(scratch) ELSE scratch
    /\ lane' = "none"
    /\ UNCHANGED <<pkt, builtVars, over, dead, slowed, charged, slot>>
EndChain(q) ==
    /\ AtEnd(q)
    /\ LET m == IF Ends(q, lane) THEN {} ELSE scratch
       IN scratch' = IF lane = "combined" THEN Tidied(m) ELSE m
    /\ lane' = "none"
    /\ UNCHANGED <<pkt, builtVars, over, dead, slowed, charged, slot>>

\* Between the two chains: the lower half takes living connections to the second.
Gated_Always == scratch \cup Low
Gated == IF ~dead /\ MarksLow(Way(pkt)) THEN scratch \cup Low ELSE scratch

-----------------------------------------------------------------------------
(***************************************************************************)
(* The rules, while no packet is looking, by one restore at a time.         *)
(***************************************************************************)
LoadUnchanged == UNCHANGED <<pkt, scratch, dead, slowed, charged, lane, slot>>

\* The next command of the frame; without quota sections there is none.
Create(q) ==
    /\ frame < Whole /\ Len(q) > 0
    /\ frame' = frame + 1
    /\ UNCHANGED <<loaded, part, rejecting, over>> /\ LoadUnchanged

\* The next command for the next slot.  The count from the backup may be above
\* the limit, for every host of a quota that counts them one by one.
Load(q) ==
    /\ frame = Whole /\ loaded < 2 * Len(q)
    /\ LET k == Index(q, loaded + 1)
           left == {g \in Groups : /\ g > part /\ Filled(q, loaded + 1)
                                   /\ Exists(q[k], TypeOf(g), Kind(g))}
       IN IF left = {} THEN loaded' = loaded + 1 /\ part' = 0 /\ UNCHANGED over
          ELSE /\ part' \in left /\ \A g \in left : part' <= g
               /\ IF Kind(part') = "restored"
                  THEN \E cs \in SUBSET {Counter(q[k], k, TypeOf(part'), p) : p \in Packets} :
                         over' = over \cup cs
                  ELSE UNCHANGED over
               /\ UNCHANGED loaded
    /\ UNCHANGED <<frame, rejecting>> /\ LoadUnchanged

\* The ends of the three chains, and the REJECT rule.
Seal(q) ==
    /\ frame = Whole /\ Len(q) > 0 /\ loaded = 2 * Len(q)
    /\ IF part < 3 THEN part' = part + 1 /\ UNCHANGED <<loaded, rejecting>>
       ELSE loaded' = Sealed(q) /\ part' = 0 /\ rejecting' = "front"
    /\ UNCHANGED <<frame, over>> /\ LoadUnchanged

\* The next restore deletes the chains, and their counters with them; the REJECT
\* rule stays.
Unload(q) ==
    /\ frame >= Whole /\ loaded = Sealed(q)
    /\ IF frame < Whole + 3
       THEN frame' = frame + 1 /\ UNCHANGED loaded
       ELSE frame' = 0 /\ loaded' = 0
    /\ over' = {c \in over : frame - Whole + 1 # Rank(c[2])}
    /\ UNCHANGED <<part, rejecting>> /\ LoadUnchanged

\* ifup_firewall puts the jumps to the restrictions in front of FORWARD before it
\* has the quotas restored.
Reinsert(q) ==
    /\ rejecting = "front" /\ frame = Whole /\ loaded = Sealed(q)
    /\ rejecting' = "behind"
    /\ UNCHANGED <<frame, loaded, part, over>> /\ LoadUnchanged

ResetCounter(c) ==
    /\ c \in over
    /\ over' = over \ {c}
    /\ UNCHANGED builtVars /\ LoadUnchanged
=============================================================================
