----------------------------- MODULE PacketPath ----------------------------
(***************************************************************************)
(* The way of forwarded packets through the quota chains (table mangle)    *)
(* and then the restriction chains (table filter), for one connection      *)
(* after the other.  Both keep bits in the same byte of the connmark, and  *)
(* the quota chains may be rebuilt between any two packets.                *)
(*                                                                         *)
(* In each direction the white list is in front of the restrictions; the   *)
(* two are one chain of sections here.                                     *)
(***************************************************************************)
EXTENDS RestrictionChain, QuotaChain

CONSTANTS
    Setups,         \* names of the configurations
    Rules,          \* sections of the restriction chains, by setup and direction
    Quotas,         \* the enabled quotas, by setup
    Connections     \* the packets of a connection

Options == {"url", "mark", "connmark", "local_addr", "remote_addr",
            "local_port", "remote_port"}

Piece == [form : {"ip", "range", "mac", "other"}, out : SUBSET Packets,
          in : SUBSET Packets, whole : BOOLEAN]

ASSUME SetupAssumption ==
    \A s \in Setups, d \in {"egress", "ingress"} :
        /\ Len(Rules[s][d]) \in Nat
        /\ \A i \in 1 .. Len(Rules[s][d]) :
              /\ Rules[s][d][i].target \in {"ACCEPT", "REJECT"}
              /\ \A o \in Options : /\ Rules[s][d][i].yes[o] \in Seq(Piece)
                                   /\ Rules[s][d][i].no[o] \in Seq(Piece)

ASSUME QuotaAssumption == \A s \in Setups : Quotas[s] \in Seq(Quota)

ASSUME ConnectionAssumption == \A c \in Connections : c \subseteq Packets

VARIABLES
    setup,      \* the configuration
    conn,       \* the packets of the connection there is now
    where,      \* where the packet is; idle when there is none
    alive,      \* history: had the connection no death mark when it came
    clean       \* history: was the byte clear in front of the restrictions

pathVars == <<setup, conn, where, alive, clean>>
vars == <<ruleVars, quotaVars, pathVars>>

q == Quotas[setup]
rules == Rules[setup][Way(pkt)]
chain == [i \in 1 .. Len(rules) |-> Section(rules[i])]

Init ==
    /\ setup \in Setups /\ conn \in Connections /\ pkt \in conn
    /\ where = "idle" /\ alive = TRUE /\ clean = TRUE
    /\ scratch = {} /\ at = 1 /\ stage = 0 /\ verdict = "none"
    /\ frame = 0 /\ loaded = 0 /\ part = 0 /\ rejecting = "none" /\ over = {}
    /\ dead = FALSE /\ slowed = FALSE /\ charged = {} /\ lane = "none" /\ slot = 1

-----------------------------------------------------------------------------
(***************************************************************************)
(* A packet.                                                               *)
(***************************************************************************)
Arrive(p) ==
    /\ where = "idle" /\ p \in conn
    /\ pkt' = p /\ where' = "mangle" /\ alive' = ~dead
    /\ at' = 1 /\ stage' = 0 /\ verdict' = "none"
    /\ slowed' = FALSE /\ charged' = {}
    /\ UNCHANGED <<scratch, builtVars, over, dead, lane, slot, setup, conn, clean>>

EnterDirection ==
    /\ where = "mangle"
    /\ IF Reaches(Way(pkt)) /\ ~dead
       THEN EnterChain(Way(pkt), scratch)
       ELSE UNCHANGED <<pkt, scratch, quotaVars>>
    /\ where' = "between"
    /\ UNCHANGED <<at, stage, verdict, setup, conn, alive, clean>>

InQuotas ==
    /\ Block(q) \/ EndChain(q)
    /\ UNCHANGED <<at, stage, verdict, pathVars>>

EnterCombined ==
    /\ where = "between" /\ lane = "none"
    /\ IF Reaches("combined") /\ Low \subseteq Gated
       THEN EnterChain("combined", Gated)
       ELSE scratch' = Tidied(Gated) /\ UNCHANGED <<pkt, quotaVars>>
    /\ where' = "forward"
    /\ UNCHANGED <<at, stage, verdict, setup, conn, alive, clean>>

\* The filter table: restore_quotas puts the rule for dead connections in front, and
\* the restrictions are put in front of it again when they are rebuilt.
Filter ==
    /\ where = "forward" /\ lane = "none"
    /\ clean' = (scratch = {})
    /\ IF dead /\ rejecting = "front"
       THEN verdict' = "QUOTA" /\ where' = "idle"
       ELSE where' = "rules" /\ UNCHANGED verdict
    /\ UNCHANGED <<pkt, scratch, at, stage, quotaVars, setup, conn, alive>>

InRules ==
    /\ where = "rules"
    /\ IF at <= Len(rules)
       THEN InSection(chain[at])
       ELSE /\ verdict' = IF dead /\ rejecting = "behind" THEN "QUOTA" ELSE "PASS"
            /\ UNCHANGED <<pkt, scratch, at, stage>>
    /\ where' = IF verdict' = "none" THEN "rules" ELSE "idle"
    /\ UNCHANGED <<quotaVars, setup, conn, alive, clean>>

-----------------------------------------------------------------------------
(***************************************************************************)
(* Between packets.                                                        *)
(***************************************************************************)
NewConnection(c) ==
    /\ where = "idle"
    /\ conn' = c /\ scratch' = {} /\ dead' = FALSE /\ verdict' = "none"
    /\ UNCHANGED <<pkt, at, stage, builtVars, over, slowed, charged, lane, slot,
                   setup, where, alive, clean>>

ChangeRules ==
    /\ where = "idle"
    /\ \/ Create(q) \/ Load(q) \/ Seal(q) \/ Unload(q) \/ Reinsert(q)
       \/ \E c \in over : ResetCounter(c)
    /\ verdict' = "none"
    /\ UNCHANGED <<at, stage, pathVars>>

Next ==
    \/ \E p \in Packets : Arrive(p)
    \/ EnterDirection \/ InQuotas \/ EnterCombined \/ Filter \/ InRules
    \/ \E c \in Connections : NewConnection(c)
    \/ ChangeRules

Spec == Init /\ [][Next]_vars

-----------------------------------------------------------------------------
(***************************************************************************)
(* Properties.                                                             *)
(***************************************************************************)
TypeOK ==
    /\ setup \in Setups /\ conn \in Connections /\ pkt \in Packets
    /\ where \in {"idle", "mangle", "between", "forward", "rules"}
    /\ alive \in BOOLEAN /\ clean \in BOOLEAN
    /\ scratch \subseteq Byte
    /\ at \in Nat \ {0} /\ stage \in 0 .. 10
    /\ verdict \in {"none", "ACCEPT", "REJECT", "QUOTA", "PASS"}
    /\ frame \in 0 .. Whole + 3 /\ loaded \in 0 .. Sealed(q) /\ part \in 0 .. 27
    /\ rejecting \in {"none", "front", "behind"}
    /\ dead \in BOOLEAN /\ slowed \in BOOLEAN
    /\ lane \in Types \cup {"none"} /\ slot \in 1 .. Sealed(q)

\* A packet that has been through both tables.
Done == where = "idle" /\ verdict # "none"

\* Is quota k meant for packet p?  Others are those that no quota names, whatever
\* limits and times it has.
Named(p) == \E k \in 1 .. Len(q) : q[k].who = "some" /\ Host[p] \in q[k].hosts
For(k, p) ==
    /\ Active(q[k], p)
    /\ \/ q[k].who = "some" /\ Host[p] \in q[k].hosts
       \/ q[k].who = "all"
       \/ Others(q[k]) /\ ~Named(p)

\* Are there rules of this kind for it?
SlotOf(k) == IF Others(q[k]) THEN k + Len(q) ELSE k
Ready(k, t, kind) == Reaches(t) /\ InPlace(q, SlotOf(k), t, kind)

Meaning(t) ==
    {Counter(q[k], k, t, pkt) :
        k \in {j \in 1 .. Len(q) : Ready(j, t, "limit") /\ For(j, pkt)}}

\* A hard limit among these counters is exceeded.
Fatal(counters) == \E c \in counters \cap over : ~q[c[1]].soft

\* The one moment at which the low bits of a block reach the gate behind the chain:
\* a host was noted and the rule that clears the bits is not there yet.
Leaking ==
    \E k \in 1 .. Len(q) :
        /\ Host[pkt] \in q[k].hosts
        /\ Ready(k, Way(pkt), "some_notes") /\ ~Ready(k, Way(pkt), "clear")

\* Every packet is counted by the quotas that mean its host and the time and by no
\* other: not by the quotas for all others when its host has one of its own, also
\* while the chains are being deleted and built.  A packet that exceeds the quota
\* of its direction is not counted for both directions, but for the moment above.
ChargedAsMeant ==
    Done /\ alive =>
        \/ charged = Meaning(Way(pkt)) \cup
              (IF Fatal(Meaning(Way(pkt))) THEN {} ELSE Meaning("combined"))
        \/ Leaking /\ charged = Meaning(Way(pkt)) \cup Meaning("combined")

\* After the packet that exceeds a hard quota the connection is dead, and after no
\* other (in the moment above the chain for both directions decides alone), and
\* then nothing gets through, unless the restrictions have just been put in front
\* of the REJECT rule and accept it; the packet is slowed by an exceeded soft quota
\* for its host.
Penalised ==
    Done /\ alive =>
        /\ \/ dead <=> Fatal(charged)
           \/ Leaking /\ (dead <=> Fatal(Meaning("combined")))
        /\ dead /\ rejecting = "front" => verdict = "QUOTA"
        /\ dead /\ rejecting = "behind" => verdict # "PASS"
        /\ verdict = "QUOTA" => dead /\ rejecting # "none"
        /\ slowed <=>
             \/ \E c \in charged \cap over :
                  /\ q[c[1]].soft
                  /\ c[2] = "combined" =>
                       Ready(c[1], c[2], IF pkt \in Outward THEN "slow_out" ELSE "slow_in")
             \/ \E k \in 1 .. Len(q) :
                  /\ For(k, pkt) /\ Ready(k, Way(pkt), "other_way")
                  /\ OtherWayOver(q[k], k, Way(pkt), pkt)

\* With all quota rules in place and the REJECT rule in front, no packet takes bits
\* that an earlier packet of its connection left in the byte into the restrictions.
CleanWhenSealed ==
    where = "rules" /\ frame = Whole /\ loaded = Sealed(q) /\ rejecting = "front"
        => clean

\* The target of the first section that means the packet.
FirstOf(targets, hits) ==
    IF hits = {} THEN "PASS"
    ELSE targets[CHOOSE i \in hits : \A j \in hits : i <= j].target

AllSound == \A i \in 1 .. Len(rules) : Sound(chain[i], pkt)

\* As long as no bits were left by an earlier packet and the sections are sound,
\* the rules with all their marks give the verdict of the first section whose
\* tests the packet meets.
VerdictAsMeant ==
    Done /\ verdict # "QUOTA" /\ clean /\ AllSound =>
        verdict = FirstOf(chain, {i \in 1 .. Len(rules) :
                                    MeantOrException(chain[i], pkt)})

\* What the options of a section say of a packet, whichever way it goes.
SaysOf(pieces, p) ==
    \E i \in DOMAIN pieces :
        p \in IF p \in Outward THEN pieces[i].out ELSE pieces[i].in

Mentioned(raw, o) == raw.yes[o] # <<>> \/ raw.no[o] # <<>>

Written(raw, p) ==
    /\ \A o \in Options :
         /\ raw.yes[o] # <<>> => SaysOf(raw.yes[o], p)
         /\ raw.no[o] # <<>> => ~SaysOf(raw.no[o], p) /\ (o = "url" => p \in Requests)
    /\ \A o \in DOMAIN raw.extra : p \in raw.extra[o]
    /\ CASE raw.proto = "tcp" \/ Mentioned(raw, "url") -> p \in Tcp
         [] raw.proto = "udp" /\ ~Mentioned(raw, "url") -> p \in Udp
         [] OTHER -> Mentioned(raw, "local_port") \/ Mentioned(raw, "remote_port")
                       => p \in Tcp \cup Udp

\* The exception for white-listed sites is for packets to the Internet.
WrittenOrException(raw, p) ==
    \/ Written(raw, p)
    \/ /\ raw.target = "ACCEPT" /\ Mentioned(raw, "url")
       /\ p \in Outward /\ p \in Web \ Requests

\* Options that are taken as they stand: no value that cannot be read or tested,
\* not both an option and its negation, packet sizes with both bounds, times in one
\* form.
Faithful(raw) ==
    /\ \A o \in Options :
         /\ raw.yes[o] = <<>> \/ raw.no[o] = <<>>
         /\ \A way \in {raw.yes, raw.no} : \A i \in DOMAIN way[o] :
              /\ Readable(o, way[o][i])
              /\ o = "remote_addr" => Plain(way[o][i])
    /\ DOMAIN raw.extra \cap {"min_pkt_size", "max_pkt_size"}
         \in {{}, {"min_pkt_size", "max_pkt_size"}}
    /\ "active_weekly_ranges" \in DOMAIN raw.extra =>
         DOMAIN raw.extra \cap {"active_hours", "active_weekdays"} = {}

AsWritten ==
    (/\ Done /\ verdict # "QUOTA" /\ clean /\ AllSound
     /\ \A i \in 1 .. Len(rules) : Faithful(rules[i]))
    => verdict = FirstOf(rules, {i \in 1 .. Len(rules) :
                                   WrittenOrException(rules[i], pkt)})

\* Packets to the Internet get what the sections for their chain say.
EgressAsWritten == Way(pkt) = "egress" => AsWritten

\* Packets from it do, too, when their sections say -i, as the usage text has it
\* (which is not so: compute_rules never hears of -i).
IngressAsWritten == Way(pkt) = "ingress" => AsWritten
=============================================================================
