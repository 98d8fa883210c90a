-------------------------- MODULE RestrictionChain -------------------------
(***************************************************************************)
(* The iptables rules that compute_rules makes of a section, and a packet  *)
(* that passes them.  A criterion with several values, or one that         *)
(* iptables cannot negate, becomes rules of its own which set or clear a   *)
(* bit in the high byte of the connection's mark; what is left becomes one *)
(* rule with another bit; then all bits are compared with the bits there   *)
(* should be, and the byte is cleared.                                     *)
(*                                                                         *)
(* An action is the group of rules that one criterion became.  A pair of   *)
(* rules for tcp and udp is one rule here.                                 *)
(***************************************************************************)
EXTENDS RuleDefinition, Traffic

VARIABLES
    at,         \* the section whose rules the packet is at
    stage,      \* the group of rules within the section
    verdict     \* none, ACCEPT, REJECT, QUOTA, or PASS at the end of the chain

ruleVars == <<pkt, scratch, at, stage, verdict>>

-----------------------------------------------------------------------------
(***************************************************************************)
(* The rules of section s.                                                 *)
(***************************************************************************)
Given(s, c) == DOMAIN s.vals[c] # {}
Several(s, c) == \E i, j \in DOMAIN s.vals[c] : i # j

\* Which criteria become rules of their own; -m mark has no single negation.
Multi(s) == {c \in Criteria :
                \/ Several(s, c)
                \/ c = "mark" /\ c \in s.neg /\ Given(s, c)}
Single(s) == {c \in Criteria : Given(s, c)} \ Multi(s)

HasRest(s) == Single(s) # {} \/ s.extra # {}

\* mask_byte_index: addresses take a bit only when the option is defined.
One(s, c) == IF c \in s.defined THEN 1 ELSE 0
Bit_CountsFirst(s, c) ==
    CASE c = "url" -> 0 [] c = "mark" -> 1 [] c = "connmark" -> 2
      [] c = "src" -> 3
      [] c = "dst" -> 3 + One(s, "src")
      [] c = "sport" -> 3 + One(s, "src") + One(s, "dst")
      [] c = "dport" -> 4 + One(s, "src") + One(s, "dst")
      [] c = "rest" -> 6 + One(s, "src") + One(s, "dst")
Bit(s, c) ==
    CASE c = "url" -> 0 [] c = "mark" -> 1 [] c = "connmark" -> 2
      [] c = "src" -> 3
      [] c = "dst" -> 3 + One(s, "src")
      [] c = "sport" -> 3 + One(s, "src") + One(s, "dst")
      [] c = "dport" -> 4 + One(s, "src") + One(s, "dst")
      [] c = "rest" -> 5 + One(s, "src") + One(s, "dst")

Proto(s) == IF Given(s, "url") THEN "tcp" ELSE s.proto
Ports(s) == Given(s, "sport") \/ Given(s, "dport")

\* Packets a rule applies to, when ports are tested or not.
Ruled(s, ports) ==
    CASE Proto(s) = "tcp" -> Tcp
      [] Proto(s) = "udp" -> Udp
      [] OTHER -> IF ports THEN Tcp \cup Udp ELSE Packets

\* The mark that negated criteria start from, and the mark of a match.
InitialBits_None(s) == {}
InitialBits(s) == {Bit(s, c) : c \in (Multi(s) \cap s.neg) \ {"url"}}
FinalBits(s) ==
    {Bit(s, c) : c \in Multi(s) \cup (IF HasRest(s) THEN {"rest"} ELSE {})}

\* The last rule has -p tcp for a tcp reset only, which replaces REJECT when the
\* section is about tcp.
FinalPackets(s) ==
    IF s.target = "REJECT" /\ Proto(s) = "tcp" THEN Tcp ELSE Packets

\* One value, one criterion with its negation, all criteria that are left.  A
\* connmark without a mask sees the high byte too.
Holds(v, p, m) == p \in v.pkts /\ (v.whole => m = {})
Some(s, c, p, m) == \E i \in DOMAIN s.vals[c] : Holds(s.vals[c][i], p, m)
HoldsAlone(s, c, p, m) ==
    IF c \in s.neg THEN ~Some(s, c, p, m) /\ (c = "url" => p \in Requests)
    ELSE Some(s, c, p, m)
RestHolds(s, p, m) ==
    /\ \A c \in Single(s) : HoldsAlone(s, c, p, m)
    /\ \A e \in s.extra : p \in e

\* What the packet's mark is after the rules of criterion c.
Marked(s, c, p, m) ==
    IF c \in Multi(s) /\ p \in Ruled(s, c \in {"sport", "dport"})
       /\ Some(s, c, p, m)
    THEN IF c \in s.neg THEN m \ {Bit(s, c)} ELSE m \cup {Bit(s, c)}
    ELSE m

-----------------------------------------------------------------------------
(***************************************************************************)
(* A packet in the chain.                                                  *)
(***************************************************************************)
Place(c) ==
    CASE c = "url" -> 1 [] c = "mark" -> 2 [] c = "connmark" -> 3
      [] c = "src" -> 4 [] c = "dst" -> 5 [] c = "sport" -> 6 [] OTHER -> 7
Rest == 8
Final == 9
Exception == 10

Stay == UNCHANGED <<pkt, at, verdict>>

InitialMark(s) ==
    /\ stage = 0 /\ Multi(s) # {}
    /\ LET m == IF InitialBits(s) # {} THEN InitialBits(s) ELSE scratch
       IN scratch' = IF "url" \in Multi(s) \cap s.neg /\ pkt \in Requests
                     THEN m \cup {Bit(s, "url")} ELSE m
    /\ stage' = 1
    /\ Stay

Criterion(s, c) ==
    /\ stage = Place(c)
    /\ scratch' = Marked(s, c, pkt, scratch)
    /\ stage' = stage + 1
    /\ Stay

SingleCheck(s) ==
    /\ stage = Rest
    /\ scratch' = IF HasRest(s) /\ pkt \in Ruled(s, Ports(s))
                     /\ RestHolds(s, pkt, scratch)
                  THEN scratch \cup {Bit(s, "rest")} ELSE scratch
    /\ stage' = Final
    /\ Stay

FinalMatch(s) ==
    /\ stage = Final
    /\ IF scratch = FinalBits(s) /\ pkt \in FinalPackets(s)
       THEN verdict' = s.target /\ UNCHANGED <<scratch, stage>>
       ELSE scratch' = {} /\ stage' = Exception /\ UNCHANGED verdict
    /\ UNCHANGED <<pkt, at>>

\* Without criteria that need a mark, the section is one rule (or one for tcp
\* and one for udp).
OneRule(s) ==
    /\ stage = 0 /\ Multi(s) = {}
    /\ IF pkt \in Ruled(s, Ports(s)) /\ RestHolds(s, pkt, scratch)
       THEN verdict' = s.target /\ UNCHANGED stage
       ELSE stage' = Exception /\ UNCHANGED verdict
    /\ UNCHANGED <<pkt, scratch, at>>

\* When a URL is white-listed, packets to port 80 that are not requests pass.
HasException(s) == Given(s, "url") /\ s.target = "ACCEPT"

NextSection == at' = at + 1 /\ stage' = 0 /\ UNCHANGED verdict

WebException(s) ==
    /\ stage = Exception
    /\ IF ~HasException(s) THEN NextSection /\ UNCHANGED scratch
       ELSE LET m == IF pkt \in Requests THEN Byte ELSE scratch IN
            IF pkt \in Web /\ m # Byte
            THEN verdict' = "ACCEPT" /\ scratch' = m /\ UNCHANGED <<at, stage>>
            ELSE NextSection /\ scratch' = {}
    /\ UNCHANGED pkt

\* The packet in front of the rules of section s.
InSection(s) ==
    \/ InitialMark(s) \/ SingleCheck(s) \/ FinalMatch(s)
    \/ \E c \in Criteria : Criterion(s, c)
    \/ OneRule(s) \/ WebException(s)

-----------------------------------------------------------------------------
(***************************************************************************)
(* What a section means.                                                   *)
(***************************************************************************)
Meets(s, c, p) ==
    LET some == \E i \in DOMAIN s.vals[c] : p \in s.vals[c][i].pkts
    IN IF c \in s.neg THEN ~some /\ (c = "url" => p \in Requests) ELSE some

Meant(s, p) ==
    /\ p \in Ruled(s, Ports(s))
    /\ \A c \in Criteria : Given(s, c) => Meets(s, c, p)
    /\ \A e \in s.extra : p \in e

MeantOrException(s, p) ==
    Meant(s, p) \/ (HasException(s) /\ p \in Web \ Requests)

\* Where the rules are known to do something else: a connmark that is compared
\* with the scratch bits, and packets of another protocol when nothing but
\* marks is compared.
Sound(s, p) ==
    Multi(s) # {} =>
        /\ \A c \in Criteria : \A i \in DOMAIN s.vals[c] : ~s.vals[c][i].whole
        /\ ~HasRest(s) /\ p \in FinalPackets(s) => p \in Ruled(s, Ports(s))
=============================================================================
