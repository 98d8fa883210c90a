-------------------------- MODULE PacketPathProofs --------------------------
(***************************************************************************)
(* Proofs about PacketPath, for every configuration and any set of         *)
(* packets: type correctness, that the quota chains hand the byte over     *)
(* clear, that the rules of sound sections give the verdict of the first   *)
(* section that means the packet, that quotas count and punish the         *)
(* packets that they mean, and that the sections mean what their options   *)
(* say.                                                                    *)
(***************************************************************************)
EXTENDS PacketPath, WellFoundedInduction, TLAPS

-----------------------------------------------------------------------------
(***************************************************************************)
(* Types.                                                                  *)
(***************************************************************************)
Bits == Criteria \cup {"rest"}

\* Every bit is one of the byte (make_iptables_rules.c:244-352).
LEMMA BitInByte == ASSUME NEW s, NEW c \in Bits PROVE Bit(s, c) \in Byte
  BY DEF Bits, Criteria, Bit, One, Byte

LEMMA PlaceInRange == ASSUME NEW c \in Criteria PROVE Place(c) \in 1 .. 7
  BY DEF Criteria, Place

LEMMA ConfigurationTypes ==
    ASSUME TypeOK
    PROVE  /\ q \in Seq(Quota) /\ Len(q) \in Nat
           /\ Len(rules) \in Nat
           /\ \A i \in 1 .. Len(rules) : chain[i] = Section(rules[i])
           /\ \A i \in 1 .. Len(rules) : chain[i].target \in {"ACCEPT", "REJECT"}
  <1>1. Way(pkt) \in {"egress", "ingress"}
    BY DEF Way
  <1>2. q \in Seq(Quota)
    BY QuotaAssumption DEF TypeOK, q
  <1>3. /\ Len(rules) \in Nat
        /\ \A i \in 1 .. Len(rules) : rules[i].target \in {"ACCEPT", "REJECT"}
    BY <1>1, SetupAssumption DEF TypeOK, rules
  <1>4. \A i \in 1 .. Len(rules) : chain[i] = Section(rules[i])
    BY DEF chain
  <1>5. \A i \in 1 .. Len(rules) : Section(rules[i]).target = rules[i].target
    BY DEF Section, Definition
  <1> QED
    BY <1>2, <1>3, <1>4, <1>5

\* The configuration stays.
LEMMA SetupStays == ASSUME Next PROVE setup' = setup
  BY DEF Next, Arrive, EnterDirection, InQuotas, EnterCombined, Filter, InRules,
         NewConnection, ChangeRules, pathVars

\* What the steps of a section do to the types.
LEMMA SectionTypes ==
    ASSUME NEW s, s.target \in {"ACCEPT", "REJECT"}, InSection(s),
           scratch \subseteq Byte, at \in Nat \ {0}, stage \in 0 .. 10,
           verdict = "none"
    PROVE  /\ pkt' = pkt
           /\ scratch' \subseteq Byte /\ at' \in Nat \ {0} /\ stage' \in 0 .. 10
           /\ verdict' \in {"none", "ACCEPT", "REJECT"}
  <1>1. ASSUME NEW c \in Bits PROVE Bit(s, c) \in Byte
    BY BitInByte
  <1>2. Multi(s) \subseteq Bits /\ "url" \in Bits /\ "rest" \in Bits
    BY DEF Multi, Bits, Criteria
  <1>3. CASE InitialMark(s)
    <2>1. InitialBits(s) \subseteq Byte
      BY <1>1, <1>2 DEF InitialBits
    <2> QED
      BY <1>1, <1>2, <1>3, <2>1 DEF InitialMark, Stay
  <1>4. CASE SingleCheck(s)
    BY <1>1, <1>2, <1>4 DEF SingleCheck, Stay, Rest, Final
  <1>5. CASE FinalMatch(s)
    BY <1>5 DEF FinalMatch, Final, Exception
  <1>6. ASSUME NEW c \in Criteria, Criterion(s, c)
        PROVE  /\ pkt' = pkt
               /\ scratch' \subseteq Byte /\ at' \in Nat \ {0} /\ stage' \in 0 .. 10
               /\ verdict' \in {"none", "ACCEPT", "REJECT"}
    <2>1. c \in Bits
      BY DEF Bits
    <2> QED
      BY <1>1, <1>6, <2>1, PlaceInRange DEF Criterion, Marked, Stay
  <1>7. CASE OneRule(s)
    BY <1>7 DEF OneRule, Exception
  <1>8. CASE WebException(s)
    <2>1. CASE ~HasException(s)
      BY <1>8, <2>1 DEF WebException, NextSection
    <2>2. CASE HasException(s)
      <3> DEFINE m == IF pkt \in Requests THEN Byte ELSE scratch
      <3>1. m \subseteq Byte
        OBVIOUS
      <3>2. \/ verdict' = "ACCEPT" /\ scratch' = m /\ at' = at /\ stage' = stage
            \/ verdict' = verdict /\ at' = at + 1 /\ stage' = 0 /\ scratch' = {}
        BY <1>8, <2>2 DEF WebException, NextSection
      <3>3. pkt' = pkt
        BY <1>8 DEF WebException
      <3> HIDE DEF m
      <3> QED
        BY <3>1, <3>2, <3>3
    <2> QED
      BY <2>1, <2>2
  <1> QED
    BY <1>3, <1>4, <1>5, <1>6, <1>7, <1>8 DEF InSection

\* With the types: no verdict while the packet is on its way, and slots stay in
\* the chain.
TypeInv == TypeOK /\ (where # "idle" => verdict = "none")

\* What a block does to the byte.
LEMMA BlockMark ==
    ASSUME Block(q)
    PROVE  scratch' \subseteq scratch \cup Low \cup High
  <1>1. PICK noted \in Notes(q, q[Index(q, slot)]) :
          scratch' \in LET m == IF noted THEN scratch \cup Low ELSE scratch
                       IN {m, m \cup High, m \ Low, (m \cup High) \ Low}
    BY DEF Block
  <1> QED
    BY <1>1

RulesWithin ==
    /\ frame \in 0 .. Whole + 3 /\ loaded \in 0 .. Sealed(q)
    /\ part \in 0 .. 27 /\ rejecting \in {"none", "front", "behind"}

\* What the changes of the rules leave alone, and how far the chains get.
LEMMA RulesTypes ==
    ASSUME TypeOK, ChangeRules
    PROVE  LoadUnchanged /\ RulesWithin'
  <1>1. /\ Sealed(q) \in Nat /\ Sealed(q)' = Sealed(q)
        /\ frame \in 0 .. 15 /\ Whole = 12 /\ loaded \in 0 .. Sealed(q)
        /\ part \in 0 .. 27 /\ rejecting \in {"none", "front", "behind"}
    BY ConfigurationTypes DEF TypeOK, Sealed, Whole, ChangeRules, pathVars, q
  <1>2. ASSUME Create(q) PROVE RulesWithin'
    BY <1>1, <1>2 DEF Create, RulesWithin
  <1>3. ASSUME Load(q) PROVE RulesWithin'
    <2>1. /\ loaded' = loaded \/ loaded' = loaded + 1
          /\ part' = 0 \/ part' \in Groups
          /\ frame' = frame /\ rejecting' = rejecting /\ loaded < 2 * Len(q)
      BY <1>3 DEF Load
    <2>2. loaded + 1 \in 0 .. Sealed(q)
      BY <1>1, <2>1, ConfigurationTypes DEF Sealed
    <2>3. loaded' \in 0 .. Sealed(q)
      BY <1>1, <2>1, <2>2
    <2>4. part' \in 0 .. 27
      BY <2>1 DEF Groups
    <2> QED
      BY <1>1, <2>1, <2>3, <2>4 DEF RulesWithin
  <1>4. ASSUME Seal(q) PROVE RulesWithin'
    <2>1. /\ \/ part < 3 /\ part' = part + 1
             \/ part' = 0
          /\ loaded' \in {loaded, Sealed(q)}
          /\ rejecting' \in {rejecting, "front"}
          /\ frame' = frame
      BY <1>4 DEF Seal
    <2>2. part' \in 0 .. 27
      BY <1>1, <2>1
    <2>3. loaded' \in 0 .. Sealed(q)
      BY <1>1, <2>1
    <2> QED
      BY <1>1, <2>1, <2>2, <2>3 DEF RulesWithin
  <1>5. ASSUME Unload(q) PROVE RulesWithin'
    BY <1>1, <1>5 DEF Unload, RulesWithin
  <1>6. ASSUME Reinsert(q) PROVE RulesWithin'
    BY <1>1, <1>6 DEF Reinsert, RulesWithin
  <1>7. ASSUME NEW c \in over, ResetCounter(c) PROVE RulesWithin'
    <2>1. frame' = frame /\ loaded' = loaded /\ part' = part /\ rejecting' = rejecting
      BY <1>7 DEF ResetCounter, builtVars
    <2> QED
      BY <1>1, <2>1 DEF RulesWithin
  <1>8. LoadUnchanged
    BY DEF ChangeRules, Create, Load, Seal, Unload, Reinsert, ResetCounter
  <1>9. RulesWithin'
    BY <1>2, <1>3, <1>4, <1>5, <1>6, <1>7 DEF ChangeRules
  <1> QED
    BY <1>8, <1>9

LEMMA InitTypes == Init => TypeInv
  <1> SUFFICES ASSUME Init PROVE TypeInv
    OBVIOUS
  <1>1. pkt \in Packets
    BY ConnectionAssumption DEF Init
  <1>2. Len(q) \in Nat
    BY QuotaAssumption DEF Init, q
  <1> QED
    <2>1. Sealed(q) \in Nat /\ 1 <= Sealed(q)
      BY <1>2 DEF Sealed
    <2>2. /\ alive \in BOOLEAN /\ clean \in BOOLEAN
          /\ dead \in BOOLEAN /\ slowed \in BOOLEAN
      BY Zenon DEF Init
    <2> QED
      BY <1>1, <2>1, <2>2 DEF Init, TypeInv, TypeOK, Types, Whole

LEMMA StepTypes == TypeInv /\ [Next]_vars => TypeInv'
  <1> SUFFICES ASSUME TypeInv, [Next]_vars PROVE TypeInv'
    OBVIOUS
  <1> USE DEF TypeInv
  <1>1. CASE UNCHANGED vars
    <2>1. Sealed(q)' = Sealed(q)
      BY <1>1 DEF vars, pathVars, Sealed, q
    <2> QED
      BY <1>1, <2>1 DEF vars, ruleVars, quotaVars, builtVars, pathVars, TypeOK
  <1>2. CASE Next
    <2>1. q' = q /\ Len(q) \in Nat
      BY <1>2, SetupStays, ConfigurationTypes DEF q
    <2>2. Sealed(q)' = Sealed(q)
      BY <2>1 DEF Sealed
    <2>3. Way(pkt) \in Types
      BY DEF Way, Types
    <2> USE DEF TypeOK
    <2>4. ASSUME NEW p \in Packets, Arrive(p) PROVE TypeInv'
      <3>1. alive' \in BOOLEAN /\ slowed' \in BOOLEAN
        BY <2>4, Zenon DEF Arrive
      <3> QED
        BY <2>2, <2>4, <3>1 DEF Arrive, builtVars
    <2>5. CASE EnterDirection
      <3>1. CASE Reaches(Way(pkt)) /\ ~dead
        <4>1. EnterChain(Way(pkt), scratch)
          BY <2>5, <3>1, Zenon DEF EnterDirection
        <4>2. dead' \in BOOLEAN /\ scratch' \subseteq Byte /\ slot' \in 1 .. Sealed(q)
          BY <2>1, <4>1 DEF EnterChain, Sealed
        <4>3. /\ lane' = Way(pkt) /\ where' = "between" /\ verdict = "none"
              /\ UNCHANGED <<pkt, builtVars, slowed, at, stage, verdict,
                             setup, conn, alive, clean>>
          BY <2>5, <4>1 DEF EnterDirection, EnterChain
        <4> QED
          BY <2>2, <2>3, <4>2, <4>3 DEF builtVars
      <3>2. CASE ~(Reaches(Way(pkt)) /\ ~dead)
        BY <2>2, <2>5, <3>2 DEF EnterDirection, quotaVars, builtVars
      <3> QED
        BY <3>1, <3>2
    <2>6. CASE InQuotas
      <3>1. CASE Block(q)
        <4>1. scratch' \subseteq Byte
          <5>1. Low \subseteq Byte /\ High \subseteq Byte
            BY DEF Low, High, Byte
          <5> QED
            BY <3>1, <5>1, BlockMark
        <4>2. dead' \in BOOLEAN /\ slowed' \in BOOLEAN
          BY <3>1, Zenon DEF Block
        <4>3. slot' \in 1 .. Sealed(q)
          BY <2>1, <3>1 DEF Block, Slots, Sealed
        <4>4. UNCHANGED <<pkt, builtVars, lane, at, stage, verdict, pathVars>>
          BY <2>6, <3>1 DEF Block, InQuotas
        <4> QED
          BY <2>2, <4>1, <4>2, <4>3, <4>4 DEF pathVars, builtVars
      <3>2. CASE EndChain(q)
        <4>1. scratch' \subseteq Byte
          BY <3>2 DEF EndChain, Tidied
        <4> QED
          BY <2>1, <2>2, <2>6, <3>2, <4>1 DEF InQuotas, EndChain, pathVars, builtVars
      <3> QED
        BY <2>6, <3>1, <3>2 DEF InQuotas
    <2>7. CASE EnterCombined
      <3>0. Gated \subseteq Byte
        BY DEF Gated, Low, Byte
      <3>1. CASE Reaches("combined") /\ Low \subseteq Gated
        <4>1. EnterChain("combined", Gated)
          BY <2>7, <3>1, Zenon DEF EnterCombined
        <4>2. dead' \in BOOLEAN /\ scratch' \subseteq Byte /\ slot' \in 1 .. Sealed(q)
          BY <2>1, <3>0, <4>1 DEF EnterChain, Sealed
        <4>3. /\ lane' = "combined" /\ where' = "forward" /\ verdict = "none"
              /\ UNCHANGED <<pkt, builtVars, slowed, at, stage, verdict,
                             setup, conn, alive, clean>>
          BY <2>7, <4>1 DEF EnterCombined, EnterChain
        <4> QED
          BY <2>2, <4>2, <4>3 DEF Types, builtVars
      <3>2. CASE ~(Reaches("combined") /\ Low \subseteq Gated)
        <4>1. scratch' \subseteq Byte /\ UNCHANGED <<pkt, quotaVars>>
          BY <2>7, <3>0, <3>2 DEF EnterCombined, Tidied
        <4> QED
          BY <2>2, <2>7, <4>1 DEF EnterCombined, quotaVars, builtVars
      <3> QED
        BY <3>1, <3>2
    <2>8. CASE Filter
      BY <2>1, <2>2, <2>8 DEF Filter, quotaVars, builtVars
    <2>9. CASE InRules
      <3>1. CASE at <= Len(rules)
        <4>1. at \in 1 .. Len(rules)
          BY <3>1, ConfigurationTypes
        <4>2. InSection(chain[at]) /\ chain[at].target \in {"ACCEPT", "REJECT"}
          BY <2>9, <3>1, <4>1, ConfigurationTypes DEF InRules
        <4>3. verdict = "none"
          BY <2>9 DEF InRules
        <4>4. /\ pkt' = pkt
              /\ scratch' \subseteq Byte /\ at' \in Nat \ {0} /\ stage' \in 0 .. 10
              /\ verdict' \in {"none", "ACCEPT", "REJECT"}
          BY <4>2, <4>3, SectionTypes
        <4> QED
          BY <2>2, <2>9, <4>4 DEF InRules, quotaVars, builtVars
      <3>2. CASE ~(at <= Len(rules))
        BY <2>2, <2>9, <3>2 DEF InRules, quotaVars, builtVars
      <3> QED
        BY <3>1, <3>2
    <2>10. ASSUME NEW c \in Connections, NewConnection(c) PROVE TypeInv'
      BY <2>2, <2>10 DEF NewConnection, builtVars
    <2>11. CASE ChangeRules
      <3>1. UNCHANGED <<at, stage, pathVars>> /\ verdict' = "none"
        BY <2>11 DEF ChangeRules
      <3> QED
        BY <2>2, <2>11, <3>1, RulesTypes DEF pathVars, RulesWithin, LoadUnchanged, ChangeRules
    <2> QED
      BY <1>2, <2>4, <2>5, <2>6, <2>7, <2>8, <2>9, <2>10, <2>11 DEF Next
  <1> QED
    BY <1>1, <1>2

\* Type correctness: the bits stay in the byte and the slots in the chain.
THEOREM TypeCorrect == Spec => []TypeOK
  <1>1. Spec => []TypeInv
    BY InitTypes, StepTypes, PTL DEF Spec
  <1>2. TypeInv => TypeOK
    BY DEF TypeInv
  <1> QED
    BY <1>1, <1>2, PTL

-----------------------------------------------------------------------------
(***************************************************************************)
(* The byte between the two tables.                                        *)
(***************************************************************************)
\* How the chains' commands follow one another.
InOrder ==
    /\ frame < Whole => loaded = 0 /\ part = 0
    /\ frame > Whole => loaded = Sealed(q)
    /\ loaded = Sealed(q) => part = 0

Finished == frame = Whole /\ loaded = Sealed(q) /\ rejecting = "front"

HandOver ==
    /\ where = "forward" /\ lane = "none" /\ Finished => dead \/ scratch = {}
    /\ where = "rules" /\ Finished => clean

LEMMA StepInOrder == TypeInv /\ InOrder /\ [Next]_vars => InOrder'
  <1> SUFFICES ASSUME TypeInv, InOrder, [Next]_vars PROVE InOrder'
    OBVIOUS
  <1>1. /\ Len(q) \in Nat /\ Sealed(q) = 2 * Len(q) + 1
        /\ frame \in 0 .. 15 /\ Whole = 12 /\ loaded \in 0 .. Sealed(q)
        /\ part \in 0 .. 27
    BY ConfigurationTypes DEF TypeInv, TypeOK, Sealed, Whole
  <1>2. Sealed(q)' = Sealed(q)
    <2>1. setup' = setup
      BY SetupStays DEF vars, pathVars
    <2> QED
      BY <2>1 DEF Sealed, q
  <1>3. CASE UNCHANGED builtVars
    BY <1>1, <1>2, <1>3 DEF InOrder, builtVars
  <1>4. CASE ChangeRules
    <2>1. CASE Create(q)
      BY <1>1, <1>2, <2>1 DEF Create, InOrder
    <2>2. CASE Load(q)
      <3>1. /\ loaded' = loaded \/ (loaded' = loaded + 1 /\ part' = 0)
            /\ frame = Whole /\ frame' = frame /\ loaded < 2 * Len(q)
        BY <2>2 DEF Load
      <3> QED
        BY <1>1, <1>2, <3>1 DEF InOrder
    <2>3. CASE Seal(q)
      BY <1>1, <1>2, <2>3 DEF Seal, InOrder
    <2>4. CASE Unload(q)
      BY <1>1, <1>2, <2>4 DEF Unload, InOrder
    <2>5. CASE Reinsert(q)
      BY <1>1, <1>2, <2>5 DEF Reinsert, InOrder
    <2>6. ASSUME NEW c \in over, ResetCounter(c) PROVE UNCHANGED builtVars
      BY <2>6 DEF ResetCounter
    <2> QED
      BY <1>3, <1>4, <2>1, <2>2, <2>3, <2>4, <2>5, <2>6 DEF ChangeRules
  <1>5. CASE UNCHANGED vars
    BY <1>3, <1>5 DEF vars, quotaVars
  <1>6. CASE Next /\ ~ChangeRules
    <2>1. CASE InQuotas
      BY <1>3, <2>1 DEF InQuotas, Block, EndChain
    <2>2. CASE EnterDirection \/ EnterCombined
      BY <1>3, <2>2 DEF EnterDirection, EnterCombined, EnterChain, quotaVars
    <2>3. CASE \/ \E p \in Packets : Arrive(p)
               \/ \E c \in Connections : NewConnection(c)
      BY <1>3, <2>3 DEF Arrive, NewConnection
    <2>4. CASE Filter \/ InRules
      BY <1>3, <2>4 DEF Filter, InRules, quotaVars
    <2> QED
      BY <1>6, <2>1, <2>2, <2>3, <2>4 DEF Next
  <1> QED
    BY <1>4, <1>5, <1>6

LEMMA StepHandsOver == TypeInv /\ HandOver /\ [Next]_vars => HandOver'
  <1> SUFFICES ASSUME TypeInv, HandOver, [Next]_vars PROVE HandOver'
    OBVIOUS
  <1> USE DEF HandOver
  <1>1. ASSUME setup' = setup, UNCHANGED builtVars PROVE Finished' <=> Finished
    <2>1. Sealed(q)' = Sealed(q)
      BY <1>1 DEF Sealed, q
    <2> QED
      BY <1>1, <2>1 DEF Finished, builtVars
  <1>2. CASE UNCHANGED vars
    <2>1. Finished' <=> Finished
      BY <1>1, <1>2 DEF vars, pathVars, quotaVars
    <2> QED
      BY <1>2, <2>1 DEF vars, ruleVars, quotaVars, pathVars
  <1>3. ASSUME NEW p \in Packets, Arrive(p) PROVE HandOver'
    BY <1>3 DEF Arrive
  <1>4. CASE EnterDirection
    BY <1>4 DEF EnterDirection
  <1>5. CASE InQuotas
    <2>1. UNCHANGED <<setup, builtVars, where, clean>>
      BY <1>5 DEF InQuotas, Block, EndChain, pathVars
    <2>2. Finished' <=> Finished
      BY <1>1, <2>1
    <2>3. CASE Block(q)
      BY <2>1, <2>2, <2>3 DEF Block
    <2>4. CASE EndChain(q)
      <3>1. Finished => Ends(q, lane)
        BY DEF Finished, Ends
      <3>2. Finished => scratch' = {}
        BY <2>4, <3>1 DEF EndChain, Tidied
      <3> QED
        BY <2>1, <2>2, <3>2
    <2> QED
      BY <1>5, <2>3, <2>4 DEF InQuotas
  <1>6. CASE EnterCombined
    <2>1. CASE Reaches("combined") /\ Low \subseteq Gated
      BY <1>6, <2>1 DEF EnterCombined, EnterChain
    <2>2. CASE ~(Reaches("combined") /\ Low \subseteq Gated)
      <3>1. UNCHANGED quotaVars /\ setup' = setup /\ where' = "forward"
        BY <1>6, <2>2 DEF EnterCombined
      <3>2. Finished' <=> Finished
        BY <1>1, <3>1 DEF quotaVars
      <3>3. Finished => Reaches("combined") /\ MarksLow(Way(pkt))
        BY DEF Finished, Reaches, MarksLow, Whole, Rank
      <3>4. Finished => dead
        BY <2>2, <3>3 DEF Gated
      <3> QED
        BY <3>1, <3>2, <3>4 DEF quotaVars
    <2> QED
      BY <2>1, <2>2
  <1>7. CASE Filter
    <2>1. /\ where = "forward" /\ lane = "none" /\ UNCHANGED <<quotaVars, setup>>
          /\ clean' = (scratch = {})
      BY <1>7 DEF Filter
    <2>2. Finished' <=> Finished
      BY <1>1, <2>1 DEF quotaVars
    <2>3. CASE dead /\ rejecting = "front"
      BY <1>7, <2>3 DEF Filter
    <2>4. CASE ~(dead /\ rejecting = "front")
      <3>1. where' = "rules" /\ (Finished => scratch = {})
        BY <1>7, <2>1, <2>4 DEF Filter, Finished
      <3> QED
        BY <2>1, <2>2, <3>1
    <2> QED
      BY <2>3, <2>4
  <1>8. CASE InRules
    <2>1. /\ where = "rules" /\ UNCHANGED <<quotaVars, setup, clean>>
          /\ where' \in {"rules", "idle"}
      BY <1>8 DEF InRules
    <2>2. Finished' <=> Finished
      BY <1>1, <2>1 DEF quotaVars
    <2> QED
      BY <2>1, <2>2
  <1>9. ASSUME NEW c \in Connections, NewConnection(c) PROVE HandOver'
    BY <1>9 DEF NewConnection
  <1>10. CASE ChangeRules
    BY <1>10 DEF ChangeRules, pathVars
  <1> QED
    BY <1>2, <1>3, <1>4, <1>5, <1>6, <1>7, <1>8, <1>9, <1>10 DEF Next

\* With all quota rules in place and the REJECT rule in front, the byte is clear in
\* front of the restrictions, whatever an earlier packet of the connection left in it.
THEOREM HandsOverClear == Spec => []CleanWhenSealed
  <1>1. Init => HandOver
    BY DEF Init, HandOver
  <1>2. Spec => [](TypeInv /\ HandOver)
    BY <1>1, InitTypes, StepTypes, StepHandsOver, PTL DEF Spec
  <1>3. HandOver => CleanWhenSealed
    BY DEF HandOver, CleanWhenSealed, Finished
  <1> QED
    BY <1>2, <1>3, PTL

-----------------------------------------------------------------------------
(***************************************************************************)
(* The rules of one section: what every bit says of the packet after each  *)
(* group of rules, and that the final comparison is right.                 *)
(***************************************************************************)

\* An address that is tested has taken its bit.
Shape(s) ==
    /\ Given(s, "src") => "src" \in s.defined
    /\ Given(s, "dst") => "dst" \in s.defined

\* make_iptables_rules.c:321-384: the bits of defined addresses.
LEMMA SectionShape == ASSUME NEW raw PROVE Shape(Section(raw))
  <1> DEFINE s == Section(raw)
             Pieces(opt) == IF Negated(raw, opt) THEN raw.no[opt] ELSE raw.yes[opt]
  <1>1. ASSUME NEW c \in {"src", "dst"}, NEW opt, opt = Option(c, FALSE), Given(s, c)
        PROVE  c \in s.defined
    <2>1. c \in Criteria
      BY DEF Criteria
    <2>2. DOMAIN s.vals[c] \subseteq Parsed(opt, Pieces(opt))
      BY <1>1, <2>1 DEF Section, Definition
    <2>3. Defined(opt, Pieces(opt))
      BY <1>1, <2>2 DEF Given, Parsed, Defined
    <2>4. Defined(opt, raw.yes[opt]) \/ Defined(opt, raw.no[opt])
      BY <2>3
    <2> QED
      BY <1>1, <2>4 DEF Section, Definition
  <1>2. ASSUME NEW c \in {"src", "dst"}, Given(s, c) PROVE c \in s.defined
    BY <1>1, <1>2
  <1> QED
    BY <1>2 DEF Shape

\* No two criteria of a section share a bit.
LEMMA BitsDistinct ==
    ASSUME NEW s, Shape(s), NEW c \in Multi(s) \cup {"rest"},
           NEW d \in Multi(s) \cup {"rest"}, Bit(s, c) = Bit(s, d)
    PROVE  c = d
  <1>1. Multi(s) \subseteq Criteria /\ \A e \in Multi(s) : Given(s, e)
    BY DEF Multi, Given, Several
  <1>2. "src" \in Multi(s) => One(s, "src") = 1
    BY <1>1 DEF Shape, One
  <1>3. "dst" \in Multi(s) => One(s, "dst") = 1
    BY <1>1 DEF Shape, One
  <1>4. One(s, "src") \in {0, 1} /\ One(s, "dst") \in {0, 1}
    BY DEF One
  <1> QED
    BY <1>1, <1>2, <1>3, <1>4 DEF Bit, Criteria

LEMMA PlacesDistinct ==
    ASSUME NEW c \in Criteria, NEW d \in Criteria, Place(c) = Place(d)
    PROVE  c = d
  BY DEF Criteria, Place

Touched(s, c, p) ==
    /\ p \in Ruled(s, c \in {"sport", "dport"})
    /\ \E i \in DOMAIN s.vals[c] : p \in s.vals[c][i].pkts

\* What the bit of criterion c says after the groups before group n.
BitIs(s, c, p, n) ==
    IF Place(c) < n /\ Touched(s, c, p) THEN c \notin s.neg
    ELSE c \in s.neg /\ (c = "url" => p \in Requests)

RestIs(s, p) ==
    /\ HasRest(s) /\ p \in Ruled(s, Ports(s))
    /\ \A c \in Single(s) : Meets(s, c, p)
    /\ \A e \in s.extra : p \in e

BitsTell(s, p, n, m) ==
    /\ Multi(s) # {}
    /\ m \subseteq FinalBits(s)
    /\ \A c \in Multi(s) : Bit(s, c) \in m <=> BitIs(s, c, p, n)
    /\ Bit(s, "rest") \in m <=> n = Final /\ RestIs(s, p)

InStage(s, p, n, m) ==
    /\ n = 0 => m = {}
    /\ n \in 1 .. Final => BitsTell(s, p, n, m)
    /\ n = Exception => m = {} /\ ~Meant(s, p)

\* A sound section has no value that looks at the byte while bits are in it.
LEMMA SomeIs ==
    ASSUME NEW s, NEW p, NEW m, Sound(s, p), NEW c \in Criteria,
           Multi(s) # {} \/ m = {}
    PROVE  Some(s, c, p, m) <=> \E i \in DOMAIN s.vals[c] : p \in s.vals[c][i].pkts
  BY DEF Sound, Some, Holds

LEMMA RestHoldsIs ==
    ASSUME NEW s, NEW p, NEW m, Sound(s, p), Multi(s) # {} \/ m = {}
    PROVE  RestHolds(s, p, m) <=>
             /\ \A c \in Single(s) : Meets(s, c, p)
             /\ \A e \in s.extra : p \in e
  <1>1. \A c \in Single(s) : HoldsAlone(s, c, p, m) <=> Meets(s, c, p)
    <2> SUFFICES ASSUME NEW c \in Single(s)
                 PROVE  HoldsAlone(s, c, p, m) <=> Meets(s, c, p)
      OBVIOUS
    <2>1. c \in Criteria
      BY DEF Single
    <2> QED
      BY <2>1, SomeIs DEF HoldsAlone, Meets
  <1> QED
    BY <1>1 DEF RestHolds

\* The bit for what is left is none of the criteria's.
LEMMA RestIsApart ==
    ASSUME NEW s, Shape(s), NEW d \in Multi(s)
    PROVE  Bit(s, "rest") # Bit(s, d)
  <1> SUFFICES ASSUME Bit(s, "rest") = Bit(s, d) PROVE FALSE
    OBVIOUS
  <1>1. d = "rest"
    BY BitsDistinct
  <1> QED
    BY <1>1 DEF Multi, Criteria

LEMMA InitialMarkTells ==
    ASSUME NEW s, Shape(s), InStage(s, pkt, stage, scratch), InitialMark(s)
    PROVE  BitsTell(s, pkt, 1, scratch')
  <1>1. scratch = {} /\ Multi(s) # {}
    BY DEF InitialMark, InStage
  <1>2. scratch' = InitialBits(s) \cup
            (IF "url" \in Multi(s) \cap s.neg /\ pkt \in Requests
             THEN {Bit(s, "url")} ELSE {})
    BY <1>1 DEF InitialMark
  <1>3. scratch' \subseteq FinalBits(s)
    BY <1>2 DEF InitialBits, FinalBits
  <1>4. ASSUME NEW c \in Multi(s)
        PROVE  Bit(s, c) \in scratch' <=> BitIs(s, c, pkt, 1)
    <2>1. ~(Place(c) < 1)
      BY PlaceInRange DEF Multi
    <2>2. \A d \in Multi(s) : Bit(s, c) = Bit(s, d) => c = d
      BY BitsDistinct
    <2> QED
      BY <1>2, <2>1, <2>2 DEF InitialBits, BitIs
  <1>5. Bit(s, "rest") \notin scratch'
    <2>1. \A d \in Multi(s) : Bit(s, "rest") # Bit(s, d)
      BY RestIsApart
    <2> QED
      BY <1>2, <2>1 DEF InitialBits
  <1> QED
    BY <1>1, <1>3, <1>4, <1>5 DEF BitsTell, Final

LEMMA CriterionTells ==
    ASSUME NEW s, Shape(s), Sound(s, pkt), NEW c \in Criteria,
           InStage(s, pkt, stage, scratch), Criterion(s, c)
    PROVE  BitsTell(s, pkt, stage + 1, scratch')
  <1>1. stage = Place(c) /\ Place(c) \in 1 .. 7
    BY PlaceInRange DEF Criterion
  <1>2. BitsTell(s, pkt, stage, scratch)
    BY <1>1 DEF InStage, Final
  <1>3. Multi(s) # {}
    BY <1>2 DEF BitsTell
  <1>4. scratch' = IF c \in Multi(s) /\ Touched(s, c, pkt)
                   THEN IF c \in s.neg THEN scratch \ {Bit(s, c)}
                        ELSE scratch \cup {Bit(s, c)}
                   ELSE scratch
    BY <1>3, SomeIs DEF Criterion, Marked, Touched
  <1>5. ASSUME NEW d \in Multi(s)
        PROVE  Bit(s, d) \in scratch' <=> BitIs(s, d, pkt, stage + 1)
    <2>1. Bit(s, d) \in scratch <=> BitIs(s, d, pkt, stage)
      BY <1>2 DEF BitsTell
    <2>2. d \in Criteria /\ Place(d) \in 1 .. 7
      BY PlaceInRange DEF Multi
    <2>3. CASE d = c
      <3>1. ~(Place(d) < stage) /\ Place(d) < stage + 1
        BY <1>1, <2>3
      <3> QED
        BY <1>4, <2>1, <2>3, <3>1 DEF BitIs
    <2>4. CASE d # c
      <3>1. Place(d) # Place(c)
        BY <2>2, <2>4, PlacesDistinct
      <3>2. Place(d) < stage <=> Place(d) < stage + 1
        BY <1>1, <2>2, <3>1
      <3>3. c \in Multi(s) => Bit(s, d) # Bit(s, c)
        BY <2>4, BitsDistinct
      <3>4. Bit(s, d) \in scratch' <=> Bit(s, d) \in scratch
        BY <1>4, <3>3
      <3> QED
        BY <2>1, <3>2, <3>4 DEF BitIs
    <2> QED
      BY <2>3, <2>4
  <1>6. scratch' \subseteq FinalBits(s)
    BY <1>2, <1>4 DEF BitsTell, FinalBits
  <1>7. Bit(s, "rest") \notin scratch'
    <2>1. Bit(s, "rest") \notin scratch
      BY <1>1, <1>2 DEF BitsTell, Final
    <2>2. c \in Multi(s) => Bit(s, "rest") # Bit(s, c)
      BY RestIsApart
    <2> QED
      BY <1>4, <2>1, <2>2
  <1> QED
    BY <1>1, <1>3, <1>5, <1>6, <1>7 DEF BitsTell, Final

LEMMA SingleCheckTells ==
    ASSUME NEW s, Shape(s), Sound(s, pkt),
           InStage(s, pkt, stage, scratch), SingleCheck(s)
    PROVE  BitsTell(s, pkt, Final, scratch')
  <1>1. stage = 8
    BY DEF SingleCheck, Rest
  <1>2. BitsTell(s, pkt, 8, scratch)
    BY <1>1 DEF InStage, Final
  <1>3. Multi(s) # {} /\ Bit(s, "rest") \notin scratch
    BY <1>2 DEF BitsTell, Final
  <1>4. scratch' = IF RestIs(s, pkt) THEN scratch \cup {Bit(s, "rest")} ELSE scratch
    BY <1>3, RestHoldsIs DEF SingleCheck, RestIs
  <1>5. ASSUME NEW c \in Multi(s)
        PROVE  Bit(s, c) \in scratch' <=> BitIs(s, c, pkt, Final)
    <2>1. c \in Criteria /\ Place(c) \in 1 .. 7
      BY PlaceInRange DEF Multi
    <2>2. Bit(s, c) \in scratch <=> BitIs(s, c, pkt, 8)
      BY <1>2 DEF BitsTell
    <2>3. Bit(s, c) \in scratch' <=> Bit(s, c) \in scratch
      BY <1>4, RestIsApart
    <2>4. Place(c) < 8 /\ Place(c) < Final
      BY <2>1 DEF Final
    <2> QED
      BY <2>2, <2>3, <2>4 DEF BitIs
  <1>6. scratch' \subseteq FinalBits(s)
    BY <1>2, <1>4 DEF BitsTell, FinalBits, RestIs
  <1> QED
    BY <1>3, <1>4, <1>5, <1>6 DEF BitsTell

\* A criterion that needs a port applies to fewer packets.
LEMMA RuledMore ==
    ASSUME PacketAssumption, NEW s, NEW p \in Packets, NEW c \in Criteria, Given(s, c),
           p \in Ruled(s, Ports(s))
    PROVE  p \in Ruled(s, c \in {"sport", "dport"})
  <1>1. c \in {"sport", "dport"} => Ports(s)
    BY DEF Ports
  <1> QED
    BY <1>1 DEF Ruled, PacketAssumption

\* The last comparison holds for the packets that the section means.
LEMMA FinalRight ==
    ASSUME PacketAssumption, NEW s, Shape(s), NEW p \in Packets, Sound(s, p), NEW m,
           BitsTell(s, p, Final, m)
    PROVE  m = FinalBits(s) /\ p \in FinalPackets(s) <=> Meant(s, p)
  <1>1. \A c \in Multi(s) : c \in Criteria /\ Given(s, c) /\ Place(c) < Final
    <2>1. \A c \in Multi(s) : c \in Criteria /\ Given(s, c)
      BY DEF Multi, Given, Several
    <2>2. \A c \in Criteria : Place(c) < Final
      BY DEF Criteria, Place, Final
    <2> QED
      BY <2>1, <2>2
  <1>2. \A c \in Multi(s) :
            Bit(s, c) \in m <=> IF Touched(s, c, p) THEN c \notin s.neg
                               ELSE c \in s.neg /\ (c = "url" => p \in Requests)
    BY <1>1 DEF BitsTell, BitIs
  <1>3. m = FinalBits(s) <=>
            /\ \A c \in Multi(s) : Bit(s, c) \in m
            /\ HasRest(s) => Bit(s, "rest") \in m
    BY DEF BitsTell, FinalBits
  <1>4. \A c \in Criteria : Given(s, c) <=> c \in Multi(s) \/ c \in Single(s)
    BY DEF Multi, Single, Given, Several
  <1>5. ASSUME p \in Ruled(s, Ports(s))
        PROVE  /\ \A c \in Multi(s) : Bit(s, c) \in m <=> Meets(s, c, p)
               /\ p \in FinalPackets(s)
    <2>1. ASSUME NEW c \in Multi(s) PROVE Bit(s, c) \in m <=> Meets(s, c, p)
      <3>1. Touched(s, c, p) <=> \E i \in DOMAIN s.vals[c] : p \in s.vals[c][i].pkts
        BY <1>1, <1>5, RuledMore DEF Touched
      <3> QED
        BY <1>2, <3>1 DEF Meets
    <2>2. p \in FinalPackets(s)
      BY <1>5 DEF FinalPackets, Ruled
    <2> QED
      BY <2>1, <2>2
  <1>6. ASSUME m = FinalBits(s), p \in FinalPackets(s) PROVE Meant(s, p)
    <2>1. p \in Ruled(s, Ports(s))
      <3>1. CASE HasRest(s)
        BY <1>3, <1>6, <3>1 DEF BitsTell, RestIs
      <3>2. CASE ~HasRest(s)
        BY <1>6, <3>2 DEF Sound, BitsTell
      <3> QED
        BY <3>1, <3>2
    <2>2. \A c \in Multi(s) : Meets(s, c, p)
      BY <1>3, <1>5, <1>6, <2>1
    <2>3. /\ \A c \in Single(s) : Meets(s, c, p)
          /\ \A e \in s.extra : p \in e
      <3>1. CASE HasRest(s)
        BY <1>3, <1>6, <3>1 DEF BitsTell, RestIs
      <3>2. CASE ~HasRest(s)
        BY <3>2 DEF HasRest
      <3> QED
        BY <3>1, <3>2
    <2> QED
      BY <1>4, <2>1, <2>2, <2>3 DEF Meant
  <1>7. ASSUME Meant(s, p) PROVE m = FinalBits(s) /\ p \in FinalPackets(s)
    <2>1. p \in Ruled(s, Ports(s))
      BY <1>7 DEF Meant
    <2>2. \A c \in Multi(s) : Bit(s, c) \in m
      BY <1>1, <1>5, <1>7, <2>1 DEF Meant
    <2>3. HasRest(s) => RestIs(s, p)
      <3>1. \A c \in Single(s) : c \in Criteria /\ Given(s, c)
        BY DEF Single
      <3> QED
        BY <1>7, <3>1 DEF Meant, RestIs
    <2>4. HasRest(s) => Bit(s, "rest") \in m
      BY <2>3 DEF BitsTell
    <2> QED
      BY <1>3, <1>5, <2>1, <2>2, <2>4
  <1> QED
    BY <1>6, <1>7

\* Without marks, the one rule matches the packets that the section means.
LEMMA OneRuleRight ==
    ASSUME NEW s, Multi(s) = {}, NEW p, Sound(s, p)
    PROVE  p \in Ruled(s, Ports(s)) /\ RestHolds(s, p, {}) <=> Meant(s, p)
  <1>1. \A c \in Criteria : Given(s, c) <=> c \in Single(s)
    BY DEF Single
  <1>2. RestHolds(s, p, {}) <=>
             /\ \A c \in Single(s) : Meets(s, c, p)
             /\ \A e \in s.extra : p \in e
    BY RestHoldsIs
  <1>3. Single(s) \subseteq Criteria
    BY DEF Single
  <1> QED
    BY <1>1, <1>2, <1>3 DEF Meant

-----------------------------------------------------------------------------
(***************************************************************************)
(* A chain of sections.                                                    *)
(***************************************************************************)

\* FirstOf is the target of the first.
LEMMA FirstIs ==
    ASSUME NEW targets, NEW hits, hits \subseteq Int, NEW i \in hits,
           \A j \in hits : i <= j
    PROVE  FirstOf(targets, hits) = targets[i].target
  <1> DEFINE first == CHOOSE k \in hits : \A j \in hits : k <= j
  <1>0. \E k \in hits : \A j \in hits : k <= j
    OBVIOUS
  <1>1. first \in hits /\ \A j \in hits : first <= j
    BY <1>0, Zenon
  <1> HIDE DEF first
  <1>2. first = i
    BY <1>1
  <1>3. FirstOf(targets, hits) = targets[first].target
    BY DEF FirstOf, first
  <1> QED
    BY <1>2, <1>3

Hits == {i \in 1 .. Len(rules) : MeantOrException(chain[i], pkt)}

\* What a step in section s leads to: the next group, a verdict because the section
\* means the packet, or the next section because it does not.
Outcome(s) ==
    \/ /\ verdict' = "none" /\ at' = at /\ stage' # 0
       /\ InStage(s, pkt, stage', scratch')
    \/ verdict' = s.target /\ at' = at /\ MeantOrException(s, pkt)
    \/ /\ verdict' = "none" /\ at' = at + 1 /\ stage' = 0 /\ scratch' = {}
       /\ ~MeantOrException(s, pkt)

LEMMA SectionRight ==
    ASSUME PacketAssumption, NEW s, Shape(s), pkt \in Packets, Sound(s, pkt),
           InStage(s, pkt, stage, scratch), InSection(s), verdict = "none"
    PROVE  Outcome(s)
  <1>1. CASE InitialMark(s)
    <2>1. BitsTell(s, pkt, 1, scratch') /\ stage' = 1
      BY <1>1, InitialMarkTells DEF InitialMark
    <2> QED
      BY <1>1, <2>1 DEF InitialMark, Stay, Outcome, InStage, Final, Exception
  <1>2. CASE SingleCheck(s)
    <2>1. BitsTell(s, pkt, Final, scratch') /\ stage' = Final
      BY <1>2, SingleCheckTells DEF SingleCheck
    <2> QED
      BY <1>2, <2>1 DEF SingleCheck, Stay, Outcome, InStage, Final, Exception
  <1>3. CASE FinalMatch(s)
    <2>1. stage = Final /\ BitsTell(s, pkt, Final, scratch)
      BY <1>3 DEF FinalMatch, InStage, Final
    <2>2. scratch = FinalBits(s) /\ pkt \in FinalPackets(s) <=> Meant(s, pkt)
      BY <2>1, FinalRight
    <2>3. CASE Meant(s, pkt)
      BY <1>3, <2>2, <2>3 DEF FinalMatch, Outcome, MeantOrException
    <2>4. CASE ~Meant(s, pkt)
      BY <1>3, <2>2, <2>4 DEF FinalMatch, Outcome, InStage, Final, Exception
    <2> QED
      BY <2>3, <2>4
  <1>4. ASSUME NEW c \in Criteria, Criterion(s, c) PROVE Outcome(s)
    <2>1. stage = Place(c) /\ Place(c) \in 1 .. 7
      BY <1>4, PlaceInRange DEF Criterion
    <2>2. BitsTell(s, pkt, stage + 1, scratch') /\ stage' = stage + 1
      BY <1>4, CriterionTells DEF Criterion
    <2> QED
      BY <1>4, <2>1, <2>2 DEF Criterion, Stay, Outcome, InStage, Final, Exception
  <1>5. CASE OneRule(s)
    <2>1. Multi(s) = {} /\ scratch = {}
      BY <1>5 DEF OneRule, InStage
    <2>2. pkt \in Ruled(s, Ports(s)) /\ RestHolds(s, pkt, scratch) <=> Meant(s, pkt)
      BY <2>1, OneRuleRight
    <2>3. CASE Meant(s, pkt)
      BY <1>5, <2>2, <2>3 DEF OneRule, Outcome, MeantOrException
    <2>4. CASE ~Meant(s, pkt)
      BY <1>5, <2>1, <2>2, <2>4 DEF OneRule, Outcome, InStage, Final, Exception
    <2> QED
      BY <2>3, <2>4
  <1>6. CASE WebException(s)
    <2>1. scratch = {} /\ ~Meant(s, pkt)
      BY <1>6 DEF WebException, InStage
    <2>2. CASE ~HasException(s)
      BY <1>6, <2>1, <2>2 DEF WebException, NextSection, Outcome, MeantOrException
    <2>3. CASE HasException(s)
      <3> DEFINE m == IF pkt \in Requests THEN Byte ELSE scratch
      <3>1. m # Byte <=> pkt \notin Requests
        BY <2>1 DEF Byte
      <3>2. IF pkt \in Web /\ m # Byte
            THEN verdict' = "ACCEPT" /\ at' = at
            ELSE verdict' = verdict /\ at' = at + 1 /\ stage' = 0 /\ scratch' = {}
        BY <1>6, <2>3 DEF WebException, NextSection
      <3>3. s.target = "ACCEPT"
        BY <2>3 DEF HasException
      <3> HIDE DEF m
      <3> QED
        BY <2>1, <2>3, <3>1, <3>2, <3>3 DEF Outcome, MeantOrException
    <2> QED
      BY <2>2, <2>3
  <1> QED
    BY <1>1, <1>2, <1>3, <1>4, <1>5, <1>6 DEF InSection

\* Right before the restrictions nothing has been decided, and at a section the
\* marks say what they should and no section passed by means the packet.
AtSection ==
    /\ \A i \in Hits : at <= i
    /\ at <= Len(rules) => InStage(chain[at], pkt, stage, scratch)

Right ==
    /\ where \notin {"between", "forward"} => lane = "none"
    /\ where \in {"mangle", "between", "forward"} => at = 1 /\ stage = 0
    /\ where = "rules" /\ clean /\ AllSound => AtSection
    /\ VerdictAsMeant

\* What is said of the sections depends on the packet and the configuration.
LEMMA SameSections ==
    ASSUME pkt' = pkt, setup' = setup
    PROVE  rules' = rules /\ chain' = chain /\ AllSound' = AllSound /\ Hits' = Hits
  <1>1. rules' = rules
    BY DEF rules
  <1>2. chain' = chain
    BY <1>1 DEF chain
  <1> QED
    BY <1>1, <1>2 DEF AllSound, Hits

LEMMA RulesRight ==
    ASSUME TypeInv, Right, InRules
    PROVE  Right'
  <1>1. /\ where = "rules" /\ verdict = "none" /\ lane = "none"
        /\ where' = IF verdict' = "none" THEN "rules" ELSE "idle"
        /\ UNCHANGED <<quotaVars, setup, conn, alive, clean>>
    BY DEF InRules, TypeInv, Right
  <1>2. /\ Len(rules) \in Nat /\ at \in Nat \ {0} /\ pkt \in Packets
        /\ \A i \in 1 .. Len(rules) : chain[i] = Section(rules[i])
        /\ \A i \in 1 .. Len(rules) : chain[i].target \in {"ACCEPT", "REJECT"}
    BY ConfigurationTypes DEF TypeInv, TypeOK
  <1>3. lane' = "none" /\ clean' = clean /\ setup' = setup
    BY <1>1 DEF quotaVars
  <1>4. CASE at <= Len(rules)
    <2>1. InSection(chain[at]) /\ at \in 1 .. Len(rules)
      BY <1>2, <1>4 DEF InRules
    <2>2. pkt' = pkt
      BY <1>1, <1>2, <2>1, SectionTypes DEF TypeInv, TypeOK
    <2>3. rules' = rules /\ chain' = chain /\ AllSound' = AllSound /\ Hits' = Hits
      BY <1>3, <2>2, SameSections
    <2>4. ASSUME clean, AllSound
          PROVE  /\ where' = "rules" => AtSection'
                 /\ VerdictAsMeant'
      <3>1. AtSection
        BY <1>1, <2>4 DEF Right
      <3>2. Outcome(chain[at])
        <4>1. Shape(chain[at]) /\ Sound(chain[at], pkt)
          BY <1>2, <2>1, <2>4, SectionShape DEF AllSound
        <4>2. InStage(chain[at], pkt, stage, scratch)
          BY <1>4, <3>1 DEF AtSection
        <4> QED
          BY <1>1, <1>2, <2>1, <4>1, <4>2, SectionRight, PacketAssumption
      <3>3. at \in Hits <=> MeantOrException(chain[at], pkt)
        BY <2>1 DEF Hits
      <3>4. Hits \subseteq Int
        BY DEF Hits
      <3>5. CASE verdict' = "none" /\ at' = at /\ InStage(chain[at], pkt, stage', scratch')
        BY <1>1, <2>2, <2>3, <3>1, <3>5 DEF AtSection, VerdictAsMeant, Done
      <3>6. CASE verdict' = chain[at].target /\ at' = at /\ MeantOrException(chain[at], pkt)
        <4>1. verdict' \in {"ACCEPT", "REJECT"} /\ where' = "idle"
          BY <1>1, <1>2, <2>1, <3>6
        <4>2. FirstOf(chain, Hits) = chain[at].target
          BY <3>1, <3>3, <3>4, <3>6, FirstIs DEF AtSection
        <4>3. FirstOf(chain, Hits)' = FirstOf(chain, Hits)
          BY <2>3 DEF FirstOf
        <4>4. verdict' = FirstOf(chain, Hits)'
          BY <3>6, <4>2, <4>3
        <4>5. VerdictAsMeant'
          BY <4>4 DEF VerdictAsMeant, Hits
        <4> QED
          BY <4>1, <4>5
      <3>7. CASE /\ verdict' = "none" /\ at' = at + 1 /\ stage' = 0 /\ scratch' = {}
                 /\ ~MeantOrException(chain[at], pkt)
        <4>1. \A i \in Hits : at + 1 <= i
          <5>1. at \notin Hits
            BY <3>3, <3>7
          <5>2. \A i \in Hits : at <= i /\ i # at
            BY <3>1, <5>1 DEF AtSection
          <5> QED
            BY <1>2, <3>4, <5>2
        <4>2. InStage(chain[at'], pkt, 0, {})
          BY DEF InStage, Final, Exception
        <4> QED
          BY <1>1, <2>2, <2>3, <3>7, <4>1, <4>2 DEF AtSection, VerdictAsMeant, Done
      <3> QED
        BY <3>2, <3>5, <3>6, <3>7 DEF Outcome
    <2> QED
      BY <1>1, <1>3, <2>3, <2>4 DEF Right, VerdictAsMeant
  <1>5. CASE ~(at <= Len(rules))
    <2>1. verdict' \in {"PASS", "QUOTA"} /\ pkt' = pkt /\ where' = "idle"
      BY <1>1, <1>5 DEF InRules
    <2>2. chain' = chain /\ AllSound' = AllSound /\ Hits' = Hits
      BY <1>3, <2>1, SameSections
    <2>3. ASSUME clean, AllSound PROVE Hits = {}
      <3>1. \A i \in Hits : at <= i /\ i <= Len(rules)
        BY <1>1, <1>2, <2>3 DEF Right, AtSection, Hits
      <3>2. Hits \subseteq Int
        BY DEF Hits
      <3> QED
        BY <1>2, <1>5, <3>1, <3>2
    <2>4. clean /\ AllSound => FirstOf(chain, Hits)' = "PASS"
      BY <2>2, <2>3 DEF FirstOf
    <2> QED
      BY <1>3, <2>1, <2>2, <2>4 DEF Right, VerdictAsMeant, Hits
  <1> QED
    BY <1>4, <1>5

LEMMA StepRight == TypeInv /\ Right /\ [Next]_vars => Right'
  <1> SUFFICES ASSUME TypeInv, Right, [Next]_vars PROVE Right'
    OBVIOUS
  <1>1. CASE UNCHANGED vars
    <2>1. AllSound' = AllSound /\ Hits' = Hits /\ chain' = chain /\ rules' = rules
      BY <1>1, SameSections DEF vars, ruleVars, pathVars
    <2>2. VerdictAsMeant' = VerdictAsMeant /\ AtSection' = AtSection
      BY <1>1, <2>1
      DEF vars, ruleVars, pathVars, VerdictAsMeant, Done, Hits, FirstOf, AtSection
    <2> QED
      BY <1>1, <2>1, <2>2 DEF vars, ruleVars, pathVars, quotaVars, Right
  <1>2. ASSUME verdict' = "none", where' # "rules",
               where' \notin {"between", "forward"} => lane' = "none",
               where' \in {"mangle", "between", "forward"} => at' = 1 /\ stage' = 0
        PROVE  Right'
    BY <1>2 DEF Right, VerdictAsMeant, Done
  <1>3. ASSUME NEW p \in Packets, Arrive(p) PROVE Right'
    <2>1. lane = "none"
      BY <1>3 DEF Arrive, Right
    <2> QED
      BY <1>2, <1>3, <2>1 DEF Arrive
  <1>4. CASE EnterDirection
    BY <1>2, <1>4 DEF EnterDirection, Right, TypeInv
  <1>5. CASE InQuotas
    <2>1. lane # "none" /\ where \in {"between", "forward"}
      BY <1>5 DEF InQuotas, Block, EndChain, AtEnd, Right
    <2> QED
      BY <1>2, <1>5, <2>1 DEF InQuotas, pathVars, Right, TypeInv
  <1>6. CASE EnterCombined
    BY <1>2, <1>6 DEF EnterCombined, Right, TypeInv
  <1>7. CASE Filter
    <2>1. /\ where = "forward" /\ lane' = "none" /\ verdict = "none"
          /\ pkt' = pkt /\ setup' = setup /\ scratch' = scratch
          /\ at' = at /\ stage' = stage /\ clean' = (scratch = {})
      BY <1>7 DEF Filter, quotaVars, TypeInv
    <2>2. at' = 1 /\ stage' = 0
      BY <2>1 DEF Right
    <2>3. clean' => AtSection'
      <3>1. clean' => scratch' = {}
        BY <2>1, Zenon
      <3>3. clean' => InStage(chain[at], pkt, stage, scratch)'
        BY <2>2, <3>1 DEF InStage, Final, Exception
      <3>2. \A i \in Hits' : 1 <= i
        BY DEF Hits
      <3> QED
        BY <2>2, <3>2, <3>3 DEF AtSection
    <2>4. \/ verdict' = "QUOTA" /\ where' = "idle"
          \/ verdict' = "none" /\ where' = "rules"
      BY <1>7, <2>1 DEF Filter
    <2> QED
      BY <2>1, <2>3, <2>4 DEF Right, VerdictAsMeant, Done
  <1>8. CASE InRules
    BY <1>8, RulesRight
  <1>9. ASSUME NEW c \in Connections, NewConnection(c) PROVE Right'
    BY <1>2, <1>9 DEF NewConnection, Right
  <1>10. CASE ChangeRules
    <2>1. lane' = lane /\ where' = "idle" /\ where = "idle" /\ verdict' = "none"
      BY <1>10, RulesTypes DEF ChangeRules, LoadUnchanged, pathVars, TypeInv
    <2> QED
      BY <1>2, <2>1 DEF Right
  <1> QED
    BY <1>1, <1>3, <1>4, <1>5, <1>6, <1>7, <1>8, <1>9, <1>10 DEF Next

\* The rules with all their marks give the verdict of the first section that
\* means the packet, in every configuration of sound sections, for a packet that
\* finds the byte clear.
THEOREM VerdictRight == Spec => []VerdictAsMeant
  <1>1. Init => Right
    BY DEF Init, Right, VerdictAsMeant, Done
  <1>2. Spec => []Right
    BY <1>1, InitTypes, StepTypes, StepRight, PTL DEF Spec
  <1>3. Right => VerdictAsMeant
    BY DEF Right
  <1> QED
    BY <1>2, <1>3, PTL

-----------------------------------------------------------------------------
(***************************************************************************)
(* The quotas.  In front of slot n of a chain the mark says whether one of *)
(* the quotas passed was explicitly for the host, and the counters of the  *)
(* quotas passed that mean it have counted the packet.                     *)
(***************************************************************************)
Explicitly(n) ==
    \E k \in 1 .. Len(q) : k < n /\ q[k].who = "some" /\ Host[pkt] \in q[k].hosts

Own(n) == IF Explicitly(n) THEN High ELSE {}

Passed(n, t) ==
    {k \in 1 .. Len(q) : SlotOf(k) < n /\ Ready(k, t, "limit") /\ For(k, pkt)}

Before(n, t) == {Counter(q[k], k, t, pkt) : k \in Passed(n, t)}

SlowedByOther(n) ==
    \E k \in 1 .. Len(q) :
        /\ SlotOf(k) < n /\ Ready(k, Way(pkt), "other_way") /\ For(k, pkt)
        /\ OtherWayOver(q[k], k, Way(pkt), pkt)

Slows(c) ==
    /\ q[c[1]].soft
    /\ c[2] = "combined" =>
         Ready(c[1], c[2], IF pkt \in Outward THEN "slow_out" ELSE "slow_in")

Soft(counters) == \E c \in counters \cap over : Slows(c)

\* The quota and the counter of slot n; what the quota's rules are for.
Here(n) == Index(q, n)
CounterHere(n, t) == Counter(q[Here(n)], Here(n), t, pkt)
Due(n, t, kind) == Filled(q, n) /\ Ready(Here(n), t, kind) /\ For(Here(n), pkt)

HostOf(k) ==
    \/ q[k].who = "some" /\ Host[pkt] \in q[k].hosts
    \/ q[k].who = "all"
    \/ Others(q[k]) /\ ~Named(pkt)

LEMMA QuotaTypes ==
    ASSUME TypeOK, NEW k \in 1 .. Len(q)
    PROVE  /\ Len(q) \in Nat
           /\ q[k].who \in {"some", "all", "others", "each"}
           /\ q[k].soft \in BOOLEAN
  <1>1. q \in Seq(Quota) /\ Len(q) \in Nat
    BY ConfigurationTypes
  <1>2. q[k] \in Quota
    BY <1>1
  <1> QED
    BY <1>1, <1>2 DEF Quota

LEMMA HereIs ==
    ASSUME TypeOK, NEW n \in Slots(q)
    PROVE  Here(n) \in 1 .. Len(q)
  BY ConfigurationTypes DEF Here, Index, Slots

\* Each quota has one slot of its own.
LEMMA OneSlot ==
    ASSUME TypeOK, NEW n \in Slots(q), NEW k \in 1 .. Len(q)
    PROVE  /\ SlotOf(k) \in Slots(q)
           /\ SlotOf(k) = n <=> k = Here(n) /\ Filled(q, n)
  <1>1. Len(q) \in Nat
    BY ConfigurationTypes
  <1>3. SlotOf(k) \in Slots(q)
    BY <1>1 DEF SlotOf, Slots
  <1>4. SlotOf(k) = n <=> k = Here(n) /\ Filled(q, n)
    BY <1>1 DEF SlotOf, Here, Index, Filled, Slots
  <1> QED
    BY <1>3, <1>4

-----------------------------------------------------------------------------
(***************************************************************************)
(* The rules of a block come in their order.                               *)
(***************************************************************************)

\* The groups of one type are nine in a row.
LEMMA GroupsOfType ==
    ASSUME NEW t \in Types
    PROVE  /\ Offset(t) \in {0, 9, 18}
           /\ \A i \in 1 .. 9 : /\ TypeOf(Offset(t) + i) = t
                                /\ Kind(Offset(t) + i) = Kinds[i]
           /\ \A g \in Groups : TypeOf(g) = t => g - Offset(t) \in 1 .. 9
  <1>1. Offset(t) \in {0, 9, 18}
    BY DEF Offset
  <1>2. \A i \in 1 .. 9 : TypeOf(Offset(t) + i) = t
    BY DEF Types, Offset, TypeOf
  <1>3. \A i \in 1 .. 9 : Kind(Offset(t) + i) = Kinds[i]
    <2>1. ASSUME NEW i \in 1 .. 9 PROVE Kind(Offset(t) + i) = Kinds[i]
      <3>1. (Offset(t) + i) - Offset(t) = i
        BY <1>1
      <3> QED
        BY <1>2, <3>1 DEF Kind
    <2> QED
      BY <2>1
  <1>4. \A g \in Groups : TypeOf(g) = t => g - Offset(t) \in 1 .. 9
    BY DEF Types, Offset, TypeOf, Groups
  <1> QED
    BY <1>1, <1>2, <1>3, <1>4

LEMMA KindsDiffer ==
    ASSUME NEW i \in 1 .. 9, NEW j \in 1 .. 9, Kinds[i] = Kinds[j]
    PROVE  i = j
  BY DEF Kinds

\* With rules of one kind those of an earlier kind are there too.
LEMMA Sooner ==
    ASSUME TypeOK, NEW n, NEW t \in Types, NEW i \in 1 .. 9, NEW j \in 1 .. 9,
           i <= j, InPlace(q, n, t, Kinds[j]), Exists(q[Index(q, n)], t, Kinds[i])
    PROVE  InPlace(q, n, t, Kinds[i])
  <1>1. CASE n <= loaded
    BY <1>1 DEF InPlace
  <1>2. CASE ~(n <= loaded)
    <2>1. PICK g \in 1 .. part : TypeOf(g) = t /\ Kind(g) = Kinds[j]
      BY <1>2 DEF InPlace
    <2>2. part \in 0 .. 27 /\ g \in Groups
      BY DEF TypeOK, Groups
    <2>3. g - Offset(t) \in 1 .. 9 /\ Offset(t) \in {0, 9, 18}
      BY <2>1, <2>2, GroupsOfType
    <2>4. Kinds[g - Offset(t)] = Kinds[j]
      BY <2>1 DEF Kind
    <2>5. g - Offset(t) = j
      BY <2>3, <2>4, KindsDiffer
    <2>6. Offset(t) + i \in 1 .. part
      BY <2>2, <2>3, <2>5
    <2>7. TypeOf(Offset(t) + i) = t /\ Kind(Offset(t) + i) = Kinds[i]
      BY GroupsOfType
    <2> QED
      BY <1>2, <2>6, <2>7 DEF InPlace
  <1> QED
    BY <1>1, <1>2

\* No rule is there while the frame is not.
LEMMA NoRules ==
    ASSUME TypeOK, InOrder, frame < Whole
    PROVE  /\ \A n \in 1 .. Sealed(q) : \A t, kind : ~InPlace(q, n, t, kind)
           /\ \A k \in 1 .. Len(q) : \A t, kind : ~Ready(k, t, kind)
  <1>1. loaded = 0 /\ part = 0 /\ Len(q) \in Nat
    BY ConfigurationTypes DEF InOrder
  <1>2. \A n \in 1 .. Sealed(q) : \A t, kind : ~InPlace(q, n, t, kind)
    BY <1>1 DEF InPlace, Sealed
  <1>3. \A k \in 1 .. Len(q) : SlotOf(k) \in 1 .. Sealed(q)
    BY <1>1 DEF SlotOf, Sealed
  <1> QED
    BY <1>2, <1>3 DEF Ready

\* A host is noted by its own quota, and when a rule that tests the note is there,
\* it is noted.
LEMMA NotesRight ==
    ASSUME NEW noted \in Notes(q, q[Here(slot)])
    PROVE  LET quota == q[Here(slot)]
               mine == Host[pkt] \in quota.hosts
           IN /\ noted \in BOOLEAN
              /\ noted => mine /\ InPlace(q, slot, lane, "some_notes")
              /\ InPlace(q, slot, lane, "notes") => (noted <=> mine)
              /\ ~ByMark(quota, lane) => ~noted
  <1> DEFINE quota == q[Here(slot)]
             mine == Host[pkt] \in quota.hosts
  <1>1. /\ noted \in BOOLEAN
        /\ noted => mine /\ InPlace(q, slot, lane, "some_notes")
        /\ mine /\ InPlace(q, slot, lane, "notes") => noted
    BY DEF Notes
  <1>2. InPlace(q, slot, lane, "some_notes") => ByMark(quota, lane)
    BY DEF InPlace, Exists, Here
  <1> QED
    BY <1>1, <1>2

\* The mark leads exactly the hosts of a quota to it.
LEMMA HitRight ==
    ASSUME TypeOK, NEW n \in Slots(q), NEW t, Filled(q, n), NEW noted \in BOOLEAN,
           ByMark(q[Here(n)], t) => (noted <=> Host[pkt] \in q[Here(n)].hosts),
           ~ByMark(q[Here(n)], t) => ~noted
    PROVE  Hit(q[Here(n)], t, pkt, IF noted THEN Own(n) \cup Low ELSE Own(n))
              <=> HostOf(Here(n))
  <1>1. Here(n) \in 1 .. Len(q)
    BY HereIs
  <1> DEFINE quota == q[Here(n)]
             m == IF noted THEN Own(n) \cup Low ELSE Own(n)
  <1>2. quota.who \in {"some", "all", "others", "each"} /\ Len(q) \in Nat
    BY <1>1, QuotaTypes
  <1>3. Own(n) \cap High = {} <=> ~Explicitly(n)
    BY DEF Own, High
  <1>4. CASE Others(quota)
    <2>1. n > Len(q)
      BY <1>4 DEF Filled, Here
    <2>2. Explicitly(n) <=> Named(pkt)
      BY <1>2, <2>1 DEF Explicitly, Named, Slots
    <2>3. HostOf(Here(n)) <=> ~Named(pkt)
      BY <1>4 DEF HostOf, Others
    <2>4. m = Own(n)
      BY <1>4 DEF Others, ByMark
    <2>5. Hit(quota, t, pkt, m) <=> Own(n) \cap High = {}
      BY <1>4, <2>4 DEF Hit, Others, ByMark
    <2> QED
      BY <1>3, <2>2, <2>3, <2>5
  <1>5. CASE quota.who = "all"
    BY <1>5 DEF Hit, HostOf
  <1>6. CASE quota.who = "some"
    <2>1. Low \subseteq m <=> noted
      BY DEF Own, Low, High
    <2> HIDE DEF m
    <2>2. Hit(quota, t, pkt, m) <=> Host[pkt] \in quota.hosts
      BY <1>6, <2>1 DEF Hit, Others
    <2>3. HostOf(Here(n)) <=> Host[pkt] \in quota.hosts
      BY <1>6 DEF HostOf, Others
    <2> QED
      BY <2>2, <2>3 DEF m
  <1> QED
    BY <1>2, <1>4, <1>5, <1>6 DEF Others

\* Each block that is complete leaves the mark to the next one as it should be.
LEMMA MarkRight ==
    ASSUME TypeOK, NEW n \in Slots(q)
    PROVE  Own(n + 1) = IF /\ Filled(q, n) /\ q[Here(n)].who = "some"
                           /\ Host[pkt] \in q[Here(n)].hosts
                        THEN High ELSE Own(n)
  <1>1. Here(n) \in 1 .. Len(q)
    BY HereIs
  <1>2. q[Here(n)].who \in {"some", "all", "others", "each"} /\ Len(q) \in Nat
    BY <1>1, QuotaTypes
  <1>3. Explicitly(n + 1) <=>
            \/ Explicitly(n)
            \/ /\ Filled(q, n) /\ q[Here(n)].who = "some"
               /\ Host[pkt] \in q[Here(n)].hosts
    BY <1>1, <1>2 DEF Explicitly, Here, Index, Slots, Filled, Others
  <1> QED
    BY <1>3 DEF Own

\* What is counted up to a slot, and by it.
LEMMA Counting ==
    ASSUME TypeOK, NEW n \in Slots(q), NEW t
    PROVE  Before(n + 1, t) = Before(n, t) \cup
               (IF Due(n, t, "limit") THEN {CounterHere(n, t)} ELSE {})
  <1>1. n \in Nat /\ \A k \in 1 .. Len(q) : SlotOf(k) \in Nat
    BY ConfigurationTypes DEF Slots, SlotOf
  <1>2. Here(n) \in 1 .. Len(q)
    BY HereIs
  <1>3. \A k \in 1 .. Len(q) : SlotOf(k) = n <=> k = Here(n) /\ Filled(q, n)
    BY OneSlot
  <1>4. \A k \in 1 .. Len(q) :
            SlotOf(k) < n + 1 <=> SlotOf(k) < n \/ (k = Here(n) /\ Filled(q, n))
    BY <1>1, <1>3
  <1>5. Passed(n + 1, t) = Passed(n, t) \cup
            (IF Due(n, t, "limit") THEN {Here(n)} ELSE {})
    BY <1>2, <1>4 DEF Passed, Due
  <1> QED
    BY <1>5 DEF Before, CounterHere

LEMMA Slowing ==
    ASSUME TypeOK, NEW n \in Slots(q)
    PROVE  SlowedByOther(n + 1) <=>
               \/ SlowedByOther(n)
               \/ /\ Due(n, Way(pkt), "other_way")
                  /\ OtherWayOver(q[Here(n)], Here(n), Way(pkt), pkt)
  <1>1. n \in Nat /\ \A k \in 1 .. Len(q) : SlotOf(k) \in Nat
    BY ConfigurationTypes DEF Slots, SlotOf
  <1>2. Here(n) \in 1 .. Len(q)
    BY HereIs
  <1>3. \A k \in 1 .. Len(q) : SlotOf(k) = n <=> k = Here(n) /\ Filled(q, n)
    BY OneSlot
  <1>4. \A k \in 1 .. Len(q) :
            SlotOf(k) < n + 1 <=> SlotOf(k) < n \/ (k = Here(n) /\ Filled(q, n))
    BY <1>1, <1>3
  <1> QED
    BY <1>2, <1>4 DEF SlowedByOther, Due

\* Behind the last slot nothing is counted.
LEMMA LastSlot ==
    ASSUME TypeOK, NEW n \in Int, NEW m \in Int, NEW t,
           n = m \/ (n > 2 * Len(q) /\ m > 2 * Len(q))
    PROVE  Before(n, t) = Before(m, t) /\ (SlowedByOther(n) <=> SlowedByOther(m))
  <1>1. \A k \in 1 .. Len(q) : SlotOf(k) < n <=> SlotOf(k) < m
    BY ConfigurationTypes DEF SlotOf
  <1> QED
    BY <1>1 DEF Before, Passed, SlowedByOther

LEMMA SlotsReady ==
    ASSUME TypeOK, NEW k \in 1 .. Len(q), NEW t, NEW kind, Ready(k, t, kind)
    PROVE  SlotOf(k) < loaded + 2
  <1>1. loaded \in Int /\ SlotOf(k) \in Int
    BY ConfigurationTypes DEF SlotOf, TypeOK, Sealed
  <1> QED
    BY <1>1 DEF Ready, InPlace

LEMMA MeaningIs ==
    ASSUME TypeOK, NEW t
    PROVE  Meaning(t) = Before(loaded + 2, t)
  <1>1. \A k \in 1 .. Len(q) : Ready(k, t, "limit") => SlotOf(k) < loaded + 2
    BY SlotsReady
  <1> QED
    BY <1>1 DEF Meaning, Before, Passed

\* Without rules, or in front of the first, nothing is counted.
LEMMA NothingBefore ==
    ASSUME TypeOK, NEW n \in Int, NEW t,
           n <= 1 \/ \A k \in 1 .. Len(q) : \A kind : ~Ready(k, t, kind)
    PROVE  Before(n, t) = {} /\ (t = Way(pkt) => ~SlowedByOther(n))
  <1>1. \A k \in 1 .. Len(q) : \A kind : ~(SlotOf(k) < n /\ Ready(k, t, kind))
    BY ConfigurationTypes DEF SlotOf
  <1> QED
    BY <1>1 DEF Before, Passed, SlowedByOther

\* The byte behind a block.
LeavesLow(n, t) ==
    /\ n = loaded + 1 /\ Filled(q, n) /\ Host[pkt] \in q[Here(n)].hosts
    /\ InPlace(q, n, t, "some_notes") /\ ~InPlace(q, n, t, "clear")

LEMMA BlockLeaves ==
    ASSUME TypeOK, Block(q), scratch = Own(slot)
    PROVE  /\ slot <= loaded => scratch' = Own(slot + 1)
           /\ 0 \in scratch' => LeavesLow(slot, lane)
  <1> DEFINE k == Here(slot)
             quota == q[k]
             Has(kind) == InPlace(q, slot, lane, kind)
             mine == Host[pkt] \in quota.hosts
  <1>1. slot \in Slots(q) /\ slot <= loaded + 1
    BY DEF Block
  <1>2. PICK noted \in Notes(q, quota) :
          LET m == IF noted THEN scratch \cup Low ELSE scratch
              named == IF Has("name") /\ Hit(quota, lane, pkt, m) THEN m \cup High ELSE m
          IN scratch' = IF Has("clear") THEN named \ Low ELSE named
    BY DEF Block, Here
  <1> DEFINE m == IF noted THEN scratch \cup Low ELSE scratch
             named == IF Has("name") /\ Hit(quota, lane, pkt, m) THEN m \cup High ELSE m
  <1>3. /\ noted \in BOOLEAN /\ (noted => mine /\ Has("some_notes"))
        /\ Has("notes") => (noted <=> mine)
        /\ ~ByMark(quota, lane) => ~noted
    BY <1>2, NotesRight
  <1>4. scratch' = IF Has("clear") THEN named \ Low ELSE named
    BY <1>2
  <1>5. /\ 0 \notin Own(slot) /\ 0 \in Low /\ 0 \notin High
        /\ Own(slot) \in {{}, High}
    BY DEF Own, Low, High
  <1>6. quota.who \in {"some", "all", "others", "each"} /\ Len(q) \in Nat
    BY <1>1, HereIs, QuotaTypes
  <1>7. loaded \in Nat /\ slot \in Nat
    BY <1>1, <1>6 DEF TypeOK, Slots
  <1>8. CASE slot <= loaded /\ Filled(q, slot)
    <2>1. /\ Has("notes") <=> ByMark(quota, lane)
          /\ Has("name") <=> quota.who = "some"
          /\ Has("clear") <=> ByMark(quota, lane) \/ Others(quota)
      BY <1>8 DEF InPlace, Exists, Here
    <2>2. Hit(quota, lane, pkt, m) <=> HostOf(k)
      <3>1. /\ ByMark(quota, lane) => (noted <=> mine)
            /\ ~ByMark(quota, lane) => ~noted
        BY <1>3, <2>1
      <3> QED
        BY <1>1, <1>3, <1>8, <3>1, HitRight
    <2>3. quota.who = "some" => (HostOf(k) <=> mine)
      BY DEF HostOf, Others
    <2>4. Own(slot + 1) = IF quota.who = "some" /\ mine THEN High ELSE Own(slot)
      BY <1>1, <1>8, MarkRight
    <2>5. ByMark(quota, lane) => quota.who = "some"
      BY DEF ByMark
    <2>6. High \ Low = High /\ (High \cup Low) \ Low = High /\ Low \ Low = {}
      BY DEF High, Low
    <2>7. named = IF quota.who = "some" /\ mine THEN m \cup High ELSE m
      BY <2>1, <2>2, <2>3
    <2>8. noted <=> ByMark(quota, lane) /\ mine
      BY <1>3, <2>1
    <2> HIDE DEF quota, mine, k, Has
    <2>9. scratch' = IF quota.who = "some" /\ mine THEN High ELSE Own(slot)
      <3>1. CASE quota.who = "some" /\ mine
        <4>1. CASE ByMark(quota, lane)
          <5>1. named = (scratch \cup Low) \cup High /\ scratch' = named \ Low
            BY <1>4, <2>1, <2>7, <2>8, <3>1, <4>1
          <5> QED
            BY <1>5, <2>6, <3>1, <5>1
        <4>2. CASE ~ByMark(quota, lane)
          <5>1. named = scratch \cup High
            BY <2>7, <2>8, <3>1, <4>2
          <5>2. scratch' \in {named, named \ Low}
            BY <1>4
          <5> QED
            BY <1>5, <2>6, <3>1, <5>1, <5>2
        <4> QED
          BY <4>1, <4>2
      <3>2. CASE ~(quota.who = "some" /\ mine)
        <4>1. named = scratch
          BY <2>5, <2>7, <2>8, <3>2
        <4>2. scratch' \in {named, named \ Low}
          BY <1>4
        <4> QED
          BY <1>5, <2>6, <3>2, <4>1, <4>2
      <3> QED
        BY <3>1, <3>2
    <2>10. scratch' = Own(slot + 1)
      BY <2>4, <2>9
    <2>11. 0 \notin scratch'
      BY <1>5, <2>9
    <2> QED
      BY <2>10, <2>11
  <1>9. CASE ~Filled(q, slot)
    <2>1. \A kind : ~Has(kind)
      BY <1>9 DEF InPlace
    <2>2. scratch' = scratch
      BY <1>3, <1>4, <2>1
    <2> QED
      BY <1>1, <1>5, <1>9, <2>2, MarkRight
  <1>10. CASE ~(slot <= loaded) /\ Filled(q, slot)
    <2>1. slot = loaded + 1
      BY <1>1, <1>7, <1>10
    <2>2. 0 \in scratch' => noted /\ ~Has("clear")
      <3>1. 0 \in scratch' => 0 \in named /\ ~Has("clear")
        BY <1>4, <1>5
      <3>2. 0 \in named => noted
        BY <1>5
      <3> QED
        BY <3>1, <3>2
    <2> QED
      BY <1>3, <1>10, <2>1, <2>2 DEF LeavesLow
  <1> QED
    BY <1>8, <1>9, <1>10

\* A block of rules counts the packet when the quota means it.
LEMMA BlockMeans ==
    ASSUME TypeOK, InOrder, Block(q), lane \in {Way(pkt), "combined"}, Reaches(lane),
           frame >= Whole => scratch = Own(slot)
    PROVE  LET new == IF Due(slot, lane, "limit") THEN {CounterHere(slot, lane)} ELSE {}
           IN /\ charged' = charged \cup new
              /\ over' = over \/ over' = over \cup new
              /\ dead' <=> dead \/ \E c \in new : ~q[c[1]].soft /\ c \in over'
              /\ slowed' <=>
                   \/ slowed
                   \/ \E c \in new : Slows(c) /\ c \in over'
                   \/ /\ lane = Way(pkt) /\ Due(slot, lane, "other_way")
                      /\ OtherWayOver(q[Here(slot)], Here(slot), lane, pkt)
  <1> DEFINE k == Here(slot)
             quota == q[k]
             c == CounterHere(slot, lane)
             Has(kind) == InPlace(q, slot, lane, kind)
             slow == IF pkt \in Outward THEN "slow_out" ELSE "slow_in"
  <1>1. slot \in Slots(q) /\ k \in 1 .. Len(q) /\ lane \in Types
    BY HereIs DEF Block, Way, Types
  <1>2. PICK noted \in Notes(q, quota) :
          LET m == IF noted THEN scratch \cup Low ELSE scratch
              hit == Hit(quota, lane, pkt, m)
              limited == Has("limit") /\ hit /\ Active(quota, pkt)
          IN /\ charged' = IF limited THEN charged \cup {c} ELSE charged
             /\ over' \in IF limited THEN {over, over \cup {c}} ELSE {over}
             /\ dead' = (dead \/ (limited /\ ~quota.soft /\ c \in over'))
             /\ slowed' =
                  \/ slowed
                  \/ /\ Has("other_way") /\ hit /\ Active(quota, pkt)
                     /\ OtherWayOver(quota, k, lane, pkt)
                  \/ /\ limited /\ quota.soft /\ c \in over'
                     /\ lane = "combined" => Has(slow)
    BY Zenon DEF Block, Here, CounterHere
  <1> DEFINE hit == Hit(quota, lane, pkt, IF noted THEN scratch \cup Low ELSE scratch)
             limited == Has("limit") /\ hit /\ Active(quota, pkt)
  <1>3. \A kind : Has(kind) => frame >= Whole /\ Filled(q, slot)
    <2>1. slot \in 1 .. Sealed(q) /\ frame \in Int
      BY DEF TypeOK
    <2>2. frame < Whole => \A kind : ~Has(kind)
      BY <2>1, NoRules
    <2> QED
      BY <2>1, <2>2 DEF InPlace, Whole
  <1>4. \A kind : Filled(q, slot) => (Ready(k, lane, kind) <=> Has(kind))
    BY <1>1, OneSlot DEF Ready
  <1>5. ASSUME NEW i \in {4, 5}, Has(Kinds[i])
        PROVE  hit /\ Active(quota, pkt) <=> For(k, pkt)
    <2>1. scratch = Own(slot) /\ Filled(q, slot)
      BY <1>3, <1>5
    <2>2. ByMark(quota, lane) => Has("notes")
      <3>1. ByMark(quota, lane) => Exists(quota, lane, Kinds[2])
        BY DEF Exists, Kinds
      <3>2. Kinds[2] = "notes"
        BY DEF Kinds
      <3>3. 2 <= i /\ i \in 1 .. 9 /\ 2 \in 1 .. 9
        OBVIOUS
      <3> QED
        BY <1>1, <1>5, <3>1, <3>2, <3>3, Sooner DEF Here
    <2>3. hit <=> HostOf(k)
      <3>1. /\ noted \in BOOLEAN
            /\ ByMark(quota, lane) => (noted <=> Host[pkt] \in quota.hosts)
            /\ ~ByMark(quota, lane) => ~noted
        BY <1>2, <2>2, NotesRight
      <3> QED
        BY <1>1, <2>1, <3>1, HitRight
    <2> HIDE DEF hit
    <2> QED
      BY <2>3 DEF For, HostOf
  <1>6. Kinds[4] = "other_way" /\ Kinds[5] = "limit"
    BY DEF Kinds
  <1>7. limited <=> Due(slot, lane, "limit")
    BY <1>3, <1>4, <1>5, <1>6 DEF Due
  <1>8. Has("other_way") /\ hit /\ Active(quota, pkt) <=>
            lane = Way(pkt) /\ Due(slot, lane, "other_way")
    <2>1. Has("other_way") => lane # "combined"
      BY DEF InPlace, Exists
    <2> QED
      BY <1>3, <1>4, <1>5, <1>6, <2>1 DEF Due
  <1>9. limited => (Slows(c) <=> quota.soft /\ (lane = "combined" => Has(slow)))
    <2>1. c[1] = k /\ c[2] = lane
      BY DEF CounterHere, Counter
    <2>2. limited => Filled(q, slot)
      BY <1>3
    <2> HIDE DEF c, limited
    <2> QED
      BY <1>4, <2>1, <2>2 DEF Slows
  <1>10. c[1] = k
    BY DEF CounterHere, Counter
  <1>11. /\ charged' = IF limited THEN charged \cup {c} ELSE charged
         /\ over' \in IF limited THEN {over, over \cup {c}} ELSE {over}
    BY <1>2
  <1>12. dead' = (dead \/ (limited /\ ~quota.soft /\ c \in over'))
    BY <1>2, Zenon
  <1>13. slowed' =
            (\/ slowed
             \/ Has("other_way") /\ hit /\ Active(quota, pkt)
                /\ OtherWayOver(quota, k, lane, pkt)
             \/ limited /\ quota.soft /\ c \in over' /\ (lane = "combined" => Has(slow)))
    BY <1>2, Zenon
  <1> HIDE DEF c, hit, limited, quota, k, Has, slow
  <1> DEFINE new == IF limited THEN {c} ELSE {}
  <1>14. dead' <=> dead \/ \E d \in new : ~q[d[1]].soft /\ d \in over'
    <2>1. (\E d \in new : ~q[d[1]].soft /\ d \in over') <=>
              limited /\ ~quota.soft /\ c \in over'
      BY <1>10 DEF quota
    <2> HIDE DEF new
    <2> QED
      BY <1>12, <2>1, Zenon
  <1>15. slowed' <=>
            \/ slowed
            \/ \E d \in new : Slows(d) /\ d \in over'
            \/ /\ lane = Way(pkt) /\ Due(slot, lane, "other_way")
               /\ OtherWayOver(quota, k, lane, pkt)
    <2>1. (\E d \in new : Slows(d) /\ d \in over') <=>
              limited /\ quota.soft /\ c \in over' /\ (lane = "combined" => Has(slow))
      BY <1>9
    <2> HIDE DEF new
    <2> QED
      BY <1>8, <1>13, <2>1, Zenon
  <1>16. charged' = charged \cup new /\ (over' = over \/ over' = over \cup new)
    BY <1>11
  <1>17. new = IF Due(slot, lane, "limit") THEN {CounterHere(slot, lane)} ELSE {}
    BY <1>7 DEF c
  <1> HIDE DEF new
  <1> QED
    BY <1>14, <1>15, <1>16, <1>17 DEF quota, k

-----------------------------------------------------------------------------
(***************************************************************************)
(* What stays while the packet is on its way.                              *)
(***************************************************************************)
OneWay == Before(loaded + 2, Way(pkt))
BothWays == Before(loaded + 2, "combined")

LEMMA SameRules ==
    ASSUME pkt' = pkt, setup' = setup, UNCHANGED builtVars
    PROVE  /\ q' = q /\ \A t : Reaches(t)' <=> Reaches(t)
           /\ \A n, t : Before(n, t)' = Before(n, t)
           /\ \A n : Own(n)' = Own(n)
           /\ \A c : Slows(c)' <=> Slows(c)
           /\ Leaking' <=> Leaking
           /\ OneWay' = OneWay /\ BothWays' = BothWays
  <1>1. /\ q' = q /\ frame' = frame /\ loaded' = loaded /\ part' = part
        /\ rejecting' = rejecting
    BY DEF q, builtVars
  <1>2. \A t : Reaches(t)' <=> Reaches(t)
    BY <1>1 DEF Reaches
  <1>3. \A n, t, kind : InPlace(q, n, t, kind)' <=> InPlace(q, n, t, kind)
    BY <1>1 DEF InPlace
  <1>4. \A k : SlotOf(k)' = SlotOf(k) /\ (For(k, pkt)' <=> For(k, pkt))
    BY <1>1 DEF SlotOf, For, Named
  <1>5. \A k, t, kind : Ready(k, t, kind)' <=> Ready(k, t, kind)
    <2>1. ASSUME NEW k, NEW t, NEW kind PROVE Ready(k, t, kind)' <=> Ready(k, t, kind)
      <3>1. PICK n : n = SlotOf(k)
        OBVIOUS
      <3>2. n' = SlotOf(k)'
        BY <1>4, <3>1
      <3> QED
        BY <1>1, <1>2, <1>3, <1>4, <3>1, <3>2 DEF Ready, InPlace
    <2> QED
      BY <2>1
  <1>6. \A n, t : Passed(n, t)' = Passed(n, t)
    BY <1>1, <1>4, <1>5 DEF Passed
  <1>7. \A n, t : Before(n, t)' = Before(n, t)
    BY <1>1, <1>6 DEF Before
  <1>8. \A n : Own(n)' = Own(n)
    BY <1>1 DEF Own, Explicitly
  <1>9. \A c : Slows(c)' <=> Slows(c)
    BY <1>1, <1>5 DEF Slows
  <1>10. Leaking' <=> Leaking
    BY <1>1, <1>5 DEF Leaking
  <1>11. OneWay' = OneWay /\ BothWays' = BothWays
    BY <1>1, <1>7 DEF OneWay, BothWays
  <1> QED
    BY <1>1, <1>2, <1>7, <1>8, <1>9, <1>10, <1>11

\* With more counters, the new ones perhaps above their limits.
LEMMA MoreCounters ==
    ASSUME pkt' = pkt, setup' = setup, UNCHANGED builtVars, NEW S, NEW T,
           over' = over \/ over' = over \cup T
    PROVE  /\ Fatal(S \cup T)' <=>
                 Fatal(S) \/ \E c \in T : ~q[c[1]].soft /\ c \in over'
           /\ Soft(S \cup T)' <=> Soft(S) \/ \E c \in T : Slows(c) /\ c \in over'
  <1>1. q' = q /\ \A c : Slows(c)' <=> Slows(c)
    BY SameRules
  <1>2. (S \cup T) \cap over' = (S \cap over) \cup (T \cap over')
    OBVIOUS
  <1>3. Fatal(S \cup T)' <=> \E c \in (S \cap over) \cup (T \cap over') : ~q[c[1]].soft
    BY <1>1, <1>2 DEF Fatal
  <1>4. Soft(S \cup T)' <=> \E c \in (S \cap over) \cup (T \cap over') : Slows(c)
    BY <1>1, <1>2 DEF Soft
  <1> QED
    BY <1>3, <1>4 DEF Fatal, Soft

\* While the counters do not change.
LEMMA SameCounts ==
    ASSUME pkt' = pkt, setup' = setup, UNCHANGED builtVars, over' = over
    PROVE  /\ \A n : SlowedByOther(n)' <=> SlowedByOther(n)
           /\ \A S : /\ Fatal(S)' <=> Fatal(S)
                     /\ Soft(S)' <=> Soft(S)
  <1>1. q' = q /\ \A c : Slows(c)' <=> Slows(c)
    BY SameRules
  <1>2. \A n : SlowedByOther(n)' <=> SlowedByOther(n)
    <2>1. UNCHANGED <<frame, loaded, part>>
      BY DEF builtVars
    <2> QED
      BY <1>1, <2>1
      DEF SlowedByOther, OtherWayOver, For, Named, SlotOf, Ready, Reaches, InPlace
  <1>3. \A S : (Fatal(S)' <=> Fatal(S)) /\ (Soft(S)' <=> Soft(S))
    BY <1>1 DEF Fatal, Soft
  <1> QED
    BY <1>2, <1>3

\* The counters of a block belong to the chain that it is in: what is said of
\* the counters of another chain stays.
LEMMA OtherChain ==
    ASSUME pkt' = pkt, setup' = setup, UNCHANGED builtVars, NEW t, NEW c,
           c[2] # t, over' = over \/ over' = over \cup {c}
    PROVE  /\ \A n : Fatal(Before(n, t))' <=> Fatal(Before(n, t))
           /\ t = Opposite(Way(pkt)) =>
                 \A n : SlowedByOther(n)' <=> SlowedByOther(n)
  <1>1. q' = q /\ \A n : Before(n, t)' = Before(n, t)
    BY SameRules
  <1>2. \A k, p : Counter(q[k], k, t, p) # c
    BY DEF Counter
  <1>3. \A n : Before(n, t) \cap over' = Before(n, t) \cap over
    BY <1>2 DEF Before
  <1>4. \A n : Fatal(Before(n, t))' <=> Fatal(Before(n, t))
    BY <1>1, <1>3 DEF Fatal
  <1>5. ASSUME t = Opposite(Way(pkt)) PROVE \A n : SlowedByOther(n)' <=> SlowedByOther(n)
    <2>1. \A k : OtherWayOver(q[k], k, Way(pkt), pkt)' <=>
                 OtherWayOver(q[k], k, Way(pkt), pkt)
      BY <1>1, <1>2, <1>5 DEF OtherWayOver
    <2>2. UNCHANGED <<frame, loaded, part>>
      BY DEF builtVars
    <2> QED
      BY <1>1, <2>1, <2>2 DEF SlowedByOther, For, Named, SlotOf, Ready, Reaches, InPlace
  <1> QED
    BY <1>4, <1>5

\* The packet is slowed because of what counted it, and of counters of the other
\* direction in front of slot n.
SlowBy(n) == slowed <=> Soft(charged) \/ SlowedByOther(n)

\* A packet in the chain for t.
InLane(t) ==
    /\ lane = t /\ Reaches(t) /\ slot \in 1 .. loaded + 2
    /\ frame >= Whole /\ slot <= loaded + 1 => scratch = Own(slot)

\* A block keeps the punishment in step with the counters: of what was counted,
\* in S, and of what it counts.
LEMMA BlockPunishes ==
    ASSUME TypeOK, InOrder, Block(q), setup' = setup, lane \in {Way(pkt), "combined"},
           InLane(lane), NEW S,
           NEW n, NEW m, lane = Way(pkt) => n = slot /\ m = slot + 1,
           lane = "combined" => m = n,
           NEW new, new = IF Due(slot, lane, "limit") THEN {CounterHere(slot, lane)}
                          ELSE {}
    PROVE  /\ charged' = charged \cup new
           /\ (dead <=> Fatal(S)) => (dead' <=> Fatal(S \cup new)')
           /\ SlowBy(n) => SlowBy(m)'
  <1> DEFINE other == /\ lane = Way(pkt) /\ Due(slot, lane, "other_way")
                      /\ OtherWayOver(q[Here(slot)], Here(slot), lane, pkt)
  <1>1. /\ charged' = charged \cup new
        /\ over' = over \/ over' = over \cup new
        /\ dead' <=> dead \/ \E c \in new : ~q[c[1]].soft /\ c \in over'
        /\ slowed' <=> slowed \/ (\E c \in new : Slows(c) /\ c \in over') \/ other
    <2>1. Reaches(lane) /\ (frame >= Whole => scratch = Own(slot))
      <3>1. slot <= loaded + 1
        BY DEF Block
      <3> QED
        BY <3>1 DEF InLane
    <2> QED
      BY <2>1, BlockMeans
  <1>2. pkt' = pkt /\ UNCHANGED builtVars /\ slot \in Slots(q)
    BY DEF Block
  <1>3. (dead <=> Fatal(S)) => (dead' <=> Fatal(S \cup new)')
    <2>1. Fatal(S \cup new)' <=> Fatal(S) \/ \E c \in new : ~q[c[1]].soft /\ c \in over'
      BY <1>1, <1>2, MoreCounters
    <2> QED
      BY <1>1, <2>1
  <1>4. Soft(charged)' <=> Soft(charged) \/ \E c \in new : Slows(c) /\ c \in over'
    <2>1. PICK old : old = charged
      OBVIOUS
    <2>2. Soft(old \cup new)' <=> Soft(old) \/ \E c \in new : Slows(c) /\ c \in over'
      BY <1>1, <1>2, MoreCounters
    <2>3. Soft(charged)' <=> Soft(old \cup new)'
      BY <1>1, <2>1 DEF Soft
    <2> QED
      BY <2>1, <2>2, <2>3
  <1>5. \A i : SlowedByOther(i)' <=> SlowedByOther(i)
    <2>1. over' = over \/ over' = over \cup {CounterHere(slot, lane)}
      BY <1>1
    <2>2. CounterHere(slot, lane)[2] = lane /\ lane # Opposite(Way(pkt))
      BY DEF CounterHere, Counter, Opposite, Way
    <2> QED
      BY <1>2, <2>1, <2>2, OtherChain
  <1>6. SlowedByOther(m) <=> SlowedByOther(n) \/ other
    <2>1. CASE lane = Way(pkt)
      BY <1>2, <2>1, Slowing
    <2>2. CASE lane = "combined"
      BY <2>2 DEF Way
    <2> QED
      BY <2>1, <2>2
  <1>7. SlowBy(n) => SlowBy(m)'
    <2> HIDE DEF other
    <2>1. SlowedByOther(m)' <=> SlowedByOther(n) \/ other
      BY <1>5, <1>6
    <2> QED
      BY <1>1, <1>4, <2>1 DEF SlowBy
  <1> QED
    BY <1>1, <1>3, <1>7

\* The place of a packet in the chain after a block, and low bits that are left.
LEMMA BlockMoves ==
    ASSUME TypeOK, Block(q), setup' = setup, lane \in {Way(pkt), "combined"},
           InLane(lane)
    PROVE  /\ InLane(lane)'
           /\ frame >= Whole /\ 0 \in scratch' /\ lane = Way(pkt) => Leaking
  <1>1. /\ pkt' = pkt /\ UNCHANGED builtVars /\ slot \in Slots(q)
        /\ slot' = slot + 1 /\ slot <= loaded + 1 /\ lane' = lane
    BY DEF Block
  <1>2. slot \in Int /\ loaded \in Nat /\ loaded' = loaded /\ frame' = frame
    BY <1>1, ConfigurationTypes DEF TypeOK, Sealed, builtVars
  <1>3. frame >= Whole => /\ slot <= loaded => scratch' = Own(slot + 1)
                          /\ 0 \in scratch' => LeavesLow(slot, lane)
    BY <1>1, BlockLeaves DEF InLane
  <1>4. Reaches(lane)' /\ \A n : Own(n)' = Own(n)
    <2>1. \A t : Reaches(t)' <=> Reaches(t)
      BY <1>1, SameRules
    <2>2. \A n : Own(n)' = Own(n)
      BY <1>1, SameRules
    <2>3. Reaches(lane)
      BY DEF InLane
    <2>4. Reaches(lane)' <=> Reaches(lane)
      BY <1>1, <1>2 DEF Reaches
    <2> QED
      BY <2>2, <2>3, <2>4
  <1>5. Own(slot)' = Own(slot + 1)
    <2>1. PICK n : n = slot + 1
      OBVIOUS
    <2>2. Own(slot)' = Own(n)'
      BY <1>1, <2>1
    <2> QED
      BY <1>4, <2>1, <2>2
  <1>6. InLane(lane)'
    BY <1>1, <1>2, <1>3, <1>4, <1>5 DEF InLane
  <1>7. ASSUME LeavesLow(slot, lane), lane = Way(pkt) PROVE Leaking
    <2>1. Here(slot) \in 1 .. Len(q) /\ SlotOf(Here(slot)) = slot
      BY <1>1, <1>7, HereIs, OneSlot DEF LeavesLow
    <2>2. Ready(Here(slot), lane, "some_notes") /\ ~Ready(Here(slot), lane, "clear")
      BY <1>7, <2>1 DEF Ready, LeavesLow, InLane
    <2> QED
      BY <1>7, <2>1, <2>2 DEF Leaking, LeavesLow
  <1> QED
    BY <1>3, <1>6, <1>7

\* A packet that has passed the chains, and what has counted it.
Through ==
    \/ where = "forward" /\ lane = "none"
    \/ where = "rules"
    \/ Done

CountedIn ==
    \/ /\ charged = OneWay \cup (IF Fatal(OneWay) THEN {} ELSE BothWays)
       /\ dead <=> Fatal(charged)
    \/ /\ Leaking /\ charged = OneWay \cup BothWays
       /\ dead <=> Fatal(BothWays)

Stopped ==
    /\ dead /\ rejecting = "front" => verdict = "QUOTA"
    /\ dead /\ rejecting = "behind" => verdict # "PASS"
    /\ verdict = "QUOTA" => dead /\ rejecting # "none"

Charge ==
    alive =>
        /\ where = "mangle" => ~dead /\ ~slowed /\ charged = {}
        /\ where = "between" /\ lane # "none" =>
              /\ InLane(Way(pkt)) /\ charged = Before(slot, Way(pkt))
              /\ (dead <=> Fatal(charged)) /\ SlowBy(slot)
              /\ frame >= Whole /\ 0 \in scratch => Leaking
        /\ where = "between" /\ lane = "none" =>
              /\ charged = OneWay /\ (dead <=> Fatal(charged)) /\ SlowBy(loaded + 2)
              /\ dead /\ 0 \in scratch => Leaking
        /\ where = "forward" /\ lane # "none" =>
              /\ InLane("combined") /\ charged = OneWay \cup Before(slot, "combined")
              /\ ~Fatal(OneWay) \/ Leaking
              /\ (dead <=> Fatal(Before(slot, "combined"))) /\ SlowBy(loaded + 2)
        /\ Through => CountedIn /\ SlowBy(loaded + 2)
        /\ where = "rules" => ~(dead /\ rejecting = "front")
        /\ Done => Stopped

\* Nothing is counted without rules.
LEMMA NoRulesNoCharge ==
    ASSUME TypeOK, InOrder, NEW t, ~Reaches(t) \/ frame < Whole, NEW n \in Int
    PROVE  Before(n, t) = {} /\ (t = Way(pkt) => ~SlowedByOther(n))
  <1>1. \A k \in 1 .. Len(q) : \A kind : ~Ready(k, t, kind)
    BY NoRules DEF Ready
  <1> QED
    BY <1>1, NothingBefore

\* In front of the first slot.
LEMMA AtFirst ==
    ASSUME TypeOK
    PROVE  /\ Own(1) = {} /\ \A t : Before(1, t) = {}
           /\ ~SlowedByOther(1) /\ ~Fatal({}) /\ ~Soft({})
           /\ loaded \in Nat /\ loaded + 2 \in Int /\ frame \in Int
           /\ Way(pkt) \in {"egress", "ingress"}
  <1>1. \A t : Before(1, t) = {}
    BY NothingBefore
  <1>2. ~SlowedByOther(1)
    BY NothingBefore
  <1> QED
    BY <1>1, <1>2, ConfigurationTypes
    DEF Own, Explicitly, Fatal, Soft, TypeOK, Sealed, Way

LEMMA DirectionCharges ==
    ASSUME TypeInv, InOrder, Right, Charge, EnterDirection
    PROVE  Charge'
  <1>1. /\ where = "mangle" /\ where' = "between" /\ verdict' = verdict
        /\ setup' = setup /\ alive' = alive /\ lane = "none"
    BY DEF EnterDirection, Right
  <1>2. TypeOK
    BY DEF TypeInv
  <1> SUFFICES ASSUME alive PROVE Charge'
    BY <1>1 DEF Charge
  <1>3. ~dead /\ ~slowed /\ charged = {}
    BY <1>1 DEF Charge
  <1>4. CASE Reaches(Way(pkt))
    <2>0. EnterChain(Way(pkt), scratch)
      BY <1>3, <1>4 DEF EnterDirection
    <2>1. /\ lane' = Way(pkt) /\ slot' = 1 /\ UNCHANGED <<pkt, builtVars, over>>
          /\ slowed' = slowed /\ charged' = charged
      BY <2>0 DEF EnterChain
    <2>2. ~dead'
      BY <1>3, <2>0 DEF EnterChain
    <2>3. frame >= Whole => scratch' = {}
      <3>1. frame >= Whole => Wipes(Way(pkt))
        BY <1>2, AtFirst DEF Wipes, Whole, Rank
      <3> QED
        BY <2>0, <3>1 DEF EnterChain
    <2>4. /\ Own(1)' = {} /\ ~SlowedByOther(1)' /\ ~Fatal({})' /\ ~Soft({})'
          /\ \A t : Before(1, t)' = {} /\ (Reaches(t)' <=> Reaches(t))
      BY <1>1, <1>2, <2>1, AtFirst, SameRules, SameCounts
    <2>5. /\ Own(slot)' = {} /\ ~SlowedByOther(slot)'
          /\ Before(slot, Way(pkt))' = {}
      BY <2>1, <2>4
    <2>6. Reaches(Way(pkt))'
      <3>1. PICK t : t = Way(pkt)
        OBVIOUS
      <3>2. Reaches(t)'
        BY <1>4, <2>4, <3>1
      <3> QED
        BY <2>1, <3>1, <3>2 DEF Reaches
    <2>7. InLane(Way(pkt))'
      <3>1. loaded' = loaded /\ loaded \in Nat /\ frame' = frame
        BY <1>2, <2>1, AtFirst DEF builtVars
      <3>2. Way(pkt)' = Way(pkt)
        BY <2>1
      <3> QED
        BY <2>1, <2>3, <2>5, <2>6, <3>1, <3>2 DEF InLane
    <2>8. charged' = {} /\ ~Fatal(charged)' /\ ~Soft(charged)'
      BY <1>3, <2>1, <2>4 DEF Fatal, Soft
    <2>9. SlowBy(slot)'
      BY <1>3, <2>1, <2>5, <2>8 DEF SlowBy
    <2>10. /\ charged' = Before(slot, Way(pkt))' /\ (dead <=> Fatal(charged))'
           /\ (frame >= Whole /\ 0 \in scratch => Leaking)'
      <3>1. frame' = frame
        BY <2>1 DEF builtVars
      <3> QED
        BY <2>2, <2>3, <2>5, <2>8, <3>1
    <2>11. lane' # "none"
      BY <1>2, <2>1, AtFirst
    <2> QED
      BY <1>1, <2>7, <2>9, <2>10, <2>11 DEF Charge, Through, Done
  <1>5. CASE ~Reaches(Way(pkt))
    <2>1. UNCHANGED <<pkt, scratch, quotaVars>>
      BY <1>5 DEF EnterDirection
    <2>2. /\ UNCHANGED builtVars /\ over' = over /\ dead' = dead /\ slowed' = slowed
          /\ charged' = charged /\ lane' = lane /\ loaded' = loaded
      BY <2>1 DEF quotaVars, builtVars
    <2>3. OneWay = {} /\ ~SlowedByOther(loaded + 2)
      BY <1>2, <1>5, AtFirst, NoRulesNoCharge DEF OneWay
    <2>4. OneWay' = {} /\ ~SlowedByOther(loaded + 2)'
      <3>1. OneWay' = OneWay
        BY <1>1, <2>1, <2>2, SameRules
      <3>2. \A n : SlowedByOther(n)' <=> SlowedByOther(n)
        BY <1>1, <2>1, <2>2, SameCounts
      <3> QED
        BY <2>2, <2>3, <3>1, <3>2
    <2>5. charged' = {} /\ ~dead' /\ ~slowed' /\ lane' = "none"
      BY <1>1, <1>3, <2>2
    <2>6. ~Fatal(charged)' /\ ~Soft(charged)'
      BY <2>5 DEF Fatal, Soft
    <2>7. SlowBy(loaded + 2)'
      BY <2>4, <2>5, <2>6 DEF SlowBy
    <2> QED
      BY <1>1, <2>4, <2>5, <2>6, <2>7 DEF Charge, Through, Done
  <1> QED
    BY <1>4, <1>5

LEMMA BlockCharges ==
    ASSUME TypeInv, InOrder, Right, Charge, InQuotas, Block(q)
    PROVE  Charge'
  <1>1. /\ lane # "none" /\ lane' = lane /\ slot' = slot + 1 /\ slot \in Slots(q)
        /\ pkt' = pkt /\ UNCHANGED builtVars /\ loaded' = loaded /\ frame' = frame
    BY DEF Block, builtVars
  <1>2. where' = where /\ setup' = setup /\ alive' = alive /\ verdict' = verdict
    BY DEF InQuotas, pathVars
  <1>3. where \in {"between", "forward"} /\ verdict = "none" /\ TypeOK
    BY <1>1 DEF Right, TypeInv
  <1> SUFFICES ASSUME alive PROVE Charge'
    BY <1>2 DEF Charge
  <1>4. InLane(lane) /\ lane \in {Way(pkt), "combined"}
    <2>1. where = "between" => lane = Way(pkt) /\ InLane(lane)
      BY <1>1 DEF Charge, InLane
    <2>2. where = "forward" => lane = "combined" /\ InLane(lane)
      BY <1>1 DEF Charge, InLane
    <2> QED
      BY <1>3, <2>1, <2>2
  <1>5. InLane(lane)' /\ (frame >= Whole /\ 0 \in scratch' /\ lane = Way(pkt) => Leaking)
    BY <1>2, <1>3, <1>4, BlockMoves
  <1>6. PICK new : new = IF Due(slot, lane, "limit") THEN {CounterHere(slot, lane)}
                         ELSE {}
    OBVIOUS
  <1>7. Before(slot + 1, lane) = Before(slot, lane) \cup new
    BY <1>1, <1>3, <1>6, Counting
  <1>8. /\ \A n, t : Before(n, t)' = Before(n, t)
        /\ OneWay' = OneWay /\ (Leaking' <=> Leaking)
    BY <1>1, <1>2, SameRules
  <1>9. PICK now, after, all : now = slot /\ after = slot + 1 /\ all = loaded + 2
    OBVIOUS
  <1>10. CASE where = "between"
    <2>1. /\ lane = Way(pkt) /\ charged = Before(slot, Way(pkt))
          /\ (dead <=> Fatal(charged)) /\ SlowBy(slot)
      BY <1>1, <1>10 DEF Charge, InLane
    <2>2. lane # "combined"
      BY <2>1 DEF Way
    <2>3. PICK S : S = charged
      OBVIOUS
    <2>4. /\ charged' = charged \cup new
          /\ (dead <=> Fatal(S)) => (dead' <=> Fatal(S \cup new)')
          /\ SlowBy(now) => SlowBy(after)'
      BY <1>2, <1>3, <1>4, <1>6, <1>9, <2>1, <2>2, BlockPunishes
    <2>5. dead' <=> Fatal(charged)'
      <3>1. dead <=> Fatal(S)
        BY <2>1, <2>3
      <3>2. Fatal(charged)' <=> Fatal(S \cup new)'
        BY <2>3, <2>4
      <3> QED
        BY <2>4, <3>1, <3>2
    <2>6. SlowBy(slot)'
      BY <1>1, <1>9, <2>1, <2>4
    <2>7. charged' = Before(slot, Way(pkt))'
      <3>1. Before(slot, Way(pkt))' = Before(after, Way(pkt))
        BY <1>1, <1>8, <1>9
      <3> QED
        BY <1>7, <1>9, <2>1, <2>4, <3>1
    <2>8. InLane(Way(pkt))'
      <3>1. lane' = Way(pkt)'
        BY <1>1, <2>1
      <3> QED
        BY <1>5, <3>1 DEF InLane
    <2> QED
      BY <1>1, <1>2, <1>3, <1>5, <1>8, <1>10, <2>1, <2>5, <2>6, <2>7, <2>8
      DEF Charge, Through, Done
  <1>11. CASE where = "forward"
    <2>1. /\ lane = "combined" /\ charged = OneWay \cup Before(slot, "combined")
          /\ ~Fatal(OneWay) \/ Leaking
          /\ (dead <=> Fatal(Before(slot, "combined"))) /\ SlowBy(loaded + 2)
      BY <1>1, <1>11 DEF Charge, InLane
    <2>2. lane # Way(pkt)
      BY <2>1 DEF Way
    <2>3. PICK S : S = Before(slot, "combined")
      OBVIOUS
    <2>4. /\ charged' = charged \cup new
          /\ (dead <=> Fatal(S)) => (dead' <=> Fatal(S \cup new)')
          /\ SlowBy(all) => SlowBy(all)'
      BY <1>2, <1>3, <1>4, <1>6, <2>1, <2>2, BlockPunishes
    <2>5. Before(slot, "combined")' = S \cup new
      <3>1. Before(slot, "combined")' = Before(after, "combined")
        BY <1>1, <1>8, <1>9
      <3> QED
        BY <1>7, <1>9, <2>1, <2>3, <3>1
    <2>6. dead' <=> Fatal(Before(slot, "combined"))'
      <3>1. Fatal(Before(slot, "combined"))' <=> Fatal(S \cup new)'
        BY <2>5
      <3> QED
        BY <2>1, <2>3, <2>4, <3>1
    <2>7. SlowBy(loaded + 2)'
      BY <1>1, <1>9, <2>1, <2>4
    <2>8. charged' = OneWay' \cup Before(slot, "combined")'
      BY <1>8, <2>1, <2>3, <2>4, <2>5
    <2>9. (~Fatal(OneWay) \/ Leaking)'
      <3>1. PICK way, c : way = Way(pkt) /\ c = CounterHere(slot, lane)
        OBVIOUS
      <3>2. c[2] # way /\ (over' = over \/ over' = over \cup {c})
        <4>1. over' \in {over, over \cup {c}}
          BY <3>1 DEF Block, CounterHere, Here
        <4> QED
          BY <2>1, <2>2, <3>1, <4>1 DEF CounterHere, Counter
      <3>3. Fatal(Before(all, way))' <=> Fatal(Before(all, way))
        BY <1>1, <1>2, <3>2, OtherChain
      <3>4. OneWay = Before(all, way) /\ OneWay' = Before(all, way)'
        BY <1>1, <1>9, <3>1 DEF OneWay
      <3>5. Fatal(OneWay)' <=> Fatal(OneWay)
        BY <3>3, <3>4
      <3> QED
        BY <1>8, <2>1, <3>5
    <2>10. InLane("combined")'
      BY <1>1, <1>5, <2>1 DEF InLane
    <2> QED
      BY <1>1, <1>2, <1>3, <1>11, <2>6, <2>7, <2>8, <2>9, <2>10
      DEF Charge, Through, Done
  <1> QED
    BY <1>3, <1>10, <1>11

LEMMA EndCharges ==
    ASSUME TypeInv, InOrder, Right, Charge, InQuotas, EndChain(q)
    PROVE  Charge'
  <1>1. /\ lane # "none" /\ lane' = "none"
        /\ slot \notin Slots(q) \/ slot > loaded + 1
        /\ UNCHANGED <<pkt, builtVars, over, dead, slowed, charged, slot>>
        /\ scratch' \subseteq scratch
    BY DEF EndChain, AtEnd, Tidied
  <1>2. where' = where /\ setup' = setup /\ alive' = alive /\ verdict' = verdict
    BY DEF InQuotas, pathVars
  <1>3. where \in {"between", "forward"} /\ verdict = "none" /\ TypeOK
    BY <1>1 DEF Right, TypeInv
  <1>4. loaded \in Nat /\ slot \in 1 .. Sealed(q) /\ Len(q) \in Nat /\ loaded' = loaded
    BY <1>1, <1>3, ConfigurationTypes DEF TypeOK, Sealed, builtVars
  <1> SUFFICES ASSUME alive PROVE Charge'
    BY <1>2 DEF Charge
  <1>5. slot \in 1 .. loaded + 2
    BY <1>1, <1>3 DEF Charge, InLane
  <1>6. /\ \A t : Before(slot, t) = Before(loaded + 2, t)
        /\ SlowedByOther(slot) <=> SlowedByOther(loaded + 2)
    <2>1. slot = loaded + 2 \/ (slot > 2 * Len(q) /\ loaded + 2 > 2 * Len(q))
      BY <1>1, <1>4, <1>5 DEF Slots
    <2> QED
      BY <1>3, <1>4, <2>1, LastSlot
  <1>7. /\ OneWay' = OneWay /\ BothWays' = BothWays /\ (Leaking' <=> Leaking)
        /\ \A n : SlowedByOther(n)' <=> SlowedByOther(n)
        /\ \A S : (Fatal(S)' <=> Fatal(S)) /\ (Soft(S)' <=> Soft(S))
    BY <1>1, <1>2, SameRules, SameCounts
  <1>8. PICK counted, one, both : counted = charged /\ one = OneWay /\ both = BothWays
    OBVIOUS
  <1>9. /\ Fatal(charged)' <=> Fatal(charged)
        /\ Fatal(OneWay)' <=> Fatal(OneWay)
        /\ Fatal(BothWays)' <=> Fatal(BothWays)
        /\ Soft(charged)' <=> Soft(charged)
    <2>1. /\ Fatal(charged)' <=> Fatal(counted)'
          /\ Fatal(OneWay)' <=> Fatal(one)'
          /\ Fatal(BothWays)' <=> Fatal(both)'
          /\ Soft(charged)' <=> Soft(counted)'
      BY <1>1, <1>7, <1>8
    <2> QED
      BY <1>7, <1>8, <2>1
  <1>10. SlowBy(loaded + 2) => SlowBy(loaded + 2)'
    <2>1. SlowedByOther(loaded + 2)' <=> SlowedByOther(loaded + 2)
      BY <1>4, <1>7
    <2> QED
      BY <1>1, <1>9, <2>1 DEF SlowBy
  <1>11. CASE where = "between"
    <2>1. /\ charged = Before(slot, Way(pkt)) /\ (dead <=> Fatal(charged)) /\ SlowBy(slot)
          /\ frame >= Whole /\ 0 \in scratch => Leaking
      BY <1>1, <1>11 DEF Charge
    <2>2. charged = OneWay /\ SlowBy(loaded + 2)
      BY <1>6, <2>1 DEF OneWay, SlowBy
    <2>3. dead /\ 0 \in scratch => Leaking
      <3>1. frame < Whole => ~dead
        <4>1. frame < Whole => charged = {}
          BY <1>3, <1>4, <2>2, NoRulesNoCharge DEF OneWay
        <4> QED
          BY <2>1, <4>1, AtFirst, <1>3
      <3>2. frame \in Int
        BY <1>3, AtFirst
      <3> QED
        BY <2>1, <3>1, <3>2 DEF Whole
    <2>4. (dead /\ 0 \in scratch => Leaking)'
      BY <1>1, <1>7, <2>3
    <2>5. charged' = OneWay' /\ (dead' <=> Fatal(charged)') /\ SlowBy(loaded + 2)'
      BY <1>1, <1>7, <1>9, <1>10, <2>1, <2>2
    <2> QED
      BY <1>1, <1>2, <1>3, <1>11, <2>4, <2>5 DEF Charge, Through, Done
  <1>12. CASE where = "forward"
    <2>1. /\ charged = OneWay \cup BothWays
          /\ ~Fatal(OneWay) \/ Leaking
          /\ (dead <=> Fatal(BothWays)) /\ SlowBy(loaded + 2)
      BY <1>1, <1>6, <1>12 DEF Charge, BothWays
    <2>2. CountedIn
      <3>1. CASE ~Fatal(OneWay)
        <4>1. Fatal(charged) <=> Fatal(OneWay) \/ Fatal(BothWays)
          BY <2>1 DEF Fatal
        <4> QED
          BY <2>1, <3>1, <4>1 DEF CountedIn
      <3>2. CASE Leaking
        BY <2>1, <3>2 DEF CountedIn
      <3> QED
        BY <2>1, <3>1, <3>2
    <2>3. CountedIn'
      BY <1>1, <1>7, <1>9, <2>2 DEF CountedIn
    <2> QED
      BY <1>1, <1>2, <1>3, <1>10, <1>12, <2>1, <2>3 DEF Charge, Through, Done
  <1> QED
    BY <1>3, <1>11, <1>12

LEMMA CombinedCharges ==
    ASSUME TypeInv, InOrder, Right, Charge, EnterCombined
    PROVE  Charge'
  <1>1. /\ where = "between" /\ where' = "forward" /\ verdict' = verdict
        /\ setup' = setup /\ alive' = alive /\ lane = "none" /\ verdict = "none"
        /\ TypeOK
    BY DEF EnterCombined, TypeInv
  <1>2. /\ pkt' = pkt /\ UNCHANGED builtVars /\ over' = over /\ charged' = charged
        /\ slowed' = slowed
    BY DEF EnterCombined, EnterChain, quotaVars
  <1>3. loaded \in Nat /\ frame \in Int /\ loaded' = loaded /\ frame' = frame
    BY <1>1, <1>2, AtFirst DEF builtVars
  <1> SUFFICES ASSUME alive PROVE Charge'
    BY <1>1 DEF Charge
  <1>4. /\ charged = OneWay /\ (dead <=> Fatal(charged)) /\ SlowBy(loaded + 2)
        /\ dead /\ 0 \in scratch => Leaking
    BY <1>1 DEF Charge
  <1>5. /\ OneWay' = OneWay /\ BothWays' = BothWays /\ (Leaking' <=> Leaking)
        /\ \A n, t : Before(n, t)' = Before(n, t)
        /\ \A n : Own(n)' = Own(n) /\ (SlowedByOther(n)' <=> SlowedByOther(n))
        /\ \A t : Reaches(t)' <=> Reaches(t)
        /\ \A S : (Fatal(S)' <=> Fatal(S)) /\ (Soft(S)' <=> Soft(S))
    BY <1>1, <1>2, SameRules, SameCounts
  <1>6. /\ Fatal(charged)' <=> Fatal(charged)
        /\ Fatal(OneWay)' <=> Fatal(OneWay)
        /\ Soft(charged)' <=> Soft(charged)
    <2>1. PICK counted, one : counted = charged /\ one = OneWay
      OBVIOUS
    <2>2. /\ Fatal(charged)' <=> Fatal(counted)'
          /\ Fatal(OneWay)' <=> Fatal(one)'
          /\ Soft(charged)' <=> Soft(counted)'
      BY <1>2, <1>5, <2>1
    <2> QED
      BY <1>5, <2>1, <2>2
  <1>7. SlowBy(loaded + 2)'
    <2>1. SlowedByOther(loaded + 2)' <=> SlowedByOther(loaded + 2)
      BY <1>3, <1>5
    <2> QED
      BY <1>2, <1>4, <1>6, <2>1 DEF SlowBy
  <1>8. dead => frame >= Whole
    <2>1. frame < Whole => charged = {}
      BY <1>1, <1>3, <1>4, NoRulesNoCharge DEF OneWay
    <2> QED
      BY <1>1, <1>3, <1>4, <2>1, AtFirst DEF Whole
  <1>9. CASE Reaches("combined") /\ Low \subseteq Gated
    <2>1. EnterChain("combined", Gated)
      BY <1>9 DEF EnterCombined
    <2>2. lane' = "combined" /\ slot' = 1
      BY <2>1 DEF EnterChain
    <2>3. frame >= Whole => scratch' = {}
      <3>1. frame >= Whole => Wipes("combined")
        BY <1>3 DEF Wipes, Whole, Rank
      <3> QED
        BY <2>1, <3>1 DEF EnterChain
    <2>4. ~dead'
      <3>1. dead => Revives("combined")
        BY <1>3, <1>8 DEF Revives, Whole, Rank
      <3> QED
        BY <2>1, <3>1 DEF EnterChain
    <2>5. ~Fatal(OneWay) \/ Leaking
      <3>1. dead => 0 \in scratch
        BY <1>9 DEF Gated, Low
      <3> QED
        BY <1>4, <3>1
    <2>6. /\ Before(slot, "combined")' = {} /\ Own(slot)' = {} /\ ~Fatal({})'
      <3>1. Before(1, "combined")' = {} /\ Own(1)' = {}
        BY <1>1, <1>5, AtFirst
      <3> QED
        BY <2>2, <3>1 DEF Fatal
    <2>7. InLane("combined")'
      <3>1. Reaches("combined")'
        BY <1>5, <1>9
      <3> QED
        BY <1>3, <2>2, <2>3, <2>6, <3>1 DEF InLane
    <2>8. /\ charged' = OneWay' \cup Before(slot, "combined")'
          /\ dead' <=> Fatal(Before(slot, "combined"))'
      <3>1. ~Fatal(Before(slot, "combined"))'
        BY <2>6 DEF Fatal
      <3> QED
        BY <1>2, <1>4, <1>5, <2>4, <2>6, <3>1
    <2>9. (~Fatal(OneWay) \/ Leaking)'
      BY <1>5, <1>6, <2>5
    <2> QED
      BY <1>1, <1>7, <2>2, <2>7, <2>8, <2>9 DEF Charge, Through, Done
  <1>10. CASE ~(Reaches("combined") /\ Low \subseteq Gated)
    <2>1. dead' = dead /\ lane' = "none"
      BY <1>1, <1>10 DEF EnterCombined, quotaVars
    <2>2. ~Reaches("combined") => BothWays = {}
      BY <1>1, <1>3, NoRulesNoCharge DEF BothWays
    <2>3. Reaches("combined") => dead
      <3>1. Reaches("combined") => MarksLow(Way(pkt))
        BY <1>3 DEF Reaches, MarksLow
      <3> QED
        BY <1>10, <3>1 DEF Gated
    <2>4. charged = OneWay \cup (IF Fatal(OneWay) THEN {} ELSE BothWays)
      BY <1>4, <2>2, <2>3
    <2>5. CountedIn
      BY <1>4, <2>4 DEF CountedIn
    <2>6. CountedIn'
      BY <1>2, <1>4, <1>5, <1>6, <2>1, <2>4 DEF CountedIn
    <2> QED
      BY <1>1, <1>7, <2>1, <2>6 DEF Charge, Through, Done
  <1> QED
    BY <1>9, <1>10

\* On the rest of its way a packet changes nothing of this.
LEMMA ThroughStays ==
    ASSUME TypeInv, UNCHANGED <<quotaVars, setup, pkt>>
    PROVE  /\ (CountedIn /\ SlowBy(loaded + 2))' <=> CountedIn /\ SlowBy(loaded + 2)
           /\ \A t : InLane(t) /\ scratch' = scratch => InLane(t)'
           /\ OneWay' = OneWay /\ (Leaking' <=> Leaking)
           /\ Before(slot, Way(pkt))' = Before(slot, Way(pkt))
           /\ Before(slot, "combined")' = Before(slot, "combined")
           /\ Fatal(OneWay)' <=> Fatal(OneWay)
           /\ Fatal(charged)' <=> Fatal(charged)
           /\ Fatal(Before(slot, "combined"))' <=> Fatal(Before(slot, "combined"))
           /\ SlowBy(slot)' <=> SlowBy(slot)
           /\ SlowBy(loaded + 2)' <=> SlowBy(loaded + 2)
  <1>1. /\ UNCHANGED builtVars /\ over' = over /\ dead' = dead /\ slowed' = slowed
        /\ charged' = charged /\ lane' = lane /\ slot' = slot
        /\ pkt' = pkt /\ setup' = setup
    BY DEF quotaVars
  <1>2. loaded' = loaded /\ frame' = frame
    BY <1>1 DEF builtVars
  <1>3. /\ OneWay' = OneWay /\ BothWays' = BothWays /\ (Leaking' <=> Leaking)
        /\ \A n, t : Before(n, t)' = Before(n, t)
        /\ \A n : Own(n)' = Own(n) /\ (SlowedByOther(n)' <=> SlowedByOther(n))
        /\ \A t : Reaches(t)' <=> Reaches(t)
        /\ \A S : (Fatal(S)' <=> Fatal(S)) /\ (Soft(S)' <=> Soft(S))
    BY <1>1, SameRules, SameCounts
  <1>4. PICK counted, one, both, now, all, here :
          /\ counted = charged /\ one = OneWay /\ both = BothWays
          /\ now = slot /\ all = loaded + 2 /\ here = Before(slot, "combined")
    OBVIOUS
  <1>5. /\ Before(slot, Way(pkt))' = Before(slot, Way(pkt))
        /\ Before(slot, "combined")' = Before(slot, "combined")
    BY <1>1, <1>3
  <1>6. /\ Fatal(charged)' <=> Fatal(charged)
        /\ Fatal(OneWay)' <=> Fatal(OneWay)
        /\ Fatal(BothWays)' <=> Fatal(BothWays)
        /\ Fatal(Before(slot, "combined"))' <=> Fatal(Before(slot, "combined"))
        /\ Soft(charged)' <=> Soft(charged)
    <2>1. /\ Fatal(charged)' <=> Fatal(counted)'
          /\ Fatal(OneWay)' <=> Fatal(one)'
          /\ Fatal(BothWays)' <=> Fatal(both)'
          /\ Fatal(Before(slot, "combined"))' <=> Fatal(here)'
          /\ Soft(charged)' <=> Soft(counted)'
      BY <1>1, <1>3, <1>4, <1>5
    <2> QED
      BY <1>3, <1>4, <2>1
  <1>7. /\ SlowBy(slot)' <=> SlowBy(slot)
        /\ SlowBy(loaded + 2)' <=> SlowBy(loaded + 2)
    <2>1. /\ SlowedByOther(slot)' <=> SlowedByOther(slot)
          /\ SlowedByOther(loaded + 2)' <=> SlowedByOther(loaded + 2)
      BY <1>1, <1>2, <1>3
    <2> QED
      BY <1>1, <1>6, <2>1 DEF SlowBy
  <1>8. \A t : InLane(t) /\ scratch' = scratch => InLane(t)'
    <2>1. Own(slot)' = Own(slot)
      BY <1>1, <1>3
    <2> QED
      BY <1>1, <1>2, <1>3, <2>1 DEF InLane
  <1>9. CountedIn' <=> CountedIn
    BY <1>1, <1>3, <1>6 DEF CountedIn
  <1> QED
    BY <1>3, <1>5, <1>6, <1>7, <1>8, <1>9

LEMMA StepCharges == TypeInv /\ InOrder /\ Right /\ Charge /\ [Next]_vars => Charge'
  <1> SUFFICES ASSUME TypeInv, InOrder, Right, Charge, [Next]_vars PROVE Charge'
    OBVIOUS
  <1>1. CASE UNCHANGED vars
    <2>1. UNCHANGED <<pkt, setup, alive, where, verdict, scratch, quotaVars>>
      BY <1>1 DEF vars, ruleVars, pathVars
    <2>2. /\ UNCHANGED <<dead, slowed, charged, lane, slot>>
          /\ frame' = frame /\ loaded' = loaded /\ rejecting' = rejecting
      BY <2>1 DEF quotaVars, builtVars
    <2>3. InLane("combined") => InLane("combined")'
      BY <2>1, ThroughStays
    <2>4. InLane(Way(pkt)) => InLane(Way(pkt))'
      <3>1. PICK t : t = Way(pkt)
        OBVIOUS
      <3>2. InLane(t) => InLane(t)'
        BY <2>1, ThroughStays
      <3>3. Way(pkt)' = Way(pkt)
        BY <2>1
      <3> QED
        BY <3>1, <3>2, <3>3 DEF InLane
    <2>5. (Through' <=> Through) /\ (Done' <=> Done) /\ (Stopped' <=> Stopped)
      BY <2>1, <2>2 DEF Through, Done, Stopped
    <2> QED
      BY <2>1, <2>2, <2>3, <2>4, <2>5, ThroughStays DEF Charge
  <1>2. ASSUME NEW p \in Packets, Arrive(p) PROVE Charge'
    <2>1. /\ alive' = ~dead /\ charged' = {} /\ where' = "mangle" /\ verdict' = "none"
      BY <1>2 DEF Arrive
    <2>2. alive' => ~dead' /\ ~slowed'
      BY <1>2, Zenon DEF Arrive
    <2> QED
      BY <2>1, <2>2 DEF Charge, Through, Done
  <1>3. CASE EnterDirection
    BY <1>3, DirectionCharges
  <1>4. CASE InQuotas
    BY <1>4, BlockCharges, EndCharges DEF InQuotas
  <1>5. CASE EnterCombined
    BY <1>5, CombinedCharges
  <1>6. CASE Filter
    <2>1. /\ Through /\ UNCHANGED <<quotaVars, setup, pkt, alive>> /\ verdict = "none"
      BY <1>6 DEF Filter, Through, TypeInv
    <2>2. dead' = dead /\ rejecting' = rejecting
      BY <2>1 DEF quotaVars, builtVars
    <2>3. \/ dead /\ rejecting = "front" /\ verdict' = "QUOTA" /\ where' = "idle"
          \/ ~(dead /\ rejecting = "front") /\ verdict' = "none" /\ where' = "rules"
      BY <1>6, <2>1 DEF Filter
    <2>4. alive' => (CountedIn /\ SlowBy(loaded + 2))'
      BY <2>1, ThroughStays DEF Charge
    <2> QED
      BY <2>2, <2>3, <2>4 DEF Charge, Done, Through, Stopped
  <1>7. CASE InRules
    <2>1. Through /\ UNCHANGED <<quotaVars, setup, alive>> /\ where = "rules"
      BY <1>7 DEF InRules, Through
    <2>2. dead' = dead /\ rejecting' = rejecting
      BY <2>1 DEF quotaVars, builtVars
    <2>3. /\ pkt' = pkt
          /\ verdict' = "QUOTA" => dead /\ rejecting = "behind"
          /\ verdict' = "PASS" => ~(dead /\ rejecting = "behind")
      <3>1. CASE at <= Len(rules)
        <4>1. at \in 1 .. Len(rules)
          BY <3>1, ConfigurationTypes DEF TypeInv, TypeOK
        <4>2. InSection(chain[at]) /\ chain[at].target \in {"ACCEPT", "REJECT"}
          BY <1>7, <3>1, <4>1, ConfigurationTypes DEF InRules, TypeInv
        <4>3. pkt' = pkt /\ verdict' \in {"none", "ACCEPT", "REJECT"}
          BY <2>1, <4>2, SectionTypes DEF TypeInv, TypeOK
        <4> QED
          BY <4>3
      <3>2. CASE ~(at <= Len(rules))
        BY <1>7, <3>2 DEF InRules
      <3> QED
        BY <3>1, <3>2
    <2>4. where' \in {"rules", "idle"}
      BY <1>7 DEF InRules
    <2>5. alive' => /\ (CountedIn /\ SlowBy(loaded + 2))'
                    /\ ~(dead /\ rejecting = "front")
      BY <2>1, <2>3, ThroughStays DEF Charge
    <2> QED
      BY <2>2, <2>3, <2>4, <2>5 DEF Charge, Done, Through, Stopped
  <1>8. ASSUME NEW c \in Connections, NewConnection(c) PROVE Charge'
    BY <1>8 DEF NewConnection, Charge, Through, Done
  <1>9. CASE ChangeRules
    BY <1>9 DEF ChangeRules, pathVars, Charge, Through, Done
  <1> QED
    BY <1>1, <1>2, <1>3, <1>4, <1>5, <1>6, <1>7, <1>8, <1>9 DEF Next

LEMMA ChargeHolds == Spec => [](TypeInv /\ Charge)
  <1>1. Init => Right
    BY DEF Init, Right, VerdictAsMeant, Done
  <1>2. Init => Charge
    BY DEF Init, Charge, Through, Done
  <1>3. Init => InOrder
    <2> SUFFICES ASSUME Init PROVE InOrder
      OBVIOUS
    <2>1. Len(q) \in Nat
      BY QuotaAssumption DEF Init, q
    <2> QED
      BY <2>1 DEF Init, InOrder, Sealed, Whole
  <1> QED
    BY <1>1, <1>2, <1>3, InitTypes, StepTypes, StepInOrder, StepRight, StepCharges, PTL
    DEF Spec

\* Every packet is counted by the quotas that mean its host and the time, as far as
\* their rules are there, and by no other, at every command of a restore; in the
\* moment in which a noted host is not forgotten yet (restore_quotas.c:663-670) a
\* connection that just died is counted for both directions as well.
THEOREM CountedByItsQuotas == Spec => []ChargedAsMeant
  <1>1. TypeInv /\ Charge => ChargedAsMeant
    <2> SUFFICES ASSUME TypeInv, Charge, Done, alive PROVE ChargedAsMeant
      BY DEF ChargedAsMeant
    <2>1. CountedIn
      BY DEF Charge, Through
    <2>2. Meaning(Way(pkt)) = OneWay /\ Meaning("combined") = BothWays
      BY MeaningIs DEF OneWay, BothWays, TypeInv
    <2> QED
      BY <2>1, <2>2 DEF CountedIn, ChargedAsMeant
  <1> QED
    BY <1>1, ChargeHolds, PTL

\* Death marks and slow classes are those of the exceeded quotas that counted the
\* packet, with the same moment excepted, and no packet of a connection that just
\* died gets past the REJECT rule, wherever it is.
THEOREM PunishedByItsQuotas == Spec => []Penalised
  <1>1. TypeInv /\ Charge => Penalised
    <2> SUFFICES ASSUME TypeInv, Charge, Done, alive PROVE Penalised
      BY DEF Penalised
    <2>1. CountedIn /\ SlowBy(loaded + 2) /\ Stopped
      BY DEF Charge, Through
    <2>2. Meaning("combined") = BothWays
      BY MeaningIs DEF BothWays, TypeInv
    <2>3. \A k \in 1 .. Len(q) :
              Ready(k, Way(pkt), "other_way") => SlotOf(k) < loaded + 2
      BY SlotsReady DEF TypeInv
    <2>4. SlowedByOther(loaded + 2) <=>
              \E k \in 1 .. Len(q) :
                 /\ For(k, pkt) /\ Ready(k, Way(pkt), "other_way")
                 /\ OtherWayOver(q[k], k, Way(pkt), pkt)
      BY <2>3 DEF SlowedByOther
    <2>5. \/ dead <=> Fatal(charged)
          \/ Leaking /\ (dead <=> Fatal(Meaning("combined")))
      BY <2>1, <2>2 DEF CountedIn
    <2> QED
      BY <2>1, <2>4, <2>5 DEF Penalised, Stopped, SlowBy, Soft, Slows
  <1> QED
    BY <1>1, ChargeHolds, PTL

-----------------------------------------------------------------------------
(***************************************************************************)
(* From the options to the sections, for packets to the Internet.          *)
(***************************************************************************)
Raw(raw) ==
    /\ raw.target \in {"ACCEPT", "REJECT"}
    /\ \A o \in Options : raw.yes[o] \in Seq(Piece) /\ raw.no[o] \in Seq(Piece)

LEMMA NoPieces ==
    ASSUME NEW S, NEW s \in Seq(S)
    PROVE  s = <<>> <=> DOMAIN s = {}
  <1>1. DOMAIN s = 1 .. Len(s) /\ Len(s) \in Nat
    OBVIOUS
  <1>2. DOMAIN s = {} <=> Len(s) = 0
    <2>1. Len(s) # 0 => 1 \in DOMAIN s
      BY <1>1
    <2>2. Len(s) = 0 => \A i \in DOMAIN s : FALSE
      BY <1>1
    <2> QED
      BY <2>1, <2>2
  <1>3. s = <<>> <=> Len(s) = 0
    OBVIOUS
  <1> QED
    BY <1>2, <1>3

\* What is left of the values of an option when all can be read and tested.
LEMMA AllKept ==
    ASSUME NEW raw, Raw(raw), Faithful(raw), NEW c \in Criteria
    PROVE  LET opt == Option(c, FALSE)
               pieces == IF raw.no[opt] # <<>> THEN raw.no[opt] ELSE raw.yes[opt]
           IN /\ opt \in Options /\ (opt = "url" <=> c = "url")
              /\ c \in Section(raw).neg <=> raw.no[opt] # <<>>
              /\ DOMAIN Section(raw).vals[c] = DOMAIN pieces
              /\ \A i \in DOMAIN pieces :
                    Section(raw).vals[c][i].pkts = pieces[i].out
              /\ DOMAIN pieces # {} <=> Mentioned(raw, opt)
  <1> DEFINE opt == Option(c, FALSE)
             pieces == IF raw.no[opt] # <<>> THEN raw.no[opt] ELSE raw.yes[opt]
             used == IF Negated(raw, opt) THEN raw.no[opt] ELSE raw.yes[opt]
             kept == {i \in Parsed(opt, used) : c = "dst" => Plain(used[i])}
  <1>1. opt \in Options /\ (opt = "url" <=> c = "url") /\ (c = "dst" => opt = "remote_addr")
    BY DEF Option, Options, Criteria
  <1>2. raw.yes[opt] \in Seq(Piece) /\ raw.no[opt] \in Seq(Piece)
    BY <1>1 DEF Raw
  <1>3. /\ raw.yes[opt] = <<>> <=> DOMAIN raw.yes[opt] = {}
        /\ raw.no[opt] = <<>> <=> DOMAIN raw.no[opt] = {}
    BY <1>2, NoPieces
  <1>4. /\ raw.yes[opt] = <<>> \/ raw.no[opt] = <<>>
        /\ \A i \in DOMAIN raw.yes[opt] :
              /\ Readable(opt, raw.yes[opt][i])
              /\ opt = "remote_addr" => Plain(raw.yes[opt][i])
        /\ \A i \in DOMAIN raw.no[opt] :
              /\ Readable(opt, raw.no[opt][i])
              /\ opt = "remote_addr" => Plain(raw.no[opt][i])
    BY <1>1 DEF Faithful
  <1>5. Negated(raw, opt) <=> raw.no[opt] # <<>>
    BY <1>3, <1>4 DEF Negated, Defined
  <1>6. used = pieces
    BY <1>5
  <1>7. kept = DOMAIN pieces
    BY <1>1, <1>4, <1>6 DEF Parsed
  <1>8. /\ Section(raw).vals[c] =
              [i \in kept |-> [pkts |-> used[i].out, whole |-> used[i].whole]]
        /\ c \in Section(raw).neg <=> Negated(raw, opt)
    BY DEF Section, Definition
  <1>9. DOMAIN pieces # {} <=> Mentioned(raw, opt)
    BY <1>3, <1>4 DEF Mentioned
  <1> HIDE DEF kept, used
  <1>10. \A i \in kept : Section(raw).vals[c][i].pkts = used[i].out
    BY <1>8
  <1>11. DOMAIN Section(raw).vals[c] = kept
    BY <1>8
  <1> QED
    BY <1>1, <1>5, <1>6, <1>7, <1>8, <1>9, <1>10, <1>11

\* Values are read as those of a packet to the Internet, and the exception for
\* white-listed sites is made.  For a packet from it the first makes no difference
\* to URLs and marks, nor to an end that the packet has or lacks on either side, and
\* the second none unless it is for port 80 and the section accepts URLs.
ReadAlike(raw, p) ==
    \/ p \in Outward
    \/ /\ \A o \in Options : \A pieces \in {raw.yes[o], raw.no[o]} :
             \A i \in DOMAIN pieces : p \in pieces[i].out <=> p \in pieces[i].in
       /\ ~(/\ raw.target = "ACCEPT" /\ Mentioned(raw, "url")
            /\ p \in Web \ Requests)

\* What a section without unreadable values says of such a packet is what its
\* options say.
LEMMA SaysWhatIsWritten ==
    ASSUME NEW raw, Raw(raw), Faithful(raw), NEW p \in Packets, ReadAlike(raw, p)
    PROVE  MeantOrException(Section(raw), p) <=> WrittenOrException(raw, p)
  <1> DEFINE s == Section(raw)
             Says(o) == /\ raw.yes[o] # <<>> => SaysOf(raw.yes[o], p)
                        /\ raw.no[o] # <<>> =>
                              ~SaysOf(raw.no[o], p) /\ (o = "url" => p \in Requests)
  <1>1. ASSUME NEW c \in Criteria, NEW o, o = Option(c, FALSE)
        PROVE  /\ o \in Options
               /\ Given(s, c) <=> Mentioned(raw, o)
               /\ (Given(s, c) => Meets(s, c, p)) <=> Says(o)
    <2> DEFINE pieces == IF raw.no[o] # <<>> THEN raw.no[o] ELSE raw.yes[o]
    <2>1. /\ o \in Options /\ (o = "url" <=> c = "url")
          /\ c \in s.neg <=> raw.no[o] # <<>>
          /\ DOMAIN s.vals[c] = DOMAIN pieces
          /\ \A i \in DOMAIN pieces : s.vals[c][i].pkts = pieces[i].out
          /\ DOMAIN pieces # {} <=> Mentioned(raw, o)
      BY <1>1, AllKept
    <2>2. raw.yes[o] = <<>> \/ raw.no[o] = <<>>
      BY <2>1 DEF Faithful
    <2> HIDE DEF s
    <2>3. SaysOf(pieces, p) <=> \E i \in DOMAIN s.vals[c] : p \in s.vals[c][i].pkts
      <3>1. \A i \in DOMAIN pieces :
              p \in pieces[i].out <=>
                  p \in IF p \in Outward THEN pieces[i].out ELSE pieces[i].in
        BY <2>1 DEF ReadAlike
      <3> QED
        BY <2>1, <3>1 DEF SaysOf
    <2>4. Given(s, c) <=> Mentioned(raw, o)
      BY <2>1 DEF Given
    <2> HIDE DEF pieces
    <2>5. Meets(s, c, p) <=> IF raw.no[o] # <<>>
                             THEN ~SaysOf(pieces, p) /\ (o = "url" => p \in Requests)
                             ELSE SaysOf(pieces, p)
      BY <2>1, <2>3 DEF Meets
    <2> QED
      BY <2>1, <2>2, <2>4, <2>5 DEF pieces, Mentioned
  <1>2. \A o \in Options : \E c \in Criteria : o = Option(c, FALSE)
    <2>1. /\ Option("url", FALSE) = "url" /\ Option("mark", FALSE) = "mark"
          /\ Option("connmark", FALSE) = "connmark"
          /\ Option("src", FALSE) = "local_addr" /\ Option("dst", FALSE) = "remote_addr"
          /\ Option("sport", FALSE) = "local_port"
          /\ Option("dport", FALSE) = "remote_port"
      BY DEF Option
    <2> QED
      BY <2>1 DEF Options, Criteria
  <1>3. (\A c \in Criteria : Given(s, c) => Meets(s, c, p)) <=> \A o \in Options : Says(o)
    <2> HIDE DEF Says, s
    <2> QED
      BY <1>1, <1>2
  <1>4. /\ Given(s, "url") <=> Mentioned(raw, "url")
        /\ Given(s, "sport") <=> Mentioned(raw, "local_port")
        /\ Given(s, "dport") <=> Mentioned(raw, "remote_port")
    <2> HIDE DEF Says, s
    <2>1. /\ Option("url", FALSE) = "url" /\ Option("sport", FALSE) = "local_port"
          /\ Option("dport", FALSE) = "remote_port"
      BY DEF Option
    <2>2. "url" \in Criteria /\ "sport" \in Criteria /\ "dport" \in Criteria
      BY DEF Criteria
    <2> QED
      BY <1>1, <2>1, <2>2
  <1>5. s.proto = raw.proto /\ s.target = raw.target /\ s.extra = ExtraTests(raw)
    BY DEF Section, Definition
  <1>6. (\A e \in s.extra : p \in e) <=> \A o \in DOMAIN raw.extra : p \in raw.extra[o]
    BY <1>5 DEF ExtraTests, Tested, Faithful
  <1> HIDE DEF s
  <1>7. p \in Ruled(s, Ports(s)) <=>
          CASE raw.proto = "tcp" \/ Mentioned(raw, "url") -> p \in Tcp
            [] raw.proto = "udp" /\ ~Mentioned(raw, "url") -> p \in Udp
            [] OTHER -> Mentioned(raw, "local_port") \/ Mentioned(raw, "remote_port")
                          => p \in Tcp \cup Udp
    BY <1>4, <1>5 DEF Ruled, Proto, Ports
  <1>8. Meant(s, p) <=> Written(raw, p)
    BY <1>3, <1>6, <1>7 DEF Meant, Written
  <1>9. p \in Outward \/ ~(/\ raw.target = "ACCEPT" /\ Mentioned(raw, "url")
                          /\ p \in Web \ Requests)
    BY DEF ReadAlike
  <1>10. MeantOrException(s, p) <=> WrittenOrException(raw, p)
    BY <1>4, <1>5, <1>8, <1>9 DEF MeantOrException, WrittenOrException, HasException
  <1> QED
    BY <1>10 DEF s

LEMMA Least ==
    ASSUME NEW S, S \subseteq Nat, S # {}
    PROVE  \E i \in S : \A j \in S : i <= j
  <1>1. PICK i \in S : \A j \in S : <<j, i>> \notin OpToRel(<, Nat)
    BY WFMin, NatLessThanWellFounded
  <1>2. \A j \in S : ~(j < i)
    BY <1>1 DEF OpToRel
  <1> QED
    BY <1>2

\* A packet that finds the byte clear gets the verdict of the first section whose
\* options mean it, whatever sound and faithful sections there are: values that can
\* be read and tested, no option with its negation, packet sizes with both bounds,
\* times in one form.  That compute_rules never hears of -i has two effects and no
\* other: the ends of a connection are confused for packets from the Internet, and
\* the exception for white-listed sites is made for them too.
THEOREM VerdictAsWritten ==
    Spec => []((\A i \in 1 .. Len(rules) : ReadAlike(rules[i], pkt)) => AsWritten)
  <1> DEFINE Alike == \A i \in 1 .. Len(rules) : ReadAlike(rules[i], pkt)
  <1>1. TypeInv /\ VerdictAsMeant => (Alike => AsWritten)
    <2> SUFFICES ASSUME TypeInv, VerdictAsMeant, Alike,
                        Done, verdict # "QUOTA", clean, AllSound,
                        \A i \in 1 .. Len(rules) : Faithful(rules[i])
                 PROVE  verdict = FirstOf(rules,
                            {i \in 1 .. Len(rules) : WrittenOrException(rules[i], pkt)})
      BY DEF AsWritten
    <2> DEFINE written == {i \in 1 .. Len(rules) : WrittenOrException(rules[i], pkt)}
    <2>1. pkt \in Packets
      BY DEF TypeInv, TypeOK
    <2>2. \A i \in 1 .. Len(rules) : Raw(rules[i])
      <3>1. setup \in Setups /\ Way(pkt) \in {"egress", "ingress"}
        BY DEF TypeInv, TypeOK, Way
      <3> QED
        BY <3>1, SetupAssumption DEF Raw, rules
    <2>3. \A i \in 1 .. Len(rules) : chain[i] = Section(rules[i])
      BY ConfigurationTypes DEF TypeInv
    <2>4. \A i \in 1 .. Len(rules) :
              MeantOrException(chain[i], pkt) <=> WrittenOrException(rules[i], pkt)
      BY <2>1, <2>2, <2>3, SaysWhatIsWritten
    <2>5. Hits = written
      BY <2>4 DEF Hits
    <2>6. verdict = FirstOf(chain, written)
      BY <2>5 DEF VerdictAsMeant, Hits
    <2>7. \A i \in written : chain[i].target = rules[i].target
      <3>1. \A raw : Section(raw).target = raw.target
        BY DEF Section, Definition
      <3> QED
        BY <2>3, <3>1
    <2>8. FirstOf(chain, written) = FirstOf(rules, written)
      <3>1. CASE written = {}
        BY <3>1 DEF FirstOf
      <3>2. CASE written # {}
        <4> DEFINE first == CHOOSE i \in written : \A j \in written : i <= j
        <4>1. \E i \in written : \A j \in written : i <= j
          <5>1. written \subseteq Nat
            OBVIOUS
          <5> HIDE DEF written
          <5> QED
            BY <3>2, <5>1, Least
        <4>2. first \in written
          BY <4>1, Zenon
        <4>3. /\ FirstOf(chain, written) = chain[first].target
              /\ FirstOf(rules, written) = rules[first].target
          BY <3>2 DEF FirstOf
        <4> HIDE DEF first, written
        <4> QED
          BY <2>7, <4>2, <4>3
      <3> QED
        BY <3>1, <3>2
    <2> QED
      BY <2>6, <2>8
  <1> QED
    BY <1>1, VerdictRight, InitTypes, StepTypes, PTL DEF Spec

\* EgressAsWritten: packets to the Internet that find the byte clear get the verdict
\* of the first section whose options mean them, when the sections are sound and
\* faithful: the direction that compute_rules assumes is theirs.
THEOREM EgressRight == Spec => []EgressAsWritten
  <1> DEFINE Alike == \A i \in 1 .. Len(rules) : ReadAlike(rules[i], pkt)
  <1>1. (Alike => AsWritten) => EgressAsWritten
    BY DEF EgressAsWritten, ReadAlike, Way
  <1> QED
    BY <1>1, VerdictAsWritten, PTL
=============================================================================
