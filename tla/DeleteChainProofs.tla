------------------------- MODULE DeleteChainProofs -------------------------
(***************************************************************************)
(* Theorems about DeleteChain, for every table and any number of changes.  *)
(***************************************************************************)
EXTENDS DeleteChain, SequenceTheorems, WellFoundedInduction, TLAPS

(***************************************************************************)
(* Sequences.                                                              *)
(***************************************************************************)
LEMMA WithoutType ==
    ASSUME NEW S, NEW s \in Seq(S), NEW n \in 1 .. Len(s)
    PROVE  /\ Without(s, n) \in Seq(S)
           /\ Len(Without(s, n)) = Len(s) - 1
           /\ \A i \in 1 .. Len(s) - 1 :
                  Without(s, n)[i] = IF i < n THEN s[i] ELSE s[i + 1]
<1>1. Len(s) \in Nat /\ Len(s) - 1 \in Nat
  OBVIOUS
<1>2. \A i \in 1 .. Len(s) - 1 : s[i] \in S /\ s[i + 1] \in S
  OBVIOUS
<1>. QED
  BY <1>1, <1>2 DEF Without

LEMMA BelowKept ==
    ASSUME NEW S, NEW s \in Seq(S), NEW n \in 1 .. Len(s), NEW i \in 1 .. n - 1
    PROVE  i <= Len(Without(s, n)) /\ Without(s, n)[i] = s[i]
<1>1. Len(s) \in Nat /\ i \in 1 .. Len(s) - 1 /\ i < n
  OBVIOUS
<1>. QED
  BY <1>1, WithoutType

LEMMA AboveShifted ==
    ASSUME NEW S, NEW s \in Seq(S), NEW n \in 1 .. Len(s),
           NEW i \in n .. Len(Without(s, n))
    PROVE  i + 1 \in 2 .. Len(s) /\ Without(s, n)[i] = s[i + 1]
<1>1. Len(s) \in Nat /\ Len(Without(s, n)) = Len(s) - 1
  BY WithoutType
<1>2. i \in 1 .. Len(s) - 1 /\ ~(i < n) /\ i + 1 \in 2 .. Len(s)
  BY <1>1
<1>3. Without(s, n)[i] = IF i < n THEN s[i] ELSE s[i + 1]
  BY <1>2, WithoutType
<1>. QED
  BY <1>2, <1>3

LEMMA PushFirst ==
    ASSUME NEW S, NEW s \in Seq(S), NEW r \in S
    PROVE  /\ <<r>> \o s \in Seq(S)
           /\ Len(<<r>> \o s) = Len(s) + 1
           /\ (<<r>> \o s)[1] = r
           /\ \A i \in 2 .. Len(s) + 1 : (<<r>> \o s)[i] = s[i - 1]
  OBVIOUS

LEMMA PushLast ==
    ASSUME NEW S, NEW s \in Seq(S), NEW r \in S
    PROVE  /\ Append(s, r) \in Seq(S)
           /\ Len(Append(s, r)) = Len(s) + 1
           /\ Append(s, r)[Len(s) + 1] = r
           /\ \A i \in 1 .. Len(s) : Append(s, r)[i] = s[i]
  OBVIOUS

-----------------------------------------------------------------------------
THEOREM TypeCorrect == Spec => []TypeOK
<1> USE DEF TypeOK
<1>1. Init => TypeOK
  BY TableAssumption, ListingAssumption DEF Init
<1>2. TypeOK /\ [Next]_vars => TypeOK'
  <2> SUFFICES ASSUME TypeOK, [Next]_vars PROVE TypeOK'
    OBVIOUS
  <2>1. CASE List
    BY <2>1 DEF List, Jumps, JumpsFrom
  <2>2. ASSUME NEW l \in todo, DeleteLine(l)
        PROVE  TypeOK'
    <3>1. CASE l[2] <= Len(table[l[1]])
      <4>1. l[1] \in Chains /\ l[2] \in 1 .. Len(table[l[1]])
        BY <3>1
      <4>2. Without(table[l[1]], l[2]) \in Seq(Rule)
        BY <4>1, WithoutType
      <4>. QED
        BY <2>2, <3>1, <4>1, <4>2 DEF DeleteLine
    <3>. QED
      BY <2>2, <3>1 DEF DeleteLine
  <2>3. CASE Flush
    BY <2>3, TableAssumption DEF Flush
  <2>4. CASE RemoveChain
    BY <2>4 DEF RemoveChain
  <2>5. ASSUME NEW c \in Chains, NEW t \in Targets, AppendRule(c, t)
        PROVE  TypeOK'
    <3>1. New(t) \in Rule
      BY DEF New, Rule
    <3>. QED
      BY <2>5, <3>1, PushLast, TableAssumption DEF AppendRule, Changes
  <2>6. ASSUME NEW c \in Chains, NEW t \in Targets, InsertFirst(c, t)
        PROVE  TypeOK'
    <3>1. New(t) \in Rule
      BY DEF New, Rule
    <3>. QED
      BY <2>6, <3>1, PushFirst, TableAssumption DEF InsertFirst, Changes, Disturb
  <2>7. ASSUME NEW c \in Chains, NEW n \in 1 .. Len(table[c]), DeleteRule(c, n)
        PROVE  TypeOK'
    <3>1. Without(table[c], n) \in Seq(Rule)
      BY WithoutType
    <3>. QED
      BY <2>7, <3>1, TableAssumption DEF DeleteRule, Changes, Disturb
  <2>8. CASE UNCHANGED vars
    BY <2>8 DEF vars
  <2>. QED
    BY <2>1, <2>2, <2>3, <2>4, <2>5, <2>6, <2>7, <2>8 DEF Next, Others
<1>. QED
  BY <1>1, <1>2, PTL DEF Spec

-----------------------------------------------------------------------------
(***************************************************************************)
(* The line numbers that remain.  The chain of the line deleted keeps the  *)
(* lines before it, and those after it are not to be deleted: they were    *)
(* listed later and are done.                                              *)
(***************************************************************************)
ListInv ==
    /\ LinesAgree
    /\ pc \in {"list", "remove", "done"} => todo = {}
    /\ pc = "list" => disturbed = {}

LEMMA DeletedLine ==
    ASSUME TypeOK, NEW l \in todo, DeleteLine(l), l[1] \notin disturbed,
           LinesAgree
    PROVE  /\ l[1] \in Chains /\ l[2] \in 1 .. Len(table[l[1]])
           /\ Own(l[1], l[2])
           /\ table' = [table EXCEPT ![l[1]] = Without(@, l[2])]
           /\ \A m \in todo' : m[1] = l[1] => m[2] < l[2]
<1>1. l[1] \in Chains /\ l[2] \in 1 .. Len(table[l[1]]) /\ Own(l[1], l[2])
  BY DEF TypeOK, LinesAgree
<1>2. table' = [table EXCEPT ![l[1]] = Without(@, l[2])]
  BY <1>1 DEF DeleteLine
<1>3. ASSUME NEW m \in todo', m[1] = l[1]
      PROVE  m[2] < l[2]
  <2>1. m \in todo /\ m # l
    BY <1>3 DEF DeleteLine
  <2>2. m = <<m[1], m[2]>> /\ l = <<l[1], l[2]>> /\ m[2] \in Nat /\ l[2] \in Nat
    BY <2>1 DEF TypeOK
  <2>3. m[2] # l[2]
    BY <2>1, <2>2, <1>3
  <2>4. m[2] <= l[2]
    BY <2>1, <1>1, <1>3, TableAssumption DEF DeleteLine, NotAfter
  <2>. QED
    BY <2>2, <2>3, <2>4
<1>. QED
  BY <1>1, <1>2, <1>3

LEMMA ListStep == TypeOK /\ ListInv /\ [Next]_vars => ListInv'
<1> SUFFICES ASSUME TypeOK, ListInv, [Next]_vars
             PROVE  ListInv'
  OBVIOUS
<1>1. CASE List
  <2>1. \A l \in todo' : /\ l[1] \in Chains
                         /\ l[2] \in 1 .. Len(table[l[1]]) /\ Own(l[1], l[2])
    BY <1>1 DEF List, Jumps, JumpsFrom
  <2>. QED
    BY <1>1, <2>1 DEF List, ListInv, LinesAgree, Own
<1>2. ASSUME NEW l \in todo, DeleteLine(l)
      PROVE  ListInv'
  <2>1. ASSUME NEW m \in todo', m[1] \notin disturbed'
        PROVE  m[2] <= Len(table'[m[1]]) /\ table'[m[1]][m[2]].to = doomed
    <3>1. m \in todo /\ m[1] \notin disturbed /\ m[1] \in Chains /\ m[2] \in Nat \ {0}
      BY <1>2, <2>1 DEF DeleteLine, TypeOK
    <3>2. m[2] <= Len(table[m[1]]) /\ table[m[1]][m[2]].to = doomed
      BY <3>1 DEF ListInv, LinesAgree, Own
    <3>3. CASE m[1] = l[1]
      <4> DEFINE s == table[l[1]]
      <4>1. /\ l[1] \in Chains /\ l[2] \in 1 .. Len(s) /\ m[2] < l[2]
            /\ table' = [table EXCEPT ![l[1]] = Without(@, l[2])]
        BY <1>2, <2>1, <3>1, <3>3, DeletedLine DEF ListInv
      <4>2. table'[m[1]] = Without(s, l[2]) /\ s \in Seq(Rule)
        BY <4>1, <3>3 DEF TypeOK
      <4>3. m[2] \in 1 .. l[2] - 1
        BY <4>1, <3>1
      <4>. QED
        BY <4>1, <4>2, <4>3, <3>2, <3>3, BelowKept
    <3>4. CASE m[1] # l[1]
      <4>1. table'[m[1]] = table[m[1]]
        BY <1>2, <3>1, <3>4 DEF DeleteLine, TypeOK
      <4>. QED
        BY <4>1, <3>2
    <3>. QED
      BY <3>3, <3>4
  <2>2. todo' \subseteq todo /\ pc' = pc /\ disturbed' = disturbed
    BY <1>2 DEF DeleteLine
  <2>. QED
    BY <1>2, <2>1, <2>2 DEF ListInv, LinesAgree, Own, DeleteLine
<1>3. CASE Flush
  BY <1>3 DEF Flush, ListInv, LinesAgree
<1>4. CASE RemoveChain
  BY <1>4 DEF RemoveChain, ListInv, LinesAgree
<1>5. ASSUME NEW c \in Chains, NEW t \in Targets, AppendRule(c, t)
      PROVE  ListInv'
  <2>1. New(t) \in Rule
    BY DEF New, Rule
  <2>2. ASSUME NEW m \in todo, m[1] \notin disturbed
        PROVE  m[2] <= Len(table'[m[1]]) /\ table'[m[1]][m[2]].to = doomed
    <3>1. /\ m[1] \in Chains /\ m[2] \in Nat \ {0} /\ m[2] <= Len(table[m[1]])
          /\ table[m[1]][m[2]].to = doomed /\ table[m[1]] \in Seq(Rule)
      BY <2>2 DEF TypeOK, ListInv, LinesAgree, Own
    <3> DEFINE s == table[m[1]]
    <3>2. CASE table'[m[1]] = s
      BY <3>1, <3>2
    <3>3. CASE table'[m[1]] = Append(s, New(t))
      <4>1. /\ Len(Append(s, New(t))) = Len(s) + 1
            /\ \A i \in 1 .. Len(s) : Append(s, New(t))[i] = s[i]
        BY <2>1, <3>1, PushLast
      <4>2. Len(s) \in Nat /\ m[2] \in 1 .. Len(s) /\ s[m[2]].to = doomed
        BY <3>1
      <4>3. m[2] <= Len(Append(s, New(t))) /\ Append(s, New(t))[m[2]] = s[m[2]]
        BY <4>1, <4>2
      <4>. QED
        BY <3>3, <4>2, <4>3
    <3>4. table'[m[1]] = s \/ table'[m[1]] = Append(s, New(t))
      BY <1>5, <3>1 DEF AppendRule, TypeOK
    <3>. QED
      BY <3>2, <3>3, <3>4
  <2>. QED
    BY <1>5, <2>2 DEF AppendRule, ListInv, LinesAgree, Own
<1>6. ASSUME NEW c \in Chains, NEW t \in Targets, InsertFirst(c, t)
      PROVE  ListInv'
  <2>1. ASSUME NEW m \in todo, m[1] \notin disturbed'
        PROVE  m[1] # c /\ m[1] \notin disturbed
    BY <1>6, <2>1 DEF InsertFirst, Disturb, Moves, TypeOK
  <2>2. \A d \in Chains \ {c} : table'[d] = table[d]
    BY <1>6 DEF InsertFirst, TypeOK
  <2>3. pc = "list" => disturbed' = {}
    BY <1>6 DEF InsertFirst, Disturb, Moves, ListInv
  <2>. QED
    BY <1>6, <2>1, <2>2, <2>3 DEF InsertFirst, ListInv, LinesAgree, Own, TypeOK
<1>7. ASSUME NEW c \in Chains, NEW n \in 1 .. Len(table[c]), DeleteRule(c, n)
      PROVE  ListInv'
  <2>1. ASSUME NEW m \in todo, m[1] \notin disturbed'
        PROVE  m[2] <= Len(table'[m[1]]) /\ table'[m[1]][m[2]].to = doomed
    <3>1. m[1] \notin disturbed /\ ~(m[1] = c /\ m[2] >= n)
      BY <1>7, <2>1 DEF DeleteRule, Disturb, Moves
    <3>2. /\ m[1] \in Chains /\ m[2] \in Nat \ {0} /\ m[2] <= Len(table[m[1]])
          /\ table[m[1]][m[2]].to = doomed
      BY <2>1, <3>1 DEF TypeOK, ListInv, LinesAgree, Own
    <3>3. CASE m[1] = c
      <4>1. table'[c] = Without(table[c], n) /\ table[c] \in Seq(Rule)
        BY <1>7 DEF DeleteRule, TypeOK
      <4>2. m[2] \in 1 .. n - 1
        BY <3>1, <3>2, <3>3, <4>1
      <4>. QED
        BY <4>1, <4>2, <3>2, <3>3, BelowKept
    <3>4. CASE m[1] # c
      <4>1. table'[m[1]] = table[m[1]]
        BY <1>7, <3>2, <3>4 DEF DeleteRule, TypeOK
      <4>. QED
        BY <4>1, <3>2
    <3>. QED
      BY <3>3, <3>4
  <2>2. pc = "list" => disturbed' = {}
    BY <1>7 DEF DeleteRule, Disturb, Moves, ListInv
  <2>. QED
    BY <1>7, <2>1, <2>2 DEF DeleteRule, ListInv, LinesAgree, Own
<1>8. CASE UNCHANGED vars
  BY <1>8 DEF vars, ListInv, LinesAgree, Own
<1>. QED
  BY <1>1, <1>2, <1>3, <1>4, <1>5, <1>6, <1>7, <1>8 DEF Next, Others

THEOREM LinesStayRight == Spec => []ListInv
<1>1. Init => ListInv
  BY DEF Init, ListInv, LinesAgree
<1>. QED
  BY <1>1, ListStep, TypeCorrect, PTL DEF Spec

\* Nobody else's rule is deleted, unless somebody else moved a line of the chain.
THEOREM DeletesOnlyOwn == Spec => DeletesOwn
<1>1. TypeOK /\ ListInv /\ [Next]_vars =>
      [\A l \in todo : DeleteLine(l) /\ l[1] \notin disturbed =>
           /\ l[2] <= Len(table[l[1]]) /\ Own(l[1], l[2])
           /\ table' = [table EXCEPT ![l[1]] = Without(@, l[2])]]_vars
  BY DeletedLine DEF ListInv, LinesAgree
<1>. QED
  BY <1>1, TypeCorrect, LinesStayRight, PTL DEF Spec, DeletesOwn

-----------------------------------------------------------------------------
(***************************************************************************)
(* Nothing is forgotten: a jump that is not in the list of lines to delete *)
(* came after the listing.                                                 *)
(***************************************************************************)
GoneInv ==
    pc # "list" => \A c \in Chains \ disturbed : \A n \in 1 .. Len(table[c]) :
        Own(c, n) => table[c][n].late \/ <<c, n>> \in todo

LEMMA GoneStep ==
    TypeOK /\ TypeOK' /\ ListInv /\ GoneInv /\ [Next]_vars => GoneInv'
<1> SUFFICES ASSUME TypeOK, TypeOK', ListInv, GoneInv, [Next]_vars,
                    pc' # "list",
                    NEW d \in Chains \ disturbed', NEW i \in 1 .. Len(table'[d]),
                    table'[d][i].to = doomed
             PROVE  table'[d][i].late \/ <<d, i>> \in todo'
  BY DEF GoneInv, Own
<1>1. CASE List
  BY <1>1 DEF List, Jumps, JumpsFrom, Own
<1>2. ASSUME NEW l \in todo, DeleteLine(l)
      PROVE  table'[d][i].late \/ <<d, i>> \in todo'
  <2>1. pc = "delete" /\ disturbed' = disturbed /\ todo' = todo \ {l}
    BY <1>2 DEF DeleteLine
  <2>2. CASE d = l[1]
    <3> DEFINE s == table[d]
    <3>1. /\ l[2] \in 1 .. Len(s) /\ table' = [table EXCEPT ![d] = Without(@, l[2])]
          /\ d \in Chains
      BY <1>2, <2>1, <2>2, DeletedLine DEF ListInv
    <3>2. table'[d] = Without(s, l[2]) /\ s \in Seq(Rule)
      BY <3>1 DEF TypeOK
    <3>3. CASE i < l[2]
      <4>1. table'[d][i] = s[i] /\ i \in 1 .. Len(s)
        BY <3>1, <3>2, <3>3, BelowKept
      <4>2. s[i].late \/ <<d, i>> \in todo
        BY <4>1, <2>1 DEF GoneInv, Own
      <4>3. <<d, i>> # l
        BY <3>1, <3>3
      <4>. QED
        BY <4>1, <4>2, <4>3, <2>1
    <3>4. CASE ~(i < l[2])
      <4>1. i \in l[2] .. Len(Without(s, l[2]))
        BY <3>1, <3>2, <3>4
      <4>2. table'[d][i] = s[i + 1] /\ i + 1 \in 1 .. Len(s)
        BY <3>1, <3>2, <4>1, AboveShifted
      <4>3. s[i + 1].late \/ <<d, i + 1>> \in todo
        BY <4>2, <2>1 DEF GoneInv, Own
      <4>4. <<d, i + 1>> \notin todo
        <5>1. SUFFICES ASSUME <<d, i + 1>> \in todo PROVE FALSE
          OBVIOUS
        <5>2. i + 1 <= l[2]
          BY <1>2, <2>2, <5>1, TableAssumption, <3>1 DEF DeleteLine, NotAfter
        <5>. QED
          BY <5>2, <3>1, <3>4
      <4>. QED
        BY <4>2, <4>3, <4>4
    <3>. QED
      BY <3>3, <3>4
  <2>3. CASE d # l[1]
    <3>1. table'[d] = table[d]
      BY <1>2, <2>3 DEF DeleteLine, TypeOK
    <3>2. <<d, i>> # l
      BY <2>3
    <3>. QED
      BY <2>1, <3>1, <3>2 DEF GoneInv, Own
  <2>. QED
    BY <2>2, <2>3
<1>3. CASE Flush
  <2>1. table'[d] \in {table[d], <<>>}
    BY <1>3 DEF Flush, TypeOK
  <2>2. table'[d] = table[d]
    BY <2>1
  <2>. QED
    BY <1>3, <2>2 DEF Flush, GoneInv, Own
<1>4. CASE RemoveChain
  BY <1>4 DEF RemoveChain, GoneInv, Own
<1>5. ASSUME NEW c \in Chains, NEW t \in Targets, AppendRule(c, t)
      PROVE  table'[d][i].late \/ <<d, i>> \in todo'
  <2>1. New(t) \in Rule /\ table[d] \in Seq(Rule)
    BY DEF New, Rule, TypeOK
  <2>2. pc # "list" /\ todo' = todo /\ disturbed' = disturbed /\ New(t).late
    BY <1>5 DEF AppendRule, New
  <2>3. CASE d = c
    <3>1. table'[d] = Append(table[d], New(t))
      BY <1>5, <2>3 DEF AppendRule, TypeOK
    <3>2. Len(table[d]) \in Nat /\ i \in 1 .. Len(table[d]) + 1
      BY <2>1, <3>1, PushLast
    <3>3. CASE i = Len(table[d]) + 1
      BY <2>1, <2>2, <3>1, <3>3, PushLast
    <3>4. CASE i \in 1 .. Len(table[d])
      BY <2>1, <2>2, <3>1, <3>4, PushLast DEF GoneInv, Own
    <3>. QED
      BY <3>2, <3>3, <3>4
  <2>4. CASE d # c
    <3>1. table'[d] = table[d]
      BY <1>5, <2>4 DEF AppendRule, TypeOK
    <3>. QED
      BY <3>1, <2>2 DEF GoneInv, Own
  <2>. QED
    BY <2>3, <2>4
<1>6. ASSUME NEW c \in Chains, NEW t \in Targets, InsertFirst(c, t)
      PROVE  table'[d][i].late \/ <<d, i>> \in todo'
  <2>1. New(t) \in Rule /\ table[d] \in Seq(Rule)
    BY DEF New, Rule, TypeOK
  <2>2. /\ pc # "list" /\ todo' = todo /\ d \notin disturbed /\ New(t).late
        /\ d = c => \A l \in todo : l[1] # c \/ ~(l[2] >= 1)
    BY <1>6 DEF InsertFirst, New, Disturb, Moves
  <2>3. CASE d = c
    <3>1. table'[d] = <<New(t)>> \o table[d]
      BY <1>6, <2>3 DEF InsertFirst, TypeOK
    <3>2. Len(table[d]) \in Nat /\ i \in 1 .. Len(table[d]) + 1
      BY <2>1, <3>1, PushFirst
    <3>3. CASE i = 1
      BY <2>1, <2>2, <3>1, <3>3, PushFirst
    <3>4. CASE i \in 2 .. Len(table[d]) + 1
      <4>1. table'[d][i] = table[d][i - 1] /\ i - 1 \in 1 .. Len(table[d])
        BY <2>1, <3>1, <3>2, <3>4, PushFirst
      <4>2. <<d, i - 1>> \notin todo
        BY <2>2, <2>3, <4>1
      <4>. QED
        BY <4>1, <4>2, <2>2 DEF GoneInv, Own
    <3>. QED
      BY <3>2, <3>3, <3>4
  <2>4. CASE d # c
    <3>1. table'[d] = table[d]
      BY <1>6, <2>4 DEF InsertFirst, TypeOK
    <3>. QED
      BY <3>1, <2>2 DEF GoneInv, Own
  <2>. QED
    BY <2>3, <2>4
<1>7. ASSUME NEW c \in Chains, NEW n \in 1 .. Len(table[c]), DeleteRule(c, n)
      PROVE  table'[d][i].late \/ <<d, i>> \in todo'
  <2>1. /\ pc # "list" /\ todo' = todo /\ d \notin disturbed
        /\ d = c => \A l \in todo : l[1] # c \/ ~(l[2] >= n)
    BY <1>7 DEF DeleteRule, Disturb, Moves
  <2>2. CASE d = c
    <3> DEFINE s == table[d]
    <3>1. table'[d] = Without(s, n) /\ s \in Seq(Rule) /\ n \in 1 .. Len(s)
      BY <1>7, <2>2 DEF DeleteRule, TypeOK
    <3>2. CASE i < n
      <4>1. table'[d][i] = s[i] /\ i \in 1 .. Len(s)
        BY <3>1, <3>2, BelowKept
      <4>. QED
        BY <4>1, <2>1 DEF GoneInv, Own
    <3>3. CASE ~(i < n)
      <4>1. i \in n .. Len(Without(s, n))
        BY <3>1, <3>3
      <4>2. table'[d][i] = s[i + 1] /\ i + 1 \in 1 .. Len(s)
        BY <3>1, <4>1, AboveShifted
      <4>3. s[i + 1].late \/ <<d, i + 1>> \in todo
        BY <4>2, <2>1 DEF GoneInv, Own
      <4>4. <<d, i + 1>> \notin todo
        BY <2>1, <2>2, <3>1, <3>3
      <4>. QED
        BY <4>2, <4>3, <4>4
    <3>. QED
      BY <3>2, <3>3
  <2>3. CASE d # c
    <3>1. table'[d] = table[d]
      BY <1>7, <2>3 DEF DeleteRule, TypeOK
    <3>. QED
      BY <3>1, <2>1 DEF GoneInv, Own
  <2>. QED
    BY <2>2, <2>3
<1>8. CASE UNCHANGED vars
  BY <1>8 DEF vars, GoneInv, Own
<1>. QED
  BY <1>1, <1>2, <1>3, <1>4, <1>5, <1>6, <1>7, <1>8 DEF Next, Others

THEOREM NothingForgotten == Spec => []GoneInv
<1>1. Init => GoneInv
  BY DEF Init, GoneInv
<1>. QED
  BY <1>1, GoneStep, TypeCorrect, LinesStayRight, PTL DEF Spec

\* After the deletions the jumps that remain were added later.
THEOREM NoJumpLeft == Spec => []JumpsGone
<1>1. ListInv /\ GoneInv => JumpsGone
  BY DEF ListInv, GoneInv, JumpsGone
<1>. QED
  BY <1>1, LinesStayRight, NothingForgotten, PTL

\* What the chain to delete holds when it is removed was added after the flush.
FlushInv ==
    pc = "remove" =>
        \A n \in 1 .. Len(table[doomed]) : table[doomed][n].late

THEOREM Flushed == Spec => []FlushInv
<1>1. Init => FlushInv
  BY DEF Init, FlushInv
<1>2. TypeOK /\ FlushInv /\ [Next]_vars => FlushInv'
  <2> SUFFICES ASSUME TypeOK, FlushInv, [Next]_vars, pc' = "remove",
                      NEW i \in 1 .. Len(table'[doomed])
               PROVE  table'[doomed][i].late
    BY DEF FlushInv
  <2> DEFINE s == table[doomed]
  <2>1. s \in Seq(Rule) /\ doomed \in Chains
    BY TableAssumption DEF TypeOK
  <2>2. CASE Flush
    BY <2>2, <2>1 DEF Flush, TypeOK
  <2>3. ASSUME NEW c \in Chains, NEW t \in Targets, AppendRule(c, t)
        PROVE  s'[i].late
    <3>1. New(t) \in Rule /\ New(t).late /\ pc = "remove"
      BY <2>3 DEF New, Rule, AppendRule
    <3>2. s' = s \/ s' = Append(s, New(t))
      BY <2>1, <2>3 DEF AppendRule, TypeOK
    <3>3. CASE s' = s
      BY <3>1, <3>3 DEF FlushInv
    <3>4. CASE s' = Append(s, New(t))
      <4>1. /\ Len(s) \in Nat /\ Len(s') = Len(s) + 1
            /\ s'[Len(s) + 1] = New(t)
            /\ \A j \in 1 .. Len(s) : s'[j] = s[j]
        BY <2>1, <3>1, <3>4, PushLast
      <4>2. i \in 1 .. Len(s) \/ i = Len(s) + 1
        BY <4>1
      <4>3. CASE i \in 1 .. Len(s)
        BY <3>1, <4>1, <4>3 DEF FlushInv
      <4>4. CASE i = Len(s) + 1
        BY <3>1, <4>1, <4>4
      <4>. QED
        BY <4>2, <4>3, <4>4
    <3>. QED
      BY <3>2, <3>3, <3>4
  <2>4. ASSUME NEW c \in Chains, NEW t \in Targets, InsertFirst(c, t)
        PROVE  s'[i].late
    <3>1. New(t) \in Rule /\ New(t).late /\ pc = "remove"
      BY <2>4 DEF New, Rule, InsertFirst
    <3>2. s' \in {s, <<New(t)>> \o s}
      BY <2>1, <2>4 DEF InsertFirst, TypeOK
    <3>3. CASE s' = <<New(t)>> \o s
      <4>1. i = 1 \/ (i \in 2 .. Len(s) + 1 /\ i - 1 \in 1 .. Len(s))
        BY <2>1, <3>1, <3>3, PushFirst
      <4>2. s'[i] \in {New(t), s[i - 1]} /\ (i # 1 => s'[i] = s[i - 1])
        BY <2>1, <3>1, <3>3, <4>1, PushFirst
      <4>3. i = 1 => s'[i] = New(t)
        BY <2>1, <3>1, <3>3, PushFirst
      <4>. QED
        BY <3>1, <4>1, <4>2, <4>3 DEF FlushInv
    <3>. QED
      BY <3>1, <3>2, <3>3 DEF FlushInv
  <2>5. ASSUME NEW c \in Chains, NEW n \in 1 .. Len(table[c]), DeleteRule(c, n)
        PROVE  s'[i].late
    <3>1. pc = "remove"
      BY <2>5 DEF DeleteRule
    <3>2. CASE c = doomed
      <4>1. s' = Without(s, n) /\ n \in 1 .. Len(s)
        BY <2>1, <2>5, <3>2 DEF DeleteRule, TypeOK
      <4>2. CASE i < n
        <5>1. s'[i] = s[i] /\ i \in 1 .. Len(s)
          BY <2>1, <4>1, <4>2, BelowKept
        <5>. QED
          BY <3>1, <5>1 DEF FlushInv
      <4>3. CASE ~(i < n)
        <5>1. i \in n .. Len(Without(s, n))
          BY <4>1, <4>3
        <5>2. s'[i] = s[i + 1] /\ i + 1 \in 1 .. Len(s)
          BY <2>1, <4>1, <5>1, AboveShifted
        <5>. QED
          BY <3>1, <5>2 DEF FlushInv
      <4>. QED
        BY <4>2, <4>3
    <3>3. CASE c # doomed
      <4>1. s' = s
        BY <2>1, <2>5, <3>3 DEF DeleteRule, TypeOK
      <4>. QED
        BY <3>1, <4>1 DEF FlushInv
    <3>. QED
      BY <3>2, <3>3
  <2>6. CASE UNCHANGED vars
    BY <2>6 DEF vars, FlushInv
  <2>7. ~List /\ ~RemoveChain /\ ~\E l \in todo : DeleteLine(l)
    BY DEF List, RemoveChain, DeleteLine
  <2>. QED
    BY <2>2, <2>3, <2>4, <2>5, <2>6, <2>7 DEF Next, Others
<1>. QED
  BY <1>1, <1>2, TypeCorrect, PTL DEF Spec

\* The chain itself goes, unless somebody else interfered.
THEOREM ChainGoes == Spec => ChainRemoved
<1>1. TypeOK /\ ListInv /\ GoneInv /\ FlushInv /\ [Next]_vars =>
      [RemoveChain =>
        \/ ~exists'
        \/ disturbed # {}
        \/ \E c \in Chains : \E n \in 1 .. Len(table[c]) :
               (c = doomed \/ Own(c, n)) /\ table[c][n].late]_vars
  <2> SUFFICES ASSUME TypeOK, ListInv, GoneInv, FlushInv, RemoveChain,
                      disturbed = {},
                      \A c \in Chains : \A n \in 1 .. Len(table[c]) :
                          c = doomed \/ Own(c, n) => ~table[c][n].late
               PROVE  ~exists'
    OBVIOUS
  <2>1. pc = "remove" /\ todo = {}
    BY DEF RemoveChain, ListInv
  <2>2. table[doomed] \in Seq(Rule) /\ Len(table[doomed]) = 0
    BY <2>1, TableAssumption DEF TypeOK, FlushInv
  <2>3. table[doomed] = <<>>
    BY <2>2
  <2>4. Unused
    BY <2>1, <2>3 DEF GoneInv, Unused
  <2>. QED
    BY <2>4 DEF RemoveChain
<1>. QED
  BY <1>1, TypeCorrect, LinesStayRight, NothingForgotten, Flushed, PTL
     DEF Spec, ChainRemoved

-----------------------------------------------------------------------------
(***************************************************************************)
(* The commands are run to the last one, whatever the others do.           *)
(***************************************************************************)
\* A set of integers with an upper bound has a greatest element.
LEMMA Greatest ==
    ASSUME NEW S, S \subseteq Int, S # {}, NEW b \in Int, \A i \in S : i <= b
    PROVE  \E i \in S : \A j \in S : j <= i
<1> DEFINE D == {b - i : i \in S}
<1>1. D \subseteq Nat /\ D # {}
  <2>1. \A i \in S : b - i \in Nat
    OBVIOUS
  <2>2. PICK i \in S : TRUE
    OBVIOUS
  <2>3. b - i \in D
    OBVIOUS
  <2>. QED
    BY <2>1, <2>3
<1> HIDE DEF D
<1>2. PICK x \in D : \A y \in D : <<y, x>> \notin OpToRel(<, Nat)
  BY <1>1, WFMin, NatLessThanWellFounded
<1>3. \A y \in D : ~(y < x)
  BY <1>1, <1>2 DEF OpToRel
<1>4. PICK i \in S : x = b - i
  BY DEF D
<1>5. \A j \in S : b - j \in D
  BY DEF D
<1>6. \A j \in S : j <= i
  BY <1>3, <1>4, <1>5
<1>. QED
  BY <1>6

\* The lines of a chain that are still to be deleted are those of one listing, and
\* so have an end.
BoundInv ==
    \A c \in Chains : \E b \in Nat : \A l \in todo : l[1] = c => l[2] <= b

LEMMA BoundStep == TypeOK /\ BoundInv /\ [Next]_vars => BoundInv'
<1> SUFFICES ASSUME TypeOK, BoundInv, [Next]_vars
             PROVE  BoundInv'
  OBVIOUS
<1>1. CASE List
  <2>1. \A c \in Chains : Len(table[c]) \in Nat
    BY DEF TypeOK
  <2>2. \A l \in Jumps : l[2] <= Len(table[l[1]])
    <3>1. SUFFICES ASSUME NEW c \in Chains, NEW n \in 1 .. Len(table[c]), NEW l, l = <<c, n>>
                   PROVE  l[2] <= Len(table[l[1]])
      BY DEF Jumps, JumpsFrom
    <3>. QED
      BY <2>1, <3>1
  <2>3. todo' = Jumps
    BY <1>1 DEF List
  <2>. QED
    BY <2>1, <2>2, <2>3 DEF BoundInv
<1>2. CASE todo' \subseteq todo
  BY <1>2 DEF BoundInv
<1>3. ~List => todo' \subseteq todo
  BY DEF Next, DeleteLine, Flush, RemoveChain, Others, AppendRule, InsertFirst,
         DeleteRule, vars
<1>. QED
  BY <1>1, <1>2, <1>3

\* As long as there are lines to delete, one of them is the last in the listing: the
\* list that pop_list takes apart never stops short of its end.  (The run does not
\* check for deadlock, as the program ends.)
GoesOn ==
    pc = "delete" => \/ todo = {}
                     \/ \E l \in todo : \A m \in todo : NotAfter(m, l)

THEOREM NeverStuck == Spec => []GoesOn
<1>1. TypeOK /\ BoundInv => GoesOn
  <2> SUFFICES ASSUME TypeOK, BoundInv, todo # {}
               PROVE  \E l \in todo : \A m \in todo : NotAfter(m, l)
    BY DEF GoesOn
  <2>1. \A l \in todo : l[1] \in Chains /\ l[2] \in Nat
    BY DEF TypeOK
  <2>2. PICK l \in todo : \A m \in todo : Position[m[1]] <= Position[l[1]]
    <3> DEFINE P == {Position[l[1]] : l \in todo}
    <3>1. P \subseteq Int /\ P # {}
      BY <2>1, TableAssumption
    <3>2. PICK last \in Chains : \A c \in Chains : Position[c] <= Position[last]
      BY TableAssumption
    <3>3. Position[last] \in Int /\ \A i \in P : i <= Position[last]
      BY <2>1, <3>2, TableAssumption
    <3>4. \E i \in P : \A j \in P : j <= i
      <4> HIDE DEF P
      <4>. QED
        BY <3>1, <3>3, Greatest
    <3>. QED
      BY <3>4
  <2> DEFINE c == l[1]
             N == {m[2] : m \in {k \in todo : k[1] = c}}
  <2>3. PICK m \in todo : m[1] = c /\ \A k \in todo : k[1] = c => k[2] <= m[2]
    <3>1. N \subseteq Int /\ N # {}
      BY <2>1
    <3>2. PICK b \in Nat : \A k \in todo : k[1] = c => k[2] <= b
      BY <2>1 DEF BoundInv
    <3>3. b \in Int /\ \A i \in N : i <= b
      BY <3>2
    <3>4. \E i \in N : \A j \in N : j <= i
      <4> HIDE DEF N
      <4>. QED
        BY <3>1, <3>3, Greatest
    <3>. QED
      BY <3>4
  <2>4. \A k \in todo : NotAfter(k, m)
    <3>1. TAKE k \in todo
    <3>2. Position[k[1]] \in Int /\ Position[c] \in Int /\ Position[k[1]] <= Position[c]
      BY <2>1, <2>2, TableAssumption
    <3>3. CASE Position[k[1]] = Position[c]
      BY <2>1, <2>3, <3>3, TableAssumption DEF NotAfter
    <3>4. CASE Position[k[1]] < Position[c]
      BY <2>3, <3>4 DEF NotAfter
    <3>. QED
      BY <3>2, <3>3, <3>4
  <2>. QED
    BY <2>4
<1>2. Init => BoundInv
  BY DEF Init, BoundInv
<1>. QED
  BY <1>1, <1>2, BoundStep, TypeCorrect, PTL DEF Spec
=============================================================================
