---------------------------- MODULE DeleteChain ----------------------------
(***************************************************************************)
(* delete_chain_from_table.c, and the copy of it in restore_quotas.c: a    *)
(* chain of an iptables table is deleted with every rule that jumps to it. *)
(* The table is listed once, with line numbers; the commands computed from *)
(* the listing are run afterwards, from the last line to the first, and    *)
(* then the chain is flushed and removed.  Nothing locks the table: QoS,   *)
(* quotas, restrictions and the firewall core change it in between.        *)
(*                                                                         *)
(* A rule is what it jumps to and whether it was there when the table was  *)
(* listed.  The list of commands is the set of the lines still to delete,  *)
(* with the order in which pop_list returns them.                          *)
(***************************************************************************)
EXTENDS Integers, Sequences

CONSTANTS
    Chains,       \* the chains of the table
    Position,     \* the place of a chain in the listing
    doomed,       \* the chain to delete
    Targets,      \* what rules may jump to
    Tables,       \* the tables a run may start from
    MaxChanges    \* bound: changes that others make to the table

ASSUME TableAssumption ==
    /\ Position \in [Chains -> Int]
    /\ \A c, d \in Chains : Position[c] = Position[d] => c = d
    /\ \E last \in Chains : \A c \in Chains : Position[c] <= Position[last]
    /\ doomed \in Chains /\ doomed \in Targets
    /\ MaxChanges \in Nat

Rule == [to : Targets, late : BOOLEAN]

ASSUME ListingAssumption ==
    \A t \in Tables :
        /\ t \in [Chains -> Seq(Rule)]
        /\ \A c \in Chains : \A n \in DOMAIN t[c] : ~t[c][n].late

VARIABLES
    pc,         \* list, delete, remove, done
    table,      \* the rules of each chain
    exists,     \* does the chain to delete exist
    todo,       \* lines still to delete
    changes,    \* how often others changed the table
    disturbed   \* history: chains in which a line still to delete was moved

vars == <<pc, table, exists, todo, changes, disturbed>>

Own(c, n) == table[c][n].to = doomed

\* Does line m come before line l in the listing, or is it the same?
NotAfter_Reversed(m, l) ==
    \/ Position[l[1]] < Position[m[1]]
    \/ l[1] = m[1] /\ l[2] <= m[2]
NotAfter(m, l) ==
    \/ Position[m[1]] < Position[l[1]]
    \/ m[1] = l[1] /\ m[2] <= l[2]

\* A sequence without its nth element.
Without(s, n) ==
    [i \in 1 .. Len(s) - 1 |-> IF i < n THEN s[i] ELSE s[i + 1]]

Init ==
    /\ pc = "list" /\ table \in Tables /\ exists = TRUE
    /\ todo = {} /\ changes = 0 /\ disturbed = {}

-----------------------------------------------------------------------------
(***************************************************************************)
(* The program.                                                            *)
(***************************************************************************)
JumpsFrom(first) ==
    UNION {{<<c, n>> : n \in {m \in first .. Len(table[c]) : Own(c, m)}} :
              c \in Chains}
Jumps_NotFirst == JumpsFrom(2)
Jumps_ZeroBased == {<<l[1], l[2] - 1>> : l \in JumpsFrom(1)}
Jumps == JumpsFrom(1)

List ==
    /\ pc = "list"
    /\ todo' = Jumps
    /\ pc' = "delete"
    /\ UNCHANGED <<table, exists, changes, disturbed>>

\* iptables -D chain line, for the line that pop_list returns; a line that is no
\* longer there is an error, whose message goes to /dev/null.
DeleteLine(l) ==
    /\ pc = "delete"
    /\ \A m \in todo : NotAfter(m, l)
    /\ table' = IF l[2] <= Len(table[l[1]])
                THEN [table EXCEPT ![l[1]] = Without(@, l[2])]
                ELSE table
    /\ todo' = todo \ {l}
    /\ UNCHANGED <<pc, exists, changes, disturbed>>

\* iptables -F
Flush_Skipped ==
    /\ pc = "delete" /\ todo = {}
    /\ pc' = "remove"
    /\ UNCHANGED <<table, exists, todo, changes, disturbed>>
Flush ==
    /\ pc = "delete" /\ todo = {}
    /\ table' = [table EXCEPT ![doomed] = <<>>]
    /\ pc' = "remove"
    /\ UNCHANGED <<exists, todo, changes, disturbed>>

Unused ==
    /\ table[doomed] = <<>>
    /\ \A c \in Chains : \A n \in 1 .. Len(table[c]) : ~Own(c, n)

\* iptables -X, which fails as long as a rule jumps to the chain.
RemoveChain ==
    /\ pc = "remove"
    /\ exists' = (exists /\ ~Unused)
    /\ pc' = "done"
    /\ UNCHANGED <<table, todo, changes, disturbed>>

-----------------------------------------------------------------------------
(***************************************************************************)
(* The others: firewall scripts, QoS and quotas.                           *)
(***************************************************************************)
Changes == changes < MaxChanges /\ changes' = changes + 1

\* Lines still to delete that move when line n of c is inserted or deleted.
Moves(c, n) == \E l \in todo : l[1] = c /\ l[2] >= n

Disturb(c, n) ==
    disturbed' = IF Moves(c, n) THEN disturbed \cup {c} ELSE disturbed

New(t) == [to |-> t, late |-> pc # "list"]

\* iptables -A
AppendRule(c, t) ==
    /\ Changes
    /\ doomed \in {c, t} => exists
    /\ table' = [table EXCEPT ![c] = Append(@, New(t))]
    /\ UNCHANGED <<pc, exists, todo, disturbed>>

\* iptables -I without a line number
InsertFirst(c, t) ==
    /\ Changes
    /\ doomed \in {c, t} => exists
    /\ table' = [table EXCEPT ![c] = <<New(t)>> \o @]
    /\ Disturb(c, 1)
    /\ UNCHANGED <<pc, exists, todo>>

\* iptables -D
DeleteRule(c, n) ==
    /\ Changes
    /\ table' = [table EXCEPT ![c] = Without(@, n)]
    /\ Disturb(c, n)
    /\ UNCHANGED <<pc, exists, todo>>

Others ==
    \E c \in Chains :
        \/ \E t \in Targets : AppendRule(c, t) \/ InsertFirst(c, t)
        \/ \E n \in 1 .. Len(table[c]) : DeleteRule(c, n)

Next ==
    \/ List \/ Flush \/ RemoveChain
    \/ \E l \in todo : DeleteLine(l)
    \/ Others

Spec == Init /\ [][Next]_vars

-----------------------------------------------------------------------------
(***************************************************************************)
(* Properties.                                                             *)
(***************************************************************************)
TypeOK ==
    /\ pc \in {"list", "delete", "remove", "done"}
    /\ table \in [Chains -> Seq(Rule)]
    /\ exists \in BOOLEAN
    /\ todo \subseteq Chains \X (Nat \ {0})
    /\ changes \in 0 .. MaxChanges
    /\ disturbed \subseteq Chains

\* The line numbers still to delete name the rules that were meant, although
\* every deletion renumbers the lines after it, in every chain where nobody else
\* moved one of these lines.
LinesAgree ==
    \A l \in todo : l[1] \notin disturbed =>
        l[2] <= Len(table[l[1]]) /\ Own(l[1], l[2])

\* No command deletes a rule of somebody else (same exception).
DeletesOwn ==
    [][\A l \in todo : DeleteLine(l) /\ l[1] \notin disturbed =>
           /\ l[2] <= Len(table[l[1]]) /\ Own(l[1], l[2])
           /\ table' = [table EXCEPT ![l[1]] = Without(@, l[2])]]_vars

\* When the commands have been run, the jumps that are left were added after the
\* listing.
JumpsGone ==
    pc \in {"remove", "done"} =>
        \A c \in Chains \ disturbed : \A n \in 1 .. Len(table[c]) :
            Own(c, n) => table[c][n].late

\* iptables -X does its work, so that the chain can be created anew, unless
\* somebody else moved lines or began to use the chain in the meantime.
ChainRemoved ==
    [][RemoveChain =>
        \/ ~exists'
        \/ disturbed # {}
        \/ \E c \in Chains : \E n \in 1 .. Len(table[c]) :
               (c = doomed \/ Own(c, n)) /\ table[c][n].late]_vars
=============================================================================
