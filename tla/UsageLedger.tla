---------------------------- MODULE UsageLedger ----------------------------
(***************************************************************************)
(* What the quotas promise about usage: traffic is charged to an account   *)
(* while it is open, what is charged may be read and what was read may be  *)
(* kept in a safe place, if later, and an account that is opened again may *)
(* go on from what was kept, once and before another account is opened.    *)
(* All accounts may be lost at any time, and with them what was read; what *)
(* was kept is not.  Quotas implements this specification.                 *)
(***************************************************************************)
EXTENDS Integers

CONSTANTS Accounts, None

VARIABLES charged,  \* what is charged to each account, None if it is not open
          kept,     \* what was kept of each account, None if nothing was
          readings, \* what was read and may be kept: pairs of account and charge
          seen,     \* the traffic each account saw while it was open
          opening   \* the account that may still go on from what was kept

vars == <<charged, kept, readings, seen, opening>>

Closed == [i \in Accounts |-> None]

Init ==
    /\ charged = Closed /\ kept = Closed /\ readings = {} /\ opening = {}
    /\ seen = [i \in Accounts |-> 0]

\* An account is opened when it is closed, and no other is being opened.
Open(i) ==
    /\ charged[i] = None /\ opening = {}
    /\ charged' = [charged EXCEPT ![i] = 0]
    /\ opening' = {i}
    /\ UNCHANGED <<kept, readings, seen>>

\* It goes on from what was kept, or from what it was charged since.
Settle(i) ==
    /\ opening = {i} /\ opening' = {}
    /\ \/ UNCHANGED charged
       \/ kept[i] # None /\ charged' = [charged EXCEPT ![i] = kept[i]]
    /\ UNCHANGED <<kept, readings, seen>>

Charge(i) ==
    /\ charged[i] # None
    /\ charged' = [charged EXCEPT ![i] = @ + 1]
    /\ seen' = [seen EXCEPT ![i] = @ + 1]
    /\ UNCHANGED <<kept, readings, opening>>

Read(i) ==
    /\ charged[i] # None
    /\ readings' = readings \cup {<<i, charged[i]>>}
    /\ UNCHANGED <<charged, kept, seen, opening>>

\* The same reading may have been taken twice.
Keep(i, n) ==
    /\ <<i, n>> \in readings
    /\ kept' = [kept EXCEPT ![i] = n]
    /\ readings' \in {readings, readings \ {<<i, n>>}}
    /\ UNCHANGED <<charged, seen, opening>>

Lose ==
    /\ charged' = Closed /\ opening' = {}
    /\ readings' \in {readings, {}}
    /\ UNCHANGED <<kept, seen>>

Next ==
    \/ Lose
    \/ \E i \in Accounts : Open(i) \/ Settle(i) \/ Charge(i) \/ Read(i)
    \/ \E r \in readings : Keep(r[1], r[2])

Spec == Init /\ [][Next]_vars
=============================================================================
