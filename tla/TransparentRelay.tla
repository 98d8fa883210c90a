-------------------------- MODULE TransparentRelay --------------------------
(***************************************************************************)
(* What the relay promises: the clients of every lan talk to the server as *)
(* if it were on their lan.  What is delivered was said by the server,     *)
(* either in answer to a request, to the client and on the lan of that     *)
(* request, or unasked, to a client and on a lan of its own choice.  The   *)
(* rest may be lost, and everything may arrive late and more than once.    *)
(* Trpmp implements this specification.                                    *)
(***************************************************************************)
CONSTANTS Requests,  \* records with a lan, a client, a body and a length
          Lengths,   \* lengths of answers
          Sayings    \* what the server may say unasked

VARIABLES asked,     \* what clients requested
          replies,   \* what the server answered
          unasked,   \* what it said without being asked
          delivered  \* what reached a client

vars == <<asked, replies, unasked, delivered>>

Init == asked = {} /\ replies = {} /\ unasked = {} /\ delivered = {}

Ask(r) == asked' = asked \cup {r} /\ UNCHANGED <<replies, unasked, delivered>>

\* An answer has the lan, the client and the body of its request.
Reply(r, n) ==
    /\ replies' = replies \cup {[r EXCEPT !.length = n]}
    /\ UNCHANGED <<asked, unasked, delivered>>

Say(a) == unasked' = unasked \cup {a} /\ UNCHANGED <<asked, replies, delivered>>

Deliver(a) ==
    /\ delivered' = delivered \cup {a}
    /\ UNCHANGED <<asked, replies, unasked>>

Next ==
    \/ \E r \in Requests : Ask(r)
    \/ \E r \in asked, n \in Lengths : Reply(r, n)
    \/ \E a \in Sayings : Say(a)
    \/ \E a \in replies \cup unasked : Deliver(a)

Spec == Init /\ [][Next]_vars
=============================================================================
