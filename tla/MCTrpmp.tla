------------------------------ MODULE MCTrpmp -------------------------------
(***************************************************************************)
(* A small instance of Trpmp: two lans, two client addresses that exist on  *)
(* both, and lengths that are too short, accepted and too long.            *)
(***************************************************************************)
EXTENDS Trpmp

CONSTANTS l1, l2, c1, c2, p, foreign

MCLans == {l1, l2}
MCClients == {c1, c2}
MCBodies == {p}
MCLengths == {1, 87, 120}
MCForeign == foreign
MCOptions == {<<"b", "s", l1, l2>>, <<l2, "b", l1, "s">>, <<"b", "s", l1>>,
              <<"s", "b", l1>>, <<"b", "s", l1, l1>>, <<"b", "s", "s", l1>>, <<l1>>, <<"b", "s">>}
MCStray == [good |-> TRUE, lan |-> l1, client |-> c1, body |-> p, length |-> 99]
MCStrays == {MCStray, [MCStray EXCEPT !.good = FALSE], [MCStray EXCEPT !.lan = foreign]}
=============================================================================
