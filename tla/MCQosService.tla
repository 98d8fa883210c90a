--------------------------- MODULE MCQosService ---------------------------
(***************************************************************************)
(* Small instances of QosService: two or three invocations, bandwidths     *)
(* absent, zero, and two real ones.                                        *)
(***************************************************************************)
EXTENDS QosService, TLC

CONSTANTS s1, s2, s3, noTree, throttled

MCTwo == {s1, s2}
MCThree == {s1, s2, s3}
MCNoTree == noTree
MCThrottled == throttled

Cfg(up, down, mon, given) ==
    [up |-> up, down |-> down, monenabled |-> mon, pinglimit |-> given]

\* Reconfigurations: another bandwidth, one direction, none, and both again.
MCConfigs == {Cfg(200, 200, TRUE, FALSE), Cfg(300, 300, TRUE, TRUE),
              Cfg(200, -1, TRUE, FALSE), Cfg(-1, -1, TRUE, FALSE),
              Cfg(200, 0, TRUE, TRUE)}

\* The monitor is switched on and off, the bandwidth stays.
MCSameBandwidth == {Cfg(200, 200, TRUE, FALSE), Cfg(200, 200, FALSE, FALSE)}

\* Two bandwidths with the monitor on.
MCTwoBandwidths == {Cfg(200, 200, TRUE, FALSE), Cfg(300, 300, TRUE, FALSE)}

MCSymmetry == Permutations(Scripts)
=============================================================================
