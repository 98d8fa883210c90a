-------------------------- MODULE QosServiceProofs --------------------------
(***************************************************************************)
(* Proofs about QosService, for any number of invocations and any          *)
(* configurations: type correctness; that invocations which do not overlap *)
(* leave one monitor and a consistent service behind; and, when they may   *)
(* overlap, that a throttled link belongs to a monitor that will give it   *)
(* back, as long as the bandwidth is not reconfigured.                     *)
(***************************************************************************)
EXTENDS QosService, FiniteSetTheorems, TLAPS

Chains == {"qos_egress", "qos_ingress"}

-----------------------------------------------------------------------------
(***************************************************************************)
(* Types.                                                                  *)
(***************************************************************************)

\* Everything has its type (TypeOK), in particular no chain ever has a negative
\* number of jumps.
LEMMA StepType == TypeOK /\ [Next]_vars => TypeOK'
  <1> SUFFICES ASSUME TypeOK, [Next]_vars PROVE TypeOK'
    OBVIOUS
  <1> USE DEF TypeOK
  <1>1. CASE UNCHANGED vars
    BY <1>1 DEF vars, kernel, mons
  <1>2. CASE Configure
    BY <1>2 DEF Configure, kernel, mons
  <1>3. ASSUME NEW s \in Scripts, Invoke(s) PROVE TypeOK'
    BY <1>3 DEF Invoke, Goto, kernel, mons
  <1>4. ASSUME NEW s \in Scripts, Govern(s) PROVE TypeOK'
    <2>1. PICK l \in {Throttled, cfg[s].down} :
            /\ believed' = [believed EXCEPT ![s] = l]
            /\ limit' = IF ingress = NoTree THEN limit ELSE l
      BY <1>4 DEF Govern
    <2>2. l \in Int \cup {Throttled}
      BY DEF ConfigType
    <2> QED
      BY <1>4, <2>1, <2>2 DEF Govern
  <1>5. ASSUME NEW s \in Scripts, MonitorExit(s) PROVE TypeOK'
    <2>1. GivenBack(s) \in Int \cup {NoTree, Throttled}
      BY DEF GivenBack, ConfigType
    <2> QED
      BY <1>5, <2>1 DEF MonitorExit
  <1>6. ASSUME NEW s \in Scripts, Step(s) PROVE TypeOK'
    <2>1. CASE Test(s)
      BY <2>1 DEF Test, Goto, kernel, mons
    <2>2. CASE Wait(s)
      BY <2>2 DEF Wait, Goto, kernel, mons
    <2>3. CASE Kill(s)
      BY <2>3 DEF Kill, Killed, Goto, kernel
    <2>4. CASE DeleteQdiscs(s)
      BY <2>4 DEF DeleteQdiscs, Goto, mons
    <2>5. CASE DeleteChains(s)
      BY <2>5 DEF DeleteChains, Cleared, Goto, mons
    <2>6. CASE Touch(s)
      BY <2>6 DEF Touch, Goto, kernel, mons
    <2>7. CASE DefineInterface(s)
      BY <2>7 DEF DefineInterface, Goto, Building, kernel, mons
    <2>8. CASE ReloadModules(s)
      BY <2>8 DEF ReloadModules, Goto, Building, mons
    <2>9. CASE Upload(s)
      BY <2>9, ServiceAssumption DEF Upload, Goto, Building, mons, ConfigType
    <2>10. CASE Download(s)
      BY <2>10, ServiceAssumption DEF Download, Goto, Building, mons, ConfigType
    <2>11. CASE Decide(s)
      BY <2>11 DEF Decide, Goto, Building, kernel, mons
    <2>12. CASE Launch(s)
      BY <2>12 DEF Launch, Goto, Building, kernel, mons, ConfigType
    <2>13. CASE Unlock(s)
      BY <2>13 DEF Unlock, AfterStart, Goto, kernel, mons
    <2> QED
      BY <1>6, <2>1, <2>2, <2>3, <2>4, <2>5, <2>6, <2>7, <2>8, <2>9, <2>10, <2>11,
         <2>12, <2>13 DEF Step
  <1> QED
    BY <1>1, <1>2, <1>3, <1>4, <1>5, <1>6 DEF Next

THEOREM TypeCorrect == Spec => []TypeOK
  <1>1. Init => TypeOK
    <2> SUFFICES ASSUME Init PROVE TypeOK
      OBVIOUS
    <2>1. config \in ConfigType
      BY ServiceAssumption DEF Init
    <2>2. cfg \in [Scripts -> ConfigType]
      BY <2>1 DEF Init
    <2> QED
      BY <2>2 DEF Init, TypeOK
  <1> QED
    BY <1>1, StepType, PTL DEF Spec

-----------------------------------------------------------------------------
(***************************************************************************)
(* Invocations one after the other.                                        *)
(***************************************************************************)

\* Where a script is between killing the old monitors and starting its own.
Rebuilding == {"qdiscs", "chains", "touch", "iface", "modules", "upload",
               "download", "decide", "launch"}

SerialInv ==
    /\ \A s, t \in Scripts : Active(s) /\ Active(t) => s = t
    /\ \A s, t \in Scripts :
          pc[t] \in Rebuilding => monitor[s] # "running"
    /\ \A s, t \in Scripts :
          monitor[s] = "running" /\ monitor[t] = "running" => s = t

LEMMA StepSerial ==
    ASSUME Overlap = FALSE, TypeOK, SerialInv, [Next]_vars
    PROVE  SerialInv'
  <1> USE DEF TypeOK, SerialInv, Active
  <1>1. CASE UNCHANGED vars
    BY <1>1 DEF vars, kernel, mons
  <1>2. CASE Configure
    BY <1>2 DEF Configure, kernel, mons
  <1>3. ASSUME NEW s \in Scripts, Invoke(s) PROVE SerialInv'
    <2>1. \A t \in Scripts : ~Active(t)
      BY <1>3 DEF Invoke
    <2>2. pc' \in {[pc EXCEPT ![s] = "gone"], [pc EXCEPT ![s] = "test"]}
      BY <1>3 DEF Invoke, Goto
    <2> QED
      BY <1>3, <2>1, <2>2 DEF Invoke, mons, Rebuilding
  <1>4. ASSUME NEW s \in Scripts, Govern(s) PROVE SerialInv'
    BY <1>4 DEF Govern
  <1>5. ASSUME NEW s \in Scripts, MonitorExit(s) PROVE SerialInv'
    BY <1>5 DEF MonitorExit
  <1>6. ASSUME NEW s \in Scripts, Step(s) PROVE SerialInv'
    <2> USE DEF Goto, Rebuilding
    <2>1. CASE Test(s)
      BY <2>1 DEF Test, mons
    <2>2. CASE Wait(s)
      BY <2>2 DEF Wait, mons
    <2>3. CASE Kill(s)
      BY <2>3 DEF Kill, Killed, Alive
    <2>4. CASE DeleteQdiscs(s)
      BY <2>4 DEF DeleteQdiscs, mons
    <2>5. CASE DeleteChains(s)
      BY <2>5 DEF DeleteChains, mons
    <2>6. CASE Touch(s)
      BY <2>6 DEF Touch, mons
    <2>7. CASE DefineInterface(s)
      BY <2>7 DEF DefineInterface, mons
    <2>8. CASE ReloadModules(s)
      BY <2>8 DEF ReloadModules, mons
    <2>9. CASE Upload(s)
      BY <2>9 DEF Upload, mons
    <2>10. CASE Download(s)
      BY <2>10 DEF Download, mons
    <2>11. CASE Decide(s)
      BY <2>11 DEF Decide, mons
    <2>12. CASE Launch(s)
      BY <2>12 DEF Launch, mons
    <2>13. CASE Unlock(s)
      BY <2>13 DEF Unlock, mons
    <2> QED
      BY <1>6, <2>1, <2>2, <2>3, <2>4, <2>5, <2>6, <2>7, <2>8, <2>9, <2>10, <2>11,
         <2>12, <2>13 DEF Step
  <1> QED
    BY <1>1, <1>2, <1>3, <1>4, <1>5, <1>6 DEF Next

THEOREM Serial == ASSUME Overlap = FALSE PROVE Spec => []SerialInv
  <1>1. Init => SerialInv
    BY DEF Init, SerialInv, Active, Rebuilding
  <1>2. TypeOK /\ SerialInv /\ [Next]_vars => SerialInv'
    BY StepSerial
  <1> QED
    BY <1>1, <1>2, TypeCorrect, PTL DEF Spec

\* OneMonitor, when invocations do not overlap (stop kills every qosmon before
\* start launches one): no two monitors that were not told to end share the link.
THEOREM MonitorsAlone == ASSUME Overlap = FALSE PROVE Spec => []OneMonitor
  <1>1. SerialInv => OneMonitor
    <2> SUFFICES ASSUME SerialInv PROVE Cardinality(Running) <= 1
      BY DEF OneMonitor
    <2>1. CASE Running = {}
      BY <2>1, FS_EmptySet
    <2>2. ASSUME NEW s \in Running PROVE Cardinality(Running) <= 1
      <3>1. Running = {s}
        BY DEF SerialInv, Running
      <3> QED
        BY <3>1, FS_Singleton
    <2> QED
      BY <2>1, <2>2
  <1> QED
    BY <1>1, Serial, PTL

-----------------------------------------------------------------------------
(***************************************************************************)
(* What they leave behind.                                                 *)
(***************************************************************************)
Matched ==
    /\ jumps["qos_egress"] = IF egress = NoTree THEN 0 ELSE 1
    /\ jumps["qos_ingress"] = IF ingress = NoTree THEN 0 ELSE 1

\* The lock file has a maker, a chain is jumped to while its tree exists but for
\* the time between the removal of the two, the trees that are attached were
\* absent before, and a monitor's tree is the one it was started for.
ServiceInv ==
    /\ lock => \E s \in Scripts : pc[s] \in Building \cup {"iface", "aborted"}
    /\ (\A s \in Scripts : pc[s] # "chains") => Matched
    /\ \A s \in Scripts :
          pc[s] \in {"chains", "touch", "iface", "modules", "upload"} =>
              egress = NoTree /\ ingress = NoTree
    /\ \A s \in Scripts : pc[s] = "download" => ingress = NoTree
    /\ \A s \in Scripts : pc[s] \in {"decide", "launch"} =>
          ingress = IF cfg[s].down >= 0 THEN cfg[s].down ELSE NoTree
    /\ \A s \in Running : ingress = cfg[s].down

LEMMA StepService ==
    ASSUME Overlap = FALSE, TypeOK, SerialInv, ServiceInv, [Next]_vars
    PROVE  ServiceInv'
  <1> USE ServiceAssumption DEF TypeOK, SerialInv, Active, ServiceInv, Building,
                                Matched, Running
  <1>1. CASE UNCHANGED vars
    BY <1>1 DEF vars, kernel, mons
  <1>2. CASE Configure
    BY <1>2 DEF Configure, kernel, mons
  <1>3. ASSUME NEW s \in Scripts, Invoke(s) PROVE ServiceInv'
    <2>1. pc' \in {[pc EXCEPT ![s] = "gone"], [pc EXCEPT ![s] = "test"]} /\ pc[s] = "idle"
      BY <1>3 DEF Invoke, Goto
    <2> QED
      BY <1>3, <2>1 DEF Invoke, kernel, mons
  <1>4. ASSUME NEW s \in Scripts, Govern(s) PROVE ServiceInv'
    BY <1>4 DEF Govern
  <1>5. ASSUME NEW s \in Scripts, MonitorExit(s) PROVE ServiceInv'
    BY <1>5 DEF MonitorExit
  <1>6. ASSUME NEW s \in Scripts, Step(s) PROVE ServiceInv'
    <2> USE DEF Goto, Rebuilding, ConfigType
    <2>1. CASE Test(s)
      BY <2>1 DEF Test, kernel, mons
    <2>2. CASE Wait(s)
      BY <2>2 DEF Wait, kernel, mons
    <2>3. CASE Kill(s)
      BY <2>3 DEF Kill, Killed, Alive, kernel
    <2>4. CASE DeleteQdiscs(s)
      BY <2>4 DEF DeleteQdiscs, mons
    <2>5. CASE DeleteChains(s)
      BY <2>5 DEF DeleteChains, Cleared, mons
    <2>6. CASE Touch(s)
      BY <2>6 DEF Touch, kernel, mons
    <2>7. CASE DefineInterface(s)
      BY <2>7 DEF DefineInterface, kernel, mons
    <2>8. CASE ReloadModules(s)
      BY <2>8 DEF ReloadModules, mons
    <2>9. CASE Upload(s)
      BY <2>9 DEF Upload, mons
    <2>10. CASE Download(s)
      <3>1. ingress = NoTree /\ Matched /\ config.down \in Int
        BY <2>10 DEF Download
      <3>2. /\ ingress' = IF config.down >= 0 THEN config.down ELSE NoTree
            /\ jumps'["qos_ingress"] = IF config.down >= 0 THEN 1 ELSE 0
            /\ jumps'["qos_egress"] = jumps["qos_egress"] /\ egress' = egress
        BY <2>10, <3>1 DEF Download
      <3>3. /\ cfg'[s].down = config.down
            /\ \A t \in Scripts \ {s} : cfg'[t] = cfg[t] /\ pc'[t] = pc[t]
            /\ pc'[s] = "decide" /\ monitor' = monitor /\ lock' = lock
        BY <2>10 DEF Download, mons
      <3>4. \A t \in Scripts : monitor[t] # "running"
        BY <2>10 DEF Download
      <3>5. Matched'
        BY <3>1, <3>2
      <3>6. \A t \in Scripts \ {s} : pc'[t] \in {"idle", "gone", "aborted"}
        BY <2>10, <3>3 DEF Download
      <3>7. lock' => \E t \in Scripts : pc'[t] \in Building \cup {"iface", "aborted"}
        BY <3>3
      <3>8. ingress' = IF cfg'[s].down >= 0 THEN cfg'[s].down ELSE NoTree
        BY <3>2, <3>3
      <3> HIDE DEF Matched
      <3> QED
        BY <3>3, <3>4, <3>5, <3>6, <3>7, <3>8
    <2>11. CASE Decide(s)
      BY <2>11 DEF Decide, kernel, mons
    <2>12. CASE Launch(s)
      BY <2>12 DEF Launch, kernel, mons
    <2>13. CASE Unlock(s)
      BY <2>13 DEF Unlock, AfterStart, kernel, mons
    <2> QED
      BY <1>6, <2>1, <2>2, <2>3, <2>4, <2>5, <2>6, <2>7, <2>8, <2>9, <2>10, <2>11,
         <2>12, <2>13 DEF Step
  <1> QED
    BY <1>1, <1>2, <1>3, <1>4, <1>5, <1>6 DEF Next

\* SettledConsistent, when invocations do not overlap (stop and start take the lock,
\* the trees and the jumps down and up in an order that fits).
THEOREM Consistent == ASSUME Overlap = FALSE PROVE Spec => []SettledConsistent
  <1>1. Init => ServiceInv
    BY DEF Init, ServiceInv, Matched, Running
  <1>2. TypeOK /\ SerialInv /\ ServiceInv /\ [Next]_vars => ServiceInv'
    BY StepService
  <1>3. TypeOK /\ ServiceInv => SettledConsistent
    BY DEF TypeOK, ServiceInv, SettledConsistent, Quiet, Active, Matched, Building
  <1> QED
    BY <1>1, <1>2, <1>3, TypeCorrect, Serial, PTL DEF Spec

-----------------------------------------------------------------------------
(***************************************************************************)
(* The limit, with invocations that overlap.                               *)
(***************************************************************************)
OneBandwidth == \A c, d \in Configs : c.down = d.down

\* Every tree on imq0 and every monitor has the one download bandwidth, and a
\* script whose monitor is alive has nothing left to do but to unlock.
LimitInv ==
    /\ LimitOwned
    /\ ingress = NoTree => limit = NoTree
    /\ ingress # NoTree => ingress = config.down
    /\ \A s \in Scripts : cfg[s].down = config.down
    /\ \A s \in Scripts : Alive(s) => pc[s] \in {"unlock", "gone"}

LEMMA StepLimit ==
    ASSUME OneBandwidth, TypeOK, LimitInv, [Next]_vars
    PROVE  LimitInv'
  <1> USE ServiceAssumption DEF TypeOK, OneBandwidth, LimitInv, LimitOwned, Alive
  <1>1. CASE UNCHANGED vars
    BY <1>1 DEF vars, kernel, mons
  <1>2. CASE Configure
    BY <1>2 DEF Configure, kernel, mons
  <1>3. ASSUME NEW s \in Scripts, Invoke(s) PROVE LimitInv'
    <2>1. pc' \in {[pc EXCEPT ![s] = "gone"], [pc EXCEPT ![s] = "test"]} /\ pc[s] = "idle"
      BY <1>3 DEF Invoke, Goto
    <2> QED
      BY <1>3, <2>1 DEF Invoke, kernel, mons
  <1>4. ASSUME NEW s \in Scripts, Govern(s) PROVE LimitInv'
    <2>1. PICK l \in {Throttled, cfg[s].down} :
            /\ believed' = [believed EXCEPT ![s] = l]
            /\ limit' = IF ingress = NoTree THEN limit ELSE l
      BY <1>4 DEF Govern
    <2> QED
      BY <1>4, <2>1 DEF Govern
  <1>5. ASSUME NEW s \in Scripts, MonitorExit(s) PROVE LimitInv'
    BY <1>5 DEF MonitorExit, GivenBack
  <1>6. ASSUME NEW s \in Scripts, Step(s) PROVE LimitInv'
    <2> USE DEF Goto, ConfigType
    <2>1. CASE Test(s)
      BY <2>1 DEF Test, kernel, mons
    <2>2. CASE Wait(s)
      BY <2>2 DEF Wait, kernel, mons
    <2>3. CASE Kill(s)
      BY <2>3 DEF Kill, Killed, kernel
    <2>4. CASE DeleteQdiscs(s)
      BY <2>4 DEF DeleteQdiscs, mons
    <2>5. CASE DeleteChains(s)
      BY <2>5 DEF DeleteChains, mons
    <2>6. CASE Touch(s)
      BY <2>6 DEF Touch, kernel, mons
    <2>7. CASE DefineInterface(s)
      BY <2>7 DEF DefineInterface, kernel, mons
    <2>8. CASE ReloadModules(s)
      BY <2>8 DEF ReloadModules, mons
    <2>9. CASE Upload(s)
      BY <2>9 DEF Upload, mons
    <2>10. CASE Download(s)
      BY <2>10 DEF Download, mons
    <2>11. CASE Decide(s)
      BY <2>11 DEF Decide, kernel, mons
    <2>12. CASE Launch(s)
      <3>1. /\ pc' \in {[pc EXCEPT ![s] = "aborted"], [pc EXCEPT ![s] = "unlock"]}
            /\ cfg' = cfg /\ config' = config /\ ingress' = ingress /\ limit' = limit
            /\ pc[s] = "launch"
        BY <2>12 DEF Launch, kernel
      <3>2. \A t \in Scripts \ {s} : pc'[t] = pc[t]
        BY <3>1
      <3>3. monitor[s] = "none"
        BY <3>1
      <3>4. CASE UNCHANGED mons
        BY <3>1, <3>2, <3>3, <3>4 DEF mons
      <3>5. CASE /\ monitor' = [monitor EXCEPT ![s] = "running"]
                 /\ believed' = [believed EXCEPT ![s] = cfg[s].down]
                 /\ pc' = [pc EXCEPT ![s] = "unlock"]
        BY <3>1, <3>2, <3>3, <3>5
      <3> QED
        BY <2>12, <3>4, <3>5 DEF Launch
    <2>13. CASE Unlock(s)
      BY <2>13 DEF Unlock, kernel, mons
    <2> QED
      BY <1>6, <2>1, <2>2, <2>3, <2>4, <2>5, <2>6, <2>7, <2>8, <2>9, <2>10, <2>11,
         <2>12, <2>13 DEF Step
  <1> QED
    BY <1>1, <1>2, <1>3, <1>4, <1>5, <1>6 DEF Next

\* LimitOwned, for overlapping invocations with one download bandwidth (a monitor
\* that is killed gives its limit back when it ends, whatever tree there is then).
THEOREM NeverForsaken == ASSUME OneBandwidth PROVE Spec => []LimitOwned
  <1>1. Init => LimitInv
    <2> SUFFICES ASSUME Init PROVE LimitInv
      OBVIOUS
    <2>1. \A s \in Scripts : cfg[s] = config
      BY DEF Init
    <2> QED
      BY <2>1 DEF Init, LimitInv, LimitOwned, Alive
  <1>2. TypeOK /\ LimitInv /\ [Next]_vars => LimitInv'
    BY StepLimit
  <1>3. LimitInv => LimitOwned
    BY DEF LimitInv
  <1> QED
    BY <1>1, <1>2, <1>3, TypeCorrect, PTL DEF Spec

-----------------------------------------------------------------------------
(***************************************************************************)
(* Why scripts end, but for fairness: whoever waits for the lock waits for *)
(* a script that goes on, and every command is executed once.              *)
(***************************************************************************)

\* The lock file has a maker who is still to remove it, or who was aborted.
LockOwned == lock => \E s \in Scripts : pc[s] \in Building \cup {"iface", "aborted"}

LEMMA StepLock == TypeOK /\ LockOwned /\ [Next]_vars => LockOwned'
  <1> SUFFICES ASSUME TypeOK, LockOwned, [Next]_vars PROVE LockOwned'
    OBVIOUS
  <1> USE DEF TypeOK, LockOwned, Building
  <1>1. CASE UNCHANGED <<pc, lock>>
    BY <1>1
  <1>2. ASSUME NEW s \in Scripts, Invoke(s) PROVE LockOwned'
    <2>1. pc[s] = "idle" /\ lock' = lock /\ \A t \in Scripts \ {s} : pc'[t] = pc[t]
      BY <1>2 DEF Invoke, Goto
    <2> QED
      BY <2>1
  <1>3. ASSUME NEW s \in Scripts, Step(s), ~Touch(s), ~Unlock(s) PROVE LockOwned'
    <2>1. /\ lock' = lock /\ \A t \in Scripts \ {s} : pc'[t] = pc[t]
          /\ pc[s] \in Building \cup {"iface"} =>
                pc'[s] \in Building \cup {"aborted"}
          /\ pc[s] # "aborted"
      BY <1>3 DEF Step, Test, Wait, Kill, DeleteQdiscs, DeleteChains, DefineInterface,
                  ReloadModules, Upload, Download, Decide, Launch, Goto
    <2> QED
      BY <2>1
  <1>4. ASSUME NEW s \in Scripts, Touch(s) PROVE LockOwned'
    BY <1>4 DEF Touch, Goto
  <1>5. ASSUME NEW s \in Scripts, Unlock(s) PROVE LockOwned'
    BY <1>5 DEF Unlock, AfterStart
  <1> QED
    BY <1>1, <1>2, <1>3, <1>4, <1>5 DEF Next, Govern, MonitorExit, Configure, vars

\* Whatever overlaps, the lock file never outlives the scripts that initialize the
\* service: one of them is still to remove it, or was aborted by the division by
\* zero of qos_gargoyle.init:682.  Nobody waits for a lock without an owner.
THEOREM LockHasOwner == Spec => []LockOwned
  <1>1. Init => LockOwned
    BY DEF Init, LockOwned
  <1> QED
    BY <1>1, StepLock, TypeCorrect, PTL DEF Spec

\* No bandwidth of zero is ever configured.
NoZero == \A c \in Configs : c.up # 0 /\ c.down # 0

NoneAborted == \A s \in Scripts : pc[s] # "aborted" /\ cfg[s].up # 0 /\ cfg[s].down # 0

LEMMA StepAborts ==
    ASSUME NoZero, TypeOK, NoneAborted, [Next]_vars
    PROVE  NoneAborted'
  <1> USE DEF NoZero, TypeOK, NoneAborted
  <1>1. CASE UNCHANGED <<pc, cfg>>
    BY <1>1
  <1>2. ASSUME NEW s \in Scripts, Invoke(s) PROVE NoneAborted'
    BY <1>2 DEF Invoke, Goto
  <1>3. ASSUME NEW s \in Scripts, Upload(s) PROVE NoneAborted'
    BY <1>3 DEF Upload, Goto
  <1>4. ASSUME NEW s \in Scripts, Download(s) PROVE NoneAborted'
    <2>1. /\ pc' = [pc EXCEPT ![s] = "decide"] /\ config.down # 0
          /\ cfg' = [cfg EXCEPT ![s].down = config.down]
      BY <1>4 DEF Download, Goto
    <2>2. cfg[s] \in ConfigType
      OBVIOUS
    <2>3. cfg'[s].up = cfg[s].up /\ cfg'[s].down = config.down
      BY <2>1, <2>2 DEF ConfigType
    <2> QED
      BY <2>1, <2>3
  <1>5. ASSUME NEW s \in Scripts, Launch(s) PROVE NoneAborted'
    BY <1>5 DEF Launch, Goto
  <1>6. ASSUME NEW s \in Scripts, Step(s), ~Upload(s), ~Download(s), ~Launch(s)
        PROVE  NoneAborted'
    BY <1>6 DEF Step, Test, Wait, Kill, DeleteQdiscs, DeleteChains, Touch,
                DefineInterface, ReloadModules, Decide, Unlock, Goto
  <1> QED
    BY <1>1, <1>2, <1>3, <1>4, <1>5, <1>6 DEF Next, Govern, MonitorExit, Configure, vars

\* Without a zero bandwidth no script is aborted, and the owner of the lock removes
\* it, although the options of a script may be those of two configurations.
THEOREM LockIsRemoved ==
    ASSUME NoZero
    PROVE  Spec => [](lock => \E s \in Scripts : pc[s] \in Building \cup {"iface"})
  <1>1. Init => NoneAborted
    <2> SUFFICES ASSUME Init PROVE NoneAborted
      OBVIOUS
    <2>1. \A s \in Scripts : cfg[s] = config
      BY DEF Init
    <2> QED
      BY <2>1 DEF Init, NoneAborted, NoZero
  <1>2. TypeOK /\ NoneAborted /\ [Next]_vars => NoneAborted'
    BY StepAborts
  <1>3. NoneAborted /\ LockOwned
            => (lock => \E s \in Scripts : pc[s] \in Building \cup {"iface"})
    BY DEF NoneAborted, LockOwned
  <1> QED
    BY <1>1, <1>2, <1>3, TypeCorrect, LockHasOwner, PTL DEF Spec

\* What is left of a script.
Remaining(p) ==
    CASE p = "idle"    -> 14 [] p = "test"     -> 13 [] p = "kill"   -> 12
      [] p = "qdiscs"  -> 11 [] p = "chains"   -> 10 [] p = "touch"  -> 9
      [] p = "iface"   -> 8  [] p = "modules"  -> 7  [] p = "upload" -> 6
      [] p = "download" -> 5 [] p = "decide"   -> 4  [] p = "launch" -> 3
      [] p = "unlock"  -> 2  [] p = "wait"     -> 1
      [] OTHER         -> 0

\* A script moves by its own steps only, and towards its end.
Advance == [][\A s \in Scripts : pc'[s] # pc[s] =>
                 /\ Invoke(s) \/ Step(s)
                 /\ Remaining(pc'[s]) < Remaining(pc[s])]_vars

\* The scripts have no loop but the one that polls the lock: a script takes at most
\* fourteen steps, whoever else is active.  With LockHasOwner this is ScriptsEnd
\* but for the fairness.
THEOREM ScriptsAdvance == Spec => Advance
  <1> DEFINE Forward == \A s \in Scripts : pc'[s] # pc[s] =>
                            /\ Invoke(s) \/ Step(s)
                            /\ Remaining(pc'[s]) < Remaining(pc[s])
  <1>1. TypeOK /\ [Next]_vars => [Forward]_vars
    <2> SUFFICES ASSUME TypeOK, Next PROVE Forward
      OBVIOUS
    <2>1. CASE UNCHANGED pc
      BY <2>1
    <2>2. ASSUME NEW s \in Scripts, Invoke(s) \/ Step(s) PROVE Forward
      <3>1. \A t \in Scripts \ {s} : pc'[t] = pc[t]
        BY <2>2 DEF TypeOK, Invoke, Step, Test, Wait, Kill, DeleteQdiscs, DeleteChains,
                    Touch, DefineInterface, ReloadModules, Upload, Download, Decide,
                    Launch, Unlock, Goto
      <3>2. Remaining(pc'[s]) < Remaining(pc[s])
        <4>1. CASE Invoke(s)
          BY <4>1 DEF TypeOK, Invoke, Goto, Remaining
        <4>2. CASE Test(s) \/ Wait(s) \/ Kill(s) \/ DeleteQdiscs(s) \/ DeleteChains(s)
          BY <4>2 DEF TypeOK, Test, Wait, Kill, DeleteQdiscs, DeleteChains, Goto, Remaining
        <4>3. CASE Touch(s) \/ DefineInterface(s) \/ ReloadModules(s) \/ Upload(s)
          BY <4>3 DEF TypeOK, Touch, DefineInterface, ReloadModules, Upload, Goto, Remaining
        <4>4. CASE Download(s) \/ Decide(s) \/ Launch(s) \/ Unlock(s)
          BY <4>4 DEF TypeOK, Download, Decide, Launch, Unlock, Goto, Remaining
        <4> QED
          BY <2>2, <4>1, <4>2, <4>3, <4>4 DEF Step
      <3> QED
        BY <2>2, <3>1, <3>2
    <2> QED
      BY <2>1, <2>2 DEF Next, Govern, MonitorExit, Configure
  <1> QED
    BY <1>1, TypeCorrect, PTL DEF Spec, Advance
=============================================================================
