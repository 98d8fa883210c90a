---------------------------- MODULE QosmonProofs ----------------------------
(***************************************************************************)
(* Proofs about Qosmon for every value of its constants.                   *)
(***************************************************************************)
EXTENDS Qosmon, TLAPS

\* The arithmetic of the two derived limits: the dynamic range is not empty, the
\* first proposal lies in it and the measuring limit below it.
LEMMA Bounds ==
    /\ Floor \in Nat /\ Start \in Nat /\ DBW_UL \in Nat /\ Unload \in Nat
    /\ 0 < Unload /\ Unload < Floor /\ Floor <= Start /\ Start <= DBW_UL
BY RateAssumption DEF Floor, Start

\* A proposal that passed the clamp of its direction stays in the range.
LEMMA Clamped ==
    ASSUME NEW base \in LimitRange, NEW r \in Nat
    PROVE  /\ r >= base => Cap(r) \in LimitRange
           /\ r <= base => AtLeastFloor(r) \in LimitRange
BY Bounds DEF LimitRange, Cap, AtLeastFloor

\* What the kernel enforces after a request: what it did, or what was asked.
LEMMA KernelOutcome ==
    ASSUME NEW d, NEW k, NEW rate, NEW result \in Kernel(d, k, rate)
    PROVE  result \in {k, rate}
BY DEF Kernel

\* When no request is refused, a kernel that held the believed or the configured
\* limit holds the new belief or the configured limit afterwards, provided a
\* missing device is represented by the limit its next tree will have.
LEMMA KernelTracks ==
    ASSUME NEW d, NEW k, NEW rate, NEW result \in Kernel(d, k, rate),
           ~TalkMayFail, k \in {d, DBW_UL}, tree = Absent => k = DBW_UL
    PROVE  /\ result \in {rate, DBW_UL}
           /\ tree = Absent => result = DBW_UL
BY DEF Kernel

-----------------------------------------------------------------------------
(***************************************************************************)
(* Type correctness.                                                       *)
(***************************************************************************)
LEMMA FilterTyped ==
    ASSUME TypeOK, NEW f \in Filtered
    PROVE  f \in 0 .. Period
BY PingAssumption DEF TypeOK, Filtered, Between

LEMMA MeasuredTyped ==
    ASSUME TypeOK
    PROVE  Measured(fil_triptime) \in Nat /\ Measured(fil_triptime) > 0
BY PingAssumption DEF TypeOK, Measured, Clamp

LEMMA AdjustTyped ==
    ASSUME NEW base \in Nat, NEW d \in Nat, NEW k \in Nat, NEW limit \in Nat,
           Adjust(base, d, k, limit)
    PROVE  new_dbw_ul' \in Nat /\ dbw_ul' \in Nat /\ klimit' \in Nat
<1>1. CASE new_dbw_ul' = base /\ dbw_ul' = d /\ klimit' = k
  BY <1>1
<1>2. ASSUME NEW r \in Rates \cup {base},
             new_dbw_ul' = Cap(r), dbw_ul' = Cap(r), klimit' \in Kernel(d, k, Cap(r))
      PROVE  new_dbw_ul' \in Nat /\ dbw_ul' \in Nat /\ klimit' \in Nat
  <2>1. Cap(r) \in Nat
    BY RateAssumption DEF Cap
  <2>. QED
    BY <1>2, <2>1, KernelOutcome
<1>3. ASSUME NEW r \in Rates \cup {base},
             new_dbw_ul' = AtLeastFloor(r), dbw_ul' = AtLeastFloor(r),
             klimit' \in Kernel(d, k, AtLeastFloor(r))
      PROVE  new_dbw_ul' \in Nat /\ dbw_ul' \in Nat /\ klimit' \in Nat
  <2>1. AtLeastFloor(r) \in Nat
    BY RateAssumption, Bounds DEF AtLeastFloor
  <2>. QED
    BY <1>3, <2>1, KernelOutcome
<1>. QED
  BY <1>1, <1>2, <1>3 DEF Adjust

LEMMA ServeTyped ==
    ASSUME TypeOK, Serve
    PROVE  TypeOK'
<1>1. /\ pc' = "loop" /\ pingon' \in BOOLEAN /\ firstflg' \in BOOLEAN
      /\ qstate' \in {"IDLE", "ACTIVE", "MINRTT"}
      /\ saved_active_limit' \in Nat /\ saved_realtime_limit' \in Nat
      /\ UNCHANGED <<addflag, sigterm, inflight, rawfltime, scan, tree, nreceived,
                     fil_triptime, pinglimit>>
  BY DEF Serve, EndOfPass, TypeOK, Mode
<1>2. plimit' \in Nat
  BY PingAssumption DEF Serve, ModeLimit, TypeOK
<1>3. Base(Mode) \in Nat
  BY DEF Base, TypeOK
<1>4. new_dbw_ul' \in Nat /\ dbw_ul' \in Nat /\ klimit' \in Nat
  <2>1. CASE qstate = Mode
    <3>1. Adjust(new_dbw_ul, dbw_ul, klimit, plimit')
      BY <2>1 DEF Serve
    <3>. QED
      BY <3>1, <1>2, AdjustTyped DEF TypeOK
  <2>2. CASE qstate # Mode
    <3>1. PICK k \in Kernel(dbw_ul, klimit, Base(Mode)) :
              Adjust(Base(Mode), Base(Mode), k, plimit')
      BY <2>2 DEF Serve
    <3>2. k \in Nat
      BY <1>3, KernelOutcome DEF TypeOK
    <3>. QED
      BY <3>1, <3>2, <1>2, <1>3, AdjustTyped
  <2>. QED
    BY <2>1, <2>2
<1>. QED
  BY <1>1, <1>2, <1>4 DEF TypeOK, scan

\* The program state keeps its types: no count outgrows its width, no limit
\* leaves the naturals, over any interleaving of the daemon and its environment.
THEOREM TypeCorrect == Spec => []TypeOK
<1>1. ASSUME Init PROVE TypeOK
  <2>1. 0 \in 0 .. Wrap - 1 /\ 0 \in 0 .. Period /\ PingLimitCl \in Nat
    BY PingAssumption
  <2>2. Start \in Nat /\ DBW_UL \in Nat
    BY Bounds
  <2>3. AddFlags \subseteq BOOLEAN
    BY PingAssumption
  <2>. QED
    BY <1>1, <2>1, <2>2, <2>3 DEF Init, TypeOK
<1>2. TypeOK /\ [Next]_vars => TypeOK'
  <2> SUFFICES ASSUME TypeOK, [Next]_vars
               PROVE  TypeOK'
    OBVIOUS
  <2> USE DEF TypeOK, pings, proposals, limits, scan, goal, kernel
  <2>1. CASE LoopTop
    <3>1. inflight' \subseteq 0 .. MaxAge
      <4>1. {0} \cup {a + 1 : a \in {b \in inflight : b < MaxAge}} \subseteq 0 .. MaxAge
        BY PingAssumption
      <4>. QED
        BY <2>1, <4>1 DEF LoopTop, Pinger
    <3>2. rawfltime' \in 0 .. Period
      BY <2>1, PingAssumption DEF LoopTop
    <3>. QED
      BY <2>1, <3>1, <3>2 DEF LoopTop
  <2>2. ASSUME NEW age \in 0 .. MaxAge, PrPack(age)
        PROVE  TypeOK'
    <3>1. nreceived' \in 0 .. Wrap - 1
      <4>1. nreceived \in Nat /\ Wrap \in Nat /\ Wrap > 0
        BY PingAssumption
      <4>2. nreceived' = (nreceived + 1) % Wrap
        BY <2>2 DEF PrPack, Count
      <4>. QED
        BY <4>1, <4>2
    <3>2. rawfltime' \in 0 .. Period
      BY <2>2, PingAssumption DEF PrPack
    <3>. QED
      BY <2>2, <3>1, <3>2 DEF PrPack
  <2>3. CASE Timeout
    BY <2>3 DEF Timeout
  <2>4. CASE ScanOk
    BY <2>4, FilterTyped, RateAssumption DEF ScanOk, Statistics
  <2>5. CASE ScanReset
    BY <2>5, RateAssumption DEF ScanReset, Statistics
  <2>6. CASE CheckWaits
    BY <2>6 DEF CheckWaits, EndOfPass, PingonInCheck
  <2>7. CASE CheckGoesIdle
    <3>1. dbw_ul' = new_dbw_ul /\ klimit' \in {klimit, new_dbw_ul}
      BY <2>7, KernelOutcome DEF CheckGoesIdle, TcClassModify
    <3>. QED
      BY <2>7, <3>1 DEF CheckGoesIdle, EndOfPass, PingonInCheck
  <2>8. CASE CheckMeasures
    <3>1. dbw_ul' = Unload /\ klimit' \in {klimit, Unload}
      BY <2>8, KernelOutcome DEF CheckMeasures, TcClassModify
    <3>2. nreceived' \in 0 .. Wrap - 1
      BY <2>8, PingAssumption DEF CheckMeasures
    <3>. QED
      BY <2>8, <3>1, <3>2, Bounds DEF CheckMeasures, EndOfPass, PingonInCheck
  <2>9. CASE InitMeasures
    BY <2>9 DEF InitMeasures, EndOfPass
  <2>10. CASE InitDone
    <3>1. dbw_ul' = new_dbw_ul /\ klimit' \in {klimit, new_dbw_ul}
      BY <2>10, KernelOutcome DEF InitDone, TcClassModify, RestoredRate
    <3>2. pinglimit' \in Nat
      BY <2>10, MeasuredTyped DEF InitDone
    <3>. QED
      BY <2>10, <3>1, <3>2 DEF InitDone, EndOfPass
  <2>11. CASE IdleStays
    BY <2>11 DEF IdleStays, EndOfPass
  <2>12. CASE Serve
    BY <2>12, ServeTyped
  <2>13. CASE Exit
    <3>1. dbw_ul' = DBW_UL /\ klimit' \in {klimit, DBW_UL}
      BY <2>13, KernelOutcome DEF Exit, TcClassModify
    <3>. QED
      BY <2>13, <3>1, Bounds DEF Exit
  <2>14. CASE Terminate
    BY <2>14 DEF Terminate
  <2>15. CASE ReplaceTree
    BY <2>15, Bounds DEF ReplaceTree
  <2>16. CASE UNCHANGED vars
    BY <2>16 DEF vars
  <2>. QED
    BY <2>1, <2>2, <2>3, <2>4, <2>5, <2>6, <2>7, <2>8, <2>9, <2>10, <2>11, <2>12,
       <2>13, <2>14, <2>15, <2>16 DEF Next, Daemon, Machine
<1>. QED
  BY <1>1, <1>2, PTL DEF Spec

-----------------------------------------------------------------------------
(***************************************************************************)
(* The limits: LimitInv is inductive relative to TypeOK.                   *)
(***************************************************************************)
\* One adjustment from a base in the range, believed to be in force.
LEMMA AdjustKeeps ==
    ASSUME NEW base \in LimitRange, NEW k, NEW limit, Adjust(base, base, k, limit)
    PROVE  /\ new_dbw_ul' \in LimitRange
           /\ dbw_ul' = new_dbw_ul'
           /\ \/ klimit' = k /\ dbw_ul' = base
              \/ klimit' \in Kernel(base, k, dbw_ul')
<1>1. CASE new_dbw_ul' = base /\ dbw_ul' = base /\ klimit' = k
  BY <1>1
<1>2. ASSUME NEW r \in Rates \cup {base}, r >= base,
             new_dbw_ul' = Cap(r), dbw_ul' = Cap(r), klimit' \in Kernel(base, k, Cap(r))
      PROVE  new_dbw_ul' \in LimitRange /\ dbw_ul' = new_dbw_ul'
             /\ klimit' \in Kernel(base, k, dbw_ul')
  <2>1. r \in Nat
    BY RateAssumption, Bounds DEF LimitRange
  <2>. QED
    BY <1>2, <2>1, Clamped
<1>3. ASSUME NEW r \in Rates \cup {base}, r <= base,
             new_dbw_ul' = AtLeastFloor(r), dbw_ul' = AtLeastFloor(r),
             klimit' \in Kernel(base, k, AtLeastFloor(r))
      PROVE  new_dbw_ul' \in LimitRange /\ dbw_ul' = new_dbw_ul'
             /\ klimit' \in Kernel(base, k, dbw_ul')
  <2>1. r \in Nat
    BY RateAssumption, Bounds DEF LimitRange
  <2>. QED
    BY <1>3, <2>1, Clamped
<1>. QED
  BY <1>1, <1>2, <1>3 DEF Adjust

\* The kernel part of the invariant, as a relation between a belief and a limit.
Tracks(d, k) == (tree = Absent => k = DBW_UL) /\ (~TalkMayFail => k \in {d, DBW_UL})

LEMMA RequestTracks ==
    ASSUME NEW d, NEW k, NEW rate, NEW result \in Kernel(d, k, rate), Tracks(d, k)
    PROVE  Tracks(rate, result)
BY DEF Kernel, Tracks

LEMMA ServeKeepsLimits ==
    ASSUME TypeOK, LimitInv, Serve
    PROVE  LimitInv'
<1> USE DEF LimitInv
<1>1. /\ pc = "machine" /\ pc' = "loop" /\ tree' = tree
      /\ qstate \in Governing /\ qstate' \in Governing
  BY DEF Serve, EndOfPass, Governing, Mode
<1>2. saved_active_limit' \in LimitRange /\ saved_realtime_limit' \in LimitRange
  BY DEF Serve, LimitInBand
<1>3. Base(Mode) \in LimitRange
  BY DEF Base, LimitInBand
<1>4. Tracks(dbw_ul, klimit)
  BY DEF Tracks, KernelFollows, NoTreeFullLimit
<1>5. new_dbw_ul' \in LimitRange /\ dbw_ul' = new_dbw_ul' /\ Tracks(dbw_ul', klimit')
  <2>1. CASE qstate = Mode
    <3>1. dbw_ul = new_dbw_ul /\ new_dbw_ul \in LimitRange
      BY <1>1 DEF BeliefMatchesState, Governing, LimitInBand
    <3>2. Adjust(new_dbw_ul, new_dbw_ul, klimit, plimit')
      BY <2>1, <3>1 DEF Serve
    <3>. QED
      BY <3>1, <3>2, <1>4, AdjustKeeps, RequestTracks
  <2>2. CASE qstate # Mode
    <3>1. PICK k \in Kernel(dbw_ul, klimit, Base(Mode)) :
              Adjust(Base(Mode), Base(Mode), k, plimit')
      BY <2>2 DEF Serve
    <3>2. Tracks(Base(Mode), k)
      BY <3>1, <1>4, RequestTracks
    <3>. QED
      BY <3>1, <3>2, <1>3, AdjustKeeps, RequestTracks
  <2>. QED
    BY <2>1, <2>2
<1>6. LimitInBand'
  BY <1>2, <1>5 DEF LimitInBand, LimitRange
<1>7. BeliefMatchesState' /\ StoppedIsExit'
  BY <1>1, <1>5 DEF BeliefMatchesState, StoppedIsExit, Governing
<1>8. KernelFollows' /\ NoTreeFullLimit'
  BY <1>1, <1>5 DEF Tracks, KernelFollows, NoTreeFullLimit
<1>. QED
  BY <1>6, <1>7, <1>8

\* A call of tc_class_modify outside the adjustment.
LEMMA ModifyKeeps ==
    ASSUME LimitInv, NEW d, NEW rate, TcClassModify(d, rate), tree' = tree,
           d = dbw_ul \/ d = 0, rate # 0
    PROVE  dbw_ul' = rate /\ KernelFollows' /\ NoTreeFullLimit'
BY DEF LimitInv, TcClassModify, Kernel, KernelFollows, NoTreeFullLimit

LEMMA LimitStep == TypeOK /\ LimitInv /\ [Next]_vars => LimitInv'
<1> SUFFICES ASSUME TypeOK, LimitInv, [Next]_vars
             PROVE  LimitInv'
  OBVIOUS
<1> USE DEF LimitInv, LimitInBand, LimitRange, BeliefMatchesState, KernelFollows,
            NoTreeFullLimit, StoppedIsExit, proposals, limits, kernel, scan
<1>1. CASE LoopTop
  BY <1>1 DEF LoopTop
<1>2. ASSUME NEW age \in 0 .. MaxAge, PrPack(age)
      PROVE  LimitInv'
  BY <1>2 DEF PrPack
<1>3. CASE Timeout
  BY <1>3 DEF Timeout
<1>4. CASE ScanOk
  BY <1>4 DEF ScanOk
<1>5. CASE ScanReset
  <2>1. dbw_ul \in {new_dbw_ul, Unload, DBW_UL}
    BY DEF TypeOK
  <2>. QED
    BY <1>5, <2>1 DEF ScanReset
<1>6. CASE CheckWaits
  BY <1>6 DEF CheckWaits, EndOfPass
<1>7. CASE CheckGoesIdle
  <2>1. dbw_ul' = new_dbw_ul /\ KernelFollows' /\ NoTreeFullLimit'
    BY <1>7, Bounds, ModifyKeeps DEF CheckGoesIdle, EndOfPass, DirectBelief
  <2>. QED
    BY <1>7, <2>1 DEF CheckGoesIdle, EndOfPass
<1>8. CASE CheckMeasures
  <2>1. dbw_ul' = Unload /\ KernelFollows' /\ NoTreeFullLimit'
    BY <1>8, Bounds, ModifyKeeps DEF CheckMeasures, EndOfPass
  <2>. QED
    BY <1>8, <2>1 DEF CheckMeasures, EndOfPass
<1>9. CASE InitMeasures
  BY <1>9 DEF InitMeasures, EndOfPass
<1>10. CASE InitDone
  <2>1. dbw_ul' = new_dbw_ul /\ KernelFollows' /\ NoTreeFullLimit'
    BY <1>10, Bounds, ModifyKeeps DEF InitDone, EndOfPass, RestoredRate
  <2>. QED
    BY <1>10, <2>1 DEF InitDone, EndOfPass
<1>11. CASE IdleStays
  BY <1>11 DEF IdleStays, EndOfPass
<1>12. CASE Serve
  BY <1>12, ServeKeepsLimits
<1>13. CASE Exit
  <2>1. dbw_ul' = DBW_UL /\ KernelFollows' /\ NoTreeFullLimit'
    BY <1>13, Bounds, ModifyKeeps DEF Exit
  <2>. QED
    BY <1>13, <2>1 DEF Exit
<1>14. CASE Terminate
  BY <1>14 DEF Terminate
<1>15. CASE ReplaceTree
  BY <1>15 DEF ReplaceTree
<1>16. CASE UNCHANGED vars
  BY <1>16 DEF vars
<1>. QED
  BY <1>1, <1>2, <1>3, <1>4, <1>5, <1>6, <1>7, <1>8, <1>9, <1>10, <1>11, <1>12,
     <1>13, <1>14, <1>15, <1>16 DEF Next, Daemon, Machine

\* The proposed and remembered limits stay in the dynamic range, the belief is
\* the one the state calls for, and an obedient kernel follows it.
THEOREM LimitsGoverned == Spec => []LimitInv
<1>1. Init => LimitInv
  BY Bounds DEF Init, LimitInv, LimitInBand, LimitRange, BeliefMatchesState,
                KernelFollows, NoTreeFullLimit, StoppedIsExit
<1>. QED
  BY <1>1, LimitStep, TypeCorrect, PTL DEF Spec

\* The measuring limit of 1000 bps is in force in CHECK and INIT only.
THEOREM NeverStrangled == Spec => []NotStrangled
<1>1. TypeOK /\ LimitInv => NotStrangled
  <2> SUFFICES ASSUME TypeOK, LimitInv, ~TalkMayFail, klimit = Unload
               PROVE  qstate \in {"CHECK", "INIT"}
    BY DEF NotStrangled
  <2>1. dbw_ul = Unload
    BY Bounds DEF LimitInv, KernelFollows
  <2>2. dbw_ul # DBW_UL /\ dbw_ul # new_dbw_ul
    BY <2>1, Bounds DEF LimitInv, LimitInBand, LimitRange
  <2>. QED
    BY <2>2 DEF TypeOK, LimitInv, BeliefMatchesState
<1>. QED
  BY <1>1, TypeCorrect, LimitsGoverned, PTL

\* A stopped daemon has restored the configured limit.
THEOREM RestoredOnExit == Spec => []ExitRestores
<1>1. LimitInv => ExitRestores
  BY DEF LimitInv, StoppedIsExit, BeliefMatchesState, KernelFollows, ExitRestores
<1>. QED
  BY <1>1, LimitsGoverned, PTL

-----------------------------------------------------------------------------
(***************************************************************************)
(* The pings.                                                              *)
(***************************************************************************)
LEMMA PingStep == TypeOK /\ PingInv /\ [Next]_vars => PingInv'
<1> SUFFICES ASSUME TypeOK, PingInv, [Next]_vars
             PROVE  PingInv'
  OBVIOUS
<1> USE DEF PingInv, PingerRuns, PingLimitUsable, goal
<1>1. CASE LoopTop
  BY <1>1 DEF LoopTop
<1>2. ASSUME NEW age \in 0 .. MaxAge, PrPack(age)
      PROVE  PingInv'
  BY <1>2 DEF PrPack
<1>3. CASE Timeout
  BY <1>3 DEF Timeout
<1>4. CASE ScanOk
  BY <1>4 DEF ScanOk
<1>5. CASE ScanReset
  BY <1>5 DEF ScanReset
<1>6. CASE CheckWaits
  BY <1>6 DEF CheckWaits
<1>7. CASE CheckGoesIdle
  BY <1>7 DEF CheckGoesIdle, Direct, TypeOK
<1>8. CASE CheckMeasures
  BY <1>8 DEF CheckMeasures, PingonInCheck
<1>9. CASE InitMeasures
  BY <1>9 DEF InitMeasures
<1>10. CASE InitDone
  BY <1>10, MeasuredTyped DEF InitDone
<1>11. CASE IdleStays
  BY <1>11 DEF IdleStays
<1>12. CASE Serve
  <2>1. pingon' = TRUE /\ pinglimit' = pinglimit /\ pinglimit > 0
    BY <1>12 DEF Serve
  <2>2. plimit' >= pinglimit
    BY <1>12, PingAssumption DEF Serve, ModeLimit, TypeOK
  <2>. QED
    BY <2>1, <2>2
<1>13. CASE Exit
  BY <1>13 DEF Exit
<1>14. CASE Terminate
  BY <1>14 DEF Terminate
<1>15. CASE ReplaceTree
  BY <1>15 DEF ReplaceTree
<1>16. CASE UNCHANGED vars
  BY <1>16 DEF vars
<1>. QED
  BY <1>1, <1>2, <1>3, <1>4, <1>5, <1>6, <1>7, <1>8, <1>9, <1>10, <1>11, <1>12,
     <1>13, <1>14, <1>15, <1>16 DEF Next, Daemon, Machine

\* The pinger is on wherever round trips are awaited or judged, and the limit the
\* adjustment formulas divide by is positive.
THEOREM PingsUsable == Spec => [](PingerRuns /\ PingLimitUsable)
<1>1. Init => PingInv
  BY DEF Init, PingInv, PingerRuns, PingLimitUsable
<1>2. PingInv <=> PingerRuns /\ PingLimitUsable
  BY DEF PingInv
<1>. QED
  BY <1>1, <1>2, PingStep, TypeCorrect, PTL DEF Spec

-----------------------------------------------------------------------------
(***************************************************************************)
(* The refinement.                                                         *)
(***************************************************************************)
LEMMA GovernorStep ==
    TypeOK /\ LimitInv /\ LimitInv' /\ [Next]_vars => [Governor!Next]_(Governor!vars)
<1> SUFFICES ASSUME TypeOK, LimitInv, LimitInv', [Next]_vars
             PROVE  [Governor!Next]_(Governor!vars)
  OBVIOUS
<1> USE DEF Governor!Next, Governor!vars, Governor!Measure, Governor!Govern,
            Governor!Restart, Governor!Release, Phase
<1>1. CASE UNCHANGED <<qstate, dbw_ul>>
  BY <1>1
<1>2. CASE ScanReset
  BY <1>2 DEF ScanReset, limits, TypeOK, LimitInv, StoppedIsExit
<1>3. CASE CheckGoesIdle
  BY <1>3 DEF CheckGoesIdle, TcClassModify, LimitInv, LimitInBand, LimitRange
<1>4. CASE CheckMeasures
  BY <1>4 DEF CheckMeasures, TcClassModify
<1>5. CASE InitDone
  BY <1>5 DEF InitDone, TcClassModify, RestoredRate, LimitInv, LimitInBand, LimitRange
<1>6. CASE Serve
  <2>1. qstate \in {"IDLE", "ACTIVE", "MINRTT"} /\ qstate' \in {"IDLE", "ACTIVE", "MINRTT"}
    BY <1>6 DEF Serve, Mode
  <2>2. dbw_ul' \in LimitRange
    BY <2>1 DEF LimitInv, LimitInBand, BeliefMatchesState
  <2>. QED
    BY <2>1, <2>2 DEF LimitRange
<1>7. CASE Exit
  BY <1>7 DEF Exit, TcClassModify, TypeOK, LimitInv, StoppedIsExit
<1>8. CASE LoopTop \/ Timeout \/ ScanOk \/ Terminate \/ ReplaceTree
  BY <1>1, <1>8 DEF LoopTop, Timeout, ScanOk, Terminate, ReplaceTree, limits
<1>9. CASE \E age \in 0 .. MaxAge : PrPack(age)
  BY <1>1, <1>9 DEF PrPack, limits
<1>10. CASE CheckWaits \/ InitMeasures \/ IdleStays
  BY <1>1, <1>10 DEF CheckWaits, InitMeasures, IdleStays, limits
<1>11. CASE UNCHANGED vars
  BY <1>1, <1>11 DEF vars, limits
<1>. QED
  BY <1>2, <1>3, <1>4, <1>5, <1>6, <1>7, <1>8, <1>9, <1>10, <1>11
     DEF Next, Daemon, Machine

\* The daemon implements LinkGovernor: it throttles to the measuring limit only
\* to measure, governs within the dynamic range, and ends by giving the link back.
THEOREM Implements == Spec => ImplementsGovernor
<1>1. Init => Governor!Init
  BY DEF Init, Governor!Init, Phase
<1>. QED
  BY <1>1, GovernorStep, TypeCorrect, LimitsGoverned, PTL
     DEF Spec, ImplementsGovernor, Governor!Spec

-----------------------------------------------------------------------------
(***************************************************************************)
(* The class list.                                                         *)
(***************************************************************************)
\* Until the first pass is over the state machine is in CHECK, and it never steps
\* on a list that is too long.
ScanInv ==
    /\ pc # "done" /\ firstflg => qstate = "CHECK"
    /\ pc = "machine" => known \notin Oversize

LEMMA ScanStep == ScanInv /\ [Next]_vars => ScanInv'
<1> SUFFICES ASSUME ScanInv, [Next]_vars
             PROVE  ScanInv'
  OBVIOUS
<1> USE DEF ScanInv
<1>1. CASE ScanOk \/ ScanReset
  BY <1>1 DEF ScanOk, ScanReset, ClassesChanged
<1>2. CASE CheckWaits \/ CheckGoesIdle \/ CheckMeasures \/ InitMeasures \/ InitDone
           \/ IdleStays \/ Serve
  BY <1>2 DEF CheckWaits, CheckGoesIdle, CheckMeasures, InitMeasures, InitDone,
              IdleStays, Serve, EndOfPass
<1>3. CASE LoopTop \/ Timeout \/ Exit \/ Terminate \/ ReplaceTree
  BY <1>3 DEF LoopTop, Timeout, Exit, Terminate, ReplaceTree, scan
<1>4. CASE \E age \in 0 .. MaxAge : PrPack(age)
  BY <1>4 DEF PrPack, scan
<1>5. CASE UNCHANGED vars
  BY <1>5 DEF vars, scan
<1>. QED
  BY <1>1, <1>2, <1>3, <1>4, <1>5 DEF Next, Daemon, Machine

\* A change of the class tree always sends the machine back to CHECK before it
\* measures or governs again, and a list that is too long keeps it there.
THEOREM GovernsKnownTree == Spec => GovernsWhatItLearnt
<1> DEFINE Keeps == qstate' # "CHECK" =>
                      /\ known' = known
                      /\ pc = "machine" => known \notin Oversize
<1>1. Init => ScanInv
  BY DEF Init, ScanInv
<1>2. ScanInv /\ [Next]_vars => [Keeps]_vars
  <2> SUFFICES ASSUME ScanInv, Next
               PROVE  Keeps
    BY DEF vars
  <2>1. pc = "machine" => known \notin Oversize
    BY DEF ScanInv
  <2>2. CASE ScanOk
    BY <2>1, <2>2 DEF ScanOk, ScanInv, ClassesChanged
  <2>3. CASE ScanReset
    BY <2>3 DEF ScanReset
  <2>4. CASE ~ScanOk /\ ~ScanReset
    <3>1. CASE Machine
      BY <2>1, <3>1 DEF Machine, CheckWaits, CheckGoesIdle, CheckMeasures, InitMeasures,
                        InitDone, IdleStays, Serve, EndOfPass, scan
    <3>2. CASE LoopTop \/ Timeout \/ Exit \/ Terminate \/ ReplaceTree
      BY <2>1, <3>2 DEF LoopTop, Timeout, Exit, Terminate, ReplaceTree, scan
    <3>3. CASE \E age \in 0 .. MaxAge : PrPack(age)
      BY <2>1, <3>3 DEF PrPack, scan
    <3>. QED
      BY <2>4, <3>1, <3>2, <3>3 DEF Next, Daemon
  <2>. QED
    BY <2>2, <2>3, <2>4
<1>. QED
  BY <1>1, <1>2, ScanStep, PTL DEF Spec, GovernsWhatItLearnt

-----------------------------------------------------------------------------
(***************************************************************************)
(* What single steps may do.                                               *)
(***************************************************************************)
\* Only the direct path leaves CHECK for a governing state; it talks to the
\* kernel whatever the daemon believes, because no proposal is zero.
THEOREM SyncsOnEntry == Spec => SyncedOnEntry
<1> DEFINE Syncs == ~TalkMayFail /\ tree # Absent /\ qstate = "CHECK" /\ qstate' \in Governing
                      => klimit' = new_dbw_ul'
<1>1. LimitInv /\ [Next]_vars => [Syncs]_vars
  <2> SUFFICES ASSUME LimitInv, Next, ~TalkMayFail, tree # Absent,
                      qstate = "CHECK", qstate' \in Governing
               PROVE  klimit' = new_dbw_ul'
    BY DEF vars
  <2>1. CASE CheckGoesIdle
    <3>1. new_dbw_ul' = new_dbw_ul /\ new_dbw_ul # 0
      BY <2>1, Bounds DEF CheckGoesIdle, proposals, LimitInv, LimitInBand, LimitRange
    <3>. QED
      BY <2>1, <3>1 DEF CheckGoesIdle, TcClassModify, Kernel, DirectBelief
  <2>2. CASE Machine /\ ~CheckGoesIdle
    BY <2>2 DEF Machine, CheckWaits, CheckMeasures, InitMeasures, InitDone, IdleStays,
                Serve, Governing
  <2>3. CASE ~Machine
    BY <2>3 DEF Next, Daemon, LoopTop, PrPack, Timeout, ScanOk, ScanReset, Exit,
                Terminate, ReplaceTree, Governing
  <2>. QED
    BY <2>1, <2>2, <2>3
<1>. QED
  BY <1>1, LimitsGoverned, PTL DEF Spec, SyncedOnEntry

\* A mode switch starts from the limit its mode had, and the adjustment moves it
\* in the direction of the ping error.
THEOREM ResumesOnSwitch == Spec => SwitchResumes
<1> DEFINE Resumed(m) == IF m = "ACTIVE" THEN saved_active_limit ELSE saved_realtime_limit
           Resumes(m) == qstate' = m /\ qstate \in Governing \ {m} =>
                           IF fil_triptime < plimit' THEN new_dbw_ul' >= Resumed(m)
                           ELSE new_dbw_ul' <= Resumed(m)
<1>1. TypeOK /\ TypeOK' /\ LimitInv /\ [Next]_vars => [\A m \in {"ACTIVE", "MINRTT"} : Resumes(m)]_vars
  <2> SUFFICES ASSUME TypeOK, TypeOK', LimitInv, Next, NEW m \in {"ACTIVE", "MINRTT"},
                      qstate' = m, qstate \in Governing \ {m}
               PROVE  IF fil_triptime < plimit' THEN new_dbw_ul' >= Resumed(m)
                      ELSE new_dbw_ul' <= Resumed(m)
    BY DEF vars
  <2>1. Serve
    BY DEF Next, Daemon, Machine, LoopTop, PrPack, Timeout, ScanOk, ScanReset, Exit,
           CheckWaits, CheckGoesIdle, CheckMeasures, InitMeasures, InitDone, IdleStays,
           Terminate, ReplaceTree, Governing
  <2>2. m = Mode /\ Base(m) = Resumed(m)
    BY <2>1 DEF Serve, Base
  <2>3. Base(m) \in LimitRange /\ Base(m) \in Nat
    BY <2>2, Bounds DEF LimitInv, LimitInBand, LimitRange
  <2>4. PICK k : Adjust(Base(m), Base(m), k, plimit')
    BY <2>1, <2>2 DEF Serve
  <2>5. CASE fil_triptime < plimit'
    <3>0. ~(fil_triptime >= plimit')
      BY <2>5, PingAssumption DEF TypeOK
    <3>1. CASE new_dbw_ul' = Base(m)
      BY <2>2, <2>3, <2>5, <3>1
    <3>2. ASSUME NEW r \in Rates \cup {Base(m)}, r >= Base(m), new_dbw_ul' = Cap(r)
          PROVE  new_dbw_ul' >= Base(m)
      BY <2>3, <3>2, Bounds, RateAssumption DEF Cap, LimitRange
    <3>. QED
      BY <2>2, <2>4, <2>5, <3>0, <3>1, <3>2 DEF Adjust
  <2>6. CASE ~(fil_triptime < plimit')
    <3>1. ASSUME NEW r \in Rates \cup {Base(m)}, r <= Base(m), new_dbw_ul' = AtLeastFloor(r)
          PROVE  new_dbw_ul' <= Base(m)
      BY <2>3, <3>1, Bounds, RateAssumption DEF AtLeastFloor, LimitRange
    <3>. QED
      BY <2>2, <2>4, <2>6, <3>1 DEF Adjust
  <2>. QED
    BY <2>5, <2>6
<1>. QED
  BY <1>1, TypeCorrect, LimitsGoverned, PTL DEF Spec, SwitchResumes
=============================================================================
