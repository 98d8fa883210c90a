------------------------------- MODULE Qosmon -------------------------------
(***************************************************************************)
(* The active congestion controller of net/qos-gargoyle/src/qosmon.c.      *)
(*                                                                         *)
(* The daemon pings a target once per period, scans the HFSC classes of    *)
(* imq0, and moves the upper limit of the parent class 1:1 so that the     *)
(* round trip time stays below a limit it has measured for itself.  One    *)
(* pass of the main loop is: pinger, a select loop that drains the replies *)
(* until the period is over, class_list, and one step of the state         *)
(* machine.  The environment delivers or loses replies, loads the link,    *)
(* rebuilds or removes the class tree, and sends SIGTERM.                  *)
(*                                                                         *)
(* Data is abstracted: link limits, loads and round trip times are members *)
(* of small sets; the two slow adjustment formulas and the two digital     *)
(* filters are any move in the direction the formula gives.                *)
(***************************************************************************)
EXTENDS Integers

CONSTANTS
    DBW_UL,          \* the configured download limit, third argument
    Unload,          \* the 1000 bps that unload the link for a measurement
    Rates,           \* limits the adjustment formulas may propose
    Loads,           \* values of the filtered download load dbw_fil
    Trips,           \* round trip times
    Period,          \* the ping period, an upper bound of Trips
    PingMin, PingMax,\* sanity bounds of a measured ping limit
    PingLimitCl,     \* the ping limit of the command line, 0 when absent
    AddFlags,        \* the values of -a to consider: given or not
    WarmPings,       \* 10000/period
    MeasurePings,    \* 15000/period
    Wrap,            \* nreceived counts modulo Wrap (2^16 in the code)
    MaxAge,          \* bound: a reply later than this many pings is lost
    Layouts,         \* class lists imq0 can have
    Oversize,        \* those with more than STATCNT classes
    Absent,          \* imq0 is missing: the class list is empty
    TalkMayFail      \* may the kernel refuse a netlink request

ASSUME RateAssumption ==
    /\ Unload \in Nat \ {0}
    /\ DBW_UL \in Nat /\ DBW_UL >= 100 * Unload
    /\ Rates \subseteq Nat /\ Loads \subseteq Nat

ASSUME PingAssumption ==
    /\ Period \in Nat \ {0} /\ Trips \subseteq 0 .. Period /\ Period \in Trips
    /\ PingMin \in Nat \ {0} /\ PingMax \in Nat /\ PingMin <= PingMax
    /\ PingLimitCl \in Nat /\ AddFlags \subseteq BOOLEAN
    /\ WarmPings \in Nat /\ MeasurePings \in Nat /\ WarmPings <= MeasurePings
    /\ MaxAge \in Nat /\ Wrap \in Nat
    /\ Wrap > MeasurePings + MaxAge + 3

ASSUME TreeAssumption ==
    /\ Oversize \subseteq Layouts /\ Absent \notin Layouts
    /\ TalkMayFail \in BOOLEAN

VARIABLES
    pc,            \* where the daemon is: loop, wait, scan, machine, exit, done
    addflag,       \* was -a given
    sigterm,       \* a terminating signal was caught
    qstate,        \* state of the state machine
    pingon,        \* is the pinger active
    inflight,      \* ages of the requests a reply may still arrive for; the
                   \* request numbered ntransmitted has age 0
    nreceived,     \* replies counted
    rawfltime,     \* trip time seen in this pass
    fil_triptime,  \* filtered trip time
    firstflg,      \* first pass over the classes
    known,         \* the class list recorded in dnstats
    rtActive,      \* RTDCA > 0
    dbw_fil,       \* filtered download load
    pinglimit, plimit,
    dbw_ul,        \* the limit last sent to the kernel
    new_dbw_ul,    \* the limit proposed by the state machine
    saved_active_limit, saved_realtime_limit,
    tree,          \* the class list imq0 has
    klimit         \* the upper limit the kernel enforces on 1:1

pings  == <<inflight, nreceived, rawfltime>>
proposals == <<new_dbw_ul, saved_active_limit, saved_realtime_limit>>
limits == <<dbw_ul, proposals>>
scan   == <<known, rtActive, dbw_fil>>
goal   == <<pinglimit, plimit>>
kernel == <<tree, klimit>>
vars   == <<addflag, pc, sigterm, qstate, pingon, pings, fil_triptime, firstflg,
            scan, goal, limits, kernel>>

Floor == (15 * DBW_UL) \div 100
Start == (9 * DBW_UL) \div 10

-----------------------------------------------------------------------------
(***************************************************************************)
(* The pieces of the state machine.                                        *)
(***************************************************************************)
Between(a, b) == {t \in Trips \cup {a} : (a <= t /\ t <= b) \/ (b <= t /\ t <= a)}

\* Next values of the ping filter: any level from the old one to the sample.
Filtered == IF pingon THEN Between(fil_triptime, rawfltime) ELSE {fil_triptime}

Clamp(limit) == IF limit < PingMin THEN PingMin
                ELSE IF limit > PingMax THEN PingMax ELSE limit

Measured(fil) == Clamp(IF addflag THEN pinglimit + (11 * fil) \div 10
                       ELSE 2 * fil)

Cap_NoCeiling(rate) == rate
Cap(rate) == IF rate > DBW_UL THEN DBW_UL ELSE rate

AtLeastFloor_None(rate) == rate
AtLeastFloor(rate) == IF rate < Floor THEN Floor ELSE rate

\* The limits that 1:1 may have after tc_class_modify(rate) when the daemon
\* believes the limit is d and the kernel has k.
Kernel_SkipsFull(d, k, rate) == IF rate = DBW_UL THEN {k} ELSE {rate}
Kernel(d, k, rate) ==
    IF d = rate \/ tree = Absent THEN {k}
    ELSE {rate} \cup (IF TalkMayFail THEN {k} ELSE {})

\* tc_class_modify(rate): the belief changes before the kernel is asked.
TcClassModify(d, rate) ==
    /\ dbw_ul' = rate
    /\ klimit' \in Kernel(d, klimit, rate)

\* The belief with which the direct path calls tc_class_modify.
DirectBelief_Cached == dbw_ul
DirectBelief == 0

-----------------------------------------------------------------------------
(***************************************************************************)
(* main, up to the loop.  The start-up scan refuses a tree with too many   *)
(* classes but not a missing device, whose error return it ignores.        *)
(***************************************************************************)
Init ==
    /\ addflag \in AddFlags
    /\ pc = "loop" /\ sigterm = FALSE
    /\ qstate = "CHECK" /\ pingon = FALSE
    /\ inflight = {} /\ nreceived = 0 /\ rawfltime = 0
    /\ fil_triptime = 0 /\ firstflg = TRUE
    /\ known = Absent /\ rtActive = FALSE /\ dbw_fil = 0
    /\ pinglimit = PingLimitCl /\ plimit = 0
    /\ dbw_ul = DBW_UL /\ new_dbw_ul = Start
    /\ saved_active_limit = Start /\ saved_realtime_limit = Start
    /\ tree \in (Layouts \ Oversize) \cup {Absent} /\ klimit = DBW_UL

\* pinger: the next request gets number ++ntransmitted, all others age.
Pinger == inflight' = {0} \cup {a + 1 : a \in {b \in inflight : b < MaxAge}}

\* The head of the main loop.
StopRequested_Never == FALSE
StopRequested == sigterm

LoopTop ==
    /\ pc = "loop"
    /\ IF StopRequested
       THEN /\ pc' = "exit"
            /\ UNCHANGED <<inflight, rawfltime>>
       ELSE /\ pc' = "wait"
            /\ rawfltime' = Period
            /\ IF pingon THEN Pinger ELSE UNCHANGED inflight
    /\ UNCHANGED <<addflag, sigterm, qstate, pingon, nreceived, fil_triptime,
                   firstflg, scan, goal, limits, kernel>>

\* A reply is read in the select loop.  Every reply to this process counts, only
\* the one to the latest request gives a trip time.
Count_Plain(n) == n + 1
Count(n) == (n + 1) % Wrap

PrPack(age) ==
    /\ pc = "wait"
    /\ age \in inflight
    /\ inflight' = inflight \ {age}
    /\ nreceived' = Count(nreceived)
    /\ IF age = 0 THEN rawfltime' \in Trips ELSE UNCHANGED rawfltime
    /\ UNCHANGED <<addflag, pc, sigterm, qstate, pingon, fil_triptime, firstflg,
                   scan, goal, limits, kernel>>

\* select times out: the period is over.
Timeout ==
    /\ pc = "wait"
    /\ pc' = "scan"
    /\ UNCHANGED <<addflag, sigterm, qstate, pingon, pings, fil_triptime,
                   firstflg, scan, goal, limits, kernel>>

-----------------------------------------------------------------------------
(***************************************************************************)
(* class_list.  The classes found are compared with those recorded; the    *)
(* load and the activity of the realtime classes are refreshed, unless the *)
(* device is missing: then RTDCA is zero and dbw_fil keeps its old value.  *)
(***************************************************************************)
Statistics ==
    IF tree = Absent
    THEN rtActive' = FALSE /\ UNCHANGED dbw_fil
    ELSE rtActive' \in BOOLEAN /\ dbw_fil' \in Loads

\* errorflg, or a class count that differs from the previous one.
ClassesChanged_CountOnly == tree \in Oversize
ClassesChanged == tree \in Oversize \/ (~firstflg /\ tree # known)

ScanOk ==
    /\ pc = "scan"
    /\ ~ClassesChanged
    /\ pc' = "machine"
    /\ known' = tree
    /\ Statistics
    /\ fil_triptime' \in Filtered
    /\ UNCHANGED <<addflag, sigterm, qstate, pingon, pings, firstflg, goal,
                   limits, kernel>>

\* Start over.  What was counted, measured or sent to the kernel stays.
ScanReset ==
    /\ pc = "scan"
    /\ ClassesChanged
    /\ pc' = "loop"
    /\ known' = tree
    /\ Statistics
    /\ firstflg' = TRUE /\ pingon' = FALSE /\ qstate' = "CHECK"
    /\ UNCHANGED <<addflag, sigterm, pings, fil_triptime, goal, limits, kernel>>

-----------------------------------------------------------------------------
(***************************************************************************)
(* The state machine, one action per state.                                *)
(***************************************************************************)
EndOfPass ==
    /\ pc = "machine" /\ pc' = "loop"
    /\ firstflg' = FALSE
    /\ UNCHANGED <<addflag, sigterm, inflight, rawfltime, scan, tree>>

PingonInCheck_Never == FALSE
PingonInCheck == TRUE

\* CHECK: nothing happens before two replies were counted.
CheckWaits ==
    /\ EndOfPass
    /\ qstate = "CHECK" /\ nreceived < 2
    /\ pingon' = PingonInCheck
    /\ UNCHANGED <<qstate, nreceived, fil_triptime, goal, limits, klimit>>

\* With a ping limit and no -a there is nothing to measure.
Direct == pinglimit # 0 /\ ~addflag

CheckGoesIdle ==
    /\ EndOfPass
    /\ qstate = "CHECK" /\ nreceived >= 2 /\ Direct
    /\ pingon' = PingonInCheck
    /\ qstate' = "IDLE"
    /\ fil_triptime' = rawfltime
    /\ TcClassModify(DirectBelief, new_dbw_ul)
    /\ UNCHANGED <<nreceived, goal, proposals>>

\* Unload the link for the measurement.
CheckMeasures ==
    /\ EndOfPass
    /\ qstate = "CHECK" /\ nreceived >= 2 /\ ~Direct
    /\ pingon' = PingonInCheck
    /\ qstate' = "INIT"
    /\ nreceived' = 0
    /\ TcClassModify(dbw_ul, Unload)
    /\ UNCHANGED <<fil_triptime, goal, proposals>>

\* INIT: the filter follows the sample while warming up.
WarmingUp == nreceived < WarmPings + 1
Enough_Exactly == nreceived = MeasurePings + 2
Enough == nreceived > MeasurePings + 1

InitMeasures ==
    /\ EndOfPass
    /\ qstate = "INIT" /\ ~Enough
    /\ fil_triptime' = IF WarmingUp THEN rawfltime ELSE fil_triptime
    /\ UNCHANGED <<qstate, pingon, nreceived, goal, limits, klimit>>

\* The measurement is complete: restore the bandwidth and set the ping limit.
RestoredRate_None == dbw_ul
RestoredRate == new_dbw_ul

InitDone ==
    /\ EndOfPass
    /\ qstate = "INIT" /\ Enough
    /\ qstate' = "IDLE"
    /\ TcClassModify(dbw_ul, RestoredRate)
    /\ pinglimit' = Measured(fil_triptime)
    /\ UNCHANGED <<pingon, nreceived, fil_triptime, plimit, proposals>>

\* IDLE: no pings until the load reaches 15% of the link.
IdleStays ==
    /\ EndOfPass
    /\ qstate = "IDLE" /\ 100 * dbw_fil < 15 * DBW_UL
    /\ pingon' = FALSE
    /\ UNCHANGED <<qstate, nreceived, fil_triptime, goal, limits, klimit>>

(***************************************************************************)
(* ACTIVE and MINRTT, and IDLE when the load is back: save the limit of    *)
(* the mode being left or kept, choose the mode, resume its saved limit on *)
(* a switch, then adjust.  Below 10% load the next state is IDLE.          *)
(***************************************************************************)
Mode == IF ~rtActive /\ addflag THEN "ACTIVE" ELSE "MINRTT"

ModeLimit_Plain(mode) == IF mode = "ACTIVE" THEN (135 * PingLimitCl) \div 100
                         ELSE pinglimit
ModeLimit(mode) == IF mode = "ACTIVE" THEN (135 * PingLimitCl) \div 100 + pinglimit
                   ELSE pinglimit

\* The limit a switch of mode resumes.
Base_Kept(mode) == new_dbw_ul
Base(mode) == IF mode = "ACTIVE" THEN saved_active_limit
              ELSE saved_realtime_limit

\* One adjustment from base, when the daemon believes d and the kernel has k.
\* The limit is raised only while the load reaches 85% of it.
Adjust(base, d, k, limit) ==
    \/ /\ fil_triptime < limit /\ 100 * dbw_fil < 85 * d
       /\ new_dbw_ul' = base /\ dbw_ul' = d /\ klimit' = k
    \/ /\ fil_triptime < limit /\ 100 * dbw_fil >= 85 * d
       /\ \E r \in {q \in Rates \cup {base} : q >= base} :
             /\ new_dbw_ul' = Cap(r) /\ dbw_ul' = Cap(r)
             /\ klimit' \in Kernel(d, k, Cap(r))
    \/ /\ fil_triptime >= limit
       /\ \E r \in {q \in Rates \cup {base} : q <= base} :
             /\ new_dbw_ul' = AtLeastFloor(r) /\ dbw_ul' = AtLeastFloor(r)
             /\ klimit' \in Kernel(d, k, AtLeastFloor(r))


Serve ==
    /\ EndOfPass
    /\ \/ qstate \in {"ACTIVE", "MINRTT"}
       \/ qstate = "IDLE" /\ 100 * dbw_fil >= 15 * DBW_UL
    /\ pingon' = TRUE
    /\ saved_realtime_limit' =
           IF qstate = "MINRTT" THEN new_dbw_ul ELSE saved_realtime_limit
    /\ saved_active_limit' =
           IF qstate = "ACTIVE" THEN new_dbw_ul ELSE saved_active_limit
    /\ plimit' = ModeLimit(Mode)
    /\ qstate' = IF 10 * dbw_fil < DBW_UL THEN "IDLE" ELSE Mode
    /\ IF qstate = Mode
       THEN Adjust(new_dbw_ul, dbw_ul, klimit, plimit')
       ELSE \E k \in Kernel(dbw_ul, klimit, Base(Mode)) :
               Adjust(Base(Mode), Base(Mode), k, plimit')
    /\ UNCHANGED <<nreceived, fil_triptime, pinglimit>>

Machine == \/ CheckWaits \/ CheckGoesIdle \/ CheckMeasures
           \/ InitMeasures \/ InitDone \/ IdleStays \/ Serve

\* After the loop: restore the configured limit and stop.
Exit ==
    /\ pc = "exit"
    /\ pc' = "done"
    /\ qstate' = "EXIT"
    /\ TcClassModify(dbw_ul, DBW_UL)
    /\ UNCHANGED <<addflag, sigterm, pingon, pings, fil_triptime, firstflg,
                   scan, goal, proposals, tree>>

-----------------------------------------------------------------------------
(***************************************************************************)
(* The environment.                                                        *)
(***************************************************************************)
\* SIGTERM.  A select it interrupts ends the loop at once; at any other point
\* the flag is seen at the head of the loop.
Terminate ==
    /\ pc \in {"loop", "wait", "scan", "machine"} /\ ~sigterm
    /\ sigterm' = TRUE
    /\ pc' \in {pc} \cup (IF pc = "wait" THEN {"exit"} ELSE {})
    /\ UNCHANGED <<addflag, qstate, pingon, pings, fil_triptime, firstflg, scan,
                   goal, limits, kernel>>

\* The class tree is rebuilt, with the configured limit on 1:1, or removed.
ReplaceTree ==
    /\ tree' \in Layouts \cup {Absent}
    /\ klimit' = DBW_UL
    /\ UNCHANGED <<addflag, pc, sigterm, qstate, pingon, pings, fil_triptime,
                   firstflg, scan, goal, limits>>

Daemon == \/ LoopTop \/ (\E age \in 0 .. MaxAge : PrPack(age)) \/ Timeout
          \/ ScanOk \/ ScanReset \/ Machine \/ Exit

Next == Daemon \/ Terminate \/ ReplaceTree

Spec == Init /\ [][Next]_vars

\* The period ends, the kernel answers and the daemon is scheduled.
FairSpec == Spec /\ WF_vars(Daemon)

\* The ping target does not stay silent for ever.
Hear == \E age \in 0 .. MaxAge : PrPack(age)
AnsweredSpec == FairSpec /\ SF_vars(Hear)

-----------------------------------------------------------------------------
(***************************************************************************)
(* Correctness.                                                            *)
(***************************************************************************)
LimitRange == Floor .. DBW_UL

\* Every variable has its type; nreceived keeps the width of a uint16_t.
TypeOK ==
    /\ pc \in {"loop", "wait", "scan", "machine", "exit", "done"}
    /\ addflag \in BOOLEAN /\ sigterm \in BOOLEAN /\ pingon \in BOOLEAN
    /\ firstflg \in BOOLEAN /\ rtActive \in BOOLEAN
    /\ qstate \in {"CHECK", "INIT", "IDLE", "ACTIVE", "MINRTT", "EXIT"}
    /\ inflight \subseteq 0 .. MaxAge
    /\ nreceived \in 0 .. Wrap - 1
    /\ rawfltime \in 0 .. Period /\ fil_triptime \in 0 .. Period
    /\ known \in Layouts \cup {Absent} /\ tree \in Layouts \cup {Absent}
    /\ dbw_fil \in Nat
    /\ pinglimit \in Nat /\ plimit \in Nat
    /\ dbw_ul \in Nat /\ klimit \in Nat
    /\ new_dbw_ul \in Nat
    /\ saved_active_limit \in Nat /\ saved_realtime_limit \in Nat

\* The proposed limit and the limits remembered for the two modes never leave
\* the dynamic range of 15% to 100% of the link, over any sequence of
\* adjustments, mode switches and restarts of the state machine.
LimitInBand ==
    /\ new_dbw_ul \in LimitRange
    /\ saved_active_limit \in LimitRange
    /\ saved_realtime_limit \in LimitRange

\* The limit last sent to the kernel is the one the state calls for: the
\* proposed limit while governing, Unload while measuring, the configured limit
\* after exit.  A reset may leave any of them behind in CHECK.
BeliefMatchesState ==
    /\ qstate \in {"IDLE", "ACTIVE", "MINRTT"} => dbw_ul = new_dbw_ul
    /\ qstate = "INIT" => dbw_ul = Unload
    /\ qstate = "CHECK" => dbw_ul \in {new_dbw_ul, Unload, DBW_UL}
    /\ qstate = "EXIT" => dbw_ul = DBW_UL

\* When the kernel refuses nothing, what it enforces is what was last sent or
\* the limit of a tree built since.
KernelFollows == ~TalkMayFail => klimit \in {dbw_ul, DBW_UL}

\* A missing tree stands for the limit the next one will be built with.
NoTreeFullLimit == tree = Absent => klimit = DBW_UL

\* The state machine is disabled exactly when the daemon has stopped.
StoppedIsExit == qstate = "EXIT" <=> pc = "done"

\* The inductive invariant behind the limits: what is proposed, what is believed
\* and what the kernel holds, in every state of the machine.
LimitInv == /\ LimitInBand /\ BeliefMatchesState /\ KernelFollows
            /\ NoTreeFullLimit /\ StoppedIsExit

\* The link is never left at the 1000 bps of the measurement by a daemon that
\* is idle, governing or gone, whatever happens to the class tree meanwhile, as long
\* as the kernel refuses no request (a refused one is not repeated, 568-569).
NotStrangled ==
    ~TalkMayFail /\ klimit = Unload => qstate \in {"CHECK", "INIT"}

\* A daemon that has stopped has given the link its configured limit back, as long as
\* the kernel refuses no request (the call at exit is skipped if the belief is equal).
ExitRestores == ~TalkMayFail /\ pc = "done" => klimit = DBW_UL

\* The states that wait for or judge round trip times have the pinger on; with
\* it off INIT could never end.
PingerRuns == qstate \in {"INIT", "ACTIVE", "MINRTT"} => pingon

\* The two formulas divide by plimit: while a limit is enforced it is positive
\* and not below the limit of the realtime mode.
PingLimitUsable ==
    /\ qstate \in {"IDLE", "ACTIVE", "MINRTT"} => pinglimit > 0
    /\ qstate \in {"ACTIVE", "MINRTT"} => plimit >= pinglimit

\* The inductive invariant behind the pings.
PingInv == PingerRuns /\ PingLimitUsable

\* Going to IDLE without a measurement makes the kernel enforce the proposed limit,
\* even when the tree was rebuilt since the daemon last spoke to it.
Governing == {"IDLE", "ACTIVE", "MINRTT"}
SyncedOnEntry ==
    [][~TalkMayFail /\ tree # Absent /\ qstate = "CHECK" /\ qstate' \in Governing
         => klimit' = new_dbw_ul']_vars

\* The state machine measures and governs on the class list it had when it left
\* CHECK, and never on one with too many classes: a change of the tree sends it
\* back to CHECK before the next step (qosmon.c:956).
GovernsWhatItLearnt ==
    [][qstate' # "CHECK" =>
         /\ known' = known
         /\ pc = "machine" => known \notin Oversize]_vars

\* A switch of mode resumes the limit of that mode: from it the limit moves in
\* the direction of the ping error only, never across it.
SwitchResumes ==
    [][\A m \in {"ACTIVE", "MINRTT"} :
         LET resumed == IF m = "ACTIVE" THEN saved_active_limit
                        ELSE saved_realtime_limit
         IN  qstate' = m /\ qstate \in Governing \ {m} =>
               IF fil_triptime < plimit' THEN new_dbw_ul' >= resumed
               ELSE new_dbw_ul' <= resumed]_vars

\* A termination signal stops the daemon.
SignalStops == sigterm ~> pc = "done"

\* A measurement ends (qosmon.c:1009: after 15 seconds move on).
MeasurementEnds == qstate = "INIT" ~> qstate # "INIT"

\* Once the class tree stays one that fits, a daemon that hears its target ends
\* up governing the link for good, or has been stopped.
Settles ==
    \A t \in Layouts \ Oversize :
        <>[](tree = t) => <>[](qstate \in Governing \cup {"EXIT"})

-----------------------------------------------------------------------------
(***************************************************************************)
(* The refinement: the daemon implements LinkGovernor.                     *)
(***************************************************************************)
Phase == CASE qstate = "CHECK" -> "waiting"
           [] qstate = "INIT"  -> "measuring"
           [] qstate = "EXIT"  -> "released"
           [] OTHER            -> "governing"

Governor == INSTANCE LinkGovernor WITH Full <- DBW_UL, phase <- Phase, limit <- dbw_ul

\* Every step of the daemon is a step of LinkGovernor or changes neither its
\* phase nor its limit.
ImplementsGovernor == Governor!Spec
=============================================================================
