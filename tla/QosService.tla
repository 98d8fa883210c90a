----------------------------- MODULE QosService -----------------------------
(***************************************************************************)
(* The life cycle of the Gargoyle QoS service: start and stop of           *)
(* net/qos-gargoyle/files/qos_gargoyle.init, run by hotplug and by hand,   *)
(* the lock file they test and touch, the shaping tree and the mangle      *)
(* chains they build, and the qosmon processes they start and kill.        *)
(*                                                                         *)
(* A script is a sequence of commands; each step below is one command or   *)
(* one phase of initialize_qos.  A monitor is known by what LinkGovernor   *)
(* says of it: it moves the limit of the download tree and gives it back   *)
(* when it ends, which killall does not wait for.                          *)
(***************************************************************************)
EXTENDS Integers, FiniteSets

CONSTANTS
    Scripts,    \* invocations of the init script, each runs once
    Configs,    \* contents of /etc/config/qos_gargoyle
    Overlap,    \* may a script be invoked while another one runs
    NoTree,     \* no queueing discipline is attached
    Throttled   \* a limit below the configured one, set by a monitor

\* A configuration: the bandwidths, -1 when the option is absent, whether the
\* monitor is enabled and whether a ping limit is given.
ConfigType == [up : Int, down : Int, monenabled : BOOLEAN, pinglimit : BOOLEAN]

ASSUME ServiceAssumption ==
    /\ Configs \subseteq ConfigType /\ Configs # {}
    /\ Overlap \in BOOLEAN
    /\ NoTree \notin Int /\ Throttled \notin Int /\ NoTree # Throttled

VARIABLES
    config,    \* the configuration on flash
    kind,      \* what each script was invoked for: start or stop
    pc,        \* where each script is
    cfg,       \* the options each script has loaded
    lock,      \* does /var/run/qos_updating exist
    egress,    \* upload bandwidth of the tree on the wan interface, or NoTree
    ingress,   \* download bandwidth of the tree on imq0, or NoTree
    jumps,     \* jumps from the built-in mangle chains to each QoS chain
    limit,     \* the limit in force on 1:1 of imq0
    monitor,   \* the qosmon each script started: none, running or dying
    believed   \* the limit each qosmon sent last

kernel == <<egress, ingress, jumps, limit>>
mons   == <<monitor, believed>>
vars   == <<config, kind, pc, cfg, lock, kernel, mons>>

Building == {"modules", "upload", "download", "decide", "launch", "unlock"}
Active(s) == pc[s] \notin {"idle", "gone", "aborted"}
Alive(s) == monitor[s] # "none"

Init ==
    /\ config \in Configs
    /\ kind = [s \in Scripts |-> "start"]
    /\ pc = [s \in Scripts |-> "idle"]
    /\ cfg \in [Scripts -> {config}]
    /\ lock = FALSE
    /\ egress = NoTree /\ ingress = NoTree
    /\ jumps = [c \in {"qos_egress", "qos_ingress"} |-> 0]
    /\ limit = NoTree
    /\ monitor = [s \in Scripts |-> "none"]
    /\ believed = [s \in Scripts |-> NoTree]

Goto(s, next) == pc' = [pc EXCEPT ![s] = next]

-----------------------------------------------------------------------------
\* A hotplug event or a user runs the script.  A start with neither bandwidth
\* configured disables the service and exits.
Invoke(s) ==
    /\ pc[s] = "idle"
    /\ Overlap \/ \A t \in Scripts : ~Active(t)
    /\ \E k \in {"start", "stop"} :
          /\ kind' = [kind EXCEPT ![s] = k]
          /\ IF k = "start" /\ config.up = -1 /\ config.down = -1
             THEN Goto(s, "gone") ELSE Goto(s, "test")
    /\ UNCHANGED <<config, cfg, lock, kernel, mons>>

\* stop, first command: is the service being initialized?
Test(s) ==
    /\ pc[s] = "test"
    /\ Goto(s, IF lock THEN "wait" ELSE "kill")
    /\ UNCHANGED <<config, kind, cfg, lock, kernel, mons>>

\* Poll until the lock is gone, then exit the whole script, a start included.
Wait(s) ==
    /\ pc[s] = "wait" /\ ~lock
    /\ Goto(s, "gone")
    /\ UNCHANGED <<config, kind, cfg, lock, kernel, mons>>

\* killall qosmon: the monitors get SIGTERM, nobody waits for them.
Killed_OwnOnly(s) == [t \in Scripts |-> IF t = s /\ Alive(t) THEN "dying" ELSE monitor[t]]
Killed(s) == [t \in Scripts |-> IF Alive(t) THEN "dying" ELSE "none"]

Kill(s) ==
    /\ pc[s] = "kill"
    /\ monitor' = Killed(s)
    /\ Goto(s, "qdiscs")
    /\ UNCHANGED <<config, kind, cfg, lock, kernel, believed>>

\* Remove the hfsc trees of all interfaces.
DeleteQdiscs(s) ==
    /\ pc[s] = "qdiscs"
    /\ egress' = NoTree /\ ingress' = NoTree /\ limit' = NoTree
    /\ Goto(s, "chains")
    /\ UNCHANGED <<config, kind, cfg, lock, jumps, mons>>

\* delete_chain_from_table: the chains and every jump to them.
Cleared_Decremented == [c \in DOMAIN jumps |-> jumps[c] - 1]
Cleared_OneJump == [c \in DOMAIN jumps |-> IF c = "qos_egress" THEN 0 ELSE jumps[c]]
Cleared == [c \in DOMAIN jumps |-> 0]

DeleteChains(s) ==
    /\ pc[s] = "chains"
    /\ jumps' = Cleared
    /\ Goto(s, IF kind[s] = "start" THEN "touch" ELSE "gone")
    /\ UNCHANGED <<config, kind, cfg, lock, egress, ingress, limit, mons>>

\* touch the lock file: only now, after stop has tested it.
Touch(s) ==
    /\ pc[s] = "touch"
    /\ lock' = TRUE
    /\ Goto(s, "iface")
    /\ UNCHANGED <<config, kind, cfg, kernel, mons>>

\* define_interface: without a wan interface nothing is initialized.
DefineInterface(s) ==
    /\ pc[s] = "iface"
    /\ \/ Goto(s, "modules")
       \/ Goto(s, "unlock")
    /\ UNCHANGED <<config, kind, cfg, lock, kernel, mons>>

\* initialize_qos reloads the imq module; when the device goes, so does its tree.
ReloadModules(s) ==
    /\ pc[s] = "modules"
    /\ \/ UNCHANGED <<ingress, limit>>
       \/ ingress' = NoTree /\ limit' = NoTree
    /\ Goto(s, "upload")
    /\ UNCHANGED <<config, kind, cfg, lock, egress, jumps, mons>>

\* The upload half: load the upload and global options, attach the tree (tc
\* refuses to add a second one), append a jump to the new chain.
Upload(s) ==
    /\ pc[s] = "upload"
    /\ cfg' = [cfg EXCEPT ![s] = config]
    /\ IF config.up >= 0
       THEN /\ egress' = IF egress = NoTree THEN config.up ELSE egress
            /\ jumps' = [jumps EXCEPT !["qos_egress"] = @ + 1]
       ELSE UNCHANGED <<egress, jumps>>
    /\ Goto(s, "download")
    /\ UNCHANGED <<config, kind, lock, ingress, limit, mons>>

\* The download half, with the download options as they are by now.
Download(s) ==
    /\ pc[s] = "download"
    /\ cfg' = [cfg EXCEPT ![s].down = config.down]
    /\ IF config.down >= 0
       THEN /\ IF ingress = NoTree
               THEN ingress' = config.down /\ limit' = config.down
               ELSE UNCHANGED <<ingress, limit>>
            /\ jumps' = [jumps EXCEPT !["qos_ingress"] = @ + 1]
       ELSE UNCHANGED <<ingress, limit, jumps>>
    /\ Goto(s, "decide")
    /\ UNCHANGED <<config, kind, lock, egress, mons>>

\* Is a monitor wanted?  The assignment that should rule out a zero bandwidth
\* has spaces around its = and runs a command instead.
Decide(s) ==
    /\ pc[s] = "decide"
    /\ Goto(s, IF cfg[s].up >= 0 /\ cfg[s].down >= 0 /\ cfg[s].monenabled
               THEN "launch" ELSE "unlock")
    /\ UNCHANGED <<config, kind, cfg, lock, kernel, mons>>

\* Without a ping limit one is computed by dividing by both bandwidths: a zero
\* aborts the script.  qosmon itself refuses a bandwidth below 100 kbps.
Launch(s) ==
    /\ pc[s] = "launch"
    /\ IF ~cfg[s].pinglimit /\ (cfg[s].up = 0 \/ cfg[s].down = 0)
       THEN Goto(s, "aborted") /\ UNCHANGED mons
       ELSE /\ Goto(s, "unlock")
            /\ IF cfg[s].down >= 100
               THEN /\ monitor' = [monitor EXCEPT ![s] = "running"]
                    /\ believed' = [believed EXCEPT ![s] = cfg[s].down]
               ELSE UNCHANGED mons
    /\ UNCHANGED <<config, kind, cfg, lock, kernel>>

AfterStart_KeepsLock == lock
AfterStart == FALSE

Unlock(s) ==
    /\ pc[s] = "unlock"
    /\ lock' = AfterStart
    /\ Goto(s, "gone")
    /\ UNCHANGED <<config, kind, cfg, kernel, mons>>

-----------------------------------------------------------------------------
\* A monitor, even one that has just been signalled, moves the limit of
\* whatever tree imq0 has now; without one only its belief changes.
Govern(s) ==
    /\ Alive(s)
    /\ \E l \in {Throttled, cfg[s].down} :
          /\ l # believed[s]
          /\ believed' = [believed EXCEPT ![s] = l]
          /\ limit' = IF ingress = NoTree THEN limit ELSE l
    /\ UNCHANGED <<config, kind, pc, cfg, lock, egress, ingress, jumps, monitor>>

\* A signalled monitor gives back its own configured limit, unless it believes
\* that limit to be in force, and ends.
GivenBack_Nothing(s) == limit
GivenBack(s) == IF ingress = NoTree \/ believed[s] = cfg[s].down THEN limit
                ELSE cfg[s].down

MonitorExit(s) ==
    /\ monitor[s] = "dying"
    /\ monitor' = [monitor EXCEPT ![s] = "none"]
    /\ limit' = GivenBack(s)
    /\ UNCHANGED <<config, kind, pc, cfg, lock, egress, ingress, jumps, believed>>

\* The user interface writes a new configuration.
Configure ==
    /\ config' \in Configs \ {config}
    /\ UNCHANGED <<kind, pc, cfg, lock, kernel, mons>>

Step(s) ==
    \/ Test(s) \/ Wait(s) \/ Kill(s) \/ DeleteQdiscs(s) \/ DeleteChains(s)
    \/ Touch(s) \/ DefineInterface(s) \/ ReloadModules(s) \/ Upload(s)
    \/ Download(s) \/ Decide(s) \/ Launch(s) \/ Unlock(s)

Next ==
    \/ \E s \in Scripts : Invoke(s) \/ Step(s) \/ Govern(s) \/ MonitorExit(s)
    \/ Configure

Spec == Init /\ [][Next]_vars

\* The shell goes on with a script, and a signalled monitor ends.
FairSpec == Spec /\ \A s \in Scripts : WF_vars(Step(s)) /\ WF_vars(MonitorExit(s))

-----------------------------------------------------------------------------
(***************************************************************************)
(* Correctness.                                                            *)
(***************************************************************************)
Running == {s \in Scripts : monitor[s] = "running"}

\* Every variable has its type.
TypeOK ==
    /\ config \in Configs
    /\ kind \in [Scripts -> {"start", "stop"}]
    /\ pc \in [Scripts -> Building \cup {"idle", "test", "wait", "kill", "qdiscs",
                          "chains", "touch", "iface", "gone", "aborted"}]
    /\ cfg \in [Scripts -> ConfigType]
    /\ lock \in BOOLEAN
    /\ egress \in Int \cup {NoTree} /\ ingress \in Int \cup {NoTree}
    /\ jumps \in [{"qos_egress", "qos_ingress"} -> Nat]
    /\ limit \in Int \cup {NoTree, Throttled}
    /\ monitor \in [Scripts -> {"none", "running", "dying"}]
    /\ believed \in [Scripts -> Int \cup {NoTree, Throttled}]

\* When invocations do not overlap, what they leave behind is consistent: the
\* lock is gone, each chain is jumped to once exactly when its tree exists, and a
\* monitor still running works on the tree it was started for.
Quiet == \A s \in Scripts : ~Active(s) /\ pc[s] # "aborted"

SettledConsistent ==
    Quiet => /\ ~lock
             /\ jumps["qos_egress"] = IF egress = NoTree THEN 0 ELSE 1
             /\ jumps["qos_ingress"] = IF ingress = NoTree THEN 0 ELSE 1
             /\ \A s \in Running : ingress = cfg[s].down

\* However slowly the killed monitors end, no two monitors that were not told to
\* end share the link.
OneMonitor == Cardinality(Running) <= 1

\* A limit that is not the configured one belongs to a monitor that knows it, and
\* so will be taken back: no hand-over between monitors loses a throttled link.
LimitOwned ==
    limit # ingress => \E s \in Scripts : Alive(s) /\ believed[s] = limit

\* At most one script initializes the service at a time: the comment at
\* qos_gargoyle.init:20 says the lock file keeps hotplug and the init script from
\* both initializing QoS at the same time.
Exclusive == Cardinality({s \in Scripts : pc[s] \in Building}) <= 1

\* Every invocation ends: no script waits for ever for a lock that nobody will
\* remove.
ScriptsEnd == \A s \in Scripts : Active(s) ~> ~Active(s)
=============================================================================
