# A verification project for ceropackages-3.10

This directory holds TLA+ models of the programs that the CeroWrt package feed
*ceropackages-3.10* carries itself, the TLC configurations that check them and
TLAPS proofs about them. Most of the repository is build files for software
whose source is elsewhere; what is modelled is the code that is here and keeps
state: the Gargoyle QoS daemon and its service script, the quota and restriction
programs of the firewall package with the packets that pass their rules, and the
NAT-PMP relay.

## 1. The parts of the system

| part | state it keeps | operations | interacts with |
|---|---|---|---|
| **qosmon** (`net/qos-gargoyle/src/qosmon.c`) | state machine CHECK/INIT/IDLE/ACTIVE/MINRTT/EXIT, ping counters and filter, class statistics, four link limits | one pass of the loop: ping, drain replies, scan the classes, one step of the machine; signals | the ping target (ICMP), the kernel's HFSC tree (netlink), the init script that starts and kills it |
| **QoS service** (`qos_gargoyle.init`, `.hotplug`) | lock file, qdiscs, mangle chains and the jumps to them | start, stop, run by hand and by hotplug at the same time | uci, iptables, tc, qosmon |
| **quotas** (`restore_quotas.c`, `backup_quotas.c`, `gargoyle_firewall_util.sh`, its hotplug) | uci sections with id and ignore mark, crontab, usage files, kernel counters, lock file | ifup -> restore, ifdown and cron -> backup | uci, iptables, the bandwidth match, crond |
| **delete_chain_from_table** | none: reads a listing, then runs commands computed from it | delete a chain and every rule that jumps to it | iptables, other users of the table |
| **make_iptables_rules** | none; the rules it makes keep bits in the connection's mark | one rule section -> iptables commands | firewall scripts, the quota chains (the same byte of the mark) |
| **trpmp** (`net/trpmp/files/trpmp.c`) | list of lans, sockets | select loop, request and answer handlers | clients (IPv4), one server (IPv6) |
| named time monitor, ddns6 hook, bcp38, debloat scripts | marks, records, ipsets | small shell scripts | named, dhcpd, ipset, tc |
| service wrappers, packages, web pages | - | - | - |

`PROJECT.json` lists all of them with what is modelled.

What is hard about each, and what makes it correct:

* **qosmon** acts on beliefs: the limit it last sent, the class list it last
  scanned, a ping limit it measured long ago. The class tree is rebuilt and
  removed under it, replies are late or never come, requests are refused, and a
  signal comes at any point. Correct means: as long as the kernel takes the requests,
  the link is throttled to 1 kbps only while it is measured, the limit stays between 15 % and 100 % of the link,
  the state machine never governs a tree it did not look at, a measurement ends,
  and a stopped daemon leaves the configured limit behind.
* **the service** is a shell script with a lock that is tested and touched apart.
  `killall` does not wait, so that the monitor of an old tree acts on a new one.
  Correct means: when nothing runs, trees, chains and monitors fit each other (though
  the two halves may be of two configurations, 472), no monitor is doubled, every
  invocation ends.
* **quotas** live in the kernel and survive in files. Power fails, backups run
  without a lock while rules are being rebuilt and beside each other, and write
  what they read earlier; restores test and touch their lock apart; sections are
  edited, several name one ip. Correct means: no traffic is charged twice, a count
  that was saved undisturbed comes back, no two sections share an id, the backup is
  scheduled while quotas exist.
* **quota and restriction chains** have no variables but a byte of the connection's
  mark, which both use, which outlives the packet, and which the rules set, test
  and clear one at a time. The quota chains are rebuilt while packets pass. Correct
  means: a packet is counted by the quotas for its host and no other, a connection
  dies when and only when a hard quota is exceeded, and the verdict is that of the
  first section whose tests the packet meets.
* **delete_chain_from_table** computes its commands from one listing, and every
  command renumbers the lines that follow; nothing locks the table. Correct means:
  only the jumps to the chain are deleted, all of them, and the chain is gone.
* **trpmp** has no table: the header it puts in front of a request must bring the
  answer back over a network that repeats and reorders. Correct means: answers
  reach who asked and nobody else, nothing overruns the buffer, no socket is starved.

## 2. The modules

| module | what it is |
|---|---|
| `LinkGovernor` | abstract: what qosmon promises about the limit it sends |
| `Qosmon` | `qosmon.c`; implements `LinkGovernor` (`ImplementsGovernor`) |
| `MCQosmon` | its small instance |
| `QosmonProofs` | theorems about `Qosmon` |
| `QosService`, `MCQosService` | start and stop of the service, several at once |
| `QosServiceProofs` | theorems about `QosService` |
| `UsageLedger` | abstract: what the quotas promise about usage |
| `Quotas`, `MCQuotas` | restore and backup of the quotas; implements `UsageLedger` (`ImplementsLedger`) |
| `QuotasProofs` | theorems about `Quotas` |
| `DeleteChain`, `MCDeleteChain` | the program, one table, and others that change it |
| `DeleteChainProofs` | theorems about `DeleteChain` |
| `Traffic` | packets, and the high byte of the connmark |
| `RuleDefinition` | the options of a rule section, and what `compute_rules` takes from them |
| `RestrictionChain` | the rules made of a section, and a packet in front of them |
| `QuotaChain` | the rules made of the quotas, a packet in front of them, and their rebuilding |
| `PacketPath`, `MCPacketPath` | composes the two chains: forwarded packets of one connection after another |
| `PacketPathProofs` | theorems about `PacketPath` |
| `TransparentRelay` | abstract: clients talk to the server as if it were on their lan |
| `Trpmp`, `MCTrpmp` | the relay, its two networks and its server; implements `TransparentRelay` (`ImplementsRelay`) |
| `TrpmpProofs` | theorems about `Trpmp` |

A name with a suffix (`Cap_NoCeiling`, `Taken_Alternative`) is a wrong variant of
the definition after it, kept to show that the properties can tell the
difference; no specification uses it.

### Qosmon

`pc` walks through one pass of `main` (913-1161): `LoopTop` (exit test and
`pinger`), `PrPack`/`Timeout` (the select loop), `Statistics` with
`ScanOk`/`ScanReset` (`class_list` and the reset after a change), then one action
per state of the machine (`CheckWaits`, `CheckGoesIdle`, `CheckMeasures`,
`InitMeasures`, `InitDone`, `IdleStays`, `Serve`) and `Exit`. `klimit` is what the
kernel enforces, `dbw_ul` what the daemon believes, `new_dbw_ul` what it proposes.
`Kernel` is `tc_class_modify`: no request when the belief is equal, and the belief
changes before the kernel accepts. The environment is `Hear` and loss of replies
(`inflight` holds the ages of requests that may still be answered),
`ReplaceTree`, and `Terminate`.

Abstractions: round trips, loads and limits are members of small sets; the two
filters and the two adjustment formulas may do any move in the direction the code
computes. `nreceived` keeps its wrap-around.

### QosService

Each invocation has its own `pc`; a step is one command or one phase of
`initialize_qos`. `Test` and `Touch` are two steps, with `Kill`, `DeleteQdiscs` and
`DeleteChains` in between, as in the code, where `start` calls `stop`. `Upload` and
`Download` load their options separately. `monitor` has a state `dying`: killed, but
its exit code still to run. A monitor is used by what `LinkGovernor` says of it.

### Quotas

Every process has its own program counter: `Restores` run `initialize_quotas`, and
`Backups` run `backup_quotas`, for cron or for ifdown. A restore is `Test` (it returns
without a name for the interface or when the lock file exists) and `Touch`, then
`restore_quotas`: `Flush` (the chains and counters go), `Read` (the configuration is read,
the new chains are made), for each section `Skip`, or `Rule` and `Load` (or `Spin`),
then `Cron` or `Uncron`, `Commit`; and the script's `Unlock`. A backup takes no lock. For
each section it reads the count from the kernel (`Query`) and then writes it to the
file (`Write`), or does nothing (`Pass`); anything may happen between the two. ifdown
starts one whether or not another is running. `rconf` and `bconf` are the copies of the
configuration that the programs read at their start. `PowerLoss` keeps `flash` only.

With `Overlap` TRUE a restore may test the lock file between the test and the touch of
another one, and two of them then rebuild the rules together: each deletes the chains
of the other, a rule whose id the other has made already is refused or empties the
shared counter, and a count is loaded into a rule that is gone (the kernel refuses).
What the match does with an id that exists twice is outside the repository; both
outcomes are allowed.

The history: `use` is the traffic that the rules with an id ever saw, `saved` the count
that was written last. `stale[b]` says that the count which backup *b* holds is
no longer that of its rule: since the query the chains were flushed, the rule was
made or loaded, or another backup wrote for the same id; or the rule was waiting for its
own count. `raced` marks an id whose last written count was stale, or whose loading
the kernel refused; the next clean save removes the mark. So `NotForgotten` says
what the scripts can promise: a count that was saved undisturbed comes back.

Abstractions: a section has one limit instead of three; the ip is its name; the rules
around the quota rule are left out. Writing or reading one usage file is one step, because
the library that does it is not in the repository. `Flush` deletes the
five chains in one step; a backup that reads counters in the middle of it gets what the
model gives it just before, or passes. `Load` reads the file and sets the counter in
one step. A `Write` in between could as well come after it, since the count it wrote is
`raced` anyway (the rule waited for its count); with overlapping
restores the other one's `Load` of the same id in between is left out, and a count saved
after it would be `raced` for the same reason. For ALL_OTHERS_INDIVIDUAL the
code loads the counts of hosts without a quota of their own only (797-834); here an id has
one count.

The sections that are left (`rtodo`, `btodo`) are sets; the next one is the first in
the configuration file (`Place`), in `restore_quotas` with the sections of ALL_OTHERS
put off (`Before`).

As a `UsageLedger`, an id is an account, its rule's counter what is charged, its
file what is kept, `use` what was seen, what backups hold are `readings`. The
account being opened is the id of the rule whose count is still to be loaded (`Fresh`).
What the abstract module forbids is the interesting part: a rule created over the
counter of another one, a count loaded twice or into a rule other than the one created
last, a count in a file that was never that of its rule. It allows that a reading is kept
late, over a newer one: that is what the code does. Restores that
overlap do not implement it, since one makes rules over those of the other.

### DeleteChain

`List` takes the listing and computes the lines to delete (`Jumps`); `DeleteLine` is
one `iptables -D`, for the line that `pop_list` returns, i.e. the last one in the
listing; `Flush` and `RemoveChain` are `-F` and `-X`. `Others` appends, inserts and
deletes rules between any two commands. A rule is what it jumps to and whether it
came after the listing. `disturbed` (history) names the chains in which somebody
else moved a line that was still to be deleted: there the program deletes whatever
has got the number, which the properties except. The copy of the program in
`restore_quotas.c` (955-1005) is the same.

### PacketPath

A packet arrives (`Arrive`), goes through the quota chain of its direction
(`EnterDirection`, then one `Block` per quota and `EndChain`), the gate to the chain
for both directions (`EnterCombined`), the rule for dead connections (`Filter`), and
the sections of the restriction chain of its direction (`InRules`). Within a section
the groups of rules are steps: the initial mark, each criterion with several
values, what is left, the comparison of the bits, the exception for white-listed
sites. `scratch` is the set of bits that are set in the high byte of the
connection's mark; it stays when the packet is gone. Between packets the
connection may be replaced, a counter reset, or the next command of a restore run.

The quota chains are deleted and built command by command. `frame` counts the commands
that create the chains, the jumps to them and their first rules (`Create`, 223-254), and
those that delete them one after the other (`Unload`, 103-111). `loaded` counts the
quotas that have all their rules, and `part` how far the next one has come, in the
order of the code: for each type the rules that note a host in the low bits, the one that
names it to the quotas for all others, the count with its limit, the marks of a soft
quota, the count from the backup (663), and only then the end of the low bits (670).
`Seal` adds the rules that clear the byte and puts the REJECT rule in front of FORWARD
(703); `Reinsert` is `ifup_firewall`, which puts the jumps to the restrictions in front of
it again before the next restore. `InPlace` says whether a rule is there, and every
rule that a packet meets asks it.

A value (address, port, mark, part of a URL, packet size, time) is the set of
packets that it matches. `RuleDefinition` keeps what decides which values are used:
which end of the connection an option names, hardware addresses and unreadable
values that are dropped, negated options that are hidden. `Bit` is
`mask_byte_index`, `InitialBits`/`FinalBits` are the two marks that `compute_rules`
sums up (431-461).

The times of a quota (`off`, `on`; 408-452) are the sets of packets that come within
them: off-peak options hide on-peak ones, weekly ranges hide hours and weekdays, and a
quota without any is `Active` always. Its time guards the counting and punishing rules,
not those that note and name the host.

Abstractions: commands come between packets, not while one is on its way through the
chains; one restore at a time (what two do to the counters is in `Quotas`); the rules that note
several hosts are two groups, some of them and all; the
counters of the bandwidth match are above or below their limit, and may pass it with
any packet that is counted; the two rules for tcp and udp are one; white list and
restrictions of a direction are one list of sections, white list first, and their own
rebuilding is left out but for its effect on the REJECT rule; only forwarded packets: the
rules in INPUT and OUTPUT are not modelled, nor is the redirection of web
traffic of dead connections (table nat, `quota_redirects`).

### Trpmp

Options are processed first, with the errors that end the program. Then `Select`
takes the readable set, `FromServer` and `FromClient(l)` handle one datagram each,
`PassOver` and `EndRound` are the rest of the loop. Networks are sets from which a
datagram may be delivered any number of times or never. A datagram that passes
every check may still be dropped, because `send` may fail. An ICMP error
(`Unreachable`) is pending on the server's socket (`failing`) until `recv` or `send`
reports it; it takes no room in the buffer and is reported before what is there.

As a `TransparentRelay`, what the server says are the payloads of those of its
datagrams that the relay accepts (`Genuine`; checksums are data): answers (`down`)
and what nobody asked for (`unasked`). `out` is what was delivered. Headers do not
occur in the abstract module, so that the refinement says that the header alone
brings every answer home. It does not say that a client gets answers only: the relay
keeps no table of requests, and lets pass whatever has a good header (section 5).

## 3. The runs

| run | asks |
|---|---|
| `qosmon_auto` | with and without `-a`, over trees that change their classes or outgrow the table: are limits in range, belief and kernel in step (`LimitInv`), is the link never left strangled, does the daemon govern only what it scanned, is a rebuilt tree back in step at once, does a mode switch resume the limit of its mode, does the daemon implement `LinkGovernor`? |
| `qosmon_live` | a kernel that may refuse anything, a target that answers: does a measurement end, a stable tree get governed, a signal stop the daemon? |
| `qosmon_silent` | violation: "After 15 seconds" is a number of replies; a silent target keeps the link at 1 kbps |
| `service_serial` | invocations one after the other, reconfiguration at any point, monitors that die late: does the settled state fit together (each tree with its chain, the monitor with its tree), is there one monitor? |
| `service_ends` | overlapping invocations, no zero bandwidth: do all end, is no tree left throttled by nobody? |
| `service_exclusive` | violation: two starts pass the lock test together |
| `quotas_life` | three sections with one ip, edits, both kinds of backup, power loss: do ids stay distinct, is the backup scheduled, does a restore end (or enter the endless id loop), is every step on a counter or a file one of `UsageLedger`? |
| `quotas_overlap` | two restores that may pass the lock test together, two backups whose queries and writes interleave with them: is usage never charged twice, does a count that was saved undisturbed come back? |
| `delete_chain` | two chains of up to three and two rules with jumps to a third, and up to two changes by others at any moment: are only own jumps deleted, all of them, and is the chain removed? |
| `packet_path` | eight configurations, four connections, quota chains deleted and built command by command between packets, a REJECT rule that the restrictions overtake: is every packet charged, punished and judged as the configuration says, is the byte clean at the hand-over? |
| `rules_ingress` | violation: `-i` is parsed and ignored, so that a section for packets from the Internet compares local ends with the source |
| `trpmp_relay` | two lans, two client addresses on both: does the relay implement `TransparentRelay`, with a server that also sends what nobody asked for, does every datagram fit the buffer, is nothing read that select did not see, is every full socket read, unless its errors keep coming (`Served`)? |

A run marked *violation* checks one sentence of the code's own comments that the
code does not keep; `PROJECT.json` quotes it under "findings".

### Bounds

* Qosmon: a link of 100 units with the measuring limit 1, two round trips on the
  two sides of every ping limit, one rate below the floor and one above the
  ceiling (what the formulas can produce at worst; base values are added by the
  model), a reply count that wraps at 4 or 6 instead of 2^16, measurements of 1-3
  replies, replies at most one ping late. Every comparison the code makes has
  values on both sides. The proofs remove these bounds for the safety properties.
* QosService: two or three invocations, each of which runs once; configurations
  with both bandwidths, one, none, and zero. Three invocations are enough for a
  start to be overtaken by a stop and a second start.
* Quotas: three sections of one name are needed to run out of names (the code
  knows two); `quotas_life` has them, one to be defined anew and one to be removed at any
  time, with one restore, one backup, and counts up to 1, enough to tell loading from
  adding and to notice a rule that is made over another one's counter. A second restore
  would do nothing there but find the lock. `quotas_overlap` has one section, as its
  properties speak of one id at a time, that is edited in every way, with two restores, two
  backups and counts up to 2, so that an older count (1) can replace a newer one. There
  restores are alike and so are backups (symmetry; the run has no liveness). The proofs remove these bounds. Sections
  for ALL_OTHERS (`Others`) take their ids from another base name and interact with
  these only through the order (`Before`); a fourth section would make the
  instance too large, so the runs leave them out.
* DeleteChain: one chain of up to three rules in every arrangement and one of two,
  so that several lines of one chain and lines of several chains are to be deleted;
  two changes by others (an insertion and a deletion can cancel out in the numbers).
  The proofs remove these bounds.
* PacketPath: the configurations are written out in `MCPacketPath`: white-listed
  sites, negations of one and of several values, marks, a section that uses all
  eight bits, values that vanish in parsing, a section for packets in, and quotas of
  every kind in orders that differ from the order of the chains, two of them with
  times of several forms. Every connection
  has packets both ways or is a single packet; requests, other web packets, another
  tcp port, udp and a third protocol occur. The proofs hold for any sections, any
  quotas and any packets.
* Trpmp: lengths below 2, between the limits, and above them; one datagram per
  socket buffer, two distinct datagrams on each network, copies without bound.

### Fairness

* `Qosmon!FairSpec`: WF of the daemon's own steps, because the select loop has a
  period as its timeout; nothing is assumed of tree, target or signals.
  `AnsweredSpec` adds SF of hearing a reply: the target is not silent for ever.
* `QosService!FairSpec`: WF of each script and of the exit of a killed process.
* `Quotas!FairSpec`: WF of each restore once it was started, since the scheduler runs
  every process. Nothing is assumed of backups, users or traffic.
* `Trpmp!FairSpec`: WF of the process. Networks and server may do nothing.

## 4. What is proved

Constants are arbitrary within the named assumptions of the modules
(`RateAssumption`, `PingAssumption`, `TreeAssumption`, `ServiceAssumption`,
`TrpmpAssumption`, `StrayAssumption`, `TableAssumption`, `ListingAssumption`,
`PacketAssumption`, `SetupAssumption`, `ConnectionAssumption`, and the two
`QuotaAssumption` of `Quotas` and `PacketPath`).

`QosmonProofs`: `TypeCorrect`; `LimitsGoverned` (`LimitInv`); `NeverStrangled`;
`RestoredOnExit`; `PingsUsable`; `Implements`. `NotStrangled` and `ExitRestores` speak
of a kernel that refuses nothing (section 5 says what a refusal does). They are
not inductive: whether a call is skipped depends on the belief, so `LimitInv`
carries the proposal's range, the belief each state may hold, and what the kernel
can hold given the belief (or the configured limit, when the tree is new).
`PingLimitUsable` needs that the pinger is on wherever a trip time is used, hence
`PingInv`. Also three action properties: `GovernsKnownTree`, by `ScanInv` (the first
pass is made in CHECK, and the machine never steps on a list that is too long);
`SyncsOnEntry`, which needs that no proposal is zero; and `ResumesOnSwitch`, which
needs the range of the remembered limits, for otherwise the clamps could move a
limit against the ping error. The refinement uses `LimitInv` for the range of the governed limit.

`TrpmpProofs`: `TypeCorrect` and `ReadsOnlyReadable` (together inductive: the type of
what is read depends on the queue not being empty); `BufferSuffices`; and
`Implements`, that the relay refines `TransparentRelay`. It rests on two invariants:
`OriginInv`, that every request in a queue or on the wire and every answer carries
the lan, the client and the body of some request, and that the server's queue holds
answers and unasked datagrams only; and `Answered`, that an answer the relay would let
pass has the lan, the client and the body of a request.
`RoundsAreComplete` is the safety half of `Served`: a round ends only when all that
`select` found readable was read (`RoundInv`).

`DeleteChainProofs`: every property of its run. The heart is `LinesStayRight`
(`ListInv`): outside `disturbed` chains every line of `todo` is within its chain and
names an own rule. It survives a deletion because the deleted line is the last of
`todo` in its chain, so that no other line of `todo` moves, and survives others
because a change above a line of `todo` puts the chain into `disturbed`.
`DeletesOnlyOwn` follows at once; `NoJumpLeft` and `ChainGoes` need `NothingForgotten`
(every own rule that is not new is in `todo`, again outside `disturbed`) and
`Flushed`. `NeverStuck` says that the program never waits for a next line that is not
there: while lines are left, one of them is the last of the listing. The run cannot
say it, because it has to allow the deadlock at the program's end. It needs that
the lines of a chain have an end (`BoundInv`), and
`TableAssumption`, that one chain is listed last.

`PacketPathProofs`: all six invariants of `packet_path`.
`HandsOverClear` rests on `HandOver`: once the chains are sealed the REJECT rule is
there, and behind the quota chains the byte is clear or the connection dead, which
the REJECT rule then keeps from the restrictions.
`VerdictRight` rests on `BitsTell`: at each group of rules of a section the byte holds,
for each criterion already passed, its bit exactly when the criterion holds (the
opposite for what is still to be tested of negated ones), and nothing else, so that
the comparison at the end says whether all hold. This needs that the
bits of different criteria differ (`Bit` depends on which addresses are
given) and are below 8, which is where the type invariant of the byte comes from.
`AtSection` adds that no earlier section meant the packet. `CountedByItsQuotas` and
`PunishedByItsQuotas` rest on `InOrder` (which commands can have run), `InLane` and
`Charge`: between two blocks of rules, `charged` is what the limits in place so far mean,
the upper half of the byte is set exactly when one of the explicit quotas so far names the
host, and the lower half is clear unless the packet is within `Leaking`; because the second
list is loaded after the first, the upper half is final when the quotas for all others
look at it, also in half-built chains. `Leaking` is the one exception, in the properties
too: a host was noted for the quota that is being loaded, and the rule that forgets it is
not there yet. A connection that dies then reaches the chain for both directions, is counted
there, and what that chain says decides whether it is dead.
`VerdictAsWritten` adds the step from the options of a section to its criteria, for
packets of both directions: where the options can be taken as they stand (`Faithful`,
section 5), the sections are sound (`Sound`) and no earlier packet left bits in the byte (`clean`), every
packet gets the verdict they spell out, those from the Internet unless the
forgotten `-i` (run `rules_ingress`) shows (`ReadAlike`): a section asks for an end of the
connection that they have on the other side, or it accepts a URL and the packet is web
traffic without a request, which `make_iptables_rules.c:543` excepts because `is_ingress`
is 0. These are its two effects, and under the three conditions it has no other.
`EgressRight` is the part for outgoing packets, which always read alike.

`QosServiceProofs`: `TypeCorrect` for any configurations and invocations. Two
theorems have a hypothesis about the instance, the one under which TLC checks the
property too. `MonitorsAlone` (`OneMonitor`) and `Consistent` (`SettledConsistent`)
assume `Overlap = FALSE`; otherwise two starts can rebuild the trees together, as the
run `service_exclusive` shows. Their invariants: `SerialInv` (at most one script is
active, and while it rebuilds every monitor that is still there was killed) and
`ServiceInv` (whose the lock is, which trees and jumps exist at each step of stop
and start, and that every monitor that was not killed governs the tree it was
started for). `NeverForsaken` (`LimitOwned`) allows invocations to overlap and assumes
`OneBandwidth`, that reconfigurations leave the download bandwidth alone: a killed
monitor writes the bandwidth it was started with (section 5). `LimitInv` adds that
every tree and monitor has this bandwidth. About overlapping scripts without any
hypothesis: `LockHasOwner`, that the lock file always has a script that is still to
remove it or was aborted by the division by zero (section 5); `LockIsRemoved`, that
without a bandwidth of zero (`NoZero`) nobody is aborted, not even a script that read
its two bandwidths from different configurations, so that every lock has an owner
that will remove it; and `ScriptsAdvance`, that a script moves by its own steps and
nearer its end with each, in at most fourteen. The last is `ScriptsEnd` but for the
fairness.

`QuotasProofs`: `TypeCorrect` and every safety property of the quota runs, for any
sections, names, edits and traffic and any number of restores and backups; all but
`Implements` also for restores that overlap. `NeverTwice` needs that the file of an id and
what any backup holds for it are within the use of the id (`UseInv`), since a restore charges
what it loads. `SavedIsKept` needs that the file holds at least what was saved, and excepts
the rule that waits for its count (`SavedInv`, `Fresh`). What makes it inductive is
`Current`: a held count that is not `stale` is at most that of its rule, which has its own
count by then, so that writing it cannot lose anything. `NoSharedId` states distinctness of
the configuration on flash and of every copy that a restore works on (`IdInv`), because each
may be copied over the other, in any order. `BackupsFollow` needs that whoever made rules is
still to write the crontab, or spins (`Covered`), and that all restores at work have read the
same sections (`SameSections`, since nobody edits under them), so that none takes the line out
while another one makes rules.
`Implements`, the refinement of `UsageLedger`, assumes `Overlap = FALSE`, the hypothesis
under which `quotas_life` checks it, with one restore and one backup. Then one restore at most is past the lock (`LockInv`).
A rule is created only for an id without one: rules so far belong to sections
already done (`DoneInv`), and by `IdInv` the next section shares no id with them.
Backups need no hypothesis: each query is a `Read` and each write a `Keep`, in any order.
`RestoreAdvances` is the safety half of `RestoreEnds`: each step of a restore leads to a later
stage or leaves a section less, and only a power failure sets it back.

Only model-checked: the liveness properties (fairness and ENABLED are outside the
proof system): those of `qosmon_live`, `ScriptsEnd`, `RestoreEnds` and `Served`. Of
the last three the safety half is proved, as said above.

## 5. Observed while modelling, without a run

* qosmon: a class tree rebuilt during INIT is measured loaded, because the request
  to unload is equal to the stale belief (`qosmon.c:568`, `993`); after a refused
  request to restore the link the call at exit is skipped (569, 1173); a reset
  keeps `nreceived`, so CHECK no longer waits for a reply (962, 976); the user's
  ping limit enters the MinRTT limit too (1019), which `qos_gargoyle.init:675-677`
  denies.
* service: a monitor that ends after a restart with a new bandwidth writes the old
  bandwidth into the new tree (`qos_gargoyle.init:730`, `qosmon.c:1171`).
* quotas: removing the last quota empties root's crontab, although the comment
  (`restore_quotas.c:743`) speaks of one line: the file is truncated when it is opened for
  writing (765) and the loop that should copy the other lines never runs. `Uncron` does
  the same (`cron' = {}`).
* quotas: the postfix counter of the id loop is never incremented (344); the REJECT
  rule for the death mark is inserted by every restore and never removed (703); a
  backup that was to be ignored is ignored by one restore only (371), and a second
  one before the next backup loads it; the file name of an id with a slash is uninitialized
  (`backup_quotas.c:142-150`, modelled as `Wild`).
* quotas, usage that is lost (what `raced` stands for): a backup between the
  creation of a rule and the loading of its count replaces the saved count by an empty
  one. A backup that has read a count (`backup_quotas.c:156`) and writes it late (159)
  replaces what was written in between: with a counter of 5 and a file of 3 it reads 5, a
  restore flushes and loads the 3, the 5 is written, and the counter is behind the file; or
  a second backup, started by ifdown while cron's is running
  (`gargoyle_firewall.hotplug:24-29`), reads and writes 6 before the first writes its 5, and
  after a power failure 1 is forgotten. Two restores that pass the lock test together
  (`gargoyle_firewall_util.sh:362-363`) delete each other's rules; a count that is loaded into a
  rule that is gone is refused, and the next backup saves the rest. None of this charges
  anything twice.
* quota chains: while a list quota is loaded, its count is restored (663) before the rule
  that forgets the noted host (670). A packet that exceeds the quota of its direction in
  between has the low bits at the gate (245) although its connection has just died, so
  that `combined_quotas` counts it and clears the death mark again (251): `Leaking`.
* the REJECT rule: `ifup_firewall` puts the jumps to the restrictions in front of it
  (`gargoyle_firewall_util.sh:287-288`) until the restore inserts it again (703). A packet of
  a dead connection that a section accepts gets through in between.
* `block_static_ip_mismatches` (`gargoyle_firewall_util.sh:520`) passes the arguments
  of `delete_chain_from_table` in the wrong order.
* qosmon: a second measurement adds its entitlement to the limit of the first
  (`pinglimit += ...`, 1019, under a comment that speaks of what the user specified).
* service: `qos_monenabled = "false"` (`qos_gargoyle.init:484`) has spaces around `=` and runs
  a command of that name, so that a zero bandwidth does not switch the monitor off, as
  the comment at 482 has it; without a ping limit the script then divides by zero at
  682 and leaves the lock behind.
* make_iptables_rules: a section that compares nothing but marks does not test its
  protocol again, and a packet of another protocol with the same bits would match;
  marks of connections are compared with all bits although `parse_marks` (891-893)
  says the high byte has to be masked out (682 passes 0xFFFFFFFF): both are what
  `Sound` excepts. A positive option hides its negation; a criterion whose values are
  all dropped in parsing vanishes and the section means more (684-713, 794-862); one
  bound of the packet size alone is ignored (211); the test of `proto` at 492 is
  inverted, which costs a tcp reset, not a verdict. These are what `Faithful` excepts.
* the shared byte: ACCEPT and REJECT leave a section's bits set, and without quotas (or
  while their chains are being built) the next packet of the connection brings them
  along: that is why `VerdictAsMeant` assumes `clean`. A dead connection that still has
  such bits in the lower half passes the gate at 245, loses its death mark in
  `combined_quotas` and lives on, as long as no REJECT rule exists or the restrictions
  are in front of it; hence `alive` in `ChargedAsMeant` and `Penalised`. A dead connection stays dead when its
  counter is reset.
* trpmp accepts requests of up to 99 bytes and answers of up to 87. It checks header
  and lan of what comes from the server (163-173) and nothing else: a well-formed
  datagram reaches the client it names whether that client asked or not.

## 6. Not modelled, and the plan

Not modelled for good: build files and patches, static data, wrappers around
programs whose source is elsewhere, output (status file, ncurses, `print_quotas`).

Planned, in this order; a run is replaced or merged where a better question comes
up, so that the list above stays short:

1. `QosClasses`: the split of the bandwidth over classes in `initialize_qos`, its
   integer arithmetic and the division by zero at 682.
2. The nat table's `quota_redirects` (`restore_quotas.c` 628-656), which ask the same
   questions of a third chain, and the bands of 186-217.
3. `MonTime`, `Bcp38`, `Ddns6`: the shell scripts with a lasting effect.
