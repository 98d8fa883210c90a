------------------------------- MODULE Quotas -------------------------------
(***************************************************************************)
(* The life cycle of the bandwidth quotas of net/gargoyle-firewall-util:   *)
(* ifup runs initialize_quotas, whose program restore_quotas rebuilds the  *)
(* quota rules and loads their counters from usage files; backup_quotas,   *)
(* run by cron and by ifdown, saves the counters.  Several of either may   *)
(* run at a time.  The counters live in the kernel, the files, the         *)
(* configuration and the crontab on flash, the lock file in RAM.  The      *)
(* power may fail at any point.                                            *)
(*                                                                         *)
(* A quota section has one limit.  An id is the base name of its section   *)
(* (the first ip it names) or the one alternative the code can come up     *)
(* with.                                                                   *)
(***************************************************************************)
EXTENDS Integers

CONSTANTS
    Sections, \* the quota sections
    Place,    \* the place of a section in the configuration file
    Others,   \* those whose ip is ALL_OTHERS_...: restored last
    Base,     \* the name of a section's first ip
    Slashed,  \* those whose list of ips has a slash in it
    NoId, None,
    MaxUse,   \* bound on the traffic of an id
    Edits,    \* what the user does to each section
    Restores, \* runs of initialize_quotas
    Backups,  \* runs of backup_quotas
    Overlap   \* may a script test the lock file between the test and the touch
              \* of another one

Names == {Base[q] : q \in Sections}
Ids == Names \X {"", "_Z-25"}

ASSUME QuotaAssumption ==
    /\ Place \in [Sections -> Int]
    /\ \A q, r \in Sections : Place[q] = Place[r] => q = r
    /\ Others \subseteq Sections /\ Slashed \subseteq Sections
    /\ NoId \notin Ids /\ None \notin Int /\ MaxUse \in Nat
    /\ Edits \in [Sections -> SUBSET {"switch", "remove", "define"}]
    /\ Overlap \in BOOLEAN

VARIABLES
    uci,      \* the sections: present, enabled, ignore (the backup), id
    cron,     \* lines of root's crontab: the one for backup_quotas and another
    file,     \* usage file of each id
    lock,     \* does /tmp/quota_init.lock exist
    link,     \* is the wan interface up
    chains,   \* do the quota chains exist
    counter,  \* counter of the rule with each id, None without a rule
    rpc, rtodo, rconf,  \* each restore: step, sections left, configuration
    bpc, btodo, bconf,  \* each backup: the same
    held,     \* and the count that it has read and not written yet, else None
    use, saved, raced, stale  \* history: traffic that the rules with each id saw;
              \* the last count written for it since a backup was to be ignored,
              \* and was that count or its loading no good, see below; is the
              \* count that a backup holds no longer good

flash   == <<uci, cron, file>>
restore == <<rpc, rtodo, rconf>>
backup  == <<bpc, btodo, bconf, held>>
history == <<use, saved, raced, stale>>
vars    == <<flash, lock, link, chains, counter, restore, backup, history>>

Option == [present : BOOLEAN, enabled : BOOLEAN, ignore : BOOLEAN,
           id : Ids \cup {NoId}]

Count == 0 .. MaxUse

NoRules == [i \in Ids |-> None]
Zero == [i \in Ids |-> 0]
Gone == [present |-> FALSE, enabled |-> FALSE, ignore |-> FALSE, id |-> NoId]
Unread == [q \in Sections |-> Gone]

Init ==
    /\ uci \in [Sections -> {o \in Option : o.present /\ o.enabled /\ o.id = NoId} \cup {Gone}]
    /\ cron = {"other"} /\ file = NoRules
    /\ lock = FALSE /\ link = "down" /\ chains = FALSE /\ counter = NoRules
    /\ rpc = [r \in Restores |-> "idle"] /\ rtodo = [r \in Restores |-> {}]
    /\ rconf = [r \in Restores |-> Unread]
    /\ bpc = [b \in Backups |-> "idle"] /\ btodo = [b \in Backups |-> {}]
    /\ bconf = [b \in Backups |-> Unread] /\ held = [b \in Backups |-> None]
    /\ use = Zero /\ saved = Zero /\ raced = [i \in Ids |-> FALSE]
    /\ stale = [b \in Backups |-> FALSE]

-----------------------------------------------------------------------------
(***************************************************************************)
(* What a backup saves.                                                    *)
(***************************************************************************)
\* A section without an id is saved under its list of ips, a single one here
\* unless there is a slash in it.  With a slash the name of the file is an
\* uninitialized pointer: the program may die, and otherwise writes somewhere
\* else.
NameOf(conf, q) == IF conf[q].id = NoId THEN <<Base[q], "">> ELSE conf[q].id
Wild(conf, q) == conf[q].id = NoId /\ q \in Slashed

Upcoming(b, q) == q \in btodo[b] /\ \A p \in btodo[b] \ {q} : Place[q] < Place[p]

\* The counts that backups hold for id i are those of its rule no longer.
Holds(b, i) ==
    bpc[b] = "write" /\ \E q \in Sections : Upcoming(b, q) /\ NameOf(bconf[b], q) = i
Outdated(i) == [b \in Backups |-> stale[b] \/ Holds(b, i)]

-----------------------------------------------------------------------------
(***************************************************************************)
(* initialize_quotas and restore_quotas, one action per step.              *)
(***************************************************************************)
Configured(conf) == {q \in Sections : conf[q].present}

\* The sections of ALL_OTHERS are put off until the others are done.
Before(q, p) ==
    \/ q \notin Others /\ p \in Others
    \/ (q \in Others <=> p \in Others) /\ Place[q] < Place[p]

\* Ids defined by sections, and those given so far.
Taken_Alternative(conf) == {}
Taken(conf) == {conf[q].id : q \in Configured(conf)}

\* The loop that looks for a free id tries two names for ever.
Candidates(q) == {<<Base[q], "">>, <<Base[q], "_Z-25">>}
NewId(conf, q) == IF <<Base[q], "">> \notin Taken(conf) THEN <<Base[q], "">>
                  ELSE <<Base[q], "_Z-25">>

\* q is the next section.
Step(r, q) == q \in rtodo[r] /\ \A p \in rtodo[r] \ {q} : Before(q, p)

\* The rule with id i is there and its count is still to be loaded.
Fresh(i) ==
    \E r \in Restores : /\ rpc[r] = "count"
                        /\ \E q \in Sections : Step(r, q) /\ rconf[r][q].id = i

\* The section that was done leaves the list.
Shift_Kept(r, q) == rtodo[r]
Shift(r, q) == rtodo[r] \ {q}

\* Step, sections left, and the section q of its copy of the configuration.
Goto(r, step) == rpc' = [rpc EXCEPT ![r] = step]
Left(r, todo) == rtodo' = [rtodo EXCEPT ![r] = todo]
Redefine(r, q, o) == rconf' = [rconf EXCEPT ![r] = [rconf[r] EXCEPT ![q] = o]]
Onward(r, todo) == Left(r, todo) /\ Goto(r, IF todo = {} THEN "cron" ELSE "rule")

Ifup(r) ==
    /\ link = "down" /\ link' = "up"
    /\ rpc[r] = "idle" /\ Goto(r, "test")
    /\ UNCHANGED <<flash, lock, chains, counter, rtodo, rconf, backup, history>>

\* Nothing to do while the lock file exists, or without a name for the interface.
Test(r) ==
    /\ rpc[r] = "test"
    /\ Overlap \/ \A s \in Restores : rpc[s] # "touch"
    /\ \/ Goto(r, "idle")
       \/ ~lock /\ Goto(r, "touch")
    /\ UNCHANGED <<flash, lock, link, chains, counter, rtodo, rconf, backup, history>>

Touch(r) ==
    /\ rpc[r] = "touch" /\ Goto(r, "flush")
    /\ lock' = TRUE
    /\ UNCHANGED <<flash, link, chains, counter, rtodo, rconf, backup, history>>

\* The old chains go, and with them every counter.  What a backup still holds is
\* from before.
Flush(r) ==
    /\ rpc[r] = "flush" /\ Goto(r, "read")
    /\ counter' = NoRules /\ chains' = FALSE
    /\ stale' = [b \in Backups |-> bpc[b] = "write"]
    /\ UNCHANGED <<flash, lock, link, rtodo, rconf, backup, use, saved, raced>>

\* The configuration is read, and the new chains are made if it has quotas.
Read(r) ==
    /\ rpc[r] = "read" /\ Goto(r, IF Configured(uci) = {} THEN "uncron" ELSE "rule")
    /\ rconf' = [rconf EXCEPT ![r] = uci]
    /\ Left(r, Configured(uci))
    /\ chains' = (chains \/ Configured(uci) # {})
    /\ UNCHANGED <<flash, lock, link, counter, backup, history>>

Skip(r, q) ==
    /\ rpc[r] = "rule" /\ Step(r, q)
    /\ ~rconf[r][q].enabled
    /\ Onward(r, Shift(r, q))
    /\ UNCHANGED <<flash, lock, link, chains, counter, rconf, backup, history>>

\* Both names are taken: the loop never ends.
Spin(r, q) ==
    /\ rpc[r] = "rule" /\ Step(r, q)
    /\ rconf[r][q].enabled /\ rconf[r][q].id = NoId
    /\ Candidates(q) \subseteq Taken(rconf[r])
    /\ Goto(r, "spin")
    /\ UNCHANGED <<flash, lock, link, chains, counter, rtodo, rconf, backup, history>>

\* The rule is created, with an empty counter.  A second rule with the id of an
\* overlapping restore may be refused, or share the counter and empty it.
Rule(r, q) ==
    /\ rpc[r] = "rule" /\ Step(r, q)
    /\ rconf[r][q].enabled
    /\ \E i \in Ids :
         /\ IF rconf[r][q].id # NoId THEN i = rconf[r][q].id
            ELSE ~(Candidates(q) \subseteq Taken(rconf[r])) /\ i = NewId(rconf[r], q)
         /\ Redefine(r, q, [rconf[r][q] EXCEPT !.id = i])
         /\ \/ counter' = [counter EXCEPT ![i] = 0]
            \/ counter[i] # None /\ UNCHANGED counter
         /\ stale' = Outdated(i)
    /\ Goto(r, "count")
    /\ UNCHANGED <<flash, lock, link, chains, rtodo, backup, use, saved, raced>>

\* The counter is loaded from the file, unless the backup is to be ignored.
Loaded_Never(conf, q, i) == counter[i]
Loaded_AnyCount(conf, q, i) == IF file[i] = None THEN counter[i] ELSE file[i] + 1
Loaded_Added(conf, q, i) ==
    counter[i] + (IF conf[q].ignore \/ file[i] = None THEN 0 ELSE file[i])
Loaded(conf, q, i) == IF conf[q].ignore \/ file[i] = None THEN counter[i] ELSE file[i]

\* The kernel may refuse, and does if there is no rule with the id.
Load(r, q) ==
    /\ rpc[r] = "count" /\ Step(r, q)
    /\ LET conf == rconf[r]
           i == conf[q].id
       IN /\ \/ /\ counter[i] # None
                /\ counter' = [counter EXCEPT ![i] = Loaded(conf, q, i)]
                /\ raced' = [raced EXCEPT ![i] = @ /\ ~conf[q].ignore]
                /\ saved' = [saved EXCEPT ![i] = IF conf[q].ignore THEN 0 ELSE @]
             \/ /\ counter[i] = None \/ (~conf[q].ignore /\ file[i] # None)
                /\ raced' = [raced EXCEPT ![i] = @ \/ counter[i] # None]
                /\ UNCHANGED <<counter, saved>>
          /\ stale' = Outdated(i)
    /\ Redefine(r, q, [rconf[r][q] EXCEPT !.ignore = FALSE])
    /\ Onward(r, Shift(r, q))
    /\ UNCHANGED <<flash, lock, link, chains, backup, use>>

\* Quotas exist: append the line for backup_quotas if it is missing.
Scheduled_Never == cron
Scheduled == cron \cup {"backup"}

Cron(r) ==
    /\ rpc[r] = "cron" /\ Goto(r, "commit")
    /\ cron' = Scheduled
    /\ UNCHANGED <<uci, file, lock, link, chains, counter, rtodo, rconf, backup, history>>

\* No quotas exist: if the line is there the crontab is truncated, and a file
\* that is closed already is closed again, which may kill the program.
Uncron(r) ==
    /\ rpc[r] = "uncron"
    /\ IF "backup" \in cron
       THEN cron' = {} /\ (Goto(r, "commit") \/ Goto(r, "unlock"))
       ELSE UNCHANGED cron /\ Goto(r, "commit")
    /\ UNCHANGED <<uci, file, lock, link, chains, counter, rtodo, rconf, backup, history>>

Commit(r) ==
    /\ rpc[r] = "commit" /\ Goto(r, "unlock")
    /\ uci' = rconf[r]
    /\ UNCHANGED <<cron, file, lock, link, chains, counter, rtodo, rconf, backup, history>>

Unlock(r) ==
    /\ rpc[r] = "unlock" /\ Goto(r, "idle")
    /\ lock' = FALSE
    /\ rconf' = [rconf EXCEPT ![r] = Unread]
    /\ UNCHANGED <<flash, link, chains, counter, rtodo, backup, history>>

Restore(r) ==
    \/ Test(r) \/ Touch(r) \/ Flush(r) \/ Read(r)
    \/ Cron(r) \/ Uncron(r) \/ Commit(r) \/ Unlock(r)
    \/ \E q \in Sections : Skip(r, q) \/ Spin(r, q) \/ Rule(r, q) \/ Load(r, q)

-----------------------------------------------------------------------------
(***************************************************************************)
(* backup_quotas.                                                          *)
(***************************************************************************)
StartBackup(b) ==
    /\ bpc[b] = "idle" /\ bpc' = [bpc EXCEPT ![b] = "run"]
    /\ bconf' = [bconf EXCEPT ![b] = uci]
    /\ btodo' = [btodo EXCEPT ![b] = Configured(uci)]
    /\ UNCHANGED held

CronBackup(b) ==
    /\ "backup" \in cron
    /\ StartBackup(b)
    /\ UNCHANGED <<flash, lock, link, chains, counter, restore, history>>

\* ifdown saves the counters if the quota chains exist, whoever else does.
Ifdown(b) ==
    /\ link = "up" /\ link' = "down"
    /\ IF chains THEN StartBackup(b) ELSE UNCHANGED backup
    /\ UNCHANGED <<flash, lock, chains, counter, restore, history>>

\* The count is read from the kernel.
Query(b, q) ==
    /\ bpc[b] = "run" /\ Upcoming(b, q) /\ bpc' = [bpc EXCEPT ![b] = "write"]
    /\ ~bconf[b][q].ignore /\ ~Wild(bconf[b], q)
    /\ LET i == NameOf(bconf[b], q) IN
       /\ counter[i] # None
       /\ held' = [held EXCEPT ![b] = counter[i]]
       /\ stale' = [stale EXCEPT ![b] = Fresh(i)]
    /\ UNCHANGED <<flash, lock, link, chains, counter, restore, btodo, bconf,
                   use, saved, raced>>

\* And written to the file.  Another backup that holds a count for it may now write
\* an older one over it.
Write(b, q) ==
    /\ bpc[b] = "write" /\ Upcoming(b, q) /\ bpc' = [bpc EXCEPT ![b] = "run"]
    /\ held' = [held EXCEPT ![b] = None]
    /\ btodo' = [btodo EXCEPT ![b] = @ \ {q}]
    /\ LET i == NameOf(bconf[b], q) IN
       /\ file' = [file EXCEPT ![i] = held[b]]
       /\ saved' = [saved EXCEPT ![i] = held[b]]
       /\ raced' = [raced EXCEPT ![i] = stale[b] \/ Fresh(i)]
       /\ stale' = [Outdated(i) EXCEPT ![b] = FALSE]
    /\ UNCHANGED <<uci, cron, lock, link, chains, counter, restore, bconf, use>>

\* Nothing to save, or the kernel does not answer.
Pass(b, q) ==
    /\ bpc[b] = "run" /\ Upcoming(b, q)
    /\ btodo' = [btodo EXCEPT ![b] = @ \ {q}]
    /\ UNCHANGED <<flash, lock, link, chains, counter, restore, bpc, bconf, held, history>>

EndBackup(b) ==
    /\ bpc[b] = "run" /\ bpc' = [bpc EXCEPT ![b] = "idle"]
    /\ \/ btodo[b] = {}
       \/ \E q \in btodo[b] : Upcoming(b, q) /\ Wild(bconf[b], q) /\ ~bconf[b][q].ignore
    /\ btodo' = [btodo EXCEPT ![b] = {}] /\ bconf' = [bconf EXCEPT ![b] = Unread]
    /\ UNCHANGED <<flash, lock, link, chains, counter, restore, held, history>>

Backup(b) ==
    EndBackup(b) \/ \E q \in Sections : Query(b, q) \/ Write(b, q) \/ Pass(b, q)

-----------------------------------------------------------------------------
(***************************************************************************)
(* The environment.                                                        *)
(***************************************************************************)
\* Traffic counts where a rule exists.
Traffic(i) ==
    /\ counter[i] # None /\ counter[i] < MaxUse /\ use[i] < MaxUse
    /\ use' = [use EXCEPT ![i] = @ + 1]
    /\ counter' = [counter EXCEPT ![i] = @ + 1]
    /\ UNCHANGED <<flash, lock, link, chains, restore, backup, saved, raced, stale>>

\* The user interface edits a section while none of the scripts is running: it
\* is switched on or off, removed, or defined anew without its old usage.
Edited(q) ==
    LET defined == [present |-> TRUE, enabled |-> TRUE, ignore |-> TRUE, id |-> uci[q].id]
    IN  (IF "switch" \in Edits[q] THEN {[uci[q] EXCEPT !.enabled = uci[q].present /\ ~@]} ELSE {})
        \cup (IF "remove" \in Edits[q] THEN {Gone} ELSE {})
        \cup (IF "define" \in Edits[q] THEN {defined} ELSE {})

Edit(q) ==
    /\ \A r \in Restores : rpc[r] \in {"idle", "spin"}
    /\ \A b \in Backups : bpc[b] = "idle"
    /\ \E o \in Edited(q) : uci' = [uci EXCEPT ![q] = o]
    /\ UNCHANGED <<cron, file, lock, link, chains, counter, restore, backup, history>>

\* The power fails: what is not on flash is gone.
PowerLoss ==
    /\ lock' = FALSE /\ link' = "down" /\ chains' = FALSE /\ counter' = NoRules
    /\ rpc' = [r \in Restores |-> "idle"] /\ rtodo' = [r \in Restores |-> {}]
    /\ rconf' = [r \in Restores |-> Unread]
    /\ bpc' = [b \in Backups |-> "idle"] /\ btodo' = [b \in Backups |-> {}]
    /\ bconf' = [b \in Backups |-> Unread] /\ held' = [b \in Backups |-> None]
    /\ stale' = [b \in Backups |-> FALSE]
    /\ UNCHANGED <<flash, use, saved, raced>>

Next ==
    \/ \E r \in Restores : Ifup(r) \/ Restore(r)
    \/ \E b \in Backups : CronBackup(b) \/ Ifdown(b) \/ Backup(b)
    \/ \E q \in Sections : Edit(q)
    \/ \E i \in Ids : Traffic(i)
    \/ PowerLoss

Spec == Init /\ [][Next]_vars

\* Programs that were started run.
FairSpec == Spec /\ \A r \in Restores : WF_vars(Restore(r))

-----------------------------------------------------------------------------
(***************************************************************************)
(* Correctness.                                                            *)
(***************************************************************************)
\* Every variable has its type.
TypeOK ==
    /\ uci \in [Sections -> Option]
    /\ rconf \in [Restores -> [Sections -> Option]]
    /\ bconf \in [Backups -> [Sections -> Option]]
    /\ cron \subseteq {"backup", "other"}
    /\ file \in [Ids -> Count \cup {None}] /\ counter \in [Ids -> Count \cup {None}]
    /\ lock \in BOOLEAN /\ chains \in BOOLEAN /\ link \in {"up", "down"}
    /\ rpc \in [Restores -> {"idle", "test", "touch", "flush", "read", "rule", "count",
                             "cron", "uncron", "commit", "unlock", "spin"}]
    /\ bpc \in [Backups -> {"idle", "run", "write"}]
    /\ rtodo \in [Restores -> SUBSET Sections] /\ btodo \in [Backups -> SUBSET Sections]
    /\ held \in [Backups -> Count \cup {None}]
    /\ \A b \in Backups : held[b] # None <=> bpc[b] = "write"
    /\ use \in [Ids -> Count] /\ saved \in [Ids -> Count]
    /\ raced \in [Ids -> BOOLEAN] /\ stale \in [Backups -> BOOLEAN]

\* No restore_quotas is running.
Settled == \A r \in Restores : rpc[r] = "idle"

\* No id is charged for more traffic than its rules ever saw, none twice for the
\* same, over any order of backups, restores, edits and power failures.
ChargedOnce == \A i \in Ids : counter[i] # None => counter[i] <= use[i]

\* The count that was saved last is not forgotten by a restore.  Excepted are a save
\* that did not have the current count of the rule (between its query and its
\* write the rules were made anew, or another backup wrote, or the rule waited for
\* its own count), and a count that the kernel refused to load, until the next save.
NotForgotten ==
    Settled => \A i \in Ids :
        counter[i] # None /\ ~raced[i] => counter[i] >= saved[i]

\* Two sections never share an id, and so a counter and a file.
IdsDistinct ==
    \A q, p \in Sections :
        q # p /\ uci[q].present /\ uci[p].present /\ uci[q].id # NoId
            => uci[q].id # uci[p].id

\* While quotas are in force their backup is scheduled.
BackupScheduled ==
    Settled /\ (\E i \in Ids : counter[i] # None) => "backup" \in cron

\* A restore that begins ends and gives the lock back, except in the loop that
\* looks for a third name, which keeps it.
RestoreEnds == \A r \in Restores : rpc[r] = "flush" ~> (rpc[r] = "spin" \/ ~lock)

-----------------------------------------------------------------------------
(***************************************************************************)
(* The refinement: restoring and backing up quotas implements UsageLedger, *)
(* as long as the lock file keeps restores apart.                          *)
(***************************************************************************)
Readings ==
    {e \in Ids \X Count : \E b \in Backups : Holds(b, e[1]) /\ held[b] = e[2]}

Ledger == INSTANCE UsageLedger
    WITH Accounts <- Ids, charged <- counter, kept <- file, seen <- use,
         readings <- Readings, opening <- {i \in Ids : Fresh(i)}

\* Whatever the scripts do to a counter or a file is a step of UsageLedger: in
\* particular no rule is created over the counter of another one, a count is
\* loaded into the rule that was created last, once, and what is written to a file
\* was the count of its rule at some time.
ImplementsLedger == Ledger!Spec
=============================================================================
