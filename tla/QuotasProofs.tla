---------------------------- MODULE QuotasProofs ----------------------------
(***************************************************************************)
(* Proofs about Quotas, for any sections, names, edits and traffic and any *)
(* number of restores and backups at a time: no usage is charged twice,    *)
(* none that was saved is forgotten, ids stay distinct, and the backup is  *)
(* scheduled while quotas are in force; and that Quotas implements         *)
(* UsageLedger while the lock file keeps restores apart.                   *)
(***************************************************************************)
EXTENDS Quotas, TLAPS

-----------------------------------------------------------------------------
(***************************************************************************)
(* Types.                                                                  *)
(***************************************************************************)
LEMMA CountRange ==
    /\ 0 \in Count
    /\ \A n \in Count : n \in Int /\ n >= 0 /\ n <= MaxUse
    /\ \A n \in Count : n < MaxUse => n + 1 \in Count
    /\ None \notin Count
  BY QuotaAssumption DEF Count

LEMMA CandidateIds == \A q \in Sections : Candidates(q) \subseteq Ids
  <1> SUFFICES ASSUME NEW q \in Sections PROVE Candidates(q) \subseteq Ids
    OBVIOUS
  <1>1. Base[q] \in Names
    BY DEF Names
  <1>2. <<Base[q], "">> \in Ids /\ <<Base[q], "_Z-25">> \in Ids
    BY <1>1 DEF Ids
  <1> QED
    BY <1>2 DEF Candidates

LEMMA SavedIds ==
    ASSUME NEW conf \in [Sections -> Option], NEW q \in Sections
    PROVE  NameOf(conf, q) \in Ids
  <1>1. Base[q] \in Names /\ conf[q].id \in Ids \cup {NoId}
    BY DEF Names, Option
  <1> QED
    BY <1>1 DEF NameOf, Ids

\* A function that is changed at one place keeps its type; where it is not
\* defined nothing changes.
LEMMA ChangeTyped ==
    ASSUME NEW D, NEW R, NEW f \in [D -> R], NEW i, NEW v, i \in D => v \in R
    PROVE  [f EXCEPT ![i] = v] \in [D -> R]
  OBVIOUS

\* Options stay options when one of their fields gets another value.
LEMMA OptionChanges ==
    ASSUME NEW o \in Option
    PROVE  /\ \A i \in Ids : [o EXCEPT !.id = i] \in Option
           /\ \A b \in BOOLEAN : /\ [o EXCEPT !.ignore = b] \in Option
                               /\ [o EXCEPT !.enabled = b] \in Option
  BY DEF Option

\* And do not change otherwise.
LEMMA OptionKeeps ==
    ASSUME NEW o \in Option
    PROVE  /\ \A i : /\ [o EXCEPT !.id = i].id = i
                     /\ [o EXCEPT !.id = i].present = o.present
                     /\ [o EXCEPT !.id = i].enabled = o.enabled
           /\ \A g : /\ [o EXCEPT !.ignore = g].id = o.id
                     /\ [o EXCEPT !.ignore = g].present = o.present
                     /\ [o EXCEPT !.ignore = g].enabled = o.enabled
  BY DEF Option

\* The id of a section is an id, where it has one.
LEMMA GoneTyped == Gone \in Option /\ Unread \in [Sections -> Option]
  BY DEF Gone, Option, Unread

LEMMA RedefineTyped ==
    ASSUME rconf \in [Restores -> [Sections -> Option]],
           NEW r \in Restores, NEW q, NEW o \in Option, Redefine(r, q, o)
    PROVE  rconf' \in [Restores -> [Sections -> Option]]
  <1>1. [rconf[r] EXCEPT ![q] = o] \in [Sections -> Option]
    OBVIOUS
  <1> QED
    BY <1>1 DEF Redefine

LEMMA FirstTypes == Init => TypeOK
  <1> SUFFICES ASSUME Init PROVE TypeOK
    OBVIOUS
  <1>1. uci \in [Sections -> Option]
    BY GoneTyped DEF Init
  <1>2. /\ file \in [Ids -> Count \cup {None}] /\ counter \in [Ids -> Count \cup {None}]
        /\ use \in [Ids -> Count] /\ saved \in [Ids -> Count] /\ raced \in [Ids -> BOOLEAN]
    BY CountRange DEF Init, NoRules, Zero
  <1> QED
    BY <1>1, <1>2, GoneTyped DEF Init, TypeOK

(***************************************************************************)
(* What Rule and Load do, with the id and the new count named.             *)
(***************************************************************************)
RuleTo(r, q, i, v) ==
    /\ rpc[r] = "rule" /\ Step(r, q) /\ rconf[r][q].enabled
    /\ \/ i = rconf[r][q].id
       \/ /\ rconf[r][q].id = NoId /\ i = NewId(rconf[r], q)
          /\ ~(Candidates(q) \subseteq Taken(rconf[r]))
    /\ Redefine(r, q, [rconf[r][q] EXCEPT !.id = i])
    /\ v = 0 \/ (v = counter[i] /\ v # None)
    /\ counter' = [counter EXCEPT ![i] = v]
    /\ stale' = Outdated(i)
    /\ rpc' = [rpc EXCEPT ![r] = "count"]
    /\ UNCHANGED <<flash, lock, link, chains, rtodo, backup, use, saved, raced>>

LEMMA RuleCases ==
    ASSUME TypeOK, NEW r \in Restores, NEW q \in Sections, Rule(r, q)
    PROVE  \E i \in Ids, v \in Count : RuleTo(r, q, i, v)
  <1> PICK i \in Ids :
         /\ IF rconf[r][q].id # NoId THEN i = rconf[r][q].id
            ELSE ~(Candidates(q) \subseteq Taken(rconf[r])) /\ i = NewId(rconf[r], q)
         /\ Redefine(r, q, [rconf[r][q] EXCEPT !.id = i])
         /\ \/ counter' = [counter EXCEPT ![i] = 0]
            \/ counter[i] # None /\ UNCHANGED counter
         /\ stale' = Outdated(i)
    BY DEF Rule
  <1>2. PICK v \in Count : /\ v = 0 \/ (v = counter[i] /\ v # None)
                          /\ counter' = [counter EXCEPT ![i] = v]
    <2>1. CASE counter' = [counter EXCEPT ![i] = 0]
      BY <2>1, CountRange
    <2>2. CASE counter[i] # None /\ UNCHANGED counter
      <3>1. counter[i] \in Count /\ counter' = [counter EXCEPT ![i] = counter[i]]
        BY <2>2 DEF TypeOK
      <3> QED
        BY <2>2, <3>1
    <2> QED
      BY <2>1, <2>2
  <1>3. \/ i = rconf[r][q].id
        \/ /\ rconf[r][q].id = NoId /\ i = NewId(rconf[r], q)
           /\ ~(Candidates(q) \subseteq Taken(rconf[r]))
    OBVIOUS
  <1>4. RuleTo(r, q, i, v)
    BY <1>2, <1>3 DEF Rule, RuleTo, Goto
  <1> QED
    BY <1>4

LoadTo(r, q, i, g, v) ==
    /\ rpc[r] = "count" /\ Step(r, q)
    /\ i = rconf[r][q].id /\ g = rconf[r][q].ignore
    /\ counter' = [counter EXCEPT ![i] = v]
    /\ stale' = Outdated(i)
    /\ \/ /\ counter[i] # None
          /\ v = (IF g \/ file[i] = None THEN counter[i] ELSE file[i])
          /\ raced' = [raced EXCEPT ![i] = raced[i] /\ ~g]
          /\ saved' = [saved EXCEPT ![i] = IF g THEN 0 ELSE saved[i]]
       \/ /\ v = counter[i]
          /\ counter[i] = None \/ (~g /\ file[i] # None)
          /\ raced' = [raced EXCEPT ![i] = raced[i] \/ counter[i] # None]
          /\ UNCHANGED saved
    /\ Redefine(r, q, [rconf[r][q] EXCEPT !.ignore = FALSE])
    /\ rtodo' = [rtodo EXCEPT ![r] = rtodo[r] \ {q}]
    /\ \E step \in {"rule", "cron"} : rpc' = [rpc EXCEPT ![r] = step]
    /\ UNCHANGED <<flash, lock, link, chains, backup, use>>

LEMMA LoadCases ==
    ASSUME TypeOK, NEW r \in Restores, NEW q \in Sections, Load(r, q)
    PROVE  \E i, g, v : i \in Ids \cup {NoId} /\ g \in BOOLEAN /\ LoadTo(r, q, i, g, v)
  <1> DEFINE i == rconf[r][q].id
             g == rconf[r][q].ignore
  <1>1. i \in Ids \cup {NoId} /\ g \in BOOLEAN
    BY DEF TypeOK, Option
  <1>2. /\ Redefine(r, q, [rconf[r][q] EXCEPT !.ignore = FALSE])
        /\ rtodo' = [rtodo EXCEPT ![r] = rtodo[r] \ {q}]
        /\ \E step \in {"rule", "cron"} : rpc' = [rpc EXCEPT ![r] = step]
    <2>1. Onward(r, rtodo[r] \ {q})
      BY DEF Load, Shift
    <2> QED
      BY <2>1 DEF Load, Onward, Left, Goto
  <1>3. CASE /\ counter[i] # None
             /\ counter' = [counter EXCEPT ![i] = Loaded(rconf[r], q, i)]
             /\ raced' = [raced EXCEPT ![i] = raced[i] /\ ~g]
             /\ saved' = [saved EXCEPT ![i] = IF g THEN 0 ELSE saved[i]]
    <2>1. LoadTo(r, q, i, g, Loaded(rconf[r], q, i))
      BY <1>2, <1>3 DEF Load, LoadTo, Loaded
    <2> QED
      BY <1>1, <2>1
  <1>4. CASE /\ counter[i] = None \/ (~g /\ file[i] # None)
             /\ raced' = [raced EXCEPT ![i] = raced[i] \/ counter[i] # None]
             /\ UNCHANGED <<counter, saved>>
    <2>1. counter' = [counter EXCEPT ![i] = counter[i]]
      BY <1>4 DEF TypeOK
    <2>2. LoadTo(r, q, i, g, counter[i])
      BY <1>2, <1>4, <2>1 DEF Load, LoadTo
    <2> QED
      BY <1>1, <2>2
  <1> QED
    BY <1>3, <1>4 DEF Load

LEMMA StaleTyped ==
    ASSUME TypeOK PROVE \A i : Outdated(i) \in [Backups -> BOOLEAN]
  BY DEF TypeOK, Outdated, Holds

LEMMA RestoreTypes ==
    ASSUME TypeOK, NEW r \in Restores, Restore(r) PROVE TypeOK'
  <1> USE DEF TypeOK, Goto
  <1>1. CASE Test(r) \/ Touch(r)
    BY <1>1 DEF Test, Touch, flash, backup, history
  <1>2. CASE Flush(r)
    BY <1>2, CountRange DEF Flush, NoRules, flash, backup
  <1>10. CASE Read(r)
    BY <1>10 DEF Read, Left, Configured, flash, backup, history
  <1>3. CASE Cron(r) \/ Uncron(r)
    BY <1>3 DEF Cron, Uncron, Scheduled, backup, history
  <1>4. CASE Commit(r)
    BY <1>4 DEF Commit, backup, history
  <1>5. CASE Unlock(r)
    BY <1>5, GoneTyped DEF Unlock, flash, backup, history
  <1>6. ASSUME NEW q \in Sections, Skip(r, q) PROVE TypeOK'
    BY <1>6 DEF Skip, Onward, Left, Shift, flash, backup, history
  <1>7. ASSUME NEW q \in Sections, Spin(r, q) PROVE TypeOK'
    BY <1>7 DEF Spin, flash, backup, history
  <1>8. ASSUME NEW q \in Sections, Rule(r, q) PROVE TypeOK'
    <2> PICK i \in Ids, v \in Count : RuleTo(r, q, i, v)
      BY <1>8, RuleCases
    <2>1. rconf' \in [Restores -> [Sections -> Option]]
      <3>1. [rconf[r][q] EXCEPT !.id = i] \in Option
        BY OptionChanges
      <3>2. Redefine(r, q, [rconf[r][q] EXCEPT !.id = i])
        BY DEF RuleTo
      <3> QED
        BY <3>1, <3>2, RedefineTyped
    <2>2. counter' \in [Ids -> Count \cup {None}]
      BY DEF RuleTo
    <2>3. stale' \in [Backups -> BOOLEAN]
      BY StaleTyped DEF RuleTo
    <2>4. rpc' = [rpc EXCEPT ![r] = "count"]
      BY DEF RuleTo
    <2>5. UNCHANGED <<flash, lock, link, chains, rtodo, backup, use, saved, raced>>
      BY DEF RuleTo
    <2> QED
      BY <2>1, <2>2, <2>3, <2>4, <2>5 DEF flash, backup
  <1>9. ASSUME NEW q \in Sections, Load(r, q) PROVE TypeOK'
    <2> PICK i, g, v : i \in Ids \cup {NoId} /\ g \in BOOLEAN /\ LoadTo(r, q, i, g, v)
      BY <1>9, LoadCases
    <2>1. rconf' \in [Restores -> [Sections -> Option]]
      <3>0. rconf[r][q] \in Option
        OBVIOUS
      <3>1. [rconf[r][q] EXCEPT !.ignore = FALSE] \in Option
        BY <3>0, OptionChanges
      <3>2. Redefine(r, q, [rconf[r][q] EXCEPT !.ignore = FALSE])
        BY DEF LoadTo
      <3> QED
        BY <3>1, <3>2, RedefineTyped
    <2>2. counter' \in [Ids -> Count \cup {None}]
      <3>1. i \in Ids => v \in Count \cup {None}
        BY DEF LoadTo
      <3>2. counter' = [counter EXCEPT ![i] = v]
        BY DEF LoadTo
      <3> QED
        BY <3>1, <3>2, ChangeTyped
    <2>3. stale' \in [Backups -> BOOLEAN]
      BY StaleTyped DEF LoadTo
    <2>4. saved' \in [Ids -> Count]
      <3> PICK w : w = IF g THEN 0 ELSE saved[i]
        OBVIOUS
      <3>1. i \in Ids => w \in Count
        BY CountRange
      <3>2. saved' = saved \/ saved' = [saved EXCEPT ![i] = w]
        BY DEF LoadTo
      <3>3. [saved EXCEPT ![i] = w] \in [Ids -> Count]
        BY <3>1, ChangeTyped
      <3> QED
        BY <3>2, <3>3
    <2>5. raced' \in [Ids -> BOOLEAN]
      <3>1. \/ raced' = [raced EXCEPT ![i] = raced[i] /\ ~g]
            \/ raced' = [raced EXCEPT ![i] = raced[i] \/ counter[i] # None]
        BY DEF LoadTo
      <3> QED
        BY <3>1
    <2>6. /\ rtodo' \in [Restores -> SUBSET Sections]
          /\ \E step \in {"rule", "cron"} : rpc' = [rpc EXCEPT ![r] = step]
      BY DEF LoadTo
    <2>7. UNCHANGED <<flash, lock, link, chains, backup, use>>
      BY DEF LoadTo
    <2> QED
      BY <2>1, <2>2, <2>3, <2>4, <2>5, <2>6, <2>7 DEF flash, backup
  <1> QED
    BY <1>1, <1>2, <1>3, <1>4, <1>5, <1>6, <1>7, <1>8, <1>9, <1>10 DEF Restore

LEMMA BackupTypes ==
    ASSUME TypeOK, NEW b \in Backups, CronBackup(b) \/ Ifdown(b) \/ Backup(b) PROVE TypeOK'
  <1> USE DEF TypeOK
  <1>1. CASE CronBackup(b) \/ Ifdown(b)
    <2>1. CASE UNCHANGED backup
      BY <1>1, <2>1 DEF CronBackup, Ifdown, backup, flash, restore, history
    <2>2. CASE StartBackup(b)
      BY <1>1, <2>2 DEF CronBackup, Ifdown, StartBackup, Configured, flash, restore, history
    <2> QED
      BY <1>1, <2>1, <2>2 DEF CronBackup, Ifdown
  <1>2. CASE EndBackup(b)
    BY <1>2, GoneTyped DEF EndBackup, flash, restore, history
  <1>3. ASSUME NEW q \in Sections, Pass(b, q) PROVE TypeOK'
    BY <1>3 DEF Pass, flash, restore, history
  <1>4. ASSUME NEW q \in Sections, Query(b, q) PROVE TypeOK'
    <2> PICK i \in Ids : i = NameOf(bconf[b], q)
      BY SavedIds
    <2>1. held' = [held EXCEPT ![b] = counter[i]] /\ stale' = [stale EXCEPT ![b] = Fresh(i)]
      BY <1>4 DEF Query
    <2>2. held' \in [Backups -> Count \cup {None}]
      BY <2>1
    <2>3. stale' \in [Backups -> BOOLEAN]
      BY <2>1 DEF Fresh
    <2> QED
      BY <1>4, <2>2, <2>3 DEF Query, flash, restore
  <1>5. ASSUME NEW q \in Sections, Write(b, q) PROVE TypeOK'
    <2> PICK i \in Ids : i = NameOf(bconf[b], q)
      BY SavedIds
    <2>1. /\ held[b] # None
          /\ file' = [file EXCEPT ![i] = held[b]] /\ saved' = [saved EXCEPT ![i] = held[b]]
          /\ raced' = [raced EXCEPT ![i] = stale[b] \/ Fresh(i)]
          /\ stale' = [Outdated(i) EXCEPT ![b] = FALSE]
      BY <1>5 DEF Write
    <2>2. file' \in [Ids -> Count \cup {None}] /\ saved' \in [Ids -> Count]
      BY <2>1
    <2>3. raced' \in [Ids -> BOOLEAN]
      BY <2>1 DEF Fresh
    <2>4. stale' \in [Backups -> BOOLEAN]
      BY <2>1, StaleTyped
    <2> QED
      BY <1>5, <2>2, <2>3, <2>4 DEF Write, restore
  <1> QED
    BY <1>1, <1>2, <1>3, <1>4, <1>5 DEF Backup

LEMMA StepTypes == TypeOK /\ [Next]_vars => TypeOK'
  <1> SUFFICES ASSUME TypeOK, [Next]_vars PROVE TypeOK'
    OBVIOUS
  <1> USE DEF TypeOK
  <1>1. CASE UNCHANGED vars
    BY <1>1 DEF vars, flash, restore, backup, history
  <1>2. ASSUME NEW r \in Restores, Ifup(r) PROVE TypeOK'
    BY <1>2 DEF Ifup, Goto, flash, backup, history
  <1>3. CASE PowerLoss
    BY <1>3, GoneTyped DEF PowerLoss, NoRules, flash
  <1>4. ASSUME NEW q \in Sections, Edit(q) PROVE TypeOK'
    <2>1. Edited(q) \subseteq Option
      <3>0. Gone \in Option
        BY GoneTyped
      <3>1. [uci[q] EXCEPT !.enabled = uci[q].present /\ ~@] \in Option
        BY OptionChanges
      <3>2. [present |-> TRUE, enabled |-> TRUE, ignore |-> TRUE, id |-> uci[q].id] \in Option
        BY DEF Option
      <3> QED
        BY <3>0, <3>1, <3>2 DEF Edited
    <2> QED
      BY <1>4, <2>1 DEF Edit, restore, backup, history
  <1>5. ASSUME NEW i \in Ids, Traffic(i) PROVE TypeOK'
    <2>0. /\ counter[i] \in Count /\ use[i] \in Count
          /\ counter[i] < MaxUse /\ use[i] < MaxUse
      BY <1>5 DEF Traffic
    <2>1. counter[i] + 1 \in Count /\ use[i] + 1 \in Count
      BY <2>0, CountRange
    <2> QED
      BY <1>5, <2>1 DEF Traffic, flash, restore, backup
  <1> HIDE DEF TypeOK
  <1> QED
    BY <1>1, <1>2, <1>3, <1>4, <1>5, RestoreTypes, BackupTypes DEF Next

\* TypeOK (in particular no counter leaves the range of what an id can use, and a
\* backup holds a count from its query to its write).
THEOREM TypeCorrect == Spec => []TypeOK
  BY FirstTypes, StepTypes, PTL DEF Spec

-----------------------------------------------------------------------------
(***************************************************************************)
(* Who waits and who holds: a restore moves itself only, and the actions   *)
(* that neither count nor save leave the rules that wait for a count and   *)
(* what backups hold as they are.                                          *)
(***************************************************************************)
Alone(r) ==
    \A s \in Restores \ {r} :
        rpc'[s] = rpc[s] /\ rtodo'[s] = rtodo[s] /\ rconf'[s] = rconf[s]

Elsewhere == UNCHANGED <<link, file, bpc, btodo, bconf, held, use>>

LEMMA RestoreMoves ==
    ASSUME TypeOK, NEW r \in Restores, Restore(r) PROVE Alone(r) /\ Elsewhere
  <1> USE DEF TypeOK, Goto, Alone, Elsewhere
  <1>1. CASE Test(r) \/ Touch(r) \/ Cron(r) \/ Uncron(r) \/ Commit(r) \/ Unlock(r)
    BY <1>1 DEF Test, Touch, Cron, Uncron, Commit, Unlock, flash, backup, history
  <1>2. CASE Flush(r) \/ Read(r)
    BY <1>2 DEF Flush, Read, Left, flash, backup, history
  <1>3. ASSUME NEW q \in Sections, Skip(r, q) \/ Spin(r, q) PROVE Alone(r) /\ Elsewhere
    BY <1>3 DEF Skip, Spin, Onward, Left, flash, backup, history
  <1>4. ASSUME NEW q \in Sections, Rule(r, q) PROVE Alone(r) /\ Elsewhere
    <2> PICK i \in Ids, v \in Count : RuleTo(r, q, i, v)
      BY <1>4, RuleCases
    <2> QED
      BY DEF RuleTo, Redefine, flash, backup
  <1>5. ASSUME NEW q \in Sections, Load(r, q) PROVE Alone(r) /\ Elsewhere
    <2> PICK i, g, v : i \in Ids \cup {NoId} /\ g \in BOOLEAN /\ LoadTo(r, q, i, g, v)
      BY <1>5, LoadCases
    <2> QED
      BY DEF LoadTo, Redefine, flash, backup
  <1> QED
    BY <1>1, <1>2, <1>3, <1>4, <1>5 DEF Restore

FreshSame == \A i \in Ids : Fresh(i)' <=> Fresh(i)
HoldsSame == \A b \in Backups, i \in Ids : Holds(b, i)' <=> Holds(b, i)

LEMMA FreshStays ==
    ASSUME NEW r \in Restores, Alone(r), rpc[r] # "count", rpc'[r] # "count"
    PROVE  FreshSame
  BY DEF Alone, FreshSame, Fresh, Step

LEMMA FreshKept == ASSUME UNCHANGED restore PROVE FreshSame
  BY DEF restore, FreshSame, Fresh, Step

LEMMA HoldsKept == ASSUME UNCHANGED <<bpc, btodo, bconf>> PROVE HoldsSame
  BY DEF HoldsSame, Holds, Upcoming

LEMMA HoldsStays ==
    ASSUME NEW b \in Backups, bpc[b] # "write", bpc'[b] # "write",
           \A c \in Backups \ {b} :
               bpc'[c] = bpc[c] /\ btodo'[c] = btodo[c] /\ bconf'[c] = bconf[c]
    PROVE  HoldsSame
  BY DEF HoldsSame, Holds, Upcoming

Counts == <<file, counter, use, saved, raced, stale, held>>
Still == UNCHANGED Counts /\ FreshSame /\ HoldsSame

LEMMA StepSplits ==
    ASSUME TypeOK, [Next]_vars
    PROVE  \/ PowerLoss \/ Still
           \/ \E r \in Restores : \/ Flush(r)
                                  \/ \E q \in Sections : Rule(r, q) \/ Load(r, q)
           \/ \E b \in Backups, q \in Sections : Query(b, q) \/ Write(b, q)
           \/ \E i \in Ids : Traffic(i)
  <1> USE DEF Still, Counts
  <1>1. CASE UNCHANGED vars
    BY <1>1, FreshKept, HoldsKept DEF vars, flash, restore, backup, history
  <1>2. ASSUME NEW r \in Restores,
               \/ Ifup(r) \/ Test(r) \/ Touch(r) \/ Read(r)
               \/ Cron(r) \/ Uncron(r) \/ Commit(r) \/ Unlock(r)
        PROVE  Still
    <2>1. Alone(r)
      BY <1>2 DEF Ifup, Test, Touch, Read, Left, Cron, Uncron, Commit, Unlock, Goto, TypeOK, Alone
    <2>2. rpc[r] # "count" /\ rpc'[r] # "count"
      BY <1>2 DEF Ifup, Test, Touch, Read, Cron, Uncron, Commit, Unlock, Goto, TypeOK
    <2>3. FreshSame
      BY <2>1, <2>2, FreshStays
    <2>4. UNCHANGED Counts /\ UNCHANGED <<bpc, btodo, bconf>>
      BY <1>2 DEF Ifup, Test, Touch, Read, Cron, Uncron, Commit, Unlock, flash, backup, history
    <2> QED
      BY <2>3, <2>4, HoldsKept
  <1>3. ASSUME NEW r \in Restores, NEW q \in Sections, Skip(r, q) \/ Spin(r, q)
        PROVE  Still
    <2>1. Alone(r)
      BY <1>3 DEF Skip, Spin, Onward, Left, Goto, TypeOK, Alone
    <2>2. rpc[r] # "count" /\ rpc'[r] # "count"
      BY <1>3 DEF Skip, Spin, Onward, Goto, TypeOK
    <2>3. FreshSame
      BY <2>1, <2>2, FreshStays
    <2>4. UNCHANGED Counts /\ UNCHANGED <<bpc, btodo, bconf>>
      BY <1>3 DEF Skip, Spin, flash, backup, history
    <2> QED
      BY <2>3, <2>4, HoldsKept
  <1>4. ASSUME NEW b \in Backups,
               \/ CronBackup(b) \/ Ifdown(b) \/ EndBackup(b)
               \/ \E q \in Sections : Pass(b, q)
        PROVE  Still
    <2>1. UNCHANGED Counts /\ UNCHANGED restore
      BY <1>4 DEF CronBackup, Ifdown, StartBackup, EndBackup, Pass, flash, backup, history
    <2>2. CASE UNCHANGED backup
      BY <2>1, <2>2, FreshKept, HoldsKept DEF backup
    <2>3. CASE StartBackup(b) \/ EndBackup(b) \/ \E q \in Sections : Pass(b, q)
      <3>1. /\ bpc[b] # "write" /\ bpc'[b] # "write"
            /\ \A c \in Backups \ {b} :
                  bpc'[c] = bpc[c] /\ btodo'[c] = btodo[c] /\ bconf'[c] = bconf[c]
        BY <2>3 DEF StartBackup, EndBackup, Pass, TypeOK
      <3> QED
        BY <2>1, <3>1, FreshKept, HoldsStays
    <2> QED
      BY <1>4, <2>2, <2>3 DEF CronBackup, Ifdown
  <1>5. ASSUME NEW q \in Sections, Edit(q) PROVE Still
    <2>1. UNCHANGED Counts /\ UNCHANGED restore /\ UNCHANGED <<bpc, btodo, bconf>>
      BY <1>5 DEF Edit, backup, history
    <2> QED
      BY <2>1, FreshKept, HoldsKept
  <1> HIDE DEF Still
  <1> QED
    BY <1>1, <1>2, <1>3, <1>4, <1>5 DEF Next, Restore, Backup

\* There is one next section, for a restore and for a backup.
LEMMA OneStep ==
    ASSUME NEW r \in Restores, NEW q \in Sections, NEW p \in Sections, Step(r, q), Step(r, p)
    PROVE  q = p
  BY QuotaAssumption DEF Step, Before

LEMMA OneUpcoming ==
    ASSUME NEW b \in Backups, NEW q \in Sections, NEW p \in Sections,
           Upcoming(b, q), Upcoming(b, p)
    PROVE  q = p
  BY QuotaAssumption DEF Upcoming

\* What a backup holds after its query, and after its write.
LEMMA QueryHolds ==
    ASSUME TypeOK, NEW b \in Backups, NEW q \in Sections, Query(b, q),
           NEW c \in Backups, NEW i \in Ids
    PROVE  Holds(c, i)' <=> IF c = b THEN i = NameOf(bconf[b], q) ELSE Holds(c, i)
  <1>1. /\ bpc' = [bpc EXCEPT ![b] = "write"] /\ UNCHANGED <<btodo, bconf>>
        /\ Upcoming(b, q)
    BY DEF Query
  <1>2. CASE c = b
    <2>1. bpc'[c] = "write" /\ Upcoming(c, q)'
      BY <1>1, <1>2 DEF TypeOK, Upcoming
    <2>2. \A p \in Sections : Upcoming(c, p)' => p = q
      BY <1>1, <1>2, OneUpcoming DEF Upcoming
    <2> QED
      BY <1>1, <1>2, <2>1, <2>2 DEF Holds
  <1>3. CASE c # b
    BY <1>1, <1>3 DEF TypeOK, Holds, Upcoming
  <1> QED
    BY <1>2, <1>3

LEMMA WriteHolds ==
    ASSUME TypeOK, NEW b \in Backups, NEW q \in Sections, Write(b, q),
           NEW c \in Backups, NEW i \in Ids
    PROVE  Holds(c, i)' <=> c # b /\ Holds(c, i)
  <1>1. /\ bpc' = [bpc EXCEPT ![b] = "run"] /\ bconf' = bconf
        /\ btodo' = [btodo EXCEPT ![b] = @ \ {q}]
    BY DEF Write
  <1> QED
    BY <1>1 DEF TypeOK, Holds, Upcoming

-----------------------------------------------------------------------------
(***************************************************************************)
(* Usage.                                                                  *)
(***************************************************************************)
UseInv ==
    /\ \A i \in Ids :
          /\ use[i] >= 0
          /\ counter[i] # None => counter[i] <= use[i]
          /\ file[i] # None => file[i] <= use[i]
    /\ \A b \in Backups, i \in Ids : Holds(b, i) => held[b] <= use[i]

\* Counts are integers.
Whole ==
    /\ file \in [Ids -> Int \cup {None}] /\ counter \in [Ids -> Int \cup {None}]
    /\ use \in [Ids -> Int] /\ saved \in [Ids -> Int] /\ raced \in [Ids -> BOOLEAN]
    /\ held \in [Backups -> Int \cup {None}] /\ stale \in [Backups -> BOOLEAN]

LEMMA TypeWhole == TypeOK => Whole
  BY CountRange DEF TypeOK, Whole

\* A backup that holds something holds a count.
LEMMA HeldCount ==
    ASSUME TypeOK, NEW b \in Backups, NEW i, Holds(b, i)
    PROVE  held[b] \in Int /\ held[b] # None
  BY CountRange DEF TypeOK, Holds

LEMMA StepUse == TypeOK /\ UseInv /\ [Next]_vars => UseInv'
  <1> SUFFICES ASSUME TypeOK, UseInv, [Next]_vars PROVE UseInv'
    OBVIOUS
  <1>0. Whole
    BY TypeWhole
  <1> USE <1>0 DEF Whole, UseInv
  <1>1. ASSUME NEW r \in Restores, Flush(r) PROVE UseInv'
    <2>1. counter' = NoRules /\ Elsewhere
      BY <1>1, RestoreMoves DEF Flush, Restore
    <2> QED
      BY <2>1, HoldsKept DEF NoRules, Elsewhere, HoldsSame
  <1>2. CASE PowerLoss
    <2>1. counter' = NoRules /\ UNCHANGED <<file, use>> /\ \A b \in Backups : bpc'[b] = "idle"
      BY <1>2 DEF PowerLoss, flash
    <2> QED
      BY <2>1 DEF NoRules, Holds
  <1>3. ASSUME NEW r \in Restores, NEW q \in Sections, Rule(r, q) PROVE UseInv'
    <2> PICK n \in Ids, v \in Count : RuleTo(r, q, n, v)
      BY <1>3, RuleCases
    <2>1. counter' = [counter EXCEPT ![n] = v] /\ (v = 0 \/ (v = counter[n] /\ v # None))
      BY DEF RuleTo
    <2>2. Elsewhere
      BY <1>3, RestoreMoves DEF Restore
    <2> QED
      BY <2>1, <2>2, HoldsKept DEF Elsewhere, HoldsSame
  <1>4. ASSUME NEW r \in Restores, NEW q \in Sections, Load(r, q) PROVE UseInv'
    <2> PICK n, g, v : n \in Ids \cup {NoId} /\ g \in BOOLEAN /\ LoadTo(r, q, n, g, v)
      BY <1>4, LoadCases
    <2>1. counter' = [counter EXCEPT ![n] = v] /\ (v = counter[n] \/ v = file[n])
      BY DEF LoadTo
    <2>2. Elsewhere
      BY <1>4, RestoreMoves DEF Restore
    <2> QED
      BY <2>1, <2>2, HoldsKept DEF Elsewhere, HoldsSame
  <1>5. ASSUME NEW b \in Backups, NEW q \in Sections, Query(b, q) PROVE UseInv'
    <2> PICK n : n = NameOf(bconf[b], q)
      OBVIOUS
    <2>1. /\ counter[n] # None /\ held' = [held EXCEPT ![b] = counter[n]]
          /\ UNCHANGED <<file, counter, use>>
      BY <1>5 DEF Query, flash
    <2> SUFFICES ASSUME NEW c \in Backups, NEW i \in Ids, Holds(c, i)'
                 PROVE  held'[c] <= use[i]
      BY <2>1
    <2>2. IF c = b THEN i = n ELSE Holds(c, i)
      BY <1>5, QueryHolds
    <2> QED
      BY <2>1, <2>2
  <1>6. ASSUME NEW b \in Backups, NEW q \in Sections, Write(b, q) PROVE UseInv'
    <2> PICK n : n = NameOf(bconf[b], q)
      OBVIOUS
    <2>1. /\ file' = [file EXCEPT ![n] = held[b]] /\ held' = [held EXCEPT ![b] = None]
          /\ UNCHANGED <<counter, use>>
      BY <1>6 DEF Write
    <2>2. Holds(b, n)
      BY <1>6 DEF Write, Holds
    <2>3. \A c \in Backups, i \in Ids : Holds(c, i)' => c # b /\ Holds(c, i)
      BY <1>6, WriteHolds
    <2> QED
      BY <2>1, <2>2, <2>3
  <1>7. ASSUME NEW j \in Ids, Traffic(j) PROVE UseInv'
    <2>1. /\ use' = [use EXCEPT ![j] = @ + 1] /\ counter[j] # None
          /\ counter' = [counter EXCEPT ![j] = @ + 1] /\ UNCHANGED <<file, held>>
          /\ UNCHANGED <<bpc, btodo, bconf>>
      BY <1>7 DEF Traffic, flash, backup
    <2>2. \A i \in Ids : use'[i] >= use[i] /\ use[i] \in Int /\ use'[i] \in Int
      BY <2>1
    <2>3. ASSUME NEW b \in Backups, NEW i \in Ids, Holds(b, i)' PROVE held'[b] <= use'[i]
      <3>1. Holds(b, i)
        BY <2>1, <2>3, HoldsKept DEF HoldsSame
      <3>2. held[b] \in Int /\ held[b] <= use[i]
        BY <3>1, HeldCount
      <3> QED
        BY <2>1, <2>2, <3>2
    <2>4. ASSUME NEW i \in Ids PROVE /\ use'[i] >= 0
                                     /\ counter'[i] # None => counter'[i] <= use'[i]
                                     /\ file'[i] # None => file'[i] <= use'[i]
      <3>1. i = j => counter[i] # None /\ counter[i] \in Int
        BY <2>1
      <3> QED
        BY <2>1, <2>2, <3>1
    <2> QED
      BY <2>3, <2>4
  <1>8. CASE Still
    BY <1>8 DEF Still, Counts, HoldsSame
  <1> HIDE DEF UseInv
  <1> QED
    BY <1>1, <1>2, <1>3, <1>4, <1>5, <1>6, <1>7, <1>8, StepSplits

\* ChargedOnce (the count is loaded into an empty counter, never added to one, and a
\* backup writes what was the count once).
THEOREM NeverTwice == Spec => []ChargedOnce
  <1>1. Init => UseInv
    BY DEF Init, UseInv, NoRules, Zero, Holds
  <1>2. UseInv => ChargedOnce
    BY DEF UseInv, ChargedOnce
  <1> QED
    BY <1>1, <1>2, StepUse, TypeCorrect, PTL DEF Spec

-----------------------------------------------------------------------------
(***************************************************************************)
(* Saved counts.                                                           *)
(***************************************************************************)
Kept(i) ==
    /\ saved[i] >= 0
    /\ counter[i] # None => counter[i] >= 0
    /\ file[i] # None => file[i] >= 0
    /\ ~raced[i] /\ saved[i] > 0 => file[i] # None /\ file[i] >= saved[i]
    /\ counter[i] # None /\ ~raced[i] /\ ~Fresh(i) => counter[i] >= saved[i]

\* A count that is held and not stale is at most that of a rule which has its own.
Current(b, i) ==
    /\ held[b] >= 0
    /\ stale[b] \/ (counter[i] # None /\ counter[i] >= held[b] /\ ~Fresh(i))

SavedInv ==
    /\ \A i \in Ids : Kept(i)
    /\ \A b \in Backups, i \in Ids : Holds(b, i) => Current(b, i)

\* Where a counter is set, whoever holds a count for it is out of date.
LEMMA OthersCurrent ==
    ASSUME TypeOK, SavedInv, NEW n, stale' = Outdated(n), UNCHANGED held, HoldsSame,
           \A i \in Ids \ {n} : counter'[i] = counter[i] /\ (Fresh(i)' => Fresh(i)),
           NEW b \in Backups, NEW i \in Ids, Holds(b, i)'
    PROVE  Current(b, i)'
  <1>1. Holds(b, i) /\ Current(b, i)
    BY DEF HoldsSame, SavedInv
  <1>2. stale'[b] <=> stale[b] \/ Holds(b, n)
    BY DEF Outdated
  <1>3. CASE i = n
    BY <1>1, <1>2, <1>3 DEF Current
  <1>4. CASE i # n
    <2>1. counter'[i] = counter[i] /\ (Fresh(i)' => Fresh(i)) /\ held'[b] = held[b]
      BY <1>4
    <2> QED
      BY <1>1, <1>2, <2>1, Zenon DEF Current
  <1> QED
    BY <1>3, <1>4

LEMMA StepSaved == TypeOK /\ SavedInv /\ [Next]_vars => SavedInv'
  <1> SUFFICES ASSUME TypeOK, SavedInv, [Next]_vars PROVE SavedInv'
    OBVIOUS
  <1>0. Whole
    BY TypeWhole
  <1>1. ASSUME NEW r \in Restores, Flush(r) PROVE SavedInv'
    <2>1. /\ counter' = NoRules /\ stale' = [b \in Backups |-> bpc[b] = "write"]
          /\ UNCHANGED <<saved, raced>> /\ Elsewhere
      BY <1>1, RestoreMoves DEF Flush, Restore
    <2>2. \A i \in Ids : Kept(i)'
      BY <2>1 DEF NoRules, Elsewhere, SavedInv, Kept
    <2>3. ASSUME NEW b \in Backups, NEW i \in Ids, Holds(b, i)' PROVE Current(b, i)'
      <3>1. Holds(b, i) /\ held'[b] = held[b]
        BY <2>1, <2>3, HoldsKept DEF Elsewhere, HoldsSame
      <3> QED
        BY <2>1, <3>1 DEF Holds, SavedInv, Current
    <2> QED
      BY <2>2, <2>3 DEF SavedInv
  <1>2. CASE PowerLoss
    <2>1. /\ counter' = NoRules /\ UNCHANGED <<file, saved, raced>>
          /\ \A b \in Backups : bpc'[b] = "idle"
      BY <1>2 DEF PowerLoss, flash
    <2> QED
      BY <2>1 DEF NoRules, Holds, SavedInv, Kept
  <1>3. ASSUME NEW r \in Restores, NEW q \in Sections, Rule(r, q) PROVE SavedInv'
    <2> PICK n \in Ids, v \in Count : RuleTo(r, q, n, v)
      BY <1>3, RuleCases
    <2>1. /\ counter' = [counter EXCEPT ![n] = v] /\ stale' = Outdated(n)
          /\ UNCHANGED <<saved, raced>> /\ rpc[r] = "rule" /\ rpc' = [rpc EXCEPT ![r] = "count"]
          /\ UNCHANGED rtodo /\ Step(r, q)
      BY DEF RuleTo
    <2>2. Alone(r) /\ Elsewhere
      BY <1>3, RestoreMoves DEF Restore
    <2>3. /\ rpc'[r] = "count" /\ Step(r, q)' /\ rconf'[r][q].id = n
          /\ \A p \in Sections : Step(r, p)' => p = q
      <3>1. rconf'[r][q] = [rconf[r][q] EXCEPT !.id = n]
        BY DEF RuleTo, Redefine, TypeOK
      <3>2. rconf'[r][q].id = n
        BY <3>1, OptionKeeps DEF TypeOK
      <3>3. \A p \in Sections : Step(r, p)' <=> Step(r, p)
        BY <2>1 DEF Step
      <3> QED
        BY <2>1, <3>2, <3>3, OneStep DEF TypeOK
    <2>4. Fresh(n)' /\ \A i \in Ids \ {n} : Fresh(i)' <=> Fresh(i)
      BY <2>1, <2>2, <2>3 DEF Alone, Fresh, Step
    <2>5. \A i \in Ids \ {n} : counter'[i] = counter[i]
      BY <2>1 DEF TypeOK
    <2>6. ASSUME NEW i \in Ids PROVE Kept(i)'
      <3>1. Kept(i) /\ file'[i] = file[i] /\ saved'[i] = saved[i] /\ raced'[i] = raced[i]
        BY <2>1, <2>2 DEF Elsewhere, SavedInv
      <3>2. CASE i = n
        <4>1. counter'[i] = v /\ v >= 0
          BY <2>1, <3>2, CountRange DEF TypeOK
        <4>2. Fresh(i)'
          BY <2>4, <3>2
        <4> QED
          BY <3>1, <4>1, <4>2 DEF Kept
      <3>3. CASE i # n
        <4>1. counter'[i] = counter[i] /\ (Fresh(i)' <=> Fresh(i))
          BY <2>4, <2>5, <3>3
        <4> QED
          BY <3>1, <4>1 DEF Kept
      <3> QED
        BY <3>2, <3>3
    <2>7. HoldsSame
      BY <2>2, HoldsKept DEF Elsewhere
    <2>8. \A b \in Backups, i \in Ids : Holds(b, i)' => Current(b, i)'
      BY <2>1, <2>2, <2>4, <2>5, <2>7, OthersCurrent DEF Elsewhere
    <2> QED
      BY <2>6, <2>8 DEF SavedInv
  <1>4. ASSUME NEW r \in Restores, NEW q \in Sections, Load(r, q) PROVE SavedInv'
    <2> PICK n, g, v : n \in Ids \cup {NoId} /\ g \in BOOLEAN /\ LoadTo(r, q, n, g, v)
      BY <1>4, LoadCases
    <2>1. /\ counter' = [counter EXCEPT ![n] = v] /\ stale' = Outdated(n)
          /\ rpc[r] = "count" /\ Step(r, q) /\ n = rconf[r][q].id /\ rpc'[r] # "count"
      BY DEF LoadTo, TypeOK
    <2>2. Alone(r) /\ Elsewhere
      BY <1>4, RestoreMoves DEF Restore
    <2>4. \A i \in Ids \ {n} : Fresh(i)' <=> Fresh(i)
      BY <2>1, <2>2, OneStep DEF Alone, Fresh, Step
    <2>5. \A i \in Ids \ {n} : counter'[i] = counter[i]
      BY <2>1 DEF TypeOK
    <2>6. ASSUME NEW i \in Ids, i # n PROVE Kept(i)'
      <3>1. saved'[i] = saved[i] /\ raced'[i] = raced[i]
        BY <2>6 DEF LoadTo, TypeOK
      <3>2. counter'[i] = counter[i] /\ (Fresh(i)' <=> Fresh(i)) /\ file'[i] = file[i]
        BY <2>2, <2>4, <2>5, <2>6 DEF Elsewhere
      <3>3. Kept(i)
        BY DEF SavedInv
      <3> QED
        BY <3>1, <3>2, <3>3 DEF Kept
    <2>7. ASSUME n \in Ids PROVE Kept(n)'
      <3>1. /\ Kept(n) /\ counter'[n] = v /\ file'[n] = file[n]
            /\ saved[n] \in Int /\ file[n] \in Int \cup {None} /\ counter[n] \in Int \cup {None}
        BY <1>0, <2>1, <2>2, <2>7 DEF SavedInv, Whole, TypeOK, Elsewhere
      <3>2. CASE /\ counter[n] # None
                 /\ v = (IF g \/ file[n] = None THEN counter[n] ELSE file[n])
                 /\ raced' = [raced EXCEPT ![n] = raced[n] /\ ~g]
                 /\ saved' = [saved EXCEPT ![n] = IF g THEN 0 ELSE saved[n]]
        <4>1. CASE g
          <5>1. ~raced'[n] /\ saved'[n] = 0 /\ v = counter[n]
            BY <2>7, <3>2, <4>1 DEF TypeOK
          <5> QED
            BY <3>1, <3>2, <5>1 DEF Kept
        <4>2. CASE ~g
          <5>1. raced'[n] = raced[n] /\ saved'[n] = saved[n]
            BY <2>7, <3>2, <4>2 DEF TypeOK
          <5>2. v = (IF file[n] = None THEN counter[n] ELSE file[n])
            BY <3>2, <4>2
          <5> QED
            BY <3>1, <3>2, <5>1, <5>2 DEF Kept
        <4> QED
          BY <4>1, <4>2
      <3>3. CASE /\ v = counter[n] /\ saved' = saved
                 /\ raced' = [raced EXCEPT ![n] = raced[n] \/ counter[n] # None]
        <4>1. raced'[n] <=> raced[n] \/ counter[n] # None
          BY <2>7, <3>3 DEF TypeOK
        <4> QED
          BY <3>1, <3>3, <4>1 DEF Kept
      <3> QED
        BY <3>2, <3>3 DEF LoadTo
    <2>8. HoldsSame
      BY <2>2, HoldsKept DEF Elsewhere
    <2>9. \A b \in Backups, i \in Ids : Holds(b, i)' => Current(b, i)'
      BY <2>1, <2>2, <2>4, <2>5, <2>8, OthersCurrent DEF Elsewhere
    <2> QED
      BY <2>6, <2>7, <2>9 DEF SavedInv
  <1>5. ASSUME NEW b \in Backups, NEW q \in Sections, Query(b, q) PROVE SavedInv'
    <2> PICK n \in Ids : n = NameOf(bconf[b], q)
      BY SavedIds DEF TypeOK
    <2>1. /\ counter[n] # None /\ held' = [held EXCEPT ![b] = counter[n]]
          /\ stale' = [stale EXCEPT ![b] = Fresh(n)]
          /\ UNCHANGED <<file, counter, saved, raced>> /\ UNCHANGED restore
      BY <1>5 DEF Query, flash
    <2>2. FreshSame
      BY <2>1, FreshKept
    <2>3. \A i \in Ids : Kept(i)'
      BY <2>1, <2>2 DEF SavedInv, Kept, FreshSame
    <2>4. ASSUME NEW c \in Backups, NEW i \in Ids, Holds(c, i)' PROVE Current(c, i)'
      <3>1. IF c = b THEN i = n ELSE Holds(c, i)
        BY <1>5, <2>4, QueryHolds
      <3>2. CASE c = b
        <4>1. held'[c] = counter[n] /\ (stale'[c] <=> Fresh(n)) /\ i = n
          BY <2>1, <3>1, <3>2 DEF TypeOK
        <4>2. counter[n] >= 0 /\ counter[n] \in Int
          BY <1>0, <2>1 DEF SavedInv, Kept, Whole
        <4>3. Fresh(n)' <=> Fresh(n)
          BY <2>2 DEF FreshSame
        <4> QED
          BY <2>1, <4>1, <4>2, <4>3 DEF Current
      <3>3. CASE c # b
        <4>1. held'[c] = held[c] /\ stale'[c] = stale[c] /\ Current(c, i)
          BY <2>1, <3>1, <3>3 DEF TypeOK, SavedInv
        <4>2. Fresh(i)' <=> Fresh(i)
          BY <2>2 DEF FreshSame
        <4> QED
          BY <2>1, <4>1, <4>2 DEF Current
      <3> QED
        BY <3>2, <3>3
    <2> QED
      BY <2>3, <2>4 DEF SavedInv
  <1>6. ASSUME NEW b \in Backups, NEW q \in Sections, Write(b, q) PROVE SavedInv'
    <2> PICK n \in Ids : n = NameOf(bconf[b], q)
      BY SavedIds DEF TypeOK
    <2>1. /\ file' = [file EXCEPT ![n] = held[b]] /\ saved' = [saved EXCEPT ![n] = held[b]]
          /\ raced' = [raced EXCEPT ![n] = stale[b] \/ Fresh(n)]
          /\ stale' = [Outdated(n) EXCEPT ![b] = FALSE]
          /\ held' = [held EXCEPT ![b] = None]
          /\ UNCHANGED counter /\ UNCHANGED restore
      BY <1>6 DEF Write
    <2>2. Holds(b, n)
      BY <1>6 DEF Write, Holds
    <2>3. held[b] \in Int /\ held[b] # None /\ Current(b, n)
      BY <2>2, HeldCount DEF SavedInv
    <2>4. FreshSame
      BY <2>1, FreshKept
    <2>5. ASSUME NEW i \in Ids PROVE Kept(i)'
      <3>0. Kept(i) /\ counter'[i] = counter[i] /\ (Fresh(i)' <=> Fresh(i))
        BY <2>1, <2>4 DEF SavedInv, FreshSame
      <3>1. CASE i = n
        <4>1. file'[i] = held[b] /\ saved'[i] = held[b]
          BY <2>1, <3>1 DEF TypeOK
        <4>2. raced'[i] <=> stale[b] \/ Fresh(i)
          BY <2>1, <3>1 DEF TypeOK
        <4>3. held[b] >= 0 /\ (stale[b] \/ counter[i] >= held[b])
          BY <2>3, <3>1 DEF Current
        <4> QED
          BY <2>3, <3>0, <4>1, <4>2, <4>3 DEF Kept
      <3>2. CASE i # n
        <4>1. file'[i] = file[i] /\ saved'[i] = saved[i] /\ raced'[i] = raced[i]
          BY <2>1, <3>2 DEF TypeOK
        <4> QED
          BY <3>0, <4>1 DEF Kept
      <3> QED
        BY <3>1, <3>2
    <2>6. ASSUME NEW c \in Backups, NEW i \in Ids, Holds(c, i)' PROVE Current(c, i)'
      <3>1. c # b /\ Holds(c, i)
        BY <1>6, <2>6, WriteHolds
      <3>2. held'[c] = held[c] /\ (stale'[c] <=> stale[c] \/ Holds(c, n))
        BY <2>1, <3>1 DEF TypeOK, Outdated
      <3>3. Current(c, i) /\ (Fresh(i)' <=> Fresh(i)) /\ counter'[i] = counter[i]
        BY <2>1, <2>4, <3>1 DEF SavedInv, FreshSame
      <3> QED
        BY <3>2, <3>3 DEF Current
    <2> QED
      BY <2>5, <2>6 DEF SavedInv
  <1>7. ASSUME NEW j \in Ids, Traffic(j) PROVE SavedInv'
    <2>1. /\ counter[j] # None /\ counter' = [counter EXCEPT ![j] = counter[j] + 1]
          /\ UNCHANGED <<file, saved, raced, stale, held>> /\ UNCHANGED restore
          /\ UNCHANGED <<bpc, btodo, bconf>>
      BY <1>7 DEF Traffic, flash, backup
    <2>2. FreshSame /\ HoldsSame
      BY <2>1, FreshKept, HoldsKept
    <2>3. ASSUME NEW i \in Ids
          PROVE  /\ counter'[i] = None <=> counter[i] = None
                 /\ counter[i] # None => counter'[i] >= counter[i]
                 /\ counter[i] \in Int \cup {None} /\ counter'[i] \in Int \cup {None}
      <3>1. counter[j] \in Int /\ counter[i] \in Int \cup {None} /\ counter[j] + 1 # None
        BY <1>0, <2>1, QuotaAssumption DEF Whole
      <3>2. counter'[i] = IF i = j THEN counter[j] + 1 ELSE counter[i]
        BY <2>1 DEF TypeOK
      <3> QED
        BY <2>1, <3>1, <3>2
    <2>4. ASSUME NEW i \in Ids PROVE Kept(i)'
      <3>1. Kept(i) /\ (Fresh(i)' <=> Fresh(i)) /\ saved[i] \in Int
        BY <1>0, <2>2 DEF SavedInv, FreshSame, Whole
      <3> QED
        BY <2>1, <2>3, <3>1 DEF Kept
    <2>5. ASSUME NEW b \in Backups, NEW i \in Ids, Holds(b, i)' PROVE Current(b, i)'
      <3>1. Holds(b, i) /\ (Fresh(i)' <=> Fresh(i))
        BY <2>2, <2>5 DEF HoldsSame, FreshSame
      <3>2. Current(b, i) /\ held[b] \in Int
        BY <3>1, HeldCount DEF SavedInv
      <3> QED
        BY <2>1, <2>3, <3>1, <3>2 DEF Current
    <2> QED
      BY <2>4, <2>5 DEF SavedInv
  <1>8. CASE Still
    BY <1>8 DEF Still, Counts, FreshSame, HoldsSame, SavedInv, Kept, Current
  <1> QED
    BY <1>1, <1>2, <1>3, <1>4, <1>5, <1>6, <1>7, <1>8, StepSplits

\* NotForgotten (a restore loads what was saved last, and a backup whose rules were
\* not touched between its query and its write saves no less than the last one).
THEOREM SavedIsKept == Spec => []NotForgotten
  <1>1. Init => SavedInv
    BY DEF Init, SavedInv, Kept, NoRules, Zero, Holds
  <1>2. SavedInv => NotForgotten
    BY DEF SavedInv, Kept, NotForgotten, Settled, Fresh
  <1> QED
    BY <1>1, <1>2, StepSaved, TypeCorrect, PTL DEF Spec

-----------------------------------------------------------------------------
(***************************************************************************)
(* Ids.                                                                    *)
(***************************************************************************)
\* A configuration gives no id twice, and an absent section has none.
Orderly(conf) ==
    /\ \A q \in Sections : ~conf[q].present => ~conf[q].enabled /\ conf[q].id = NoId
    /\ \A q, p \in Sections :
        q # p /\ conf[q].present /\ conf[p].present /\ conf[q].id # NoId
            => conf[q].id # conf[p].id

\* Neither does the configuration on flash nor the copy of any restore.
IdInv == Orderly(uci) /\ \A r \in Restores : Orderly(rconf[r])

LEMMA UnreadOrderly == Orderly(Unread)
  BY DEF Orderly, Unread, Gone

\* The id a section gets is new.
LEMMA NewIdFree ==
    ASSUME NEW conf, NEW q \in Sections, ~(Candidates(q) \subseteq Taken(conf))
    PROVE  NewId(conf, q) \in Ids \ Taken(conf)
  <1>1. NewId(conf, q) \in Ids
    BY CandidateIds DEF NewId, Candidates
  <1>2. NewId(conf, q) \notin Taken(conf)
    BY DEF NewId, Candidates
  <1> QED
    BY <1>1, <1>2

\* Order stays when a section keeps its id, loses it, or gets a new one.
LEMMA ChangeOrderly ==
    ASSUME NEW conf \in [Sections -> Option], Orderly(conf), NEW q \in Sections, NEW o,
           ~o.present => ~o.enabled /\ o.id = NoId,
           o.id \in {conf[q].id, NoId} \/ o.id \notin Taken(conf)
    PROVE  Orderly([conf EXCEPT ![q] = o])
  <1> DEFINE new == [conf EXCEPT ![q] = o]
  <1>1. new[q] = o /\ \A p \in Sections \ {q} : new[p] = conf[p]
    OBVIOUS
  <1> HIDE DEF new
  <1>2. \A p \in Sections : ~new[p].present => ~new[p].enabled /\ new[p].id = NoId
    BY <1>1 DEF Orderly
  <1>3. ASSUME NEW p \in Sections, p # q, conf[p].present, o.present, o.id # NoId
        PROVE  conf[p].id # o.id
    <2>1. CASE o.id = conf[q].id
      <3>1. conf[q].present
        BY <1>3, <2>1 DEF Orderly
      <3> QED
        BY <1>3, <2>1, <3>1 DEF Orderly
    <2>2. CASE o.id \notin Taken(conf)
      BY <1>3, <2>2 DEF Taken, Configured
    <2> QED
      BY <1>3, <2>1, <2>2
  <1>4. ASSUME NEW p \in Sections, NEW t \in Sections, p # t,
               new[p].present, new[t].present, new[p].id # NoId
        PROVE  new[p].id # new[t].id
    <2>1. CASE p = q
      BY <1>1, <1>3, <1>4, <2>1
    <2>2. CASE t = q /\ new[t].id # NoId
      BY <1>1, <1>3, <1>4, <2>2
    <2>3. CASE p # q /\ t # q
      BY <1>1, <1>4, <2>3 DEF Orderly
    <2> QED
      BY <1>4, <2>1, <2>2, <2>3
  <1>5. Orderly(new)
    BY <1>2, <1>4 DEF Orderly
  <1> QED
    BY <1>5 DEF new

\* Where one restore changes its copy, the others keep theirs.
LEMMA CopiesOrderly ==
    ASSUME IdInv, NEW r \in Restores, Alone(r), Orderly(rconf'[r])
    PROVE  \A s \in Restores : Orderly(rconf'[s])
  BY DEF IdInv, Alone, Orderly

LEMMA StepIds == TypeOK /\ IdInv /\ [Next]_vars => IdInv'
  <1> SUFFICES ASSUME TypeOK, IdInv, [Next]_vars
               PROVE  Orderly(uci') /\ \A s \in Restores : Orderly(rconf'[s])
    BY DEF IdInv, Orderly
  <1> DEFINE Goal == Orderly(uci') /\ \A s \in Restores : Orderly(rconf'[s])
  <1>1. CASE UNCHANGED <<uci, rconf>>
    BY <1>1 DEF IdInv, Orderly
  <1>2. ASSUME NEW r \in Restores, Read(r) \/ Unlock(r) PROVE Goal
    <2>1. uci' = uci /\ rconf'[r] \in {uci, Unread}
      BY <1>2 DEF Read, Unlock, flash, TypeOK
    <2>2. Orderly(uci') /\ Orderly(rconf'[r])
      BY <2>1, UnreadOrderly DEF IdInv
    <2>3. Alone(r)
      BY <1>2, RestoreMoves DEF Restore
    <2> QED
      BY <2>2, <2>3, CopiesOrderly
  <1>3. ASSUME NEW r \in Restores, Commit(r) PROVE Goal
    <2>1. uci' = rconf[r] /\ rconf' = rconf
      BY <1>3 DEF Commit
    <2> QED
      BY <2>1 DEF IdInv
  <1>4. CASE PowerLoss
    <2>1. uci' = uci /\ \A s \in Restores : rconf'[s] = Unread
      BY <1>4 DEF PowerLoss, flash
    <2> QED
      BY <2>1, UnreadOrderly DEF IdInv
  <1>5. ASSUME NEW r \in Restores, NEW q \in Sections, Rule(r, q) PROVE Goal
    <2> PICK i \in Ids, v \in Count : RuleTo(r, q, i, v)
      BY <1>5, RuleCases
    <2> DEFINE o == [rconf[r][q] EXCEPT !.id = i]
    <2>1. /\ uci' = uci /\ rconf[r] \in [Sections -> Option] /\ Orderly(rconf[r])
          /\ rconf'[r] = [rconf[r] EXCEPT ![q] = o]
      BY DEF RuleTo, Redefine, flash, TypeOK, IdInv
    <2>2. rconf[r][q].enabled
      BY DEF RuleTo
    <2>3. o.id = i /\ o.present = rconf[r][q].present
      BY <2>1, OptionKeeps
    <2>4. o.present
      BY <2>1, <2>2, <2>3 DEF Orderly
    <2>5. i = rconf[r][q].id \/ i \notin Taken(rconf[r])
      BY NewIdFree DEF RuleTo
    <2> HIDE DEF o
    <2>6. Orderly(rconf'[r])
      <3> PICK conf \in [Sections -> Option] : conf = rconf[r]
        BY <2>1
      <3>1. Orderly([conf EXCEPT ![q] = o])
        BY <2>1, <2>3, <2>4, <2>5, ChangeOrderly
      <3> QED
        BY <2>1, <3>1
    <2>7. Alone(r)
      BY <1>5, RestoreMoves DEF Restore
    <2> QED
      BY <2>1, <2>6, <2>7, CopiesOrderly DEF IdInv
  <1>6. ASSUME NEW r \in Restores, NEW q \in Sections, Load(r, q) PROVE Goal
    <2> PICK i, g, v : i \in Ids \cup {NoId} /\ g \in BOOLEAN /\ LoadTo(r, q, i, g, v)
      BY <1>6, LoadCases
    <2> DEFINE o == [rconf[r][q] EXCEPT !.ignore = FALSE]
    <2>1. /\ uci' = uci /\ rconf[r] \in [Sections -> Option] /\ Orderly(rconf[r])
          /\ rconf'[r] = [rconf[r] EXCEPT ![q] = o]
      BY DEF LoadTo, Redefine, flash, TypeOK, IdInv
    <2>2. /\ o.id = rconf[r][q].id /\ o.present = rconf[r][q].present
          /\ o.enabled = rconf[r][q].enabled
      BY <2>1, OptionKeeps
    <2>3. ~o.present => ~o.enabled /\ o.id = NoId
      BY <2>1, <2>2 DEF Orderly
    <2> HIDE DEF o
    <2>4. Orderly(rconf'[r])
      <3> PICK conf \in [Sections -> Option] : conf = rconf[r]
        BY <2>1
      <3>1. Orderly([conf EXCEPT ![q] = o])
        BY <2>1, <2>2, <2>3, ChangeOrderly
      <3> QED
        BY <2>1, <3>1
    <2>5. Alone(r)
      BY <1>6, RestoreMoves DEF Restore
    <2> QED
      BY <2>1, <2>4, <2>5, CopiesOrderly DEF IdInv
  <1>7. ASSUME NEW q \in Sections, Edit(q) PROVE Goal
    <2>1. rconf' = rconf
      BY <1>7 DEF Edit, restore
    <2> PICK o \in Edited(q) : uci' = [uci EXCEPT ![q] = o]
      BY <1>7 DEF Edit
    <2>2. uci \in [Sections -> Option] /\ Orderly(uci)
      BY DEF TypeOK, IdInv
    <2>3. uci[q] \in Option /\ (~uci[q].present => ~uci[q].enabled /\ uci[q].id = NoId)
      BY <2>2 DEF Orderly
    <2>4. /\ ~o.present => ~o.enabled /\ o.id = NoId
          /\ o.id \in {uci[q].id, NoId}
      <3>1. CASE o = Gone
        BY <3>1 DEF Gone
      <3>2. CASE o = [uci[q] EXCEPT !.enabled = uci[q].present /\ ~@]
        BY <2>3, <3>2 DEF Option
      <3>3. CASE o = [present |-> TRUE, enabled |-> TRUE, ignore |-> TRUE, id |-> uci[q].id]
        BY <3>3
      <3> QED
        BY <3>1, <3>2, <3>3 DEF Edited
    <2>5. Orderly(uci')
      BY <2>2, <2>4, ChangeOrderly
    <2> QED
      BY <2>1, <2>5 DEF IdInv
  <1>8. ASSUME NEW r \in Restores,
               \/ Ifup(r) \/ Test(r) \/ Touch(r) \/ Flush(r) \/ Cron(r) \/ Uncron(r)
               \/ \E q \in Sections : Skip(r, q) \/ Spin(r, q)
        PROVE  UNCHANGED <<uci, rconf>>
    BY <1>8 DEF Ifup, Test, Touch, Flush, Cron, Uncron, Skip, Spin, flash
  <1>9. ASSUME NEW b \in Backups, CronBackup(b) \/ Ifdown(b) \/ Backup(b)
        PROVE  UNCHANGED <<uci, rconf>>
    BY <1>9 DEF CronBackup, Ifdown, Backup, EndBackup, Query, Write, Pass, flash, restore
  <1>10. ASSUME NEW i \in Ids, Traffic(i) PROVE UNCHANGED <<uci, rconf>>
    BY <1>10 DEF Traffic, flash, restore
  <1>11. UNCHANGED vars => UNCHANGED <<uci, rconf>>
    BY DEF vars, flash, restore
  <1> QED
    BY <1>1, <1>2, <1>3, <1>4, <1>5, <1>6, <1>7, <1>8, <1>9, <1>10, <1>11
       DEF Next, Restore

\* IdsDistinct (an id is given only if no section that was read has it, and
\* whatever order restores write the configuration in, each writes a whole one).
THEOREM NoSharedId == Spec => []IdsDistinct
  <1>1. Init => IdInv
    <2> SUFFICES ASSUME Init PROVE IdInv
      OBVIOUS
    <2>1. Orderly(uci)
      BY DEF Init, Orderly, Gone
    <2> QED
      BY <2>1, UnreadOrderly DEF Init, IdInv
  <1>2. IdInv => IdsDistinct
    BY DEF IdInv, Orderly, IdsDistinct
  <1> QED
    BY <1>1, <1>2, StepIds, TypeCorrect, PTL DEF Spec

-----------------------------------------------------------------------------
(***************************************************************************)
(* The crontab.                                                            *)
(***************************************************************************)
\* No rule counts.
Bare == \A i \in Ids : counter[i] = None

\* r works on what it read.
Working(r) == rpc[r] \in {"rule", "count", "cron", "uncron", "commit", "unlock"}

\* Nobody edits under a restore: all of them have the same sections, and one that is
\* still to read them finds rules only if there are some.
SameSections(r) ==
    /\ Working(r) => Configured(rconf[r]) = Configured(uci)
    /\ rpc[r] \in {"rule", "count", "cron"} => Configured(rconf[r]) # {}
    /\ rpc[r] = "uncron" => Configured(rconf[r]) = {} /\ Bare
    /\ rpc[r] = "read" => Configured(uci) # {} \/ Bare

\* Whoever still makes rules will write the crontab, unless it spins.
Covered ==
    \/ Bare \/ "backup" \in cron
    \/ \E r \in Restores : rpc[r] \in {"rule", "count", "cron", "spin"}

CronInv == Covered /\ \A r \in Restores : SameSections(r)

LEMMA RedefineSections ==
    ASSUME TypeOK, NEW r \in Restores, NEW q \in Sections, NEW o, Redefine(r, q, o),
           o.present = rconf[r][q].present
    PROVE  Configured(rconf'[r]) = Configured(rconf[r])
  <1>1. rconf[r] \in [Sections -> Option] /\ rconf'[r] = [rconf[r] EXCEPT ![q] = o]
    BY DEF Redefine, TypeOK
  <1> QED
    BY <1>1 DEF Configured

\* A restore that goes on with its sections leaves the others' as they are.
LEMMA SectionsStay ==
    ASSUME CronInv, NEW r \in Restores, Alone(r), Working(r), uci' = uci,
           Configured(rconf'[r]) = Configured(rconf[r]), rpc'[r] \notin {"uncron", "read"},
           rpc'[r] \in {"rule", "count", "cron"} => rpc[r] \in {"rule", "count", "cron"},
           Bare => Bare' \/ Configured(rconf[r]) # {},
           \A s \in Restores : rpc[s] = "uncron" /\ s # r => Bare'
    PROVE  \A s \in Restores : SameSections(s)'
  <1> SUFFICES ASSUME NEW s \in Restores PROVE SameSections(s)'
    OBVIOUS
  <1>0. SameSections(r) /\ SameSections(s) /\ Configured(uci)' = Configured(uci)
    BY DEF CronInv, Configured
  <1>1. CASE s = r
    BY <1>0, <1>1 DEF SameSections, Working, Configured
  <1>2. CASE s # r
    <2>1. rpc'[s] = rpc[s] /\ rconf'[s] = rconf[s]
      BY <1>2 DEF Alone
    <2>2. Configured(rconf[s])' = Configured(rconf[s])
      BY <2>1 DEF Configured
    <2>3. rpc[s] = "uncron" => Bare'
      BY <1>2
    <2> QED
      BY <1>0, <2>1, <2>2, <2>3 DEF SameSections, Working
  <1> QED
    BY <1>1, <1>2

\* While one makes rules none takes the line out.
LEMMA NoneUncrons ==
    ASSUME CronInv, NEW r \in Restores, rpc[r] \in {"rule", "count", "cron"},
           NEW s \in Restores
    PROVE  rpc[s] # "uncron"
  BY DEF CronInv, SameSections, Working

LEMMA StepCron == TypeOK /\ CronInv /\ [Next]_vars => CronInv'
  <1> SUFFICES ASSUME TypeOK, CronInv, [Next]_vars PROVE CronInv'
    OBVIOUS
  <1>1. CASE UNCHANGED <<uci, cron, rpc, rconf>> /\ (Bare => Bare')
    BY <1>1 DEF CronInv, Covered, SameSections, Working, Configured
  <1>2. CASE PowerLoss
    <2>1. Bare' /\ \A r \in Restores : rpc'[r] = "idle"
      BY <1>2 DEF PowerLoss, NoRules, Bare
    <2> QED
      BY <2>1 DEF CronInv, Covered, SameSections, Working
  <1>3. ASSUME NEW r \in Restores, Ifup(r) \/ Test(r) \/ Touch(r) PROVE CronInv'
    <2>1. /\ UNCHANGED <<uci, cron, counter, rconf>> /\ Bare' = Bare
          /\ rpc[r] \in {"idle", "test", "touch"} /\ rpc'[r] \in {"test", "touch", "flush", "idle"}
          /\ \A s \in Restores \ {r} : rpc'[s] = rpc[s]
      BY <1>3 DEF Ifup, Test, Touch, Goto, flash, TypeOK, Bare
    <2>2. Covered'
      BY <2>1 DEF CronInv, Covered
    <2>3. \A s \in Restores : SameSections(s)'
      BY <2>1 DEF CronInv, SameSections, Working, Configured
    <2> QED
      BY <2>2, <2>3 DEF CronInv
  <1>4. ASSUME NEW r \in Restores, Flush(r) PROVE CronInv'
    <2>1. /\ Bare' /\ uci' = uci /\ rpc'[r] = "read"
      BY <1>4 DEF Flush, NoRules, Bare, Goto, flash, TypeOK
    <2>2. Alone(r)
      BY <1>4, RestoreMoves DEF Restore
    <2>3. ASSUME NEW s \in Restores PROVE SameSections(s)'
      <3>1. CASE s = r
        BY <2>1, <3>1 DEF SameSections, Working, Configured
      <3>2. CASE s # r
        BY <2>1, <2>2, <3>2 DEF CronInv, Alone, SameSections, Working, Configured
      <3> QED
        BY <3>1, <3>2
    <2> QED
      BY <2>1, <2>3 DEF CronInv, Covered
  <1>14. ASSUME NEW r \in Restores, Read(r) PROVE CronInv'
    <2>1. /\ Bare' = Bare /\ UNCHANGED <<uci, cron>> /\ rconf'[r] = uci /\ rpc[r] = "read"
          /\ rpc'[r] = IF Configured(uci) = {} THEN "uncron" ELSE "rule"
      BY <1>14 DEF Read, Bare, Goto, flash, history, TypeOK
    <2>2. Alone(r)
      BY <1>14, RestoreMoves DEF Restore
    <2>3. ASSUME NEW s \in Restores PROVE SameSections(s)'
      <3>1. CASE s = r
        <4>1. Configured(uci) # {} \/ Bare
          BY <2>1 DEF CronInv, SameSections
        <4> QED
          BY <2>1, <3>1, <4>1 DEF SameSections, Working, Configured
      <3>2. CASE s # r
        BY <2>1, <2>2, <3>2 DEF CronInv, Alone, SameSections, Working, Configured
      <3> QED
        BY <3>1, <3>2
    <2>4. Covered'
      BY <2>1, <2>2 DEF CronInv, Covered, Alone
    <2> QED
      BY <2>3, <2>4 DEF CronInv
  <1>5. ASSUME NEW r \in Restores, NEW q \in Sections,
               Skip(r, q) \/ Spin(r, q) \/ Rule(r, q) \/ Load(r, q)
        PROVE  CronInv'
    <2>1. /\ uci' = uci /\ rpc[r] \in {"rule", "count"}
          /\ rpc'[r] \in {"rule", "count", "cron", "spin"}
      BY <1>5 DEF Skip, Spin, Rule, Load, Onward, Goto, flash, TypeOK
    <2>2. Alone(r)
      BY <1>5, RestoreMoves DEF Restore
    <2>3. Configured(rconf'[r]) = Configured(rconf[r])
      <3>1. CASE rconf' = rconf
        BY <3>1
      <3>0. PICK old \in Option : old = rconf[r][q]
        BY DEF TypeOK
      <3>2. ASSUME NEW i, Redefine(r, q, [old EXCEPT !.id = i])
            PROVE  Configured(rconf'[r]) = Configured(rconf[r])
        <4>1. [old EXCEPT !.id = i].present = rconf[r][q].present
          BY <3>0, OptionKeeps
        <4> QED
          BY <3>2, <4>1, RedefineSections
      <3>3. CASE Redefine(r, q, [old EXCEPT !.ignore = FALSE])
        <4>1. [old EXCEPT !.ignore = FALSE].present = rconf[r][q].present
          BY <3>0, OptionKeeps
        <4> QED
          BY <3>3, <4>1, RedefineSections
      <3> QED
        BY <1>5, <3>0, <3>1, <3>2, <3>3 DEF Skip, Spin, Rule, Load
    <2>4. \A s \in Restores : rpc[s] # "uncron"
      BY <2>1, NoneUncrons
    <2>7. Configured(rconf[r]) # {}
      BY <2>1 DEF CronInv, SameSections
    <2>5. \A s \in Restores : SameSections(s)'
      BY <2>1, <2>2, <2>3, <2>4, <2>7, SectionsStay DEF Working
    <2>6. Covered'
      BY <2>1 DEF Covered
    <2> QED
      BY <2>5, <2>6 DEF CronInv
  <1>6. ASSUME NEW r \in Restores, Cron(r) PROVE CronInv'
    <2>1. /\ uci' = uci /\ rconf' = rconf /\ "backup" \in cron'
          /\ rpc[r] = "cron" /\ rpc'[r] = "commit"
      BY <1>6 DEF Cron, Scheduled, Goto, TypeOK
    <2>2. Alone(r)
      BY <1>6, RestoreMoves DEF Restore
    <2>3. \A s \in Restores : rpc[s] # "uncron"
      BY <2>1, NoneUncrons
    <2>5. Configured(rconf[r]) # {}
      BY <2>1 DEF CronInv, SameSections
    <2>4. \A s \in Restores : SameSections(s)'
      BY <2>1, <2>2, <2>3, <2>5, SectionsStay DEF Working
    <2> QED
      BY <2>1, <2>4 DEF CronInv, Covered
  <1>7. ASSUME NEW r \in Restores, Uncron(r) PROVE CronInv'
    <2>1. /\ uci' = uci /\ rconf' = rconf /\ counter' = counter
          /\ rpc[r] = "uncron" /\ rpc'[r] \in {"commit", "unlock"}
      BY <1>7 DEF Uncron, Goto, TypeOK
    <2>2. Bare /\ Bare'
      BY <2>1 DEF CronInv, SameSections, Bare
    <2>3. Alone(r)
      BY <1>7, RestoreMoves DEF Restore
    <2>4. \A s \in Restores : SameSections(s)'
      BY <2>1, <2>2, <2>3, SectionsStay DEF Working
    <2> QED
      BY <2>2, <2>4 DEF CronInv, Covered
  <1>8. ASSUME NEW r \in Restores, Commit(r) PROVE CronInv'
    <2>1. /\ uci' = rconf[r] /\ rconf' = rconf /\ cron' = cron /\ Bare' = Bare
          /\ rpc[r] = "commit" /\ rpc'[r] = "unlock"
          /\ \A s \in Restores \ {r} : rpc'[s] = rpc[s]
      BY <1>8 DEF Commit, Goto, TypeOK, Bare
    <2>2. Configured(uci)' = Configured(uci)
      BY <2>1 DEF CronInv, SameSections, Working, Configured
    <2>3. ASSUME NEW s \in Restores PROVE SameSections(s)'
      <3>1. Configured(rconf[s])' = Configured(rconf[s]) /\ Working(s)' = Working(s)
        BY <2>1 DEF Configured, Working
      <3>2. rpc'[s] \in {"rule", "count", "cron", "uncron"} => rpc'[s] = rpc[s]
        BY <2>1
      <3>3. SameSections(s)
        BY DEF CronInv
      <3> QED
        BY <2>1, <2>2, <3>1, <3>2, <3>3 DEF SameSections
    <2>4. Covered'
      BY <2>1 DEF CronInv, Covered
    <2> QED
      BY <2>3, <2>4 DEF CronInv
  <1>9. ASSUME NEW r \in Restores, Unlock(r) PROVE CronInv'
    <2>1. /\ uci' = uci /\ cron' = cron /\ Bare' = Bare
          /\ rpc[r] = "unlock" /\ rpc'[r] = "idle"
      BY <1>9 DEF Unlock, Goto, flash, TypeOK, Bare
    <2>2. Alone(r)
      BY <1>9, RestoreMoves DEF Restore
    <2>3. ASSUME NEW s \in Restores PROVE SameSections(s)'
      <3>1. CASE s = r
        BY <2>1, <3>1 DEF SameSections, Working
      <3>2. CASE s # r
        BY <2>1, <2>2, <3>2 DEF CronInv, Alone, SameSections, Working, Configured
      <3> QED
        BY <3>1, <3>2
    <2>4. Covered'
      BY <2>1, <2>2 DEF CronInv, Covered, Alone
    <2> QED
      BY <2>3, <2>4 DEF CronInv
  <1>10. ASSUME NEW q \in Sections, Edit(q) PROVE CronInv'
    <2>1. /\ UNCHANGED <<cron, rpc>> /\ Bare' = Bare
          /\ \A r \in Restores : rpc[r] \in {"idle", "spin"}
      BY <1>10 DEF Edit, restore, Bare
    <2> QED
      BY <2>1 DEF CronInv, Covered, SameSections, Working
  <1>11. ASSUME NEW i \in Ids, Traffic(i)
         PROVE  UNCHANGED <<uci, cron, rpc, rconf>> /\ (Bare => Bare')
    BY <1>11 DEF Traffic, flash, restore, Bare
  <1>12. ASSUME NEW b \in Backups, CronBackup(b) \/ Ifdown(b) \/ Backup(b)
         PROVE  UNCHANGED <<uci, cron, rpc, rconf>> /\ (Bare => Bare')
    BY <1>12 DEF CronBackup, Ifdown, Backup, EndBackup, Query, Write, Pass, flash, restore, Bare
  <1>13. UNCHANGED vars => UNCHANGED <<uci, cron, rpc, rconf>> /\ (Bare => Bare')
    BY DEF vars, flash, restore, Bare
  <1> QED
    BY <1>1, <1>2, <1>3, <1>4, <1>5, <1>6, <1>7, <1>8, <1>9, <1>10, <1>11, <1>12, <1>13, <1>14
       DEF Next, Restore

\* BackupScheduled (a restore that made rules writes the crontab before it ends; no
\* restore takes the line out while rules exist, as all of them have read the same
\* sections, also where they overlap).
THEOREM BackupsFollow == Spec => []BackupScheduled
  <1>1. Init => CronInv
    BY DEF Init, CronInv, Covered, SameSections, Working, Bare, NoRules
  <1>2. CronInv => BackupScheduled
    BY DEF CronInv, Covered, Bare, BackupScheduled, Settled
  <1> QED
    BY <1>1, <1>2, StepCron, TypeCorrect, PTL DEF Spec

-----------------------------------------------------------------------------
(***************************************************************************)
(* The lock file, where no test of it comes between the test and the touch *)
(* of another restore.                                                     *)
(***************************************************************************)
Inside(r) ==
    rpc[r] \in {"flush", "read", "rule", "count", "cron", "uncron", "commit", "unlock", "spin"}
Ahead(r) == rpc[r] = "touch" \/ Inside(r)

\* One restore is past the lock, and the file exists while it is inside.
LockInv ==
    /\ \A r \in Restores : Inside(r) => lock
    /\ \A r, s \in Restores : Ahead(r) /\ Ahead(s) => r = s

LEMMA StepLock ==
    ASSUME Overlap = FALSE PROVE TypeOK /\ LockInv /\ [Next]_vars => LockInv'
  <1> SUFFICES ASSUME TypeOK, LockInv, [Next]_vars PROVE LockInv'
    OBVIOUS
  <1> USE DEF LockInv, Ahead, Inside
  <1>1. CASE UNCHANGED <<rpc, lock>>
    BY <1>1
  <1>2. ASSUME NEW r \in Restores, Ifup(r) PROVE LockInv'
    BY <1>2 DEF Ifup, Goto, TypeOK
  <1>3. ASSUME NEW r \in Restores, Test(r) PROVE LockInv'
    BY <1>3 DEF Test, Goto, TypeOK
  <1>4. ASSUME NEW r \in Restores, Touch(r) PROVE LockInv'
    BY <1>4 DEF Touch, Goto, TypeOK
  <1>5. ASSUME NEW r \in Restores, Unlock(r) PROVE LockInv'
    BY <1>5 DEF Unlock, Goto, TypeOK
  <1>6. ASSUME NEW r \in Restores,
               \/ Flush(r) \/ Read(r) \/ Cron(r) \/ Uncron(r) \/ Commit(r)
               \/ \E q \in Sections : Skip(r, q) \/ Spin(r, q) \/ Rule(r, q) \/ Load(r, q)
        PROVE  LockInv'
    <2>1. lock' = lock /\ Inside(r) /\ Inside(r)'
      BY <1>6 DEF Flush, Read, Cron, Uncron, Commit, Skip, Spin, Rule, Load, Onward, Goto, TypeOK
    <2>2. Alone(r)
      BY <1>6, RestoreMoves DEF Restore
    <2> QED
      BY <2>1, <2>2 DEF Alone
  <1>7. CASE PowerLoss
    BY <1>7 DEF PowerLoss
  <1>8. ASSUME NEW b \in Backups, CronBackup(b) \/ Ifdown(b) \/ Backup(b)
        PROVE  UNCHANGED <<rpc, lock>>
    BY <1>8 DEF CronBackup, Ifdown, Backup, EndBackup, Query, Write, Pass, restore
  <1>9. ASSUME NEW q \in Sections, Edit(q) PROVE UNCHANGED <<rpc, lock>>
    BY <1>9 DEF Edit, restore
  <1>10. ASSUME NEW i \in Ids, Traffic(i) PROVE UNCHANGED <<rpc, lock>>
    BY <1>10 DEF Traffic, restore
  <1>11. UNCHANGED vars => UNCHANGED <<rpc, lock>>
    BY DEF vars, restore
  <1> HIDE DEF LockInv
  <1> QED
    BY <1>1, <1>2, <1>3, <1>4, <1>5, <1>6, <1>7, <1>8, <1>9, <1>10, <1>11
       DEF Next, Restore

-----------------------------------------------------------------------------
(***************************************************************************)
(* The ledger.                                                             *)
(***************************************************************************)
\* Before rules are made there are none; then those that are there belong to the sections that were
\* done and to the one whose count is still to be loaded, which has an id.
Done(r) ==
    /\ rpc[r] = "read" => Bare
    /\ rpc[r] \in {"rule", "count"} =>
          \A i \in Ids : counter[i] # None =>
              \/ Fresh(i)
              \/ \E q \in Sections \ rtodo[r] : rconf[r][q].present /\ rconf[r][q].id = i
    /\ rpc[r] = "count" =>
          \A q \in Sections : Step(r, q) => rconf[r][q].present /\ rconf[r][q].id # NoId

DoneInv == \A r \in Restores : Done(r)

\* What Rule and Load do to the configuration they work on.
LEMMA RuleGivesId ==
    ASSUME TypeOK, IdInv, NEW r \in Restores, NEW q \in Sections, NEW n \in Ids, NEW v,
           RuleTo(r, q, n, v)
    PROVE  /\ rconf[r][q].present /\ rconf'[r][q].present
           /\ rconf'[r][q].id = n
           /\ rconf[r][q].id = n \/ n \notin Taken(rconf[r])
           /\ \A p \in Sections \ {q} : rconf'[r][p] = rconf[r][p]
  <1> PICK old \in Option : old = rconf[r][q]
    BY DEF TypeOK
  <1>1. old.present
    BY DEF RuleTo, IdInv, Orderly
  <1>2. rconf'[r] = [rconf[r] EXCEPT ![q] = [old EXCEPT !.id = n]]
    BY DEF RuleTo, Redefine, TypeOK
  <1>3. rconf'[r][q] = [old EXCEPT !.id = n]
    BY <1>2 DEF TypeOK
  <1>4. rconf'[r][q].id = n /\ rconf'[r][q].present = old.present
    BY <1>3, OptionKeeps
  <1>5. rconf[r][q].id = n \/ n \notin Taken(rconf[r])
    BY NewIdFree DEF RuleTo
  <1>6. \A p \in Sections \ {q} : rconf'[r][p] = rconf[r][p]
    BY <1>2 DEF TypeOK
  <1> QED
    BY <1>1, <1>4, <1>5, <1>6

LEMMA LoadKeepsIds ==
    ASSUME TypeOK, NEW r \in Restores, NEW q \in Sections, Load(r, q), NEW p \in Sections
    PROVE  rconf'[r][p].id = rconf[r][p].id /\ rconf'[r][p].present = rconf[r][p].present
  <1> PICK old \in Option : old = rconf[r][q]
    BY DEF TypeOK
  <1>1. rconf'[r] = [rconf[r] EXCEPT ![q] = [old EXCEPT !.ignore = FALSE]]
    BY DEF Load, Redefine, TypeOK
  <1>2. CASE p = q
    <2>1. rconf'[r][p] = [old EXCEPT !.ignore = FALSE]
      BY <1>1, <1>2 DEF TypeOK
    <2> QED
      BY <1>2, <2>1, OptionKeeps
  <1>3. CASE p # q
    BY <1>1, <1>3 DEF TypeOK
  <1> QED
    BY <1>2, <1>3

\* A rule is made where none counts.
LEMMA RuleIsNew ==
    ASSUME TypeOK, IdInv, LockInv, DoneInv, NEW r \in Restores, NEW q \in Sections,
           NEW n \in Ids, NEW v, RuleTo(r, q, n, v)
    PROVE  counter[n] = None
  <1>1. rpc[r] = "rule" /\ q \in rtodo[r]
    BY DEF RuleTo, Step
  <1>2. ~Fresh(n)
    BY <1>1 DEF Fresh, LockInv, Ahead, Inside
  <1> SUFFICES ASSUME counter[n] # None PROVE FALSE
    OBVIOUS
  <1>3. PICK p \in Sections \ rtodo[r] : rconf[r][p].present /\ rconf[r][p].id = n
    BY <1>1, <1>2 DEF DoneInv, Done
  <1>4. n \in Taken(rconf[r])
    BY <1>3 DEF Taken, Configured
  <1>5. rconf[r][q].id = n /\ rconf[r][q].present
    BY <1>4, RuleGivesId
  <1>6. p # q /\ n # NoId
    BY <1>1, <1>3, QuotaAssumption
  <1> QED
    BY <1>3, <1>5, <1>6 DEF IdInv, Orderly

LEMMA DoneStays ==
    ASSUME DoneInv, NEW s \in Restores, FreshSame,
           rpc'[s] = rpc[s], rtodo'[s] = rtodo[s], rconf'[s] = rconf[s],
           \A i \in Ids : counter'[i] # None => counter[i] # None
    PROVE  Done(s)'
  BY DEF DoneInv, Done, FreshSame, Step, Bare

LEMMA RuleDone ==
    ASSUME TypeOK, IdInv, LockInv, DoneInv, NEW r \in Restores, NEW q \in Sections, Rule(r, q)
    PROVE  Done(r)'
  <1> PICK n \in Ids, v \in Count : RuleTo(r, q, n, v)
    BY RuleCases
  <1>1. /\ counter' = [counter EXCEPT ![n] = v] /\ rtodo' = rtodo
        /\ rpc[r] = "rule" /\ rpc'[r] = "count" /\ Step(r, q)
    BY DEF RuleTo, TypeOK
  <1>2. \A p \in Sections : Step(r, p)' <=> p = q
    BY <1>1, OneStep DEF Step
  <1>3. rconf'[r][q].id = n /\ rconf'[r][q].present
    BY RuleGivesId
  <1>4. Fresh(n)'
    BY <1>1, <1>2, <1>3 DEF Fresh
  <1>5. \A s \in Restores : rpc[s] # "count"
    BY <1>1 DEF LockInv, Ahead, Inside
  <1>6. ASSUME NEW i \in Ids, i # n, counter'[i] # None
        PROVE  \E p \in Sections \ rtodo'[r] : rconf'[r][p].present /\ rconf'[r][p].id = i
    <2>1. counter[i] # None
      BY <1>1, <1>6 DEF TypeOK
    <2>2. PICK p \in Sections \ rtodo[r] : rconf[r][p].present /\ rconf[r][p].id = i
      BY <1>1, <1>5, <2>1 DEF DoneInv, Done, Fresh
    <2>3. rconf'[r][p] = rconf[r][p]
      <3>1. p # q
        BY <1>1 DEF Step
      <3> QED
        BY <3>1, RuleGivesId
    <2> QED
      BY <1>1, <2>2, <2>3
  <1>7. n # NoId
    BY QuotaAssumption
  <1> QED
    BY <1>1, <1>2, <1>3, <1>4, <1>6, <1>7 DEF Done

LEMMA LoadDone ==
    ASSUME TypeOK, IdInv, LockInv, DoneInv, NEW r \in Restores, NEW q \in Sections, Load(r, q)
    PROVE  Done(r)'
  <1> PICK n, g, v : n \in Ids \cup {NoId} /\ g \in BOOLEAN /\ LoadTo(r, q, n, g, v)
    BY LoadCases
  <1>1. /\ counter' = [counter EXCEPT ![n] = v] /\ rtodo'[r] = rtodo[r] \ {q}
        /\ rpc[r] = "count" /\ rpc'[r] \in {"rule", "cron"} /\ Step(r, q)
        /\ n = rconf[r][q].id
    BY DEF LoadTo, TypeOK
  <1>2. ASSUME NEW i \in Ids, Fresh(i) PROVE i = n
    <2>1. PICK s \in Restores :
             rpc[s] = "count" /\ \E p \in Sections : Step(s, p) /\ rconf[s][p].id = i
      BY <1>2 DEF Fresh
    <2>2. s = r
      BY <1>1, <2>1 DEF LockInv, Ahead, Inside
    <2> QED
      BY <1>1, <2>1, <2>2, OneStep
  <1>3. rconf'[r][q].present /\ rconf'[r][q].id = n /\ q \notin rtodo'[r]
    BY <1>1, LoadKeepsIds DEF DoneInv, Done
  <1>4. ASSUME NEW i \in Ids, i # n, counter'[i] # None
        PROVE  \E p \in Sections \ rtodo'[r] : rconf'[r][p].present /\ rconf'[r][p].id = i
    <2>1. counter[i] # None
      BY <1>1, <1>4 DEF TypeOK
    <2>2. PICK p \in Sections \ rtodo[r] : rconf[r][p].present /\ rconf[r][p].id = i
      BY <1>1, <1>2, <1>4, <2>1 DEF DoneInv, Done
    <2>3. rconf'[r][p].present /\ rconf'[r][p].id = i
      BY <2>2, LoadKeepsIds
    <2> QED
      BY <1>1, <2>3
  <1> QED
    BY <1>1, <1>3, <1>4 DEF Done

LEMMA StepDone ==
    ASSUME Overlap = FALSE
    PROVE  TypeOK /\ IdInv /\ LockInv /\ DoneInv /\ [Next]_vars => DoneInv'
  <1> SUFFICES ASSUME TypeOK, IdInv, LockInv, DoneInv, [Next]_vars, NEW s \in Restores
               PROVE  Done(s)'
    BY DEF DoneInv
  <1>1. CASE PowerLoss
    BY <1>1 DEF PowerLoss, Done
  <1>2. CASE /\ UNCHANGED restore
             /\ \A i \in Ids : counter'[i] # None => counter[i] # None
    BY <1>2, FreshKept, DoneStays DEF restore
  <1>3. ASSUME NEW r \in Restores, Restore(r), r # s PROVE Done(s)'
    <2>1. Alone(r)
      BY <1>3, RestoreMoves
    <2>2. CASE rpc[s] \notin {"read", "rule", "count"}
      BY <1>3, <2>1, <2>2 DEF Alone, Done
    <2>3. CASE Test(r)
      <3>1. UNCHANGED counter /\ rpc[r] # "count" /\ rpc'[r] # "count"
        BY <2>3 DEF Test, Goto, TypeOK
      <3>2. FreshSame
        BY <2>1, <3>1, FreshStays
      <3> QED
        BY <1>3, <2>1, <3>1, <3>2, DoneStays DEF Alone
    <2>4. CASE ~Test(r) /\ rpc[s] \in {"read", "rule", "count"}
      <3>1. Ahead(r)
        BY <1>3, <2>4 DEF Restore, Touch, Flush, Read, Cron, Uncron, Commit, Unlock, Skip, Spin,
                          Rule, Load, Ahead, Inside
      <3> QED
        BY <1>3, <2>4, <3>1 DEF LockInv, Ahead, Inside
    <2> QED
      BY <2>2, <2>3, <2>4
  <1>4. ASSUME Restore(s) PROVE Done(s)'
    <2>1. CASE Flush(s)
      BY <2>1 DEF Flush, NoRules, Bare, Goto, Done, TypeOK
    <2>5. CASE Read(s)
      BY <2>5 DEF Read, Bare, Goto, Done, DoneInv, history, TypeOK
    <2>2. ASSUME NEW q \in Sections, Skip(s, q) PROVE Done(s)'
      <3>1. /\ rpc[s] = "rule" /\ rpc'[s] \in {"rule", "cron"} /\ UNCHANGED <<counter, rconf>>
            /\ rtodo'[s] \subseteq rtodo[s]
        BY <2>2 DEF Skip, Onward, Left, Goto, Shift, TypeOK
      <3>2. \A i \in Ids : ~Fresh(i)
        BY <3>1 DEF Fresh, LockInv, Ahead, Inside
      <3> QED
        BY <3>1, <3>2 DEF DoneInv, Done
    <2>3. ASSUME NEW q \in Sections, Spin(s, q) PROVE Done(s)'
      BY <2>3 DEF Spin, Goto, Done, TypeOK
    <2>4. CASE Test(s) \/ Touch(s) \/ Cron(s) \/ Uncron(s) \/ Commit(s) \/ Unlock(s)
      BY <2>4 DEF Test, Touch, Cron, Uncron, Commit, Unlock, Goto, Done, TypeOK
    <2> QED
      BY <1>4, <2>1, <2>2, <2>3, <2>4, <2>5, RuleDone, LoadDone DEF Restore
  <1>5. ASSUME NEW r \in Restores, Ifup(r) PROVE Done(s)'
    <2>1. CASE r = s
      BY <1>5, <2>1 DEF Ifup, Goto, Done, TypeOK
    <2>2. CASE r # s
      <3>1. /\ Alone(r) /\ UNCHANGED counter /\ rpc[r] # "count" /\ rpc'[r] # "count"
        BY <1>5 DEF Ifup, Goto, TypeOK, Alone
      <3>2. FreshSame
        BY <3>1, FreshStays
      <3> QED
        BY <2>2, <3>1, <3>2, DoneStays DEF Alone
    <2> QED
      BY <2>1, <2>2
  <1>6. ASSUME NEW i \in Ids, Traffic(i)
        PROVE  UNCHANGED restore /\ \A j \in Ids : counter'[j] # None => counter[j] # None
    BY <1>6 DEF Traffic, TypeOK
  <1>7. ASSUME NEW b \in Backups, CronBackup(b) \/ Ifdown(b) \/ Backup(b)
        PROVE  UNCHANGED restore /\ UNCHANGED counter
    BY <1>7 DEF CronBackup, Ifdown, Backup, EndBackup, Query, Write, Pass
  <1>8. ASSUME NEW q \in Sections, Edit(q) PROVE UNCHANGED restore /\ UNCHANGED counter
    BY <1>8 DEF Edit
  <1>9. UNCHANGED vars => UNCHANGED restore /\ UNCHANGED counter
    BY DEF vars
  <1> QED
    BY <1>1, <1>2, <1>3, <1>4, <1>5, <1>6, <1>7, <1>8, <1>9 DEF Next

LEMMA LedgerInit == Init => Ledger!Init
  BY DEF Init, Ledger!Init, Ledger!Closed, NoRules, Zero, Fresh, Readings, Holds

LEMMA ReadingsKept == ASSUME HoldsSame, UNCHANGED held PROVE Readings' = Readings
  BY DEF HoldsSame, Readings

Opening == {i \in Ids : Fresh(i)}

LEMMA OpeningKept == ASSUME FreshSame PROVE Opening' = Opening
  BY DEF FreshSame, Opening

LEMMA LedgerRestores ==
    ASSUME TypeOK, IdInv, LockInv, DoneInv, NEW r \in Restores, NEW q \in Sections,
           Rule(r, q) \/ Load(r, q)
    PROVE  Ledger!Next
  <1>0. Elsewhere /\ Alone(r)
    BY RestoreMoves DEF Restore
  <1>1. Readings' = Readings /\ UNCHANGED <<file, use>>
    BY <1>0, HoldsKept, ReadingsKept DEF Elsewhere
  <1>2. CASE Rule(r, q)
    <2> PICK n \in Ids, v \in Count : RuleTo(r, q, n, v)
      BY <1>2, RuleCases
    <2>1. counter[n] = None
      BY RuleIsNew
    <2>2. /\ counter' = [counter EXCEPT ![n] = 0] /\ rtodo' = rtodo
          /\ rpc[r] = "rule" /\ rpc'[r] = "count" /\ Step(r, q)
      BY <2>1 DEF RuleTo, TypeOK
    <2>3. \A p \in Sections : Step(r, p)' <=> p = q
      BY <2>2, OneStep DEF Step
    <2>4. rconf'[r][q].id = n
      BY RuleGivesId
    <2>5. \A s \in Restores : rpc[s] # "count" /\ (s # r => rpc'[s] # "count")
      BY <1>0, <2>2 DEF LockInv, Ahead, Inside, Alone
    <2>6. Opening = {} /\ Opening' = {n}
      BY <2>2, <2>3, <2>4, <2>5 DEF Opening, Fresh
    <2>7. Ledger!Open(n)
      BY <1>1, <2>1, <2>2, <2>6 DEF Ledger!Open, Opening
    <2> QED
      BY <2>7 DEF Ledger!Next
  <1>3. CASE Load(r, q)
    <2> PICK n, g, v : n \in Ids \cup {NoId} /\ g \in BOOLEAN /\ LoadTo(r, q, n, g, v)
      BY <1>3, LoadCases
    <2>1. /\ counter' = [counter EXCEPT ![n] = v] /\ n = rconf[r][q].id
          /\ rpc[r] = "count" /\ rpc'[r] # "count" /\ Step(r, q)
      BY DEF LoadTo, TypeOK
    <2>2. n \in Ids
      BY <2>1 DEF DoneInv, Done
    <2>3. \A s \in Restores \ {r} : rpc[s] # "count" /\ rpc'[s] # "count"
      BY <1>0, <2>1 DEF LockInv, Ahead, Inside, Alone
    <2>4. Opening = {n} /\ Opening' = {}
      BY <2>1, <2>2, <2>3, OneStep DEF Opening, Fresh
    <2>5. counter' = counter \/ (file[n] # None /\ counter' = [counter EXCEPT ![n] = file[n]])
      <3>1. v = counter[n] \/ (v = file[n] /\ file[n] # None)
        BY DEF LoadTo
      <3>2. counter = [counter EXCEPT ![n] = counter[n]]
        BY DEF TypeOK
      <3> QED
        BY <2>1, <3>1, <3>2
    <2>6. Ledger!Settle(n)
      BY <1>1, <2>4, <2>5 DEF Ledger!Settle, Opening
    <2> QED
      BY <2>2, <2>6 DEF Ledger!Next
  <1> QED
    BY <1>2, <1>3

LEMMA LedgerBackups ==
    ASSUME TypeOK, NEW b \in Backups, NEW q \in Sections, Query(b, q) \/ Write(b, q)
    PROVE  Ledger!Next
  <1> PICK n \in Ids : n = NameOf(bconf[b], q)
    BY SavedIds DEF TypeOK
  <1>0. UNCHANGED restore
    BY DEF Query, Write
  <1>1. Opening' = Opening
    BY <1>0, FreshKept, OpeningKept
  <1>2. CASE Query(b, q)
    <2>1. /\ bpc[b] = "run" /\ counter[n] # None
          /\ held' = [held EXCEPT ![b] = counter[n]] /\ UNCHANGED <<file, counter, use>>
      BY <1>2 DEF Query, flash
    <2>2. \A c \in Backups, i \in Ids : Holds(c, i)' <=> IF c = b THEN i = n ELSE Holds(c, i)
      BY <1>2, QueryHolds
    <2>3. \A i \in Ids : ~Holds(b, i)
      BY <2>1 DEF Holds
    <2>4. held'[b] = counter[n] /\ counter[n] \in Count /\ \A c \in Backups \ {b} : held'[c] = held[c]
      BY <2>1 DEF TypeOK
    <2>5. Readings' = Readings \cup {<<n, counter[n]>>}
      <3>1. ASSUME NEW e \in Ids \X Count PROVE e \in Readings' <=> e \in Readings \/ e = <<n, counter[n]>>
        BY <2>2, <2>3, <2>4 DEF Readings
      <3>2. <<n, counter[n]>> \in Ids \X Count
        BY <2>4
      <3> QED
        BY <3>1, <3>2 DEF Readings
    <2>6. Ledger!Read(n)
      BY <1>1, <2>1, <2>5 DEF Ledger!Read, Opening
    <2> QED
      BY <2>6 DEF Ledger!Next
  <1>3. CASE Write(b, q)
    <2> PICK m : m = held[b]
      OBVIOUS
    <2>1. /\ bpc[b] = "write" /\ Upcoming(b, q) /\ file' = [file EXCEPT ![n] = m]
          /\ held' = [held EXCEPT ![b] = None] /\ UNCHANGED <<counter, use>>
      BY <1>3 DEF Write
    <2>2. \A c \in Backups, i \in Ids : Holds(c, i)' <=> c # b /\ Holds(c, i)
      BY <1>3, WriteHolds
    <2>3. \A i \in Ids : Holds(b, i) <=> i = n
      BY <2>1, OneUpcoming DEF Holds
    <2>4. m \in Count /\ \A c \in Backups \ {b} : held'[c] = held[c]
      BY <2>1 DEF TypeOK
    <2>5. <<n, m>> \in Readings
      BY <2>3, <2>4 DEF Readings
    <2>6. ASSUME NEW e \in Ids \X Count
          PROVE  /\ e \in Readings' => e \in Readings
                 /\ e \in Readings => e = <<n, m>> \/ e \in Readings'
      <3>1. e = <<e[1], e[2]>> /\ e[1] \in Ids
        OBVIOUS
      <3> QED
        BY <2>2, <2>3, <2>4, <3>1 DEF Readings
    <2>7. Readings' \in {Readings, Readings \ {<<n, m>>}}
      BY <2>6 DEF Readings
    <2>8. Ledger!Keep(n, m)
      BY <1>1, <2>1, <2>5, <2>7 DEF Ledger!Keep, Opening
    <2>9. \E e \in Readings : Ledger!Keep(e[1], e[2])
      <3>1. <<n, m>>[1] = n /\ <<n, m>>[2] = m
        OBVIOUS
      <3> QED
        BY <2>5, <2>8, <3>1
    <2> QED
      BY <2>9 DEF Ledger!Next
  <1> QED
    BY <1>2, <1>3

LEMMA LedgerStep ==
    TypeOK /\ IdInv /\ LockInv /\ DoneInv /\ [Next]_vars => [Ledger!Next]_(Ledger!vars)
  <1> SUFFICES ASSUME TypeOK, IdInv, LockInv, DoneInv, [Next]_vars
               PROVE  [Ledger!Next]_(Ledger!vars)
    OBVIOUS
  <1>1. ASSUME NEW r \in Restores, Flush(r) PROVE Ledger!Next
    <2>1. Elsewhere /\ Alone(r)
      BY <1>1, RestoreMoves DEF Restore
    <2>2. counter' = NoRules /\ UNCHANGED <<file, use>> /\ Readings' = Readings
      BY <1>1, <2>1, HoldsKept, ReadingsKept DEF Flush, Elsewhere
    <2>3. \A s \in Restores : rpc'[s] # "count"
      BY <1>1, <2>1 DEF Flush, Goto, TypeOK, LockInv, Ahead, Inside, Alone
    <2>4. Opening' = {}
      BY <2>3 DEF Opening, Fresh
    <2> QED
      BY <2>2, <2>4 DEF Ledger!Next, Ledger!Lose, Ledger!Closed, NoRules, Opening
  <1>2. CASE PowerLoss
    <2>1. counter' = NoRules /\ UNCHANGED <<file, use>>
      BY <1>2 DEF PowerLoss, flash
    <2>2. Opening' = {} /\ Readings' = {}
      BY <1>2 DEF PowerLoss, Opening, Fresh, Readings, Holds
    <2> QED
      BY <2>1, <2>2 DEF Ledger!Next, Ledger!Lose, Ledger!Closed, NoRules, Opening
  <1>3. ASSUME NEW i \in Ids, Traffic(i) PROVE Ledger!Next
    <2>1. UNCHANGED restore /\ UNCHANGED <<bpc, btodo, bconf, held, file>>
      BY <1>3 DEF Traffic, flash, backup
    <2>2. Opening' = Opening /\ Readings' = Readings
      BY <2>1, FreshKept, OpeningKept, HoldsKept, ReadingsKept
    <2> QED
      BY <1>3, <2>1, <2>2 DEF Traffic, Ledger!Next, Ledger!Charge, Opening
  <1>4. CASE Still
    <2>1. UNCHANGED <<counter, file, use>> /\ Opening' = Opening /\ Readings' = Readings
      BY <1>4, OpeningKept, ReadingsKept DEF Still, Counts
    <2> QED
      BY <2>1 DEF Ledger!vars, Opening
  <1> QED
    BY <1>1, <1>2, <1>3, <1>4, LedgerRestores, LedgerBackups, StepSplits

\* ImplementsLedger, if no restore tests the lock file between the test and the
\* touch of another one (rules are made for distinct ids on bare chains, the count of
\* one is loaded before the next is made, and a backup writes what it has read,
\* whenever it does and whatever other backups do).
THEOREM Implements == ASSUME Overlap = FALSE PROVE Spec => ImplementsLedger
  <1>1. Init => DoneInv /\ LockInv
    BY DEF Init, DoneInv, Done, LockInv, Ahead, Inside
  <1>2. Init => IdInv
    <2> SUFFICES ASSUME Init PROVE IdInv
      OBVIOUS
    <2>1. Orderly(uci)
      BY DEF Init, Orderly, Gone
    <2> QED
      BY <2>1, UnreadOrderly DEF Init, IdInv
  <1>3. TypeOK /\ LockInv /\ [Next]_vars => LockInv'
    BY StepLock
  <1>4. TypeOK /\ IdInv /\ LockInv /\ DoneInv /\ [Next]_vars => DoneInv'
    BY StepDone
  <1>5. TypeOK /\ IdInv /\ LockInv /\ DoneInv /\ [Next]_vars => [Ledger!Next]_(Ledger!vars)
    BY LedgerStep
  <1> QED
    BY <1>1, <1>2, <1>3, <1>4, <1>5, StepIds, TypeCorrect, LedgerInit, PTL
       DEF Spec, ImplementsLedger, Ledger!Spec

-----------------------------------------------------------------------------
(***************************************************************************)
(* Progress.                                                               *)
(***************************************************************************)
Stage == [test |-> 0, touch |-> 1, flush |-> 2, read |-> 3, rule |-> 4, count |-> 4,
          cron |-> 5, uncron |-> 5, commit |-> 6, unlock |-> 7, idle |-> 8, spin |-> 8]

\* Nearer to the end: at a later stage, or with fewer sections to do, or at the
\* second of the two steps that a section takes.
Nearer(r) ==
    \/ Stage[rpc'[r]] > Stage[rpc[r]]
    \/ /\ rpc'[r] \in {"rule", "count"} /\ rpc[r] \in {"rule", "count"}
       /\ \/ rtodo'[r] \subseteq rtodo[r] /\ rtodo'[r] # rtodo[r]
          \/ rtodo'[r] = rtodo[r] /\ rpc[r] = "rule" /\ rpc'[r] = "count"

Waits(r) == rpc'[r] = rpc[r] /\ rtodo'[r] = rtodo[r] /\ rconf'[r] = rconf[r]

Advances ==
    \A r \in Restores :
        /\ Restore(r) => Nearer(r)
        /\ rpc[r] \notin {"idle", "spin"} => Restore(r) \/ PowerLoss \/ Waits(r)

\* While a restore is running, each of its steps brings it nearer to its end, and
\* no step of anybody else, other restores included, sets it back, but for the loss
\* of power: over finitely many sections it ends, or is in the loop that looks for a
\* third name.
THEOREM RestoreAdvances == Spec => [][Advances]_vars
  <1>1. ASSUME TypeOK, NEW r \in Restores, Restore(r) PROVE Nearer(r)
    <2> USE DEF Nearer, Stage
    <2>1. CASE \/ Test(r) \/ Touch(r) \/ Flush(r) \/ Read(r)
               \/ Cron(r) \/ Uncron(r) \/ Commit(r) \/ Unlock(r)
      BY <1>1, <2>1 DEF Test, Touch, Flush, Read, Cron, Uncron, Commit, Unlock, Goto, TypeOK
    <2>2. ASSUME NEW q \in Sections, Skip(r, q) \/ Load(r, q) PROVE Nearer(r)
      <3>1. /\ q \in rtodo[r] /\ rtodo'[r] = rtodo[r] \ {q}
            /\ rpc[r] \in {"rule", "count"} /\ rpc'[r] \in {"rule", "cron"}
        BY <1>1, <2>2 DEF Skip, Load, Onward, Left, Goto, Shift, Step, TypeOK
      <3> QED
        BY <3>1
    <2>3. ASSUME NEW q \in Sections, Rule(r, q) PROVE Nearer(r)
      <3>1. rtodo' = rtodo /\ rpc[r] = "rule" /\ rpc'[r] = "count"
        BY <1>1, <2>3 DEF Rule, Goto, TypeOK
      <3> QED
        BY <3>1
    <2>4. ASSUME NEW q \in Sections, Spin(r, q) PROVE Nearer(r)
      BY <1>1, <2>4 DEF Spin, Goto, TypeOK
    <2> QED
      BY <1>1, <2>1, <2>2, <2>3, <2>4 DEF Restore
  <1>2. ASSUME TypeOK, [Next]_vars, NEW r \in Restores, rpc[r] \notin {"idle", "spin"}
        PROVE  Restore(r) \/ PowerLoss \/ Waits(r)
    <2>1. ASSUME NEW s \in Restores, Ifup(s) PROVE Waits(r)
      BY <1>2, <2>1 DEF Ifup, Goto, TypeOK, Waits
    <2>2. ASSUME NEW s \in Restores, Restore(s), s # r PROVE Waits(r)
      BY <1>2, <2>2, RestoreMoves DEF Alone, Waits
    <2>3. ASSUME NEW b \in Backups, CronBackup(b) \/ Ifdown(b) \/ Backup(b) PROVE Waits(r)
      BY <2>3 DEF CronBackup, Ifdown, Backup, EndBackup, Query, Write, Pass, restore, Waits
    <2>4. ASSUME NEW q \in Sections, Edit(q) PROVE Waits(r)
      BY <2>4 DEF Edit, restore, Waits
    <2>5. ASSUME NEW i \in Ids, Traffic(i) PROVE Waits(r)
      BY <2>5 DEF Traffic, restore, Waits
    <2>6. CASE UNCHANGED vars
      BY <2>6 DEF vars, restore, Waits
    <2> QED
      BY <1>2, <2>1, <2>2, <2>3, <2>4, <2>5, <2>6 DEF Next
  <1>3. TypeOK /\ [Next]_vars => [Advances]_vars
    BY <1>1, <1>2 DEF Advances
  <1> QED
    BY <1>3, TypeCorrect, PTL DEF Spec
=============================================================================
