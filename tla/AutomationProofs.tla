-------------------------- MODULE AutomationProofs --------------------------
(***************************************************************************)
(* What holds of the cron tasks for any tasks, expressions, patches and      *)
(* bounds: a task has one prompt run at a time, and its limit is charged     *)
(* once for each counted run, those apart whose record was never written.    *)
(* The second needs the first: it makes the counted runs of a task none or   *)
(* one, so that leasing, releasing and ending them neither merges two nor    *)
(* forgets one.                                                              *)
(***************************************************************************)
EXTENDS Automation, FiniteSetTheorems, TLAPS

Tables == UNION {[S -> Row] : S \in SUBSET Task}
Plans == UNION {[S -> Expr] : S \in SUBSET Task}
Snapshots == [revision : Nat, tasks : Tables]
Run == [task : Task, counted : BOOLEAN, leased : BOOLEAN]
FireState == [counted : BOOLEAN, at : {"check", "run", "queued"}]

(* The type of each part of the state. *)
StoreOK == tasks \in Tables /\ revision \in Nat /\ notices \subseteq Snapshots /\ runs \subseteq Run
SchedOK == /\ {jobs, desired} \subseteq Plans /\ {pending, permit} \subseteq BOOLEAN
           /\ loop \in {"recover", "select", "swap", "read", "diff"} /\ stuck \subseteq Task
FiringOK == ticks \subseteq Task /\ active \subseteq Task /\ fires \in [active -> FireState]
DetachedOK == /\ records \in [Task -> Nat] /\ disables \subseteq Task
              /\ reports \subseteq [task : Task, error : BOOLEAN]
ClientsOK == /\ mirror \in Snapshots \cup {None}
             /\ fetch = None \/ fetch \in [answer : Snapshots \cup {None}]
             /\ toggle = None \/ toggle \in [task : Task, enabled : BOOLEAN, base : Nat,
                                             attempt : {1, 2}]
CountsOK == /\ fired \in 0 .. MaxFires /\ happened \in 0 .. MaxHappens /\ failures \in 0 .. MaxFails
            /\ balance \in [Task -> Int] /\ unpaid \in [Task -> Nat]
TypeOK == StoreOK /\ SchedOK /\ FiringOK /\ DetachedOK /\ ClientsOK /\ CountsOK

(* The tray's switch is applied on the table it was read from or not at all. *)
ToggleFresh == toggle # None =>
  toggle.base <= revision /\ (toggle.base = revision => toggle.task \in DOMAIN tasks)

IInv == TypeOK /\ ToggleFresh /\ OneActiveRun /\ ChargedOnce

UniqueRuns(R) == \A r, q \in R : r.task = q.task => r = q
Owed(pot) == IF pot > 0 THEN pot ELSE 0
-----------------------------------------------------------------------------
(* Tables and rows.                                                          *)

LEMMA TableIs ==
  ASSUME NEW f \in Tables
  PROVE  DOMAIN f \subseteq Task /\ f \in [DOMAIN f -> Row]
  BY DEF Tables

LEMMA TableMade ==
  ASSUME NEW S \in SUBSET Task, NEW f \in [S -> Row] PROVE f \in Tables
  BY DEF Tables

LEMMA RowIs ==
  ASSUME NEW row \in Row
  PROVE  /\ row.enabled \in BOOLEAN /\ row.remaining \in Nat \cup {None}
         /\ row.cron \in Expr /\ row.error \in BOOLEAN
         /\ row = [enabled |-> row.enabled, remaining |-> row.remaining, cron |-> row.cron,
                   error |-> row.error]
  BY DEF Row

LEMMA RunIs ==
  ASSUME NEW r \in Run
  PROVE  /\ r.task \in Task /\ r.counted \in BOOLEAN /\ r.leased \in BOOLEAN
         /\ r = [task |-> r.task, counted |-> r.counted, leased |-> r.leased]
  BY DEF Run

(* Leasing and releasing a run leaves it the run it is. *)
LEMMA LeaseIs ==
  ASSUME NEW r \in Run, NEW leased \in BOOLEAN
  PROVE  LET q == [r EXCEPT !.leased = leased]
         IN  q \in Run /\ q.task = r.task /\ q.counted = r.counted
<1>1. [r EXCEPT !.leased = leased] = [task |-> r.task, counted |-> r.counted, leased |-> leased]
  BY RunIs
<1>2. QED BY <1>1, RunIs DEF Run

(* decrement_remaining() charges what it is asked, down to zero. *)
LEMMA DecrementedIs ==
  ASSUME NEW row \in Row, NEW n \in Nat
  PROVE  /\ Decremented(row, n) \in Row
         /\ Decremented(row, n).remaining = IF row.remaining = None THEN None
                                            ELSE Owed(row.remaining - n)
<1> DEFINE next == IF row.remaining > n THEN row.remaining - n ELSE 0
<1>1. None \notin Nat
  BY AutomationAssumption DEF AutomationAssumption
<1>2. CASE n = 0 \/ row.remaining = None
  BY <1>1, <1>2, RowIs DEF Decremented, Owed
<1>3. CASE ~(n = 0 \/ row.remaining = None)
  <2>1. row.remaining \in Nat
    BY <1>3, RowIs
  <2>2. next \in Nat /\ next = Owed(row.remaining - n)
    BY <2>1 DEF Owed
  <2>3. Decremented(row, n) = [row EXCEPT !.remaining = next, !.enabled = @ /\ next # 0]
    BY <1>3 DEF Decremented
  <2> HIDE DEF next
  <2>4. Decremented(row, n) = [enabled |-> row.enabled /\ next # 0, remaining |-> next,
                               cron |-> row.cron, error |-> row.error]
    BY <2>3, RowIs
  <2>5. (row.enabled /\ next # 0) \in BOOLEAN
    OBVIOUS
  <2>6. QED BY <1>3, <2>2, <2>4, <2>5, RowIs DEF Row
<1>4. QED BY <1>2, <1>3

(* Errors leave the limit of a row alone. *)
LEMMA ErrorSet ==
  ASSUME NEW row \in Row, NEW error \in BOOLEAN
  PROVE  LET next == [row EXCEPT !.error = error]
         IN  next \in Row /\ next.remaining = row.remaining
<1>1. [row EXCEPT !.error = error] = [enabled |-> row.enabled, remaining |-> row.remaining,
                                      cron |-> row.cron, error |-> error]
  BY RowIs
<1>2. QED BY <1>1, RowIs DEF Row

LEMMA RowSwitched ==
  ASSUME NEW row \in Row, NEW enabled \in BOOLEAN, NEW error \in BOOLEAN
  PROVE  LET next == [row EXCEPT !.enabled = enabled, !.error = error]
         IN  next \in Row /\ next.remaining = row.remaining
<1> DEFINE off == [row EXCEPT !.enabled = enabled]
<1>1. off = [enabled |-> enabled, remaining |-> row.remaining, cron |-> row.cron,
             error |-> row.error]
  BY RowIs
<1>2. off \in Row /\ off.remaining = row.remaining
  BY <1>1, RowIs DEF Row
<1> HIDE DEF off
<1>3. [off EXCEPT !.error = error] \in Row /\ [off EXCEPT !.error = error].remaining = off.remaining
  BY <1>2, ErrorSet
<1>4. [row EXCEPT !.enabled = enabled, !.error = error] = [off EXCEPT !.error = error]
  BY DEF off
<1>5. QED BY <1>2, <1>3, <1>4

(* An update merges a patch whose values have the types of the fields. *)
Patching(op) ==
  /\ "enabled" \in DOMAIN op => op.enabled \in BOOLEAN
  /\ "remaining" \in DOMAIN op => op.remaining \in Nat \cup {None}
  /\ "cron" \in DOMAIN op => op.cron \in Expr

LEMMA PatchedIs ==
  ASSUME NEW row \in Row, NEW op, Patching(op)
  PROVE  /\ Patched(row, op) \in Row
         /\ Patched(row, op).remaining =
              IF "remaining" \in DOMAIN op THEN op.remaining ELSE row.remaining
<1> DEFINE enabled == IF "enabled" \in DOMAIN op THEN op.enabled ELSE row.enabled
           remaining == IF "remaining" \in DOMAIN op THEN op.remaining ELSE row.remaining
           cron == IF "cron" \in DOMAIN op THEN op.cron ELSE row.cron
<1>1. remaining \in Nat \cup {None} /\ cron \in Expr
  BY RowIs DEF Patching
<1>2. Patched(row, op) = [enabled |-> enabled /\ remaining # 0, remaining |-> remaining,
                          cron |-> cron, error |-> FALSE]
  BY DEF Patched
<1> HIDE DEF enabled, remaining, cron
<1>3. (enabled /\ remaining # 0) \in BOOLEAN
  OBVIOUS
<1>4. Patched(row, op) \in Row /\ Patched(row, op).remaining = remaining
  BY <1>1, <1>2, <1>3 DEF Row
<1>5. QED BY <1>4 DEF remaining

(* A task with one run at a time has none or one that counts. *)
LEMMA CountedIs ==
  ASSUME NEW R, UniqueRuns(R), NEW t
  PROVE  Counted(t, R) = IF \E r \in R : r.task = t /\ r.counted THEN 1 ELSE 0
<1> DEFINE C == {r \in R : r.task = t /\ r.counted}
<1>1. CASE \E r \in R : r.task = t /\ r.counted
  <2>1. PICK r \in R : r.task = t /\ r.counted
    BY <1>1
  <2>2. C = {r}
    BY <2>1 DEF UniqueRuns
  <2>3. QED BY <1>1, <2>2, FS_Singleton DEF Counted
<1>2. CASE ~\E r \in R : r.task = t /\ r.counted
  <2>1. C = {}
    BY <1>2
  <2>2. QED BY <1>2, <2>1, FS_EmptySet DEF Counted
<1>3. QED BY <1>1, <1>2

LEMMA UniqueSubset ==
  ASSUME NEW R, UniqueRuns(R), NEW Q \in SUBSET R PROVE UniqueRuns(Q)
  BY DEF UniqueRuns

LEMMA UniqueNow == OneActiveRun <=> UniqueRuns(runs)
  BY DEF OneActiveRun, UniqueRuns

(* Ending some of the runs takes as much from the count as it charges. *)
LEMMA CountedWithout ==
  ASSUME NEW R, UniqueRuns(R), NEW Q \in SUBSET R, NEW t
  PROVE  /\ Counted(t, Q) \in Nat /\ Counted(t, R) \in Nat
         /\ Counted(t, R \ Q) = Counted(t, R) - Counted(t, Q)
<1>1. UniqueRuns(Q) /\ UniqueRuns(R \ Q)
  BY UniqueSubset
<1>2. Counted(t, R) = IF \E r \in R : r.task = t /\ r.counted THEN 1 ELSE 0
  BY CountedIs
<1>3. Counted(t, Q) = IF \E r \in Q : r.task = t /\ r.counted THEN 1 ELSE 0
  BY <1>1, CountedIs
<1>4. Counted(t, R \ Q) = IF \E r \in R \ Q : r.task = t /\ r.counted THEN 1 ELSE 0
  BY <1>1, CountedIs
<1>5. ~((\E r \in Q : r.task = t /\ r.counted) /\ (\E r \in R \ Q : r.task = t /\ r.counted))
  BY DEF UniqueRuns
<1>6. (\E r \in R : r.task = t /\ r.counted) <=>
        \/ \E r \in Q : r.task = t /\ r.counted
        \/ \E r \in R \ Q : r.task = t /\ r.counted
  OBVIOUS
<1>7. QED BY <1>2, <1>3, <1>4, <1>5, <1>6

(* Leases change nothing in the counts. *)
LEMMA CountedAlike ==
  ASSUME NEW R, UniqueRuns(R), NEW Q, UniqueRuns(Q), NEW t,
         (\E r \in R : r.task = t /\ r.counted) <=> (\E r \in Q : r.task = t /\ r.counted)
  PROVE  Counted(t, R) = Counted(t, Q)
  BY CountedIs
-----------------------------------------------------------------------------
(* The database after a change of its table. *)

LEMMA Announced ==
  ASSUME StoreOK, NEW f \in Tables, Announce(f) \/ AnnounceIfChanged(f)
  PROVE  /\ tasks' = f /\ revision' \in Nat /\ notices' \subseteq Snapshots
         /\ revision' > revision \/ (revision' = revision /\ tasks' = tasks)
<1>1. CASE Announce(f)
  <2>1. [revision |-> revision + 1, tasks |-> f] \in Snapshots
    BY DEF StoreOK, Snapshots
  <2>2. QED BY <1>1, <2>1 DEF Announce, StoreOK
<1>2. CASE ~Announce(f)
  BY <1>2 DEF AnnounceIfChanged, db, StoreOK
<1>3. QED BY <1>1, <1>2

LEMMA ToggleStaysFresh ==
  ASSUME IInv, toggle' = toggle, revision' \in Nat,
         revision' > revision \/ (revision' = revision /\ tasks' = tasks)
  PROVE  ToggleFresh'
<1>1. toggle # None => toggle.base \in Nat
  BY DEF IInv, TypeOK, ClientsOK
<1>2. revision \in Nat
  BY DEF IInv, TypeOK, StoreOK
<1>3. QED BY <1>1, <1>2 DEF IInv, ToggleFresh

(* What is left of a limit, a task at a time. *)
Charged(t) == tasks[t].remaining # None =>
  tasks[t].remaining = Owed(balance[t] + InFlight(t) + unpaid[t])

LEMMA ChargedIs == ChargedOnce <=> \A t \in DOMAIN tasks : Charged(t)
  BY DEF ChargedOnce, Charged, Owed

(* Runs end, each charged to its task. *)
LEMMA EndKeeps ==
  ASSUME IInv, NEW R \in SUBSET runs,
         AnnounceIfChanged([t \in DOMAIN tasks |-> Decremented(tasks[t], Counted(t, R))]),
         runs' \subseteq Run, UniqueRuns(runs'),
         \A t \in Task : Counted(t, runs') = Counted(t, runs \ R),
         UNCHANGED <<records, balance, unpaid, toggle>>
  PROVE  StoreOK' /\ ToggleFresh' /\ OneActiveRun' /\ ChargedOnce'
<1> DEFINE f == [t \in DOMAIN tasks |-> Decremented(tasks[t], Counted(t, R))]
<1>1. tasks \in Tables /\ DOMAIN tasks \subseteq Task /\ \A t \in DOMAIN tasks : tasks[t] \in Row
  BY TableIs DEF IInv, TypeOK, StoreOK
<1>2. \A t \in Task : /\ Counted(t, R) \in Nat /\ Counted(t, runs) \in Nat
                      /\ Counted(t, runs') = Counted(t, runs) - Counted(t, R)
  BY UniqueNow, CountedWithout DEF IInv
<1>3. \A t \in DOMAIN tasks :
        /\ Decremented(tasks[t], Counted(t, R)) \in Row
        /\ Decremented(tasks[t], Counted(t, R)).remaining =
             IF tasks[t].remaining = None THEN None ELSE Owed(tasks[t].remaining - Counted(t, R))
  BY <1>1, <1>2, DecrementedIs
<1>4. f \in Tables
  <2>1. f \in [DOMAIN tasks -> Row]
    BY <1>3
  <2> HIDE DEF f
  <2>2. QED BY <1>1, <2>1, TableMade
<1>5. AnnounceIfChanged(f)
  OBVIOUS
<1>6. /\ tasks' = f /\ revision' \in Nat /\ notices' \subseteq Snapshots
      /\ revision' > revision \/ (revision' = revision /\ tasks' = tasks)
  <2> HIDE DEF f
  <2>1. QED BY <1>4, <1>5, Announced DEF IInv, TypeOK
<1>7. StoreOK' /\ ToggleFresh' /\ OneActiveRun'
  <2> HIDE DEF f
  <2>1. QED BY <1>4, <1>6, ToggleStaysFresh DEF StoreOK, OneActiveRun, UniqueRuns
<1>8. ASSUME NEW t \in DOMAIN tasks' PROVE Charged(t)'
  <2>1. t \in DOMAIN tasks /\ t \in Task /\ tasks'[t] = Decremented(tasks[t], Counted(t, R))
    BY <1>1, <1>6, <1>8
  <2>2. /\ balance[t] \in Int /\ unpaid[t] \in Nat /\ records[t] \in Nat
        /\ tasks[t].remaining \in Nat \cup {None}
    BY <1>1, <2>1, RowIs DEF IInv, TypeOK, CountsOK, DetachedOK
  <2>3. tasks[t].remaining # None => tasks[t].remaining = Owed(balance[t] + (Counted(t, runs) + records[t]) + unpaid[t])
    BY <2>1, ChargedIs DEF IInv, Charged, InFlight
  <2>4. /\ Counted(t, R) \in Nat /\ Counted(t, runs) \in Nat
        /\ Counted(t, runs') = Counted(t, runs) - Counted(t, R)
    BY <1>2, <2>1
  <2>5. tasks'[t].remaining = IF tasks[t].remaining = None THEN None
                              ELSE Owed(tasks[t].remaining - Counted(t, R))
    BY <1>3, <2>1
  <2>6. tasks'[t].remaining # None =>
          tasks'[t].remaining = Owed(balance[t] + (Counted(t, runs') + records[t]) + unpaid[t])
    BY <2>2, <2>3, <2>4, <2>5 DEF Owed
  <2>7. QED BY <2>6 DEF Charged, InFlight
<1>9. QED BY <1>7, <1>8 DEF ChargedOnce, Charged, Owed

(* recover_interrupted_prompt_runs(), the sweep and complete_prompt_run(). *)
LEMMA EndingsKeep ==
  ASSUME IInv, NEW R \in SUBSET runs, End(R), UNCHANGED <<records, balance, unpaid, toggle>>
  PROVE  StoreOK' /\ ToggleFresh' /\ OneActiveRun' /\ ChargedOnce'
<1>1. runs' = runs \ R
  BY DEF End
<1>2. runs' \subseteq Run /\ UniqueRuns(runs')
  BY <1>1, UniqueNow, UniqueSubset DEF IInv, TypeOK, StoreOK
<1>3. QED BY <1>1, <1>2, EndKeeps DEF End

(* claim_prompt_runs(): what is due ends, the rest is leased. *)
LEMMA ClaimKeeps ==
  ASSUME IInv, NEW R \in SUBSET runs, Claim(R)
  PROVE  StoreOK' /\ ToggleFresh' /\ OneActiveRun' /\ ChargedOnce'
<1> DEFINE Leased(r) == [r EXCEPT !.leased = TRUE]
<1>1. \A r \in runs : r \in Run
  BY DEF IInv, TypeOK, StoreOK
<1>2. runs' = {Leased(r) : r \in runs \ R}
  BY DEF Claim
<1>3. \A r \in runs : Leased(r).task = r.task /\ Leased(r).counted = r.counted /\ Leased(r) \in Run
  BY <1>1, LeaseIs
<1> HIDE DEF Leased
<1>4. runs' \subseteq Run
  BY <1>2, <1>3
<1>5. UniqueRuns(runs) /\ UniqueRuns(runs \ R)
  BY UniqueNow, UniqueSubset DEF IInv
<1>6. UniqueRuns(runs')
  BY <1>2, <1>3, <1>5 DEF UniqueRuns
<1>7. \A t \in Task : Counted(t, runs') = Counted(t, runs \ R)
  <2> TAKE t \in Task
  <2>1. (\E r \in runs' : r.task = t /\ r.counted) <=> (\E r \in runs \ R : r.task = t /\ r.counted)
    BY <1>2, <1>3
  <2>2. QED BY <1>5, <1>6, <2>1, CountedAlike
<1>8. UNCHANGED <<records, balance, unpaid, toggle>>
  BY DEF Claim, detached, clients, books
<1>9. CASE R # {}
  BY <1>4, <1>6, <1>7, <1>8, <1>9, EndKeeps DEF Claim
<1>10. CASE R = {}
  <2>1. tasks' = tasks /\ revision' = revision /\ notices' = notices
    BY <1>10 DEF Claim, db
  <2>2. \A t \in Task : Counted(t, runs') = Counted(t, runs)
    BY <1>7, <1>10
  <2>3. StoreOK' /\ ToggleFresh' /\ OneActiveRun'
    BY <1>4, <1>6, <1>8, <2>1 DEF IInv, TypeOK, StoreOK, ToggleFresh, OneActiveRun, UniqueRuns
  <2>4. DOMAIN tasks \subseteq Task
    BY TableIs DEF IInv, TypeOK, StoreOK
  <2>5. ChargedOnce'
    BY <1>8, <2>1, <2>2, <2>4 DEF IInv, ChargedOnce, InFlight
  <2>6. QED BY <2>3, <2>5
<1>11. QED BY <1>9, <1>10

(* release_prompt_runs() *)
LEMMA ReleaseKeeps ==
  ASSUME IInv, NEW r \in runs, Release(r)
  PROVE  StoreOK' /\ ToggleFresh' /\ OneActiveRun' /\ ChargedOnce'
<1> DEFINE q == [r EXCEPT !.leased = FALSE]
<1>1. r \in Run /\ runs \subseteq Run
  BY DEF IInv, TypeOK, StoreOK
<1>2. q.task = r.task /\ q.counted = r.counted /\ q \in Run
  BY <1>1, LeaseIs
<1>3. runs' = (runs \ {r}) \cup {q}
  BY DEF Release
<1> HIDE DEF q
<1>4. UniqueRuns(runs)
  BY UniqueNow DEF IInv
<1>5. UniqueRuns(runs') /\ runs' \subseteq Run
  BY <1>1, <1>3, <1>2, <1>4 DEF UniqueRuns
<1>6. \A t \in Task : Counted(t, runs') = Counted(t, runs)
  <2> TAKE t \in Task
  <2>1. (\E p \in runs' : p.task = t /\ p.counted) <=> (\E p \in runs : p.task = t /\ p.counted)
    BY <1>3, <1>2
  <2>2. QED BY <1>4, <1>5, <2>1, CountedAlike
<1>7. UNCHANGED <<tasks, revision, notices, records, balance, unpaid, toggle>>
  BY DEF Release, db, detached, clients, books
<1>8. DOMAIN tasks \subseteq Task
  BY TableIs DEF IInv, TypeOK, StoreOK
<1>9. StoreOK' /\ ToggleFresh' /\ OneActiveRun'
  BY <1>5, <1>7 DEF IInv, TypeOK, StoreOK, ToggleFresh, OneActiveRun, UniqueRuns
<1>10. ChargedOnce'
  BY <1>6, <1>7, <1>8 DEF IInv, ChargedOnce, InFlight
<1>11. QED BY <1>9, <1>10

-----------------------------------------------------------------------------
(* Steps that change the table otherwise, or start a run.                    *)

LEMMA BooksKept ==
  ASSUME IInv, NEW f \in Tables, Announce(f) \/ AnnounceIfChanged(f),
         toggle' = toggle \/ toggle' = None, runs' \subseteq Run, UniqueRuns(runs'),
         \A u \in DOMAIN f : f[u].remaining # None =>
           f[u].remaining = Owed(balance'[u] + (Counted(u, runs') + records'[u]) + unpaid'[u])
  PROVE  StoreOK' /\ ToggleFresh' /\ OneActiveRun' /\ ChargedOnce'
<1>1. /\ tasks' = f /\ revision' \in Nat /\ notices' \subseteq Snapshots
      /\ revision' > revision \/ (revision' = revision /\ tasks' = tasks)
  BY Announced DEF IInv, TypeOK
<1>2. ToggleFresh'
  BY <1>1, ToggleStaysFresh DEF ToggleFresh
<1>3. ChargedOnce'
  BY <1>1 DEF ChargedOnce, InFlight, Owed
<1>4. QED BY <1>1, <1>2, <1>3 DEF StoreOK, OneActiveRun, UniqueRuns

(* The facts about a task and its account that the steps below use. *)
LEMMA Account ==
  ASSUME IInv
  PROVE  /\ tasks \in Tables /\ DOMAIN tasks \subseteq Task /\ tasks \in [DOMAIN tasks -> Row]
         /\ runs \subseteq Run /\ UniqueRuns(runs)
         /\ \A u \in Task : /\ balance[u] \in Int /\ unpaid[u] \in Nat
                            /\ records[u] \in Nat /\ Counted(u, runs) \in Nat
         /\ \A u \in DOMAIN tasks :
              /\ tasks[u] \in Row /\ tasks[u].remaining \in Nat \cup {None}
              /\ tasks[u].remaining # None =>
                   tasks[u].remaining = Owed(balance[u] + (Counted(u, runs) + records[u]) + unpaid[u])
<1>1. tasks \in Tables /\ DOMAIN tasks \subseteq Task /\ tasks \in [DOMAIN tasks -> Row]
  BY TableIs DEF IInv, TypeOK, StoreOK
<1>2. runs \subseteq Run /\ UniqueRuns(runs)
  BY UniqueNow DEF IInv, TypeOK, StoreOK
<1>3. \A u \in Task : /\ balance[u] \in Int /\ unpaid[u] \in Nat
                      /\ records[u] \in Nat /\ Counted(u, runs) \in Nat
  BY <1>2, CountedIs DEF IInv, TypeOK, CountsOK, DetachedOK
<1>4. \A u \in DOMAIN tasks : tasks[u] \in Row /\ tasks[u].remaining \in Nat \cup {None}
  BY <1>1, RowIs
<1>5. \A u \in DOMAIN tasks : tasks[u].remaining # None =>
        tasks[u].remaining = Owed(balance[u] + (Counted(u, runs) + records[u]) + unpaid[u])
  BY ChargedIs DEF IInv, Charged, InFlight
<1>6. QED BY <1>1, <1>2, <1>3, <1>4, <1>5

(* cron_apply(): what an update sets as the limit is what is left of it, the *)
(* runs under way already taken off.                                         *)
LEMMA ApplyKeeps ==
  ASSUME IInv, NEW t \in DOMAIN tasks, NEW op, op = None \/ Patching(op), ApplyOp(t, op),
         records' = records, toggle' = toggle \/ toggle' = None
  PROVE  /\ StoreOK' /\ ToggleFresh' /\ OneActiveRun' /\ ChargedOnce'
         /\ balance' \in [Task -> Int] /\ unpaid' \in [Task -> Nat]
<1> DEFINE f == Applied(t, op)
<1> USE Account
<1>1. Announce(f)
  BY DEF ApplyOp
<1>2. balance \in [Task -> Int] /\ unpaid \in [Task -> Nat]
  BY DEF IInv, TypeOK, CountsOK
<1>3. CASE op = None
  <2>1. f = [u \in DOMAIN tasks \ {t} |-> tasks[u]]
    BY <1>3 DEF Applied, Without
  <2>2. runs' = {r \in runs : r.task # t} /\ balance' = balance /\ unpaid' = unpaid
    BY <1>3 DEF ApplyOp, books
  <2>3. f \in [DOMAIN tasks \ {t} -> Row]
    BY <2>1
  <2> HIDE DEF f
  <2>4. f \in Tables /\ DOMAIN f = DOMAIN tasks \ {t} /\ \A u \in DOMAIN f : f[u] = tasks[u]
    BY <2>1, <2>3, TableMade
  <2>5. runs' \subseteq Run /\ UniqueRuns(runs')
    BY <2>2, UniqueSubset
  <2>6. \A u \in Task \ {t} : Counted(u, runs') = Counted(u, runs)
    <3> TAKE u \in Task \ {t}
    <3>1. (\E r \in runs' : r.task = u /\ r.counted) <=> (\E r \in runs : r.task = u /\ r.counted)
      BY <2>2
    <3>2. QED BY <2>5, <3>1, CountedAlike
  <2>7. QED BY <1>1, <1>2, <2>2, <2>4, <2>5, <2>6, BooksKept
<1>4. CASE op # None
  <2> DEFINE row == Patched(tasks[t], op)
  <2>1. f = [u \in DOMAIN tasks \cup {t} |-> IF u = t THEN row ELSE tasks[u]] /\ runs' = runs
    BY <1>4 DEF Applied, With, ApplyOp
  <2>2. Patching(op)
    BY <1>4
  <2>3. row \in Row /\ row.remaining = IF "remaining" \in DOMAIN op THEN op.remaining
                                       ELSE tasks[t].remaining
    BY <2>2, PatchedIs
  <2> HIDE DEF row
  <2>4. f \in [DOMAIN tasks -> Row]
    BY <2>1, <2>3
  <2> HIDE DEF f
  <2>5. /\ f \in Tables /\ DOMAIN f = DOMAIN tasks /\ f[t] = row
        /\ \A u \in DOMAIN tasks \ {t} : f[u] = tasks[u]
    BY <2>1, <2>4, TableMade
  <2>6. CASE "remaining" \in DOMAIN op /\ op.remaining # None
    <3>1. op.remaining \in Nat
      BY <2>2, <2>6 DEF Patching
    <3>2. /\ balance' = [balance EXCEPT ![t] = op.remaining - (Counted(t, runs) + records[t])]
          /\ unpaid' = [unpaid EXCEPT ![t] = 0]
      BY <1>4, <2>6 DEF ApplyOp, InFlight
    <3>3. /\ balance' \in [Task -> Int] /\ unpaid' \in [Task -> Nat]
          /\ \A u \in Task \ {t} : balance'[u] = balance[u] /\ unpaid'[u] = unpaid[u]
          /\ balance'[t] + (Counted(t, runs) + records[t]) + unpaid'[t] = op.remaining
      BY <1>2, <3>1, <3>2
    <3>4. f[t].remaining = Owed(balance'[t] + (Counted(t, runs) + records[t]) + unpaid'[t])
      BY <2>3, <2>5, <2>6, <3>1, <3>3 DEF Owed
    <3>5. QED BY <1>1, <2>1, <2>5, <3>3, <3>4, BooksKept
  <2>7. CASE ~("remaining" \in DOMAIN op /\ op.remaining # None)
    <3>1. balance' = balance /\ unpaid' = unpaid
      BY <2>7 DEF ApplyOp, books
    <3>2. row.remaining # None => row.remaining = tasks[t].remaining
      BY <2>3, <2>7
    <3>3. \A u \in DOMAIN f : f[u].remaining # None =>
            f[u].remaining = Owed(balance'[u] + (Counted(u, runs') + records'[u]) + unpaid'[u])
      BY <2>1, <2>5, <3>1, <3>2
    <3>4. QED BY <1>1, <1>2, <2>1, <2>5, <3>1, <3>3, BooksKept
  <2>8. QED BY <2>6, <2>7
<1>5. QED BY <1>3, <1>4

(* A run that is over as soon as it started: its record is under way.        *)
LEMMA RecordedKeeps ==
  ASSUME IInv, NEW t \in DOMAIN fires, records' = Recorded(t), balance' = Started(t),
         UNCHANGED <<db, runs, unpaid, toggle>>
  PROVE  /\ StoreOK' /\ ToggleFresh' /\ OneActiveRun' /\ ChargedOnce'
         /\ records' \in [Task -> Nat] /\ balance' \in [Task -> Int]
<1> USE Account
<1>1. /\ balance \in [Task -> Int] /\ records \in [Task -> Nat]
      /\ t \in Task /\ fires[t].counted \in BOOLEAN
  BY DEF IInv, TypeOK, CountsOK, DetachedOK, FiringOK, FireState
<1>2. records' \in [Task -> Nat] /\ balance' \in [Task -> Int]
  BY <1>1 DEF Recorded, Started
<1>3. \A u \in Task : balance'[u] + (Counted(u, runs) + records'[u]) + unpaid'[u] =
                      balance[u] + (Counted(u, runs) + records[u]) + unpaid[u]
  BY <1>1 DEF Recorded, Started
<1>4. ChargedOnce'
  BY <1>3 DEF ChargedOnce, InFlight, Owed, db
<1>5. QED BY <1>2, <1>4 DEF IInv, TypeOK, StoreOK, ToggleFresh, OneActiveRun, db

(* queue_prompt_run() *)
LEMMA QueueKeeps ==
  ASSUME IInv, NEW t, QueuePrompt(t)
  PROVE  /\ StoreOK' /\ ToggleFresh' /\ OneActiveRun' /\ ChargedOnce'
         /\ balance' \in [Task -> Int]
<1> USE Account
<1> DEFINE new == [task |-> t, counted |-> fires[t].counted, leased |-> FALSE]
<1>1. /\ balance \in [Task -> Int] /\ t \in Task /\ fires[t].counted \in BOOLEAN
  BY DEF QueuePrompt, IInv, TypeOK, CountsOK, FiringOK, FireState
<1>2. UNCHANGED <<tasks, revision, notices, records, unpaid, toggle>>
  BY DEF QueuePrompt, db, detached, clients
<1>3. CASE \E r \in runs : r.task = t
  BY <1>1, <1>2, <1>3
  DEF QueuePrompt, IInv, TypeOK, StoreOK, ToggleFresh, OneActiveRun, ChargedOnce, InFlight
<1>4. CASE ~\E r \in runs : r.task = t
  <2>1. runs' = runs \cup {new} /\ balance' = Started(t)
    BY <1>4 DEF QueuePrompt
  <2>2. new \in Run /\ new.task = t /\ new.counted = fires[t].counted
    BY <1>1 DEF Run
  <2> HIDE DEF new
  <2>3. runs' \subseteq Run /\ UniqueRuns(runs')
    BY <1>4, <2>1, <2>2 DEF UniqueRuns
  <2>4. balance' \in [Task -> Int] /\ \A u \in Task \ {t} : balance'[u] = balance[u]
    BY <1>1, <2>1 DEF Started
  <2>5. balance'[t] = IF fires[t].counted THEN balance[t] - 1 ELSE balance[t]
    BY <1>1, <2>1 DEF Started
  <2>6. \A u \in Task \ {t} : Counted(u, runs') = Counted(u, runs)
    <3> TAKE u \in Task \ {t}
    <3>1. (\E r \in runs' : r.task = u /\ r.counted) <=> (\E r \in runs : r.task = u /\ r.counted)
      BY <2>1, <2>2
    <3>2. QED BY <2>3, <3>1, CountedAlike
  <2>7. Counted(t, runs') = IF fires[t].counted THEN 1 ELSE 0
    <3>1. (\E r \in runs' : r.task = t /\ r.counted) <=> fires[t].counted
      BY <1>4, <2>1, <2>2
    <3>2. QED BY <2>3, <3>1, CountedIs
  <2>8. Counted(t, runs) = 0
    BY <1>4, CountedIs
  <2>9. \A u \in Task : balance'[u] + (Counted(u, runs') + records[u]) + unpaid[u] =
                        balance[u] + (Counted(u, runs) + records[u]) + unpaid[u]
    BY <1>1, <2>4, <2>5, <2>6, <2>7, <2>8
  <2>10. ChargedOnce'
    BY <1>2, <2>9 DEF ChargedOnce, InFlight, Owed
  <2>11. QED
    BY <1>2, <2>3, <2>4, <2>10 DEF IInv, TypeOK, StoreOK, ToggleFresh, OneActiveRun, UniqueRuns
<1>5. QED BY <1>3, <1>4

(* record_completed_run() *)
LEMMA RecordKeeps ==
  ASSUME IInv, NEW t \in Task, Record(t)
  PROVE  /\ StoreOK' /\ ToggleFresh' /\ OneActiveRun' /\ ChargedOnce'
         /\ records' \in [Task -> Nat]
<1> USE Account
<1> DEFINE f == [u \in DOMAIN tasks |-> IF u = t THEN Decremented(tasks[u], 1) ELSE tasks[u]]
<1>1. records \in [Task -> Nat]
  BY DEF IInv, TypeOK, DetachedOK
<1>2. /\ records[t] > 0 /\ records' = [records EXCEPT ![t] = @ - 1] /\ AnnounceIfChanged(f)
      /\ runs' = runs /\ balance' = balance /\ unpaid' = unpaid /\ toggle' = toggle
  BY DEF Record, clients, books
<1>3. /\ records' \in [Task -> Nat] /\ records'[t] = records[t] - 1
      /\ \A u \in Task \ {t} : records'[u] = records[u]
  BY <1>1, <1>2
<1>4. t \in DOMAIN tasks =>
        /\ Decremented(tasks[t], 1) \in Row
        /\ Decremented(tasks[t], 1).remaining =
             IF tasks[t].remaining = None THEN None ELSE Owed(tasks[t].remaining - 1)
  BY DecrementedIs
<1>5. f \in [DOMAIN tasks -> Row]
  BY <1>4
<1>6. /\ DOMAIN f = DOMAIN tasks /\ \A u \in DOMAIN tasks \ {t} : f[u] = tasks[u]
      /\ t \in DOMAIN tasks => f[t] = Decremented(tasks[t], 1)
  OBVIOUS
<1> HIDE DEF f
<1>7. f \in Tables
  BY <1>5, TableMade
<1>8. ASSUME t \in DOMAIN tasks, f[t].remaining # None
      PROVE  f[t].remaining = Owed(balance[t] + (Counted(t, runs) + records'[t]) + unpaid[t])
  <2>1. tasks[t].remaining # None /\ f[t].remaining = Owed(tasks[t].remaining - 1)
    BY <1>4, <1>6, <1>8
  <2>2. tasks[t].remaining = Owed(balance[t] + (Counted(t, runs) + records[t]) + unpaid[t])
    BY <1>8, <2>1
  <2>3. balance[t] \in Int /\ unpaid[t] \in Nat /\ Counted(t, runs) \in Nat /\ records[t] \in Nat
    OBVIOUS
  <2>4. QED BY <1>3, <2>1, <2>2, <2>3 DEF Owed
<1>9. \A u \in DOMAIN f : f[u].remaining # None =>
        f[u].remaining = Owed(balance'[u] + (Counted(u, runs') + records'[u]) + unpaid'[u])
  BY <1>2, <1>3, <1>6, <1>8
<1>10. QED BY <1>2, <1>3, <1>7, <1>9, BooksKept

(* set_task_error() and disable_task_with_error() leave the limits alone.    *)
LEMMA ErrorKeeps ==
  ASSUME IInv, (\E r \in reports : SetTaskError(r)) \/ (\E t \in disables : DisableWithError(t))
  PROVE  StoreOK' /\ ToggleFresh' /\ OneActiveRun' /\ ChargedOnce'
<1> USE Account
<1>1. UNCHANGED <<runs, records, balance, unpaid, toggle>>
  BY DEF SetTaskError, DisableWithError, clients, books
<1>2. ASSUME NEW f, f \in [DOMAIN tasks -> Row], Announce(f) \/ AnnounceIfChanged(f),
             \A u \in DOMAIN tasks : f[u].remaining = tasks[u].remaining
      PROVE  StoreOK' /\ ToggleFresh' /\ OneActiveRun' /\ ChargedOnce'
  BY <1>1, <1>2, TableMade, BooksKept
<1>3. ASSUME NEW r \in reports, SetTaskError(r)
      PROVE  StoreOK' /\ ToggleFresh' /\ OneActiveRun' /\ ChargedOnce'
  <2> DEFINE f == [u \in DOMAIN tasks |->
                     IF u = r.task THEN [tasks[u] EXCEPT !.error = r.error] ELSE tasks[u]]
  <2>1. r.error \in BOOLEAN
    BY <1>3 DEF IInv, TypeOK, DetachedOK
  <2>2. \A u \in DOMAIN tasks :
          LET row == [tasks[u] EXCEPT !.error = r.error]
          IN  row \in Row /\ row.remaining = tasks[u].remaining
    BY <2>1, ErrorSet
  <2>3. f \in [DOMAIN tasks -> Row] /\ \A u \in DOMAIN tasks : f[u].remaining = tasks[u].remaining
    BY <2>2
  <2>4. AnnounceIfChanged(f)
    BY <1>3 DEF SetTaskError
  <2> HIDE DEF f
  <2>5. QED BY <1>2, <2>3, <2>4
<1>4. ASSUME NEW t \in disables, DisableWithError(t)
      PROVE  StoreOK' /\ ToggleFresh' /\ OneActiveRun' /\ ChargedOnce'
  <2>1. CASE t \in DOMAIN tasks
    <3> DEFINE row == [tasks[t] EXCEPT !.enabled = FALSE, !.error = TRUE]
               f == [tasks EXCEPT ![t] = row]
    <3>1. Announce(f)
      BY <1>4, <2>1 DEF DisableWithError
    <3>2. row \in Row /\ row.remaining = tasks[t].remaining
      BY <2>1, RowSwitched
    <3> HIDE DEF row
    <3>3. f \in [DOMAIN tasks -> Row] /\ \A u \in DOMAIN tasks : f[u].remaining = tasks[u].remaining
      BY <2>1, <3>2
    <3> HIDE DEF f
    <3>4. QED BY <1>2, <3>1, <3>3
  <2>2. CASE t \notin DOMAIN tasks
    <3>1. UNCHANGED db
      BY <1>4, <2>2 DEF DisableWithError
    <3>2. QED
      BY <1>1, <3>1 DEF IInv, TypeOK, StoreOK, ToggleFresh, OneActiveRun, ChargedOnce, InFlight, db
  <2>3. QED BY <2>1, <2>2
<1>5. QED BY <1>3, <1>4

(* What the writes that fail leave out is on the other side of the account.  *)
LEMMA UnpaidKeeps ==
  ASSUME IInv, records' \in [Task -> Nat], unpaid' \in [Task -> Nat],
         \A u \in Task : records'[u] + unpaid'[u] = records[u] + unpaid[u],
         UNCHANGED <<tasks, revision, runs, balance>>, notices' \subseteq notices,
         toggle' = toggle \/ toggle' = None
  PROVE  StoreOK' /\ ToggleFresh' /\ OneActiveRun' /\ ChargedOnce'
<1> USE Account
<1>1. \A u \in Task : balance'[u] + (Counted(u, runs') + records'[u]) + unpaid'[u] =
                      balance[u] + (Counted(u, runs) + records[u]) + unpaid[u]
  <2> TAKE u \in Task
  <2>1. /\ records'[u] \in Nat /\ unpaid'[u] \in Nat /\ records[u] \in Nat /\ unpaid[u] \in Nat
        /\ records'[u] + unpaid'[u] = records[u] + unpaid[u]
    OBVIOUS
  <2>2. balance'[u] = balance[u] /\ Counted(u, runs') = Counted(u, runs)
        /\ balance[u] \in Int /\ Counted(u, runs) \in Nat
    OBVIOUS
  <2> HIDE Account
  <2> QED BY <2>1, <2>2
<1>2. ChargedOnce'
  BY <1>1 DEF ChargedOnce, InFlight, Owed
<1>3. QED BY <1>2 DEF IInv, TypeOK, StoreOK, ToggleFresh, OneActiveRun

(* A restart forgets records that are under way, a write that fails its own.  *)
LEMMA LossKeeps ==
  ASSUME IInv, Restart \/ WriteFails
  PROVE  /\ StoreOK' /\ ToggleFresh' /\ OneActiveRun' /\ ChargedOnce'
         /\ records' \in [Task -> Nat] /\ balance' \in [Task -> Int] /\ unpaid' \in [Task -> Nat]
<1>1. /\ records \in [Task -> Nat] /\ unpaid \in [Task -> Nat] /\ balance \in [Task -> Int]
  BY DEF IInv, TypeOK, CountsOK, DetachedOK
<1>2. /\ UNCHANGED <<tasks, revision, runs, balance>> /\ notices' \subseteq notices
      /\ toggle' = toggle \/ toggle' = None
  BY DEF Restart, WriteFails, db, clients
<1>3. /\ records' \in [Task -> Nat] /\ unpaid' \in [Task -> Nat]
      /\ \A u \in Task : records'[u] + unpaid'[u] = records[u] + unpaid[u]
  <2>1. CASE Restart
    BY <1>1, <2>1 DEF Restart
  <2>2. CASE WriteFails
    <3>1. CASE UNCHANGED <<records, unpaid>>
      BY <1>1, <3>1
    <3>2. ASSUME NEW t \in Task, records[t] > 0, records' = [records EXCEPT ![t] = @ - 1],
                 unpaid' = [unpaid EXCEPT ![t] = @ + 1]
          PROVE  /\ records' \in [Task -> Nat] /\ unpaid' \in [Task -> Nat]
                 /\ \A u \in Task : records'[u] + unpaid'[u] = records[u] + unpaid[u]
      BY <1>1, <3>2
    <3>3. QED BY <2>2, <3>1, <3>2 DEF WriteFails
  <2>3. QED BY <2>1, <2>2
<1>4. QED BY <1>1, <1>2, <1>3, UnpaidKeeps

-----------------------------------------------------------------------------
(* The other parts keep their types.                                         *)

LEMMA PlanMade == ASSUME NEW S \in SUBSET Task, NEW f \in [S -> Expr] PROVE f \in Plans
  BY DEF Plans
LEMMA PlanIs == ASSUME NEW f \in Plans PROVE DOMAIN f \subseteq Task /\ f \in [DOMAIN f -> Expr]
  BY DEF Plans
LEMMA NoPlan == NoJobs \in Plans
<1>1. NoJobs \in [{} -> Expr]
  BY DEF NoJobs
<1>2. QED BY <1>1, PlanMade

(* The steps that leave the scheduler alone. *)
Quiet == \/ FetchSnapshot \/ FeedFetched \/ LandToggle \/ WriteFails
         \/ \E t \in Task : Toggle(t) \/ \E op \in Patches \cup {None} : Edit(t, op)
         \/ \E R \in SUBSET runs : Sweep(R) \/ Claim(R)
         \/ \E t \in Task : \/ Tick(t) \/ Fire(t) \/ RunNow(t) \/ Check(t) \/ Missing(t)
                            \/ QueuePrompt(t) \/ QueueFails(t) \/ Queued(t) \/ Execute(t) \/ Record(t)
         \/ \E r \in reports : SetTaskError(r)
         \/ \E t \in disables : DisableWithError(t)
         \/ \E r \in runs : Release(r) \/ Complete(r)

(* reload(): what it leaves registered is what it read or what it kept. *)
LEMMA ReloadTyped ==
  ASSUME TypeOK, Reload
  PROVE  {jobs', desired'} \subseteq Plans /\ stuck' \subseteq Task
         /\ reports' \subseteq [task : Task, error : BOOLEAN]
<1> DEFINE old == {t \in DOMAIN jobs : t \notin DOMAIN desired \/ desired[t] # jobs[t]}
<1>1. PICK failed \in SUBSET old, refused \in SUBSET {t \in DOMAIN desired : desired[t] \in Valid} :
        LET kept == DOMAIN jobs \ (old \ failed)
            missing == DOMAIN desired \ kept
            added == {t \in missing : desired[t] \in Valid} \ refused
        IN  /\ stuck' = failed \cup refused
            /\ jobs' = [t \in kept \cup added |-> IF t \in kept THEN jobs[t] ELSE desired[t]]
            /\ reports' = reports \cup {[task |-> t, error |-> t \notin added] : t \in missing}
  BY DEF Reload
<1> DEFINE kept == DOMAIN jobs \ (old \ failed)
           missing == DOMAIN desired \ kept
           added == {t \in missing : desired[t] \in Valid} \ refused
<1>2. /\ DOMAIN jobs \subseteq Task /\ jobs \in [DOMAIN jobs -> Expr]
      /\ DOMAIN desired \subseteq Task /\ desired \in [DOMAIN desired -> Expr]
  BY PlanIs DEF TypeOK, SchedOK
<1>3. kept \subseteq DOMAIN jobs /\ added \subseteq DOMAIN desired /\ missing \subseteq Task
      /\ old \cup refused \subseteq Task
  BY <1>2
<1>4. /\ stuck' = failed \cup refused
      /\ jobs' = [t \in kept \cup added |-> IF t \in kept THEN jobs[t] ELSE desired[t]]
      /\ reports' = reports \cup {[task |-> t, error |-> t \notin added] : t \in missing}
  BY <1>1
<1>5. desired' \in Plans
  BY NoPlan DEF Reload, ReloadDone
<1> HIDE DEF old, kept, missing, added
<1>6. jobs' \in [kept \cup added -> Expr]
  BY <1>2, <1>3, <1>4
<1>7. jobs' \in Plans
  BY <1>2, <1>3, <1>6, PlanMade
<1>8. \A t \in missing : [task |-> t, error |-> t \notin added] \in [task : Task, error : BOOLEAN]
  <2> TAKE t \in missing
  <2>1. (t \notin added) \in BOOLEAN
    OBVIOUS
  <2>2. QED BY <1>3, <2>1
<1>9. reports' \subseteq [task : Task, error : BOOLEAN]
  BY <1>4, <1>8 DEF TypeOK, DetachedOK
<1>10. QED BY <1>3, <1>4, <1>5, <1>7, <1>9

LEMMA SchedTyped == ASSUME TypeOK, Next PROVE SchedOK'
<1>1. ASSUME UNCHANGED sched PROVE SchedOK'
  BY <1>1 DEF TypeOK, SchedOK, sched
<1>2. CASE Quiet
  <2>1. UNCHANGED sched
    BY <1>2 DEF Quiet, FetchSnapshot, FeedFetched, LandToggle, Toggle, Edit, Sweep, Claim, Tick,
                Fire, RunNow, Check, Missing, QueuePrompt, QueueFails, Queued, Execute, Record,
                SetTaskError, DisableWithError, WriteFails, Release, Complete
  <2>2. QED BY <1>1, <2>1
<1>3. ASSUME NEW s \in notices, Notify(s) PROVE SchedOK'
  BY <1>3 DEF Notify, TypeOK, SchedOK
<1>4. CASE Recover \/ RecoverFails \/ Woken \/ Swap \/ ReadFails
  BY <1>4 DEF Recover, RecoverFails, Woken, Swap, ReadFails, TypeOK, SchedOK
<1>5. CASE ReadTasks
  <2> DEFINE on == {u \in DOMAIN tasks : Runnable(tasks[u])}
  <2>1. DOMAIN tasks \subseteq Task /\ \A t \in DOMAIN tasks : tasks[t].cron \in Expr
    BY TableIs, RowIs DEF TypeOK, StoreOK
  <2>2. desired' \in [on -> Expr]
    BY <1>5, <2>1 DEF ReadTasks
  <2>3. desired' \in Plans
    BY <2>1, <2>2, PlanMade
  <2>4. QED BY <1>5, <2>3 DEF ReadTasks, TypeOK, SchedOK
<1>6. CASE Reload
  BY <1>6, ReloadTyped DEF Reload, ReloadDone, TypeOK, SchedOK
<1>7. CASE Restart
  BY <1>7, NoPlan DEF Restart, TypeOK, SchedOK
<1>8. QED BY <1>2, <1>3, <1>4, <1>5, <1>6, <1>7 DEF Next, Quiet

(* start_fire() and clear_active() keep active_runs and the fires together. *)
LEMMA ActiveTyped ==
  ASSUME FiringOK, NEW t \in Task
  PROVE  /\ ClearActive(t) => active' \subseteq Task /\ fires' \in [active' -> FireState]
         /\ \A at \in FireState : StartFire(t, at) =>
              active' \subseteq Task /\ fires' \in [active' -> FireState]
  BY DEF FiringOK, ClearActive, Without, StartFire, With

LEMMA FiringTyped == ASSUME TypeOK, Next PROVE FiringOK'
<1> FiringOK
  BY DEF TypeOK
<1>1. ASSUME UNCHANGED firing PROVE FiringOK'
  BY <1>1 DEF FiringOK, firing
<1>2. ASSUME NEW t \in Task, ClearActive(t), ticks' = ticks PROVE FiringOK'
  BY <1>2, ActiveTyped DEF FiringOK
<1>3. ASSUME NEW t \in Task, Tick(t) \/ Fire(t) \/ RunNow(t) \/ Check(t) \/ QueuePrompt(t)
      PROVE  FiringOK'
  <2>1. CASE Tick(t)
    BY <1>3, <2>1 DEF Tick, FiringOK
  <2>2. CASE Fire(t)
    <3>1. [counted |-> TRUE, at |-> "check"] \in FireState
      BY DEF FireState
    <3>2. QED BY <2>2, <3>1, ActiveTyped DEF Fire, FiringOK
  <2>3. CASE RunNow(t)
    <3>1. [counted |-> FALSE, at |-> "run"] \in FireState
      BY DEF FireState
    <3>2. QED BY <2>3, <3>1, ActiveTyped DEF RunNow, FiringOK
  <2>4. CASE Check(t)
    <3>1. CASE t \in DOMAIN tasks /\ Runnable(tasks[t])
      BY <2>4, <3>1 DEF Check, FiringOK, FireState
    <3>2. CASE ~(t \in DOMAIN tasks /\ Runnable(tasks[t]))
      BY <1>2, <2>4, <3>2 DEF Check
    <3>3. QED BY <3>1, <3>2
  <2>5. CASE QueuePrompt(t)
    BY <2>5 DEF QueuePrompt, FiringOK, FireState
  <2>6. QED BY <1>3, <2>1, <2>2, <2>3, <2>4, <2>5
<1>4. ASSUME NEW t \in Task, Missing(t) \/ QueueFails(t) \/ Queued(t) \/ Execute(t)
      PROVE  FiringOK'
  BY <1>2, <1>4 DEF Missing, QueueFails, Queued, Execute
<1>5. CASE Restart
  BY <1>5 DEF Restart, NoFires, FiringOK
<1>6. CASE \/ FetchSnapshot \/ FeedFetched \/ LandToggle \/ Recover \/ RecoverFails \/ Woken \/ Swap
           \/ ReadTasks \/ ReadFails \/ Reload \/ WriteFails
           \/ \E s \in notices : Notify(s)
           \/ \E t \in Task : Toggle(t) \/ \E op \in Patches \cup {None} : Edit(t, op)
           \/ \E R \in SUBSET runs : Sweep(R) \/ Claim(R)
           \/ \E t \in Task : Record(t)
           \/ \E r \in reports : SetTaskError(r)
           \/ \E t \in disables : DisableWithError(t)
           \/ \E r \in runs : Release(r) \/ Complete(r)
  <2>1. UNCHANGED firing
    BY <1>6 DEF FetchSnapshot, FeedFetched, LandToggle, Recover, RecoverFails, Woken, Swap, ReadTasks, ReadFails, Reload, Notify,
                Toggle, Edit, Sweep, Claim, Record, SetTaskError, DisableWithError, WriteFails, Release, Complete
  <2>2. QED BY <1>1, <2>1
<1>7. QED BY <1>3, <1>4, <1>5, <1>6 DEF Next

(* The reports and disables under way.                                       *)
PostsOK == disables \subseteq Task /\ reports \subseteq [task : Task, error : BOOLEAN]

LEMMA PostsTyped == ASSUME TypeOK, Next PROVE PostsOK'
<1> PostsOK
  BY DEF TypeOK, DetachedOK, PostsOK
<1>1. ASSUME UNCHANGED <<reports, disables>> PROVE PostsOK'
  BY <1>1 DEF PostsOK
<1>2. CASE Reload
  BY <1>2, ReloadTyped DEF Reload, PostsOK
<1>3. ASSUME NEW t \in Task, Missing(t) PROVE PostsOK'
  BY <1>3 DEF Missing, PostsOK
<1>4. ASSUME NEW r \in reports, SetTaskError(r) PROVE PostsOK'
  BY <1>4 DEF SetTaskError, PostsOK
<1>5. ASSUME NEW t \in disables, DisableWithError(t) PROVE PostsOK'
  BY <1>5 DEF DisableWithError, PostsOK
<1>6. CASE Restart \/ WriteFails
  BY <1>6 DEF Restart, WriteFails, PostsOK
<1>7. CASE \/ FetchSnapshot \/ FeedFetched \/ LandToggle \/ Recover \/ RecoverFails \/ Woken \/ Swap
           \/ ReadTasks \/ ReadFails
           \/ \E s \in notices : Notify(s)
           \/ \E t \in Task : Toggle(t) \/ \E op \in Patches \cup {None} : Edit(t, op)
           \/ \E R \in SUBSET runs : Sweep(R) \/ Claim(R)
           \/ \E t \in Task : \/ Tick(t) \/ Fire(t) \/ RunNow(t) \/ Check(t) \/ QueuePrompt(t)
                              \/ QueueFails(t) \/ Queued(t) \/ Execute(t) \/ Record(t)
           \/ \E r \in runs : Release(r) \/ Complete(r)
  <2>1. UNCHANGED <<reports, disables>>
    BY <1>7 DEF FetchSnapshot, FeedFetched, LandToggle, Recover, RecoverFails, Woken, Swap, ReadTasks, ReadFails, Notify, Toggle,
                Edit, Sweep, Claim, Tick, Fire, RunNow, Check, QueuePrompt, QueueFails, Queued, Execute,
                Record, Release, Complete, detached
  <2>2. QED BY <1>1, <2>1
<1>8. QED BY <1>2, <1>3, <1>4, <1>5, <1>6, <1>7 DEF Next

(* The page's copy and the two requests of it are snapshots of the database. *)
LEMMA AskedTyped ==
  ASSUME TypeOK, NEW t \in Task, NEW attempt \in {1, 2}
  PROVE  Asked(t, attempt) = None \/ Asked(t, attempt) \in
           [task : Task, enabled : BOOLEAN, base : Nat, attempt : {1, 2}]
<1>1. (~tasks[t].enabled) \in BOOLEAN /\ revision \in Nat
  BY DEF TypeOK, StoreOK
<1>2. QED BY <1>1 DEF Asked

LEMMA ClientsTyped == ASSUME TypeOK, Next PROVE ClientsOK'
<1> ClientsOK
  BY DEF TypeOK
<1>1. ASSUME UNCHANGED clients PROVE ClientsOK'
  BY <1>1 DEF ClientsOK, clients
<1>2. Snapshot \in Snapshots /\ notices \subseteq Snapshots
  BY DEF Snapshot, Snapshots, TypeOK, StoreOK
<1>3. CASE FetchSnapshot
  <2>1. fetch' = [answer |-> Snapshot]
    BY <1>3 DEF FetchSnapshot
  <2>2. fetch' \in [answer : Snapshots \cup {None}]
    BY <1>2, <2>1
  <2>3. QED BY <1>3, <2>2 DEF FetchSnapshot, ClientsOK
<1>4. CASE FeedFetched
  BY <1>4 DEF FeedFetched, Feed, ClientsOK
<1>5. ASSUME NEW s \in notices, Notify(s) PROVE ClientsOK'
  BY <1>2, <1>5 DEF Notify, Feed, ClientsOK
<1>6. ASSUME NEW t \in Task, Toggle(t) PROVE ClientsOK'
  BY <1>6, AskedTyped DEF Toggle, ClientsOK
<1>7. CASE LandToggle
  <2>1. toggle.task \in Task
    BY <1>7 DEF LandToggle, ClientsOK
  <2>2. Asked(toggle.task, 2) = None \/ Asked(toggle.task, 2) \in
           [task : Task, enabled : BOOLEAN, base : Nat, attempt : {1, 2}]
    BY <2>1, AskedTyped
  <2>3. QED BY <1>7, <2>2 DEF LandToggle, ClientsOK
<1>8. CASE Restart
  BY <1>8 DEF Restart, ClientsOK
<1>9. CASE \/ Recover \/ RecoverFails \/ Woken \/ Swap
           \/ ReadTasks \/ ReadFails \/ Reload \/ WriteFails
           \/ \E t \in Task : \E op \in Patches \cup {None} : Edit(t, op)
           \/ \E R \in SUBSET runs : Sweep(R) \/ Claim(R)
           \/ \E t \in Task : \/ Tick(t) \/ Fire(t) \/ RunNow(t) \/ Check(t) \/ Missing(t)
                              \/ QueuePrompt(t) \/ QueueFails(t) \/ Queued(t) \/ Execute(t) \/ Record(t)
           \/ \E r \in reports : SetTaskError(r)
           \/ \E t \in disables : DisableWithError(t)
           \/ \E r \in runs : Release(r) \/ Complete(r)
  <2>1. UNCHANGED clients
    BY <1>9 DEF Recover, RecoverFails, Woken, Swap, ReadTasks, ReadFails, Reload, Edit, Sweep, Claim, Tick, Fire, RunNow, Check,
                Missing, QueuePrompt, QueueFails, Queued, Execute, Record, SetTaskError,
                DisableWithError, WriteFails, Release, Complete
  <2>2. QED BY <1>1, <2>1
<1>10. QED BY <1>3, <1>4, <1>5, <1>6, <1>7, <1>8, <1>9 DEF Next

LEMMA CountsTyped ==
  ASSUME TypeOK, Next
  PROVE  fired' \in 0 .. MaxFires /\ happened' \in 0 .. MaxHappens /\ failures' \in 0 .. MaxFails
<1>1. /\ MaxFires \in Nat /\ MaxHappens \in Nat /\ MaxFails \in Nat
      /\ fired \in 0 .. MaxFires /\ happened \in 0 .. MaxHappens /\ failures \in 0 .. MaxFails
  BY AutomationAssumption DEF AutomationAssumption, TypeOK, CountsOK
<1>2. MayFire \/ Happens \/ Fails \/ UNCHANGED counts
  BY DEF Next, FetchSnapshot, FeedFetched, LandToggle, Notify, Toggle, Edit, Recover, RecoverFails, Woken, Swap, ReadFails,
         ReadTasks, Reload, Restart, Sweep, Claim, Tick, Fire, RunNow, Check, Missing, QueuePrompt,
         QueueFails, Queued, Execute, Record, SetTaskError, DisableWithError, WriteFails, Release, Complete
<1>3. QED BY <1>1, <1>2 DEF MayFire, Happens, Fails, counts
-----------------------------------------------------------------------------
(* The books, the types of a task's account among them.                      *)
Books == /\ StoreOK /\ ToggleFresh /\ OneActiveRun /\ ChargedOnce
         /\ records \in [Task -> Nat] /\ balance \in [Task -> Int] /\ unpaid \in [Task -> Nat]

LEMMA BooksStep == ASSUME IInv, Next PROVE Books'
<1>1. records \in [Task -> Nat] /\ balance \in [Task -> Int] /\ unpaid \in [Task -> Nat]
  BY DEF IInv, TypeOK, DetachedOK, CountsOK
<1>2. ASSUME UNCHANGED <<tasks, revision, runs, records, balance, unpaid, toggle>>,
             notices' \subseteq notices
      PROVE  Books'
  BY <1>1, <1>2
  DEF IInv, TypeOK, StoreOK, Books, ToggleFresh, OneActiveRun, ChargedOnce, InFlight
<1>3. CASE \/ FetchSnapshot \/ FeedFetched \/ Woken \/ Swap \/ ReadTasks \/ ReadFails \/ RecoverFails \/ Reload
           \/ \E s \in notices : Notify(s)
           \/ \E t \in Task : Tick(t) \/ Fire(t) \/ RunNow(t) \/ Check(t) \/ Queued(t)
  <2>1. /\ UNCHANGED <<tasks, revision, runs, records, balance, unpaid, toggle>>
        /\ notices' \subseteq notices
    BY <1>3 DEF FetchSnapshot, FeedFetched, Woken, Swap, ReadTasks, ReadFails, RecoverFails, Reload, Notify, Tick, Fire, RunNow,
                Check, Queued, db, clients, detached, books
  <2>2. QED BY <1>2, <2>1
<1>4. ASSUME NEW t \in Task, Toggle(t) PROVE Books'
  <2>1. UNCHANGED <<tasks, revision, notices, runs, records, balance, unpaid>> /\ toggle' = Asked(t, 1)
    BY <1>4 DEF Toggle, db, detached, books
  <2>2. ToggleFresh'
    BY <2>1 DEF ToggleFresh, Asked, IInv, TypeOK, StoreOK
  <2>3. QED
    BY <1>1, <2>1, <2>2 DEF IInv, TypeOK, StoreOK, Books, OneActiveRun, ChargedOnce, InFlight
<1>5. ASSUME NEW t \in Task, NEW op \in Patches \cup {None}, Edit(t, op) PROVE Books'
  <2>1. op = None \/ Patching(op)
    BY AutomationAssumption DEF AutomationAssumption, Patching
  <2>2. /\ t \in DOMAIN tasks /\ ApplyOp(t, op) /\ records' = records /\ toggle' = toggle
    BY <1>5 DEF Edit, detached, clients
  <2>3. QED BY <1>1, <2>1, <2>2, ApplyKeeps DEF Books
<1>6. CASE LandToggle
  <2>1. records' = records
    BY <1>6 DEF LandToggle, detached
  <2>2. CASE toggle.base # revision
    <3>1. /\ UNCHANGED <<tasks, revision, notices, runs, balance, unpaid>>
          /\ toggle' = None \/ toggle' = Asked(toggle.task, 2)
      BY <1>6, <2>2 DEF LandToggle, db, books
    <3>2. ToggleFresh'
      BY <3>1 DEF ToggleFresh, Asked, IInv, TypeOK, StoreOK
    <3>3. QED
      BY <1>1, <2>1, <3>1, <3>2
      DEF IInv, TypeOK, StoreOK, Books, OneActiveRun, ChargedOnce, InFlight
  <2>3. CASE toggle.base = revision
    <3> DEFINE op == [enabled |-> toggle.enabled]
    <3>1. toggle # None /\ toggle' = None /\ ApplyOp(toggle.task, op)
      BY <1>6, <2>3 DEF LandToggle
    <3>2. toggle.task \in DOMAIN tasks /\ toggle.enabled \in BOOLEAN
      BY <2>3, <3>1 DEF IInv, ToggleFresh, TypeOK, ClientsOK
    <3>3. DOMAIN op = {"enabled"} /\ op.enabled = toggle.enabled
      OBVIOUS
    <3> HIDE DEF op
    <3>4. Patching(op)
      BY <3>2, <3>3 DEF Patching
    <3>5. QED BY <1>1, <2>1, <3>1, <3>2, <3>4, ApplyKeeps DEF Books
  <2>4. QED BY <2>2, <2>3
<1>7. CASE Recover
  BY <1>1, <1>7, EndingsKeep DEF Recover, detached, clients, books, Books
<1>8. ASSUME NEW R \in SUBSET runs, Sweep(R) \/ Claim(R) PROVE Books'
  <2>1. CASE Sweep(R)
    BY <1>1, <2>1, EndingsKeep DEF Sweep, detached, clients, books, Books
  <2>2. CASE Claim(R)
    BY <1>1, <2>2, ClaimKeeps DEF Claim, detached, books, Books
  <2>3. QED BY <1>8, <2>1, <2>2
<1>9. ASSUME NEW r \in runs, Release(r) \/ Complete(r) PROVE Books'
  <2>1. CASE Release(r)
    BY <1>1, <2>1, ReleaseKeeps DEF Release, detached, books, Books
  <2>2. CASE Complete(r)
    <3>1. {r} \in SUBSET runs
      OBVIOUS
    <3>2. QED BY <1>1, <2>2, <3>1, EndingsKeep DEF Complete, detached, clients, books, Books
  <2>3. QED BY <1>9, <2>1, <2>2
<1>10. ASSUME NEW t \in Task, Missing(t) \/ QueueFails(t) \/ Execute(t) PROVE Books'
  <2>1. /\ t \in DOMAIN fires /\ records' = Recorded(t) /\ balance' = Started(t)
        /\ UNCHANGED <<db, runs, unpaid, toggle>>
    BY <1>10 DEF Missing, QueueFails, Execute, clients
  <2>2. QED BY <1>1, <2>1, RecordedKeeps DEF Books
<1>11. ASSUME NEW t \in Task, QueuePrompt(t) PROVE Books'
  BY <1>1, <1>11, QueueKeeps DEF QueuePrompt, detached, Books
<1>12. ASSUME NEW t \in Task, Record(t) PROVE Books'
  BY <1>1, <1>12, RecordKeeps DEF Record, books, Books
<1>13. CASE (\E r \in reports : SetTaskError(r)) \/ (\E t \in disables : DisableWithError(t))
  BY <1>1, <1>13, ErrorKeeps DEF SetTaskError, DisableWithError, books, Books
<1>14. CASE Restart \/ WriteFails
  BY <1>14, LossKeeps DEF Books
<1>15. QED
  BY <1>3, <1>4, <1>5, <1>6, <1>7, <1>8, <1>9, <1>10, <1>11, <1>12, <1>13, <1>14 DEF Next
-----------------------------------------------------------------------------
LEMMA InitHolds == Init => IInv
<1> SUFFICES ASSUME Init PROVE IInv
  OBVIOUS
<1>1. Row0 \in [Task -> Row] /\ None \notin Nat /\ MaxFires \in Nat /\ MaxHappens \in Nat /\ MaxFails \in Nat
  BY AutomationAssumption DEF AutomationAssumption
<1>2. \A t \in Task : Row0[t].remaining \in Nat \cup {None} /\ Row0[t].cron \in Expr
  BY <1>1, RowIs
<1>3. tasks = Row0 /\ DOMAIN tasks = Task /\ tasks \in Tables
  BY <1>1, TableMade DEF Init
<1>4. StoreOK
  BY <1>3 DEF Init, StoreOK
<1>5. SchedOK
  <2> DEFINE on == {t \in DOMAIN tasks : Runnable(tasks[t]) /\ tasks[t].cron \in Valid}
  <2>1. jobs = [t \in on |-> tasks[t].cron]
    BY DEF Init, Wanted
  <2>2. jobs \in [on -> Expr]
    BY <1>2, <1>3, <2>1
  <2>3. jobs \in Plans
    BY <1>3, <2>2, PlanMade
  <2>4. QED BY <2>3, NoPlan DEF Init, SchedOK
<1>6. FiringOK /\ DetachedOK
  BY DEF Init, FiringOK, DetachedOK, NoFires
<1>7. ClientsOK
  <2>1. Snapshot \in Snapshots
    BY <1>4 DEF Snapshot, Snapshots, StoreOK
  <2>2. QED BY <2>1 DEF Init, ClientsOK
<1>8. CountsOK
  <2>1. balance = [t \in Task |-> IF Row0[t].remaining = None THEN 0 ELSE Row0[t].remaining]
    BY DEF Init
  <2>2. balance \in [Task -> Int]
    BY <1>2, <2>1
  <2>3. QED BY <1>1, <2>2 DEF Init, CountsOK
<1>9. ToggleFresh /\ OneActiveRun
  BY DEF Init, ToggleFresh, OneActiveRun
<1>10. ChargedOnce
  <2>1. runs = {} /\ UniqueRuns(runs)
    BY DEF Init, UniqueRuns
  <2>2. \A t \in Task : Counted(t, runs) = 0
    BY <2>1, CountedIs
  <2>3. \A t \in Task : InFlight(t) = 0
    BY <2>2 DEF Init, InFlight
  <2>4. QED BY <1>1, <1>2, <1>3, <2>3 DEF Init, ChargedOnce
<1>11. QED BY <1>4, <1>5, <1>6, <1>7, <1>8, <1>9, <1>10 DEF IInv, TypeOK

LEMMA StepKeeps == IInv /\ [Next]_vars => IInv'
<1> SUFFICES ASSUME IInv, [Next]_vars PROVE IInv'
  OBVIOUS
<1>1. CASE Next
  BY <1>1, BooksStep, SchedTyped, FiringTyped, PostsTyped, ClientsTyped, CountsTyped
  DEF Books, PostsOK, IInv, TypeOK, DetachedOK, CountsOK
<1>2. CASE UNCHANGED vars
  <2>1. StoreOK' /\ SchedOK' /\ FiringOK' /\ DetachedOK' /\ ClientsOK' /\ CountsOK'
    BY <1>2 DEF vars, db, sched, firing, detached, clients, counts, books, IInv, TypeOK, StoreOK, SchedOK,
                FiringOK, DetachedOK, ClientsOK, CountsOK
  <2>2. ToggleFresh' /\ OneActiveRun' /\ ChargedOnce'
    BY <1>2 DEF vars, db, detached, clients, books, IInv, ToggleFresh, OneActiveRun, ChargedOnce, InFlight
  <2>3. QED BY <2>1, <2>2 DEF IInv, TypeOK
<1>3. QED BY <1>1, <1>2

LEMMA Inductive == Spec => []IInv
<1>1. QED BY InitHolds, StepKeeps, PTL DEF Spec

(* The state keeps its type; the page's copy and the answers on their way    *)
(* are snapshots the database had, and a fire under way has its task in      *)
(* active_runs.                                                              *)
THEOREM AutomationTypeCorrect == Spec => []TypeOK
<1>1. IInv => TypeOK
  BY DEF IInv
<1>2. QED BY Inductive, <1>1, PTL

(* OneActiveRun: manual runs, ticks, claims and releases never leave a task  *)
(* with two prompt runs queued or leased.                                    *)
THEOREM OneRunPerTask == Spec => []OneActiveRun
<1>1. IInv => OneActiveRun
  BY DEF IInv
<1>2. QED BY Inductive, <1>1, PTL

(* ChargedOnce: whatever order runs are completed, expired, released,        *)
(* interrupted and recorded in, a limit is what it was set to less the       *)
(* counted runs that are over, each once, down to zero; it is higher only by *)
(* the runs whose record failed to be written or was lost with the process.  *)
THEOREM LimitsChargedOnce == Spec => []ChargedOnce
<1>1. IInv => ChargedOnce
  BY DEF IInv
<1>2. QED BY Inductive, <1>1, PTL
=============================================================================
