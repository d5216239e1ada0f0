----------------------------- MODULE Automation -----------------------------
(***************************************************************************)
(* services/automation/store.rs and scheduler.rs with the mirror of         *)
(* lib/automation/store.ts: cron tasks in a database with a revision, jobs  *)
(* that follow the runnable tasks, runs that use up a task's limit, and     *)
(* detached writes and notifications that land in any order.                *)
(***************************************************************************)
EXTENDS Integers, FiniteSets

CONSTANTS
  Task,        \* cron tasks
  Prompt,      \* those of kind "prompt"; the others run a script
  Pinned,      \* those with a pinned workspace, which may be missing
  Expr, Valid, \* cron expressions, those the scheduler accepts
  Row0,        \* [Task -> row]: the tasks at the start
  Patches,     \* what an update op may set: records of some fields of a row
  MaxFires,    \* bound: ticks and manual runs
  MaxHappens,  \* bound: edits and restarts
  MaxFails,    \* bound: accesses to the database and steps of the scheduler that fail
  None         \* no value, an unlimited task's remaining, the delete op

Row == [enabled : BOOLEAN, remaining : Nat \cup {None}, cron : Expr, error : BOOLEAN]

ASSUME AutomationAssumption ==
  /\ Prompt \cup Pinned \subseteq Task /\ Valid \subseteq Expr
  /\ {MaxFires, MaxHappens, MaxFails} \subseteq Nat /\ None \notin Nat
  /\ Row0 \in [Task -> Row]
  /\ \A op \in Patches : /\ "enabled" \in DOMAIN op => op.enabled \in BOOLEAN
                         /\ "remaining" \in DOMAIN op => op.remaining \in Nat \cup {None}
                         /\ "cron" \in DOMAIN op => op.cron \in Expr

VARIABLES
  tasks,     \* automation_cron_tasks: a function from the ids that exist to rows
  revision,  \* cron_revision
  runs,      \* automation_cron_runs in state pending or leased
  notices,   \* snapshots committed whose cron_changed() is not called yet
  jobs,      \* jobs: a function from the tasks registered to expressions
  pending,   \* reload_pending
  permit,    \* reload_notify holds a permit
  loop,      \* run_loop: "recover", "select", "swap", "read", "diff"
  desired,   \* what reload() read: a function from the runnable tasks to expressions
  ticks,     \* fire() calls that have not read their task yet
  active,    \* active_runs
  fires,     \* execute_fire() calls: a function from tasks to their state
  records,   \* [Task -> counted record_completed_run() calls under way]
  reports,   \* set_task_error() calls under way
  disables,  \* disable_task_with_error() calls under way
  mirror,    \* the page's copy, or None before its first one
  fetch,     \* its first fetch: [answer], or None when it is over
  toggle,    \* toggle_cron_task_enabled() under way, or None
  fired,     \* fires so far
  happened,  \* of what MaxHappens bounds, so far
  failures,  \* of what MaxFails bounds, so far
  balance,   \* history: what a task's limit grants beyond the runs started
  unpaid,    \* history: of those, the ones whose record could not be written, or was lost
  stuck      \* history: tasks whose job a reload that failed left as it was

db == <<tasks, revision, notices>>
sched == <<jobs, pending, permit, loop, desired, stuck>>
firing == <<ticks, active, fires>>
detached == <<records, reports, disables>>
clients == <<mirror, fetch, toggle>>
counts == <<fired, happened, failures>>
books == <<balance, unpaid>>
vars == <<db, runs, sched, firing, detached, clients, counts, books>>

MayFire == fired < MaxFires /\ fired' = fired + 1 /\ UNCHANGED <<happened, failures>>
Happens == happened < MaxHappens /\ happened' = happened + 1 /\ UNCHANGED <<fired, failures>>
Fails == failures < MaxFails /\ failures' = failures + 1 /\ UNCHANGED <<fired, happened>>
Snapshot == [revision |-> revision, tasks |-> tasks]
NoFires == [t \in {} |-> None]
NoJobs == [t \in {} |-> None]
Without(f, t) == [u \in DOMAIN f \ {t} |-> f[u]]
With(f, t, v) == [u \in DOMAIN f \cup {t} |-> IF u = t THEN v ELSE f[u]]

(* The jobs of the runnable tasks the scheduler accepts. *)
Runnable(row) == row.enabled /\ row.remaining # 0
Wanted ==
  LET on == {t \in DOMAIN tasks : Runnable(tasks[t]) /\ tasks[t].cron \in Valid}
  IN  [t \in on |-> tasks[t].cron]
Fits(t) == IF t \in DOMAIN Wanted THEN t \in DOMAIN jobs /\ jobs[t] = Wanted[t] ELSE t \notin DOMAIN jobs

(* An application that has settled after its start. *)
Init ==
  /\ tasks = Row0 /\ revision = 0 /\ runs = {} /\ notices = {}
  /\ jobs = Wanted /\ pending = FALSE /\ permit = FALSE /\ loop = "select" /\ desired = NoJobs
  /\ ticks = {} /\ active = {} /\ fires = NoFires
  /\ records = [t \in Task |-> 0] /\ reports = {} /\ disables = {}
  /\ mirror = Snapshot /\ fetch = None /\ toggle = None
  /\ fired = 0 /\ happened = 0 /\ failures = 0 /\ stuck = {} /\ unpaid = [t \in Task |-> 0]
  /\ balance = [t \in Task |-> IF Row0[t].remaining = None THEN 0 ELSE Row0[t].remaining]

-----------------------------------------------------------------------------
(* The database.                                                            *)

Announce(f) ==
  /\ tasks' = f
  /\ revision' = revision + 1
  /\ notices' = notices \cup {[revision |-> revision + 1, tasks |-> f]}
AnnounceIfChanged(f) == IF f = tasks THEN UNCHANGED db ELSE Announce(f)

Counted(t, R) == Cardinality({r \in R : r.task = t /\ r.counted})
InFlight(t) == Counted(t, runs) + records[t]

(* decrement_remaining(), n times. *)
Decremented(row, n) ==
  IF n = 0 \/ row.remaining = None THEN row
  ELSE LET next == IF row.remaining > n THEN row.remaining - n ELSE 0
       IN  [row EXCEPT !.remaining = next, !.enabled = @ /\ next # 0]

(* The runs of R end: done or expired, charged in the same transaction.      *)
End(R) ==
  /\ runs' = runs \ R
  /\ AnnounceIfChanged([t \in DOMAIN tasks |-> Decremented(tasks[t], Counted(t, R))])

(* apply_cron_op(): an update merges the patch and clears the error.         *)
Patched(row, patch) ==
  LET enabled == IF "enabled" \in DOMAIN patch THEN patch.enabled ELSE row.enabled
      remaining == IF "remaining" \in DOMAIN patch THEN patch.remaining ELSE row.remaining
      cron == IF "cron" \in DOMAIN patch THEN patch.cron ELSE row.cron
  IN  [enabled |-> enabled /\ remaining # 0, remaining |-> remaining, cron |-> cron,
       error |-> FALSE]

Applied(t, op) == IF op = None THEN Without(tasks, t) ELSE With(tasks, t, Patched(tasks[t], op))

ApplyOp(t, op) ==
  /\ Announce(Applied(t, op))
  /\ runs' = IF op = None THEN {r \in runs : r.task # t} ELSE runs
  /\ IF op # None /\ "remaining" \in DOMAIN op /\ op.remaining # None
     THEN /\ balance' = [balance EXCEPT ![t] = op.remaining - InFlight(t)]
          /\ unpaid' = [unpaid EXCEPT ![t] = 0]
     ELSE UNCHANGED books

-----------------------------------------------------------------------------
(* The page.  feedCronSnapshot() ignores what is older than its copy.        *)

Feed(m, s) == IF m # None /\ s.revision < m.revision THEN m ELSE s

FetchSnapshot ==
  /\ fetch # None /\ fetch.answer = None
  /\ fetch' = [answer |-> Snapshot]
  /\ UNCHANGED <<db, runs, sched, firing, detached, mirror, toggle, counts, books>>

(* initAutomation(): an event may have been there before the answer. *)
FeedFetched ==
  /\ fetch # None /\ fetch.answer # None
  /\ fetch' = None
  /\ mirror' = Feed(mirror, fetch.answer)
  /\ UNCHANGED <<db, runs, sched, firing, detached, toggle, counts, books>>

(* cron_changed(): the event, then request_reload(). *)
Notify(s) ==
  /\ s \in notices
  /\ notices' = notices \ {s}
  /\ mirror' = Feed(mirror, s)
  /\ pending' = TRUE /\ permit' = TRUE
  /\ UNCHANGED <<tasks, revision, runs, jobs, loop, desired, stuck, firing, detached, fetch,
                 toggle, counts, books>>

(* cron_apply() with the current revision; with an older one it changes nothing. *)
Edit(t, op) ==
  /\ t \in DOMAIN tasks
  /\ Happens
  /\ ApplyOp(t, op)
  /\ UNCHANGED <<sched, firing, detached, clients>>

(* The tray's switch: a snapshot, then cron_apply(), twice at most. *)
Asked(t, attempt) ==
  IF t \in DOMAIN tasks
  THEN [task |-> t, enabled |-> ~tasks[t].enabled, base |-> revision, attempt |-> attempt]
  ELSE None

Toggle(t) ==
  /\ toggle = None /\ t \in DOMAIN tasks
  /\ Happens
  /\ toggle' = Asked(t, 1)
  /\ UNCHANGED <<db, runs, sched, firing, detached, mirror, fetch, books>>

LandToggle ==
  /\ toggle # None
  /\ IF toggle.base # revision
     THEN toggle' = (IF toggle.attempt = 2 THEN None ELSE Asked(toggle.task, 2))
          /\ UNCHANGED <<db, runs, books>>
     ELSE toggle' = None /\ ApplyOp(toggle.task, [enabled |-> toggle.enabled])
  /\ UNCHANGED <<sched, firing, detached, mirror, fetch, counts>>

-----------------------------------------------------------------------------
(* run_loop()                                                               *)

RecoverFree ==
  /\ loop = "recover"
  /\ runs' = {}
  /\ loop' = "select" /\ pending' = TRUE /\ permit' = TRUE
  /\ UNCHANGED <<db, jobs, desired, stuck, firing, detached, clients, counts, books>>

(* recover_interrupted_prompt_runs(), then the first reload is requested. *)
Recover ==
  /\ loop = "recover"
  /\ End(runs)
  /\ loop' = "select" /\ pending' = TRUE /\ permit' = TRUE
  /\ UNCHANGED <<jobs, desired, stuck, firing, detached, clients, counts, books>>

(* It fails: the runs stay as they are until the sweep finds them due. *)
RecoverFails ==
  /\ loop = "recover"
  /\ Fails
  /\ loop' = "select" /\ pending' = TRUE /\ permit' = TRUE
  /\ UNCHANGED <<db, runs, jobs, desired, stuck, firing, detached, clients, books>>

Woken ==
  /\ loop = "select" /\ permit
  /\ permit' = FALSE /\ loop' = "swap"
  /\ UNCHANGED <<db, runs, jobs, pending, desired, stuck, firing, detached, clients, counts, books>>

Swap ==
  /\ loop = "swap"
  /\ pending' = FALSE
  /\ loop' = IF pending THEN "read" ELSE "select"
  /\ UNCHANGED <<db, runs, jobs, permit, desired, stuck, firing, detached, clients, counts, books>>

(* runnable_cron_tasks() *)
ReadTasks ==
  /\ loop = "read"
  /\ loop' = "diff"
  /\ desired' = [t \in {u \in DOMAIN tasks : Runnable(tasks[u])} |-> tasks[t].cron]
  /\ UNCHANGED <<db, runs, jobs, pending, permit, stuck, firing, detached, clients, counts, books>>

(* It fails, and nothing is left of the request: reload_pending is down.     *)
ReadFails ==
  /\ loop = "read"
  /\ Fails
  /\ loop' = "swap"
  /\ stuck' = {t \in Task : ~Fits(t)}
  /\ UNCHANGED <<db, runs, jobs, pending, permit, desired, firing, detached, clients, books>>

ReloadDoneClears == loop' = "swap" /\ desired' = NoJobs /\ pending' = FALSE
ReloadDone == loop' = "swap" /\ desired' = NoJobs /\ UNCHANGED pending

(* reload(): jobs of another expression or of no runnable task go, unless    *)
(* the removal fails; what is missing is added, or the error is reported, of *)
(* its expression or of the scheduler.                                       *)
Reload ==
  /\ loop = "diff"
  /\ ReloadDone
  /\ LET old == {t \in DOMAIN jobs : t \notin DOMAIN desired \/ desired[t] # jobs[t]}
     IN  \E failed \in SUBSET old, refused \in SUBSET {t \in DOMAIN desired : desired[t] \in Valid} :
           LET kept == DOMAIN jobs \ (old \ failed)
               missing == DOMAIN desired \ kept
               added == {t \in missing : desired[t] \in Valid} \ refused
           IN  /\ refused \subseteq missing
               /\ IF failed \cup refused = {} THEN UNCHANGED counts ELSE Fails
               /\ stuck' = failed \cup refused
               /\ jobs' = [t \in kept \cup added |-> IF t \in kept THEN jobs[t] ELSE desired[t]]
               /\ reports' = reports \cup {[task |-> t, error |-> t \notin added] : t \in missing}
  /\ UNCHANGED <<db, runs, permit, firing, records, disables, clients, books>>

(* sweep_expired_prompt_runs() on the loop's timer, or first in a claim. *)
Sweep(R) ==
  /\ loop = "select" /\ R # {} /\ R \subseteq runs
  /\ End(R)
  /\ UNCHANGED <<sched, firing, detached, clients, counts, books>>

-----------------------------------------------------------------------------
(* A fire of a job: fire() reads the task, start_fire() takes its place in   *)
(* active_runs or skips, execute_fire() checks again and runs it.            *)

Tick(t) ==
  /\ t \in DOMAIN jobs \ ticks
  /\ MayFire
  /\ ticks' = ticks \cup {t}
  /\ UNCHANGED <<db, runs, sched, active, fires, detached, clients, books>>

StartFire(t, at) ==
  /\ active' = active \cup {t}
  /\ fires' = With(fires, t, at)

Fire(t) ==
  /\ t \in ticks
  /\ ticks' = ticks \ {t}
  /\ IF t \in DOMAIN tasks /\ t \notin active
     THEN StartFire(t, [counted |-> TRUE, at |-> "check"])
     ELSE UNCHANGED <<active, fires>>
  /\ UNCHANGED <<db, runs, sched, detached, clients, counts, books>>

RunNow(t) ==
  /\ t \in DOMAIN tasks \ active
  /\ t \in Prompt => \A r \in runs : r.task # t
  /\ MayFire
  /\ StartFire(t, [counted |-> FALSE, at |-> "run"])
  /\ UNCHANGED <<db, runs, sched, ticks, detached, clients, books>>

ClearActive(t) == active' = active \ {t} /\ fires' = Without(fires, t)

(* task_can_run() *)
Check(t) ==
  /\ t \in DOMAIN fires /\ fires[t].at = "check"
  /\ IF t \in DOMAIN tasks /\ Runnable(tasks[t])
     THEN fires' = [fires EXCEPT ![t].at = "run"] /\ UNCHANGED active
     ELSE ClearActive(t)
  /\ UNCHANGED <<db, runs, sched, ticks, detached, clients, counts, books>>

Started(t) ==
  IF fires[t].counted THEN [balance EXCEPT ![t] = @ - 1] ELSE balance
Recorded(t) == IF fires[t].counted THEN [records EXCEPT ![t] = @ + 1] ELSE records

(* The pinned workspace is missing: a failed run, and the task is disabled. *)
Missing(t) ==
  /\ t \in DOMAIN fires /\ fires[t].at = "run" /\ t \in Pinned
  /\ records' = Recorded(t) /\ balance' = Started(t)
  /\ disables' = disables \cup {t}
  /\ ClearActive(t)
  /\ UNCHANGED <<db, runs, sched, ticks, reports, clients, counts, unpaid>>

QueueUnchecked(t) ==
  /\ t \in DOMAIN fires /\ fires[t].at = "run" /\ t \in Prompt
  /\ runs' = runs \cup {[task |-> t, counted |-> fires[t].counted, leased |-> FALSE]}
  /\ balance' = Started(t)
  /\ fires' = [fires EXCEPT ![t].at = "queued"]
  /\ UNCHANGED <<db, sched, ticks, active, detached, clients, counts, unpaid>>

(* queue_prompt_run(): nothing when a run of the task is queued or leased. *)
QueuePrompt(t) ==
  /\ t \in DOMAIN fires /\ fires[t].at = "run" /\ t \in Prompt
  /\ IF \E r \in runs : r.task = t THEN UNCHANGED <<runs, balance>>
     ELSE /\ runs' = runs \cup {[task |-> t, counted |-> fires[t].counted, leased |-> FALSE]}
          /\ balance' = Started(t)
  /\ fires' = [fires EXCEPT ![t].at = "queued"]
  /\ UNCHANGED <<db, sched, ticks, active, detached, clients, counts, unpaid>>

(* It could not be written: a failed run, counted if it was scheduled. *)
QueueFails(t) ==
  /\ t \in DOMAIN fires /\ fires[t].at = "run" /\ t \in Prompt
  /\ Fails
  /\ records' = Recorded(t) /\ balance' = Started(t)
  /\ ClearActive(t)
  /\ UNCHANGED <<db, runs, sched, ticks, reports, disables, clients, unpaid>>

Queued(t) ==
  /\ t \in DOMAIN fires /\ fires[t].at = "queued"
  /\ ClearActive(t)
  /\ UNCHANGED <<db, runs, sched, ticks, detached, clients, counts, books>>

(* execute_blocking() has run; the record is written by a detached task. *)
Execute(t) ==
  /\ t \in DOMAIN fires /\ fires[t].at = "run" /\ t \notin Prompt
  /\ records' = Recorded(t) /\ balance' = Started(t)
  /\ ClearActive(t)
  /\ UNCHANGED <<db, runs, sched, ticks, reports, disables, clients, counts, unpaid>>

-----------------------------------------------------------------------------
(* The detached writes, and the commands on prompt runs.                     *)

Record(t) ==
  /\ records[t] > 0
  /\ records' = [records EXCEPT ![t] = @ - 1]
  /\ AnnounceIfChanged([u \in DOMAIN tasks |-> IF u = t THEN Decremented(tasks[u], 1) ELSE tasks[u]])
  /\ UNCHANGED <<runs, sched, firing, reports, disables, clients, counts, books>>

SetTaskError(r) ==
  /\ r \in reports
  /\ reports' = reports \ {r}
  /\ AnnounceIfChanged([u \in DOMAIN tasks |->
       IF u = r.task THEN [tasks[u] EXCEPT !.error = r.error] ELSE tasks[u]])
  /\ UNCHANGED <<runs, sched, firing, records, disables, clients, counts, books>>

DisableWithError(t) ==
  /\ t \in disables
  /\ disables' = disables \ {t}
  /\ IF t \in DOMAIN tasks
     THEN Announce([tasks EXCEPT ![t] = [@ EXCEPT !.enabled = FALSE, !.error = TRUE]])
     ELSE UNCHANGED db
  /\ UNCHANGED <<runs, sched, firing, records, reports, clients, counts, books>>

(* A detached write fails: there is a line in the log and nothing else. *)
WriteFails ==
  /\ Fails
  /\ \/ \E t \in Task : /\ records[t] > 0
                        /\ records' = [records EXCEPT ![t] = @ - 1]
                        /\ unpaid' = [unpaid EXCEPT ![t] = @ + 1]
                        /\ UNCHANGED <<reports, disables>>
     \/ \E r \in reports : reports' = reports \ {r} /\ UNCHANGED <<records, disables, unpaid>>
     \/ \E t \in disables : disables' = disables \ {t} /\ UNCHANGED <<records, reports, unpaid>>
  /\ UNCHANGED <<db, runs, sched, firing, clients, balance>>

(* claim_prompt_runs() leases what is pending, once what is due has expired. *)
Claim(R) ==
  /\ R \subseteq runs /\ \E r \in runs \ R : ~r.leased
  /\ IF R = {} THEN UNCHANGED db ELSE AnnounceIfChanged(
       [t \in DOMAIN tasks |-> Decremented(tasks[t], Counted(t, R))])
  /\ runs' = {[r EXCEPT !.leased = TRUE] : r \in runs \ R}
  /\ UNCHANGED <<sched, firing, detached, clients, counts, books>>

Release(r) ==
  /\ r \in runs /\ r.leased
  /\ runs' = (runs \ {r}) \cup {[r EXCEPT !.leased = FALSE]}
  /\ UNCHANGED <<db, sched, firing, detached, clients, counts, books>>

(* complete_prompt_run(): of a run in either state; later it is too late. *)
Complete(r) ==
  /\ r \in runs
  /\ End({r})
  /\ UNCHANGED <<sched, firing, detached, clients, counts, books>>

(* The process ends and starts again.  Records not written yet are lost.     *)
Restart ==
  /\ loop # "recover"
  /\ Happens
  /\ notices' = {} /\ jobs' = NoJobs /\ desired' = NoJobs /\ pending' = FALSE /\ permit' = FALSE
  /\ loop' = "recover" /\ stuck' = {}
  /\ ticks' = {} /\ active' = {} /\ fires' = NoFires
  /\ records' = [t \in Task |-> 0] /\ reports' = {} /\ disables' = {}
  /\ mirror' = None /\ fetch' = [answer |-> None] /\ toggle' = None
  /\ unpaid' = [t \in Task |-> unpaid[t] + records[t]]
  /\ UNCHANGED <<tasks, revision, runs, balance>>

Next ==
  \/ FetchSnapshot \/ FeedFetched \/ LandToggle
  \/ \E s \in notices : Notify(s)
  \/ \E t \in Task : Toggle(t) \/ \E op \in Patches \cup {None} : Edit(t, op)
  \/ Recover \/ RecoverFails \/ Woken \/ Swap \/ ReadTasks \/ ReadFails \/ Reload \/ Restart
  \/ WriteFails
  \/ \E R \in SUBSET runs : Sweep(R) \/ Claim(R)
  \/ \E t \in Task : \/ Tick(t) \/ Fire(t) \/ RunNow(t) \/ Check(t) \/ Missing(t)
                     \/ QueuePrompt(t) \/ QueueFails(t) \/ Queued(t) \/ Execute(t) \/ Record(t)
  \/ \E r \in reports : SetTaskError(r)
  \/ \E t \in disables : DisableWithError(t)
  \/ \E r \in runs : Release(r) \/ Complete(r)

Spec == Init /\ [][Next]_vars

(* Spawned tasks run and notifications are delivered. *)
FairSpec ==
  /\ Spec
  /\ WF_vars(FetchSnapshot) /\ WF_vars(FeedFetched) /\ WF_vars(Recover) /\ WF_vars(Woken) /\ WF_vars(Swap)
  /\ WF_vars(ReadTasks) /\ WF_vars(Reload)
  /\ WF_vars(\E s \in notices : Notify(s))
  /\ \A t \in Task : WF_vars(Record(t))
  /\ WF_vars(\E r \in reports : SetTaskError(r))
  /\ WF_vars(\E t \in disables : DisableWithError(t))

-----------------------------------------------------------------------------
(* At most one prompt run of a task is queued or leased. *)
OneActiveRun == \A r, q \in runs : r.task = q.task => r = q

(* A limit is what it was last set to, less the counted runs that have       *)
(* started since and are not under way, each once: completed, expired by the *)
(* sweep, by a claim or after a restart, released before that or not.  A run *)
(* is not charged only if its detached record could not be written, which is *)
(* no more than a line in the log, or had not been when the process ended.   *)
ChargedOnce ==
  \A t \in DOMAIN tasks : tasks[t].remaining # None =>
    LET left == balance[t] + InFlight(t) + unpaid[t]
    IN  tasks[t].remaining = IF left > 0 THEN left ELSE 0

(* A task never starts more counted runs than its limit grants.  Not so: a   *)
(* tick between the check of one run and its charge starts another.          *)
BudgetKept == \A t \in DOMAIN tasks : balance[t] >= 0 \/ tasks[t].remaining = None

(* The jobs come to be those of the runnable tasks, and the reloads stop;    *)
(* but for a task whose job the last reload could not remove or add, and for *)
(* what had changed when it could not read the tasks: nobody tries again     *)
(* before there is another change.                                           *)
JobsAgree ==
  /\ loop = "select" /\ ~pending
  /\ \A t \in Task \ stuck : Fits(t)
JobsCatchUp == <>[]JobsAgree

=============================================================================
