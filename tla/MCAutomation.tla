---------------------------- MODULE MCAutomation ----------------------------
(* A prompt task with a pinned workspace and a script task that is off at    *)
(* first, each limited to one run. *)
EXTENDS Automation

CONSTANTS p, b

MCRow0 == [t \in Task |->
  [enabled |-> t = p, remaining |-> 1, cron |-> "hourly", error |-> FALSE]]
MCPatches == {[cron |-> "bad"], [remaining |-> 1, enabled |-> TRUE]}
=============================================================================
