------------------------------- MODULE NavTree -------------------------------
(***************************************************************************)
(* amr_nav_tree.xml: the behaviour tree bt_navigator runs for a goal, leaf *)
(* by leaf. The control nodes are those of Nav2 (RecoveryNode, RoundRobin) *)
(* and of the behaviour tree library; any leaf may succeed or fail, and    *)
(* the goal on the blackboard may be replaced while the tree runs.         *)
(***************************************************************************)
EXTENDS Integers

CONSTANTS
  NavigateRetries,      \* number_of_retries of NavigateRecovery
  FollowRetries,        \* number_of_retries of FollowPathRecovery
  Goals, None,
  MaxUpdates            \* bound: how often the goal is replaced

ASSUME TreeAssumption ==
  /\ NavigateRetries \in Nat /\ FollowRetries \in Nat
  /\ MaxUpdates \in Nat /\ None \notin Goals

VARIABLES
  leaf,                 \* the leaf that runs, or "done"
  result,               \* "running", "success", "failure"
  goal, path,           \* blackboard; a path is named by the goal it leads to
  navigateRetry, followRetry,
  round, failed,        \* RoundRobin: current child, children that failed
  seen,                 \* the goal GoalUpdated compares with
  reached,              \* history: the goal the robot stands at
  recoveries, follows,  \* history: recoveries that succeeded, paths followed
  updates

retries == <<navigateRetry, followRetry, round, failed>>
history == <<reached, recoveries, follows, updates>>
vars == <<leaf, result, goal, path, retries, seen, history>>

Recoveries == <<"ClearLocal", "BackUp", "Wait">>
Recovery   == {"ClearLocal", "BackUp", "Wait"}
-----------------------------------------------------------------------------
Init ==
  /\ leaf = "ComputePath" /\ result = "running"
  /\ goal \in Goals /\ path = None
  /\ navigateRetry = 0 /\ followRetry = 0 /\ round = 1 /\ failed = 0
  /\ seen = None /\ reached = None /\ recoveries = 0 /\ follows = 0 /\ updates = 0

End(r) == /\ leaf' = "done" /\ result' = r
          /\ UNCHANGED <<navigateRetry, followRetry, path, round, failed>>

\* NavigateWithPath has failed: replan, or give the goal up
NavigateFails ==
  IF navigateRetry < NavigateRetries
  THEN /\ leaf' = "ReplanClearGlobal" /\ followRetry' = 0
       /\ UNCHANGED <<navigateRetry, result, path, round, failed>>
  ELSE End("failure")

\* A leaf that only leads to the next one.
Step(from, to) ==
  /\ leaf = from
  /\ leaf' = to
  /\ UNCHANGED <<result, goal, path, retries, seen, history>>

Compute(from, to) ==
  /\ leaf = from
  /\ path' = goal
  /\ leaf' = to
  /\ UNCHANGED <<result, goal, retries, seen, history>>

NavigateLeafFails ==
  /\ leaf \in {"ComputePath", "ClearGlobal"}
  /\ NavigateFails
  /\ UNCHANGED <<goal, seen, history>>

FollowSucceeds ==
  /\ leaf = "FollowPath"
  /\ reached' = path /\ follows' = follows + 1
  /\ End("success")
  /\ UNCHANGED <<goal, seen, recoveries, updates>>

\* The recovery starts with GoalUpdated, which takes the goal it finds.
FollowFails ==
  /\ leaf = "FollowPath"
  /\ reached' = None /\ follows' = follows + 1
  /\ IF followRetry < FollowRetries
     THEN /\ leaf' = Recoveries[round] /\ seen' = goal
          /\ UNCHANGED <<result, path, retries>>
     ELSE NavigateFails /\ UNCHANGED seen
  /\ UNCHANGED <<goal, recoveries, updates>>

RecoverySucceeds_free ==                                             \* mutant
  /\ leaf \in Recovery
  /\ leaf' = "FollowPath"
  /\ recoveries' = recoveries + 1
  /\ round' = (round % 3) + 1 /\ failed' = 0
  /\ UNCHANGED <<result, goal, path, navigateRetry, followRetry, seen, reached, follows, updates>>

RecoverySucceeds ==
  /\ leaf \in Recovery
  /\ leaf' = "FollowPath" /\ followRetry' = followRetry + 1
  /\ recoveries' = recoveries + 1
  /\ round' = (round % 3) + 1 /\ failed' = 0
  /\ UNCHANGED <<result, goal, path, navigateRetry, seen, reached, follows, updates>>

RecoveryFails_uncounted ==                                           \* mutant
  /\ leaf \in Recovery
  /\ leaf' = Recoveries[(round % 3) + 1]
  /\ round' = (round % 3) + 1
  /\ UNCHANGED <<result, navigateRetry, followRetry, path, failed, goal, seen, history>>

\* The next child gets its turn, unless all three have failed.
RecoveryFails ==
  /\ leaf \in Recovery
  /\ IF failed < 2
     THEN /\ leaf' = Recoveries[(round % 3) + 1]
          /\ round' = (round % 3) + 1 /\ failed' = failed + 1
          /\ UNCHANGED <<result, navigateRetry, followRetry, path>>
     ELSE /\ round' = 1 /\ failed' = 0
          /\ IF navigateRetry < NavigateRetries
             THEN leaf' = "ReplanClearGlobal" /\ followRetry' = 0 /\ UNCHANGED result
             ELSE leaf' = "done" /\ result' = "failure" /\ UNCHANGED followRetry
          /\ UNCHANGED <<navigateRetry, path>>
  /\ UNCHANGED <<goal, seen, history>>

\* A new goal ends the recovery that runs; RoundRobin is halted.
GoalUpdated ==
  /\ leaf \in Recovery /\ goal # seen
  /\ leaf' = "FollowPath" /\ followRetry' = followRetry + 1
  /\ round' = 1 /\ failed' = 0
  /\ UNCHANGED <<result, goal, path, navigateRetry, seen, history>>

\* ReplanSequence has succeeded: NavigateWithPath is tried again.
ReplanFollowSucceeds ==
  /\ leaf = "ReplanFollow"
  /\ reached' = path /\ follows' = follows + 1
  /\ leaf' = "ComputePath" /\ navigateRetry' = navigateRetry + 1
  /\ UNCHANGED <<result, goal, path, followRetry, round, failed, seen, recoveries, updates>>

ReplanFails ==
  /\ leaf \in {"ReplanClearGlobal", "ReplanClearLocal", "ReplanCompute", "ReplanFollow"}
  /\ reached' = IF leaf = "ReplanFollow" THEN None ELSE reached
  /\ follows' = IF leaf = "ReplanFollow" THEN follows + 1 ELSE follows
  /\ End("failure")
  /\ UNCHANGED <<goal, seen, recoveries, updates>>

\* bt_navigator puts a new goal on the blackboard of the running tree.
NewGoal(g) ==
  /\ leaf # "done" /\ g # goal /\ updates < MaxUpdates
  /\ goal' = g /\ updates' = updates + 1
  /\ UNCHANGED <<leaf, result, path, retries, seen, reached, recoveries, follows>>

Tree == \/ Compute("ComputePath", "ClearGlobal") \/ Step("ClearGlobal", "FollowPath")
        \/ NavigateLeafFails \/ FollowSucceeds \/ FollowFails
        \/ RecoverySucceeds \/ RecoveryFails \/ GoalUpdated
        \/ Step("ReplanClearGlobal", "ReplanClearLocal")
        \/ Step("ReplanClearLocal", "ReplanCompute")
        \/ Compute("ReplanCompute", "ReplanFollow")
        \/ ReplanFollowSucceeds \/ ReplanFails

Next == Tree \/ \E g \in Goals : NewGoal(g)

Spec == Init /\ [][Next]_vars

\* Every leaf ends.
FairSpec == Spec /\ WF_vars(Tree)
-----------------------------------------------------------------------------
(* Properties                                                              *)

TypeOK ==
  /\ leaf \in Recovery \cup {"ComputePath", "ClearGlobal", "FollowPath",
                 "ReplanClearGlobal", "ReplanClearLocal", "ReplanCompute", "ReplanFollow", "done"}
  /\ result \in {"running", "success", "failure"} /\ (leaf = "done") = (result # "running")
  /\ goal \in Goals /\ path \in Goals \cup {None} /\ seen \in Goals \cup {None}
  /\ reached \in Goals \cup {None}
  /\ navigateRetry \in 0 .. NavigateRetries /\ followRetry \in 0 .. FollowRetries
  /\ round \in 1 .. 3 /\ failed \in 0 .. 2
  /\ recoveries \in Nat /\ follows \in Nat /\ updates \in 0 .. MaxUpdates

\* Navigation ends, with success or failure, whatever fails on the way.
Ends == <>(leaf = "done")

\* The steps after the n-th round of NavigateRecovery at most. A round has two to
\* FollowPath, four for each retry of it and one more, and four for the replanning.
laterSteps(n) == (NavigateRetries - n) * (4 * FollowRetries + 7)

\* The steps to the end of the tree at most.
stepsToEnd ==
  LET later  == laterSteps(navigateRetry) + (MaxUpdates - updates)
      follow == 4 * (FollowRetries - followRetry) + 1
  IN  CASE leaf = "ComputePath" -> later + follow + 2
        [] leaf = "ClearGlobal" -> later + follow + 1
        [] leaf = "FollowPath"  -> later + follow
        [] leaf \in Recovery    -> later + follow - 1 - failed
        [] leaf = "ReplanClearGlobal" -> later
        [] leaf = "ReplanClearLocal"  -> later - 1
        [] leaf = "ReplanCompute"     -> later - 2
        [] leaf = "ReplanFollow"      -> later - 3
        [] leaf = "done" -> 0

\* Whatever succeeds, fails or is replaced, each step brings the tree nearer to its end,
\* which is a number of steps away that the numbers of retries add up to: no recovery
\* leads back to where the tree has been.
NearsEnd == [][stepsToEnd' \in Nat /\ stepsToEnd' < stepsToEnd]_vars

\* How much the nested retries can add up to.
WorkBound ==
  /\ follows    <= (NavigateRetries + 1) * (FollowRetries + 1) + NavigateRetries
  /\ recoveries <= (NavigateRetries + 1) * FollowRetries

\* "FollowPath fails -> RecoveryNode (6 times in total at most)"
SixInTotal == recoveries <= FollowRetries

\* "If the goal changes during navigation -> follow the new goal at once"
NewGoalFollowed == result = "success" => reached = goal
=============================================================================
