--------------------------- MODULE PublisherProofs ---------------------------
(***************************************************************************)
(* The three nodes that publish on /cmd_vel, each by itself: the tree of   *)
(* Nav2, keyboard teleoperation and the MQTT bridge.                       *)
(*                                                                         *)
(* None of the properties is inductive. WorkBound says nothing of how much *)
(* of the work is still to come: Budget says for each place in the tree    *)
(* how much has been spent there at most. InterruptStops is about the end  *)
(* of the process: Ended says what is true from destroy_node on, and how   *)
(* ROS can have been shut down. OnlineHasSession is about what the broker  *)
(* has received: Farewell is about what is still on the way to it.         *)
(***************************************************************************)
EXTENDS NavTree, Teleop, MqttBridge, SequenceTheorems, TLAPS
-----------------------------------------------------------------------------
(* The retries of the navigation tree                                       *)

Before  == {"ComputePath", "ClearGlobal"}
Replans == {"ReplanClearGlobal", "ReplanClearLocal", "ReplanCompute", "ReplanFollow"}

\* what the finished rounds of NavigateRecovery have cost
FollowsOf(n)    == n * (FollowRetries + 2)
RecoveriesOf(n) == n * FollowRetries

Budget ==
  /\ leaf \in Before =>
       /\ followRetry = 0
       /\ follows <= FollowsOf(navigateRetry) /\ recoveries <= RecoveriesOf(navigateRetry)
  /\ leaf = "FollowPath" =>
       /\ follows    <= FollowsOf(navigateRetry) + followRetry
       /\ recoveries <= RecoveriesOf(navigateRetry) + followRetry
  /\ leaf \in Recovery =>
       /\ followRetry < FollowRetries
       /\ follows    <= FollowsOf(navigateRetry) + followRetry + 1
       /\ recoveries <= RecoveriesOf(navigateRetry) + followRetry
  /\ leaf \in Replans =>
       /\ followRetry = 0 /\ navigateRetry < NavigateRetries
       /\ follows    <= FollowsOf(navigateRetry) + FollowRetries + 1
       /\ recoveries <= RecoveriesOf(navigateRetry) + FollowRetries
  /\ leaf = "done" =>
       /\ follows    <= FollowsOf(NavigateRetries) + FollowRetries + 1
       /\ recoveries <= RecoveriesOf(NavigateRetries) + FollowRetries

IInv == TypeOK /\ Budget

(* The cost of a number of rounds is a number; another round adds its own. *)
LEMMA Costs ==
  ASSUME NEW n \in Nat
  PROVE  /\ FollowsOf(n) \in Nat /\ RecoveriesOf(n) \in Nat
         /\ FollowsOf(n + 1) = FollowsOf(n) + FollowRetries + 2
         /\ RecoveriesOf(n + 1) = RecoveriesOf(n) + FollowRetries
  BY TreeAssumption DEF FollowsOf, RecoveriesOf

(* More rounds cost more. *)
LEMMA CostsGrow ==
  ASSUME NEW n \in Nat, NEW m \in Nat, n <= m
  PROVE  FollowsOf(n) <= FollowsOf(m) /\ RecoveriesOf(n) <= RecoveriesOf(m)
<1>1. PICK d \in Nat : m = n + d
  <2> WITNESS m - n \in Nat
  <2> QED  OBVIOUS
<1>2. d * (FollowRetries + 2) >= 0 /\ d * FollowRetries >= 0
  BY TreeAssumption
<1>3. /\ m * (FollowRetries + 2) = n * (FollowRetries + 2) + d * (FollowRetries + 2)
      /\ m * FollowRetries = n * FollowRetries + d * FollowRetries
  BY <1>1, TreeAssumption
<1> QED  BY <1>2, <1>3, TreeAssumption DEF FollowsOf, RecoveriesOf

(* The sums of the bound, written with the cost of a round. *)
LEMMA BoundOfCosts ==
  /\ FollowsOf(NavigateRetries) + FollowRetries + 1
       = (NavigateRetries + 1) * (FollowRetries + 1) + NavigateRetries
  /\ RecoveriesOf(NavigateRetries) + FollowRetries = (NavigateRetries + 1) * FollowRetries
  BY TreeAssumption DEF FollowsOf, RecoveriesOf

(* In every state the budget keeps the bound. *)
LEMMA BudgetSuffices == IInv => WorkBound
<1> SUFFICES ASSUME IInv PROVE WorkBound
  OBVIOUS
<1>1. /\ NavigateRetries \in Nat /\ FollowRetries \in Nat
      /\ navigateRetry \in Nat /\ navigateRetry <= NavigateRetries
      /\ followRetry \in Nat /\ followRetry <= FollowRetries
      /\ follows \in Nat /\ recoveries \in Nat
  BY TreeAssumption DEF IInv, TypeOK
<1>2. /\ FollowsOf(navigateRetry) \in Nat /\ RecoveriesOf(navigateRetry) \in Nat
      /\ FollowsOf(NavigateRetries) \in Nat /\ RecoveriesOf(NavigateRetries) \in Nat
      /\ FollowsOf(navigateRetry) <= FollowsOf(NavigateRetries)
      /\ RecoveriesOf(navigateRetry) <= RecoveriesOf(NavigateRetries)
  BY <1>1, Costs, CostsGrow
<1>3. \/ leaf \in Before \/ leaf = "FollowPath" \/ leaf \in Recovery
      \/ leaf \in Replans \/ leaf = "done"
  BY DEF IInv, TypeOK, Before, Replans, Recovery
<1>4. /\ follows    <= FollowsOf(NavigateRetries) + FollowRetries + 1
      /\ recoveries <= RecoveriesOf(NavigateRetries) + FollowRetries
  BY <1>1, <1>2, <1>3 DEF IInv, Budget
<1> QED  BY <1>4, BoundOfCosts DEF WorkBound

(* A tree that starts has spent nothing. *)
LEMMA InitBudget == Init => IInv
<1> SUFFICES ASSUME Init PROVE IInv
  OBVIOUS
<1>1. FollowsOf(0) \in Nat /\ RecoveriesOf(0) \in Nat
  BY Costs
<1> QED  BY <1>1, TreeAssumption DEF Init, IInv, TypeOK, Budget, Before, Replans, Recovery

(* The children of the round robin are the recoveries, and the next one is a child. *)
LEMMA Turns ==
  ASSUME NEW n \in 1 .. 3
  PROVE  Recoveries[n] \in Recovery /\ (n % 3) + 1 \in 1 .. 3
<1>1. n = 1 \/ n = 2 \/ n = 3
  OBVIOUS
<1>2. (n % 3) + 1 \in 1 .. 3
  <2>1. CASE n = 1  BY <2>1
  <2>2. CASE n = 2  BY <2>2
  <2>3. CASE n = 3  BY <2>3
  <2> QED  BY <1>1, <2>1, <2>2, <2>3
<1>3. Recoveries[n] \in Recovery
  BY <1>1 DEF Recoveries, Recovery
<1> QED  BY <1>2, <1>3

(* Every leaf's end, and every new goal, keeps types and budget. *)
LEMMA NextBudget == IInv /\ [Next]_vars => IInv'
<1> SUFFICES ASSUME IInv, [Next]_vars PROVE IInv'
  OBVIOUS
<1> USE TreeAssumption
<1>t. TypeOK /\ Budget
  BY DEF IInv
<1>c. /\ FollowsOf(navigateRetry) \in Nat /\ RecoveriesOf(navigateRetry) \in Nat
      /\ FollowsOf(NavigateRetries) \in Nat /\ RecoveriesOf(NavigateRetries) \in Nat
      /\ FollowsOf(navigateRetry) <= FollowsOf(NavigateRetries)
      /\ RecoveriesOf(navigateRetry) <= RecoveriesOf(NavigateRetries)
  BY <1>t, Costs, CostsGrow DEF TypeOK
<1>n. navigateRetry < NavigateRetries =>
        /\ FollowsOf(navigateRetry + 1) = FollowsOf(navigateRetry) + FollowRetries + 2
        /\ RecoveriesOf(navigateRetry + 1) = RecoveriesOf(navigateRetry) + FollowRetries
        /\ FollowsOf(navigateRetry + 1) <= FollowsOf(NavigateRetries)
        /\ RecoveriesOf(navigateRetry + 1) <= RecoveriesOf(NavigateRetries)
  <2> SUFFICES ASSUME navigateRetry < NavigateRetries
               PROVE  /\ FollowsOf(navigateRetry + 1) = FollowsOf(navigateRetry) + FollowRetries + 2
                      /\ RecoveriesOf(navigateRetry + 1)
                           = RecoveriesOf(navigateRetry) + FollowRetries
                      /\ FollowsOf(navigateRetry + 1) <= FollowsOf(NavigateRetries)
                      /\ RecoveriesOf(navigateRetry + 1) <= RecoveriesOf(NavigateRetries)
    OBVIOUS
  <2>1. navigateRetry \in Nat /\ navigateRetry + 1 \in Nat /\ NavigateRetries \in Nat
    BY <1>t DEF TypeOK
  <2>2. navigateRetry + 1 <= NavigateRetries
    BY <2>1
  <2>3. /\ FollowsOf(navigateRetry + 1) <= FollowsOf(NavigateRetries)
        /\ RecoveriesOf(navigateRetry + 1) <= RecoveriesOf(NavigateRetries)
    BY <2>1, <2>2, CostsGrow, Zenon
  <2> QED  BY <2>1, <2>3, Costs
<1>r. /\ Recoveries[round] \in Recovery /\ (round % 3) + 1 \in 1 .. 3
      /\ Recoveries[(round % 3) + 1] \in Recovery
  BY <1>t, Turns DEF TypeOK
<1>1. CASE Compute("ComputePath", "ClearGlobal")
  BY <1>1, <1>t DEF Compute, TypeOK, IInv, Budget, Before, Replans, Recovery, retries, history
<1>2. CASE Step("ClearGlobal", "FollowPath")
  BY <1>2, <1>t, <1>c DEF Step, TypeOK, IInv, Budget, Before, Replans, Recovery, retries, history
<1>3. CASE NavigateLeafFails
  BY <1>3, <1>t, <1>c DEF NavigateLeafFails, NavigateFails, End, TypeOK, IInv, Budget, Before,
     Replans, Recovery, history
<1>4. CASE FollowSucceeds
  BY <1>4, <1>t, <1>c DEF FollowSucceeds, End, TypeOK, IInv, Budget, Before, Replans, Recovery
<1>5. CASE FollowFails
  <2>1. CASE followRetry < FollowRetries
    BY <1>5, <2>1, <1>t, <1>c, <1>r DEF FollowFails, TypeOK, IInv, Budget, Before, Replans,
       Recovery, retries
  <2>2. CASE ~(followRetry < FollowRetries)
    BY <1>5, <2>2, <1>t, <1>c DEF FollowFails, NavigateFails, End, TypeOK, IInv, Budget, Before,
       Replans, Recovery
  <2> QED  BY <2>1, <2>2
<1>6. CASE RecoverySucceeds
  BY <1>6, <1>t, <1>c, <1>r DEF RecoverySucceeds, TypeOK, IInv, Budget, Before, Replans, Recovery
<1>7. CASE RecoveryFails
  <2>1. CASE failed < 2
    BY <1>7, <2>1, <1>t, <1>c, <1>r DEF RecoveryFails, TypeOK, IInv, Budget, Before, Replans,
       Recovery, history
  <2>2. CASE ~(failed < 2)
    BY <1>7, <2>2, <1>t, <1>c DEF RecoveryFails, TypeOK, IInv, Budget, Before, Replans,
       Recovery, history
  <2> QED  BY <2>1, <2>2
<1>8. CASE GoalUpdated
  BY <1>8, <1>t, <1>c DEF GoalUpdated, TypeOK, IInv, Budget, Before, Replans, Recovery, history
<1>9. CASE Step("ReplanClearGlobal", "ReplanClearLocal")
  BY <1>9, <1>t DEF Step, TypeOK, IInv, Budget, Before, Replans, Recovery, retries, history
<1>10. CASE Step("ReplanClearLocal", "ReplanCompute")
  BY <1>10, <1>t DEF Step, TypeOK, IInv, Budget, Before, Replans, Recovery, retries, history
<1>11. CASE Compute("ReplanCompute", "ReplanFollow")
  BY <1>11, <1>t DEF Compute, TypeOK, IInv, Budget, Before, Replans, Recovery, retries, history
<1>12. CASE ReplanFollowSucceeds
  BY <1>12, <1>t, <1>c, <1>n
  DEF ReplanFollowSucceeds, TypeOK, IInv, Budget, Before, Replans, Recovery
<1>13. CASE ReplanFails
  BY <1>13, <1>t, <1>c, <1>n, Costs DEF ReplanFails, End, TypeOK, IInv, Budget, Before, Replans,
     Recovery
<1>14. CASE \E g \in Goals : NewGoal(g)
  BY <1>14, <1>t DEF NewGoal, TypeOK, IInv, Budget, Before, Replans, Recovery, retries
<1>15. CASE UNCHANGED vars
  BY <1>15, <1>t DEF vars, retries, history, TypeOK, IInv, Budget, Before, Replans, Recovery
<1> QED
  BY <1>1, <1>2, <1>3, <1>4, <1>5, <1>6, <1>7, <1>8, <1>9, <1>10, <1>11, <1>12, <1>13, <1>14,
     <1>15 DEF Next, Tree

(* The tree is always at a leaf it has, and its counters never exceed the  *)
(* numbers of retries the XML gives.                                       *)
THEOREM TreeTyped == Spec => []TypeOK
<1>1. Init => IInv
  BY InitBudget
<1>2. IInv /\ [Next]_vars => IInv'
  BY NextBudget
<1>3. IInv => TypeOK
  BY DEF IInv
<1> QED  BY <1>1, <1>2, <1>3, PTL DEF Spec

(* However leaves fail and goals change, the robot follows a path and      *)
(* recovers only as often as the nested retries add up to.                 *)
THEOREM WorkIsBounded == Spec => []WorkBound
<1>1. Init => IInv
  BY InitBudget
<1>2. IInv /\ [Next]_vars => IInv'
  BY NextBudget
<1>3. IInv => WorkBound
  BY BudgetSuffices
<1> QED  BY <1>1, <1>2, <1>3, PTL DEF Spec

(* A round fewer is worth the steps of a round, and no number of rounds is *)
(* worth less than nothing.                                                *)
LEMMA LaterSteps ==
  ASSUME NEW n \in 0 .. NavigateRetries
  PROVE  /\ laterSteps(n) \in Nat
         /\ n < NavigateRetries => laterSteps(n) = laterSteps(n + 1) + 4 * FollowRetries + 7
<1>1. /\ NavigateRetries - n \in Nat /\ 4 * FollowRetries + 7 \in Nat
      /\ NavigateRetries \in Nat /\ FollowRetries \in Nat
  BY TreeAssumption
<1>2. \A a, b \in Nat : a * b \in Nat
  OBVIOUS
<1>3. laterSteps(n) \in Nat
  BY <1>1, <1>2 DEF laterSteps
<1>4. \A a, b \in Int : a * b = (a - 1) * b + b
  OBVIOUS
<1>5. (NavigateRetries - n) * (4 * FollowRetries + 7)
        = (NavigateRetries - n - 1) * (4 * FollowRetries + 7) + (4 * FollowRetries + 7)
  BY <1>1, <1>4
<1>6. NavigateRetries - n - 1 = NavigateRetries - (n + 1)
  BY <1>1
<1> QED  BY <1>1, <1>3, <1>5, <1>6 DEF laterSteps

(* In every state the steps to the end are a number.                       *)
Counted == stepsToEnd \in Nat

LEMMA StepsCounted == IInv => Counted
<1> SUFFICES ASSUME IInv PROVE stepsToEnd \in Nat
  BY DEF Counted
<1>1. /\ FollowRetries \in Nat /\ MaxUpdates \in Nat /\ NavigateRetries \in Nat
      /\ followRetry \in 0 .. FollowRetries /\ failed \in 0 .. 2 /\ updates \in 0 .. MaxUpdates
      /\ navigateRetry \in 0 .. NavigateRetries
      /\ leaf \in Recovery \cup {"ComputePath", "ClearGlobal", "FollowPath",
                   "ReplanClearGlobal", "ReplanClearLocal", "ReplanCompute", "ReplanFollow", "done"}
      /\ leaf \in Recovery => followRetry < FollowRetries
      /\ leaf \in Replans => navigateRetry < NavigateRetries
  BY TreeAssumption DEF IInv, TypeOK, Budget
<1>2. /\ laterSteps(navigateRetry) \in Nat
      /\ leaf \in Replans => laterSteps(navigateRetry) >= 7
  <2>1. laterSteps(navigateRetry) \in Nat  BY <1>1, LaterSteps
  <2>2. ASSUME leaf \in Replans PROVE laterSteps(navigateRetry) >= 7
    <3>1. /\ laterSteps(navigateRetry) = laterSteps(navigateRetry + 1) + 4 * FollowRetries + 7
          /\ navigateRetry + 1 \in 0 .. NavigateRetries
      BY <1>1, <2>2, LaterSteps
    <3>2. laterSteps(navigateRetry + 1) \in Nat  BY <3>1, LaterSteps
    <3> QED  BY <1>1, <3>1, <3>2
  <2> QED  BY <2>1, <2>2
<1>3. FollowRetries - followRetry \in Nat /\ MaxUpdates - updates \in Nat
  BY <1>1
<1>4. CASE leaf \in Recovery
  BY <1>1, <1>2, <1>3, <1>4 DEF stepsToEnd, Recovery
<1>5. CASE leaf \in Replans
  BY <1>1, <1>2, <1>3, <1>5 DEF stepsToEnd, Recovery, Replans
<1>6. CASE leaf \notin Recovery \cup Replans
  BY <1>1, <1>2, <1>3, <1>6 DEF stepsToEnd, Recovery, Replans
<1> QED  BY <1>4, <1>5, <1>6

(* Every leaf's end, and every new goal, is at least one step nearer.      *)
LEMMA StepNears == IInv /\ Next => stepsToEnd' < stepsToEnd
<1> SUFFICES ASSUME IInv, Next PROVE stepsToEnd' < stepsToEnd
  OBVIOUS
<1>t. /\ NavigateRetries \in Nat /\ FollowRetries \in Nat /\ MaxUpdates \in Nat
      /\ navigateRetry \in 0 .. NavigateRetries /\ followRetry \in 0 .. FollowRetries
      /\ failed \in 0 .. 2 /\ updates \in 0 .. MaxUpdates
      /\ leaf \in Before => followRetry = 0
      /\ leaf \in Recovery => followRetry < FollowRetries
      /\ leaf \in Replans => followRetry = 0 /\ navigateRetry < NavigateRetries
  BY TreeAssumption DEF IInv, TypeOK, Budget
<1>l. /\ laterSteps(navigateRetry) \in Nat
      /\ navigateRetry < NavigateRetries
           => /\ laterSteps(navigateRetry)
                   = laterSteps(navigateRetry + 1) + 4 * FollowRetries + 7
              /\ laterSteps(navigateRetry + 1) \in Nat
  <2>1. navigateRetry < NavigateRetries => navigateRetry + 1 \in 0 .. NavigateRetries
    BY <1>t
  <2> QED  BY <1>t, <2>1, LaterSteps
<1>r. Recoveries[round] \in Recovery /\ Recoveries[(round % 3) + 1] \in Recovery
  BY Turns DEF IInv, TypeOK
<1> USE DEF stepsToEnd, Before, Replans, Recovery
<1>1. CASE Compute("ComputePath", "ClearGlobal")
  BY <1>1, <1>t, <1>l DEF Compute, retries, history
<1>2. CASE Step("ClearGlobal", "FollowPath")
  BY <1>2, <1>t, <1>l DEF Step, retries, history
<1>3. CASE NavigateLeafFails
  BY <1>3, <1>t, <1>l DEF NavigateLeafFails, NavigateFails, End, history
<1>4. CASE FollowSucceeds
  BY <1>4, <1>t, <1>l DEF FollowSucceeds, End
<1>5. CASE FollowFails
  <2>1. CASE followRetry < FollowRetries
    BY <1>5, <2>1, <1>t, <1>l, <1>r DEF FollowFails, retries
  <2>2. CASE ~(followRetry < FollowRetries)
    BY <1>5, <2>2, <1>t, <1>l DEF FollowFails, NavigateFails, End
  <2> QED  BY <2>1, <2>2
<1>6. CASE RecoverySucceeds
  BY <1>6, <1>t, <1>l DEF RecoverySucceeds
<1>7. CASE RecoveryFails
  <2>1. CASE failed < 2
    BY <1>7, <2>1, <1>t, <1>l, <1>r DEF RecoveryFails, history
  <2>2. CASE ~(failed < 2)
    BY <1>7, <2>2, <1>t, <1>l DEF RecoveryFails, history
  <2> QED  BY <2>1, <2>2
<1>8. CASE GoalUpdated
  BY <1>8, <1>t, <1>l DEF GoalUpdated, history
<1>9. CASE Step("ReplanClearGlobal", "ReplanClearLocal")
  BY <1>9, <1>t, <1>l DEF Step, retries, history
<1>10. CASE Step("ReplanClearLocal", "ReplanCompute")
  BY <1>10, <1>t, <1>l DEF Step, retries, history
<1>11. CASE Compute("ReplanCompute", "ReplanFollow")
  BY <1>11, <1>t, <1>l DEF Compute, retries, history
<1>12. CASE ReplanFollowSucceeds
  BY <1>12, <1>t, <1>l DEF ReplanFollowSucceeds
<1>13. CASE ReplanFails
  BY <1>13, <1>t, <1>l DEF ReplanFails, End
<1>14. ASSUME NEW g \in Goals, NewGoal(g) PROVE stepsToEnd' < stepsToEnd
  BY <1>14, <1>t, <1>l DEF NewGoal, retries, IInv, TypeOK
<1> QED
  BY <1>1, <1>2, <1>3, <1>4, <1>5, <1>6, <1>7, <1>8, <1>9, <1>10, <1>11, <1>12, <1>13, <1>14
  DEF Next, Tree

(* Whatever succeeds, fails or is replaced: the tree is a number of steps  *)
(* from its end that its numbers of retries add up to, and each step takes *)
(* off at least one. If its leaves go on ending, so does the tree.         *)
THEOREM TreeNearsEnd == Spec => NearsEnd
<1>1. Init => IInv
  BY InitBudget
<1>2. IInv /\ [Next]_vars => IInv'
  BY NextBudget
<1>3. IInv => Counted
  BY StepsCounted
<1>4. IInv /\ Counted' /\ [Next]_vars
        => [stepsToEnd' \in Nat /\ stepsToEnd' < stepsToEnd]_vars
  BY StepNears DEF Counted
<1> QED  BY <1>1, <1>2, <1>3, <1>4, PTL DEF Spec, NearsEnd
-----------------------------------------------------------------------------
(* The end of teleoperation                                                *)

\* ROS is shut down by Q or at the very end, and after the zero velocity of
\* destroy_node the timer does not run any more. The test of ok in destroy_node
\* makes the first part necessary: it skips the zero when ROS is down.
Ended ==
  /\ ok \in BOOLEAN
  /\ ~ok => quit \/ main = "gone"
  /\ main \in {"stopped", "gone"} /\ ~quit => cmdVel = Stop

LEMMA EndedInit == TeleopInit => Ended
  BY DEF TeleopInit, Ended

LEMMA EndedNext == Ended /\ [TeleopNext]_teleopVars => Ended'
  <1> SUFFICES ASSUME Ended, [TeleopNext]_teleopVars
               PROVE  Ended'
    OBVIOUS
  <1> USE DEF Ended, mainVars, keyboardVars
  <1>1. CASE Loop  BY <1>1 DEF Loop
  <1>2. CASE Lock  BY <1>2 DEF Lock
  <1>3. CASE StoreKey  BY <1>3 DEF StoreKey
  <1>4. CASE Quit  BY <1>4 DEF Quit
  <1>5. ASSUME NEW c \in Moves \cup {Stop, "QUIT"}, get_key(c)
        PROVE  Ended'
    BY <1>5 DEF get_key
  <1>6. CASE Timer  BY <1>6 DEF Timer
  <1>7. CASE ReadKey  BY <1>7 DEF ReadKey
  <1>8. CASE _publish  BY <1>8 DEF _publish
  <1>9. CASE SpinEnds  BY <1>9 DEF SpinEnds
  <1>10. CASE destroy_node  BY <1>10 DEF destroy_node
  <1>11. CASE Exit  BY <1>11 DEF Exit
  <1>12. CASE Interrupt  BY <1>12 DEF Interrupt
  <1>13. CASE UNCHANGED teleopVars  BY <1>13 DEF teleopVars
  <1> QED
    BY <1>1, <1>2, <1>3, <1>4, <1>5, <1>6, <1>7, <1>8, <1>9, <1>10, <1>11, <1>12, <1>13
    DEF TeleopNext, Keyboard, Main

\* However the interrupt falls between the two threads, the last word of an
\* interrupted teleoperation is the zero velocity.
THEOREM InterruptLeavesZero == TeleopSpec => []InterruptStops
  <1>1. Ended => InterruptStops  BY DEF Ended, InterruptStops
  <1> QED  BY <1>1, EndedInit, EndedNext, PTL DEF TeleopSpec

\* The variables of teleoperation keep their types: what is published is a key that
\* moves the robot or the zero velocity, never the one that quits.
THEOREM TeleopTyped == TeleopSpec => []TeleopTypeOK
  <1> USE DEF TeleopTypeOK, Keys, mainVars, keyboardVars
  <1>1. TeleopInit => TeleopTypeOK  BY DEF TeleopInit
  <1>2. TeleopTypeOK /\ [TeleopNext]_teleopVars => TeleopTypeOK'
    <2> SUFFICES ASSUME TeleopTypeOK, [TeleopNext]_teleopVars
                 PROVE  TeleopTypeOK'
      OBVIOUS
    <2>1. CASE Loop  BY <2>1 DEF Loop
    <2>2. CASE Lock  BY <2>2 DEF Lock
    <2>3. CASE StoreKey  BY <2>3 DEF StoreKey
    <2>4. CASE Quit  BY <2>4 DEF Quit
    <2>5. ASSUME NEW c \in Moves \cup {Stop, "QUIT"}, get_key(c)
          PROVE  TeleopTypeOK'
      BY <2>5 DEF get_key
    <2>6. CASE Timer  BY <2>6 DEF Timer
    <2>7. CASE ReadKey  BY <2>7 DEF ReadKey
    <2>8. CASE _publish  BY <2>8 DEF _publish
    <2>9. CASE SpinEnds  BY <2>9 DEF SpinEnds
    <2>10. CASE destroy_node  BY <2>10 DEF destroy_node
    <2>11. CASE Exit  BY <2>11 DEF Exit
    <2>12. CASE Interrupt  BY <2>12 DEF Interrupt
    <2>13. CASE UNCHANGED teleopVars  BY <2>13 DEF teleopVars
    <2> QED
      BY <2>1, <2>2, <2>3, <2>4, <2>5, <2>6, <2>7, <2>8, <2>9, <2>10, <2>11, <2>12, <2>13
      DEF TeleopNext, Keyboard, Main
  <1> QED  BY <1>1, <1>2, PTL DEF TeleopSpec

\* From Q on ROS is down, the timer is to stop, and the keyboard thread has ended and
\* holds no lock.
Winding == quit => keyboard = "done" /\ ~ok /\ ~_run /\ _lock = "nobody"

LEMMA WindingInit == TeleopInit => Winding
  BY DEF TeleopInit, Winding

LEMMA WindingNext == Winding /\ [TeleopNext]_teleopVars => Winding'
  <1> SUFFICES ASSUME Winding, [TeleopNext]_teleopVars
               PROVE  Winding'
    OBVIOUS
  <1> USE DEF Winding, mainVars, keyboardVars
  <1>1. CASE Loop  BY <1>1 DEF Loop
  <1>2. CASE Lock  BY <1>2 DEF Lock
  <1>3. CASE StoreKey  BY <1>3 DEF StoreKey
  <1>4. CASE Quit  BY <1>4 DEF Quit
  <1>5. ASSUME NEW c \in Moves \cup {Stop, "QUIT"}, get_key(c)
        PROVE  Winding'
    BY <1>5 DEF get_key
  <1>6. CASE Main
    BY <1>6 DEF Main, Timer, ReadKey, _publish, SpinEnds, destroy_node, Exit
  <1>7. CASE Interrupt  BY <1>7 DEF Interrupt
  <1>8. CASE UNCHANGED teleopVars  BY <1>8 DEF teleopVars
  <1> QED
    BY <1>1, <1>2, <1>3, <1>4, <1>5, <1>6, <1>7, <1>8 DEF TeleopNext, Keyboard

\* After Q only the main thread steps, and each of its steps is one of its last.
LEMMA LastSteps ==
  ASSUME Winding, TeleopNext, quit
  PROVE  cmdVel' = cmdVel /\ stepsToExit' < stepsToExit
  <1>1. keyboard = "done" /\ ~ok /\ ~_run  BY DEF Winding
  <1>2. ~Keyboard
    BY <1>1 DEF Keyboard, Loop, Lock, StoreKey, Quit, get_key
  <1>3. CASE ReadKey  BY <1>3 DEF ReadKey, stepsToExit
  <1>4. CASE _publish  BY <1>1, <1>4 DEF _publish, stepsToExit
  <1>5. CASE SpinEnds  BY <1>5 DEF SpinEnds, stepsToExit
  <1>6. CASE destroy_node  BY <1>1, <1>6 DEF destroy_node, stepsToExit
  <1>7. CASE Exit  BY <1>7 DEF Exit, stepsToExit
  <1>8. CASE Interrupt  BY <1>8 DEF Interrupt, stepsToExit
  <1>9. ~Timer  BY <1>1 DEF Timer
  <1> QED
    BY <1>2, <1>3, <1>4, <1>5, <1>6, <1>7, <1>8, <1>9 DEF TeleopNext, Main

\* From Q on the timer is never kept waiting for the lock, nothing is published, and
\* the node is at most three steps from its end, each of which brings it nearer.
THEOREM QuitEnds == TeleopSpec => QuitWindsDown
  <1>1. Winding => (quit => _lock = "nobody")  BY DEF Winding
  <1>2. Winding /\ [TeleopNext]_teleopVars
          => [quit => cmdVel' = cmdVel /\ stepsToExit' < stepsToExit]_teleopVars
    BY LastSteps
  <1> QED
    BY <1>1, <1>2, WindingInit, WindingNext, PTL DEF TeleopSpec, QuitWindsDown
-----------------------------------------------------------------------------
(* The MQTT bridge and its identity at the broker                           *)

\* Once everything in s has been received, the identity is not online.
Revoked(id, s) ==
  /\ id = "online" => \E j \in DOMAIN s : s[j] = "offline"
  /\ \A i \in DOMAIN s : s[i] = "online" => \E j \in DOMAIN s : j > i /\ s[j] = "offline"

\* disconnect is under way.
Closing(s) == \E i \in DOMAIN s : s[i] = "disconnect"

\* Where the two threads may be, given the socket and the flag.
Threads ==
  /\ net \in {"none", "wait", "opening", "acked", "flagged", "announced", "idle"}
  /\ net \in {"none", "wait"} => ~sock
  /\ node \in {"checked", "offline", "stopping"} => net # "none"
  /\ node \in {"stopping", "gone"} => ~sock
  /\ node = "gone" => net = "none"
  /\ node # "gone" => (_connected <=> net \in {"flagged", "announced", "idle"})
  /\ session = "live" /\ ~sock => node \in {"stopping", "gone"}
  /\ net = "opening" => session # "live" /\ (sock => sent = <<>>)

\* disconnect is the last packet of a connection.
FinalPacket ==
  /\ sent \in Seq(Packets)
  /\ sock => ~Closing(sent)
  /\ \A i \in DOMAIN sent : sent[i] = "disconnect" => i = Len(sent)

\* On the way to a connection, and to the end of one, online is revoked.
Farewell ==
  ~overlap => /\ session = "none" => identity # "online"
              /\ net = "acked" /\ sock => Revoked(identity, sent)
              /\ node = "offline" /\ sock /\ net # "opening" => Revoked(identity, sent)
              /\ session = "live" /\ Closing(sent) => Revoked(identity, sent)

\* A packet behind others.
LEMMA Appended ==
  ASSUME NEW s \in Seq(Packets), NEW p \in Packets, ~Closing(s)
  PROVE  /\ Append(s, p) \in Seq(Packets)
         /\ p # "disconnect" => ~Closing(Append(s, p))
         /\ \A i \in DOMAIN Append(s, p) : Append(s, p)[i] = "disconnect" => i = Len(Append(s, p))
  BY DEF Closing

\* What revokes online still does so with another packet behind it.
LEMMA AppendRevokes ==
  ASSUME NEW s \in Seq(Packets), NEW id, NEW p \in Packets \ {"online"},
         Revoked(id, s) \/ p = "offline"
  PROVE  Revoked(id, Append(s, p))
<1> DEFINE t == Append(s, p)
<1>1. /\ Len(t) = Len(s) + 1 /\ DOMAIN t = 1 .. Len(s) + 1 /\ t[Len(s) + 1] = p
      /\ \A i \in 1 .. Len(s) : t[i] = s[i]
  OBVIOUS
<1>2. DOMAIN s = 1 .. Len(s) /\ Len(s) \in Nat  OBVIOUS
<1> HIDE DEF t
<1>3. CASE p = "offline"
  <2>1. Len(s) + 1 \in DOMAIN t /\ t[Len(s) + 1] = "offline"  BY <1>1, <1>2, <1>3
  <2>2. ASSUME NEW i \in DOMAIN t, t[i] = "online" PROVE Len(s) + 1 > i
    BY <1>1, <1>2, <1>3, <2>2
  <2> QED BY <2>1, <2>2 DEF Revoked, t
<1>4. CASE Revoked(id, s)
  <2>1. id = "online" => \E j \in DOMAIN t : t[j] = "offline"
    BY <1>1, <1>2, <1>4 DEF Revoked
  <2>2. ASSUME NEW i \in DOMAIN t, t[i] = "online"
        PROVE  \E j \in DOMAIN t : j > i /\ t[j] = "offline"
    <3>1. i \in DOMAIN s /\ s[i] = "online"  BY <1>1, <1>2, <2>2
    <3>2. PICK j \in DOMAIN s : j > i /\ s[j] = "offline"  BY <1>4, <3>1 DEF Revoked
    <3> QED BY <1>1, <1>2, <3>2
  <2> QED BY <2>1, <2>2 DEF Revoked, t
<1> QED BY <1>3, <1>4

\* The broker takes the first packet.
LEMMA Received ==
  ASSUME NEW s \in Seq(Packets), s # <<>>,
         \A i \in DOMAIN s : s[i] = "disconnect" => i = Len(s), NEW id
  PROVE  LET p == Head(s)
         IN  /\ p \in Packets /\ Tail(s) \in Seq(Packets)
             /\ Closing(Tail(s)) => Closing(s)
             /\ \A i \in DOMAIN Tail(s) : Tail(s)[i] = "disconnect" => i = Len(Tail(s))
             /\ Revoked(id, s) => Revoked(IF p \in {"online", "offline"} THEN p ELSE id, Tail(s))
             /\ p = "disconnect" => Closing(s) /\ (Revoked(id, s) => id # "online")
<1> DEFINE t == Tail(s)
           p == Head(s)
<1>1. /\ p = s[1] /\ p \in Packets /\ t \in Seq(Packets) /\ Len(t) = Len(s) - 1
      /\ \A i \in 1 .. Len(s) - 1 : t[i] = s[i + 1]
  OBVIOUS
<1>2. Len(s) \in Nat \ {0} /\ DOMAIN s = 1 .. Len(s) /\ DOMAIN t = 1 .. Len(s) - 1
  <2>1. DOMAIN t = 1 .. Len(t)  BY <1>1
  <2> QED BY <1>1, <2>1
<1> HIDE DEF t, p
<1>3. Closing(t) => Closing(s)
  <2> SUFFICES ASSUME NEW i \in DOMAIN t, t[i] = "disconnect" PROVE Closing(s)
    BY DEF Closing
  <2>1. i + 1 \in DOMAIN s /\ s[i + 1] = "disconnect"  BY <1>1, <1>2
  <2> QED BY <2>1 DEF Closing
<1>4. ASSUME NEW i \in DOMAIN t, t[i] = "disconnect" PROVE i = Len(t)
  <2>1. i + 1 \in DOMAIN s /\ s[i + 1] = "disconnect"  BY <1>1, <1>2, <1>4
  <2>2. i + 1 = Len(s)  BY <2>1
  <2> QED BY <1>1, <1>2, <2>2
<1>5. ASSUME Revoked(id, s)
      PROVE  Revoked(IF p \in {"online", "offline"} THEN p ELSE id, t)
  <2>1. ASSUME NEW j \in DOMAIN s, j > 1, s[j] = "offline"
        PROVE  j - 1 \in DOMAIN t /\ t[j - 1] = "offline"
    <3>1. j - 1 \in 1 .. Len(s) - 1 /\ (j - 1) + 1 = j  BY <1>2, <2>1
    <3> QED BY <1>1, <1>2, <2>1, <3>1
  <2>2. ASSUME p = "online" \/ (id = "online" /\ p # "offline")
        PROVE  \E j \in DOMAIN t : t[j] = "offline"
    <3>1. \E j \in DOMAIN s : j > 1 /\ s[j] = "offline"
      <4>1. CASE p = "online"
        <5>1. 1 \in DOMAIN s /\ s[1] = "online"  BY <1>1, <1>2, <4>1
        <5> QED BY <1>5, <5>1 DEF Revoked
      <4>2. CASE id = "online" /\ p # "offline"
        <5>1. PICK j \in DOMAIN s : s[j] = "offline"  BY <1>5, <4>2 DEF Revoked
        <5>2. j # 1  BY <1>1, <4>2, <5>1
        <5>3. j > 1  BY <1>2, <5>2
        <5> QED BY <5>1, <5>3
      <4> QED BY <2>2, <4>1, <4>2
    <3> QED BY <2>1, <3>1
  <2>3. ASSUME NEW i \in DOMAIN t, t[i] = "online"
        PROVE  \E j \in DOMAIN t : j > i /\ t[j] = "offline"
    <3>1. i + 1 \in DOMAIN s /\ s[i + 1] = "online" /\ i \in Nat  BY <1>1, <1>2, <2>3
    <3>2. PICK j \in DOMAIN s : j > i + 1 /\ s[j] = "offline"  BY <1>5, <3>1 DEF Revoked
    <3>3. j > 1 /\ j - 1 > i  BY <1>2, <3>1, <3>2
    <3> QED BY <2>1, <3>2, <3>3
  <2> QED BY <2>2, <2>3 DEF Revoked
<1>6. ASSUME p = "disconnect" PROVE Closing(s) /\ (Revoked(id, s) => id # "online")
  <2>1. 1 \in DOMAIN s /\ s[1] = "disconnect"  BY <1>1, <1>2, <1>6
  <2>2. Len(s) = 1  BY <2>1
  <2>3. ASSUME Revoked(id, s), id = "online" PROVE FALSE
    <3>1. PICK j \in DOMAIN s : s[j] = "offline"  BY <2>3 DEF Revoked
    <3>2. j = 1  BY <1>2, <2>2, <3>1
    <3> QED BY <2>1, <3>1, <3>2
  <2> QED BY <2>1, <2>3 DEF Closing
<1> QED BY <1>1, <1>3, <1>4, <1>5, <1>6 DEF t, p

\* The invariant of the bridge and its broker.
BridgeInv == Threads /\ FinalPacket /\ Farewell

\* Nothing is connected at first.
LEMMA BridgeStarts == BridgeInit => BridgeInv
  BY DEF BridgeInit, BridgeInv, Threads, FinalPacket, Farewell, Closing, Revoked

\* Steps that leave the packets, the broker's view and the history alone.
still == <<sent, session, identity, overlap>>

\* They may move the threads on, but into no place Farewell speaks of.
LEMMA StillKeeps ==
  ASSUME BridgeInv, UNCHANGED still, Threads', sock' => sock,
         net' = "acked" => net = "acked",
         node' = "offline" /\ sock' /\ net' # "opening" => node = "offline" /\ net # "opening"
  PROVE  BridgeInv'
<1>1. FinalPacket'  BY DEF BridgeInv, FinalPacket, still, Closing
<1>2. Farewell'  BY DEF BridgeInv, Farewell, still, Closing, Revoked
<1> QED BY <1>1, <1>2 DEF BridgeInv

\* Steps of the two threads that send nothing.
LEMMA QuietKeeps ==
  ASSUME BridgeInv, \/ _connect_once \/ DestroyTest \/ DestroyStop
                    \/ OnConnectFlag \/ OnConnectRefused \/ _on_disconnect
                    \/ _on_message
  PROVE  BridgeInv'
<1> USE DEF others, broker, client, running, still, BridgeInv, Threads
<1>1. CASE _connect_once
  <2>1. Threads'  BY <1>1 DEF _connect_once
  <2> QED BY <1>1, <2>1, StillKeeps DEF _connect_once
<1>2. CASE DestroyTest
  <2>1. Threads'  BY <1>2 DEF DestroyTest
  <2> QED BY <1>2, <2>1, StillKeeps DEF DestroyTest
<1>3. CASE DestroyStop
  <2>1. Threads'  BY <1>3 DEF DestroyStop, InOnConnect
  <2> QED BY <1>3, <2>1, StillKeeps DEF DestroyStop
<1>4. CASE OnConnectFlag
  <2>1. Threads'  BY <1>4 DEF OnConnectFlag
  <2> QED BY <1>4, <2>1, StillKeeps DEF OnConnectFlag
<1>5. CASE OnConnectRefused
  <2>1. Threads'  BY <1>5 DEF OnConnectRefused
  <2> QED BY <1>5, <2>1, StillKeeps DEF OnConnectRefused
<1>6. CASE _on_disconnect
  <2>1. Threads'  BY <1>6 DEF _on_disconnect
  <2> QED BY <1>6, <2>1, StillKeeps DEF _on_disconnect
<1>7. CASE _on_message
  <2>1. Threads'  BY <1>7 DEF _on_message
  <2> QED BY <1>7, <2>1, StillKeeps DEF _on_message
<1> QED BY <1>1, <1>2, <1>3, <1>4, <1>5, <1>6, <1>7

\* The network comes back, and commands.
LEMMA NetworkKeeps ==
  ASSUME BridgeInv, \/ LinkReturns \/ (\E c \in Commands : Command(c))
                    \/ UNCHANGED bridgeVars
  PROVE  BridgeInv'
<1>1. UNCHANGED <<node, net, _connected, sock, sent, session, identity, overlap>>
  BY DEF LinkReturns, Command, bridge, broker, client,
     bridgeVars
<1>2. Threads'  BY <1>1 DEF BridgeInv, Threads
<1> QED BY <1>1, <1>2, StillKeeps DEF still

\* A connection that is lost leaves a stale session, with its last will.
LEMMA LostKeeps ==
  ASSUME BridgeInv, LinkBreaks \/ Kill \/ ExitLost
  PROVE  BridgeInv'
<1>1. /\ ~sock' /\ sent' = <<>> /\ session' # "live" /\ (session' = "none" => session = "none")
      /\ identity' = identity /\ overlap' = overlap
  BY DEF LinkBreaks, Kill, ExitLost, Lost, bridge, broker
<1>2. \/ node' = "gone" /\ net' = "none"
      \/ UNCHANGED <<node, net, _connected>>
  BY DEF LinkBreaks, Kill, ExitLost, bridge, client
<1>3. Threads'  BY <1>1, <1>2 DEF BridgeInv, Threads
<1>4. FinalPacket'  BY <1>1 DEF FinalPacket, Closing
<1>5. Farewell'  BY <1>1 DEF BridgeInv, Farewell
<1> QED BY <1>3, <1>4, <1>5 DEF BridgeInv

\* A new connection, and a new process.
LEMMA StartKeeps ==
  ASSUME BridgeInv, Reconnect \/ Restart
  PROVE  BridgeInv'
<1>1. /\ sent' = <<>> /\ session' = session /\ identity' = identity /\ overlap' = overlap
      /\ session # "live"
  BY DEF Reconnect, Restart, others, broker, BridgeInv, Threads
<1>2. Threads'
  BY <1>1 DEF Reconnect, Restart, others, client, BridgeInv, Threads
<1>3. FinalPacket'  BY <1>1 DEF FinalPacket, Closing
<1>4. (net' = "opening" \/ ~sock') /\ net' # "acked"
  BY DEF Reconnect, Restart, BridgeInv, Threads
<1>5. Farewell'  BY <1>1, <1>4 DEF BridgeInv, Farewell
<1> QED BY <1>2, <1>3, <1>5 DEF BridgeInv


\* What the threads send.
LEMMA SendKeeps ==
  ASSUME BridgeInv, NEW p \in Packets \ {"online"}, Send(p),
         sock' => sock /\ p # "disconnect"
  PROVE  /\ FinalPacket'
         /\ Revoked(identity, sent) \/ (p = "offline" /\ sock) => Revoked(identity, sent')
         /\ Closing(sent') => Closing(sent) \/ (p = "disconnect" /\ sock)
<1>1. CASE sock
  <2>1. sent \in Seq(Packets) /\ ~Closing(sent)  BY <1>1 DEF BridgeInv, FinalPacket
  <2>2. sent' = Append(sent, p)  BY <1>1 DEF Send
  <2>3. FinalPacket'  BY <2>1, <2>2, Appended DEF FinalPacket
  <2>4. Closing(sent') => p = "disconnect"  BY <2>1, <2>2, Appended
  <2>5. Revoked(identity, sent) \/ p = "offline" => Revoked(identity, sent')
    BY <2>1, <2>2, AppendRevokes
  <2> QED BY <1>1, <2>3, <2>4, <2>5
<1>2. CASE ~sock
  <2>1. sent' = sent  BY <1>2 DEF Send
  <2>2. FinalPacket'  BY <1>2, <2>1 DEF BridgeInv, FinalPacket, Closing
  <2> QED BY <1>2, <2>1, <2>2
<1> QED BY <1>1, <1>2

\* destroy_node says offline, if it is connected.
LEMMA OfflineKeeps == ASSUME BridgeInv, DestroyOffline PROVE BridgeInv'
<1>1. /\ node = "checked" /\ node' = "offline"
      /\ UNCHANGED <<net, _connected, sock, session, identity, overlap>>
      /\ IF _connected THEN Send("offline") ELSE sent' = sent
  BY DEF DestroyOffline, client, broker
<1>2. Threads'
  <2>1. net = "opening" /\ sock => sent' = <<>>
    BY <1>1 DEF BridgeInv, Threads
  <2> QED BY <1>1, <2>1 DEF BridgeInv, Threads
<1>3. CASE _connected
  <2>1. "offline" \in Packets \ {"online"} /\ Send("offline")  BY <1>1, <1>3 DEF Packets
  <2>2. /\ FinalPacket'
        /\ Revoked(identity, sent) \/ sock => Revoked(identity, sent')
        /\ Closing(sent') => Closing(sent)
    BY <1>1, <2>1, SendKeeps
  <2>3. Farewell'  BY <1>1, <2>2 DEF BridgeInv, Farewell
  <2> QED BY <1>2, <2>2, <2>3 DEF BridgeInv
<1>4. CASE ~_connected
  <2>1. sent' = sent  BY <1>1, <1>4
  <2>0. sock /\ net # "opening" => net = "acked"
    <3>1. net \notin {"none", "wait"} \/ ~sock  BY DEF BridgeInv, Threads
    <3> QED BY <1>1, <1>4, <3>1 DEF BridgeInv, Threads
  <2>2. FinalPacket'  BY <1>1, <2>1 DEF BridgeInv, FinalPacket, Closing
  <2>3. Farewell'  BY <1>1, <2>0, <2>1 DEF BridgeInv, Farewell
  <2> QED BY <1>2, <2>2, <2>3 DEF BridgeInv
<1> QED BY <1>3, <1>4

\* disconnect follows offline, or a connection without an online.
LEMMA DisconnectKeeps == ASSUME BridgeInv, DestroyDisconnect PROVE BridgeInv'
<1>1. /\ node = "offline" /\ node' = "stopping" /\ sock' = FALSE
      /\ UNCHANGED <<net, _connected, session, identity, overlap>>
      /\ Send("disconnect")
  BY DEF DestroyDisconnect, client, broker
<1>2. Threads'  BY <1>1 DEF BridgeInv, Threads
<1>3. "disconnect" \in Packets \ {"online"}  BY DEF Packets
<1>4. /\ FinalPacket' /\ (Revoked(identity, sent) => Revoked(identity, sent'))
      /\ Closing(sent') => Closing(sent) \/ sock
  BY <1>1, <1>3, SendKeeps
<1>5. net = "opening" => session # "live"  BY DEF BridgeInv, Threads
<1>6. Farewell'  BY <1>1, <1>4, <1>5 DEF BridgeInv, Farewell
<1> QED BY <1>2, <1>4, <1>6 DEF BridgeInv

\* on_connect says online, in time or as an overlap.
LEMMA IdentityKeeps == ASSUME BridgeInv, OnConnectIdentity PROVE BridgeInv'
<1>1. /\ net = "flagged" /\ net' = "announced" /\ Send("online")
      /\ overlap' = (overlap \/ node # "spin")
      /\ UNCHANGED <<node, _connected, sock, session, identity>>
  BY DEF OnConnectIdentity, client, broker
<1>2. Threads'  BY <1>1 DEF BridgeInv, Threads
<1>3. FinalPacket' /\ (Closing(sent') => Closing(sent)) /\ (~sock => sent' = sent)
  <2>1. CASE sock
    <3>1. sent' = Append(sent, "online") /\ "online" \in Packets
      BY <1>1, <2>1 DEF Send, Packets
    <3>2. sent \in Seq(Packets) /\ ~Closing(sent)  BY <2>1 DEF BridgeInv, FinalPacket
    <3>3. /\ sent' \in Seq(Packets) /\ ~Closing(sent')
          /\ \A i \in DOMAIN sent' : sent'[i] = "disconnect" => i = Len(sent')
      BY <3>1, <3>2, Appended
    <3> QED BY <2>1, <3>3 DEF FinalPacket
  <2>2. CASE ~sock
    <3>1. sent' = sent  BY <1>1, <2>2 DEF Send
    <3> QED BY <1>1, <2>2, <3>1 DEF BridgeInv, FinalPacket, Closing
  <2> QED BY <2>1, <2>2
<1>4. Farewell'
  <2> SUFFICES ASSUME ~overlap' PROVE Farewell'  BY DEF Farewell
  <2>1. ~overlap /\ node = "spin" /\ node' = "spin"  BY <1>1
  <2>2. ~(session' = "live" /\ Closing(sent'))
    <3>1. session = "live" => sock  BY <2>1 DEF BridgeInv, Threads
    <3>2. sock => ~Closing(sent)  BY DEF BridgeInv, FinalPacket
    <3> QED BY <1>1, <1>3, <3>1, <3>2
  <2> QED BY <1>1, <2>1, <2>2 DEF BridgeInv, Farewell
<1> QED BY <1>2, <1>3, <1>4 DEF BridgeInv

\* on_connect subscribes.
LEMMA SubscribeKeeps == ASSUME BridgeInv, OnConnectSubscribe PROVE BridgeInv'
<1>1. /\ net = "announced" /\ net' = "idle" /\ Send("subscribe")
      /\ UNCHANGED <<node, _connected, sock, session, identity, overlap>>
  BY DEF OnConnectSubscribe, client, broker, others
<1>2. Threads'  BY <1>1 DEF BridgeInv, Threads
<1>3. "subscribe" \in Packets \ {"online"}  BY DEF Packets
<1>4. /\ FinalPacket' /\ (Revoked(identity, sent) => Revoked(identity, sent'))
      /\ Closing(sent') => Closing(sent)
  BY <1>1, <1>3, SendKeeps
<1>5. Farewell'  BY <1>1, <1>4 DEF BridgeInv, Farewell
<1> QED BY <1>2, <1>4, <1>5 DEF BridgeInv

\* A connection that takes a stale session over publishes its last will.
LEMMA AcceptKeeps == ASSUME BridgeInv, Accept PROVE BridgeInv'
<1>1. /\ net = "opening" /\ sock /\ net' = "acked" /\ session' = "live"
      /\ identity' = (IF session # "none" THEN "offline" ELSE identity)
      /\ UNCHANGED <<node, _connected, sock, sent, overlap>>
  BY DEF Accept, client
<1>2. Threads'  BY <1>1 DEF BridgeInv, Threads
<1>3. FinalPacket'  BY <1>1 DEF BridgeInv, FinalPacket, Closing
<1>4. sent' = <<>>  BY <1>1 DEF BridgeInv, Threads
<1>5. Farewell'
  <2> SUFFICES ASSUME ~overlap PROVE identity' # "online"
    BY <1>1, <1>4 DEF Farewell, Revoked
  <2> QED BY <1>1 DEF BridgeInv, Farewell
<1> QED BY <1>2, <1>3, <1>5 DEF BridgeInv

\* The broker receives, disconnect as the last packet.
LEMMA ReceiveKeeps == ASSUME BridgeInv, Receive PROVE BridgeInv'
<1> DEFINE p == Head(sent)
<1>1. /\ session = "live" /\ sent # <<>>
      /\ identity' = (IF p \in {"online", "offline"} THEN p ELSE identity)
      /\ session' = (IF p = "disconnect" THEN "none" ELSE session)
      /\ sent' = (IF p = "disconnect" THEN <<>> ELSE Tail(sent))
      /\ UNCHANGED <<node, net, _connected, sock, overlap>>
  BY DEF Receive, bridge, client
<1>2. /\ sent \in Seq(Packets) /\ (sock => ~Closing(sent))
      /\ \A i \in DOMAIN sent : sent[i] = "disconnect" => i = Len(sent)
  BY DEF BridgeInv, FinalPacket
<1>3. /\ p \in Packets /\ Tail(sent) \in Seq(Packets)
      /\ Closing(Tail(sent)) => Closing(sent)
      /\ \A i \in DOMAIN Tail(sent) : Tail(sent)[i] = "disconnect" => i = Len(Tail(sent))
      /\ Revoked(identity, sent)
           => Revoked(IF p \in {"online", "offline"} THEN p ELSE identity, Tail(sent))
      /\ p = "disconnect" => Closing(sent) /\ (Revoked(identity, sent) => identity # "online")
  BY <1>1, <1>2, Received
<1> HIDE DEF p
<1>4. CASE p = "disconnect"
  <2>1. identity' = identity /\ session' = "none" /\ sent' = <<>>  BY <1>1, <1>4
  <2>2. ~sock  BY <1>2, <1>3, <1>4
  <2>3. Threads'  BY <1>1, <2>1, <2>2 DEF BridgeInv, Threads
  <2>4. FinalPacket'  BY <2>1 DEF FinalPacket, Closing
  <2>5. ~overlap => identity # "online"  BY <1>1, <1>3, <1>4 DEF BridgeInv, Farewell
  <2>6. Farewell'  BY <1>1, <2>1, <2>2, <2>5 DEF Farewell
  <2> QED BY <2>3, <2>4, <2>6 DEF BridgeInv
<1>5. CASE p # "disconnect"
  <2>1. session' = "live" /\ sent' = Tail(sent)  BY <1>1, <1>5
  <2>2. Threads'  BY <1>1, <2>1 DEF BridgeInv, Threads
  <2>3. FinalPacket'  BY <1>1, <1>2, <1>3, <2>1 DEF FinalPacket
  <2>4. Farewell'  BY <1>1, <1>3, <2>1 DEF BridgeInv, Farewell
  <2> QED BY <2>2, <2>3, <2>4 DEF BridgeInv
<1> QED BY <1>4, <1>5

\* The last will of a stale session.
LEMMA LastWillKeeps == ASSUME BridgeInv, LastWill PROVE BridgeInv'
<1>1. /\ session = "stale" /\ session' = "none" /\ identity' = "offline"
      /\ UNCHANGED <<node, net, _connected, sock, sent, overlap>>
  BY DEF LastWill, bridge, client
<1>2. Threads'  BY <1>1 DEF BridgeInv, Threads
<1>3. FinalPacket'  BY <1>1 DEF BridgeInv, FinalPacket, Closing
<1>4. Revoked(identity, sent) => Revoked(identity', sent')  BY <1>1 DEF Revoked
<1>5. Farewell'  BY <1>1, <1>4 DEF BridgeInv, Farewell
<1> QED BY <1>2, <1>3, <1>5 DEF BridgeInv

\* Every step keeps the invariant.
LEMMA BridgeKept == BridgeInv /\ [BridgeNext]_bridgeVars => BridgeInv'
  BY QuietKeeps, NetworkKeeps, LostKeeps, StartKeeps, OfflineKeeps, DisconnectKeeps, IdentityKeeps,
     SubscribeKeeps, AcceptKeeps, ReceiveKeeps, LastWillKeeps
  DEF BridgeNext, Destroy, OnConnect

\* Whatever is killed, lost, refused, taken over or shut down, and wherever the two
\* threads of the bridge stand: a robot the broker shows online has a session, and
\* with it a last will or a farewell, unless on_connect overlapped destroy_node.
THEOREM OnlineRevocable == BridgeSpec => []OnlineHasSession
<1>1. BridgeInv => OnlineHasSession
  BY DEF BridgeInv, Farewell, OnlineHasSession
<1> QED BY <1>1, BridgeStarts, BridgeKept, PTL DEF BridgeSpec

\* What on_connect sends is received in order: how far the broker is tells what is
\* still to come.
Announcing ==
  node = "spin" /\ sock =>
    /\ net \in {"acked", "flagged"} => session = "live" /\ sent = <<>>
    /\ net = "announced" =>
         /\ session = "live"
         /\ sent = <<"online">> \/ (sent = <<>> /\ identity = "online")
    /\ net = "idle" =>
         /\ session = "live"
         /\ \/ sent = <<"online", "subscribe">>
            \/ sent = <<"subscribe">> /\ identity = "online"
            \/ sent = <<>> /\ identity = "online" /\ subscribed

\* The two packets of on_connect, one behind the other.
LEMMA TwoPackets ==
  /\ Append(<<>>, "online") = <<"online">>
  /\ Append(<<>>, "subscribe") = <<"subscribe">>
  /\ Append(<<"online">>, "subscribe") = <<"online", "subscribe">>
  /\ Head(<<"online">>) = "online" /\ Tail(<<"online">>) = <<>>
  /\ Head(<<"subscribe">>) = "subscribe" /\ Tail(<<"subscribe">>) = <<>>
  /\ Head(<<"online", "subscribe">>) = "online"
  /\ Tail(<<"online", "subscribe">>) = <<"subscribe">>
  /\ <<"online">> # <<>> /\ <<"subscribe">> # <<>> /\ <<"online", "subscribe">> # <<>>
<1>1. Append(<<>>, "online") = <<"online">> /\ Append(<<>>, "subscribe") = <<"subscribe">>
  OBVIOUS
<1>2. Append(<<"online">>, "subscribe") = <<"online", "subscribe">>
  <2> DEFINE s == <<"online">>
             t == <<"online", "subscribe">>
  <2>1. s \in Seq(Packets) /\ t \in Seq(Packets) /\ Len(s) = 1 /\ Len(t) = 2
    BY DEF Packets
  <2>2. s[1] = "online" /\ t[1] = "online" /\ t[2] = "subscribe"
    OBVIOUS
  <2> HIDE DEF s, t
  <2>3. /\ Append(s, "subscribe") \in Seq(Packets) /\ Len(Append(s, "subscribe")) = 2
        /\ Append(s, "subscribe")[1] = s[1] /\ Append(s, "subscribe")[2] = "subscribe"
    <3>1. "subscribe" \in Packets  BY DEF Packets
    <3>2. ASSUME NEW q \in Seq(Packets), NEW p \in Packets
          PROVE  /\ Append(q, p) \in Seq(Packets) /\ Len(Append(q, p)) = Len(q) + 1
                 /\ Append(q, p)[Len(q) + 1] = p
                 /\ \A i \in 1 .. Len(q) : Append(q, p)[i] = q[i]
      OBVIOUS
    <3>3. /\ Append(s, "subscribe") \in Seq(Packets) /\ Len(Append(s, "subscribe")) = Len(s) + 1
          /\ Append(s, "subscribe")[Len(s) + 1] = "subscribe"
          /\ \A i \in 1 .. Len(s) : Append(s, "subscribe")[i] = s[i]
      BY <2>1, <3>1, <3>2, Zenon
    <3>4. Len(s) + 1 = 2 /\ 1 \in 1 .. Len(s)  BY <2>1
    <3> QED  BY <3>3, <3>4, Zenon
  <2>4. \A i \in 1 .. 2 : Append(s, "subscribe")[i] = t[i]
    BY <2>2, <2>3
  <2>5. Append(s, "subscribe") = t
    BY <2>1, <2>3, <2>4, SeqEqual
  <2> QED  BY <2>5 DEF s, t
<1>3. /\ Head(<<"online">>) = "online" /\ Head(<<"subscribe">>) = "subscribe"
      /\ Head(<<"online", "subscribe">>) = "online"
  OBVIOUS
<1>4. Tail(<<"online">>) = <<>> /\ Tail(<<"subscribe">>) = <<>>
  OBVIOUS
<1>5. Tail(<<"online", "subscribe">>) = <<"subscribe">>
  OBVIOUS
<1>6. <<"online">> # <<>> /\ <<"subscribe">> # <<>> /\ <<"online", "subscribe">> # <<>>
  OBVIOUS
<1> QED  BY <1>1, <1>2, <1>3, <1>4, <1>5, <1>6

LEMMA AnnouncingInit == BridgeInit => Announcing
  BY DEF BridgeInit, Announcing

LEMMA AnnouncingNext == BridgeInv /\ Announcing /\ [BridgeNext]_bridgeVars => Announcing'
<1> SUFFICES ASSUME BridgeInv, Announcing, [BridgeNext]_bridgeVars
             PROVE  Announcing'
  OBVIOUS
<1> USE DEF Announcing, client, broker, others, bridge
<1>1. CASE _connect_once
  <2>1. net \in {"none", "wait"} => ~sock  BY DEF BridgeInv, Threads
  <2> QED BY <1>1, <2>1 DEF _connect_once
<1>2. CASE DestroyTest  BY <1>2 DEF DestroyTest
<1>3. CASE Destroy  BY <1>3 DEF Destroy, DestroyOffline, DestroyDisconnect, DestroyStop
<1>4. CASE Reconnect  BY <1>4 DEF Reconnect
<1>5. CASE OnConnectFlag  BY <1>5 DEF OnConnectFlag
<1>6. CASE OnConnectIdentity  BY <1>6, TwoPackets DEF OnConnectIdentity, Send
<1>7. CASE OnConnectSubscribe  BY <1>7, TwoPackets DEF OnConnectSubscribe, Send
<1>8. CASE OnConnectRefused  BY <1>8 DEF OnConnectRefused
<1>9. CASE _on_disconnect  BY <1>9 DEF _on_disconnect
<1>10. CASE _on_message  BY <1>10 DEF _on_message
<1>11. CASE Accept
  <2>1. net = "opening" /\ sock => sent = <<>>  BY DEF BridgeInv, Threads
  <2> QED BY <1>11, <2>1 DEF Accept
<1>12. CASE Receive
  <2>1. net \in {"none", "wait"} => ~sock  BY DEF BridgeInv, Threads
  <2>2. net = "opening" => session # "live"  BY DEF BridgeInv, Threads
  <2> QED BY <1>12, <2>1, <2>2, TwoPackets DEF Receive
<1>13. CASE LastWill  BY <1>13 DEF LastWill
<1>14. ASSUME NEW c \in Commands, Command(c) PROVE Announcing'
  BY <1>14 DEF Command
<1>15. CASE LinkBreaks \/ Kill \/ ExitLost
  BY <1>15 DEF LinkBreaks, Kill, ExitLost, Lost
<1>16. CASE LinkReturns  BY <1>16 DEF LinkReturns
<1>17. CASE Restart  BY <1>17 DEF Restart
<1>18. CASE UNCHANGED bridgeVars  BY <1>18 DEF bridgeVars
<1> QED
  BY <1>1, <1>2, <1>3, <1>4, <1>5, <1>6, <1>7, <1>8, <1>9, <1>10, <1>11, <1>12, <1>13, <1>14,
     <1>15, <1>16, <1>17, <1>18 DEF BridgeNext, OnConnect

\* Whatever came before, on which connection and in which run of the bridge: once
\* on_connect has run and its packets are received, the robot is online for the
\* server, with its commands subscribed and its status published.
THEOREM SettledOnline == BridgeSpec => []SettledIsOnline
<1>1. BridgeInv /\ Announcing => SettledIsOnline
  <2> SUFFICES ASSUME BridgeInv, Announcing PROVE SettledIsOnline
    OBVIOUS
  <2>1. node # "gone" => (_connected <=> net \in {"flagged", "announced", "idle"})
    BY DEF BridgeInv, Threads
  <2> QED BY <2>1, TwoPackets DEF Announcing, SettledIsOnline
<1> QED BY <1>1, BridgeStarts, BridgeKept, AnnouncingInit, AnnouncingNext, PTL DEF BridgeSpec

\* The bridge, its broker and the network keep their types: one command waits at most,
\* and the packets are those the bridge sends.
THEOREM BridgeTyped == BridgeSpec => []BridgeTypeOK
<1> USE BridgeAssumption DEF BridgeTypeOK, client, broker, others, bridge
<1>e. <<>> \in Seq(Packets) /\ <<>> \in Seq(Commands) /\ Len(<<>>) <= 1
  OBVIOUS
<1>1. BridgeInit => BridgeTypeOK
  <2> SUFFICES ASSUME BridgeInit PROVE BridgeTypeOK
    OBVIOUS
  <2>1. runs \in 1 .. MaxRuns  BY DEF BridgeInit
  <2>2. sent \in Seq(Packets) /\ commands \in Seq(Commands) /\ Len(commands) <= 1
    BY <1>e DEF BridgeInit
  <2> QED BY <2>1, <2>2, Zenon DEF BridgeInit
<1>2. BridgeTypeOK /\ [BridgeNext]_bridgeVars => BridgeTypeOK'
  <2> SUFFICES ASSUME BridgeTypeOK, [BridgeNext]_bridgeVars
               PROVE  BridgeTypeOK'
    OBVIOUS
  <2>s. ASSUME NEW p \in Packets, Send(p) PROVE sent' \in Seq(Packets)
    BY <2>s DEF Send
  <2>p. {"online", "offline", "subscribe", "disconnect"} = Packets  BY DEF Packets
  <2>1. CASE _connect_once  BY <2>1, SMTT(30) DEF _connect_once
  <2>2. CASE DestroyTest  BY <2>2, SMTT(30) DEF DestroyTest
  <2>3. CASE DestroyOffline
    <3>1. sent' \in Seq(Packets)  BY <2>3, <2>s, <2>p DEF DestroyOffline
    <3> QED BY <2>3, <3>1, SMTT(30) DEF DestroyOffline
  <2>4. CASE DestroyDisconnect
    <3>1. sent' \in Seq(Packets)  BY <2>4, <2>s, <2>p DEF DestroyDisconnect
    <3>2. node' = "stopping" /\ sock' \in BOOLEAN
      BY <2>4 DEF DestroyDisconnect
    <3>3. UNCHANGED <<net, _connected, _connect_done, _nav_state, commands, link, session,
                      subscribed, identity, overlap, missed, runs>>
      BY <2>4 DEF DestroyDisconnect
    <3> QED BY <3>1, <3>2, <3>3
  <2>5. CASE DestroyStop  BY <2>5, SMTT(30) DEF DestroyStop
  <2>6. CASE Reconnect  BY <2>6, <1>e DEF Reconnect
  <2>7. CASE OnConnectFlag  BY <2>7, SMTT(30) DEF OnConnectFlag
  <2>8. CASE OnConnectIdentity
    <3>1. sent' \in Seq(Packets)  BY <2>8, <2>s, <2>p DEF OnConnectIdentity
    <3> QED BY <2>8, <3>1, SMTT(30) DEF OnConnectIdentity
  <2>9. CASE OnConnectSubscribe
    <3>1. sent' \in Seq(Packets)  BY <2>9, <2>s, <2>p DEF OnConnectSubscribe
    <3> QED BY <2>9, <3>1, SMTT(30) DEF OnConnectSubscribe
  <2>10. CASE OnConnectRefused  BY <2>10, ZenonT(60) DEF OnConnectRefused
  <2>11. CASE _on_disconnect  BY <2>11, ZenonT(60) DEF _on_disconnect
  <2>12. CASE _on_message
    <3>1. Head(commands) \in Commands /\ Tail(commands) \in Seq(Commands)
          /\ Len(Tail(commands)) <= 1
      BY <2>12 DEF _on_message
    <3> QED BY <2>12, <3>1, SMTT(30) DEF _on_message, Commands
  <2>13. CASE Accept  BY <2>13, ZenonT(60) DEF Accept
  <2>14. CASE Receive
    <3>1. Head(sent) \in Packets /\ Tail(sent) \in Seq(Packets)  BY <2>14 DEF Receive
    <3> QED BY <2>14, <3>1, SMTT(30) DEF Receive
  <2>15. CASE LastWill  BY <2>15, SMTT(30) DEF LastWill
  <2>16. ASSUME NEW c \in Commands, Command(c) PROVE BridgeTypeOK'
    BY <2>16 DEF Command
  <2>17. CASE LinkBreaks
    <3>1. sent' \in Seq(Packets) /\ commands' \in Seq(Commands) /\ Len(commands') <= 1
      BY <2>17, <1>e DEF LinkBreaks, Lost
    <3>2. session' \in {"none", "live", "stale"} /\ sock' \in BOOLEAN /\ link' \in BOOLEAN
          /\ subscribed' \in BOOLEAN
      BY <2>17 DEF LinkBreaks, Lost
    <3>3. UNCHANGED <<node, net, _connected, _connect_done, _nav_state, identity, overlap,
                      missed, runs>>
      BY <2>17 DEF LinkBreaks, Lost
    <3> QED BY <3>1, <3>2, <3>3
  <2>18. CASE LinkReturns  BY <2>18 DEF LinkReturns
  <2>19. CASE Kill  BY <2>19, <1>e DEF Kill, Lost
  <2>20. CASE ExitLost  BY <2>20, <1>e, ZenonT(60) DEF ExitLost, Lost
  <2>21. CASE Restart
    <3>1. runs' \in 1 .. MaxRuns  BY <2>21 DEF Restart
    <3> QED BY <2>21, <3>1, <1>e, Zenon DEF Restart
  <2>22. CASE UNCHANGED bridgeVars  BY <2>22 DEF bridgeVars
  <2> QED
    BY <2>1, <2>2, <2>3, <2>4, <2>5, <2>6, <2>7, <2>8, <2>9, <2>10, <2>11, <2>12, <2>13, <2>14,
       <2>15, <2>16, <2>17, <2>18, <2>19, <2>20, <2>21, <2>22
    DEF BridgeNext, Destroy, OnConnect
<1> QED BY <1>1, <1>2, PTL DEF BridgeSpec
=============================================================================
