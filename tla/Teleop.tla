------------------------------- MODULE Teleop -------------------------------
(***************************************************************************)
(* manual_control_node.py: a thread reads the keyboard, the main thread    *)
(* spins and publishes the velocity of the current key ten times a second. *)
(* The node ends by the key Q, which shuts ROS down from the keyboard      *)
(* thread, or by an interrupt of the main thread.                          *)
(*                                                                         *)
(* A velocity is named by its key; Stop is the zero velocity. Publishing   *)
(* raises an exception once ROS is shut down. The keyboard thread is a     *)
(* daemon: it ends with the process, wherever it stands.                   *)
(***************************************************************************)
EXTENDS Naturals

CONSTANTS
  Moves,        \* the keys that move the robot
  Stop          \* no key, or one that means nothing

ASSUME TeleopAssumption == Stop \notin Moves /\ "QUIT" \notin Moves \cup {Stop}

VARIABLES
  main,         \* "spin", "timer", "read", "finally", "stopped", "gone"
  k,            \* the key the timer callback has read
  keyboard,     \* "loop", "raw", "got", "locked", "done"
  key,          \* what get_key returned
  _run, _key,
  _lock,        \* who holds it: "main", "keyboard", "nobody"
  ok,           \* rclpy.ok()
  cmdVel,       \* the last message on /cmd_vel
  quit          \* history: Q was pressed

teleopVars == <<main, k, keyboard, key, _run, _key, _lock, ok, cmdVel, quit>>

mainVars     == <<main, k, cmdVel>>
keyboardVars == <<keyboard, key, quit>>
-----------------------------------------------------------------------------
TeleopInit ==
  /\ main = "spin" /\ k = Stop /\ cmdVel = Stop
  /\ keyboard = "loop" /\ key = Stop /\ quit = FALSE
  /\ _run = TRUE /\ _key = Stop /\ _lock = "nobody" /\ ok = TRUE

alive == main # "gone"

(* The keyboard thread *)

Loop ==
  /\ alive /\ keyboard = "loop"
  /\ keyboard' = IF _run THEN "raw" ELSE "done"
  /\ UNCHANGED <<mainVars, key, quit, _run, _key, _lock, ok>>

\* a key, or none for 50 ms
get_key(c) ==
  /\ alive /\ keyboard = "raw"
  /\ key' = c
  /\ keyboard' = "got"
  /\ UNCHANGED <<mainVars, quit, _run, _key, _lock, ok>>

Lock ==
  /\ alive /\ keyboard = "got" /\ _lock = "nobody"
  /\ _lock' = "keyboard"
  /\ keyboard' = "locked"
  /\ UNCHANGED <<mainVars, key, quit, _run, _key, ok>>

StoreKey ==
  /\ alive /\ keyboard = "locked" /\ key # "QUIT"
  /\ _key' = key /\ _lock' = "nobody"
  /\ keyboard' = "loop"
  /\ UNCHANGED <<mainVars, key, quit, _run, ok>>

Quit_locked ==                                                       \* mutant
  /\ alive /\ keyboard = "locked" /\ key = "QUIT"
  /\ _run' = FALSE /\ ok' = FALSE /\ quit' = TRUE
  /\ keyboard' = "done"
  /\ UNCHANGED <<mainVars, key, _key, _lock>>

Quit ==
  /\ alive /\ keyboard = "locked" /\ key = "QUIT"
  /\ _run' = FALSE /\ ok' = FALSE /\ quit' = TRUE
  /\ _lock' = "nobody"
  /\ keyboard' = "done"
  /\ UNCHANGED <<mainVars, key, _key>>

(* The main thread *)

Timer ==
  /\ main = "spin" /\ ok /\ _run
  /\ main' = "timer"
  /\ UNCHANGED <<k, cmdVel, keyboardVars, _run, _key, _lock, ok>>

ReadKey_sticky ==                                                    \* mutant
  /\ main = "timer" /\ _lock = "nobody"
  /\ k' = IF _key = Stop THEN k ELSE _key
  /\ main' = "read"
  /\ UNCHANGED <<cmdVel, keyboardVars, _run, _key, _lock, ok>>

ReadKey ==
  /\ main = "timer" /\ _lock = "nobody"
  /\ k' = _key
  /\ main' = "read"
  /\ UNCHANGED <<cmdVel, keyboardVars, _run, _key, _lock, ok>>

_publish_caught ==                                                   \* mutant
  /\ main = "read"
  /\ cmdVel' = IF ok THEN k ELSE cmdVel
  /\ main' = "spin"
  /\ UNCHANGED <<k, keyboardVars, _run, _key, _lock, ok>>

_publish ==
  /\ main = "read"
  /\ IF ok THEN cmdVel' = k /\ main' = "spin"
           ELSE main' = "finally" /\ UNCHANGED cmdVel
  /\ UNCHANGED <<k, keyboardVars, _run, _key, _lock, ok>>

SpinEnds ==
  /\ main = "spin" /\ ~ok
  /\ main' = "finally"
  /\ UNCHANGED <<k, cmdVel, keyboardVars, _run, _key, _lock, ok>>

Interrupt ==
  /\ main \in {"spin", "timer", "read"}
  /\ main' = "finally"
  /\ UNCHANGED <<k, cmdVel, keyboardVars, _run, _key, _lock, ok>>

destroy_node_silent ==                                               \* mutant
  /\ main = "finally"
  /\ _run' = FALSE
  /\ main' = "stopped"
  /\ UNCHANGED <<k, cmdVel, keyboardVars, _key, _lock, ok>>

\* The zero velocity; when ROS is shut down the exception ends the program.
destroy_node ==
  /\ main = "finally"
  /\ _run' = FALSE
  /\ IF ok THEN cmdVel' = Stop /\ main' = "stopped"
           ELSE main' = "gone" /\ UNCHANGED cmdVel
  /\ UNCHANGED <<k, keyboardVars, _key, _lock, ok>>

Exit ==
  /\ main = "stopped"
  /\ ok' = FALSE
  /\ main' = "gone"
  /\ UNCHANGED <<k, cmdVel, keyboardVars, _run, _key, _lock>>

Keyboard == \/ Loop \/ Lock \/ StoreKey \/ Quit
            \/ \E c \in Moves \cup {Stop, "QUIT"} : get_key(c)
Main == Timer \/ ReadKey \/ _publish \/ SpinEnds \/ destroy_node \/ Exit

TeleopNext == Keyboard \/ Main \/ Interrupt

TeleopSpec == TeleopInit /\ [][TeleopNext]_teleopVars

\* Both threads run; get_key returns after 50 ms at the latest.
TeleopFairSpec ==
  /\ TeleopSpec
  /\ WF_teleopVars(Keyboard) /\ WF_teleopVars(Main)
  /\ WF_teleopVars(Timer) /\ SF_teleopVars(ReadKey) /\ SF_teleopVars(Lock)
-----------------------------------------------------------------------------
(* Properties                                                              *)

Keys == Moves \cup {Stop}

TeleopTypeOK ==
  /\ main \in {"spin", "timer", "read", "finally", "stopped", "gone"}
  /\ keyboard \in {"loop", "raw", "got", "locked", "done"}
  /\ k \in Keys /\ _key \in Keys /\ cmdVel \in Keys /\ key \in Keys \cup {"QUIT"}
  /\ _run \in BOOLEAN /\ ok \in BOOLEAN /\ quit \in BOOLEAN
  /\ _lock \in {"main", "keyboard", "nobody"}

\* An interrupted node leaves the robot stopped, whatever the timer was about to
\* publish: nothing follows the zero velocity of destroy_node.
InterruptStops == main = "gone" /\ ~quit => cmdVel = Stop

\* The node ends after Q, although the keyboard thread holds the lock the timer waits
\* for while it shuts ROS down.
QuitExits == quit ~> main = "gone"

\* The steps the main thread has before it at most, once it does not publish any more.
stepsToExit ==
  CASE main = "timer" -> 3 [] main \in {"spin", "read"} -> 2
    [] main \in {"finally", "stopped"} -> 1 [] main = "gone" -> 0

\* From Q on the lock is free and nothing is published, and whatever either thread
\* does brings the node nearer to its end.
QuitWindsDown ==
  /\ [](quit => _lock = "nobody")
  /\ [][quit => cmdVel' = cmdVel /\ stepsToExit' < stepsToExit]_teleopVars

\* A key that is released for good stops being published.
ReleaseShows == <>[](_key = Stop /\ alive) => <>[](cmdVel = Stop)

\* The zero velocity of destroy_node is the last word after Q, too.
QuitStops == main = "gone" => cmdVel = Stop

\* A key that was pressed moves the robot ("W : Maju").
PressMoves == \A m \in Moves : (_key = m) ~> (cmdVel = m \/ ~_run)
=============================================================================
