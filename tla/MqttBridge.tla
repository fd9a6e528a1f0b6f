----------------------------- MODULE MqttBridge -----------------------------
(***************************************************************************)
(* amr_mqtt_bridge_node.py: its connection to the MQTT broker. Two threads *)
(* act: the main thread runs the timers and destroy_node, the thread of    *)
(* the MQTT client runs on_connect, on_disconnect and on_message and       *)
(* reconnects by itself once it was started.                               *)
(*                                                                         *)
(* The broker keeps one session per client id, with the last will, and the *)
(* retained identity of the robot. Both survive a bridge that is killed:   *)
(* its session is stale until the broker finds out, or until the next      *)
(* connection takes it over.                                               *)
(***************************************************************************)
EXTENDS Integers, Sequences

CONSTANT MaxRuns           \* bound: how often the bridge is started

ASSUME BridgeAssumption == MaxRuns \in Nat \ {0}

VARIABLES
  node,           \* its main thread: "spin", "checked", "offline", "stopping", "gone"
  net,            \* the client's thread: "none", "wait", "opening", "acked",
                  \* "flagged", "announced", "idle"
  _connected, _connect_done,
  _nav_state,
  sock,           \* the client's socket is open
  sent,           \* packets on their way to the broker
  commands,       \* commands on their way to the bridge
  link,           \* the network
  session,        \* at the broker: "none", "live", "stale"
  subscribed,     \* the live session has its subscriptions
  identity,       \* the retained identity: "none", "online", "offline"
  overlap,        \* history: on_connect announced the robot during destroy_node
  missed,         \* history: a command to a robot that is online was not forwarded
  runs

client == <<_connected, _connect_done>>
broker == <<session, subscribed, identity>>
bridgeVars == <<node, net, client, _nav_state, sock, sent, commands, link, broker,
                overlap, missed, runs>>

Commands == {"goal", "cancel", "estop"}

\* A packet for a closed socket is lost.
Send(p) == sent' = IF sock THEN Append(sent, p) ELSE sent

InOnConnect == net \in {"acked", "flagged", "announced"}
-----------------------------------------------------------------------------
BridgeInit ==
  /\ node = "spin" /\ net = "none"
  /\ _connected = FALSE /\ _connect_done = FALSE /\ _nav_state = "Idle"
  /\ sock = FALSE /\ sent = <<>> /\ commands = <<>> /\ link = TRUE
  /\ session = "none" /\ subscribed = FALSE /\ identity = "none"
  /\ overlap = FALSE /\ missed = FALSE /\ runs = 1

(* The main thread *)

\* Every 2 s. loop_start does nothing when the client's thread is running.
_connect_once ==
  /\ node = "spin" /\ ~_connect_done
  /\ _connect_done' = TRUE
  /\ net' = IF net = "none" THEN "wait" ELSE net
  /\ UNCHANGED <<node, _connected, _nav_state, sock, sent, commands, link, broker,
                 overlap, missed, runs>>

\* destroy_node, as far as the test of _connected
DestroyTest ==
  /\ node = "spin"
  /\ node' = IF _connected THEN "checked" ELSE "gone"
  /\ net' = IF _connected THEN net ELSE "none"
  /\ sock' = (sock /\ _connected)
  /\ UNCHANGED <<client, _nav_state, sent, commands, link, broker, overlap, missed, runs>>

DestroyOffline_missing ==                                            \* mutant
  /\ node = "checked"
  /\ node' = "offline"
  /\ UNCHANGED <<net, client, _nav_state, sock, sent, commands, link, broker, overlap,
                 missed, runs>>

DestroyOffline ==
  /\ node = "checked"
  /\ node' = "offline"
  /\ IF _connected THEN Send("offline") ELSE UNCHANGED sent
  /\ UNCHANGED <<net, client, _nav_state, sock, commands, link, broker, overlap, missed, runs>>

\* disconnect: its packet is the last one, behind it the socket is closed
DestroyDisconnect ==
  /\ node = "offline"
  /\ node' = "stopping"
  /\ Send("disconnect")
  /\ sock' = FALSE
  /\ UNCHANGED <<net, client, _nav_state, commands, link, broker, overlap, missed, runs>>

\* loop_stop joins the client's thread, the callback it is in included
DestroyStop ==
  /\ node = "stopping" /\ ~InOnConnect
  /\ node' = "gone" /\ net' = "none"
  /\ UNCHANGED <<client, _nav_state, sock, sent, commands, link, broker, overlap, missed, runs>>

(* The client's thread *)

running == node # "gone"
others  == <<node, _nav_state, link, broker, overlap, missed, runs>>

Reconnect ==
  /\ running /\ net = "wait" /\ link /\ node \in {"spin", "checked"}
  /\ net' = "opening" /\ sock' = TRUE /\ sent' = <<>> /\ commands' = <<>>
  /\ UNCHANGED <<client, others>>

\* _on_connect with rc = 0: the flag, the identity, the subscriptions
OnConnectFlag ==
  /\ running /\ net = "acked"
  /\ _connected' = TRUE
  /\ net' = "flagged"
  /\ UNCHANGED <<_connect_done, sock, sent, commands, others>>

OnConnectIdentity_once ==                                            \* mutant
  /\ running /\ net = "flagged"
  /\ IF identity = "none" THEN Send("online") ELSE UNCHANGED sent
  /\ net' = "announced"
  /\ UNCHANGED <<client, sock, commands, others>>

OnConnectIdentity ==
  /\ running /\ net = "flagged"
  /\ Send("online")
  /\ net' = "announced"
  /\ overlap' = (overlap \/ node # "spin")
  /\ UNCHANGED <<node, client, _nav_state, sock, commands, link, broker, missed, runs>>

OnConnectSubscribe ==
  /\ running /\ net = "announced"
  /\ Send("subscribe")
  /\ net' = "idle"
  /\ UNCHANGED <<client, sock, commands, others>>

\* _on_connect with another rc, and the socket is closed
OnConnectRefused ==
  /\ running /\ net = "opening" /\ sock
  /\ _connect_done' = FALSE
  /\ sock' = FALSE
  /\ UNCHANGED <<_connected, net, sent, commands, others>>

_on_disconnect ==
  /\ running /\ ~sock /\ net \in {"opening", "idle"}
  /\ _connected' = FALSE /\ _connect_done' = FALSE
  /\ net' = "wait"
  /\ UNCHANGED <<sock, sent, commands, others>>

_on_message ==
  /\ running /\ net = "idle" /\ commands # <<>>
  /\ _nav_state' = CASE Head(commands) = "goal"   -> "Navigating"
                     [] Head(commands) = "cancel" -> "Idle"
                     [] Head(commands) = "estop"  -> "EStop"
  /\ commands' = Tail(commands)
  /\ UNCHANGED <<node, net, client, sock, sent, link, broker, overlap, missed, runs>>
-----------------------------------------------------------------------------
(* The broker and the server                                               *)

bridge == <<node, net, client, _nav_state, overlap, runs>>

\* A connection of the same client takes a stale session over, with its last will.
Accept ==
  /\ net = "opening" /\ sock /\ link
  /\ net' = "acked"
  /\ identity' = IF session # "none" THEN "offline" ELSE identity
  /\ session' = "live" /\ subscribed' = FALSE
  /\ UNCHANGED <<node, client, _nav_state, sock, sent, commands, link, overlap, missed, runs>>

Receive ==
  /\ session = "live" /\ sent # <<>>
  /\ LET p == Head(sent) IN
       /\ identity' = IF p \in {"online", "offline"} THEN p ELSE identity
       /\ subscribed' = (p # "disconnect" /\ (subscribed \/ p = "subscribe"))
       /\ session' = IF p = "disconnect" THEN "none" ELSE session
       /\ sent' = IF p = "disconnect" THEN <<>> ELSE Tail(sent)
  /\ UNCHANGED <<bridge, sock, commands, link, missed>>

\* The keep-alive of a session has run out: the last will is published.
LastWill ==
  /\ session = "stale"
  /\ session' = "none" /\ identity' = "offline"
  /\ UNCHANGED <<bridge, subscribed, sock, sent, commands, link, missed>>

\* The server sends a command to a robot that is online.
Command(c) ==
  /\ identity = "online" /\ session = "live" /\ link
  /\ commands' = IF subscribed /\ commands = <<>> THEN <<c>> ELSE commands
  /\ missed' = (missed \/ ~subscribed)
  /\ UNCHANGED <<bridge, sock, sent, link, broker>>
-----------------------------------------------------------------------------
(* Failures                                                                *)

\* What was not received of a connection is lost with it.
Lost == /\ sock' = FALSE /\ sent' = <<>> /\ commands' = <<>>
        /\ session' = IF session = "live" THEN "stale" ELSE session
        /\ subscribed' = FALSE

LinkBreaks ==
  /\ link /\ link' = FALSE
  /\ Lost
  /\ UNCHANGED <<bridge, identity, missed>>

LinkReturns ==
  /\ ~link /\ link' = TRUE
  /\ UNCHANGED <<bridge, sock, sent, commands, broker, missed>>

Kill ==
  /\ running
  /\ node' = "gone" /\ net' = "none"
  /\ Lost
  /\ UNCHANGED <<client, _nav_state, identity, link, overlap, missed, runs>>

\* A process that ended takes its connection along, received or not.
ExitLost ==
  /\ node = "gone" /\ session = "live"
  /\ Lost
  /\ UNCHANGED <<bridge, identity, link, missed>>

Restart ==
  /\ node = "gone" /\ runs < MaxRuns /\ session # "live"
  /\ node' = "spin" /\ runs' = runs + 1
  /\ _connected' = FALSE /\ _connect_done' = FALSE /\ _nav_state' = "Idle"
  /\ sock' = FALSE /\ sent' = <<>> /\ commands' = <<>>
  /\ UNCHANGED <<net, link, broker, overlap, missed>>

OnConnect == OnConnectFlag \/ OnConnectIdentity \/ OnConnectSubscribe
Destroy   == DestroyOffline \/ DestroyDisconnect \/ DestroyStop

BridgeNext == \/ _connect_once \/ DestroyTest \/ Destroy
        \/ Reconnect \/ OnConnect \/ OnConnectRefused \/ _on_disconnect \/ _on_message
        \/ Accept \/ Receive \/ LastWill \/ \E c \in Commands : Command(c)
        \/ LinkBreaks \/ LinkReturns \/ Kill \/ ExitLost \/ Restart

BridgeSpec == BridgeInit /\ [][BridgeNext]_bridgeVars

\* The threads and the broker run, the client's thread tries again and again and
\* the broker does not refuse it for ever, sessions and processes end.
BridgeFairSpec ==
  /\ BridgeSpec
  /\ WF_bridgeVars(_connect_once) /\ WF_bridgeVars(Destroy)
  /\ WF_bridgeVars(Reconnect) /\ WF_bridgeVars(OnConnect) /\ WF_bridgeVars(_on_disconnect)
  /\ SF_bridgeVars(Accept) /\ WF_bridgeVars(Receive)
  /\ WF_bridgeVars(LastWill) /\ WF_bridgeVars(ExitLost)
-----------------------------------------------------------------------------
(* Properties                                                              *)

Packets == {"online", "offline", "subscribe", "disconnect"}

BridgeTypeOK ==
  /\ node \in {"spin", "checked", "offline", "stopping", "gone"}
  /\ net \in {"none", "wait", "opening", "acked", "flagged", "announced", "idle"}
  /\ _connected \in BOOLEAN /\ _connect_done \in BOOLEAN
  /\ _nav_state \in {"Idle", "Navigating", "EStop"}
  /\ sock \in BOOLEAN /\ link \in BOOLEAN /\ subscribed \in BOOLEAN
  /\ sent \in Seq(Packets) /\ commands \in Seq(Commands) /\ Len(commands) <= 1
  /\ session \in {"none", "live", "stale"} /\ identity \in {"none", "online", "offline"}
  /\ overlap \in BOOLEAN /\ missed \in BOOLEAN /\ runs \in 1 .. MaxRuns

\* A robot the server sees online has a session at the broker, whose end takes that
\* back, clean or not: destroy_node says offline before it disconnects without the
\* last will, on whichever connection it is, unless on_connect runs meanwhile.
OnlineHasSession == identity = "online" => session # "none" \/ overlap

\* A robot whose bridge was killed, lost its link or was shut down is offline for the
\* server in the end, unless on_connect runs during the shutdown.
GoneIsOffline == (node = "gone" /\ ~overlap) ~> (identity # "online" \/ node # "gone")

\* The same without the exception ("online": False is the last word of destroy_node).
ShutdownIsOffline == node = "gone" ~> (identity # "online" \/ node # "gone")

\* When on_connect has run and the broker has received what was sent, the server sees
\* the robot online, its commands are subscribed and its status is published, whatever
\* the connections before this one, and other runs of the bridge, have left behind.
SettledIsOnline ==
  node = "spin" /\ net = "idle" /\ sock /\ sent = <<>>
    => session = "live" /\ identity = "online" /\ subscribed /\ _connected

\* When the network stays up and the bridge alive, the robot is online in the end and
\* stays so, its commands are subscribed and its status is published, however the
\* timer and the client's own reconnection have met.
BackOnline ==
  <>[](link /\ node = "spin")
    => <>[](identity = "online" /\ subscribed /\ _connected)

\* A robot that announces itself as online with the commands it subscribes to gets
\* the commands it is sent.
OnlineListens == ~missed
=============================================================================
