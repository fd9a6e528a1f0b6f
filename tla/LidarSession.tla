---------------------------- MODULE LidarSession ----------------------------
(***************************************************************************)
(* A session of the LiDAR driver (sick_scan_xd, TiM 5xx over TCP): the     *)
(* scanner, its connection, and the threads of the driver.                 *)
(*                                                                         *)
(*   reader  the receive thread of Tcp, one for each connection            *)
(*   main    the thread of mainGenericLaser: connects, initialises, takes  *)
(*           scans, and starts over when the monitor finds them late       *)
(*   svc     the process's first thread: the executor with the services    *)
(*           and the point cloud monitor's subscription, interrupted by    *)
(*           the signal handler                                            *)
(*                                                                         *)
(* The dozens of requests of an initialisation are the first, for          *)
(* SCdevicestate, and the last, for LMDscandata, after which scans come;   *)
(* the try in the other dialect after a first request that failed fails,   *)
(* too, and is left out. ReadTimeout ticks of time are the read timeout in *)
(* operation (5 s). Assumptions: a thread that can go on does so within a  *)
(* tick, as steps take milliseconds; a scanner that measures sends in      *)
(* every tick, and it answers the initialisation within a tick, services   *)
(* some time; 100 wrong answers take longer than the read timeout.         *)
(***************************************************************************)
EXTENDS SopasFraming, FiniteSets

CONSTANTS
  ReadTimeout,      \* read_timeout_millisec_default
  StartTimeout,     \* read_timeout_millisec_startup
  KillTimeout,      \* read_timeout_millisec_kill_node
  Services,         \* keywords of the requests that services send
  Losses,           \* bound: how often the connection breaks
  Refusals          \* bound: requests of services the scanner answers by sFA

ASSUME LidarAssumption ==
  /\ ReadTimeout \in Nat \ {0, 1} /\ StartTimeout \in Nat /\ StartTimeout >= ReadTimeout
  /\ KillTimeout \in Nat
  /\ Services \subseteq Keywords
  /\ Losses \in Nat /\ Refusals \in Nat

VARIABLES
  up,               \* the scanner is on and reachable
  link,             \* the connection: none, open, gone (silent) or fin (closed by the peer)
  wire,             \* bytes on their way to the driver
  asked,            \* requests the scanner has not answered, of main and of svc
  streaming, due,   \* it sends scans; the scan of this tick is still to be sent
  sent,             \* datagrams it sent on this connection, up to Later
  lost, refused,    \* bounds
  sock,             \* m_connectionSocket >= 0
  reader,           \* where m_readThread stands
  stray,            \* a thread m_readThread no longer points to still runs
  rx,               \* m_receiveBuffer
  queue,            \* recvQueue
  age,              \* ticks since m_last_tcp_msg_received_nsec, or Never
  rto,              \* readTimeOutInMs
  main, mainWait,   \* where main stands, and its timed wait
  request,          \* the request of the initialisation it is at
  ready,            \* s_isInitialized, s_runState = scanner_run
  svc, svcWait,
  wanted,           \* the keyword of the service's request
  sopas,            \* who holds sopasSendMutex
  retry,            \* 0, or 1 + ticks since its holder got its first wrong answer
  signal,           \* where the signal handler stands
  cloudAge          \* ticks since the monitor saw a point cloud

device  == <<up, link, asked, streaming, due, sent, lost, refused>>
socket  == <<sock, reader, stray, rx>>
mainVars == <<main, mainWait, request, ready>>
svcVars  == <<svc, svcWait, wanted>>
mutex    == <<sopas, retry>>
vars == <<device, wire, socket, queue, age, rto, mainVars, svcVars, mutex, signal, cloudAge>>

Never == StartTimeout + 2      \* more than any timeout compares ages with
MaxWire == 4                   \* bound: two datagrams, about what one recv takes
\* loopOnce's keywords
ScanKeys == {"LMDscandata", "LIDoutputstate"}

NoWait == [limit |-> 0, passed |-> 0]
Wait(limit) == [limit |-> limit, passed |-> 0]
Over(w) == w.passed = w.limit
\* notify_all wakes every waiter; one that does not find its datagram waits anew
Notified(w) == [w EXCEPT !.passed = 0]

MainPcs == {"connect", "lock", "answer", "recreate", "renew", "wait", "pop", "check",
            "close", "join", "sleep", "done", "killed"}

Requests == {"SCdevicestate", "LMDscandata"}

Init ==
  /\ up \in BOOLEAN /\ link = "none" /\ wire = <<>> /\ asked = {}
  /\ streaming = FALSE /\ due = FALSE /\ sent = 0 /\ lost = 0 /\ refused = 0
  /\ sock = FALSE /\ reader = "none" /\ stray = FALSE /\ rx = <<>> /\ queue = <<>>
  /\ age = Never /\ rto = ReadTimeout
  /\ main = "connect" /\ mainWait = NoWait /\ request = "SCdevicestate" /\ ready = FALSE
  /\ svc = "idle" /\ svcWait = NoWait /\ wanted = "SCdevicestate"
  /\ sopas = "free" /\ retry = 0
  /\ signal = "none" /\ cloudAge = 0
----------------------------------------------------------------------------
(* The scanner *)

Send(kind) == LET n == IF sent < Later THEN sent + 1 ELSE Later
              IN  /\ link = "open" /\ Len(wire) + 2 <= MaxWire
                  /\ wire' = wire \o Frame(kind, n)
                  /\ sent' = n

SendScan ==
  /\ streaming /\ due /\ due' = FALSE
  /\ Send("scan")
  /\ UNCHANGED <<up, link, asked, streaming, lost, refused, socket, queue, age, rto, mainVars,
                 svcVars, mutex, signal, cloudAge>>

Answer(who, key) ==
  /\ <<who, key>> \in asked /\ asked' = asked \ {<<who, key>>}
  /\ Send(key)
  /\ streaming' = (streaming \/ <<who, key>> = <<"main", "LMDscandata">>)
  /\ UNCHANGED <<up, link, due, lost, refused, socket, queue, age, rto, mainVars, svcVars, mutex,
                 signal, cloudAge>>

AnswerSome == \E who \in {"main", "svc"}, key \in Keywords : Answer(who, key)

\* a request of a service it does not know or does not allow
Refuse ==
  /\ \E key \in Services : <<"svc", key>> \in asked /\ asked' = asked \ {<<"svc", key>>}
  /\ Send("sFA")
  /\ refused < Refusals /\ refused' = refused + 1
  /\ UNCHANGED <<up, link, streaming, due, lost, socket, queue, age, rto, mainVars, svcVars,
                 mutex, signal, cloudAge>>

\* the cable or the power fails, or the scanner closes the connection; the
\* last bytes may be lost
Lose ==
  /\ link = "open" /\ lost < Losses /\ lost' = lost + 1
  /\ up' \in BOOLEAN /\ link' \in {"gone", "fin"}
  /\ \E k \in {0} \cup Cuts(wire) : wire' = SubSeq(wire, 1, k)
  /\ asked' = {} /\ streaming' = FALSE /\ due' = FALSE
  /\ UNCHANGED <<sent, refused, socket, queue, age, rto, mainVars, svcVars, mutex, signal,
                 cloudAge>>

PowerOn ==
  /\ ~up /\ up' = TRUE
  /\ UNCHANGED <<link, wire, asked, streaming, due, sent, lost, refused, socket, queue, age,
                 rto, mainVars, svcVars, mutex, signal, cloudAge>>
----------------------------------------------------------------------------
(* The receive thread *)

Running == reader \in {"loop", "again"}

Received_nothingkept(buf, lucky) == [Parse(buf, lucky) EXCEPT !.rest = <<>>]   \* mutant

Received(buf, lucky) == Parse(buf, lucky)

\* recv, readCallbackFunction, processFrame and push
Receive ==
  /\ reader = "loop" /\ sock /\ wire # <<>>
  /\ \E k \in Cuts(wire), lucky \in BOOLEAN :
       LET got == Received(rx \o SubSeq(wire, 1, k), lucky)
       IN  /\ wire' = SubSeq(wire, k + 1, Len(wire))
           /\ rx' = got.rest
           /\ queue' = queue \o got.frames
           /\ mainWait' = IF got.frames = <<>> THEN mainWait ELSE Notified(mainWait)
           /\ svcWait'  = IF got.frames = <<>> THEN svcWait ELSE Notified(svcWait)
  /\ age' = 0
  /\ UNCHANGED <<device, sock, reader, stray, rto, main, request, ready, svc, wanted,
                 mutex, signal, cloudAge>>

\* recv returns 0, and the thread comes back once more, or an error, and it ends
ReceiveEnd ==
  /\ reader = "loop" /\ sock /\ wire = <<>> /\ link = "fin"
  /\ sock' = FALSE /\ reader' \in {"again", "ended"}
  /\ UNCHANGED <<device, wire, stray, rx, queue, age, rto, mainVars, svcVars, mutex, signal,
                 cloudAge>>

\* "Connection is not open, aborting"
ReaderEnd ==
  /\ reader \in {"loop", "again"} /\ ~sock /\ reader' = "ended"
  /\ UNCHANGED <<device, wire, sock, stray, rx, queue, age, rto, mainVars, svcVars, mutex,
                 signal, cloudAge>>

Reader == Receive \/ ReceiveEnd \/ ReaderEnd
----------------------------------------------------------------------------
(* main: connecting and initialising *)

others == <<svcVars, signal, cloudAge>>

\* the driver closes its socket, and the scanner notices
HangUp ==
  /\ sock' = FALSE /\ link' = "none" /\ wire' = <<>> /\ sent' = 0
  /\ asked' = {} /\ streaming' = FALSE /\ due' = FALSE
  /\ UNCHANGED <<up, lost, refused>>

\* init_device: open resets the time of the last message, and connects
Connect ==
  /\ main = "connect" /\ up
  /\ age' = Never /\ rto' = ReadTimeout
  /\ sock' = TRUE /\ link' = "open" /\ wire' = <<>> /\ sent' = 0
  /\ asked' = {} /\ streaming' = FALSE /\ due' = FALSE
  /\ stray' = (stray \/ Running) /\ reader' = "loop"
  /\ main' = "lock" /\ mainWait' = NoWait /\ request' = "SCdevicestate"
  /\ UNCHANGED <<up, lost, refused, rx, queue, ready, mutex, others>>

\* the connection fails, which nobody is told: open closes what there is
ConnectFails ==
  /\ main = "connect" /\ ~up /\ ~Running
  /\ age' = Never /\ rto' = ReadTimeout
  /\ HangUp /\ reader' = "none"
  /\ main' = "lock" /\ mainWait' = NoWait /\ request' = "SCdevicestate"
  /\ UNCHANGED <<stray, rx, queue, ready, mutex, others>>

\* the main loop, while rosOk
Loop(limit) == IF signal = "none" THEN main' = "wait" /\ mainWait' = Wait(limit)
                                  ELSE main' = "recreate" /\ mainWait' = NoWait

\* a failed initialisation starts over with a new scanner object, a failed
\* reinitialisation with the one there is
Failed == IF ready /\ signal = "none" THEN main' = "close" /\ mainWait' = NoWait
                                      ELSE main' = "recreate" /\ mainWait' = NoWait

Release == sopas' = "free" /\ retry' = 0

\* the loop of sendSopasAndCheckAnswer over what it found for a request that is
\* neither its reply nor an error: it takes the next one unless time is up
Wrong(key) == Popped(queue, {key}) \notin {key, "sFA"}
GoesOn == retry <= ReadTimeout
Again  == retry' = (IF retry = 0 THEN 1 ELSE retry) /\ UNCHANGED sopas

\* sendSopasAndCheckAnswer: the mutex, and the request
Ask ==
  /\ main = "lock" /\ sopas = "free"
  /\ IF sock
     THEN /\ sopas' = "main" /\ main' = "answer" /\ mainWait' = Wait(rto)
          /\ asked' = IF link = "open" THEN asked \cup {<<"main", request>>} ELSE asked
     ELSE Failed /\ UNCHANGED <<sopas, asked>>
  /\ UNCHANGED <<up, link, streaming, due, sent, lost, refused, wire, socket, queue, age, rto,
                 request, ready, retry, others>>

AnswerMissing ==
  /\ main = "answer" /\ ~Holds(queue, {request}) /\ Over(mainWait)
  /\ Failed /\ Release
  /\ UNCHANGED <<device, wire, socket, queue, age, rto, request, ready, others>>

\* nobody else takes what main finds: services ask under the mutex. An error
\* ends the initialisation at its first request only
TakeAnswer ==
  /\ main = "answer" /\ Holds(queue, {request}) /\ ~Wrong(request)
  /\ queue' = Rest(queue, {request}) /\ Release
  /\ IF request = "SCdevicestate" /\ Popped(queue, {request}) = "sFA"
     THEN Failed /\ UNCHANGED <<rto, request, ready>>
     ELSE /\ rto' = StartTimeout
          /\ IF request = "SCdevicestate"
             THEN request' = "LMDscandata" /\ main' = "lock" /\ mainWait' = NoWait
                  /\ UNCHANGED ready
             ELSE Loop(StartTimeout) /\ ready' = TRUE /\ UNCHANGED request
  /\ UNCHANGED <<device, wire, socket, age, others>>

\* a scan left from before the reinitialisation
SkipAnswer ==
  /\ main = "answer" /\ Holds(queue, {request}) /\ Wrong(request)
  /\ queue' = Rest(queue, {request})
  /\ IF GoesOn THEN Again /\ mainWait' = Wait(ReadTimeout) /\ UNCHANGED main
               ELSE Release /\ Failed
  /\ UNCHANGED <<device, wire, socket, age, rto, request, ready, others>>

\* DELETE_PTR(s_scanner), also behind the loop, closes the connection and joins the thread
Recreate ==
  /\ main = "recreate" /\ main' = "renew" /\ HangUp
  /\ UNCHANGED <<reader, stray, rx, queue, age, rto, mainWait, request, ready, mutex, others>>

Renew ==
  /\ main = "renew" /\ ~Running
  /\ main' = IF signal = "none" THEN "connect" ELSE "done"
  /\ reader' = "none" /\ rx' = <<>> /\ queue' = <<>>
  /\ UNCHANGED <<device, wire, sock, stray, age, rto, mainWait, request, ready, mutex, others>>
----------------------------------------------------------------------------
(* main: scans, and the monitor *)

ScanArrives ==
  /\ main = "wait" /\ Holds(queue, ScanKeys) /\ main' = "pop" /\ mainWait' = NoWait
  /\ UNCHANGED <<device, wire, socket, queue, age, rto, request, ready, mutex, others>>

ScanMissing ==
  /\ main = "wait" /\ Over(mainWait) /\ main' = "check" /\ mainWait' = NoWait
  /\ UNCHANGED <<device, wire, socket, queue, age, rto, request, ready, mutex, others>>

\* somebody may have taken what main has seen; the executor takes the point
\* cloud when no service keeps its thread busy
PopScan ==
  /\ main = "pop" /\ Holds(queue, ScanKeys)
  /\ queue' = Rest(queue, ScanKeys) /\ main' = "check"
  /\ cloudAge' = IF Popped(queue, ScanKeys) = "scan" /\ svc \in {"idle", "rest"}
                 THEN 0 ELSE cloudAge
  /\ UNCHANGED <<device, wire, socket, age, rto, mainWait, request, ready, mutex, svcVars,
                 signal>>

\* checkState: before the first message all is well
Check_norestart ==                                                      \* mutant
  /\ main = "check"
  /\ Loop(ReadTimeout) /\ rto' = ReadTimeout
  /\ UNCHANGED <<device, wire, socket, queue, age, request, ready, mutex, others>>

Check ==
  /\ main = "check"
  /\ rto' = IF age = Never THEN rto ELSE ReadTimeout
  /\ IF age # Never /\ age > rto /\ signal = "none"
     THEN main' = "close" /\ mainWait' = NoWait
     ELSE Loop(rto')
  /\ UNCHANGED <<device, wire, socket, queue, age, request, ready, mutex, others>>

\* reinit, close_device: nothing is closed when the thread did so itself
Close_nowait ==                                                         \* mutant
  /\ main = "close" /\ main' = "connect" /\ mainWait' = NoWait
  /\ HangUp
  /\ UNCHANGED <<reader, stray, rx, queue, age, rto, request, ready, mutex, others>>

Close ==
  /\ main = "close"
  /\ main' = IF sock THEN "join" ELSE "sleep"
  /\ mainWait' = Wait(ReadTimeout)
  /\ HangUp
  /\ UNCHANGED <<reader, stray, rx, queue, age, rto, request, ready, mutex, others>>

Join ==
  /\ main = "join" /\ ~Running
  /\ reader' = "none" /\ age' = Never
  /\ main' = "sleep"
  /\ UNCHANGED <<device, wire, sock, stray, rx, queue, rto, mainWait, request, ready, mutex,
                 others>>

Awake ==
  /\ main = "sleep" /\ Over(mainWait) /\ main' = "connect" /\ mainWait' = NoWait
  /\ UNCHANGED <<device, wire, socket, queue, age, rto, request, ready, mutex, others>>

Main == Connect \/ ConnectFails \/ Ask \/ AnswerMissing \/ TakeAnswer \/ SkipAnswer \/ Recreate
          \/ Renew \/ ScanArrives \/ ScanMissing \/ PopScan \/ Check \/ Close \/ Join \/ Awake
----------------------------------------------------------------------------
(* The executor's thread: services *)

quiet == <<wire, socket, age, rto, mainVars, cloudAge>>

\* somebody calls a service: at most one in a tick
Request ==
  /\ svc = "idle" /\ ready /\ signal = "none" /\ svc' = "lock"
  /\ wanted' \in Services
  /\ UNCHANGED <<device, quiet, queue, svcWait, mutex, signal>>

SvcAsk ==
  /\ svc = "lock" /\ sopas = "free" /\ signal = "none"
  /\ IF sock THEN /\ svc' = "wait" /\ sopas' = "svc" /\ svcWait' = Wait(rto)
                  /\ asked' = IF link = "open" THEN asked \cup {<<"svc", wanted>>} ELSE asked
             ELSE svc' = "rest" /\ UNCHANGED <<sopas, svcWait, asked>>
  /\ UNCHANGED <<up, link, streaming, due, sent, lost, refused, quiet, queue, wanted, retry,
                 signal>>

SvcArrives ==
  /\ svc = "wait" /\ Holds(queue, {wanted}) /\ signal = "none"
  /\ svc' = "pop" /\ svcWait' = NoWait
  /\ UNCHANGED <<device, quiet, queue, wanted, mutex, signal>>

SvcMissing_lockkept ==                                                   \* mutant
  /\ svc = "wait" /\ Over(svcWait) /\ signal = "none"
  /\ svc' = "rest" /\ svcWait' = NoWait
  /\ UNCHANGED <<device, quiet, queue, wanted, mutex, signal>>

SvcMissing ==
  /\ svc = "wait" /\ Over(svcWait) /\ signal = "none"
  /\ svc' = "rest" /\ svcWait' = NoWait /\ Release
  /\ UNCHANGED <<device, quiet, queue, wanted, signal>>

\* pop waits without a limit, for a datagram somebody may have taken; the loop
\* is that of sendSopasAndCheckAnswer
SvcPop ==
  /\ svc = "pop" /\ Holds(queue, {wanted}) /\ signal = "none"
  /\ queue' = Rest(queue, {wanted})
  /\ IF Wrong(wanted) /\ GoesOn
     THEN svc' = "wait" /\ svcWait' = Wait(ReadTimeout) /\ Again
     ELSE svc' = "rest" /\ Release /\ UNCHANGED svcWait
  /\ UNCHANGED <<device, quiet, wanted, signal>>

Svc == SvcAsk \/ SvcArrives \/ SvcMissing \/ SvcPop
----------------------------------------------------------------------------
(* The signal handler, on the same thread, and the point cloud monitor *)

Interrupt ==
  /\ signal = "none" /\ main # "killed" /\ signal' = "stop"
  /\ UNCHANGED <<device, quiet, queue, svcVars, mutex>>

\* stop_scanner sends without the mutex and does not wait; a read takes 1 s from now on
StopScanner ==
  /\ signal = "stop" /\ signal' = "join"
  /\ IF ready THEN rto' = 1 /\ streaming' = FALSE /\ due' = FALSE
              ELSE UNCHANGED <<rto, streaming, due>>
  /\ UNCHANGED <<up, link, asked, sent, lost, refused, wire, socket, age, mainVars,
                 cloudAge, queue, svcVars, mutex>>

Joined ==
  /\ signal = "join" /\ main = "done" /\ signal' = "exited"
  /\ UNCHANGED <<device, quiet, queue, svcVars, mutex>>

Handler == StopScanner \/ Joined

\* no point cloud for too long: kill -9, "and the node is restarted by ros"
Kill ==
  /\ cloudAge > KillTimeout
  /\ signal = "none" /\ main # "killed"
  /\ main' = "killed" /\ mainWait' = NoWait /\ ready' = FALSE
  /\ HangUp /\ reader' = "none" /\ rx' = <<>> /\ queue' = <<>>
  /\ svc' = "idle" /\ svcWait' = NoWait /\ Release
  /\ UNCHANGED <<stray, age, rto, request, wanted, signal, cloudAge>>
----------------------------------------------------------------------------
(* Time *)

MainWaits ==
  \/ main = "wait" /\ ~Holds(queue, ScanKeys) /\ ~Over(mainWait)
  \/ main = "pop" /\ ~Holds(queue, ScanKeys)
  \/ main = "answer" /\ ~Holds(queue, {request}) /\ ~Over(mainWait)
  \/ main = "lock" /\ sopas # "free"
  \/ main = "sleep" /\ ~Over(mainWait)
  \/ main = "connect" /\ ~up
  \/ main \in {"done", "killed"}

SvcWaits ==
  \/ svc \in {"idle", "rest"} \/ signal # "none"
  \/ svc = "wait" /\ ~Holds(queue, {wanted}) /\ ~Over(svcWait)
  \/ svc = "pop" /\ ~Holds(queue, {wanted})
  \/ svc = "lock" /\ sopas # "free"

ReaderWaits == reader = "loop" => sock /\ wire = <<>> /\ link # "fin"

Older(a, cap) == IF a < cap THEN a + 1 ELSE a
Passed(w) == [w EXCEPT !.passed = Older(@, w.limit)]

Tick ==
  /\ MainWaits /\ SvcWaits /\ ReaderWaits /\ reader # "again"
  /\ signal # "stop" /\ ~due /\ \A key \in Requests : <<"main", key>> \notin asked
  /\ age' = IF age = Never THEN age ELSE Older(age, Never - 1)
  /\ mainWait' = Passed(mainWait) /\ svcWait' = Passed(svcWait)
  /\ cloudAge' = Older(cloudAge, KillTimeout + 1)
  /\ retry' = IF retry = 0 THEN 0 ELSE Older(retry, ReadTimeout + 1)
  /\ due' = streaming
  /\ svc' = IF svc = "rest" THEN "idle" ELSE svc
  /\ UNCHANGED <<up, link, asked, streaming, sent, lost, refused, wire, socket, queue, rto,
                 main, request, ready, wanted, sopas, signal>>
----------------------------------------------------------------------------
Next ==
  \/ SendScan \/ AnswerSome \/ Lose \/ PowerOn
  \/ Reader \/ Main \/ Request \/ Svc \/ Interrupt \/ Handler \/ Tick

(* The scanner comes back and answers, every thread goes on, time passes,  *)
(* and a thread that waits for the mutex gets it some time.                *)
Fairness ==
  /\ WF_vars(PowerOn) /\ WF_vars(SendScan) /\ WF_vars(AnswerSome)
  /\ WF_vars(Reader) /\ WF_vars(Main) /\ WF_vars(Svc) /\ WF_vars(Handler)
  /\ SF_vars(Ask) /\ SF_vars(SvcAsk) /\ SF_vars(Tick)

Spec == Init /\ [][Next]_vars
FairSpec == Spec /\ Fairness

(* With requests the scanner refuses, and with the point cloud monitor. *)
RefusingSpec == Init /\ [][Next \/ Refuse]_vars /\ Fairness
MonitorSpec  == Init /\ [][Next \/ Kill]_vars /\ Fairness /\ WF_vars(Kill)
----------------------------------------------------------------------------
(* The variables have their types. *)
TypeOK ==
  /\ up \in BOOLEAN /\ link \in {"none", "open", "gone", "fin"}
  /\ wire \in Seq(Token) /\ Len(wire) <= MaxWire
  /\ asked \subseteq {"main", "svc"} \X Keywords /\ streaming \in BOOLEAN /\ due \in BOOLEAN
  /\ sent \in 0 .. Later /\ lost \in 0 .. Losses /\ refused \in 0 .. Refusals
  /\ sock \in BOOLEAN /\ reader \in {"none", "loop", "again", "ended"}
  /\ stray \in BOOLEAN /\ rx \in Seq(Token) /\ queue \in Seq(Kinds)
  /\ age \in 0 .. Never /\ rto \in 1 .. StartTimeout
  /\ main \in MainPcs /\ request \in Requests /\ ready \in BOOLEAN
  /\ {mainWait, svcWait} \subseteq [limit : Nat, passed : Nat]
  /\ svc \in {"idle", "lock", "wait", "pop", "rest"} /\ wanted \in Keywords
  /\ sopas \in {"free", "main", "svc"} /\ retry \in 0 .. ReadTimeout + 1
  /\ signal \in {"none", "stop", "join", "exited"} /\ cloudAge \in 0 .. KillTimeout + 1

(* No two receive threads read one connection, although open overwrites    *)
(* m_readThread without a join when the old thread had closed the socket   *)
(* by itself: the pause of reinit outlasts it.                             *)
OneReader == ~stray

(* What a thread has seen in the queue is there when it takes it, although *)
(* waitForIncomingObject and pop lock the queue one after the other, so    *)
(* that pop, which has no time limit, never waits: while no error reply    *)
(* comes, for a service whose keyword the scan loop does not look for and  *)
(* whose thread the signal handler has not taken, and for the scan loop    *)
(* where all services are of this kind. The services that are not, such as *)
(* LIDoutputstate's, and the scan loop may rob each other (LidarShared).   *)
PopNeverWaits ==
  /\ main = "pop" /\ Services \cap ScanKeys = {} => Holds(queue, ScanKeys)
  /\ svc = "pop" /\ wanted \notin ScanKeys /\ signal = "none" => Holds(queue, {wanted})

(* A broken connection costs the datagrams around the break and no more:   *)
(* from the third datagram of the next connection on every one whose last  *)
(* byte was received gets to the queue, however recv cuts them.            *)
FramesKept ==
  [][LET k   == Len(wire) - Len(wire')
         got == SubSeq(wire, 1, k)
     IN  (k > 0 /\ link' = link /\ sock' /\ \A i \in 1 .. k : got[i].nr = Later)
           => Len(queue') - Len(queue) = Cardinality({i \in 1 .. k : got[i].part = "tail"})]_vars

(* Whenever the connection breaks, silently or not, in operation, while    *)
(* the driver initialises or while a service waits: scans are published    *)
(* again, unless the process is told to stop. Like RequestReturns, for     *)
(* services whose keyword is none of ScanKeys: a service that was robbed   *)
(* of its reply holds the mutex that the reinitialisation needs.           *)
Recovers == <>(signal # "none") \/ []<><<PopScan>>_vars

(* A request of a service comes back, with the reply or without; "Set      *)
(* timeout in 5 seconds" (sick_scan_common_tcp.cpp:786). Not so where the  *)
(* scan loop looks for the same keyword (LidarShared), or for the error    *)
(* reply to a refused request (LidarRequest).                              *)
RequestReturns == (svc = "lock") ~> (svc = "rest" \/ signal # "none")

(* SIGINT and SIGTERM end the driver (rosSignalHandler, "stop and exit").  *)
Exits == (signal = "stop") ~> (signal = "exited")
=============================================================================
