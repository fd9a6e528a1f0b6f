-------------------------- MODULE LidarSessionProofs --------------------------
(***************************************************************************)
(* A session of the LiDAR driver never has two receive threads, loses no   *)
(* datagram but those around a break of the connection, and never waits in *)
(* a pop, for every time-out and number of broken connections.             *)
(*                                                                         *)
(* Tcp::open starts a thread without looking for the last one, and Tcp::   *)
(* close joins only a thread whose socket is still open. Handover says     *)
(* what makes this right: on the way to open the old thread was joined, or *)
(* it had closed the socket by itself and the pause of reinit, during      *)
(* which time passes, has outlasted it.                                    *)
(*                                                                         *)
(* reinit keeps what the receive buffer holds, so a new connection may     *)
(* start with the head of an old datagram in it. FramesInv says why this   *)
(* costs one datagram and not the alignment for good: the bytes on the     *)
(* wire are a stretch of the scanner's datagrams, and from the second      *)
(* datagram of a connection on the buffer holds just the head whose tail   *)
(* comes next. What Parse makes of a buffer of any length is shown by      *)
(* induction on the length.                                                *)
(*                                                                         *)
(* And a thread that saw its datagram in the queue finds it there when it  *)
(* takes it: NoErrors keeps the error replies out, which anybody finds,    *)
(* InOperation the replacement of the scanner object with its queue,       *)
(* Holders the other thread that asks, and the keywords the scan loop.     *)
(***************************************************************************)
EXTENDS LidarSession, FiniteSetTheorems, SequenceTheorems, TLAPS

Pausing == main \in {"join", "sleep"}

Handover ==
  /\ main = "connect" => ~Running
  /\ Pausing => /\ ~sock
                /\ mainWait = [limit |-> ReadTimeout, passed |-> mainWait.passed]
                /\ mainWait.passed \in Nat
  /\ main = "sleep" => (mainWait.passed > 0 => ~Running)

IInv == OneReader /\ Handover

(* Nothing runs before the first connection. *)
LEMMA InitHandover == Init => IInv
  BY DEF Init, IInv, OneReader, Handover, Running, Pausing

(* The scanner and its network touch neither threads nor the driver's waits. *)
LEMMA ScannerHandover ==
  ASSUME IInv, SendScan \/ AnswerSome \/ Lose \/ PowerOn
  PROVE  IInv'
<1>1. UNCHANGED <<main, mainWait, reader, sock, stray>>
  BY DEF SendScan, AnswerSome, Answer, Lose, PowerOn, socket, mainVars
<1> QED  BY <1>1 DEF IInv, OneReader, Handover, Running, Pausing

(* A receive thread only ever comes nearer to its end by itself. *)
LEMMA ReaderHandover == ASSUME IInv, Reader PROVE IInv'
<1>1. CASE Receive
  <2>1. sock /\ ~Pausing /\ UNCHANGED <<main, reader, sock, stray>>
    BY <1>1 DEF Receive, IInv, Handover
  <2> QED  BY <2>1 DEF IInv, OneReader, Handover, Running, Pausing
<1>2. CASE ReceiveEnd
  <2>1. sock /\ ~Pausing /\ main # "connect" /\ UNCHANGED <<main, stray>>
    BY <1>2 DEF ReceiveEnd, IInv, Handover, Running, mainVars
  <2> QED  BY <2>1 DEF IInv, OneReader, Handover, Running, Pausing
<1>3. CASE ReaderEnd
  <2>1. reader' = "ended" /\ UNCHANGED <<main, mainWait, sock, stray>>
    BY <1>3 DEF ReaderEnd, mainVars
  <2> QED  BY <2>1 DEF IInv, OneReader, Handover, Running, Pausing
<1> QED  BY <1>1, <1>2, <1>3 DEF Reader

(* main opens a connection only where no thread is left. *)
LEMMA MainHandover == ASSUME IInv, Main PROVE IInv'
<1> USE DEF IInv, OneReader, Handover, Pausing
<1>1. CASE Connect
  <2>1. ~Running /\ main' = "lock" /\ stray' = (stray \/ Running)
    BY <1>1 DEF Connect
  <2> QED  BY <2>1
<1>2. CASE ConnectFails
  BY <1>2 DEF ConnectFails
<1>3. CASE Ask
  BY <1>3 DEF Ask, Failed, socket
<1>4. CASE AnswerMissing
  BY <1>4 DEF AnswerMissing, Failed, socket
<1>5. CASE TakeAnswer \/ SkipAnswer
  BY <1>5 DEF TakeAnswer, SkipAnswer, Loop, Failed, socket
<1>6. CASE Recreate
  BY <1>6 DEF Recreate
<1>7. CASE Renew
  BY <1>7 DEF Renew, Running
<1>8. CASE ScanArrives \/ ScanMissing
  BY <1>8 DEF ScanArrives, ScanMissing, socket
<1>9. CASE PopScan
  BY <1>9 DEF PopScan, socket
<1>10. CASE Check
  BY <1>10 DEF Check, Loop, socket
<1>11. CASE Close
  <2>1. /\ main' \in {"join", "sleep"} /\ ~sock' /\ stray' = stray
        /\ mainWait' = [limit |-> ReadTimeout, passed |-> 0]
    BY <1>11 DEF Close, HangUp, Wait
  <2> QED  BY <2>1
<1>12. CASE Join
  BY <1>12 DEF Join, Running
<1>13. CASE Awake
  <2>1. mainWait.passed = ReadTimeout
    BY <1>13 DEF Awake, Over
  <2>2. ~Running /\ main' = "connect" /\ UNCHANGED <<reader, stray>>
    BY <2>1, <1>13, LidarAssumption DEF Awake, socket
  <2> QED  BY <2>2 DEF Running
<1> QED
  BY <1>1, <1>2, <1>3, <1>4, <1>5, <1>6, <1>7, <1>8, <1>9, <1>10, <1>11, <1>12, <1>13 DEF Main

(* Time passes during the pause only when a thread without a socket has ended. *)
LEMMA TickHandover == ASSUME IInv, Tick PROVE IInv'
<1>1. /\ UNCHANGED <<main, reader, sock, stray>>
      /\ mainWait' = Passed(mainWait)
      /\ ~sock => ~Running
  BY DEF Tick, ReaderWaits, Running, socket
<1>2. CASE Pausing
  <2>1. /\ mainWait'.passed \in Nat
        /\ mainWait' = [limit |-> ReadTimeout, passed |-> mainWait'.passed]
    BY <1>1, <1>2, LidarAssumption DEF IInv, Handover, Passed, Older
  <2>2. ~Running /\ ~sock
    BY <1>1, <1>2 DEF IInv, Handover
  <2> QED  BY <1>1, <2>1, <2>2 DEF IInv, OneReader, Handover, Running, Pausing
<1>3. CASE ~Pausing
  BY <1>1, <1>3 DEF IInv, OneReader, Handover, Running, Pausing
<1> QED  BY <1>2, <1>3

(* Services and the signal handler leave the connection alone. *)
LEMMA OthersHandover ==
  ASSUME IInv, Request \/ Svc \/ Interrupt \/ Handler
  PROVE  IInv'
<1>1. UNCHANGED <<main, mainWait, reader, sock, stray>>
  BY DEF Request, Svc, SvcAsk, SvcArrives, SvcMissing, SvcPop, Interrupt, Handler, StopScanner,
     Joined, quiet, socket, mainVars
<1> QED  BY <1>1 DEF IInv, OneReader, Handover, Running, Pausing

(* No two receive threads read one connection, whenever it breaks and      *)
(* however often, although open starts a thread without a join.            *)
THEOREM OneReaderAlways == Spec => []OneReader
<1>1. Init => IInv
  BY InitHandover
<1>2. IInv /\ [Next]_vars => IInv'
  <2> SUFFICES ASSUME IInv, [Next]_vars PROVE IInv'
    OBVIOUS
  <2>1. CASE Next
    BY <2>1, ScannerHandover, ReaderHandover, MainHandover, TickHandover, OthersHandover DEF Next
  <2>2. CASE UNCHANGED vars
    BY <2>2 DEF vars, socket, mainVars, IInv, OneReader, Handover, Running, Pausing
  <2> QED  BY <2>1, <2>2
<1>3. IInv => OneReader
  BY DEF IInv
<1> QED  BY <1>1, <1>2, <1>3, PTL DEF Spec
-----------------------------------------------------------------------------
(* What Parse makes of a buffer *)

(* A nonempty set of natural numbers has a least element. *)
LEMMA Least ==
  ASSUME NEW T \in SUBSET Nat, T # {}
  PROVE  \E n \in T : \A m \in T : n <= m
<1> DEFINE R == {ss \in Nat \X Nat : ss[1] < ss[2]}
<1>1. IsWellFoundedOn(R, Nat)
  BY NatLessThanWellFounded DEF OpToRel
<1>2. \E n \in T : \A m \in T : <<m, n>> \notin R
  <2> HIDE DEF R
  <2> QED BY <1>1, WFMin
<1>3. PICK n \in T : \A m \in T : <<m, n>> \notin R
  BY <1>2
<1>4. ASSUME NEW m \in T PROVE n <= m
  <2>1. <<m, n>> \notin R  BY <1>3
  <2> QED BY <2>1
<1> QED BY <1>4

(* Complete induction, for sets. *)
LEMMA Induction ==
  ASSUME NEW S, \A n \in Nat : (\A m \in 0 .. n - 1 : m \in S) => n \in S
  PROVE  Nat \subseteq S
<1> SUFFICES ASSUME Nat \ S # {} PROVE FALSE
  OBVIOUS
<1>1. PICK n \in Nat \ S : \A m \in Nat \ S : n <= m
  BY Least
<1>2. \A m \in 0 .. n - 1 : m \in S
  BY <1>1
<1> QED BY <1>1, <1>2

\* A step of the loop of Parse, f being the parser of what remains.
LoopBody(f, b, lucky) ==
  LET at == MagicAt(b)
      more == f[SubSeq(b, 3, Len(b))]
  IN  CASE at = 0                           -> Nothing(<<>>)
        [] at > 1                           -> f[SubSeq(b, at, Len(b))]
        [] at = 1 /\ Len(b) = 1             -> Nothing(b)
        [] at = 1 /\ Len(b) > 1 /\ (b[2].part = "tail" \/ lucky) ->
             [more EXCEPT !.frames = <<b[1].kind>> \o @]
        [] OTHER                            -> Nothing(<<>>)

Parser(lucky) == CHOOSE f : f = [b \in Seq(Token) |-> LoopBody(f, b, lucky)]

(* Parse applies one parser to the buffer. *)
LEMMA ParserIs == \A buf, lucky : Parse(buf, lucky) = Parser(lucky)[buf]
  BY DEF Parse, Parser, LoopBody

(* MagicAt finds the first head, if there is one. *)
LEMMA MagicIsFirst ==
  ASSUME NEW b \in Seq(Token)
  PROVE  /\ MagicAt(b) \in 0 .. Len(b)
         /\ MagicAt(b) = 0 <=> \A i \in DOMAIN b : b[i].part # "head"
         /\ MagicAt(b) # 0 => /\ b[MagicAt(b)].part = "head"
                              /\ \A j \in 1 .. MagicAt(b) - 1 : b[j].part = "tail"
<1> DEFINE H == {i \in DOMAIN b : b[i].part = "head"}
<1>1. CASE H = {}
  BY <1>1 DEF MagicAt
<1>2. CASE H # {}
  <2>1. H \in SUBSET Nat  OBVIOUS
  <2>2. PICK n \in H : \A m \in H : n <= m
    <3> HIDE DEF H
    <3> QED BY <1>2, <2>1, Least
  <2>3. b[n].part = "head" /\ \A j \in 1 .. n - 1 : b[j].part = "tail"
    <3>1. ASSUME NEW j \in 1 .. n - 1 PROVE b[j].part = "tail"
      <4>1. j \in DOMAIN b /\ j \notin H  BY <2>2
      <4>2. b[j] \in Token /\ b[j].part # "head"  BY <4>1
      <4> QED BY <4>2 DEF Token
    <3> QED BY <2>2, <3>1
  <2>4. MagicAt(b) = CHOOSE i \in DOMAIN b :
                       b[i].part = "head" /\ \A j \in 1 .. i - 1 : b[j].part = "tail"
    BY <2>2 DEF MagicAt
  <2> QED BY <2>2, <2>3, <2>4
<1> QED BY <1>1, <1>2

(* A step of the loop looks at what it makes of shorter buffers only. *)
LEMMA BodyLocal ==
  ASSUME NEW b \in Seq(Token), NEW lucky \in BOOLEAN, NEW f, NEW g,
         \A c \in Seq(Token) : Len(c) < Len(b) => f[c] = g[c]
  PROVE  LoopBody(f, b, lucky) = LoopBody(g, b, lucky)
<1> DEFINE at == MagicAt(b)
<1>1. at \in 0 .. Len(b)  BY MagicIsFirst
<1>2. CASE at = 0
  BY <1>2 DEF LoopBody
<1>3. CASE at > 1
  <2>1. SubSeq(b, at, Len(b)) \in Seq(Token) /\ Len(SubSeq(b, at, Len(b))) < Len(b)
    <3> HIDE DEF at
    <3> QED BY <1>1, <1>3
  <2>2. f[SubSeq(b, at, Len(b))] = g[SubSeq(b, at, Len(b))]  BY <2>1
  <2> QED BY <1>3, <2>2 DEF LoopBody
<1>4. CASE at = 1
  <2>1. SubSeq(b, 3, Len(b)) \in Seq(Token) /\ Len(SubSeq(b, 3, Len(b))) < Len(b)
    BY <1>1, <1>4
  <2>2. f[SubSeq(b, 3, Len(b))] = g[SubSeq(b, 3, Len(b))]  BY <2>1
  <2> QED BY <1>4, <2>2 DEF LoopBody
<1> QED BY <1>1, <1>2, <1>3, <1>4

\* f is a parser of the buffers of D.
Solves(f, D, lucky) == f = [b \in D |-> LoopBody(f, b, lucky)]
Shorter(n) == {b \in Seq(Token) : Len(b) < n}

(* A solution satisfies the equation at every buffer. *)
LEMMA SolvesValue ==
  ASSUME NEW f, NEW D, NEW lucky, Solves(f, D, lucky), NEW b \in D
  PROVE  f[b] = LoopBody(f, b, lucky)
  BY DEF Solves

(* Two solutions agree wherever both are defined. *)
LEMMA SolutionUnique ==
  ASSUME NEW lucky \in BOOLEAN, NEW m \in Nat, NEW n \in Nat, NEW f, NEW g,
         Solves(f, Shorter(m), lucky), Solves(g, Shorter(n), lucky)
  PROVE  \A b \in Shorter(m) \cap Shorter(n) : f[b] = g[b]
<1> DEFINE D == Shorter(m) \cap Shorter(n)
           S == {k \in Nat : \A b \in D : Len(b) = k => f[b] = g[b]}
<1>1. ASSUME NEW k \in Nat, \A i \in 0 .. k - 1 : i \in S
      PROVE  k \in S
  <2> SUFFICES ASSUME NEW b \in D, Len(b) = k PROVE f[b] = g[b]
    OBVIOUS
  <2>1. \A c \in Seq(Token) : Len(c) < Len(b) => f[c] = g[c]
    <3> SUFFICES ASSUME NEW c \in Seq(Token), Len(c) < Len(b) PROVE f[c] = g[c]
      OBVIOUS
    <3>1. b \in Seq(Token) /\ Len(b) < m /\ Len(b) < n  BY DEF Shorter
    <3>2. Len(c) \in Nat /\ Len(b) \in Nat  BY <3>1
    <3>3. c \in D  BY <3>1, <3>2 DEF Shorter
    <3>4. Len(c) \in S  BY <1>1, <3>2
    <3> QED BY <3>3, <3>4
  <2>2. b \in Seq(Token)  BY DEF Shorter
  <2>3. LoopBody(f, b, lucky) = LoopBody(g, b, lucky)
    <3> HIDE DEF D, S
    <3> QED  BY <2>1, <2>2, BodyLocal
  <2> QED BY <2>3, SolvesValue
<1>2. Nat \subseteq S
  <2> HIDE DEF S
  <2> QED BY <1>1, Induction
<1>3. ASSUME NEW b \in D PROVE f[b] = g[b]
  <2>1. Len(b) \in Nat  BY DEF Shorter
  <2> QED BY <1>2, <2>1
<1> QED BY <1>3

(* What solves the equation up to a length solves it up to any. *)
LEMMA SolutionExtends ==
  ASSUME NEW lucky \in BOOLEAN, NEW D \in SUBSET Seq(Token),
         \A b \in D : \E f : Solves(f, Shorter(Len(b)), lucky),
         \A b \in D, c \in Seq(Token) : Len(c) < Len(b) => c \in D
  PROVE  \E g : Solves(g, D, lucky)
<1> DEFINE at(b) == CHOOSE f : Solves(f, Shorter(Len(b)), lucky)
           g == [b \in D |-> LoopBody(at(b), b, lucky)]
<1>1. ASSUME NEW b \in D PROVE Solves(at(b), Shorter(Len(b)), lucky)
  BY <1>1
<1> HIDE DEF at
<1>2. ASSUME NEW b \in D, NEW c \in Seq(Token), Len(c) < Len(b)
      PROVE  at(b)[c] = g[c]
  <2>1. c \in D /\ c \in Shorter(Len(b))  BY <1>2 DEF Shorter
  <2>2. at(b)[c] = LoopBody(at(b), c, lucky)
    BY <1>1, <2>1, SolvesValue
  <2>3. \A d \in Seq(Token) : Len(d) < Len(c) => at(b)[d] = at(c)[d]
    <3> SUFFICES ASSUME NEW d \in Seq(Token), Len(d) < Len(c) PROVE at(b)[d] = at(c)[d]
      OBVIOUS
    <3>1. Len(b) \in Nat /\ Len(c) \in Nat /\ Len(d) \in Nat  OBVIOUS
    <3>2. d \in Shorter(Len(b)) \cap Shorter(Len(c))  BY <1>2, <3>1 DEF Shorter
    <3>3. Solves(at(b), Shorter(Len(b)), lucky) /\ Solves(at(c), Shorter(Len(c)), lucky)
      BY <1>1, <2>1
    <3> QED BY <3>1, <3>2, <3>3, SolutionUnique
  <2>4. LoopBody(at(b), c, lucky) = LoopBody(at(c), c, lucky)
    BY <2>3, BodyLocal
  <2> QED BY <2>1, <2>2, <2>4
<1>3. ASSUME NEW b \in D PROVE LoopBody(at(b), b, lucky) = LoopBody(g, b, lucky)
  <2>1. \A c \in Seq(Token) : Len(c) < Len(b) => at(b)[c] = g[c]  BY <1>2
  <2> HIDE DEF g
  <2> QED BY <2>1, BodyLocal
<1>4. g = [b \in D |-> LoopBody(g, b, lucky)]
  BY <1>3
<1> HIDE DEF g
<1> QED BY <1>4 DEF Solves

(* The equation of the loop has a solution for buffers of all lengths. *)
LEMMA SolutionExists ==
  ASSUME NEW lucky \in BOOLEAN
  PROVE  \E g : Solves(g, Seq(Token), lucky)
<1> DEFINE S == {n \in Nat : \E f : Solves(f, Shorter(n), lucky)}
<1>1. ASSUME NEW n \in Nat, \A k \in 0 .. n - 1 : k \in S
      PROVE  n \in S
  <2>1. \A b \in Shorter(n) : \E f : Solves(f, Shorter(Len(b)), lucky)
    <3> SUFFICES ASSUME NEW b \in Shorter(n) PROVE Len(b) \in S
      OBVIOUS
    <3>1. Len(b) \in Nat /\ Len(b) < n  BY DEF Shorter
    <3> QED BY <1>1, <3>1
  <2>2. \A b \in Shorter(n), c \in Seq(Token) : Len(c) < Len(b) => c \in Shorter(n)
    <3> SUFFICES ASSUME NEW b \in Shorter(n), NEW c \in Seq(Token), Len(c) < Len(b)
                 PROVE  c \in Shorter(n)
      OBVIOUS
    <3>1. Len(b) \in Nat /\ Len(b) < n /\ Len(c) \in Nat  BY DEF Shorter
    <3> QED BY <3>1 DEF Shorter
  <2>3. Shorter(n) \in SUBSET Seq(Token)  BY DEF Shorter
  <2>4. \E f : Solves(f, Shorter(n), lucky)  BY <2>1, <2>2, <2>3, SolutionExtends
  <2> QED BY <2>4
<1>2. Nat \subseteq S
  <2> HIDE DEF S
  <2> QED BY <1>1, Induction
<1>3. \A b \in Seq(Token) : \E f : Solves(f, Shorter(Len(b)), lucky)
  <2> SUFFICES ASSUME NEW b \in Seq(Token) PROVE Len(b) \in S
    OBVIOUS
  <2> QED BY <1>2
<1>4. Seq(Token) \in SUBSET Seq(Token)  OBVIOUS
<1> QED BY <1>3, <1>4, SolutionExtends

(* So Parse satisfies its recursive equation. *)
LEMMA ParseEquation ==
  ASSUME NEW lucky \in BOOLEAN, NEW b \in Seq(Token)
  PROVE  Parse(b, lucky) = LoopBody(Parser(lucky), b, lucky)
<1>1. Solves(Parser(lucky), Seq(Token), lucky)
  BY SolutionExists DEF Solves, Parser
<1> QED BY <1>1, SolvesValue, ParserIs

(* Nothing is found in an empty buffer. *)
LEMMA ParseEmpty ==
  ASSUME NEW lucky \in BOOLEAN
  PROVE  Parse(<<>>, lucky) = Nothing(<<>>)
<1>1. <<>> \in Seq(Token) /\ MagicAt(<<>>) = 0  BY DEF MagicAt
<1>2. LoopBody(Parser(lucky), <<>>, lucky) = Nothing(<<>>)
  BY <1>1 DEF LoopBody
<1> QED BY <1>1, <1>2, ParseEquation

(* A head at the front is where the loop starts. *)
LEMMA HeadFirst ==
  ASSUME NEW b \in Seq(Token), b # <<>>, b[1].part = "head"
  PROVE  MagicAt(b) = 1
<1>1. 1 \in DOMAIN b  OBVIOUS
<1>2. MagicAt(b) \in 1 .. Len(b)  BY <1>1, MagicIsFirst
<1>3. ~(MagicAt(b) > 1)  BY <1>2, MagicIsFirst
<1> QED BY <1>2, <1>3

(* A head alone is kept. *)
LEMMA ParseHead ==
  ASSUME NEW lucky \in BOOLEAN, NEW b \in Seq(Token), Len(b) = 1, b[1].part = "head"
  PROVE  Parse(b, lucky) = Nothing(b)
<1>1. MagicAt(b) = 1  BY HeadFirst
<1>2. LoopBody(Parser(lucky), b, lucky) = Nothing(b)
  BY <1>1 DEF LoopBody
<1> QED BY <1>1, <1>2, ParseEquation

(* A head and what passes for its tail are a datagram. *)
LEMMA ParseFrame ==
  ASSUME NEW lucky \in BOOLEAN, NEW b \in Seq(Token), Len(b) > 1, b[1].part = "head",
         b[2].part = "tail" \/ lucky
  PROVE  LET more == Parse(SubSeq(b, 3, Len(b)), lucky)
         IN  Parse(b, lucky) = [more EXCEPT !.frames = <<b[1].kind>> \o @]
<1>1. MagicAt(b) = 1  BY HeadFirst
<1>2. LoopBody(Parser(lucky), b, lucky)
        = [Parser(lucky)[SubSeq(b, 3, Len(b))] EXCEPT !.frames = <<b[1].kind>> \o @]
  BY <1>1 DEF LoopBody
<1> QED BY <1>1, <1>2, ParserIs, ParseEquation

(* A head behind a head throws everything away. *)
LEMMA ParseThrown ==
  ASSUME NEW lucky \in BOOLEAN, NEW b \in Seq(Token), Len(b) > 1, b[1].part = "head",
         b[2].part # "tail", ~lucky
  PROVE  Parse(b, lucky) = Nothing(<<>>)
<1>1. MagicAt(b) = 1  BY HeadFirst
<1>2. LoopBody(Parser(lucky), b, lucky) = Nothing(<<>>)
  BY <1>1 DEF LoopBody
<1> QED BY <1>1, <1>2, ParseEquation

(* A tail at the front is skipped. *)
LEMMA ParseSkip ==
  ASSUME NEW lucky \in BOOLEAN, NEW b \in Seq(Token), Len(b) > 1, b[1].part = "tail",
         b[2].part = "head"
  PROVE  Parse(b, lucky) = Parse(SubSeq(b, 2, Len(b)), lucky)
<1>1. MagicAt(b) = 2
  <2>1. 1 \in DOMAIN b /\ 2 \in DOMAIN b  OBVIOUS
  <2>2. MagicAt(b) \in 1 .. Len(b)  BY <2>1, MagicIsFirst
  <2>3. MagicAt(b) # 1  BY MagicIsFirst
  <2>4. ~(MagicAt(b) > 2)  BY <2>2, MagicIsFirst
  <2> QED BY <2>2, <2>3, <2>4
<1>2. LoopBody(Parser(lucky), b, lucky) = Parser(lucky)[SubSeq(b, 2, Len(b))]
  BY <1>1 DEF LoopBody
<1> QED BY <1>1, <1>2, ParserIs, ParseEquation

(* A tail alone is dropped. *)
LEMMA ParseTail ==
  ASSUME NEW lucky \in BOOLEAN, NEW b \in Seq(Token), Len(b) = 1, b[1].part = "tail"
  PROVE  Parse(b, lucky) = Nothing(<<>>)
<1>1. MagicAt(b) = 0
  <2>1. MagicAt(b) # 1 /\ MagicAt(b) \in 0 .. 1  BY MagicIsFirst
  <2> QED BY <2>1
<1>2. LoopBody(Parser(lucky), b, lucky) = Nothing(<<>>)
  BY <1>1 DEF LoopBody
<1> QED BY <1>1, <1>2, ParseEquation

\* What can stay in the receive buffer.
Kept == {r \in Seq(Token) : r = <<>> \/ (Len(r) = 1 /\ r[1].part = "head")}

\* The tokens of some kinds of datagrams, and what stays of them.
TokensOf(K) == [kind : K, part : {"head", "tail"}, nr : 1 .. Later]
KeptOf(K) == Kept \cap Seq(TokensOf(K))

(* What is found are datagrams of the kinds there are, what is kept is a *)
(* head or nothing.                                                      *)
LEMMA ParseKinds ==
  ASSUME NEW K \in SUBSET Kinds, NEW lucky \in BOOLEAN, NEW b \in Seq(TokensOf(K))
  PROVE  Parse(b, lucky) \in [frames : Seq(K), rest : KeptOf(K)]
<1> DEFINE T == [frames : Seq(K), rest : KeptOf(K)]
           S == {n \in Nat : \A c \in Seq(TokensOf(K)) : Len(c) = n => Parse(c, lucky) \in T}
<1>0. TokensOf(K) \subseteq Token /\ Seq(TokensOf(K)) \subseteq Seq(Token)
  <2>1. TokensOf(K) \subseteq Token  BY DEF TokensOf, Token
  <2> QED BY <2>1
<1>1. Nothing(<<>>) \in T  BY DEF Nothing, Kept, KeptOf
<1>2. ASSUME NEW n \in Nat, \A k \in 0 .. n - 1 : k \in S
      PROVE  n \in S
  <2> SUFFICES ASSUME NEW c \in Seq(TokensOf(K)), Len(c) = n PROVE Parse(c, lucky) \in T
    OBVIOUS
  <2>1. ASSUME NEW d \in Seq(TokensOf(K)), Len(d) < n PROVE Parse(d, lucky) \in T
    <3>1. Len(d) \in 0 .. n - 1  BY <2>1
    <3> QED BY <1>2, <3>1
  <2>0. c \in Seq(Token)  BY <1>0
  <2> HIDE DEF S
  <2> DEFINE at == MagicAt(c)
  <2>2. at \in 0 .. Len(c)  BY <2>0, MagicIsFirst
  <2>3. CASE at = 0
    <3>1. LoopBody(Parser(lucky), c, lucky) = Nothing(<<>>)  BY <2>3 DEF LoopBody
    <3> QED BY <3>1, <1>1, <2>0, ParseEquation
  <2>4. CASE at > 1
    <3>1. Parse(c, lucky) = Parse(SubSeq(c, at, Len(c)), lucky)
      <4>1. LoopBody(Parser(lucky), c, lucky) = Parser(lucky)[SubSeq(c, at, Len(c))]
        BY <2>4 DEF LoopBody
      <4> HIDE DEF at
      <4> QED  BY <4>1, <2>0, ParserIs, ParseEquation
    <3> HIDE DEF at
    <3>2. SubSeq(c, at, Len(c)) \in Seq(TokensOf(K)) /\ Len(SubSeq(c, at, Len(c))) < n
      BY <2>2, <2>4
    <3> QED BY <3>1, <3>2, <2>1
  <2>5. CASE at = 1
    <3>1. c # <<>> /\ c[1].part = "head"  BY <2>0, <2>2, <2>5, MagicIsFirst
    <3>2. CASE Len(c) = 1
      <4>1. Nothing(c) \in T  BY <2>0, <3>1, <3>2 DEF Nothing, Kept, KeptOf
      <4> QED BY <4>1, <2>0, <3>1, <3>2, ParseHead
    <3>3. CASE Len(c) > 1 /\ (c[2].part = "tail" \/ lucky)
      <4> DEFINE d == SubSeq(c, 3, Len(c))
      <4>1. d \in Seq(TokensOf(K)) /\ Len(d) < n  BY <3>3
      <4>2. Parse(d, lucky) \in T  BY <4>1, <2>1
      <4>3. c[1].kind \in K
        <5>1. c[1] \in TokensOf(K)  BY <3>3
        <5> QED BY <5>1 DEF TokensOf
      <4>4. Parse(c, lucky) = [Parse(d, lucky) EXCEPT !.frames = <<c[1].kind>> \o @]
        BY <2>0, <3>1, <3>3, ParseFrame
      <4>5. <<c[1].kind>> \o Parse(d, lucky).frames \in Seq(K)
        <5> HIDE DEF d
        <5> QED BY <4>2, <4>3
      <4> HIDE DEF d
      <4> QED BY <4>2, <4>4, <4>5
    <3>4. CASE Len(c) > 1 /\ c[2].part # "tail" /\ ~lucky
      BY <1>1, <2>0, <3>1, <3>4, ParseThrown
    <3> QED BY <3>1, <3>2, <3>3, <3>4
  <2> QED BY <2>2, <2>3, <2>4, <2>5
<1>3. Nat \subseteq S
  <2> HIDE DEF S
  <2> QED BY <1>2, Induction
<1>4. Len(b) \in S  BY <1>3
<1> QED BY <1>4

(* Parse of any datagrams. *)
LEMMA ParseTypes ==
  ASSUME NEW lucky \in BOOLEAN, NEW b \in Seq(Token)
  PROVE  Parse(b, lucky) \in [frames : Seq(Kinds), rest : Kept]
<1>1. Token = TokensOf(Kinds)  BY DEF Token, TokensOf
<1>2. Parse(b, lucky) \in [frames : Seq(Kinds), rest : KeptOf(Kinds)]
  BY <1>1, ParseKinds
<1> QED BY <1>2 DEF KeptOf

\* Heads and tails take turns, from a head on.
Alternates(s) == \A i \in 1 .. Len(s) - 1 : s[i].part # s[i + 1].part

Starts(b) == Alternates(b) /\ (b = <<>> \/ b[1].part = "head")

\* What Parse makes of b: every datagram, and a head at the end is kept
AllFound(b, p) ==
  /\ 2 * Len(p.frames) + Len(p.rest) = Len(b)
  /\ p.rest = IF b # <<>> /\ b[Len(b)].part = "head" THEN <<b[Len(b)]>> ELSE <<>>

(* In a buffer that starts with a head every whole datagram is found. *)
LEMMA ParseAligned ==
  ASSUME NEW lucky \in BOOLEAN, NEW b \in Seq(Token), Starts(b)
  PROVE  AllFound(b, Parse(b, lucky))
<1> DEFINE S == {n \in Nat : \A c \in Seq(Token) :
                                Len(c) = n /\ Starts(c) => AllFound(c, Parse(c, lucky))}
<1>1. ASSUME NEW n \in Nat, \A k \in 0 .. n - 1 : k \in S
      PROVE  n \in S
  <2> SUFFICES ASSUME NEW c \in Seq(Token), Len(c) = n, Starts(c)
               PROVE  AllFound(c, Parse(c, lucky))
    OBVIOUS
  <2>1. CASE c = <<>>
    <3>1. Parse(c, lucky) = [frames |-> <<>>, rest |-> <<>>]  BY <2>1, ParseEmpty DEF Nothing
    <3>2. Parse(c, lucky).frames = <<>> /\ Parse(c, lucky).rest = <<>>  BY <3>1
    <3>3. Len(<<>>) = 0 /\ 2 * 0 + 0 = 0  OBVIOUS
    <3>4. 2 * Len(Parse(c, lucky).frames) + Len(Parse(c, lucky).rest) = Len(c)
      BY <2>1, <3>2, <3>3
    <3> QED BY <2>1, <3>2, <3>4 DEF AllFound
  <2>2. CASE Len(c) = 1
    <3>1. Parse(c, lucky) = [frames |-> <<>>, rest |-> c]
      BY <2>2, ParseHead DEF Nothing, Starts
    <3>2. c = <<c[1]>>  BY <2>2
    <3> QED BY <2>2, <3>1, <3>2 DEF AllFound, Starts
  <2>3. CASE Len(c) > 1
    <3> DEFINE d == SubSeq(c, 3, Len(c))
               p == Parse(d, lucky)
    <3>1. /\ d \in Seq(Token) /\ Len(d) = n - 2
          /\ \A i \in 1 .. Len(d) : d[i] = c[i + 2]
      BY <2>3
    <3>2. /\ c[1].part = "head" /\ c[2].part # "head"
          /\ n > 2 => c[2].part # c[3].part
      BY <2>3 DEF Alternates, Starts
    <3>3. c[2].part = "tail" /\ (n > 2 => c[3].part = "head")
      <4>1. c[2] \in Token /\ (n > 2 => c[3] \in Token)  BY <2>3
      <4> QED BY <3>2, <4>1 DEF Token
    <3>4. Starts(d)
      <4>1. Alternates(d)
        <5> SUFFICES ASSUME NEW i \in 1 .. Len(d) - 1 PROVE d[i].part # d[i + 1].part
          BY DEF Alternates
        <5>1. c[i + 2].part # c[i + 3].part  BY <3>1 DEF Alternates, Starts
        <5> QED BY <3>1, <5>1
      <4>2. d # <<>> => d[1].part = "head"  BY <3>1, <3>3
      <4> QED BY <4>1, <4>2 DEF Starts
    <3>5. AllFound(d, p)
      <4>1. Len(d) \in 0 .. n - 1  BY <3>1
      <4> HIDE DEF d
      <4> QED BY <1>1, <3>1, <3>4, <4>1
    <3>6. Parse(c, lucky) = [p EXCEPT !.frames = <<c[1].kind>> \o @]
      BY <2>3, <3>2, <3>3, ParseFrame
    <3>7. p \in [frames : Seq(Kinds), rest : Kept]  BY <3>1, ParseTypes
    <3>8. c[1].kind \in Kinds
      <4>1. c[1] \in Token  BY <2>3
      <4> QED BY <4>1 DEF Token
    <3>9. d # <<>> => d[Len(d)] = c[Len(c)]
      <4> SUFFICES ASSUME d # <<>> PROVE d[Len(d)] = c[Len(c)]
        OBVIOUS
      <4>1. Len(d) \in 1 .. Len(d) /\ Len(d) + 2 = Len(c)  BY <3>1
      <4> HIDE DEF d
      <4> QED BY <3>1, <4>1
    <3>10. d = <<>> => Len(c) = 2 /\ c[Len(c)].part = "tail"
      BY <2>3, <3>1, <3>3
    <3>11. /\ Parse(c, lucky).rest = p.rest
           /\ Len(Parse(c, lucky).frames) = Len(p.frames) + 1
      <4> HIDE DEF p
      <4> QED BY <3>6, <3>7, <3>8
    <3>12. Len(p.rest) \in Nat /\ Len(p.frames) \in Nat
      <4> HIDE DEF p
      <4> QED  BY <3>7 DEF Kept
    <3> HIDE DEF d, p
    <3>13. 2 * Len(Parse(c, lucky).frames) + Len(Parse(c, lucky).rest) = Len(c)
      <4>1. 2 * Len(p.frames) + Len(p.rest) = Len(d)  BY <3>5 DEF AllFound
      <4>2. Len(d) = Len(c) - 2 /\ Len(c) \in Nat  BY <3>1
      <4> HIDE DEF d, p
      <4>4. 2 * (Len(p.frames) + 1) + Len(p.rest) = Len(c)
        <5>1. PICK x \in Nat : x = Len(p.frames)  BY <3>12
        <5>2. PICK y \in Nat : y = Len(p.rest)  BY <3>12
        <5>3. 2 * x + y = Len(c) - 2  BY <4>1, <4>2, <5>1, <5>2
        <5>4. 2 * (x + 1) + y = Len(c)  BY <5>3, <4>2
        <5> QED BY <5>1, <5>2, <5>4
      <4> QED BY <4>4, <3>11
    <3>14. Parse(c, lucky).rest =
             IF c # <<>> /\ c[Len(c)].part = "head" THEN <<c[Len(c)]>> ELSE <<>>
      <4>1. p.rest = IF d # <<>> /\ d[Len(d)].part = "head" THEN <<d[Len(d)]>> ELSE <<>>
        BY <3>5 DEF AllFound
      <4>2. c # <<>>  BY <2>3
      <4> HIDE DEF d, p
      <4>3. CASE d = <<>>  BY <4>1, <4>2, <4>3, <3>10, <3>11
      <4>4. CASE d # <<>>  BY <4>1, <4>2, <4>4, <3>9, <3>11
      <4> QED BY <4>3, <4>4
    <3> QED BY <3>13, <3>14 DEF AllFound
  <2>4. Len(c) \in Nat /\ (Len(c) = 0 => c = <<>>)  OBVIOUS
  <2> QED BY <2>1, <2>2, <2>3, <2>4
<1>2. Nat \subseteq S
  <2> HIDE DEF S
  <2> QED BY <1>1, Induction
<1>3. Len(b) \in S
  <2> HIDE DEF S
  <2> QED BY <1>2
<1> QED BY <1>3

-----------------------------------------------------------------------------
(* The stream of a connection, and what recv takes of it *)

\* What comes next on a connection.
NumberAfter(n) == IF n < Later THEN n + 1 ELSE Later

Follows(t, u) ==
  IF t.part = "head" THEN u.part = "tail" /\ u.nr = t.nr
                     ELSE u.part = "head" /\ u.nr = NumberAfter(t.nr)

Stream(w) == \A i \in 1 .. Len(w) - 1 : Follows(w[i], w[i + 1])

(* A token is the head or the tail of a numbered datagram. *)
LEMMA TokenParts ==
  ASSUME NEW w \in Seq(Token), NEW i \in 1 .. Len(w)
  PROVE  w[i].part \in {"head", "tail"} /\ w[i].nr \in 1 .. Later
<1>1. w[i] \in Token  OBVIOUS
<1> QED BY <1>1 DEF Token

(* Heads and tails take turns on a connection. *)
LEMMA StreamAlternates ==
  ASSUME NEW w \in Seq(Token), Stream(w)
  PROVE  Alternates(w)
<1> SUFFICES ASSUME NEW i \in 1 .. Len(w) - 1 PROVE w[i].part # w[i + 1].part
  BY DEF Alternates
<1>1. Follows(w[i], w[i + 1])  BY DEF Stream
<1> QED BY <1>1 DEF Follows

(* A stretch of a stream is a stream. *)
LEMMA PartOfStream ==
  ASSUME NEW w \in Seq(Token), Stream(w), NEW m \in 1 .. Len(w) + 1, NEW n \in 0 .. Len(w),
         m <= n + 1
  PROVE  LET v == SubSeq(w, m, n)
         IN  /\ v \in Seq(Token) /\ Len(v) = n - m + 1
             /\ \A i \in 1 .. Len(v) : v[i] = w[i + m - 1]
             /\ Stream(v)
<1> DEFINE v == SubSeq(w, m, n)
<1>1. v \in Seq(Token) /\ Len(v) = n - m + 1 /\ \A i \in 1 .. Len(v) : v[i] = w[i + m - 1]
  BY SubSeqProperties
<1>2. ASSUME NEW i \in 1 .. Len(v) - 1 PROVE Follows(v[i], v[i + 1])
  <2>1. v[i] = w[i + m - 1] /\ v[i + 1] = w[(i + m - 1) + 1] /\ i + m - 1 \in 1 .. Len(w) - 1
    <3> HIDE DEF v
    <3>1. i \in 1 .. Len(v) /\ i + 1 \in 1 .. Len(v) /\ Len(w) \in Nat  BY <1>1
    <3>2. i + m - 1 \in 1 .. Len(w) - 1 /\ (i + 1) + m - 1 = (i + m - 1) + 1  BY <1>1, <3>1
    <3> QED BY <1>1, <3>1, <3>2
  <2> HIDE DEF v
  <2> QED BY <2>1 DEF Stream
<1> QED BY <1>1, <1>2 DEF Stream

\* What a stretch of the stream leaves in the buffer.
HeadAtEnd(w) == IF w # <<>> /\ w[Len(w)].part = "head" THEN <<w[Len(w)]>> ELSE <<>>

(* A tail without its head is skipped. *)
LEMMA ParseOrphan ==
  ASSUME NEW lucky \in BOOLEAN, NEW w \in Seq(Token), Stream(w), w # <<>>, w[1].part = "tail"
  PROVE  Parse(w, lucky).rest = HeadAtEnd(w)
<1>1. CASE Len(w) = 1
  <2>1. Parse(w, lucky) = Nothing(<<>>)  BY <1>1, ParseTail
  <2> QED BY <1>1, <2>1 DEF Nothing, HeadAtEnd
<1>2. CASE Len(w) > 1
  <2> DEFINE d == SubSeq(w, 2, Len(w))
  <2>1. Follows(w[1], w[2])  BY <1>2 DEF Stream
  <2>2. w[2].part = "head"  BY <2>1 DEF Follows
  <2>3. Parse(w, lucky) = Parse(d, lucky)  BY <1>2, <2>2, ParseSkip
  <2>4. /\ d \in Seq(Token) /\ Len(d) = Len(w) - 1 /\ Stream(d)
        /\ \A i \in 1 .. Len(d) : d[i] = w[i + 1]
    <3>1. 2 \in 1 .. Len(w) + 1 /\ Len(w) \in 0 .. Len(w) /\ 2 <= Len(w) + 1  BY <1>2
    <3>2. Len(w) - 2 + 1 = Len(w) - 1 /\ \A i \in Int : i + 2 - 1 = i + 1  OBVIOUS
    <3> QED BY <3>1, <3>2, PartOfStream
  <2> HIDE DEF d
  <2>5. d # <<>> /\ d[1] = w[2] /\ d[Len(d)] = w[Len(w)]
    <3>1. 1 \in 1 .. Len(d) /\ Len(d) \in 1 .. Len(d) /\ Len(d) + 1 = Len(w)  BY <1>2, <2>4
    <3> QED BY <2>4, <3>1
  <2>6. Starts(d)  BY <2>2, <2>4, <2>5, StreamAlternates DEF Starts
  <2>7. AllFound(d, Parse(d, lucky))  BY <2>4, <2>6, ParseAligned
  <2> QED BY <2>3, <2>5, <2>7, <1>2 DEF AllFound, HeadAtEnd
<1>3. Len(w) = 1 \/ Len(w) > 1
  <2>1. PICK n \in Nat : n = Len(w) /\ n # 0  OBVIOUS
  <2> QED BY <2>1
<1> QED BY <1>1, <1>2, <1>3

(* What has been received, r, and the next bytes w. *)
LEMMA ParseNext ==
  ASSUME NEW lucky \in BOOLEAN, NEW w \in Seq(Token), Stream(w), w # <<>>, NEW r \in Kept
  PROVE  LET p == Parse(r \o w, lucky)
         IN  /\ r = <<>> \/ w[1].part = "tail" => p.rest = HeadAtEnd(w)
             /\ w[Len(w)].part = "tail" => p.rest = <<>>
             /\ (r = <<>> <=> w[1].part = "head")
                  => 2 * Len(p.frames) + Len(p.rest) = Len(r) + Len(w)
<1> DEFINE b == r \o w
           p == Parse(b, lucky)
<1>1. /\ b \in Seq(Token) /\ Len(b) = Len(r) + Len(w)
      /\ \A i \in 1 .. Len(w) : b[Len(r) + i] = w[i]
      /\ \A i \in 1 .. Len(r) : b[i] = r[i]
  BY DEF Kept
<1>2. w[1].part \in {"head", "tail"} /\ Len(w) \in Nat \ {0}
      /\ w[Len(w)].part \in {"head", "tail"}
  BY TokenParts
<1>3. CASE r = <<>>
  <2>1. b = w  BY <1>3, ConcatEmptySeq
  <2>2. CASE w[1].part = "head"
    <3>1. Starts(w)  BY <2>2, StreamAlternates DEF Starts
    <3>2. AllFound(w, p)  BY <2>1, <3>1, ParseAligned
    <3>3. Len(r) + Len(w) = Len(w)  BY <1>3
    <3> QED BY <1>3, <2>1, <3>2, <3>3 DEF AllFound, HeadAtEnd
  <2>3. CASE w[1].part = "tail"
    <3>1. p.rest = HeadAtEnd(w)  BY <2>1, <2>3, ParseOrphan
    <3> QED BY <1>3, <2>3, <3>1 DEF HeadAtEnd
  <2> QED BY <1>2, <2>2, <2>3
<1>4. CASE r # <<>>
  <2>1. Len(r) = 1 /\ r[1].part = "head" /\ b[1] = r[1] /\ \A i \in 1 .. Len(w) : b[1 + i] = w[i]
    <3>1. Len(r) = 1 /\ r[1].part = "head"  BY <1>4 DEF Kept
    <3> HIDE DEF b
    <3>2. 1 \in 1 .. Len(r)  BY <3>1
    <3> QED BY <1>1, <3>1, <3>2
  <2>2. Len(b) = 1 + Len(w) /\ b # <<>> /\ b[Len(b)] = w[Len(w)] /\ b[2] = w[1]
    <3>1. 1 \in 1 .. Len(w) /\ Len(w) \in 1 .. Len(w)  BY <1>2
    <3> HIDE DEF b
    <3> QED BY <1>1, <1>2, <2>1, <3>1
  <2>3. CASE w[1].part = "tail"
    <3>1. Alternates(b)
      <4> SUFFICES ASSUME NEW i \in 1 .. Len(b) - 1 PROVE b[i].part # b[i + 1].part
        BY DEF Alternates
      <4> HIDE DEF b
      <4>1. CASE i = 1  BY <4>1, <2>1, <2>2, <2>3
      <4>2. CASE i > 1
        <5>1. i - 1 \in 1 .. Len(w) - 1 /\ i \in 1 .. Len(w) /\ 1 + (i - 1) = i /\ 1 + i = i + 1
          BY <4>2, <2>2, <1>2
        <5>2. b[i] = w[i - 1] /\ b[i + 1] = w[i]  BY <5>1, <2>1
        <5>3. w[i - 1].part # w[(i - 1) + 1].part  BY <5>1, StreamAlternates DEF Alternates
        <5> QED BY <5>1, <5>2, <5>3
      <4> QED BY <4>1, <4>2
    <3>2. Starts(b)  BY <3>1, <2>1 DEF Starts
    <3>3. AllFound(b, p)  BY <1>1, <3>2, ParseAligned
    <3>4. p.rest = HeadAtEnd(w)
      <4> HIDE DEF b, p
      <4> QED BY <2>2, <3>3 DEF AllFound, HeadAtEnd
    <3>5. 2 * Len(p.frames) + Len(p.rest) = Len(r) + Len(w)
      BY <1>1, <3>3 DEF AllFound
    <3> QED BY <3>4, <3>5, <2>3 DEF HeadAtEnd
  <2>4. CASE w[1].part = "head"
    <3> SUFFICES ASSUME w[Len(w)].part = "tail" PROVE p.rest = <<>>
      BY <1>4, <2>4
    <3>1. Len(w) > 1  BY <1>2, <2>4
    <3>2. CASE ~lucky
      <4>1. p = Nothing(<<>>)
        <5> HIDE DEF b
        <5>1. b[1].part = "head" /\ b[2].part # "tail" /\ Len(b) > 1
          BY <1>2, <2>1, <2>2, <2>4
        <5> QED BY <1>1, <3>2, <5>1, ParseThrown
      <4> QED BY <4>1 DEF Nothing
    <3>3. CASE lucky
      <4> DEFINE e == SubSeq(w, 2, Len(w))
      <4>1. SubSeq(b, 3, Len(b)) = e
        <5>1. b \in Seq(Token) /\ Len(b) = 1 + Len(w)  BY <1>1, <2>2
        <5>2. SubSeq(b, 3, Len(b)) \in Seq(Token) /\ e \in Seq(Token)  BY <5>1
        <5>3. Len(SubSeq(b, 3, Len(b))) = Len(w) - 1 /\ Len(e) = Len(w) - 1
          BY <5>1, <3>1
        <5>4. ASSUME NEW i \in 1 .. Len(w) - 1 PROVE SubSeq(b, 3, Len(b))[i] = e[i]
          <6>1. SubSeq(b, 3, Len(b))[i] = b[i + 2] /\ e[i] = w[i + 1]
            <7> HIDE DEF b
            <7> QED BY <5>1, <3>1
          <6>2. i + 1 \in 1 .. Len(w) /\ 1 + (i + 1) = i + 2  OBVIOUS
          <6> HIDE DEF b, e
          <6> QED BY <6>1, <6>2, <2>1
        <5> HIDE DEF b, e
        <5> QED BY <5>2, <5>3, <5>4, SeqEqual
      <4>2. p = [Parse(e, lucky) EXCEPT !.frames = <<b[1].kind>> \o @]
        <5> HIDE DEF b, e
        <5>1. b[1].part = "head" /\ Len(b) > 1  BY <1>2, <2>1, <2>2
        <5> QED BY <1>1, <3>3, <4>1, <5>1, ParseFrame
      <4>3. /\ e \in Seq(Token) /\ Len(e) = Len(w) - 1 /\ Stream(e)
            /\ \A i \in 1 .. Len(e) : e[i] = w[i + 1]
        <5>1. 2 \in 1 .. Len(w) + 1 /\ Len(w) \in 0 .. Len(w) /\ 2 <= Len(w) + 1  BY <3>1
        <5>2. Len(w) - 2 + 1 = Len(w) - 1 /\ \A i \in Int : i + 2 - 1 = i + 1  OBVIOUS
        <5> QED BY <5>1, <5>2, PartOfStream
      <4> HIDE DEF e, b
      <4>4. e # <<>> /\ e[1] = w[2] /\ e[Len(e)] = w[Len(w)]
        <5>1. 1 \in 1 .. Len(e) /\ Len(e) \in 1 .. Len(e) /\ Len(e) + 1 = Len(w)  BY <3>1, <4>3
        <5> QED BY <4>3, <5>1
      <4>5. Follows(w[1], w[2])  BY <3>1 DEF Stream
      <4>6. e[1].part = "tail"  BY <2>4, <4>4, <4>5 DEF Follows
      <4>7. Parse(e, lucky).rest = HeadAtEnd(e)  BY <4>3, <4>4, <4>6, ParseOrphan
      <4>8. Parse(e, lucky) \in [frames : Seq(Kinds), rest : Kept]  BY <4>3, ParseTypes
      <4>9. p.rest = Parse(e, lucky).rest  BY <4>2, <4>8
      <4> QED BY <4>4, <4>7, <4>9 DEF HeadAtEnd
    <3> QED BY <3>2, <3>3
  <2> QED BY <1>2, <2>3, <2>4
<1> QED BY <1>3, <1>4

Tails(w) == {i \in 1 .. Len(w) : w[i].part = "tail"}

(* How many tails there are where heads and tails take turns. *)
LEMMA TailsCounted ==
  ASSUME NEW w \in Seq(Token), w # <<>>, Alternates(w), NEW n \in Nat, NEW off \in {0, 1},
         off = IF w[1].part = "tail" THEN 1 ELSE 0,
         NEW m \in {0, 1}, 2 * n + m = Len(w) + off
  PROVE  Cardinality(Tails(w)) = n
<1> DEFINE S == {i \in Nat : i \in 1 .. Len(w) => (w[i].part = "tail" <=> (i + off) % 2 = 0)}
<1>1. ASSUME NEW i \in Nat, \A k \in 0 .. i - 1 : k \in S
      PROVE  i \in S
  <2> SUFFICES ASSUME i \in 1 .. Len(w)
               PROVE  w[i].part = "tail" <=> (i + off) % 2 = 0
    OBVIOUS
  <2>1. CASE i = 1
    BY <2>1
  <2>2. CASE i > 1
    <3>1. i - 1 \in 0 .. i - 1 /\ i - 1 \in 1 .. Len(w) - 1 /\ (i - 1) + 1 = i  BY <2>2
    <3>2. i - 1 \in S  BY <1>1, <3>1
    <3>3. w[i - 1].part = "tail" <=> ((i - 1) + off) % 2 = 0  BY <3>1, <3>2
    <3>4. w[i - 1].part # w[i].part  BY <3>1 DEF Alternates
    <3>5. w[i - 1].part \in {"head", "tail"} /\ w[i].part \in {"head", "tail"}
      BY <3>1, TokenParts
    <3>6. ((i - 1) + off) % 2 = 0 <=> (i + off) % 2 # 0  BY <3>1
    <3> HIDE DEF S
    <3> QED BY <3>3, <3>4, <3>5, <3>6
  <2> QED BY <2>1, <2>2
<1>2. Nat \subseteq S
  <2> HIDE DEF S
  <2> QED BY <1>1, Induction
<1>3. \A i \in 1 .. Len(w) : w[i].part = "tail" <=> (i + off) % 2 = 0
  BY <1>2
<1> HIDE DEF S
<1>4. Len(w) \in Nat /\ Len(w) = 2 * n + m - off
  <2>1. PICK l \in Nat : l = Len(w)  OBVIOUS
  <2> QED BY <2>1
<1> DEFINE f == [j \in 1 .. n |-> 2 * j - off]
<1>5. \A j \in 1 .. n : 2 * j - off \in Tails(w)
  <2> SUFFICES ASSUME NEW j \in 1 .. n PROVE 2 * j - off \in Tails(w)
    OBVIOUS
  <2>1. 2 * j - off \in 1 .. Len(w) /\ ((2 * j - off) + off) % 2 = 0  BY <1>4
  <2> QED BY <1>3, <2>1 DEF Tails
<1>6. \A i \in Tails(w) : \E j \in 1 .. n : 2 * j - off = i
  <2> SUFFICES ASSUME NEW i \in Tails(w) PROVE \E j \in 1 .. n : 2 * j - off = i
    OBVIOUS
  <2>1. i \in 1 .. Len(w) /\ (i + off) % 2 = 0  BY <1>3 DEF Tails
  <2>2. PICK j \in Int : i + off = 2 * j  BY <2>1
  <2>3. j \in 1 .. n  BY <1>4, <2>1, <2>2
  <2>4. 2 * j - off = i  BY <2>1, <2>2
  <2> QED BY <2>3, <2>4
<1>7. f \in Bijection(1 .. n, Tails(w))
  <2>1. f \in [1 .. n -> Tails(w)]  BY <1>5
  <2>2. IsInjective(f)
    <3>1. \A a, b \in 1 .. n : 2 * a - off = 2 * b - off => a = b  OBVIOUS
    <3> QED BY <3>1 DEF IsInjective
  <2>3. \A t \in Tails(w) : \E j \in 1 .. n : f[j] = t  BY <1>6
  <2> HIDE DEF f
  <2> QED BY <2>1, <2>2, <2>3 DEF Bijection, Injection, Surjection
<1>8. ExistsBijection(1 .. n, Tails(w))  BY <1>7 DEF ExistsBijection
<1> QED BY <1>8, FS_CountingElements
-----------------------------------------------------------------------------
(* Bytes on the wire and in the buffer *)

\* The bytes on the wire are a stretch of the scanner's datagrams, in order.
InOrder ==
  /\ Stream(wire) /\ Len(wire) <= MaxWire
  /\ link = "open" /\ wire # <<>> => wire[Len(wire)].part = "tail" /\ wire[Len(wire)].nr = sent
  /\ sent = 0 => wire = <<>>

\* What is kept fits what comes next, from the second datagram on.
Fitting ==
  sock => /\ wire # <<>> /\ wire[1].part = "head" /\ wire[1].nr > 1 => rx = <<>>
          /\ wire # <<>> /\ wire[1].part = "tail" /\ wire[1].nr = Later => rx # <<>>
          /\ wire = <<>> /\ link = "open" /\ sent > 0 => rx = <<>>

Unconnected == main \in {"connect", "renew", "join", "sleep"}

\* Where main opens a connection there is none.
Closed == Unconnected => ~sock /\ link = "none" /\ wire = <<>>

StreamTypes == wire \in Seq(Token) /\ rx \in Kept /\ queue \in Seq(Kinds) /\ sent \in 0 .. Later

\* What makes FramesKept hold of every step.
FramesInv == StreamTypes /\ InOrder /\ Fitting /\ Closed

(* Nothing has been sent at first. *)
LEMMA FramesInit == Init => FramesInv
  BY DEF Init, FramesInv, StreamTypes, InOrder, Fitting, Closed, Unconnected, Stream, Kept, MaxWire,
         Later

\* What the invariant is about, but for the queue.
traffic == <<wire, link, sent, sock, rx>>

(* The datagram found is the first of those asked for. *)
LEMMA FirstIsFound ==
  ASSUME NEW K, NEW q \in Seq(K), NEW keys, Holds(q, keys)
  PROVE  First(q, keys) \in DOMAIN q /\ Found(q[First(q, keys)], keys)
<1> DEFINE F == {i \in DOMAIN q : Found(q[i], keys)}
<1>1. F \in SUBSET Nat /\ F # {}  BY DEF Holds
<1>2. PICK n \in F : \A i \in F : n <= i
  <2> HIDE DEF F
  <2> QED BY <1>1, Least
<1>3. n \in DOMAIN q /\ Found(q[n], keys) /\ \A j \in 1 .. n - 1 : ~Found(q[j], keys)
  <2>1. ASSUME NEW j \in 1 .. n - 1 PROVE ~Found(q[j], keys)
    <3>1. j \in DOMAIN q /\ ~(n <= j)  BY <1>2
    <3> QED BY <1>2, <3>1
  <2> QED BY <1>2, <2>1
<1> QED BY <1>3 DEF First

(* Datagrams are taken out of the queue one at a time, and the others stay. *)
LEMMA RestTypes ==
  ASSUME NEW K, NEW q \in Seq(K), NEW keys, Holds(q, keys)
  PROVE  /\ Rest(q, keys) \in Seq(K)
         /\ \A i \in DOMAIN q : i # First(q, keys) =>
              \E j \in DOMAIN Rest(q, keys) : Rest(q, keys)[j] = q[i]
<1> DEFINE p == First(q, keys)
<1>5. p \in 1 .. Len(q)  BY FirstIsFound
<1> DEFINE a == SubSeq(q, 1, p - 1)
           c == SubSeq(q, p + 1, Len(q))
<1>6. a \in Seq(K) /\ Len(a) = p - 1 /\ \A i \in 1 .. p - 1 : a[i] = q[i]
  <2> HIDE DEF p
  <2> QED BY <1>5
<1>7. c \in Seq(K) /\ Len(c) = Len(q) - p /\ \A i \in 1 .. Len(q) - p : c[i] = q[p + i]
  <2> HIDE DEF p
  <2> QED BY <1>5
<1>8. Rest(q, keys) = a \o c  BY DEF Rest, RemoveAt
<1> HIDE DEF p, a, c
<1>9. /\ a \o c \in Seq(K) /\ Len(a \o c) = Len(q) - 1
      /\ \A i \in 1 .. p - 1 : (a \o c)[i] = q[i]
      /\ \A i \in 1 .. Len(q) - p : (a \o c)[p - 1 + i] = q[p + i]
  <2>1. Len(q) \in Nat /\ p \in Nat /\ p - 1 + (Len(q) - p) = Len(q) - 1  BY <1>5
  <2>2. a \o c \in Seq(K) /\ Len(a \o c) = Len(a) + Len(c)  BY <1>6, <1>7
  <2>3. Len(a \o c) = Len(q) - 1  BY <1>6, <1>7, <2>1, <2>2
  <2>4. ASSUME NEW i \in 1 .. p - 1 PROVE (a \o c)[i] = q[i]
    <3>1. i \in 1 .. Len(a)  BY <1>6
    <3>2. (a \o c)[i] = a[i]  BY <1>6, <1>7, <3>1
    <3> QED BY <1>6, <3>2
  <2>5. ASSUME NEW i \in 1 .. Len(q) - p PROVE (a \o c)[p - 1 + i] = q[p + i]
    <3>1. i \in 1 .. Len(c) /\ i \in Nat  BY <1>7, <2>1
    <3>2. (a \o c)[Len(a) + i] = c[i]  BY <1>6, <1>7, <3>1
    <3> QED BY <1>6, <1>7, <3>2
  <2> QED BY <2>2, <2>3, <2>4, <2>5
<1>10. ASSUME NEW i \in 1 .. Len(q), i # p
       PROVE  \E j \in 1 .. Len(a \o c) : (a \o c)[j] = q[i]
  <2>1. CASE i < p
    <3>1. i \in 1 .. p - 1 /\ i \in 1 .. Len(a \o c)  BY <1>5, <1>9, <2>1
    <3> QED BY <1>9, <3>1
  <2>2. CASE i > p
    <3>1. i - p \in 1 .. Len(q) - p /\ i - 1 \in 1 .. Len(a \o c)  BY <1>5, <1>9, <2>2
    <3>2. (a \o c)[p - 1 + (i - p)] = q[p + (i - p)]  BY <1>9, <3>1
    <3>3. p - 1 + (i - p) = i - 1 /\ p + (i - p) = i  BY <1>5
    <3> QED BY <3>1, <3>2, <3>3
  <2> QED BY <1>5, <1>10, <2>1, <2>2
<1>11. DOMAIN q = 1 .. Len(q) /\ DOMAIN (a \o c) = 1 .. Len(a \o c)  BY <1>9
<1>12. \A i \in DOMAIN q : i # p => \E j \in DOMAIN (a \o c) : (a \o c)[j] = q[i]
  BY <1>10, <1>11
<1>13. p = First(q, keys)  BY DEF p
<1> QED BY <1>8, <1>9, <1>12, <1>13, Zenon

(* Steps that leave the connection and the buffer alone. *)
LEMMA SameKeeps ==
  ASSUME FramesInv, UNCHANGED traffic, queue' \in Seq(Kinds),
         Unconnected' => Unconnected
  PROVE  FramesInv'
  BY DEF FramesInv, StreamTypes, InOrder, Fitting, Closed, Unconnected, traffic, Stream

(* The driver closes the connection. *)
LEMMA ClosedKeeps ==
  ASSUME FramesInv, HangUp, rx' = rx \/ rx' = <<>>, queue' \in Seq(Kinds)
  PROVE  FramesInv'
<1>1. sock' = FALSE /\ link' = "none" /\ wire' = <<>> /\ sent' = 0  BY DEF HangUp
<1>2. StreamTypes'
  <2>1. <<>> \in Seq(Token) /\ <<>> \in Kept /\ 0 \in 0 .. Later  BY DEF Kept, Later
  <2>2. rx' \in Kept  BY <2>1 DEF FramesInv, StreamTypes
  <2> QED BY <1>1, <2>1, <2>2 DEF StreamTypes
<1>3. InOrder'
  <2>1. Stream(wire') /\ Len(wire') <= 4  BY <1>1 DEF Stream
  <2> QED BY <1>1, <2>1 DEF InOrder, Stream, MaxWire
<1>4. Fitting' /\ Closed'  BY <1>1 DEF Fitting, Closed, Unconnected
<1> QED BY <1>2, <1>3, <1>4 DEF FramesInv

(* The tokens of two sequences in a row. *)
LEMMA ConcatParts ==
  ASSUME NEW w \in Seq(Token), NEW f \in Seq(Token)
  PROVE  /\ w \o f \in Seq(Token) /\ Len(w \o f) = Len(w) + Len(f)
         /\ \A i \in 1 .. Len(w) : (w \o f)[i] = w[i]
         /\ \A i \in 1 .. Len(f) : (w \o f)[Len(w) + i] = f[i]
  OBVIOUS

(* The scanner appends its next datagram. *)
LEMMA SendKeeps ==
  ASSUME FramesInv, NEW kind \in Kinds, Send(kind), UNCHANGED <<link, sock, rx, queue, main>>
  PROVE  FramesInv'
<1> DEFINE n == IF sent < Later THEN sent + 1 ELSE Later
           fr == Frame(kind, n)
<1>1. /\ link = "open" /\ Len(wire) + 2 <= MaxWire /\ wire' = wire \o fr /\ sent' = n
  BY DEF Send
<1>2. /\ wire \in Seq(Token) /\ sent \in 0 .. Later /\ Stream(wire) /\ (sent = 0 => wire = <<>>)
      /\ wire # <<>> => wire[Len(wire)].part = "tail" /\ wire[Len(wire)].nr = sent
  BY <1>1 DEF FramesInv, StreamTypes, InOrder
<1>3. n \in 1 .. Later /\ (sent > 0 => n = NumberAfter(sent)) /\ n # 0 /\ (sent = 0 => n = 1)
  BY <1>2 DEF NumberAfter, Later
<1>4. /\ fr \in Seq(Token) /\ Len(fr) = 2
      /\ fr[1].part = "head" /\ fr[1].nr = n /\ fr[2].part = "tail" /\ fr[2].nr = n
  BY <1>3 DEF Frame, Token
<1> HIDE DEF n, fr
<1>5. /\ wire' \in Seq(Token) /\ Len(wire') = Len(wire) + 2
      /\ \A i \in 1 .. Len(wire) : wire'[i] = wire[i]
      /\ wire'[Len(wire) + 1] = fr[1] /\ wire'[Len(wire) + 2] = fr[2]
  <2>1. /\ wire \o fr \in Seq(Token) /\ Len(wire \o fr) = Len(wire) + Len(fr)
        /\ \A i \in 1 .. Len(wire) : (wire \o fr)[i] = wire[i]
        /\ \A i \in 1 .. Len(fr) : (wire \o fr)[Len(wire) + i] = fr[i]
    BY <1>2, <1>4, ConcatParts
  <2>2. 1 \in 1 .. Len(fr) /\ 2 \in 1 .. Len(fr)  BY <1>4
  <2> QED BY <1>1, <1>4, <2>1, <2>2
<1>6. PICK l \in Nat : l = Len(wire)  BY <1>2
<1>7. Stream(wire')
  <2> SUFFICES ASSUME NEW i \in 1 .. Len(wire') - 1 PROVE Follows(wire'[i], wire'[i + 1])
    BY DEF Stream
  <2>1. CASE i < l
    <3>1. i \in 1 .. Len(wire) - 1 /\ i \in 1 .. Len(wire) /\ i + 1 \in 1 .. Len(wire)
      BY <2>1, <1>6
    <3>2. Follows(wire[i], wire[i + 1])  BY <1>2, <3>1 DEF Stream
    <3> QED BY <1>5, <3>1, <3>2
  <2>2. CASE i = l
    <3>1. i \in 1 .. Len(wire) /\ wire # <<>>  BY <2>2, <1>2, <1>6
    <3>2. wire'[i] = wire[Len(wire)] /\ wire'[i + 1] = fr[1]  BY <1>5, <1>6, <2>2, <3>1
    <3>3. sent > 0  BY <1>2, <3>1
    <3> QED BY <1>2, <1>3, <1>4, <3>1, <3>2, <3>3 DEF Follows
  <2>3. CASE i = l + 1
    <3>1. wire'[i] = fr[1] /\ wire'[i + 1] = fr[2]  BY <1>5, <1>6, <2>3
    <3> QED BY <1>4, <3>1 DEF Follows
  <2>4. i < l \/ i = l \/ i = l + 1  BY <1>5, <1>6
  <2> QED BY <2>1, <2>2, <2>3, <2>4
<1>8. wire' # <<>> /\ wire'[Len(wire')] = fr[2]
  BY <1>5, <1>6
<1>9. InOrder'
  <2>1. Len(wire') <= MaxWire  BY <1>1, <1>5
  <2> QED BY <1>1, <1>3, <1>4, <1>7, <1>8, <2>1 DEF InOrder, Stream
<1>10. Fitting'
  <2>1. CASE wire = <<>>
    <3>1. wire'[1] = fr[1]  BY <2>1, <1>5
    <3>2. sock /\ n > 1 => rx = <<>>
      BY <2>1, <1>1, <1>2, <1>3 DEF FramesInv, Fitting
    <3> QED BY <1>4, <1>8, <3>1, <3>2 DEF Fitting
  <2>2. CASE wire # <<>>
    <3>1. wire'[1] = wire[1]
      <4>1. 1 \in 1 .. Len(wire)  BY <2>2, <1>2
      <4> QED BY <1>5, <4>1
    <3> QED BY <1>8, <2>2, <3>1 DEF FramesInv, Fitting
  <2> QED BY <2>1, <2>2
<1>11. Closed'
  BY <1>1 DEF FramesInv, Closed, Unconnected
<1>12. StreamTypes'
  BY <1>1, <1>3, <1>5 DEF FramesInv, StreamTypes
<1> QED BY <1>9, <1>10, <1>11, <1>12 DEF FramesInv

(* The connection breaks, and the last bytes are lost. *)
LEMMA LoseKeeps == ASSUME FramesInv, Lose PROVE FramesInv'
<1>1. PICK k \in {0} \cup Cuts(wire) : wire' = SubSeq(wire, 1, k)
  BY DEF Lose
<1>2. link = "open" /\ link' \in {"gone", "fin"} /\ UNCHANGED <<sent, sock, rx, queue, main>>
  BY DEF Lose, socket, mainVars
<1>3. wire \in Seq(Token) /\ Stream(wire) /\ Len(wire) <= MaxWire /\ (sent = 0 => wire = <<>>)
  BY DEF FramesInv, StreamTypes, InOrder
<1>4. k \in 0 .. Len(wire)  BY <1>3 DEF Cuts
<1>5. /\ wire' \in Seq(Token) /\ Len(wire') = k /\ Stream(wire')
      /\ \A i \in 1 .. k : wire'[i] = wire[i]
  <2>1. 1 \in 1 .. Len(wire) + 1 /\ 1 <= k + 1 /\ k - 1 + 1 = k /\ \A i \in Int : i + 1 - 1 = i
    BY <1>3, <1>4
  <2> QED BY <1>1, <1>3, <1>4, <2>1, PartOfStream
<1>6. wire' # <<>> => wire # <<>> /\ wire'[1] = wire[1]
  BY <1>3, <1>4, <1>5
<1>7. InOrder'
  <2>1. Len(wire') <= MaxWire  BY <1>3, <1>4, <1>5 DEF MaxWire
  <2>2. wire = <<>> => wire' = <<>>  BY <1>6
  <2> QED BY <1>2, <1>3, <1>5, <2>1, <2>2 DEF InOrder, Stream, MaxWire
<1>8. Fitting'  BY <1>2, <1>6 DEF FramesInv, Fitting
<1>9. Closed'  BY <1>2 DEF FramesInv, Closed, Unconnected
<1>10. StreamTypes'  BY <1>2, <1>5 DEF FramesInv, StreamTypes
<1> QED BY <1>7, <1>8, <1>9, <1>10 DEF FramesInv

(* A new connection starts empty, whatever the buffer holds. *)
LEMMA ConnectKeeps == ASSUME FramesInv, Connect PROVE FramesInv'
<1>1. wire' = <<>> /\ sent' = 0 /\ main' = "lock" /\ UNCHANGED <<rx, queue>>
  BY DEF Connect
<1>2. StreamTypes'
  <2>1. <<>> \in Seq(Token) /\ 0 \in 0 .. Later  BY DEF Later
  <2> QED BY <1>1, <2>1 DEF FramesInv, StreamTypes
<1>3. InOrder'
  <2>1. Stream(wire') /\ Len(wire') <= 4  BY <1>1 DEF Stream
  <2> QED BY <1>1, <2>1 DEF InOrder, Stream, MaxWire
<1>4. Fitting' /\ Closed'  BY <1>1 DEF Fitting, Closed, Unconnected
<1> QED BY <1>2, <1>3, <1>4 DEF FramesInv

(* The receive thread closes its socket. *)
LEMMA ReceiveEndKeeps == ASSUME FramesInv, ReceiveEnd PROVE FramesInv'
<1>1. /\ sock' = FALSE /\ UNCHANGED <<wire, link, sent, rx, queue, main>>
  BY DEF ReceiveEnd, device, mainVars
<1> QED BY <1>1 DEF FramesInv, StreamTypes, InOrder, Fitting, Closed, Unconnected, Stream

\* What FramesKept asks of a step.
FramesPushed ==
  LET k   == Len(wire) - Len(wire')
      got == SubSeq(wire, 1, k)
  IN  (k > 0 /\ link' = link /\ sock' /\ \A i \in 1 .. k : got[i].nr = Later)
        => Len(queue') - Len(queue) = Cardinality({i \in 1 .. k : got[i].part = "tail"})

(* The receive thread takes bytes and finds the datagrams in them. *)
LEMMA ReceiveKeeps == ASSUME FramesInv, Receive PROVE FramesInv' /\ FramesPushed
<1>1. PICK k \in Cuts(wire), lucky \in BOOLEAN :
        /\ wire' = SubSeq(wire, k + 1, Len(wire))
        /\ rx' = Parse(rx \o SubSeq(wire, 1, k), lucky).rest
        /\ queue' = queue \o Parse(rx \o SubSeq(wire, 1, k), lucky).frames
  BY DEF Receive, Received
<1>2. sock /\ wire # <<>> /\ UNCHANGED <<link, sent, sock, main>>
  BY DEF Receive, device
<1>3. /\ wire \in Seq(Token) /\ Stream(wire) /\ Len(wire) <= MaxWire
      /\ (sent = 0 => wire = <<>>) /\ rx \in Kept /\ queue \in Seq(Kinds) /\ sent \in 0 .. Later
      /\ link = "open" => wire[Len(wire)].part = "tail" /\ wire[Len(wire)].nr = sent
  BY <1>2 DEF FramesInv, StreamTypes, InOrder
<1>4. k \in 1 .. Len(wire)  BY <1>3 DEF Cuts
<1>5. PICK l \in Nat \ {0} : l = Len(wire)  BY <1>2, <1>3
<1> DEFINE got == SubSeq(wire, 1, k)
           p == Parse(rx \o got, lucky)
<1>6. /\ got \in Seq(Token) /\ Len(got) = k /\ Stream(got)
      /\ \A i \in 1 .. k : got[i] = wire[i]
  <2>1. 1 \in 1 .. Len(wire) + 1 /\ k \in 0 .. Len(wire) /\ 1 <= k + 1 /\ k - 1 + 1 = k
        /\ \A i \in Int : i + 1 - 1 = i
    BY <1>3, <1>4
  <2> QED BY <1>3, <2>1, PartOfStream
<1>7. /\ wire' \in Seq(Token) /\ Len(wire') = l - k /\ Stream(wire')
      /\ \A i \in 1 .. l - k : wire'[i] = wire[i + k]
  <2> DEFINE rest == SubSeq(wire, k + 1, Len(wire))
  <2>1. k + 1 \in 1 .. Len(wire) + 1 /\ Len(wire) \in 0 .. Len(wire) /\ k + 1 <= Len(wire) + 1
    BY <1>4, <1>5
  <2>2. /\ rest \in Seq(Token) /\ Len(rest) = Len(wire) - (k + 1) + 1 /\ Stream(rest)
        /\ \A i \in 1 .. Len(rest) : rest[i] = wire[i + (k + 1) - 1]
    BY <1>3, <2>1, PartOfStream
  <2> HIDE DEF rest
  <2>3. Len(rest) = l - k  BY <1>4, <1>5, <2>2
  <2>4. \A i \in 1 .. l - k : rest[i] = wire[i + k]
    <3> SUFFICES ASSUME NEW i \in 1 .. l - k PROVE rest[i] = wire[i + k]  OBVIOUS
    <3>1. rest[i] = wire[i + (k + 1) - 1]  BY <2>2, <2>3
    <3>2. i + (k + 1) - 1 = i + k  BY <1>4, <1>5
    <3> QED BY <3>1, <3>2
  <2>5. wire' = rest  BY <1>1 DEF rest
  <2> QED BY <2>2, <2>3, <2>4, <2>5
<1> HIDE DEF got
<1>8. got # <<>> /\ got[1] = wire[1] /\ got[Len(got)] = wire[k]
  BY <1>4, <1>6
<1>9. p \in [frames : Seq(Kinds), rest : Kept]
  <2>1. rx \o got \in Seq(Token)
    <3>1. rx \in Seq(Token)  BY <1>3 DEF Kept
    <3> QED BY <1>6, <3>1, ConcatParts
  <2> QED BY <2>1, ParseTypes
<1>10. /\ rx = <<>> \/ got[1].part = "tail" => p.rest = HeadAtEnd(got)
       /\ got[Len(got)].part = "tail" => p.rest = <<>>
       /\ (rx = <<>> <=> got[1].part = "head")
            => 2 * Len(p.frames) + Len(p.rest) = Len(rx) + Len(got)
  BY <1>3, <1>6, <1>8, ParseNext
<1>11. rx' = p.rest /\ queue' = queue \o p.frames
  BY <1>1 DEF got
<1> HIDE DEF p
<1>12. wire[1].part \in {"head", "tail"} /\ wire[k].part \in {"head", "tail"}
  BY <1>3, <1>4, <1>5, TokenParts
<1>13. StreamTypes'
  <2>1. rx' \in Kept /\ p.frames \in Seq(Kinds)  BY <1>9, <1>11
  <2>2. queue' \in Seq(Kinds)  BY <1>3, <1>11, <2>1
  <2> QED BY <1>2, <1>3, <1>7, <2>1, <2>2 DEF StreamTypes
<1>14. wire' # <<>> => /\ k + 1 \in 1 .. l /\ k < l
                       /\ wire'[1] = wire[k + 1] /\ wire'[Len(wire')] = wire[l]
                       /\ Follows(wire[k], wire[k + 1])
  <2> SUFFICES ASSUME wire' # <<>>
               PROVE  /\ k + 1 \in 1 .. l /\ k < l
                      /\ wire'[1] = wire[k + 1] /\ wire'[Len(wire')] = wire[l]
                      /\ Follows(wire[k], wire[k + 1])
    OBVIOUS
  <2>1. k < l  BY <1>4, <1>5, <1>7
  <2>2. 1 \in 1 .. l - k /\ l - k \in 1 .. l - k /\ 1 + k = k + 1 /\ (l - k) + k = l
    BY <2>1, <1>4, <1>5
  <2>3. wire'[1] = wire[k + 1] /\ wire'[Len(wire')] = wire[l]  BY <1>7, <2>2
  <2>4. k \in 1 .. Len(wire) - 1  BY <1>4, <1>5, <2>1
  <2> QED BY <1>3, <1>4, <1>5, <2>1, <2>3, <2>4 DEF Stream
<1>15. InOrder'
  <2>1. Len(wire') <= MaxWire  BY <1>3, <1>4, <1>5, <1>7 DEF MaxWire
  <2>2. sent # 0  BY <1>2, <1>3
  <2> QED BY <1>2, <1>3, <1>5, <1>7, <1>14, <2>1, <2>2 DEF InOrder, Stream, MaxWire
<1>16. Fitting'
  <2>1. ASSUME wire' # <<>>, wire'[1].part = "head" PROVE rx' = <<>>
    <3>1. wire[k].part = "tail"  BY <1>12, <1>14, <2>1 DEF Follows
    <3> QED BY <1>8, <1>10, <1>11, <3>1
  <2>2. ASSUME wire' # <<>>, wire'[1].part = "tail", wire'[1].nr = Later PROVE rx' # <<>>
    <3>1. wire[k].part = "head" /\ wire[k].nr = Later  BY <1>12, <1>14, <2>2 DEF Follows
    <3>2. rx = <<>> \/ wire[1].part = "tail"
      <4> SUFFICES ASSUME rx # <<>>, wire[1].part = "head" PROVE FALSE
        BY <1>12
      <4>1. ~(wire[1].nr > 1)  BY <1>2 DEF FramesInv, Fitting
      <4>2. wire[1].nr = 1
        <5>1. wire[1].nr \in 1 .. Later  BY <1>3, <1>5, TokenParts
        <5> QED BY <4>1, <5>1 DEF Later
      <4>3. k \in 1 .. 4  BY <1>3, <1>4, <1>5 DEF MaxWire
      <4>4. k # 1  BY <3>1, <4>2 DEF Later
      <4>5. k # 2
        <5> SUFFICES ASSUME k = 2 PROVE FALSE  OBVIOUS
        <5>1. Follows(wire[1], wire[2])  BY <1>3, <1>4, <1>5 DEF Stream
        <5> QED BY <3>1, <5>1 DEF Follows
      <4>6. k # 3 /\ k # 4
        <5> SUFFICES ASSUME k \in {3, 4} PROVE FALSE  OBVIOUS
        <5>1. Follows(wire[1], wire[2]) /\ Follows(wire[2], wire[3])
          BY <1>3, <1>4, <1>5 DEF Stream
        <5>2. wire[3].part = "head" /\ wire[3].nr = 2
          BY <4>2, <5>1 DEF Follows, NumberAfter, Later
        <5>3. CASE k = 3  BY <3>1, <5>2, <5>3 DEF Later
        <5>4. CASE k = 4
          <6>1. Follows(wire[3], wire[4])  BY <1>3, <1>4, <1>5, <5>4 DEF Stream
          <6> QED BY <3>1, <5>2, <5>4, <6>1 DEF Follows
        <5> QED BY <5>3, <5>4
      <4> QED BY <4>3, <4>4, <4>5, <4>6
    <3>3. rx' = HeadAtEnd(got)  BY <1>8, <1>10, <1>11, <3>2
    <3> QED BY <1>8, <3>1, <3>3 DEF HeadAtEnd
  <2>3. ASSUME wire' = <<>>, link' = "open" PROVE rx' = <<>>
    <3>1. k = l  BY <1>4, <1>5, <1>7, <2>3
    <3>2. wire[k].part = "tail"  BY <1>2, <1>3, <1>5, <2>3, <3>1
    <3> QED BY <1>8, <1>10, <1>11, <3>2
  <2> QED BY <2>1, <2>2, <2>3 DEF Fitting
<1>17. Closed'  BY <1>2 DEF FramesInv, Closed, Unconnected
<1>18. FramesPushed
  <2>1. Len(wire) - Len(wire') = k  BY <1>4, <1>5, <1>7
  <2> SUFFICES ASSUME \A i \in 1 .. k : got[i].nr = Later
               PROVE  Len(queue') - Len(queue) = Cardinality({i \in 1 .. k : got[i].part = "tail"})
    BY <2>1 DEF FramesPushed, got
  <2>2. wire[1].nr = Later  BY <1>4, <1>6
  <2>3. rx = <<>> <=> wire[1].part = "head"
    BY <1>2, <1>12, <2>2 DEF FramesInv, Fitting, Later
  <2>4. 2 * Len(p.frames) + Len(p.rest) = Len(rx) + k  BY <1>6, <1>8, <1>10, <2>3
  <2>5. PICK n \in Nat : n = Len(p.frames)  BY <1>9
  <2>6. PICK m \in {0, 1} : m = Len(p.rest)
    <3>1. p.rest \in Kept  BY <1>9
    <3>2. Len(<<>>) = 0  OBVIOUS
    <3> QED BY <3>1, <3>2 DEF Kept
  <2> DEFINE off == IF got[1].part = "tail" THEN 1 ELSE 0
  <2>7. off \in {0, 1} /\ Len(rx) = off
    <3>1. Len(<<>>) = 0  OBVIOUS
    <3>2. rx # <<>> => Len(rx) = 1  BY <1>3 DEF Kept
    <3> QED BY <1>8, <1>12, <2>3, <3>1, <3>2
  <2>8. off = IF got[1].part = "tail" THEN 1 ELSE 0  OBVIOUS
  <2> HIDE DEF off
  <2>9. 2 * n + m = Len(got) + off
    <3>1. Len(got) = k /\ k \in Nat  BY <1>4, <1>6
    <3>2. 2 * n + m = off + k  BY <2>4, <2>5, <2>6, <2>7
    <3> QED BY <2>7, <3>1, <3>2
  <2>10. Cardinality(Tails(got)) = n
    BY <1>6, <1>8, <2>7, <2>8, <2>9, StreamAlternates, TailsCounted
  <2>11. Len(queue') - Len(queue) = n
    <3>1. p.frames \in Seq(Kinds)  BY <1>9
    <3>2. Len(queue') = Len(queue) + Len(p.frames)  BY <1>3, <1>11, <3>1
    <3>3. Len(queue) \in Nat  BY <1>3
    <3> QED BY <2>5, <3>2, <3>3
  <2> QED BY <1>6, <2>10, <2>11 DEF Tails
<1> QED BY <1>13, <1>15, <1>16, <1>17, <1>18 DEF FramesInv

(* A step that hands nothing to the driver asks nothing of FramesPushed. *)
LEMMA NothingPushed ==
  ASSUME FramesInv, wire' = wire \/ ~sock' \/ link' # link
  PROVE  FramesPushed
<1> SUFFICES ASSUME wire' = wire PROVE Len(wire) - Len(wire') <= 0
  BY DEF FramesPushed
<1>1. Len(wire) \in Nat  BY DEF FramesInv, StreamTypes
<1> QED BY <1>1

\* Steps of others than main that leave the connection alone, and steps of main.
Aside == PowerOn \/ Request \/ Svc \/ Interrupt \/ Handler \/ Tick \/ ReaderEnd

(* Time, services and the signal handler do not touch the bytes. *)
LEMMA AsideKeeps == ASSUME FramesInv, Aside PROVE FramesInv' /\ FramesPushed
<1>1. UNCHANGED traffic /\ UNCHANGED main
  BY DEF Aside, PowerOn, Request, Svc, SvcAsk, SvcArrives, SvcMissing, SvcPop, Interrupt, Handler,
     StopScanner, Joined, Tick, ReaderEnd, device, socket, mainVars, quiet, traffic
<1>2. queue' = queue \/ (Holds(queue, {wanted}) /\ queue' = Rest(queue, {wanted}))
  BY DEF Aside, PowerOn, Request, Svc, SvcAsk, SvcArrives, SvcMissing, SvcPop, Interrupt, Handler,
     StopScanner, Joined, Tick, ReaderEnd, quiet
<1>3. queue' \in Seq(Kinds)  BY <1>2, RestTypes DEF FramesInv, StreamTypes
<1> QED BY <1>1, <1>3, SameKeeps, NothingPushed DEF traffic, Unconnected

Onward == Ask \/ AnswerMissing \/ TakeAnswer \/ SkipAnswer \/ ScanArrives \/ ScanMissing
            \/ PopScan \/ Check \/ Awake \/ Join

(* Nor does main, as long as it keeps its connection. *)
LEMMA OnwardKeeps == ASSUME FramesInv, Onward PROVE FramesInv' /\ FramesPushed
<1>1. UNCHANGED traffic
  BY DEF Onward, Ask, AnswerMissing, TakeAnswer, SkipAnswer, ScanArrives, ScanMissing, PopScan,
     Check, Awake, Join, device, socket, traffic
<1>2. Unconnected' => Unconnected
  BY DEF Onward, Ask, AnswerMissing, TakeAnswer, SkipAnswer, ScanArrives, ScanMissing, PopScan,
     Check, Awake, Join, Failed, Loop, Unconnected
<1>3. queue' = queue \/ \E keys : Holds(queue, keys) /\ queue' = Rest(queue, keys)
  BY DEF Onward, Ask, AnswerMissing, TakeAnswer, SkipAnswer, ScanArrives, ScanMissing, PopScan,
     Check, Awake, Join
<1>4. queue' \in Seq(Kinds)  BY <1>3, RestTypes DEF FramesInv, StreamTypes
<1> QED BY <1>1, <1>2, <1>4, SameKeeps, NothingPushed DEF traffic, Unconnected

Opening == Connect \/ ConnectFails \/ Recreate \/ Renew \/ Close

(* main closes and opens connections. *)
LEMMA OpeningKeeps == ASSUME FramesInv, Opening PROVE FramesInv' /\ FramesPushed
<1>1. CASE Connect
  <2>1. wire = <<>> /\ wire' = <<>>  BY <1>1 DEF Connect, FramesInv, Closed, Unconnected
  <2> QED BY <1>1, <2>1, ConnectKeeps, NothingPushed
<1>2. CASE ConnectFails \/ Recreate \/ Close
  <2>1. HangUp /\ rx' = rx /\ queue' = queue
    BY <1>2 DEF ConnectFails, Recreate, Close
  <2>2. queue' \in Seq(Kinds)  BY <2>1 DEF FramesInv, StreamTypes
  <2>3. ~sock'  BY <2>1 DEF HangUp
  <2> QED BY <2>1, <2>2, <2>3, ClosedKeeps, NothingPushed
<1>3. CASE Renew
  <2>1. /\ main = "renew" /\ rx' = <<>> /\ queue' = <<>>
        /\ UNCHANGED <<wire, link, sent, sock>>
    BY <1>3 DEF Renew, device
  <2>2. ~sock /\ link = "none" /\ wire = <<>>  BY <2>1 DEF FramesInv, Closed, Unconnected
  <2>3. <<>> \in Kept /\ <<>> \in Seq(Kinds)  BY DEF Kept
  <2>4. FramesInv'
    BY <2>1, <2>2, <2>3 DEF FramesInv, StreamTypes, InOrder, Fitting, Closed, Unconnected, Stream
  <2> QED BY <2>1, <2>4, NothingPushed
<1> QED BY <1>1, <1>2, <1>3 DEF Opening

(* The scanner sends, and the connection breaks. *)
LEMMA ScannerKeeps ==
  ASSUME FramesInv, SendScan \/ AnswerSome \/ Lose
  PROVE  FramesInv' /\ FramesPushed
<1>1. CASE SendScan \/ AnswerSome
  <2>1. PICK kind \in Kinds : Send(kind) /\ UNCHANGED <<link, sock, rx, queue, main>>
    BY <1>1 DEF SendScan, AnswerSome, Answer, socket, mainVars, Kinds
  <2>2. FramesInv'  BY <2>1, SendKeeps
  <2>3. PICK f \in Seq(Token) : wire' = wire \o f
    <3> DEFINE n == IF sent < Later THEN sent + 1 ELSE Later
    <3>1. n \in 1 .. Later  BY DEF FramesInv, StreamTypes, Later
    <3>2. Frame(kind, n) \in Seq(Token)
      <4> HIDE DEF n
      <4> QED BY <3>1 DEF Frame, Token
    <3>3. wire' = wire \o Frame(kind, n)  BY <2>1 DEF Send
    <3> QED BY <3>2, <3>3
  <2>4. Len(wire') = Len(wire) + Len(f) /\ Len(wire) \in Nat /\ Len(f) \in Nat
    BY <2>3 DEF FramesInv, StreamTypes
  <2>5. ~(Len(wire) - Len(wire') > 0)  BY <2>4
  <2> QED BY <2>2, <2>5 DEF FramesPushed
<1>2. CASE Lose
  <2>1. link' # link  BY <1>2 DEF Lose
  <2> QED BY <1>2, <2>1, LoseKeeps, NothingPushed
<1> QED BY <1>1, <1>2

(* The receive thread. *)
LEMMA ReaderKeeps == ASSUME FramesInv, Receive \/ ReceiveEnd PROVE FramesInv' /\ FramesPushed
<1>1. CASE Receive  BY <1>1, ReceiveKeeps
<1>2. CASE ReceiveEnd
  <2>1. ~sock'  BY <1>2 DEF ReceiveEnd
  <2> QED BY <1>2, <2>1, ReceiveEndKeeps, NothingPushed
<1> QED BY <1>1, <1>2

(* Every step keeps FramesInv, and hands on what it receives. *)
LEMMA StepKeeps == ASSUME FramesInv, [Next]_vars PROVE FramesInv' /\ FramesPushed
<1>1. CASE Next
  <2>1. \/ Aside \/ Onward \/ Opening \/ Receive \/ ReceiveEnd
        \/ SendScan \/ AnswerSome \/ Lose
    BY <1>1 DEF Next, Main, Reader, Aside, Onward, Opening
  <2> QED BY <2>1, AsideKeeps, OnwardKeeps, OpeningKeeps, ReaderKeeps, ScannerKeeps
<1>2. CASE UNCHANGED vars
  <2>1. UNCHANGED <<wire, link, sent, sock, rx, queue, main>>
    BY <1>2 DEF vars, device, socket, mainVars
  <2>2. queue' \in Seq(Kinds)  BY <2>1 DEF FramesInv, StreamTypes
  <2> QED BY <2>1, <2>2, SameKeeps, NothingPushed DEF traffic, Unconnected
<1> QED BY <1>1, <1>2

(* A broken connection costs the datagrams around the break and no more:   *)
(* from the third datagram of a connection on every one whose last byte    *)
(* was received gets to the queue, however recv cuts the stream and        *)
(* whatever an old connection left in the receive buffer.                  *)
THEOREM NoFrameLost == Spec => FramesKept
<1>1. FramesInv /\ [Next]_vars => FramesInv' /\ FramesPushed
  BY StepKeeps
<1>2. [Next]_vars /\ FramesPushed => [FramesPushed]_vars
  OBVIOUS
<1> QED BY <1>1, FramesInit, PTL DEF Spec, FramesKept, FramesPushed

-----------------------------------------------------------------------------
(* The types of the variables *)

Waits == [limit : Nat, passed : Nat]

(* Time that passes, and a notification, leave a wait a wait. *)
LEMMA WaitTypes ==
  ASSUME NEW w \in Waits
  PROVE  Passed(w) \in Waits /\ Notified(w) \in Waits
  BY DEF Waits, Passed, Notified, Older

(* A wait is made of its limit. *)
LEMMA FixedWaits ==
  NoWait \in Waits /\ \A limit \in Nat : Wait(limit) \in Waits
  BY DEF Waits, NoWait, Wait

(* What main does behind an initialisation. *)
LEMMA LoopTypes ==
  ASSUME NEW limit \in Nat, Loop(limit) \/ Failed
  PROVE  main' \in MainPcs /\ mainWait' \in Waits
  BY FixedWaits DEF Loop, Failed, MainPcs

(* The types FramesInv has. *)
LEMMA LengthOnWire ==
  FramesInv => /\ wire \in Seq(Token) /\ Len(wire) <= MaxWire /\ sent \in 0 .. Later
               /\ rx \in Seq(Token) /\ queue \in Seq(Kinds)
  BY DEF FramesInv, StreamTypes, InOrder, Kept

DeviceTypes ==
  /\ up \in BOOLEAN /\ link \in {"none", "open", "gone", "fin"}
  /\ asked \subseteq {"main", "svc"} \X Keywords /\ streaming \in BOOLEAN /\ due \in BOOLEAN
  /\ lost \in 0 .. Losses /\ refused \in 0 .. Refusals

DriverTypes ==
  /\ sock \in BOOLEAN /\ reader \in {"none", "loop", "again", "ended"} /\ stray \in BOOLEAN
  /\ age \in 0 .. Never /\ rto \in 1 .. StartTimeout
  /\ main \in MainPcs /\ request \in Requests /\ ready \in BOOLEAN
  /\ mainWait \in Waits /\ svcWait \in Waits
  /\ svc \in {"idle", "lock", "wait", "pop", "rest"} /\ sopas \in {"free", "main", "svc"}
  /\ signal \in {"none", "stop", "join", "exited"} /\ cloudAge \in 0 .. KillTimeout + 1

AskingTypes == wanted \in Keywords /\ retry \in 0 .. ReadTimeout + 1

Types == DeviceTypes /\ DriverTypes /\ AskingTypes

(* TypeOK in parts: what FramesInv has, the device, the driver. *)
LEMMA TypeParts == FramesInv => (TypeOK <=> Types)
<1>1. {mainWait, svcWait} \subseteq Waits <=> mainWait \in Waits /\ svcWait \in Waits  OBVIOUS
<1> QED BY <1>1, LengthOnWire DEF TypeOK, Types, DeviceTypes, DriverTypes, AskingTypes, Waits

(* The variables start with their types. *)
LEMMA InitTypes == Init => Types
<1> SUFFICES ASSUME Init PROVE Types  OBVIOUS
<1>1. DeviceTypes
  <2>1. lost \in 0 .. Losses /\ refused \in 0 .. Refusals  BY LidarAssumption DEF Init
  <2> QED BY <2>1, Zenon DEF Init, DeviceTypes
<1>2. age \in 0 .. Never /\ rto \in 1 .. StartTimeout /\ cloudAge \in 0 .. KillTimeout + 1
  BY LidarAssumption DEF Init, Never
<1>3. mainWait \in Waits /\ svcWait \in Waits  BY FixedWaits DEF Init
<1>4. main \in MainPcs /\ request \in Requests  BY DEF Init, MainPcs, Requests
<1>5. /\ sock \in BOOLEAN /\ reader \in {"none", "loop", "again", "ended"} /\ stray \in BOOLEAN
      /\ ready \in BOOLEAN /\ svc \in {"idle", "lock", "wait", "pop", "rest"}
      /\ sopas \in {"free", "main", "svc"} /\ signal \in {"none", "stop", "join", "exited"}
  BY DEF Init
<1>6. AskingTypes  BY LidarAssumption DEF Init, AskingTypes, Keywords
<1> QED BY <1>1, <1>2, <1>3, <1>4, <1>5, <1>6 DEF Types, DriverTypes

(* Every step keeps the types of the scanner and its connection. *)
LEMMA DeviceKeeps == ASSUME Types, Next PROVE DeviceTypes'
<1> USE DEF Types
<1>1. CASE SendScan  BY <1>1 DEF SendScan, Send, DeviceTypes
<1>2. CASE AnswerSome
  <2>1. PICK who \in {"main", "svc"}, key \in Keywords : Answer(who, key)
    BY <1>2 DEF AnswerSome
  <2>2. streaming' \in BOOLEAN  BY <2>1, Zenon DEF Answer
  <2> QED BY <2>1, <2>2 DEF Answer, DeviceTypes
<1>3. CASE Lose
  <2>1. lost' \in 0 .. Losses  BY <1>3, LidarAssumption DEF Lose, DeviceTypes
  <2> QED BY <1>3, <2>1, Zenon DEF Lose, DeviceTypes
<1>4. CASE PowerOn  BY <1>4 DEF PowerOn, DeviceTypes
<1>5. CASE Reader  BY <1>5 DEF Reader, Receive, ReceiveEnd, ReaderEnd, device, DeviceTypes
<1>6. CASE Connect \/ ConnectFails \/ Recreate \/ Close
  BY <1>6 DEF Connect, ConnectFails, Recreate, Close, HangUp, DeviceTypes
<1>7. CASE Ask
  <2>1. request \in Keywords  BY DEF DriverTypes, Requests, Keywords
  <2> QED BY <1>7, <2>1 DEF Ask, DeviceTypes
<1>8. CASE \/ AnswerMissing \/ TakeAnswer \/ SkipAnswer \/ Renew \/ ScanArrives \/ ScanMissing
           \/ PopScan \/ Check \/ Join \/ Awake
  BY <1>8 DEF AnswerMissing, TakeAnswer, SkipAnswer, Renew, ScanArrives, ScanMissing, PopScan,
     Check, Join, Awake, device, DeviceTypes
<1>9. CASE Request \/ SvcArrives \/ SvcMissing \/ SvcPop \/ Interrupt \/ Handler
  BY <1>9 DEF Request, SvcArrives, SvcMissing, SvcPop, Interrupt, Handler, StopScanner, Joined,
     device, DeviceTypes
<1>11. CASE SvcAsk
  <2>1. asked' = asked \/ asked' = asked \cup {<<"svc", wanted>>}  BY <1>11 DEF SvcAsk
  <2> QED BY <1>11, <2>1 DEF SvcAsk, DeviceTypes, AskingTypes
<1>10. CASE Tick  BY <1>10 DEF Tick, DeviceTypes
<1> QED BY <1>1, <1>2, <1>3, <1>4, <1>5, <1>6, <1>7, <1>8, <1>9, <1>10, <1>11
     DEF Next, Main, Svc

driver == <<sock, reader, stray, age, rto, main, request, ready, mainWait, svcWait, svc, sopas,
            signal, cloudAge>>

(* Every step keeps the types of the threads. *)
LEMMA DriverKeeps == ASSUME DriverTypes, Next PROVE DriverTypes'
<1>0. ReadTimeout \in 1 .. StartTimeout /\ StartTimeout \in 1 .. StartTimeout
      /\ 1 \in 1 .. StartTimeout /\ 1 .. StartTimeout \subseteq Nat /\ Never \in 0 .. Never
      /\ 0 \in 0 .. Never /\ 0 \in 0 .. KillTimeout + 1
  BY LidarAssumption DEF Never
<1>1. CASE SendScan \/ AnswerSome \/ Lose \/ PowerOn
  <2>1. UNCHANGED driver
    BY <1>1 DEF SendScan, AnswerSome, Answer, Lose, PowerOn, socket, mainVars, svcVars, mutex,
       driver
  <2> QED BY <2>1 DEF driver, DriverTypes
<1>2. CASE Receive
  <2>1. mainWait' \in Waits /\ svcWait' \in Waits
    BY <1>2, WaitTypes DEF Receive, DriverTypes
  <2> QED BY <1>0, <1>2, <2>1 DEF Receive, mutex, DriverTypes
<1>3. CASE ReceiveEnd \/ ReaderEnd
  BY <1>3 DEF ReceiveEnd, ReaderEnd, mainVars, svcVars, mutex, DriverTypes
<1>4. CASE Connect \/ ConnectFails
  BY <1>0, <1>4, FixedWaits
     DEF Connect, ConnectFails, HangUp, others, svcVars, mutex, DriverTypes, MainPcs, Requests
<1>5. CASE Ask
  <2>1. main' \in MainPcs /\ mainWait' \in Waits
    <3>1. rto \in Nat  BY <1>0 DEF DriverTypes
    <3>2. CASE Failed  BY <3>1, <3>2, LoopTypes
    <3>3. CASE main' = "answer" /\ mainWait' = Wait(rto)
      BY <3>1, <3>3, FixedWaits DEF MainPcs
    <3> QED BY <1>5, <3>2, <3>3 DEF Ask
  <2>2. sopas' \in {"free", "main", "svc"}  BY <1>5 DEF Ask, DriverTypes
  <2>3. UNCHANGED <<sock, reader, stray, age, rto, request, ready, svc, svcWait, signal, cloudAge>>
    BY <1>5 DEF Ask, others, svcVars, socket
  <2> QED BY <2>1, <2>2, <2>3 DEF DriverTypes
<1>6. CASE AnswerMissing
  <2>1. main' \in MainPcs /\ mainWait' \in Waits
    <3>1. 0 \in Nat  OBVIOUS
    <3> QED BY <1>6, <3>1, LoopTypes DEF AnswerMissing
  <2> QED BY <1>6, <2>1 DEF AnswerMissing, Release, others, svcVars, socket, DriverTypes
<1>7. CASE TakeAnswer
  <2>1. main' \in MainPcs /\ mainWait' \in Waits
    BY <1>0, <1>7, LoopTypes, FixedWaits, LidarAssumption DEF TakeAnswer, MainPcs
  <2>2. rto' \in 1 .. StartTimeout /\ request' \in Requests /\ ready' \in BOOLEAN
    BY <1>0, <1>7 DEF TakeAnswer, DriverTypes, Requests
  <2> QED BY <1>7, <2>1, <2>2 DEF TakeAnswer, Release, others, svcVars, socket, DriverTypes
<1>17. CASE SkipAnswer
  <2>1. main' \in MainPcs /\ mainWait' \in Waits
    BY <1>0, <1>17, LoopTypes, FixedWaits DEF SkipAnswer, DriverTypes
  <2>2. sopas' \in {"free", "main", "svc"}
    BY <1>17 DEF SkipAnswer, Release, Again, DriverTypes
  <2> QED BY <1>17, <2>1, <2>2 DEF SkipAnswer, others, svcVars, socket, DriverTypes
<1>8. CASE Recreate \/ Renew \/ Join
  <2>1. main' \in {"renew", "connect", "done", "sleep"} /\ age' \in {age, Never}
    BY <1>8 DEF Recreate, Renew, Join
  <2>2. (sock' = sock \/ sock' = FALSE) /\ reader' \in {reader, "none"}
    BY <1>8 DEF Recreate, Renew, Join, HangUp
  <2>3. UNCHANGED <<stray, rto, mainWait, request, ready, sopas, svc, svcWait, signal, cloudAge>>
    BY <1>8 DEF Recreate, Renew, Join, others, svcVars, mutex
  <2>4. sock' \in BOOLEAN  BY <2>2, Zenon DEF DriverTypes
  <2>5. main' \in MainPcs /\ age' \in 0 .. Never  BY <1>0, <2>1 DEF DriverTypes, MainPcs
  <2>6. reader' \in {"none", "loop", "again", "ended"}  BY <2>2 DEF DriverTypes
  <2> QED BY <2>3, <2>4, <2>5, <2>6 DEF DriverTypes
<1>16. CASE ScanArrives \/ ScanMissing \/ Awake
  BY <1>16, FixedWaits DEF ScanArrives, ScanMissing, Awake, socket, others, svcVars, mutex,
     DriverTypes, MainPcs
<1>9. CASE PopScan
  BY <1>0, <1>9 DEF PopScan, device, socket, svcVars, mutex, DriverTypes, MainPcs
<1>10. CASE Check
  <2>1. rto' \in 1 .. StartTimeout  BY <1>0, <1>10 DEF Check, DriverTypes
  <2>2. rto' \in Nat  BY <1>0, <2>1
  <2>3. main' \in MainPcs /\ mainWait' \in Waits
    <3>1. CASE main' = "close" /\ mainWait' = NoWait  BY <3>1, FixedWaits DEF MainPcs
    <3>2. CASE Loop(rto')
      BY <2>2, <3>2, FixedWaits DEF Loop, MainPcs
    <3> QED BY <1>10, <3>1, <3>2 DEF Check
  <2> QED BY <1>10, <2>1, <2>3 DEF Check, others, svcVars, mutex, socket, DriverTypes
<1>11. CASE Close
  <2>1. mainWait' \in Waits  BY <1>0, <1>11, FixedWaits DEF Close
  <2> QED BY <1>11, <2>1 DEF Close, HangUp, others, svcVars, mutex, DriverTypes, MainPcs
<1>12. CASE Request \/ SvcArrives \/ SvcMissing \/ Interrupt \/ Joined
  BY <1>12, FixedWaits DEF Request, SvcArrives, SvcMissing, Interrupt, Joined, Release, quiet,
     socket, mainVars, svcVars, mutex, DriverTypes
<1>18. CASE SvcPop
  <2>1. svcWait' \in Waits  BY <1>0, <1>18, FixedWaits DEF SvcPop, DriverTypes
  <2>2. sopas' \in {"free", "main", "svc"} /\ svc' \in {"wait", "rest"}
    BY <1>18 DEF SvcPop, Release, Again, DriverTypes
  <2> QED BY <1>18, <2>1, <2>2 DEF SvcPop, quiet, socket, mainVars, DriverTypes
<1>13. CASE SvcAsk
  <2>1. svcWait' \in Waits
    <3>1. rto \in Nat  BY <1>0 DEF DriverTypes
    <3> QED BY <1>13, <3>1, FixedWaits DEF SvcAsk, DriverTypes
  <2> QED BY <1>13, <2>1 DEF SvcAsk, quiet, socket, mainVars, DriverTypes
<1>14. CASE StopScanner
  BY <1>0, <1>14 DEF StopScanner, socket, mainVars, svcVars, mutex, DriverTypes
<1>15. CASE Tick
  <2>1. mainWait' \in Waits /\ svcWait' \in Waits  BY <1>15, WaitTypes DEF Tick, DriverTypes
  <2>2. age' \in 0 .. Never
    BY <1>0, <1>15, LidarAssumption DEF Tick, DriverTypes, Older, Never
  <2>3. cloudAge' \in 0 .. KillTimeout + 1
    BY <1>15, LidarAssumption DEF Tick, DriverTypes, Older
  <2> QED BY <1>15, <2>1, <2>2, <2>3 DEF Tick, socket, DriverTypes
<1> QED
  BY <1>1, <1>2, <1>3, <1>4, <1>5, <1>6, <1>7, <1>8, <1>9, <1>10, <1>11, <1>12, <1>13, <1>14,
     <1>15, <1>16, <1>17, <1>18 DEF Next, Main, Reader, Svc, Handler

(* Every step keeps the types of what the thread with the mutex asks for. *)
LEMMA AskingKeeps == ASSUME AskingTypes, Next PROVE AskingTypes'
<1>0. ReadTimeout \in Nat /\ Services \subseteq Keywords  BY LidarAssumption
<1>1. wanted' = wanted \/ wanted' \in Services
  BY DEF Next, AnswerSome, Reader, Main, Svc, Handler, SendScan, Answer, Lose, PowerOn, Receive,
     ReceiveEnd, ReaderEnd, Connect, ConnectFails, Ask, AnswerMissing, TakeAnswer, SkipAnswer,
     Recreate, Renew, ScanArrives, ScanMissing, PopScan, Check, Close, Join, Awake, Request, SvcAsk,
     SvcArrives, SvcMissing, SvcPop, Interrupt, StopScanner, Joined, Tick, others, svcVars
<1>2. \/ retry' = retry \/ retry' = 0 \/ (retry = 0 /\ retry' = 1)
      \/ retry' = Older(retry, ReadTimeout + 1)
  BY DEF Next, AnswerSome, Reader, Main, Svc, Handler, SendScan, Answer, Lose, PowerOn, Receive,
     ReceiveEnd, ReaderEnd, Connect, ConnectFails, Ask, AnswerMissing, TakeAnswer, SkipAnswer,
     Recreate, Renew, ScanArrives, ScanMissing, PopScan, Check, Close, Join, Awake, Request, SvcAsk,
     SvcArrives, SvcMissing, SvcPop, Interrupt, StopScanner, Joined, Tick, mutex, Release, Again
<1> QED BY <1>0, <1>1, <1>2 DEF AskingTypes, Older

(* The variables keep their types for every time-out: waits and ages stay  *)
(* in their ranges, the wire within its bound, the buffer and the queue    *)
(* hold what the code puts into them.                                      *)
THEOREM SessionTypes == Spec => []TypeOK
<1>1. Init => FramesInv /\ Types  BY FramesInit, InitTypes
<1>2. FramesInv /\ Types /\ [Next]_vars
        => (FramesInv /\ Types)'
  <2> SUFFICES ASSUME FramesInv, Types, [Next]_vars
               PROVE  (FramesInv /\ Types)'
    OBVIOUS
  <2>1. CASE Next
    BY <2>1, StepKeeps, DeviceKeeps, DriverKeeps, AskingKeeps DEF Types
  <2>2. CASE UNCHANGED vars
    <3>1. Types'
      BY <2>2 DEF vars, device, socket, mainVars, svcVars, mutex, Types, DeviceTypes, DriverTypes,
         AskingTypes
    <3> QED BY <2>2, <3>1, StepKeeps
  <2> QED BY <2>1, <2>2
<1>3. FramesInv /\ Types => TypeOK  BY TypeParts
<1> QED BY <1>1, <1>2, <1>3, PTL DEF Spec
-----------------------------------------------------------------------------
(* What a thread has seen in the queue *)

\* The datagrams that only those who ask for them find.
Plain == Kinds \ {"sFA"}

NoErrors == wire \in Seq(TokensOf(Plain)) /\ rx \in Seq(TokensOf(Plain)) /\ queue \in Seq(Plain)

\* A service runs in an initialised driver, which gives its scanner object
\* up, and the queue with it, only when it is told to stop.
InOperation ==
  /\ svc # "idle" => ready
  /\ main \in {"recreate", "renew"} /\ signal = "none" => ~ready

\* Who waits for an answer holds the mutex, and services ask for what they may.
Holders ==
  /\ main = "answer" => sopas = "main"
  /\ svc \in {"wait", "pop"} => sopas = "svc"
  /\ svc # "idle" => wanted \in Services

PopInv == NoErrors /\ InOperation /\ Holders /\ PopNeverWaits

(* A queue without error replies keeps what others asked for. *)
LEMMA RestHolds ==
  ASSUME NEW q \in Seq(Plain), NEW mine, NEW other, mine \cap other = {},
         Holds(q, mine), Holds(q, other)
  PROVE  Holds(Rest(q, mine), other)
<1>1. PICK i \in DOMAIN q : Found(q[i], other)  BY DEF Holds
<1>2. First(q, mine) \in DOMAIN q /\ Found(q[First(q, mine)], mine)  BY FirstIsFound
<1>3. \A j \in DOMAIN q : q[j] # "sFA"  BY DEF Plain
<1>4. i # First(q, mine)  BY <1>1, <1>2, <1>3 DEF Found
<1>5. \E j \in DOMAIN Rest(q, mine) : Rest(q, mine)[j] = q[i]  BY <1>4, RestTypes
<1> QED BY <1>1, <1>5 DEF Holds

(* So does a queue that grows. *)
LEMMA GrownHolds ==
  ASSUME NEW q \in Seq(Plain), NEW f \in Seq(Plain), NEW keys, Holds(q, keys)
  PROVE  Holds(q \o f, keys)
<1>1. PICK i \in DOMAIN q : Found(q[i], keys)  BY DEF Holds
<1>2. i \in DOMAIN (q \o f) /\ (q \o f)[i] = q[i]  OBVIOUS
<1> QED BY <1>1, <1>2 DEF Holds

(* The scanner sends what it was asked for. *)
LEMMA PlainSent ==
  ASSUME NoErrors, sent \in 0 .. Later, NEW kind \in Plain, Send(kind)
  PROVE  wire' \in Seq(TokensOf(Plain))
<1> DEFINE n == IF sent < Later THEN sent + 1 ELSE Later
<1>1. n \in 1 .. Later  BY DEF Later
<1>2. wire' = wire \o Frame(kind, n)  BY DEF Send
<1> HIDE DEF n
<1>3. Frame(kind, n) \in Seq(TokensOf(Plain))  BY <1>1 DEF Frame, TokensOf
<1> QED BY <1>2, <1>3 DEF NoErrors

(* The receive thread finds no other datagrams than were sent. *)
LEMMA PlainReceived ==
  ASSUME NoErrors, Receive
  PROVE  /\ wire' \in Seq(TokensOf(Plain)) /\ rx' \in Seq(TokensOf(Plain))
         /\ \E f \in Seq(Plain) : queue' = queue \o f
<1>1. PICK k \in Cuts(wire), lucky \in BOOLEAN :
        /\ wire' = SubSeq(wire, k + 1, Len(wire))
        /\ rx' = Parse(rx \o SubSeq(wire, 1, k), lucky).rest
        /\ queue' = queue \o Parse(rx \o SubSeq(wire, 1, k), lucky).frames
  BY DEF Receive, Received
<1>2. k \in 1 .. Len(wire)  BY DEF Cuts, NoErrors
<1>3. /\ SubSeq(wire, k + 1, Len(wire)) \in Seq(TokensOf(Plain))
      /\ SubSeq(wire, 1, k) \in Seq(TokensOf(Plain))
  BY <1>2 DEF NoErrors
<1>4. rx \o SubSeq(wire, 1, k) \in Seq(TokensOf(Plain))  BY <1>3 DEF NoErrors
<1>5. Parse(rx \o SubSeq(wire, 1, k), lucky) \in [frames : Seq(Plain), rest : KeptOf(Plain)]
  <2>1. Plain \in SUBSET Kinds  BY DEF Plain
  <2> QED BY <1>4, <2>1, ParseKinds
<1> QED BY <1>1, <1>3, <1>5 DEF KeptOf

\* Steps that leave the queue alone, and those that send, receive and take out.
Sends == SendScan \/ AnswerSome
Takes == TakeAnswer \/ SkipAnswer \/ PopScan \/ SvcPop \/ Renew
Elsewhere ==
  \/ Lose \/ PowerOn \/ ReceiveEnd \/ ReaderEnd
  \/ Connect \/ ConnectFails \/ Ask \/ AnswerMissing \/ Recreate \/ ScanArrives \/ ScanMissing
  \/ Check \/ Close \/ Join \/ Awake
  \/ Request \/ SvcAsk \/ SvcArrives \/ SvcMissing \/ Interrupt \/ Handler \/ Tick

LEMMA StepKinds == Next <=> Sends \/ Receive \/ Takes \/ Elsewhere
  BY Zenon DEF Next, Reader, Main, Svc, Sends, Takes, Elsewhere

(* No error reply comes out of nothing. *)
LEMMA NoErrorsKept ==
  ASSUME NoErrors, FramesInv, Next
  PROVE  NoErrors'
<1>0. <<>> \in Seq(TokensOf(Plain))  OBVIOUS
<1>1. CASE Sends
  <2>1. PICK kind \in Plain : Send(kind) /\ rx' = rx /\ queue' = queue
    <3>1. CASE SendScan
      <4>1. "scan" \in Plain  BY DEF Plain, Kinds
      <4>2. Send("scan") /\ rx' = rx /\ queue' = queue  BY <3>1 DEF SendScan, socket
      <4> QED BY <4>1, <4>2, Zenon
    <3>2. CASE AnswerSome
      <4>1. PICK who \in {"main", "svc"}, key \in Keywords : Answer(who, key)
        BY <3>2 DEF AnswerSome
      <4>2. key \in Plain  BY DEF Keywords, Plain, Kinds
      <4>3. Send(key) /\ rx' = rx /\ queue' = queue  BY <4>1 DEF Answer, socket
      <4> QED BY <4>2, <4>3, Zenon
    <3> QED BY <1>1, <3>1, <3>2 DEF Sends
  <2>2. sent \in 0 .. Later  BY DEF FramesInv, StreamTypes
  <2> QED BY <2>1, <2>2, PlainSent DEF NoErrors
<1>2. CASE Receive
  <2>1. PICK f \in Seq(Plain) : queue' = queue \o f  BY <1>2, PlainReceived
  <2>2. queue' \in Seq(Plain)  BY <2>1 DEF NoErrors
  <2> QED BY <1>2, <2>2, PlainReceived DEF NoErrors
<1>3. CASE Takes
  <2>1. queue' = <<>> \/ \E keys : Holds(queue, keys) /\ queue' = Rest(queue, keys)
    BY <1>3 DEF Takes, TakeAnswer, SkipAnswer, PopScan, SvcPop, Renew
  <2>2. queue' \in Seq(Plain)
    <3>1. queue \in Seq(Plain) /\ <<>> \in Seq(Plain)  BY DEF NoErrors
    <3>2. ASSUME NEW keys, Holds(queue, keys) PROVE Rest(queue, keys) \in Seq(Plain)
      BY <3>1, <3>2, RestTypes
    <3> QED BY <2>1, <3>1, <3>2
  <2>3. wire' = wire /\ (rx' = rx \/ rx' = <<>>)
    BY <1>3 DEF Takes, TakeAnswer, SkipAnswer, PopScan, SvcPop, Renew, device, socket, quiet
  <2> QED BY <1>0, <2>2, <2>3, Zenon DEF NoErrors
<1>4. CASE Elsewhere
  <2>1. queue' = queue /\ rx' = rx
    BY <1>4 DEF Elsewhere, Lose, PowerOn, ReceiveEnd, ReaderEnd, Connect, ConnectFails, Ask,
       AnswerMissing, Recreate, ScanArrives, ScanMissing, Check, Close, Join, Awake, Request,
       SvcAsk, SvcArrives, SvcMissing, Interrupt, Handler, StopScanner, Joined, Tick, socket, quiet
  <2>2. wire' = wire \/ wire' = <<>> \/ \E k \in {0} \cup Cuts(wire) : wire' = SubSeq(wire, 1, k)
    BY <1>4 DEF Elsewhere, Lose, PowerOn, ReceiveEnd, ReaderEnd, Connect, ConnectFails, Ask,
       AnswerMissing, Recreate, ScanArrives, ScanMissing, Check, Close, Join, Awake, Request,
       SvcAsk, SvcArrives, SvcMissing, Interrupt, Handler, StopScanner, Joined, Tick, HangUp, quiet
  <2>3. wire' \in Seq(TokensOf(Plain))
    <3>1. CASE wire' = wire \/ wire' = <<>>  BY <1>0, <3>1, Zenon DEF NoErrors
    <3>2. CASE \E k \in {0} \cup Cuts(wire) : wire' = SubSeq(wire, 1, k)
      <4>1. PICK k \in {0} \cup Cuts(wire) : wire' = SubSeq(wire, 1, k)  BY <3>2
      <4>2. k \in 0 .. Len(wire)  BY <4>1 DEF Cuts, NoErrors
      <4> QED BY <4>1, <4>2 DEF NoErrors
    <3> QED BY <2>2, <3>1, <3>2
  <2> QED BY <2>1, <2>3 DEF NoErrors
<1> QED BY <1>1, <1>2, <1>3, <1>4, StepKinds

(* The driver stays initialised, so a service keeps its scanner object. *)
LEMMA InOperationKept == ASSUME InOperation, Next PROVE InOperation'
<1>1. CASE Sends \/ Receive
  <2>1. UNCHANGED <<svc, ready, main, signal>>
    BY <1>1 DEF Sends, SendScan, AnswerSome, Answer, Receive, mainVars, svcVars
  <2> QED BY <2>1 DEF InOperation
<1>2. CASE TakeAnswer \/ SkipAnswer
  <2>1. UNCHANGED <<svc, signal>>  BY <1>2 DEF TakeAnswer, SkipAnswer, others, svcVars
  <2>2. ready' = ready \/ ready' = TRUE  BY <1>2 DEF TakeAnswer, SkipAnswer
  <2>3. main' \in {"recreate", "renew"} /\ signal' = "none" => ~ready'
    BY <1>2, <2>1 DEF TakeAnswer, SkipAnswer, Failed, Loop
  <2> QED BY <2>1, <2>2, <2>3 DEF InOperation
<1>3. CASE PopScan \/ Renew \/ SvcPop
  <2>1. ready' = ready /\ signal' = signal
    BY <1>3 DEF PopScan, Renew, SvcPop, others, quiet, mainVars
  <2>2. (svc' \in {"rest", "wait"} /\ svc # "idle") \/ svc' = svc
    BY <1>3 DEF PopScan, Renew, SvcPop, others, svcVars
  <2>3. main' = main \/ main' \notin {"recreate", "renew"}
    BY <1>3 DEF PopScan, Renew, SvcPop, quiet, mainVars
  <2> QED BY <2>1, <2>2, <2>3 DEF InOperation
<1>4. CASE \/ Lose \/ PowerOn \/ ReceiveEnd \/ ReaderEnd \/ Connect \/ ConnectFails \/ Recreate
           \/ ScanArrives \/ ScanMissing \/ Close \/ Join \/ Awake
  <2>1. UNCHANGED <<svc, ready, signal>>
    BY <1>4 DEF Lose, PowerOn, ReceiveEnd, ReaderEnd, Connect, ConnectFails, Recreate, ScanArrives,
       ScanMissing, Close, Join, Awake, others, mainVars, svcVars
  <2>2. main' = main \/ main' \notin {"recreate", "renew"} \/ main = "recreate"
    BY <1>4 DEF Lose, PowerOn, ReceiveEnd, ReaderEnd, Connect, ConnectFails, Recreate, ScanArrives,
       ScanMissing, Close, Join, Awake, mainVars
  <2> QED BY <2>1, <2>2 DEF InOperation
<1>5. CASE Ask \/ AnswerMissing \/ Check
  <2>1. UNCHANGED <<svc, ready, signal>>
    BY <1>5 DEF Ask, AnswerMissing, Check, others, svcVars
  <2>2. main' \in {"recreate", "renew"} => ~ready \/ signal # "none"
    BY <1>5 DEF Ask, AnswerMissing, Check, Failed, Loop
  <2> QED BY <2>1, <2>2 DEF InOperation
<1>6. CASE Request \/ SvcAsk \/ SvcArrives \/ SvcMissing \/ Tick
  <2>1. UNCHANGED <<ready, main, signal>>
    BY <1>6 DEF Request, SvcAsk, SvcArrives, SvcMissing, Tick, quiet, mainVars
  <2>2. svc' # "idle" => ready
    BY <1>6 DEF Request, SvcAsk, SvcArrives, SvcMissing, Tick, InOperation
  <2> QED BY <2>1, <2>2 DEF InOperation
<1>7. CASE Interrupt \/ Handler
  <2>1. UNCHANGED <<svc, ready, main>> /\ signal' # "none"
    BY <1>7 DEF Interrupt, Handler, StopScanner, Joined, quiet, mainVars, svcVars
  <2> QED BY <2>1 DEF InOperation
<1> QED
  BY <1>1, <1>2, <1>3, <1>4, <1>5, <1>6, <1>7, StepKinds, Zenon DEF Takes, Elsewhere

(* Nobody waits for an answer without the mutex. *)
LEMMA HoldersKept == ASSUME Holders, Next PROVE Holders'
<1>1. CASE Sends \/ Receive \/ PopScan \/ Renew
  <2>1. UNCHANGED <<svc, wanted, sopas>> /\ (main' = main \/ main' # "answer")
    BY <1>1 DEF Sends, SendScan, AnswerSome, Answer, Receive, PopScan, Renew, others, mainVars,
       svcVars, mutex
  <2> QED BY <2>1 DEF Holders
<1>2. CASE Ask
  <2>1. UNCHANGED <<svc, wanted>>  BY <1>2 DEF Ask, others, svcVars
  <2>2. sopas = "free" /\ (sopas' = "main" \/ (sopas' = sopas /\ main' # "answer"))
    BY <1>2 DEF Ask, Failed
  <2> QED BY <2>1, <2>2 DEF Holders
<1>3. CASE AnswerMissing \/ TakeAnswer \/ SkipAnswer
  <2>1. main = "answer" /\ UNCHANGED <<svc, wanted>>
    BY <1>3 DEF AnswerMissing, TakeAnswer, SkipAnswer, others, svcVars
  <2>2. sopas' = sopas \/ main' # "answer"
    BY <1>3 DEF AnswerMissing, TakeAnswer, SkipAnswer, Failed, Loop, Again
  <2> QED BY <2>1, <2>2 DEF Holders
<1>4. CASE \/ Lose \/ PowerOn \/ ReceiveEnd \/ ReaderEnd \/ Connect \/ ConnectFails \/ Recreate
           \/ ScanArrives \/ ScanMissing \/ Check \/ Close \/ Join \/ Awake \/ Interrupt \/ Handler
  <2>1. UNCHANGED <<svc, wanted, sopas>> /\ (main' = main \/ main' # "answer")
    BY <1>4 DEF Lose, PowerOn, ReceiveEnd, ReaderEnd, Connect, ConnectFails, Recreate, ScanArrives,
       ScanMissing, Check, Loop, Close, Join, Awake, Interrupt, Handler, StopScanner, Joined,
       others, quiet, mainVars, svcVars, mutex
  <2> QED BY <2>1 DEF Holders
<1>5. CASE Request \/ SvcAsk \/ SvcArrives \/ SvcMissing \/ SvcPop
  <2>1. main' = main
    BY <1>5 DEF Request, SvcAsk, SvcArrives, SvcMissing, SvcPop, quiet, mainVars
  <2>2. wanted' \in Services \/ (wanted' = wanted /\ svc # "idle")
    BY <1>5 DEF Request, SvcAsk, SvcArrives, SvcMissing, SvcPop
  <2>3. CASE Request  BY <2>1, <2>2, <2>3 DEF Request, mutex, Holders
  <2>4. CASE SvcAsk  BY <2>1, <2>2, <2>4 DEF SvcAsk, Holders
  <2>5. CASE SvcArrives \/ SvcMissing \/ SvcPop
    BY <2>1, <2>2, <2>5 DEF SvcArrives, SvcMissing, SvcPop, Release, Again, mutex, Holders
  <2> QED BY <1>5, <2>3, <2>4, <2>5
<1>6. CASE Tick
  <2>1. UNCHANGED <<main, wanted, sopas>> /\ (svc' = svc \/ (svc' = "idle" /\ svc = "rest"))
    BY <1>6 DEF Tick
  <2> QED BY <2>1 DEF Holders
<1> QED
  BY <1>1, <1>2, <1>3, <1>4, <1>5, <1>6, StepKinds, Zenon DEF Takes, Elsewhere

(* What was seen stays until it is taken by who saw it. *)
LEMMA SeenKept ==
  ASSUME PopInv, Next
  PROVE  PopNeverWaits'
<1>0. queue \in Seq(Plain)  BY DEF PopInv, NoErrors
<1>1. CASE Sends
  <2>1. UNCHANGED <<queue, main, svc, wanted, signal>>
    BY <1>1 DEF Sends, SendScan, AnswerSome, Answer, mainVars, svcVars
  <2> QED BY <2>1 DEF PopInv, PopNeverWaits
<1>2. CASE Receive
  <2>1. UNCHANGED <<main, svc, wanted, signal>>  BY <1>2 DEF Receive
  <2>2. PICK f \in Seq(Plain) : queue' = queue \o f  BY <1>2, PlainReceived DEF PopInv
  <2> QED BY <1>0, <2>1, <2>2, GrownHolds DEF PopInv, PopNeverWaits
<1>3. CASE TakeAnswer \/ SkipAnswer
  <2>1. main = "answer" /\ main' # "pop" /\ svc' = svc
    BY <1>3 DEF TakeAnswer, SkipAnswer, Loop, Failed, others, svcVars
  <2>2. svc # "pop"  BY <2>1 DEF PopInv, Holders
  <2> QED BY <2>1, <2>2 DEF PopNeverWaits
<1>4. CASE PopScan
  <2>1. /\ queue' = Rest(queue, ScanKeys) /\ Holds(queue, ScanKeys)
        /\ UNCHANGED <<svc, wanted, signal>> /\ main' # "pop"
    BY <1>4 DEF PopScan, svcVars
  <2>2. ASSUME wanted \notin ScanKeys, Holds(queue, {wanted}) PROVE Holds(queue', {wanted})
    <3>1. ScanKeys \cap {wanted} = {}  BY <2>2
    <3> QED BY <1>0, <2>1, <2>2, <3>1, RestHolds
  <2> QED BY <2>1, <2>2 DEF PopInv, PopNeverWaits
<1>5. CASE SvcPop
  <2>1. /\ queue' = Rest(queue, {wanted}) /\ Holds(queue, {wanted}) /\ main' = main
        /\ svc = "pop" /\ svc' # "pop"
    BY <1>5 DEF SvcPop, quiet, mainVars
  <2>2. wanted \in Services  BY <2>1 DEF PopInv, Holders
  <2>3. ASSUME Services \cap ScanKeys = {}, Holds(queue, ScanKeys) PROVE Holds(queue', ScanKeys)
    <3>1. {wanted} \cap ScanKeys = {}  BY <2>2, <2>3
    <3> QED BY <1>0, <2>1, <2>3, <3>1, RestHolds
  <2> QED BY <2>1, <2>3 DEF PopInv, PopNeverWaits
<1>6. CASE Renew
  <2>1. main = "renew" /\ main' # "pop" /\ UNCHANGED <<svc, signal>>
    BY <1>6 DEF Renew, others, svcVars
  <2>2. signal = "none" => svc = "idle"  BY <2>1 DEF PopInv, InOperation
  <2> QED BY <2>1, <2>2 DEF PopNeverWaits
<1>7. CASE Elsewhere
  <2>1. queue' = queue
    BY <1>7 DEF Elsewhere, Lose, PowerOn, ReceiveEnd, ReaderEnd, Connect, ConnectFails, Ask,
       AnswerMissing, Recreate, ScanArrives, ScanMissing, Check, Close, Join, Awake, Request,
       SvcAsk, SvcArrives, SvcMissing, Interrupt, Handler, StopScanner, Joined, Tick, quiet
  <2>2. main' = "pop" => main = "pop" \/ Holds(queue, ScanKeys)
    BY <1>7 DEF Elsewhere, Lose, PowerOn, ReceiveEnd, ReaderEnd, Connect, ConnectFails, Ask,
       AnswerMissing, Recreate, ScanArrives, ScanMissing, Check, Close, Join, Awake, Request,
       SvcAsk, SvcArrives, SvcMissing, Interrupt, Handler, StopScanner, Joined, Tick, quiet,
       Failed, Loop, mainVars
  <2>3. svc' = "pop" => wanted' = wanted /\ (svc = "pop" \/ Holds(queue, {wanted}))
    BY <1>7 DEF Elsewhere, Lose, PowerOn, ReceiveEnd, ReaderEnd, Connect, ConnectFails, Ask,
       AnswerMissing, Recreate, ScanArrives, ScanMissing, Check, Close, Join, Awake, Request,
       SvcAsk, SvcArrives, SvcMissing, Interrupt, Handler, StopScanner, Joined, Tick,
       others, svcVars
  <2>4. signal' = "none" => signal = "none"
    BY <1>7 DEF Elsewhere, Lose, PowerOn, ReceiveEnd, ReaderEnd, Connect, ConnectFails, Ask,
       AnswerMissing, Recreate, ScanArrives, ScanMissing, Check, Close, Join, Awake, Request,
       SvcAsk, SvcArrives, SvcMissing, Interrupt, Handler, StopScanner, Joined, Tick, others
  <2> QED BY <2>1, <2>2, <2>3, <2>4 DEF PopInv, PopNeverWaits
<1> QED BY <1>1, <1>2, <1>3, <1>4, <1>5, <1>6, <1>7, StepKinds DEF Takes

(* What a thread has seen in the queue is there when it takes it, for all  *)
(* interleavings of the threads, the receive thread and a broken           *)
(* connection with the two locks of the queue, so that pop, which waits    *)
(* without a limit, returns at once; as long as the scanner refuses        *)
(* nothing, for an sFA is taken by whoever comes first, for the services   *)
(* whose keyword is not one of the scan loop's, whatever the others do,    *)
(* and for the scan loop where there are no others.                        *)
THEOREM PopsNeverWait == Spec => []PopNeverWaits
<1> DEFINE I == FramesInv /\ PopInv
<1>1. Init => I
  <2> SUFFICES ASSUME Init PROVE PopInv  BY FramesInit
  <2>1. NoErrors  BY DEF Init, NoErrors
  <2> QED BY <2>1 DEF Init, PopInv, InOperation, Holders, PopNeverWaits
<1>2. I /\ [Next]_vars => I'
  <2> SUFFICES ASSUME I, [Next]_vars PROVE I'  OBVIOUS
  <2>1. CASE Next
    <3>1. PopInv'  BY <2>1, NoErrorsKept, InOperationKept, HoldersKept, SeenKept DEF PopInv
    <3> QED BY <2>1, <3>1, StepKeeps
  <2>2. CASE UNCHANGED vars
    <3>1. PopInv'
      BY <2>2 DEF vars, device, socket, mainVars, svcVars, mutex, PopInv, NoErrors, InOperation,
         Holders, PopNeverWaits
    <3> QED BY <2>2, <3>1, StepKeeps
  <2> QED BY <2>1, <2>2
<1>3. I => PopNeverWaits  BY DEF PopInv
<1> QED BY <1>1, <1>2, <1>3, PTL DEF Spec
=============================================================================
