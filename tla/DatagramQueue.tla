--------------------------- MODULE DatagramQueue ---------------------------
(***************************************************************************)
(* template_queue.h: the queue of received datagrams that every consumer   *)
(* of the LiDAR driver searches by keyword. A datagram is its kind: a      *)
(* scan, a reply, named by the keyword of its request, or sFA, the         *)
(* scanner's error reply. Of the keywords, LMDscandata is also that of a   *)
(* scan, LIDoutputstate stands for the others both loopOnce and a service  *)
(* look for, SCdevicestate is that of an initialisation and of a service,  *)
(* ECRChangeArr stands for those of a service alone.                       *)
(***************************************************************************)
EXTENDS Naturals, Sequences, SequencesExt

Keywords == {"LMDscandata", "LIDoutputstate", "SCdevicestate", "ECRChangeArr"}
Kinds == Keywords \cup {"scan", "sFA"}

Keyword(kind) == IF kind = "scan" THEN "LMDscandata" ELSE kind

\* findFirstByKeyword: an sFA is found by everybody, whatever the keywords
Found(kind, keywords) == Keyword(kind) \in keywords \/ kind = "sFA"

Holds(q, keywords) == \E i \in DOMAIN q : Found(q[i], keywords)

\* the position findFirstByKeyword returns, where there is one
First(q, keywords) == CHOOSE i \in DOMAIN q :
  Found(q[i], keywords) /\ \A j \in 1 .. i - 1 : ~Found(q[j], keywords)

\* pop removes the datagram it found and leaves the others in order
Popped(q, keywords) == q[First(q, keywords)]
Rest_front(q, keywords) == Tail(q)                                   \* mutant
Rest(q, keywords)   == RemoveAt(q, First(q, keywords))
=============================================================================
