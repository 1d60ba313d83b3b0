--------------------------- MODULE MCRequestReply ---------------------------
(* Instances of RequestReply: which calls are made, by whom, on which      *)
(* response subject.                                                       *)
EXTENDS RequestReply, TLC

CONSTANTS m1, m2, p1

\* Two measure calls of one thread and a port call of another.
SequentialSubject ==
  (m1 :> "MEASURE") @@ (m2 :> "MEASURE") @@ (p1 :> "PORT")
SequentialThread == (m1 :> "t1") @@ (m2 :> "t1") @@ (p1 :> "t2")

\* Measure calls of two threads.
SharedSubject == (m1 :> "MEASURE") @@ (m2 :> "MEASURE")
SharedThread  == (m1 :> "t1") @@ (m2 :> "t2")
=============================================================================
