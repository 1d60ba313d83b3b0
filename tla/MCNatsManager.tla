---------------------------- MODULE MCNatsManager ----------------------------
(* Instances of NatsManager.  Threads are interchangeable, and so are       *)
(* registrations.                                                           *)
EXTENDS NatsManager, TLC

MCSymmetry == Permutations(Threads) \cup Permutations(Registrations)
=============================================================================
