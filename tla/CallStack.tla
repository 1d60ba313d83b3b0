------------------------------ MODULE CallStack ------------------------------
(***************************************************************************)
(* What calls between autotuners promise: every run has an environment of  *)
(* its own, empty when it begins, which only the innermost run reads and   *)
(* writes; when a run ends, however it ends, its caller goes on with the   *)
(* environment it had at the call.                                         *)
(***************************************************************************)
EXTENDS Naturals, Sequences

CONSTANTS
  Environments,   \* maps from variable names to values
  Empty           \* the one without variables

VARIABLE envs     \* the environments, the innermost run's last; the first
                  \* is the interpreter's before any run

Depth == Len(envs)

Init == envs = <<Empty>>

Begin == envs' = Append(envs, Empty)

Compute ==
  /\ Depth > 1
  /\ \E e \in Environments : envs' = [envs EXCEPT ![Depth] = e]

End ==
  /\ Depth > 1
  /\ envs' = SubSeq(envs, 1, Depth - 1)

Next == Begin \/ Compute \/ End

Spec == Init /\ [][Next]_envs
=============================================================================
