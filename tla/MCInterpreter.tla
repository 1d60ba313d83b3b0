---------------------------- MODULE MCInterpreter ----------------------------
(* A program of two autotuners that use the same names in different roles; *)
(* a state of the first takes a parameter with the name of an input.       *)
EXTENDS Interpreter, TLC

CONSTANTS x, y, z, tuner, helper, measure, fit, run

MCInputsOf == tuner :> {x} @@ helper :> {}

MCOutputsOf == tuner :> {y} @@ helper :> {x}

MCStatesOf == tuner :> {measure, fit} @@ helper :> {run}

MCParamsOf == measure :> {} @@ fit :> {x, z} @@ run :> {y}
=============================================================================
