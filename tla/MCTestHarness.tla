---------------------------- MODULE MCTestHarness ----------------------------
(* Five suites: one with setup, teardown, a test in two steps and one that *)
(* may throw; one that a terminal may cut short; one without tests; one     *)
(* with neither setup nor teardown, whose second test hands over to a       *)
(* helper; and one with a test that repeats itself, which is not run.       *)
EXTENDS TestHarness, TLC

MCSuites == <<"device", "short", "empty", "plain", "again">>

MCTests == "device" :> <<"test_a", "test_b", "test_more">> @@ "short" :> <<"test_a", "test_b">>
           @@ "empty" :> <<>> @@ "plain" :> <<"test_a", "test_b">>
           @@ "again" :> <<"test_a", "test_b">>

MCStates == {"setup", "teardown", "test_a", "test_b", "test_more", "helper"}

MCFixtures == "device" :> {"setup", "teardown"} @@ "short" :> {} @@ "empty" :> {} @@ "plain" :> {}
              @@ "again" :> {}

\* A state that a suite does not have goes nowhere.
Absent == [q \in MCStates |-> {"throw"}]

MCGoes ==
    "device" :> [Absent EXCEPT !["setup"] = {"__begin"}, !["teardown"] = {"__end"},
                               !["test_a"] = {"test_more"}, !["test_more"] = {"teardown"},
                               !["test_b"] = {"teardown", "throw"}]
    @@ "short" :> [Absent EXCEPT !["test_a"] = {"__end", "terminal"}, !["test_b"] = {"__end"}]
    @@ "empty" :> Absent
    @@ "plain" :> [Absent EXCEPT !["test_a"] = {"__end"}, !["test_b"] = {"helper"},
                                 !["helper"] = {"__end"}]
    @@ "again" :> [Absent EXCEPT !["test_a"] = {"test_a", "__end"}, !["test_b"] = {"__end"}]

ASSUME SuitesAreProper == FollowsProtocol
=============================================================================
