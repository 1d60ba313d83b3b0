-------------------------- MODULE RequestContract --------------------------
(***************************************************************************)
(* What a caller of a subscribe_*_response function is promised: the call  *)
(* ends at most once, and if it returns, it returns a well-formed response *)
(* that was published on the subject it asked for.  Nothing is promised    *)
(* about WHICH request that response answers: the messages carry no        *)
(* correlation.                                                            *)
(***************************************************************************)
CONSTANTS Calls, SubjectOf, None

VARIABLES
  status,    \* status[c]: "idle", "pending", "returned" or "failed"
  result,    \* result[c]: the response call c returned
  offered    \* the responses published so far

Response == [answers : Calls, good : BOOLEAN]

Init ==
  /\ status = [c \in Calls |-> "idle"]
  /\ result = [c \in Calls |-> None]
  /\ offered = {}

Begin(c) ==
  /\ status[c] = "idle"
  /\ status' = [status EXCEPT ![c] = "pending"]
  /\ UNCHANGED <<result, offered>>

\* At most one response is published per request, and only to a request made.
Offer(m) ==
  /\ status[m.answers] # "idle"
  /\ \A o \in offered : o.answers # m.answers
  /\ offered' = offered \cup {m}
  /\ UNCHANGED <<status, result>>

Return(c, m) ==
  /\ status[c] = "pending"
  /\ m.good
  /\ SubjectOf[m.answers] = SubjectOf[c]
  /\ status' = [status EXCEPT ![c] = "returned"]
  /\ result' = [result EXCEPT ![c] = m]
  /\ UNCHANGED offered

Fail(c) ==
  /\ status[c] \in {"idle", "pending"}
  /\ status' = [status EXCEPT ![c] = "failed"]
  /\ UNCHANGED <<result, offered>>

Next ==
  \/ \E c \in Calls : Begin(c) \/ Fail(c)
  \/ \E m \in Response : Offer(m)
  \/ \E c \in Calls, m \in offered : Return(c, m)

Spec == Init /\ [][Next]_<<status, result, offered>>
=============================================================================
