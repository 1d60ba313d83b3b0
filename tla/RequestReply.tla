---------------------------- MODULE RequestReply ----------------------------
(***************************************************************************)
(* The request/response calls of the comms library: the four functions     *)
(* subscribe_config_response, subscribe_port_payload,                      *)
(* subscribe_measure_response and subscribe_state_response share one       *)
(* shape.  Each registers a callback for the response subject with the     *)
(* process-wide NatsManager, publishes a request, waits for the promise    *)
(* the callback fulfils, and unsubscribes BY SUBJECT on every way out.     *)
(*                                                                         *)
(* Three kinds of process interleave: the calling threads, the NATS        *)
(* delivery thread of each subscription, and the instrument hub, which is  *)
(* not part of the repository.  The promise and the `done' flag live in    *)
(* the stack frame of the call and the callback holds references to them.  *)
(***************************************************************************)
EXTENDS Naturals, Sequences, FiniteSets

CONSTANTS
  Calls,       \* the calls made in a behaviour, each made once
  SubjectOf,   \* SubjectOf[c]: the response subject call c listens on
  ThreadOf,    \* ThreadOf[c]: the thread that makes call c
  None         \* an unfulfilled promise, an idle delivery thread

Response == [answers : Calls, good : BOOLEAN]

ASSUME NoneAssumption == None \notin Response

VARIABLES
  phase,       \* phase[c]: where the thread of call c is
  done,        \* done[c]: the atomic flag in the frame of call c
  prom,        \* prom[c]: what the promise in the frame of call c holds
  subs,        \* NatsManager::subscriptions_, one entry per registration
  pending,     \* pending[c]: messages queued for the subscription of call c
  handler,     \* handler[c]: the message the delivery thread of c is handling
  claimed,     \* claimed[c]: that thread is past done.exchange(true)
  request      \* request[c]: what the hub did with the request of call c

callVars    == <<phase, done, prom>>
handlerVars == <<handler, claimed>>
vars == <<phase, done, prom, subs, pending, handler, claimed, request>>

(* "refused": subscribe threw, nothing was registered.                     *)
Phases == {"new", "subscribed", "waiting", "ready", "expired", "givenup",
           "catching", "returned", "threw", "refused"}

TypeOK ==
  /\ phase \in [Calls -> Phases]
  /\ done \in [Calls -> BOOLEAN]
  /\ prom \in [Calls -> Response \cup {None}]
  /\ subs \in Seq(Calls)
  /\ pending \in [Calls -> SUBSET Response]
  /\ handler \in [Calls -> Response \cup {None}]
  /\ claimed \in [Calls -> BOOLEAN]
  /\ request \in [Calls -> {"none", "asked", "good", "bad"}]

Init ==
  /\ phase = [c \in Calls |-> "new"]
  /\ done = [c \in Calls |-> FALSE]
  /\ prom = [c \in Calls |-> None]
  /\ subs = <<>>
  /\ pending = [c \in Calls |-> {}]
  /\ handler = [c \in Calls |-> None]
  /\ claimed = [c \in Calls |-> FALSE]
  /\ request = [c \in Calls |-> "none"]

-----------------------------------------------------------------------------
(* The frame of a call exists from the subscription to the return.         *)
Live(c) == phase[c] \in {"subscribed", "waiting", "ready", "expired",
                         "givenup", "catching"}

Ended(c) == phase[c] \in {"returned", "threw", "refused"}

Registered(c) == \E i \in DOMAIN subs : subs[i] = c

Peers(c) == {d \in Calls : SubjectOf[d] = SubjectOf[c]}

(***************************************************************************)
(* What a callback whose frame is gone may reach: nothing, or the frame a  *)
(* later call of the same function has put at the same stack address.      *)
(***************************************************************************)
FramesAt(c) ==
  IF Live(c) THEN {c}
  ELSE {d \in Peers(c) : Live(d) /\ ThreadOf[d] = ThreadOf[c]}

\* Fault: unsubscribe erases the front entry without comparing subjects.
OnAnySubject(s) == DOMAIN subs

(***************************************************************************)
(* NatsManager::unsubscribe: the first entry with that subject goes,       *)
(* whichever call registered it.  The destroyed subscription drops what it *)
(* had queued; a callback that is running is not waited for.               *)
(***************************************************************************)
OnSubject(s) == {i \in DOMAIN subs : SubjectOf[subs[i]] = s}

IsFirstOn(i, s) == i \in OnSubject(s) /\ \A j \in OnSubject(s) : i <= j

Without(i) ==
  [j \in 1 .. Len(subs) - 1 |-> IF j < i THEN subs[j] ELSE subs[j + 1]]

Unsubscribe(s) ==
  \/ /\ OnSubject(s) = {}
     /\ UNCHANGED <<subs, pending>>
  \/ \E i \in OnSubject(s) :
       /\ IsFirstOn(i, s)
       /\ subs' = Without(i)
       /\ pending' = [pending EXCEPT ![subs[i]] = {}]

-----------------------------------------------------------------------------
(* The calling thread.                                                     *)

Subscribe(c) ==
  /\ phase[c] = "new"
  /\ \A d \in Calls : ThreadOf[d] = ThreadOf[c] => ~Live(d)
  /\ phase' = [phase EXCEPT ![c] = "subscribed"]
  /\ subs' = Append(subs, c)
  /\ UNCHANGED <<done, prom, pending, handlerVars, request>>

\* ensure_connected or natsConnection_Subscribe fails: nothing is registered.
SubscribeFails(c) ==
  /\ phase[c] = "new"
  /\ \A d \in Calls : ThreadOf[d] = ThreadOf[c] => ~Live(d)
  /\ phase' = [phase EXCEPT ![c] = "refused"]
  /\ UNCHANGED <<done, prom, subs, pending, handlerVars, request>>

PublishRequest(c) ==
  /\ phase[c] = "subscribed"
  /\ phase' = [phase EXCEPT ![c] = "waiting"]
  /\ request' = [request EXCEPT ![c] = "asked"]
  /\ UNCHANGED <<done, prom, subs, pending, handlerVars>>

\* Fault: a failed publish parks the call where no exit path knows it.
PublishFailsUnhandled(c) ==
  /\ phase[c] = "subscribed"
  /\ phase' = [phase EXCEPT ![c] = "unsent"]
  /\ UNCHANGED <<done, prom, subs, pending, handlerVars, request>>

\* publish is outside the try block: the registration stays behind.
PublishFails(c) ==
  /\ phase[c] = "subscribed"
  /\ phase' = [phase EXCEPT ![c] = "threw"]
  /\ UNCHANGED <<done, prom, subs, pending, handlerVars, request>>

\* Fault: a parse error stored in the promise is returned as a value.
WakeIgnoringErrors(c) ==
  /\ phase[c] = "waiting"
  /\ prom[c] # None
  /\ phase' = [phase EXCEPT ![c] = "ready"]
  /\ UNCHANGED <<done, prom, subs, pending, handlerVars, request>>

\* wait_for reports ready; get() returns the value or rethrows the parse error.
WakeWithAnswer(c) ==
  /\ phase[c] = "waiting"
  /\ prom[c] # None
  /\ phase' = [phase EXCEPT ![c] = IF prom[c].good THEN "ready" ELSE "catching"]
  /\ UNCHANGED <<done, prom, subs, pending, handlerVars, request>>

\* Fault: a deadline that passes publishes the request again and waits on.
TimeoutRetries(c) ==
  /\ phase[c] = "waiting"
  /\ prom[c] = None
  /\ request' = [request EXCEPT ![c] = "asked"]
  /\ UNCHANGED <<callVars, subs, pending, handlerVars>>

\* Fault: the wait has no deadline once a callback has begun.
TimeoutOnlyBeforeCallback(c) ==
  /\ phase[c] = "waiting"
  /\ prom[c] = None
  /\ ~done[c]
  /\ phase' = [phase EXCEPT ![c] = "expired"]
  /\ UNCHANGED <<done, prom, subs, pending, handlerVars, request>>

WaitTimesOut(c) ==
  /\ phase[c] = "waiting"
  /\ prom[c] = None
  /\ phase' = [phase EXCEPT ![c] = "expired"]
  /\ UNCHANGED <<done, prom, subs, pending, handlerVars, request>>

GiveUp(c) ==
  /\ phase[c] = "expired"
  /\ phase' = [phase EXCEPT ![c] = "givenup"]
  /\ done' = [done EXCEPT ![c] = TRUE]
  /\ UNCHANGED <<prom, subs, pending, handlerVars, request>>

\* Fault: the success path returns without unsubscribing.
CloseReadyForgets(c) ==
  /\ phase[c] = "ready"
  /\ phase' = [phase EXCEPT ![c] = "returned"]
  /\ UNCHANGED <<done, prom, subs, pending, handlerVars, request>>

CloseReady(c) ==
  /\ phase[c] = "ready"
  /\ Unsubscribe(SubjectOf[c])
  /\ phase' = [phase EXCEPT ![c] = "returned"]
  /\ UNCHANGED <<done, prom, handlerVars, request>>

\* The timeout path unsubscribes, throws, and is caught by its own catch-all.
CloseTimedOut(c) ==
  /\ phase[c] = "givenup"
  /\ Unsubscribe(SubjectOf[c])
  /\ phase' = [phase EXCEPT ![c] = "catching"]
  /\ UNCHANGED <<done, prom, handlerVars, request>>

\* Fault: the catch-all rethrows without unsubscribing.
CloseCaughtForgets(c) ==
  /\ phase[c] = "catching"
  /\ phase' = [phase EXCEPT ![c] = "threw"]
  /\ UNCHANGED <<done, prom, subs, pending, handlerVars, request>>

CloseCaught(c) ==
  /\ phase[c] = "catching"
  /\ Unsubscribe(SubjectOf[c])
  /\ phase' = [phase EXCEPT ![c] = "threw"]
  /\ UNCHANGED <<done, prom, handlerVars, request>>

-----------------------------------------------------------------------------
(* The instrument hub and the broker.  A lost request or answer is one     *)
(* that is never answered; a response reaches every subscription that is   *)
(* registered for its subject when it is published.                        *)

Answer(c, ok) ==
  /\ request[c] = "asked"
  /\ request' = [request EXCEPT ![c] = IF ok THEN "good" ELSE "bad"]
  /\ pending' =
       [d \in Calls |->
          IF Registered(d) /\ SubjectOf[d] = SubjectOf[c]
          THEN pending[d] \cup {[answers |-> c, good |-> ok]}
          ELSE pending[d]]
  /\ UNCHANGED <<callVars, subs, handlerVars>>

-----------------------------------------------------------------------------
(* The delivery thread of the subscription of call c.                      *)

Dispatch(c) ==
  /\ handler[c] = None
  /\ Registered(c)
  /\ \E m \in pending[c] :
       /\ handler' = [handler EXCEPT ![c] = m]
       /\ pending' = [pending EXCEPT ![c] = @ \ {m}]
  /\ UNCHANGED <<callVars, subs, claimed, request>>

\* done.exchange(true) in the frame f: the first callback to get there goes on.
Claim(c, f) ==
  /\ done' = [done EXCEPT ![f] = TRUE]
  /\ IF done[f]
     THEN /\ handler' = [handler EXCEPT ![c] = None]
          /\ UNCHANGED claimed
     ELSE /\ claimed' = [claimed EXCEPT ![c] = TRUE]
          /\ UNCHANGED handler
  /\ UNCHANGED <<phase, prom, subs, pending, request>>

\* set_value or set_exception; a second one throws future_error, swallowed.
Fulfil(c, f) ==
  /\ prom' = [prom EXCEPT ![f] = IF @ = None THEN handler[c] ELSE @]
  /\ UNCHANGED <<phase, done>>

Exchange(c) ==
  /\ handler[c] # None
  /\ ~claimed[c]
  /\ \E f \in FramesAt(c) : Claim(c, f)

SetPromise(c) ==
  /\ handler[c] # None
  /\ claimed[c]
  /\ \E f \in FramesAt(c) : Fulfil(c, f)
  /\ handler' = [handler EXCEPT ![c] = None]
  /\ claimed' = [claimed EXCEPT ![c] = FALSE]
  /\ UNCHANGED <<subs, pending, request>>

\* A callback that finds no live frame reads and writes abandoned memory: it
\* takes the flag for set or for clear and changes no frame of this model.
StrayExchange(c) ==
  /\ handler[c] # None
  /\ ~claimed[c]
  /\ ~Live(c)
  /\ \/ handler' = [handler EXCEPT ![c] = None] /\ UNCHANGED claimed
     \/ claimed' = [claimed EXCEPT ![c] = TRUE] /\ UNCHANGED handler
  /\ UNCHANGED <<callVars, subs, pending, request>>

StraySetPromise(c) ==
  /\ handler[c] # None
  /\ claimed[c]
  /\ ~Live(c)
  /\ handler' = [handler EXCEPT ![c] = None]
  /\ claimed' = [claimed EXCEPT ![c] = FALSE]
  /\ UNCHANGED <<callVars, subs, pending, request>>

-----------------------------------------------------------------------------
CallOpens(c) == Subscribe(c) \/ SubscribeFails(c)

CallProceeds(c) ==
  \/ PublishRequest(c) \/ PublishFails(c)
  \/ WakeWithAnswer(c) \/ WaitTimesOut(c) \/ GiveUp(c)
  \/ CloseReady(c) \/ CloseTimedOut(c) \/ CloseCaught(c)

HandlerStep(c) ==
  \/ Dispatch(c)
  \/ Exchange(c) \/ SetPromise(c)
  \/ StrayExchange(c) \/ StraySetPromise(c)

\* Every call of the behaviour has ended: the program has no more to do.
AllEnded ==
  /\ \A c \in Calls : Ended(c)
  /\ UNCHANGED vars

Next ==
  \/ \E c \in Calls : CallOpens(c) \/ CallProceeds(c) \/ HandlerStep(c)
  \/ \E c \in Calls, ok \in BOOLEAN : Answer(c, ok)
  \/ AllEnded

Spec == Init /\ [][Next]_vars

(***************************************************************************)
(* The operating system runs every calling thread; wait_for returns by its *)
(* deadline.  Nothing is assumed of the hub or of the delivery threads.    *)
(***************************************************************************)
FairSpec == Spec /\ \A c \in Calls : WF_vars(CallProceeds(c))

-----------------------------------------------------------------------------
(* Properties.                                                             *)

(* An abandoned call ended without consuming an answer: its wait timed     *)
(* out or its publish threw, so its answer or its registration is still    *)
(* about when the next call on the subject starts.                         *)
Abandoned(c) == phase[c] = "threw" /\ prom[c] = None

InStep(c) == \A d \in Peers(c) : ~Abandoned(d)

(* While a call waits for its response, its own registration is in         *)
(* NatsManager's table: no other call's unsubscribe(subject) took it.      *)
(* unsubscribe matches by subject only, so this needs the calls on one     *)
(* subject to be made by one thread.                                       *)
WaitingIsRegistered ==
  \A c \in Calls : phase[c] \in {"subscribed", "waiting"} => Registered(c)

(* Responses carry nothing that ties them to a request, yet as long as no  *)
(* call on the subject has been abandoned, what a call returns answers the *)
(* request that call published.                                            *)
AnswersOwnRequest ==
  \A c \in Calls :
    phase[c] = "returned" /\ InStep(c) => prom[c].answers = c

(* A callback reads `done' and writes the promise through references into  *)
(* the frame of the call.  As long as no call on the subject has been      *)
(* abandoned, it only does so while the frame exists.                      *)
NoStrayCallback ==
  \A c \in Calls : handler[c] # None /\ InStep(c) => Live(c)

(* The double unsubscribe of the timeout path never leaves more behind     *)
(* than failed publishes put there: on every subject the table holds at    *)
(* most one entry per call still to unsubscribe and per failed publish.    *)
LeakedOnPublish(c) == phase[c] = "threw" /\ request[c] = "none"
ToUnsubscribe(c) ==
  \/ phase[c] \in {"subscribed", "waiting", "ready", "expired", "givenup"}
  \/ phase[c] = "catching" /\ prom[c] # None /\ ~prom[c].good

RegistrationsBounded ==
  \A s \in {SubjectOf[c] : c \in Calls} :
    Cardinality(OnSubject(s)) <=
      Cardinality({c \in Calls : /\ SubjectOf[c] = s
                                 /\ ToUnsubscribe(c) \/ LeakedOnPublish(c)})

(* Every call that has begun returns or throws: the wait is bounded and no *)
(* way out blocks, whatever the hub and the delivery threads do.           *)
EveryCallEnds == \A c \in Calls : Live(c) ~> Ended(c)

-----------------------------------------------------------------------------
(* The contract these calls implement, whoever shares a subject.           *)

Status(c) ==
  CASE phase[c] = "new" -> "idle"
    [] phase[c] = "returned" -> "returned"
    [] phase[c] \in {"threw", "refused"} -> "failed"
    [] OTHER -> "pending"

Contract == INSTANCE RequestContract WITH
  status <- [c \in Calls |-> Status(c)],
  result <- [c \in Calls |-> IF phase[c] = "returned" THEN prom[c] ELSE None],
  offered <- {m \in Response :
                request[m.answers] = IF m.good THEN "good" ELSE "bad"}

(* Each call ends once, and a value it returns is a well-formed response   *)
(* published on its subject: bad payloads and timeouts end in a throw.     *)
ImplementsContract == Contract!Spec

=============================================================================
