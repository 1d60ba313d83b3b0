------------------------- MODULE RequestReplyProofs -------------------------
(***************************************************************************)
(* Proofs about the request/response calls, for every set of calls,        *)
(* threads and subjects.                                                   *)
(***************************************************************************)
EXTENDS RequestReply, FiniteSetTheorems, TLAPS

-----------------------------------------------------------------------------
(* The table after an erase.                                               *)

(* Erasing the entry at i leaves a sequence of calls.                      *)
LEMMA WithoutType ==
  ASSUME subs \in Seq(Calls), NEW i \in DOMAIN subs
  PROVE  /\ Without(i) \in Seq(Calls)
         /\ subs[i] \in Calls
BY SMT DEF Without

(* Erasing the entry at i leaves every other entry in the table.           *)
LEMMA WithoutKeeps ==
  ASSUME subs \in Seq(Calls), NEW i \in DOMAIN subs,
         NEW j \in DOMAIN subs, j # i
  PROVE  \E k \in DOMAIN Without(i) : Without(i)[k] = subs[j]
<1>1. CASE j < i
  <2>1. j \in 1 .. Len(subs) - 1  BY <1>1
  <2>2. Without(i)[j] = subs[j]  BY <1>1, <2>1 DEF Without
  <2>3. QED  BY <2>1, <2>2 DEF Without
<1>2. CASE j > i
  <2>1. j - 1 \in 1 .. Len(subs) - 1  BY <1>2
  <2>2. Without(i)[j - 1] = subs[j]  BY <1>2, <2>1 DEF Without
  <2>3. QED  BY <2>1, <2>2 DEF Without
<1>3. QED  BY <1>1, <1>2

(* A subscription is entered behind the others.                            *)
LEMMA SubscribeTable ==
  ASSUME TypeOK, NEW c \in Calls, Subscribe(c)
  PROVE  /\ subs \in Seq(Calls) /\ Len(subs) \in Nat
         /\ DOMAIN subs = 1 .. Len(subs)
         /\ subs' \in Seq(Calls)
         /\ DOMAIN subs' = DOMAIN subs \cup {Len(subs) + 1}
         /\ Len(subs) + 1 \notin DOMAIN subs
         /\ subs'[Len(subs) + 1] = c
         /\ \A i \in DOMAIN subs : i \in DOMAIN subs' /\ subs'[i] = subs[i]
<1>1. subs \in Seq(Calls) /\ subs' = Append(subs, c)
  BY DEF TypeOK, Subscribe
<1>2. Len(subs) \in Nat /\ DOMAIN subs = 1 .. Len(subs)  BY <1>1
<1>3. DOMAIN subs' = 1 .. (Len(subs) + 1)  BY <1>1
<1>4. \A i \in DOMAIN subs : subs'[i] = subs[i]  BY <1>1
<1>5. subs' \in Seq(Calls) /\ subs'[Len(subs) + 1] = c  BY <1>1
<1>6. QED  BY <1>1, <1>2, <1>3, <1>4, <1>5

(* unsubscribe keeps the type of the table and of the queues.              *)
LEMMA UnsubscribeType ==
  ASSUME TypeOK, NEW s, Unsubscribe(s)
  PROVE  subs' \in Seq(Calls) /\ pending' \in [Calls -> SUBSET Response]
<1>1. CASE OnSubject(s) = {} /\ UNCHANGED <<subs, pending>>
  BY <1>1 DEF TypeOK
<1>2. ASSUME NEW i \in OnSubject(s),
             subs' = Without(i),
             pending' = [pending EXCEPT ![subs[i]] = {}]
      PROVE  subs' \in Seq(Calls) /\ pending' \in [Calls -> SUBSET Response]
  <2>1. i \in DOMAIN subs  BY DEF OnSubject
  <2>2. QED  BY <1>2, <2>1, WithoutType DEF TypeOK
<1>3. QED  BY <1>1, <1>2 DEF Unsubscribe

-----------------------------------------------------------------------------
(* Type correctness.                                                       *)

LEMMA InitTypeOK == Init => TypeOK
BY DEF Init, TypeOK, Phases

LEMMA NextTypeOK == TypeOK /\ [Next]_vars => TypeOK'
<1> SUFFICES ASSUME TypeOK, [Next]_vars PROVE TypeOK'
  OBVIOUS
<1> USE DEF callVars, handlerVars
<1>1. ASSUME NEW c \in Calls, CallOpens(c) PROVE TypeOK'
  <2>1. CASE Subscribe(c)
    <3>1. subs' \in Seq(Calls)  BY <2>1 DEF TypeOK, Subscribe
    <3>2. QED  BY <2>1, <3>1, Zenon DEF TypeOK, Phases, Subscribe
  <2>2. CASE SubscribeFails(c)
    BY <2>2, Zenon DEF TypeOK, Phases, SubscribeFails
  <2>3. QED  BY <1>1, <2>1, <2>2 DEF CallOpens
<1>2. ASSUME NEW c \in Calls, CallProceeds(c) PROVE TypeOK'
  <2>1. ASSUME PublishRequest(c) \/ PublishFails(c) PROVE TypeOK'
    BY <2>1 DEF TypeOK, Phases, PublishRequest, PublishFails
  <2>2. ASSUME WakeWithAnswer(c) \/ WaitTimesOut(c) \/ GiveUp(c) PROVE TypeOK'
    BY <2>2 DEF TypeOK, Phases, WakeWithAnswer, WaitTimesOut, GiveUp
  <2>3. ASSUME CloseReady(c) \/ CloseTimedOut(c) \/ CloseCaught(c) PROVE TypeOK'
    <3>1. subs' \in Seq(Calls) /\ pending' \in [Calls -> SUBSET Response]
      BY <2>3, UnsubscribeType DEF CloseReady, CloseTimedOut, CloseCaught
    <3>2. QED
      BY <2>3, <3>1 DEF TypeOK, Phases, CloseReady, CloseTimedOut, CloseCaught
  <2>4. QED  BY <1>2, <2>1, <2>2, <2>3 DEF CallProceeds
<1>3. ASSUME NEW c \in Calls, HandlerStep(c) PROVE TypeOK'
  <2>1. CASE Dispatch(c)
    BY <2>1 DEF TypeOK, Dispatch
  <2>2. CASE Exchange(c)
    BY <2>2 DEF TypeOK, Exchange, Claim, FramesAt, Peers
  <2>3. CASE SetPromise(c)
    BY <2>3 DEF TypeOK, SetPromise, Fulfil, FramesAt, Peers
  <2>4. CASE StrayExchange(c)
    BY <2>4 DEF TypeOK, StrayExchange
  <2>5. CASE StraySetPromise(c)
    BY <2>5 DEF TypeOK, StraySetPromise
  <2>6. QED  BY <1>3, <2>1, <2>2, <2>3, <2>4, <2>5 DEF HandlerStep
<1>4. ASSUME NEW c \in Calls, NEW ok \in BOOLEAN, Answer(c, ok) PROVE TypeOK'
  <2>1. [answers |-> c, good |-> ok] \in Response  BY DEF Response
  <2>2. QED  BY <1>4, <2>1 DEF TypeOK, Answer
<1>5. CASE UNCHANGED vars
  BY <1>5 DEF TypeOK, vars
<1>6. QED  BY <1>1, <1>2, <1>3, <1>4, <1>5 DEF Next, AllEnded

(* Every variable keeps its type in every behaviour of the calls.          *)
THEOREM TypeCorrect == Spec => []TypeOK
BY InitTypeOK, NextTypeOK, PTL DEF Spec

-----------------------------------------------------------------------------
(* A waiting call keeps its registration.                                  *)

(* The interpreter runs one program in one thread: two calls on the same   *)
(* subject are never made by different threads.                            *)
OneThreadPerSubject ==
  \A c, d \in Calls : SubjectOf[c] = SubjectOf[d] => ThreadOf[c] = ThreadOf[d]

(* A thread is inside at most one call.                                    *)
OneLivePerThread ==
  \A c, d \in Calls : Live(c) /\ Live(d) /\ ThreadOf[c] = ThreadOf[d] => c = d

RegInv == TypeOK /\ OneLivePerThread /\ WaitingIsRegistered

(* unsubscribe on one subject leaves the registrations of the others.      *)
LEMMA UnsubscribeSpares ==
  ASSUME TypeOK, NEW s, Unsubscribe(s),
         NEW d \in Calls, Registered(d), SubjectOf[d] # s
  PROVE  Registered(d)'
<1>1. PICK j \in DOMAIN subs : subs[j] = d  BY DEF Registered
<1>2. CASE UNCHANGED subs  BY <1>1, <1>2 DEF Registered
<1>3. ASSUME NEW i \in OnSubject(s), subs' = Without(i)
      PROVE  Registered(d)'
  <2>1. i \in DOMAIN subs /\ j # i  BY <1>1 DEF OnSubject
  <2>2. QED  BY <1>1, <1>3, <2>1, WithoutKeeps DEF TypeOK, Registered
<1>4. QED  BY <1>2, <1>3 DEF Unsubscribe

LEMMA NextRegInv ==
  ASSUME OneThreadPerSubject
  PROVE  RegInv /\ [Next]_vars => RegInv'
<1> SUFFICES ASSUME RegInv, [Next]_vars PROVE RegInv'
  OBVIOUS
<1>t. TypeOK'  BY NextTypeOK DEF RegInv
<1> USE DEF callVars, handlerVars
<1>1. ASSUME NEW c \in Calls, CallOpens(c)
      PROVE  OneLivePerThread' /\ WaitingIsRegistered'
  <2>1. CASE Subscribe(c)
    <3>1. /\ Len(subs) + 1 \in DOMAIN subs' /\ subs'[Len(subs) + 1] = c
          /\ \A i \in DOMAIN subs : i \in DOMAIN subs' /\ subs'[i] = subs[i]
      BY <2>1, SubscribeTable DEF RegInv
    <3>2. Registered(c)' /\ \A d \in Calls : Registered(d) => Registered(d)'
      BY <3>1, Zenon DEF Registered
    <3>3. \A d \in Calls \ {c} : phase'[d] = phase[d]
      BY <2>1 DEF Subscribe, RegInv, TypeOK
    <3>4. WaitingIsRegistered'
      BY <3>2, <3>3 DEF RegInv, WaitingIsRegistered
    <3>5. OneLivePerThread'
      BY <2>1, <3>3 DEF Subscribe, RegInv, OneLivePerThread, Live
    <3>6. QED  BY <3>4, <3>5
  <2>2. CASE SubscribeFails(c)
    BY <2>2 DEF SubscribeFails, RegInv, TypeOK, WaitingIsRegistered,
                OneLivePerThread, Live, Registered
  <2>3. QED  BY <1>1, <2>1, <2>2 DEF CallOpens
<1>2. ASSUME NEW c \in Calls, CallProceeds(c)
      PROVE  OneLivePerThread' /\ WaitingIsRegistered'
  <2>1. Live(c) /\ \A d \in Calls \ {c} : phase'[d] = phase[d]
    BY <1>2 DEF CallProceeds, PublishRequest, PublishFails, WakeWithAnswer,
                WaitTimesOut, GiveUp, CloseReady, CloseTimedOut, CloseCaught,
                Live, RegInv, TypeOK
  <2>2. OneLivePerThread'
    BY <2>1 DEF RegInv, OneLivePerThread, Live
  <2>3. ASSUME subs' = subs, phase'[c] \in {"subscribed", "waiting"} =>
                                phase[c] \in {"subscribed", "waiting"}
        PROVE  WaitingIsRegistered'
    BY <2>1, <2>3 DEF RegInv, WaitingIsRegistered, Registered
  <2>4. CASE PublishRequest(c) \/ PublishFails(c) \/ WakeWithAnswer(c)
             \/ WaitTimesOut(c) \/ GiveUp(c)
    <3>1. subs' = subs /\ (phase'[c] \in {"subscribed", "waiting"} =>
                              phase[c] \in {"subscribed", "waiting"})
      BY <2>4 DEF PublishRequest, PublishFails, WakeWithAnswer, WaitTimesOut,
                  GiveUp, RegInv, TypeOK
    <3>2. QED  BY <2>2, <2>3, <3>1
  <2>5. CASE CloseReady(c) \/ CloseTimedOut(c) \/ CloseCaught(c)
    <3>1. /\ Unsubscribe(SubjectOf[c])
          /\ phase'[c] \notin {"subscribed", "waiting"}
      BY <2>5 DEF CloseReady, CloseTimedOut, CloseCaught, RegInv, TypeOK
    <3>2. ASSUME NEW d \in Calls, phase'[d] \in {"subscribed", "waiting"}
          PROVE  Registered(d)'
      <4>1. d # c /\ phase'[d] = phase[d]  BY <2>1, <3>1, <3>2
      <4>2. Live(d) /\ Registered(d)
        BY <3>2, <4>1 DEF Live, RegInv, WaitingIsRegistered
      <4>3. SubjectOf[d] # SubjectOf[c]
        BY <2>1, <4>1, <4>2 DEF OneThreadPerSubject, RegInv, OneLivePerThread
      <4>4. QED  BY <3>1, <4>2, <4>3, UnsubscribeSpares DEF RegInv
    <3>3. QED  BY <2>2, <3>2 DEF WaitingIsRegistered
  <2>6. QED  BY <1>2, <2>4, <2>5 DEF CallProceeds
<1>3. ASSUME UNCHANGED <<phase, subs>>
      PROVE  OneLivePerThread' /\ WaitingIsRegistered'
  BY <1>3 DEF RegInv, OneLivePerThread, WaitingIsRegistered, Live, Registered
<1>4. ASSUME NEW c \in Calls, HandlerStep(c) PROVE UNCHANGED <<phase, subs>>
  BY <1>4 DEF HandlerStep, Dispatch, Exchange, Claim, SetPromise, Fulfil,
              StrayExchange, StraySetPromise
<1>5. ASSUME NEW c \in Calls, NEW ok \in BOOLEAN, Answer(c, ok)
      PROVE  UNCHANGED <<phase, subs>>
  BY <1>5 DEF Answer
<1>6. CASE UNCHANGED vars
  BY <1>3, <1>6, <1>t DEF vars, RegInv
<1>7. QED
  BY <1>1, <1>2, <1>3, <1>4, <1>5, <1>6, <1>t DEF Next, AllEnded, RegInv

(* When the calls on one subject are made by one thread, a waiting call    *)
(* is always registered: unsubscribe(subject) never takes the registration *)
(* of a call that still needs it.                                          *)
THEOREM WaitingRegistered ==
  ASSUME OneThreadPerSubject
  PROVE  Spec => []WaitingIsRegistered
<1>1. Init => RegInv
  <2>1. Init => OneLivePerThread /\ WaitingIsRegistered
    BY DEF Init, OneLivePerThread, WaitingIsRegistered, Live
  <2>2. QED  BY <2>1, InitTypeOK DEF RegInv
<1>2. RegInv /\ [Next]_vars => RegInv'  BY NextRegInv
<1>3. RegInv => WaitingIsRegistered  BY DEF RegInv
<1>4. QED  BY <1>1, <1>2, <1>3, PTL DEF Spec

-----------------------------------------------------------------------------
(* Requests and the messages that answer them.                             *)

(* The requests that have been published.                                  *)
RequestsOK ==
  \A c \in Calls :
    /\ phase[c] \in {"new", "subscribed", "refused"} => request[c] = "none"
    /\ request[c] = "none" =>
         phase[c] \in {"new", "subscribed", "refused", "threw"}

(* m is what the hub has published on the subject s.                       *)
Sent(m, s) ==
  /\ m \in Response
  /\ SubjectOf[m.answers] = s
  /\ request[m.answers] = IF m.good THEN "good" ELSE "bad"

(* Wherever a message is, it was published on the subject of the call; and *)
(* what a call is about to return, or returned, is well-formed.            *)
QueuesOK  == \A c \in Calls : \A m \in pending[c] : Sent(m, SubjectOf[c])
HandlersOK ==
  \A c \in Calls : handler[c] # None => Sent(handler[c], SubjectOf[c])
PromisesOK == \A c \in Calls : prom[c] # None => Sent(prom[c], SubjectOf[c])
ReturnsOK ==
  \A c \in Calls :
    phase[c] \in {"ready", "returned"} => prom[c] # None /\ prom[c].good

MessagesOK == QueuesOK /\ HandlersOK /\ PromisesOK /\ ReturnsOK

(* What a step of a calling thread leaves alone.                           *)
LEMMA CallerFrame ==
  ASSUME TypeOK, NEW c \in Calls, CallOpens(c) \/ CallProceeds(c)
  PROVE  /\ UNCHANGED <<prom, handlerVars>>
         /\ \A d \in Calls \ {c} : phase'[d] = phase[d]
         /\ \A d \in Calls : pending'[d] \subseteq pending[d]
<1>1. UNCHANGED <<prom, handlerVars>>
  BY DEF CallOpens, Subscribe, SubscribeFails, CallProceeds, PublishRequest,
         PublishFails, WakeWithAnswer, WaitTimesOut, GiveUp, CloseReady,
         CloseTimedOut, CloseCaught
<1>2. \A d \in Calls \ {c} : phase'[d] = phase[d]
  BY Zenon
     DEF CallOpens, Subscribe, SubscribeFails, CallProceeds, PublishRequest,
         PublishFails, WakeWithAnswer, WaitTimesOut, GiveUp, CloseReady,
         CloseTimedOut, CloseCaught, TypeOK
<1>3. ASSUME NEW d \in Calls PROVE pending'[d] \subseteq pending[d]
  <2>1. CASE UNCHANGED pending  BY <2>1
  <2>2. CASE Unsubscribe(SubjectOf[c])
    BY <2>2 DEF Unsubscribe, TypeOK
  <2>3. QED
    BY <2>1, <2>2
    DEF CallOpens, Subscribe, SubscribeFails, CallProceeds, PublishRequest,
        PublishFails, WakeWithAnswer, WaitTimesOut, GiveUp, CloseReady,
        CloseTimedOut, CloseCaught
<1>4. QED  BY <1>1, <1>2, <1>3

(* Only the hub and PublishRequest touch the requests.                     *)
LEMMA RequestSteps ==
  ASSUME TypeOK, [Next]_vars
  PROVE  \/ UNCHANGED request
         \/ \E c \in Calls : PublishRequest(c)
         \/ \E c \in Calls, ok \in BOOLEAN : Answer(c, ok)
<1>1. ASSUME NEW c \in Calls, CallOpens(c) \/ CallProceeds(c),
             ~PublishRequest(c)
      PROVE  UNCHANGED request
  BY <1>1
  DEF CallOpens, Subscribe, SubscribeFails, CallProceeds,
      PublishFails, WakeWithAnswer, WaitTimesOut, GiveUp, CloseReady,
      CloseTimedOut, CloseCaught
<1>2. ASSUME NEW c \in Calls, HandlerStep(c) PROVE UNCHANGED request
  BY <1>2 DEF HandlerStep, Dispatch, Exchange, Claim, SetPromise, Fulfil,
              StrayExchange, StraySetPromise
<1>3. QED  BY <1>1, <1>2, Zenon DEF Next, AllEnded, vars

LEMMA InitRequestsOK == Init => RequestsOK
BY DEF Init, RequestsOK

LEMMA NextRequestsOK == TypeOK /\ RequestsOK /\ [Next]_vars => RequestsOK'
<1> SUFFICES ASSUME TypeOK, RequestsOK, [Next]_vars PROVE RequestsOK'
  OBVIOUS
<1>1. ASSUME NEW c \in Calls, CallOpens(c) PROVE RequestsOK'
  BY <1>1 DEF CallOpens, Subscribe, SubscribeFails, RequestsOK, TypeOK
<1>2. ASSUME NEW c \in Calls, PublishRequest(c) PROVE RequestsOK'
  BY <1>2 DEF PublishRequest, RequestsOK, TypeOK
<1>3. ASSUME NEW c \in Calls, CallProceeds(c), ~PublishRequest(c)
      PROVE  RequestsOK'
  <2>1. /\ UNCHANGED request
        /\ phase' = [phase EXCEPT ![c] = phase'[c]]
        /\ phase'[c] \notin {"new", "subscribed", "refused"}
        /\ phase[c] \notin {"new", "refused"}
        /\ phase[c] = "subscribed" => phase'[c] = "threw"
    BY <1>3 DEF CallProceeds, PublishFails, WakeWithAnswer, WaitTimesOut,
                GiveUp, CloseReady, CloseTimedOut, CloseCaught, TypeOK
  <2>2. phase[c] = "threw" => FALSE
    BY <1>3 DEF CallProceeds, PublishFails, WakeWithAnswer, WaitTimesOut,
                GiveUp, CloseReady, CloseTimedOut, CloseCaught
  <2>3. QED  BY <2>1, <2>2 DEF RequestsOK, TypeOK
<1>4. ASSUME NEW c \in Calls, NEW ok \in BOOLEAN, Answer(c, ok)
      PROVE  RequestsOK'
  BY <1>4 DEF Answer, callVars, RequestsOK, TypeOK
<1>5. ASSUME UNCHANGED <<phase, request>> PROVE RequestsOK'
  BY <1>5 DEF RequestsOK
<1>6. ASSUME NEW c \in Calls, HandlerStep(c)
      PROVE  UNCHANGED <<phase, request>>
  BY <1>6 DEF HandlerStep, Dispatch, Exchange, Claim, SetPromise, Fulfil,
              StrayExchange, StraySetPromise, callVars
<1>7. QED
  BY <1>1, <1>2, <1>3, <1>4, <1>5, <1>6, Zenon
  DEF Next, AllEnded, vars

(* What has been published stays published.                                *)
LEMMA SentStays ==
  ASSUME TypeOK, RequestsOK, [Next]_vars, NEW m, NEW s, Sent(m, s)
  PROVE  Sent(m, s)'
<1>1. m \in Response /\ m.answers \in Calls  BY DEF Sent, Response
<1>2. request[m.answers] \in {"good", "bad"}  BY DEF Sent
<1>3. request'[m.answers] = request[m.answers]
  <2>1. ASSUME NEW c \in Calls, PublishRequest(c)
        PROVE  request'[m.answers] = request[m.answers]
    <3>1. request[c] = "none"  BY <2>1 DEF PublishRequest, RequestsOK
    <3>2. c # m.answers  BY <1>2, <3>1
    <3>3. QED  BY <1>1, <2>1, <3>2 DEF PublishRequest, TypeOK
  <2>2. ASSUME NEW c \in Calls, NEW ok \in BOOLEAN, Answer(c, ok)
        PROVE  request'[m.answers] = request[m.answers]
    <3>1. c # m.answers  BY <1>2, <2>2 DEF Answer
    <3>2. QED  BY <1>1, <2>2, <3>1 DEF Answer, TypeOK
  <2>3. QED  BY <2>1, <2>2, RequestSteps
<1>4. QED  BY <1>3 DEF Sent

LEMMA InitMessagesOK == Init => MessagesOK
BY DEF Init, MessagesOK, QueuesOK, HandlersOK, PromisesOK, ReturnsOK

LEMMA NextMessagesOK ==
  TypeOK /\ RequestsOK /\ MessagesOK /\ [Next]_vars => MessagesOK'
<1> SUFFICES ASSUME TypeOK, RequestsOK, MessagesOK, [Next]_vars
             PROVE  MessagesOK'
  OBVIOUS
<1> USE DEF MessagesOK
<1>s. \A m, s : Sent(m, s) => Sent(m, s)'  BY SentStays
<1>1. ASSUME \A d \in Calls : pending'[d] \subseteq pending[d]
      PROVE  QueuesOK'
  BY <1>s, <1>1 DEF QueuesOK
<1>2. ASSUME \A d \in Calls : handler'[d] \in {handler[d], None}
      PROVE  HandlersOK'
  BY <1>s, <1>2 DEF HandlersOK
<1>3. ASSUME UNCHANGED prom PROVE PromisesOK'
  BY <1>s, <1>3 DEF PromisesOK
<1>4. ASSUME UNCHANGED <<phase, prom>> PROVE ReturnsOK'
  BY <1>4 DEF ReturnsOK
<1>5. ASSUME NEW c \in Calls, CallOpens(c) \/ CallProceeds(c)
      PROVE  MessagesOK'
  <2>1. QueuesOK' /\ HandlersOK' /\ PromisesOK'
    <3>1. UNCHANGED <<prom, handler>>
          /\ \A d \in Calls : pending'[d] \subseteq pending[d]
      BY <1>5, CallerFrame DEF handlerVars
    <3>2. QED  BY <1>1, <1>2, <1>3, <3>1
  <2>2. UNCHANGED prom /\ \A d \in Calls \ {c} : phase'[d] = phase[d]
    BY <1>5, CallerFrame
  <2>3. phase'[c] \in {"ready", "returned"} => prom[c] # None /\ prom[c].good
    BY <1>5 DEF CallOpens, Subscribe, SubscribeFails, CallProceeds,
                PublishRequest, PublishFails, WakeWithAnswer, WaitTimesOut,
                GiveUp, CloseReady, CloseTimedOut, CloseCaught, TypeOK,
                ReturnsOK
  <2>4. ReturnsOK'  BY <2>2, <2>3 DEF ReturnsOK
  <2>5. QED  BY <2>1, <2>4
<1>6. ASSUME NEW c \in Calls, Dispatch(c) PROVE MessagesOK'
  <2>1. PICK m \in pending[c] :
          /\ handler' = [handler EXCEPT ![c] = m]
          /\ pending' = [pending EXCEPT ![c] = @ \ {m}]
    BY <1>6 DEF Dispatch
  <2>2. UNCHANGED <<phase, prom>>  BY <1>6 DEF Dispatch, callVars
  <2>3. \A d \in Calls : pending'[d] \subseteq pending[d]
    BY <2>1 DEF TypeOK
  <2>4. Sent(m, SubjectOf[c])'  BY <1>s DEF QueuesOK
  <2>5. HandlersOK'  BY <1>s, <2>1, <2>4, Zenon DEF HandlersOK, TypeOK
  <2>6. QED  BY <1>1, <1>3, <1>4, <2>2, <2>3, <2>5
<1>7. ASSUME NEW c \in Calls,
             Exchange(c) \/ StrayExchange(c) \/ StraySetPromise(c)
      PROVE  MessagesOK'
  <2>1. /\ UNCHANGED <<phase, prom, pending>>
        /\ handler' = [handler EXCEPT ![c] = None] \/ UNCHANGED handler
    BY <1>7 DEF Exchange, Claim, StrayExchange, StraySetPromise, callVars
  <2>2. \A d \in Calls : handler'[d] \in {handler[d], None}
    BY <2>1 DEF TypeOK
  <2>3. QED  BY <1>1, <1>2, <1>3, <1>4, <2>1, <2>2
<1>8. ASSUME NEW c \in Calls, SetPromise(c) PROVE MessagesOK'
  <2>1. PICK f \in FramesAt(c) :
          prom' = [prom EXCEPT ![f] = IF @ = None THEN handler[c] ELSE @]
    BY <1>8 DEF SetPromise, Fulfil
  <2>2. /\ UNCHANGED <<phase, pending>>
        /\ handler' = [handler EXCEPT ![c] = None]
        /\ handler[c] # None
    BY <1>8 DEF SetPromise, Fulfil
  <2>3. f \in Calls /\ SubjectOf[f] = SubjectOf[c]
    BY DEF FramesAt, Peers
  <2>h. PICK h : h = handler[c]  OBVIOUS
  <2>4. Sent(h, SubjectOf[f])'
    BY <1>s, <2>2, <2>3, <2>h DEF HandlersOK
  <2>5. \A d \in Calls :
          \/ prom'[d] = prom[d]
          \/ d = f /\ prom[d] = None /\ prom'[d] = h
    BY <2>1, <2>h DEF TypeOK
  <2>6. PromisesOK'  BY <1>s, <2>4, <2>5 DEF PromisesOK
  <2>7. ReturnsOK'
    <3>1. ASSUME NEW d \in Calls, phase'[d] \in {"ready", "returned"}
          PROVE  prom'[d] # None /\ prom'[d].good
      BY <2>2, <2>5, <3>1 DEF ReturnsOK
    <3>2. QED  BY <3>1 DEF ReturnsOK
  <2>8. \A d \in Calls : handler'[d] \in {handler[d], None}
    BY <2>2 DEF TypeOK
  <2>9. QED  BY <1>1, <1>2, <2>2, <2>6, <2>7, <2>8
<1>9. ASSUME NEW c \in Calls, NEW ok \in BOOLEAN, Answer(c, ok)
      PROVE  MessagesOK'
  <2> DEFINE m == [answers |-> c, good |-> ok]
  <2>1. UNCHANGED <<phase, prom, handler>>
    BY <1>9 DEF Answer, callVars, handlerVars
  <2>2. Sent(m, SubjectOf[c])'
    <3>1. m \in Response /\ m.answers = c /\ m.good = ok  BY DEF Response
    <3>2. request'[c] = IF ok THEN "good" ELSE "bad"
      BY <1>9 DEF Answer, TypeOK
    <3>3. QED  BY <3>1, <3>2 DEF Sent
  <2>3. ASSUME NEW d \in Calls, NEW n \in pending'[d]
        PROVE  Sent(n, SubjectOf[d])'
    <3>1. pending'[d] = IF Registered(d) /\ SubjectOf[d] = SubjectOf[c]
                        THEN pending[d] \cup {m} ELSE pending[d]
      BY <1>9 DEF Answer
    <3>2. CASE n \in pending[d]  BY <1>s, <3>2 DEF QueuesOK
    <3>3. CASE n \notin pending[d]
      <4>1. n = m /\ SubjectOf[d] = SubjectOf[c]
        BY <2>3, <3>1, <3>3, Zenon
      <4>2. QED  BY <2>2, <4>1
    <3>4. QED  BY <3>2, <3>3
  <2>4. QueuesOK'  BY <2>3 DEF QueuesOK
  <2>5. QED  BY <1>2, <1>3, <1>4, <2>1, <2>4
<1>10. CASE UNCHANGED vars
  BY <1>1, <1>2, <1>3, <1>4, <1>10 DEF vars
<1>11. QED
  BY <1>5, <1>6, <1>7, <1>8, <1>9, <1>10 DEF Next, AllEnded, HandlerStep

(* Requests and messages are as they should be, whoever shares a subject.  *)
ExchangeInv == TypeOK /\ RequestsOK /\ MessagesOK

LEMMA ExchangeInvariance == Spec => []ExchangeInv
<1>1. Init => ExchangeInv
  BY InitTypeOK, InitRequestsOK, InitMessagesOK DEF ExchangeInv
<1>2. ExchangeInv /\ [Next]_vars => ExchangeInv'
  BY NextTypeOK, NextRequestsOK, NextMessagesOK DEF ExchangeInv
<1>3. QED  BY <1>1, <1>2, PTL DEF Spec

-----------------------------------------------------------------------------
(* The calls implement the contract.                                       *)

(* What the calls show of themselves under the contract.                   *)
Statuses == [c \in Calls |-> Status(c)]
Results  == [c \in Calls |-> IF phase[c] = "returned" THEN prom[c] ELSE None]
Offered  ==
  {m \in Response : request[m.answers] = IF m.good THEN "good" ELSE "bad"}

LEMMA StatusFacts ==
  ASSUME NEW c \in Calls
  PROVE  /\ Status(c) = "idle" <=> phase[c] = "new"
         /\ Live(c) => Status(c) = "pending"
         /\ Status(c) = "returned" <=> phase[c] = "returned"
         /\ phase[c] \in {"threw", "refused"} => Status(c) = "failed"
BY DEF Status, Live

(* A step that moves the phase of one call only.                           *)
LEMMA CallerMapped ==
  ASSUME TypeOK, NEW c \in Calls, UNCHANGED prom,
         \A d \in Calls \ {c} : phase'[d] = phase[d]
  PROVE  /\ Statuses' = [Statuses EXCEPT ![c] = Status(c)']
         /\ Results' = [Results EXCEPT ![c] =
                           IF phase'[c] = "returned" THEN prom[c] ELSE None]
<1>1. \A d \in Calls \ {c} : Status(d)' = Status(d)  BY DEF Status
<1>2. Statuses' = [Statuses EXCEPT ![c] = Status(c)']
  BY <1>1, Zenon DEF Statuses
<1>3. QED  BY <1>2, Zenon DEF Results

LEMMA Unanswered ==
  ASSUME UNCHANGED request
  PROVE  Offered' = Offered
BY DEF Offered

(* A call returns what its promise holds, a response offered before.       *)
LEMMA ReturnRefines ==
  ASSUME ExchangeInv, NEW c \in Calls, CloseReady(c)
  PROVE  \E m \in Offered : Contract!Return(c, m)
<1>1. /\ phase[c] = "ready" /\ phase' = [phase EXCEPT ![c] = "returned"]
      /\ UNCHANGED <<prom, request>>
  BY DEF CloseReady
<1>2. TypeOK /\ prom[c] # None /\ prom[c].good /\ Sent(prom[c], SubjectOf[c])
  BY <1>1 DEF ExchangeInv, MessagesOK, ReturnsOK, PromisesOK
<1>3. PICK m \in Offered : m = prom[c]  BY <1>2 DEF Sent, Offered
<1>4. phase'[c] = "returned" /\ \A d \in Calls \ {c} : phase'[d] = phase[d]
  BY <1>1, <1>2 DEF TypeOK
<1>5. Status(c) = "pending" /\ Status(c)' = "returned"
  BY <1>1, <1>4 DEF Status
<1>6. /\ Statuses' = [Statuses EXCEPT ![c] = "returned"]
      /\ Results' = [Results EXCEPT ![c] = m]
  BY <1>1, <1>2, <1>3, <1>4, <1>5, CallerMapped
<1>7. Statuses[c] = "pending"  BY <1>5 DEF Statuses
<1>8. m.good /\ SubjectOf[m.answers] = SubjectOf[c]  BY <1>2, <1>3 DEF Sent
<1>9. Contract!Return(c, m)
  BY <1>1, <1>6, <1>7, <1>8, Unanswered, Zenon
  DEF Contract!Return, Statuses, Results, Offered
<1>10. QED  BY <1>9

(* Every other step of a calling thread begins, fails or is not seen.      *)
LEMMA CallerRefines ==
  ASSUME ExchangeInv, NEW c \in Calls, CallOpens(c) \/ CallProceeds(c),
         ~CloseReady(c)
  PROVE  \/ Contract!Begin(c) \/ Contract!Fail(c)
         \/ UNCHANGED <<Statuses, Results, Offered>>
<1> USE DEF ExchangeInv
<1>1. UNCHANGED prom /\ \A d \in Calls \ {c} : phase'[d] = phase[d]
  BY CallerFrame
<1>2. phase'[c] # "returned" /\ phase[c] # "returned"
  BY DEF CallOpens, Subscribe, SubscribeFails, CallProceeds,
         PublishRequest, PublishFails, WakeWithAnswer, WaitTimesOut, GiveUp,
         CloseTimedOut, CloseCaught, TypeOK
<1>3. /\ Statuses' = [Statuses EXCEPT ![c] = Status(c)']
      /\ Results' = [Results EXCEPT ![c] = None]
  BY <1>1, <1>2, CallerMapped
<1>4. Results' = Results
  <2>1. Results[c] = None /\ Results = [d \in Calls |-> Results[d]]
    BY <1>2 DEF Results
  <2>2. QED  BY <1>3, <2>1
<1>5. Offered' = Offered
  <2>1. CASE UNCHANGED request  BY <2>1, Unanswered
  <2>2. CASE PublishRequest(c)
    <3>1. request[c] = "none" /\ request' = [request EXCEPT ![c] = "asked"]
      BY <2>2 DEF PublishRequest, RequestsOK
    <3>2. \A m \in Response :
            /\ m.answers \in Calls
            /\ request'[m.answers] = (IF m.good THEN "good" ELSE "bad")
               <=> request[m.answers] = (IF m.good THEN "good" ELSE "bad")
      BY <3>1 DEF Response, TypeOK
    <3>3. QED  BY <3>2 DEF Offered
  <2>3. QED
    BY <2>1, <2>2
    DEF CallOpens, Subscribe, SubscribeFails, CallProceeds,
        PublishFails, WakeWithAnswer, WaitTimesOut, GiveUp, CloseTimedOut,
        CloseCaught
<1>6. Statuses[c] = Status(c) /\ Statuses = [d \in Calls |-> Statuses[d]]
  BY DEF Statuses
<1>7. CASE Subscribe(c)
  <2>1. Status(c) = "idle" /\ Status(c)' = "pending"
    BY <1>7 DEF Subscribe, Status, TypeOK
  <2>2. QED
    BY <1>3, <1>4, <1>5, <1>6, <2>1, Zenon
    DEF Contract!Begin, Statuses, Results, Offered
<1>8. CASE SubscribeFails(c) \/ PublishFails(c) \/ CloseCaught(c)
  <2>1. Status(c) \in {"idle", "pending"} /\ Status(c)' = "failed"
    BY <1>8 DEF SubscribeFails, PublishFails, CloseCaught, Status, TypeOK
  <2>2. QED
    BY <1>3, <1>4, <1>5, <1>6, <2>1, Zenon
    DEF Contract!Fail, Statuses, Results, Offered
<1>9. CASE PublishRequest(c) \/ WakeWithAnswer(c) \/ WaitTimesOut(c)
           \/ GiveUp(c) \/ CloseTimedOut(c)
  <2>1. Live(c) /\ Live(c)'
    BY <1>9 DEF PublishRequest, WakeWithAnswer, WaitTimesOut, GiveUp,
                CloseTimedOut, Live, TypeOK
  <2>2. Status(c)' = Status(c)  BY <2>1 DEF Status, Live
  <2>3. Statuses' = Statuses  BY <1>3, <1>6, <2>2
  <2>4. QED  BY <1>4, <1>5, <2>3
<1>10. QED  BY <1>7, <1>8, <1>9 DEF CallOpens, CallProceeds

(* A callback fulfils the promise of a call that has not returned.         *)
LEMMA HandlerMapped ==
  ASSUME TypeOK, NEW c \in Calls, HandlerStep(c)
  PROVE  UNCHANGED <<Statuses, Results, Offered>>
<1>1. UNCHANGED <<phase, request>>
  BY DEF HandlerStep, Dispatch, Exchange, Claim, SetPromise, Fulfil,
         StrayExchange, StraySetPromise, callVars
<1>2. \A d \in Calls : phase[d] = "returned" => prom'[d] = prom[d]
  <2>1. CASE SetPromise(c)
    <3>1. PICK f \in FramesAt(c) : Fulfil(c, f)  BY <2>1 DEF SetPromise
    <3>2. phase[f] # "returned"  BY DEF FramesAt, Live
    <3>3. QED  BY <3>1, <3>2 DEF Fulfil, TypeOK
  <2>2. CASE ~SetPromise(c)
    BY <2>2 DEF HandlerStep, Dispatch, Exchange, Claim, StrayExchange,
                StraySetPromise, callVars
  <2>3. QED  BY <2>1, <2>2
<1>3. Results' = Results  BY <1>1, <1>2 DEF Results
<1>4. Statuses' = Statuses
  <2>1. \A d \in Calls : Status(d)' = Status(d)  BY <1>1 DEF Status
  <2>2. QED  BY <2>1 DEF Statuses
<1>5. QED  BY <1>1, <1>3, <1>4, Unanswered

(* The hub offers one response per request that was made.                  *)
LEMMA AnswerRefines ==
  ASSUME ExchangeInv, NEW c \in Calls, NEW ok \in BOOLEAN, Answer(c, ok)
  PROVE  \E m \in Response : Contract!Offer(m)
<1> DEFINE m == [answers |-> c, good |-> ok]
<1>1. m \in Response /\ m.answers = c /\ m.good = ok  BY DEF Response
<1>2. /\ request[c] = "asked" /\ UNCHANGED <<phase, prom>> /\ TypeOK
      /\ request' = [request EXCEPT ![c] = IF ok THEN "good" ELSE "bad"]
  BY DEF Answer, callVars, ExchangeInv
<1>3. Statuses[c] # "idle"
  <2>1. phase[c] # "new"  BY <1>2 DEF ExchangeInv, RequestsOK
  <2>2. QED  BY <2>1, StatusFacts DEF Statuses
<1>4. \A o \in Offered : o.answers # c
  BY <1>2 DEF Offered
<1>5. Offered' = Offered \cup {m}
  <2>1. ASSUME NEW o \in Response
        PROVE  o \in Offered' <=> o \in Offered \cup {m}
    <3>1. o.answers \in Calls /\ o.good \in BOOLEAN  BY DEF Response
    <3>2. o = m <=> o.answers = c /\ o.good = ok  BY DEF Response
    <3> HIDE DEF m
    <3>3. CASE o.answers = c
      <4>1. request'[o.answers] = IF ok THEN "good" ELSE "bad"
        BY <1>2, <3>3 DEF TypeOK
      <4>2. o \notin Offered  BY <1>4, <3>3
      <4>3. o \in Offered' <=> o.good = ok  BY <3>1, <4>1 DEF Offered
      <4>4. QED  BY <3>2, <3>3, <4>2, <4>3
    <3>4. CASE o.answers # c
      <4>1. request'[o.answers] = request[o.answers]
        BY <1>2, <3>1, <3>4 DEF TypeOK
      <4>2. o \in Offered' <=> o \in Offered  BY <4>1 DEF Offered
      <4>3. QED  BY <3>2, <3>4, <4>2
    <3>5. QED  BY <3>3, <3>4
  <2>2. Offered \subseteq Response /\ Offered' \subseteq Response
    BY DEF Offered
  <2>3. QED  BY <1>1, <2>1, <2>2
<1> HIDE DEF m
<1>6. UNCHANGED <<Statuses, Results>>
  <2>1. \A d \in Calls : Status(d)' = Status(d)  BY <1>2 DEF Status
  <2>2. QED  BY <1>2, <2>1 DEF Statuses, Results
<1>7. Contract!Offer(m)
  BY <1>1, <1>3, <1>4, <1>5, <1>6, Zenon
  DEF Contract!Offer, Statuses, Results, Offered
<1>8. QED  BY <1>1, <1>7

(* Whoever shares a subject, the calls keep their contract: each ends at   *)
(* most once, and what it returns is a well-formed response that was       *)
(* published on its subject.                                               *)
THEOREM ServesContract == Spec => ImplementsContract
<1>1. Init => Contract!Init
  <2> SUFFICES ASSUME Init PROVE Contract!Init
    OBVIOUS
  <2>1. \A c \in Calls : phase[c] = "new" /\ request[c] = "none"
    BY DEF Init
  <2>2. Statuses = [c \in Calls |-> "idle"]
    BY <2>1 DEF Statuses, Status
  <2>3. Results = [c \in Calls |-> None]
    BY <2>1 DEF Results
  <2>4. Offered = {}
    BY <2>1 DEF Offered, Response
  <2>5. QED
    BY <2>2, <2>3, <2>4, Zenon DEF Contract!Init, Statuses, Results, Offered
<1>2. ExchangeInv /\ [Next]_vars
        => \/ Contract!Next
           \/ UNCHANGED <<Statuses, Results, Offered>>
  <2> SUFFICES ASSUME ExchangeInv, [Next]_vars
               PROVE  \/ Contract!Next
                      \/ UNCHANGED <<Statuses, Results, Offered>>
    OBVIOUS
  <2>1. ASSUME NEW c \in Calls, CloseReady(c) PROVE Contract!Next
    BY <2>1, ReturnRefines, Zenon DEF Contract!Next, Offered
  <2>2. ASSUME NEW c \in Calls, CallOpens(c) \/ CallProceeds(c),
               ~CloseReady(c)
        PROVE  Contract!Next \/ UNCHANGED <<Statuses, Results, Offered>>
    BY <2>2, CallerRefines, Zenon DEF Contract!Next
  <2>3. ASSUME NEW c \in Calls, NEW ok \in BOOLEAN, Answer(c, ok)
        PROVE  Contract!Next
    BY <2>3, AnswerRefines, Zenon DEF Contract!Next, Contract!Response, Response
  <2>4. CASE UNCHANGED vars
    BY <2>4, Zenon DEF vars, Statuses, Status, Results, Offered
  <2>5. QED
    BY <2>1, <2>2, <2>3, <2>4, HandlerMapped DEF Next, AllEnded, ExchangeInv
<1>3. QED
  BY <1>1, <1>2, ExchangeInvariance, PTL
  DEF Spec, ImplementsContract, Contract!Spec, Statuses, Results, Offered

-----------------------------------------------------------------------------
(* What stays in the table.                                                *)

Started == {c \in Calls : phase[c] # "new"}

(* The calls on s that have an entry to remove or have left one behind.    *)
Owing(s) ==
  {c \in Calls : /\ SubjectOf[c] = s
                 /\ ToUnsubscribe(c) \/ LeakedOnPublish(c)}

FewOn(s) == Cardinality(OnSubject(s)) <= Cardinality(Owing(s))

(* A behaviour is at any moment finitely long.                             *)
BoundInv == ExchangeInv /\ IsFiniteSet(Started) /\ \A s : FewOn(s)

LEMMA PositionsFinite ==
  ASSUME NEW q \in Seq(Calls), NEW S \in SUBSET DOMAIN q
  PROVE  IsFiniteSet(S) /\ Cardinality(S) \in Nat
<1>1. Len(q) \in Nat /\ S \subseteq 1 .. Len(q)  OBVIOUS
<1>2. IsFiniteSet(1 .. Len(q))  BY <1>1, FS_Interval
<1>3. QED  BY <1>1, <1>2, FS_Subset, FS_CardinalityType

LEMMA OnSubjectFinite ==
  ASSUME NEW s
  PROVE  /\ TypeOK => /\ IsFiniteSet(OnSubject(s))
                      /\ Cardinality(OnSubject(s)) \in Nat
         /\ TypeOK' => Cardinality(OnSubject(s)') \in Nat
<1>1. /\ OnSubject(s) \in SUBSET DOMAIN subs
      /\ OnSubject(s)' \in SUBSET DOMAIN subs'
  BY DEF OnSubject
<1>2. QED  BY <1>1, PositionsFinite DEF TypeOK

LEMMA OwingFinite ==
  ASSUME NEW s
  PROVE  /\ IsFiniteSet(Started) =>
              IsFiniteSet(Owing(s)) /\ Cardinality(Owing(s)) \in Nat
         /\ IsFiniteSet(Started') =>
              IsFiniteSet(Owing(s)') /\ Cardinality(Owing(s)') \in Nat
<1>1. /\ Owing(s) \subseteq Started
      /\ Owing(s)' \subseteq Started'
  BY DEF Owing, Started, ToUnsubscribe, LeakedOnPublish
<1>2. QED  BY <1>1, FS_Subset, FS_CardinalityType

(* A step starts at most one call.                                         *)
LEMMA StartedStaysFinite ==
  ASSUME TypeOK, IsFiniteSet(Started), [Next]_vars
  PROVE  IsFiniteSet(Started')
<1>1. ASSUME NEW c \in Calls, CallOpens(c) \/ CallProceeds(c)
      PROVE  IsFiniteSet(Started')
  <2>1. Started' \subseteq Started \cup {c}
    BY <1>1, CallerFrame DEF Started
  <2>2. IsFiniteSet(Started \cup {c})  BY FS_AddElement
  <2>3. QED  BY <2>1, <2>2, FS_Subset
<1>2. ASSUME NEW c \in Calls, HandlerStep(c) PROVE UNCHANGED phase
  BY <1>2 DEF HandlerStep, Dispatch, Exchange, Claim, SetPromise, Fulfil,
              StrayExchange, StraySetPromise, callVars
<1>3. ASSUME NEW c \in Calls, NEW ok \in BOOLEAN, Answer(c, ok)
      PROVE  UNCHANGED phase
  BY <1>3 DEF Answer, callVars
<1>4. CASE UNCHANGED phase  BY <1>4 DEF Started
<1>5. QED  BY <1>1, <1>2, <1>3, <1>4, Zenon DEF Next, AllEnded, vars

(* Erasing the entry at i leaves no more entries on a subject than there   *)
(* were beside i.                                                          *)
LEMMA WithoutCounts ==
  ASSUME TypeOK, NEW i \in DOMAIN subs, subs' = Without(i), NEW s
  PROVE  Cardinality(OnSubject(s)') <= Cardinality(OnSubject(s) \ {i})
<1> DEFINE S == OnSubject(s)'
           T == OnSubject(s) \ {i}
           f == [k \in S |-> IF k < i THEN k ELSE k + 1]
<1>1. subs \in Seq(Calls) /\ Len(subs) \in Nat /\ i \in 1 .. Len(subs)
  BY DEF TypeOK
<1>2. S = {k \in 1 .. Len(subs) - 1 :
             SubjectOf[IF k < i THEN subs[k] ELSE subs[k + 1]] = s}
  BY <1>1 DEF OnSubject, Without
<1>3. \A k \in S : (IF k < i THEN k ELSE k + 1) \in T
  BY <1>1, <1>2 DEF OnSubject
<1>4. S \subseteq Nat  BY <1>1, <1>2
<1> HIDE DEF S, T
<1>5. f \in [S -> T]  BY <1>3
<1>6. \A a, b \in S : f[a] = f[b] => a = b  BY <1>1, <1>4
<1> HIDE DEF f
<1>7. f \in Injection(S, T)
  BY <1>5, <1>6, Zenon DEF Injection, IsInjective
<1>8. IsFiniteSet(T)
  BY OnSubjectFinite, FS_RemoveElement DEF T
<1>9. Cardinality(S) <= Cardinality(T)  BY <1>7, <1>8, FS_Injection
<1>10. QED  BY <1>9 DEF S, T

(* unsubscribe(s) removes an entry on s, if there is one, and adds none.   *)
LEMMA UnsubscribeCounts ==
  ASSUME TypeOK, TypeOK', NEW s, Unsubscribe(s)
  PROVE  /\ \A t : Cardinality(OnSubject(t)') <= Cardinality(OnSubject(t))
         /\ \/ Cardinality(OnSubject(s)') = 0
            \/ Cardinality(OnSubject(s)') <= Cardinality(OnSubject(s)) - 1
<1>1. CASE OnSubject(s) = {} /\ UNCHANGED subs
  <2>1. \A t : OnSubject(t)' = OnSubject(t)  BY <1>1 DEF OnSubject
  <2>2. \A t : Cardinality(OnSubject(t)') <= Cardinality(OnSubject(t))
    BY <2>1, OnSubjectFinite
  <2>3. Cardinality(OnSubject(s)') = 0  BY <1>1, <2>1, FS_EmptySet
  <2>4. QED  BY <2>2, <2>3
<1>2. ASSUME NEW i \in OnSubject(s), subs' = Without(i)
      PROVE  /\ \A t : Cardinality(OnSubject(t)') <= Cardinality(OnSubject(t))
             /\ Cardinality(OnSubject(s)') <= Cardinality(OnSubject(s)) - 1
  <2>1. i \in DOMAIN subs  BY DEF OnSubject
  <2>2. ASSUME NEW t
        PROVE  /\ Cardinality(OnSubject(t)') \in Nat
               /\ Cardinality(OnSubject(t)) \in Nat
               /\ Cardinality(OnSubject(t)') <=
                    IF i \in OnSubject(t) THEN Cardinality(OnSubject(t)) - 1
                                          ELSE Cardinality(OnSubject(t))
    <3>1. Cardinality(OnSubject(t)') <= Cardinality(OnSubject(t) \ {i})
      BY <1>2, <2>1, WithoutCounts
    <3>2. IsFiniteSet(OnSubject(t)) /\ Cardinality(OnSubject(t)) \in Nat
      BY OnSubjectFinite
    <3>3. Cardinality(OnSubject(t)') \in Nat  BY OnSubjectFinite
    <3>4. QED  BY <3>1, <3>2, <3>3, FS_RemoveElement
  <2>3. Cardinality(OnSubject(s)') <= Cardinality(OnSubject(s)) - 1
    BY <2>2
  <2>4. \A t : Cardinality(OnSubject(t)') <= Cardinality(OnSubject(t))
    <3> SUFFICES ASSUME NEW t
                 PROVE  Cardinality(OnSubject(t)') <= Cardinality(OnSubject(t))
      OBVIOUS
    <3>1. CASE i \in OnSubject(t)  BY <2>2, <3>1
    <3>2. CASE i \notin OnSubject(t)  BY <2>2, <3>2
    <3>3. QED  BY <3>1, <3>2
  <2>5. QED  BY <2>3, <2>4
<1>3. QED  BY <1>1, <1>2 DEF Unsubscribe

(* A step that leaves the table and frees no call of what it owes.         *)
LEMMA TableStays ==
  ASSUME BoundInv, IsFiniteSet(Started'), UNCHANGED subs,
         \A s : Owing(s) \subseteq Owing(s)'
  PROVE  \A s : FewOn(s)'
<1> SUFFICES ASSUME NEW s PROVE FewOn(s)'
  OBVIOUS
<1>1. OnSubject(s)' = OnSubject(s)  BY DEF OnSubject
<1>2. Cardinality(OnSubject(s)) \in Nat
  BY OnSubjectFinite DEF BoundInv, ExchangeInv
<1>3. IsFiniteSet(Owing(s)') /\ Cardinality(Owing(s)') \in Nat
  BY OwingFinite
<1>4. Cardinality(Owing(s)) \in Nat  BY OwingFinite DEF BoundInv
<1>5. Cardinality(Owing(s)) <= Cardinality(Owing(s)')  BY <1>3, FS_Subset
<1>6. Cardinality(OnSubject(s)) <= Cardinality(Owing(s))
  BY DEF BoundInv, FewOn
<1>7. QED  BY <1>1, <1>2, <1>3, <1>4, <1>5, <1>6 DEF FewOn

(* A call that unsubscribes takes an entry with it, if there is one.       *)
LEMMA CloseCounts ==
  ASSUME BoundInv, TypeOK', IsFiniteSet(Started'), NEW c \in Calls,
         Unsubscribe(SubjectOf[c]), \A s : Owing(s) \ {c} \subseteq Owing(s)'
  PROVE  \A s : FewOn(s)'
<1> SUFFICES ASSUME NEW s PROVE FewOn(s)'
  OBVIOUS
<1> DEFINE entries == Cardinality(OnSubject(s))
           left == Cardinality(OnSubject(s)')
           owing == Cardinality(Owing(s))
           still == Cardinality(Owing(s)')
<1>t. TypeOK  BY DEF BoundInv, ExchangeInv
<1>1. entries \in Nat /\ left \in Nat  BY <1>t, OnSubjectFinite
<1>2. IsFiniteSet(Owing(s)) /\ owing \in Nat  BY OwingFinite DEF BoundInv
<1>3. IsFiniteSet(Owing(s)') /\ still \in Nat  BY OwingFinite
<1>4. entries <= owing  BY DEF BoundInv, FewOn
<1>5. Cardinality(Owing(s) \ {c}) <= still  BY <1>3, FS_Subset
<1>6. CASE SubjectOf[c] = s
  <2>1. left = 0 \/ left <= entries - 1
    BY <1>t, <1>6, UnsubscribeCounts
  <2>2. Cardinality(Owing(s) \ {c}) \in {owing, owing - 1}
    BY <1>2, FS_RemoveElement
  <2> HIDE DEF entries, left, owing, still
  <2>3. left <= still  BY <1>1, <1>2, <1>3, <1>4, <1>5, <2>1, <2>2
  <2>4. QED  BY <2>3 DEF FewOn, left, still
<1>7. CASE SubjectOf[c] # s
  <2>1. left <= entries  BY <1>t, UnsubscribeCounts
  <2>2. Owing(s) \ {c} = Owing(s)  BY <1>7 DEF Owing
  <2>3. owing <= still  BY <1>5, <2>2
  <2> HIDE DEF entries, left, owing, still
  <2>4. left <= still  BY <1>1, <1>2, <1>3, <1>4, <2>1, <2>3
  <2>5. QED  BY <2>4 DEF FewOn, left, still
<1>8. QED  BY <1>6, <1>7

(* A subscription is owed by the call that makes it.                       *)
LEMMA SubscribeCounts ==
  ASSUME BoundInv, IsFiniteSet(Started'), NEW c \in Calls, Subscribe(c)
  PROVE  \A s : FewOn(s)'
<1> SUFFICES ASSUME NEW s PROVE FewOn(s)'
  OBVIOUS
<1>t. TypeOK  BY DEF BoundInv, ExchangeInv
<1>1. /\ phase[c] = "new" /\ phase' = [phase EXCEPT ![c] = "subscribed"]
      /\ UNCHANGED <<prom, request>>
  BY DEF Subscribe
<1>2. \A d \in Calls : d # c =>
        (ToUnsubscribe(d) \/ LeakedOnPublish(d))' =
        (ToUnsubscribe(d) \/ LeakedOnPublish(d))
  BY <1>t, <1>1 DEF TypeOK, ToUnsubscribe, LeakedOnPublish
<1>3. ~ToUnsubscribe(c) /\ ~LeakedOnPublish(c) /\ ToUnsubscribe(c)'
  BY <1>t, <1>1 DEF TypeOK, ToUnsubscribe, LeakedOnPublish
<1>4. IsFiniteSet(Owing(s)) /\ Cardinality(Owing(s)) \in Nat
  BY OwingFinite DEF BoundInv
<1>5. IsFiniteSet(OnSubject(s)) /\ Cardinality(OnSubject(s)) \in Nat
  BY <1>t, OnSubjectFinite
<1>6. Cardinality(OnSubject(s)) <= Cardinality(Owing(s))
  BY DEF BoundInv, FewOn
<1>7. CASE SubjectOf[c] = s
  <2>1. OnSubject(s)' = OnSubject(s) \cup {Len(subs) + 1}
        /\ Len(subs) + 1 \notin OnSubject(s)
    BY <1>t, <1>7, SubscribeTable, Zenon DEF OnSubject
  <2>2. Owing(s)' = Owing(s) \cup {c} /\ c \notin Owing(s)
    BY <1>2, <1>3, <1>7 DEF Owing
  <2>3. /\ Cardinality(OnSubject(s)') = Cardinality(OnSubject(s)) + 1
        /\ Cardinality(Owing(s)') = Cardinality(Owing(s)) + 1
    BY <1>4, <1>5, <2>1, <2>2, FS_AddElement
  <2>4. QED  BY <1>4, <1>5, <1>6, <2>3 DEF FewOn
<1>8. CASE SubjectOf[c] # s
  <2>1. OnSubject(s)' = OnSubject(s)
    BY <1>t, <1>8, SubscribeTable, Zenon DEF OnSubject
  <2>2. Owing(s)' = Owing(s)
    BY <1>2, <1>3, <1>8 DEF Owing
  <2>3. QED  BY <1>6, <2>1, <2>2 DEF FewOn
<1>9. QED  BY <1>7, <1>8

LEMMA NextBoundInv == BoundInv /\ [Next]_vars => BoundInv'
<1> SUFFICES ASSUME BoundInv, [Next]_vars PROVE BoundInv'
  OBVIOUS
<1>t. TypeOK /\ RequestsOK  BY DEF BoundInv, ExchangeInv
<1>1. ExchangeInv'
  BY NextTypeOK, NextRequestsOK, NextMessagesOK DEF BoundInv, ExchangeInv
<1>2. IsFiniteSet(Started')  BY <1>t, StartedStaysFinite DEF BoundInv
<1>3. ASSUME NEW c \in Calls, Subscribe(c) PROVE \A s : FewOn(s)'
  BY <1>2, <1>3, SubscribeCounts
<1>4. ASSUME NEW c \in Calls,
             \/ SubscribeFails(c) \/ PublishRequest(c) \/ PublishFails(c)
             \/ WakeWithAnswer(c) \/ WaitTimesOut(c) \/ GiveUp(c)
      PROVE  \A s : FewOn(s)'
  <2>1. UNCHANGED <<subs, prom>>
    BY <1>4 DEF SubscribeFails, PublishRequest, PublishFails, WakeWithAnswer,
                WaitTimesOut, GiveUp
  <2>2. ASSUME NEW d \in Calls, ToUnsubscribe(d) \/ LeakedOnPublish(d)
        PROVE  (ToUnsubscribe(d) \/ LeakedOnPublish(d))'
    <3>1. CASE d # c
      BY <1>t, <1>4, <2>1, <2>2, <3>1
      DEF SubscribeFails, PublishRequest, PublishFails, WakeWithAnswer,
          WaitTimesOut, GiveUp, TypeOK, ToUnsubscribe, LeakedOnPublish
    <3>2. CASE d = c /\ PublishFails(c)
      BY <1>t, <3>2
      DEF PublishFails, TypeOK, RequestsOK, LeakedOnPublish
    <3>3. CASE d = c /\ ~PublishFails(c)
      BY <1>t, <1>4, <2>1, <2>2, <3>3
      DEF SubscribeFails, PublishRequest, WakeWithAnswer, WaitTimesOut, GiveUp,
          TypeOK, ToUnsubscribe, LeakedOnPublish
    <3>4. QED  BY <3>1, <3>2, <3>3
  <2>3. \A s : Owing(s) \subseteq Owing(s)'  BY <2>2 DEF Owing
  <2>4. QED  BY <1>2, <2>1, <2>3, TableStays
<1>5. ASSUME NEW c \in Calls,
             CloseReady(c) \/ CloseTimedOut(c) \/ CloseCaught(c)
      PROVE  \A s : FewOn(s)'
  <2>1. /\ UNCHANGED <<prom, request>> /\ Unsubscribe(SubjectOf[c])
        /\ \A d \in Calls \ {c} : phase'[d] = phase[d]
    BY <1>t, <1>5 DEF CloseReady, CloseTimedOut, CloseCaught, TypeOK
  <2>2. \A s : Owing(s) \ {c} \subseteq Owing(s)'
    BY <2>1 DEF Owing, ToUnsubscribe, LeakedOnPublish
  <2>3. QED  BY <1>1, <1>2, <2>1, <2>2, CloseCounts DEF ExchangeInv
<1>6. ASSUME UNCHANGED <<phase, subs>>,
             \A d \in Calls : prom[d] # None => prom'[d] = prom[d],
             \A d \in Calls : request[d] = "none" => request'[d] = "none"
      PROVE  \A s : FewOn(s)'
  <2>1. \A s : Owing(s) \subseteq Owing(s)'
    BY <1>6 DEF Owing, ToUnsubscribe, LeakedOnPublish
  <2>2. QED  BY <1>2, <1>6, <2>1, TableStays
<1>7. ASSUME NEW c \in Calls, HandlerStep(c) PROVE \A s : FewOn(s)'
  <2>1. UNCHANGED <<phase, subs, request>>
    BY <1>7 DEF HandlerStep, Dispatch, Exchange, Claim, SetPromise, Fulfil,
                StrayExchange, StraySetPromise, callVars
  <2>2. \A d \in Calls : prom[d] # None => prom'[d] = prom[d]
    BY <1>t, <1>7
    DEF HandlerStep, Dispatch, Exchange, Claim, SetPromise, Fulfil,
        StrayExchange, StraySetPromise, callVars, TypeOK
  <2>3. QED  BY <1>6, <2>1, <2>2
<1>8. ASSUME NEW c \in Calls, NEW ok \in BOOLEAN, Answer(c, ok)
      PROVE  \A s : FewOn(s)'
  BY <1>t, <1>6, <1>8 DEF Answer, callVars, TypeOK
<1>9. ASSUME UNCHANGED vars PROVE \A s : FewOn(s)'
  BY <1>6, <1>9 DEF vars
<1>10. \A s : FewOn(s)'
  BY <1>3, <1>4, <1>5, <1>7, <1>8, <1>9
  DEF Next, AllEnded, CallOpens, CallProceeds
<1>11. QED  BY <1>1, <1>2, <1>10 DEF BoundInv

(* However the calls on a subject interleave, and however many times the   *)
(* timeout path unsubscribes, the table holds on that subject at most one  *)
(* entry per call still to unsubscribe and per failed publish.             *)
THEOREM RegistrationsStayBounded == Spec => []RegistrationsBounded
<1>1. Init => BoundInv
  <2> SUFFICES ASSUME Init PROVE BoundInv
    OBVIOUS
  <2>1. ExchangeInv
    BY InitTypeOK, InitRequestsOK, InitMessagesOK DEF ExchangeInv
  <2>2. Started = {} /\ \A s : OnSubject(s) = {} /\ Owing(s) = {}
    BY DEF Init, Started, OnSubject, Owing, ToUnsubscribe, LeakedOnPublish
  <2>3. QED  BY <2>1, <2>2, FS_EmptySet DEF BoundInv, FewOn
<1>2. BoundInv /\ [Next]_vars => BoundInv'  BY NextBoundInv
<1>3. BoundInv => RegistrationsBounded
  BY DEF BoundInv, FewOn, Owing, RegistrationsBounded
<1>4. QED  BY <1>1, <1>2, <1>3, PTL DEF Spec

-----------------------------------------------------------------------------
(* As long as no call is abandoned, messages meet the call that asked.     *)

(* A call is in the table once, and after it has begun.                    *)
TableOK ==
  /\ \A i \in DOMAIN subs : phase[subs[i]] # "new"
  /\ \A i, j \in DOMAIN subs : subs[i] = subs[j] => i = j

(* Queue, delivery thread and promise of c have seen the answer to c only, *)
(* and only one of them has it.                                            *)
InStepOK(c) ==
  /\ Registered(c) => Live(c)
  /\ \A m \in pending[c] : m.answers = c
  /\ handler[c] # None => handler[c].answers = c /\ pending[c] = {}
  /\ prom[c] # None =>
       prom[c].answers = c /\ pending[c] = {} /\ handler[c] = None

StepInv == \A c \in Calls : InStep(c) => InStepOK(c)

OwnInv == RegInv /\ RequestsOK /\ MessagesOK /\ TableOK /\ StepInv

(* Every entry left after an erase was another one before.                 *)
LEMMA WithoutSource ==
  ASSUME TypeOK, NEW i \in DOMAIN subs, subs' = Without(i)
  PROVE  \A k \in DOMAIN subs' :
           /\ (IF k < i THEN k ELSE k + 1) \in DOMAIN subs \ {i}
           /\ subs'[k] = subs[IF k < i THEN k ELSE k + 1]
<1>1. subs \in Seq(Calls) /\ Len(subs) \in Nat /\ DOMAIN subs = 1 .. Len(subs)
  BY DEF TypeOK
<1>2. DOMAIN subs' = 1 .. Len(subs) - 1  BY <1>1 DEF Without
<1>3. QED  BY <1>1, <1>2 DEF Without

(* unsubscribe adds no registration.                                       *)
LEMMA UnsubscribeAddsNone ==
  ASSUME TypeOK, NEW s, Unsubscribe(s), NEW d, Registered(d)'
  PROVE  Registered(d)
<1>1. CASE UNCHANGED subs  BY <1>1 DEF Registered
<1>2. ASSUME NEW i \in OnSubject(s), subs' = Without(i)
      PROVE  Registered(d)
  <2>1. PICK k \in DOMAIN subs' : subs'[k] = d  BY DEF Registered
  <2>2. i \in DOMAIN subs  BY DEF OnSubject
  <2>3. QED  BY <1>2, <2>1, <2>2, WithoutSource, Zenon DEF Registered
<1>3. QED  BY <1>1, <1>2 DEF Unsubscribe

LEMMA NextTableOK == TypeOK /\ TableOK /\ [Next]_vars => TableOK'
<1> SUFFICES ASSUME TypeOK, TableOK, [Next]_vars PROVE TableOK'
  OBVIOUS
<1>1. \A d \in Calls : phase[d] # "new" => phase'[d] # "new"
  <2>1. ASSUME NEW c \in Calls, CallOpens(c) \/ CallProceeds(c)
        PROVE  phase'[c] # "new"
    BY <2>1 DEF CallOpens, Subscribe, SubscribeFails, CallProceeds,
                PublishRequest, PublishFails, WakeWithAnswer, WaitTimesOut,
                GiveUp, CloseReady, CloseTimedOut, CloseCaught, TypeOK
  <2>2. ASSUME NEW c \in Calls, CallOpens(c) \/ CallProceeds(c)
        PROVE  \A d \in Calls : phase[d] # "new" => phase'[d] # "new"
    BY <2>1, <2>2, CallerFrame
  <2>3. ASSUME NEW c \in Calls, HandlerStep(c) PROVE UNCHANGED phase
    BY <2>3 DEF HandlerStep, Dispatch, Exchange, Claim, SetPromise, Fulfil,
                StrayExchange, StraySetPromise, callVars
  <2>4. ASSUME NEW c \in Calls, NEW ok \in BOOLEAN, Answer(c, ok)
        PROVE  UNCHANGED phase
    BY <2>4 DEF Answer, callVars
  <2>5. QED  BY <2>2, <2>3, <2>4 DEF Next, AllEnded, vars
<1>s. subs \in Seq(Calls) /\ \A i \in DOMAIN subs : subs[i] \in Calls
  BY DEF TypeOK
<1>2. ASSUME UNCHANGED subs PROVE TableOK'
  BY <1>1, <1>2, <1>s DEF TableOK
<1>3. ASSUME NEW c \in Calls, Subscribe(c) PROVE TableOK'
  <2>1. phase[c] = "new" /\ phase'[c] # "new"
    BY <1>3 DEF Subscribe, TypeOK
  <2>2. \A i \in DOMAIN subs : subs[i] # c  BY <2>1 DEF TableOK
  <2>3. /\ DOMAIN subs' = DOMAIN subs \cup {Len(subs) + 1}
        /\ subs'[Len(subs) + 1] = c
        /\ \A i \in DOMAIN subs : subs'[i] = subs[i]
    BY <1>3, SubscribeTable
  <2>4. \A i \in DOMAIN subs' : phase'[subs'[i]] # "new"
    BY <1>1, <1>s, <2>1, <2>3 DEF TableOK
  <2>5. \A i, j \in DOMAIN subs' : subs'[i] = subs'[j] => i = j
    BY <2>2, <2>3 DEF TableOK
  <2>6. QED  BY <2>4, <2>5 DEF TableOK
<1>4. ASSUME NEW s, Unsubscribe(s) PROVE TableOK'
  <2>1. ASSUME NEW i \in OnSubject(s), subs' = Without(i) PROVE TableOK'
    <3> DEFINE old(k) == IF k < i THEN k ELSE k + 1
    <3>1. i \in DOMAIN subs  BY DEF OnSubject
    <3>2. \A k \in DOMAIN subs' :
            old(k) \in DOMAIN subs /\ subs'[k] = subs[old(k)]
      BY <2>1, <3>1, WithoutSource
    <3>3. \A k, l \in DOMAIN subs' : old(k) = old(l) => k = l
      <4>1. DOMAIN subs' \subseteq Nat /\ i \in Nat
        BY <1>s, <2>1, <3>1 DEF Without
      <4>2. QED  BY <4>1
    <3> HIDE DEF old
    <3>4. \A k \in DOMAIN subs' : phase'[subs'[k]] # "new"
      BY <1>1, <1>s, <3>2 DEF TableOK
    <3>5. \A k, l \in DOMAIN subs' : subs'[k] = subs'[l] => k = l
      BY <3>2, <3>3 DEF TableOK
    <3>6. QED  BY <3>4, <3>5 DEF TableOK
  <2>2. QED  BY <1>2, <1>4, <2>1 DEF Unsubscribe
<1>5. ASSUME NEW c \in Calls, CallProceeds(c) PROVE TableOK'
  BY <1>2, <1>4, <1>5
  DEF CallProceeds, PublishRequest, PublishFails, WakeWithAnswer, WaitTimesOut,
      GiveUp, CloseReady, CloseTimedOut, CloseCaught
<1>6. ASSUME NEW c \in Calls, SubscribeFails(c) \/ HandlerStep(c)
      PROVE  TableOK'
  BY <1>2, <1>6
  DEF SubscribeFails, HandlerStep, Dispatch, Exchange, Claim, SetPromise,
      StrayExchange, StraySetPromise
<1>7. ASSUME NEW c \in Calls, NEW ok \in BOOLEAN, Answer(c, ok)
      PROVE  TableOK'
  BY <1>2, <1>7 DEF Answer
<1>8. CASE UNCHANGED vars  BY <1>2, <1>8 DEF vars
<1>9. QED
  BY <1>3, <1>5, <1>6, <1>7, <1>8, Zenon DEF Next, AllEnded, CallOpens

(* Calls on one subject are in step together.                              *)
LEMMA PeersInStep ==
  ASSUME NEW c \in Calls, NEW d \in Calls, SubjectOf[c] = SubjectOf[d],
         InStep(c)
  PROVE  InStep(d)
BY DEF InStep, Peers

(* A call that is abandoned stays so.                                      *)
LEMMA InStepBefore ==
  ASSUME TypeOK, [Next]_vars, NEW c \in Calls, InStep(c)'
  PROVE  InStep(c)
<1>1. ASSUME NEW d \in Calls, phase[d] = "threw", prom[d] = None
      PROVE  phase'[d] = "threw" /\ prom'[d] = None
  <2>1. ASSUME NEW e \in Calls, CallOpens(e) \/ CallProceeds(e)
        PROVE  phase'[d] = "threw" /\ prom'[d] = None
    <3>1. phase[e] # "threw"
      BY <2>1 DEF CallOpens, Subscribe, SubscribeFails, CallProceeds,
                  PublishRequest, PublishFails, WakeWithAnswer, WaitTimesOut,
                  GiveUp, CloseReady, CloseTimedOut, CloseCaught
    <3>2. QED  BY <1>1, <2>1, <3>1, CallerFrame
  <2>2. ASSUME NEW e \in Calls, SetPromise(e)
        PROVE  phase'[d] = "threw" /\ prom'[d] = None
    <3>1. PICK f \in FramesAt(e) : Fulfil(e, f)  BY <2>2 DEF SetPromise
    <3>2. f # d  BY <1>1 DEF FramesAt, Live
    <3>3. QED  BY <1>1, <3>1, <3>2 DEF Fulfil, TypeOK
  <2>3. ASSUME NEW e \in Calls, HandlerStep(e), ~SetPromise(e)
        PROVE  UNCHANGED <<phase, prom>>
    BY <2>3 DEF HandlerStep, Dispatch, Exchange, Claim, StrayExchange,
                StraySetPromise, callVars
  <2>4. ASSUME NEW e \in Calls, NEW ok \in BOOLEAN, Answer(e, ok)
        PROVE  UNCHANGED <<phase, prom>>
    BY <2>4 DEF Answer, callVars
  <2>5. QED  BY <1>1, <2>1, <2>2, <2>3, <2>4 DEF Next, AllEnded, vars
<1>2. QED  BY <1>1 DEF InStep, Abandoned, Peers

(* A call in step that holds no answer has not ended after its request.    *)
LEMMA HoldsNoneLive ==
  ASSUME MessagesOK, RequestsOK, TypeOK, NEW c \in Calls, InStep(c),
         prom[c] = None, request[c] # "none"
  PROVE  Live(c)
<1>1. phase[c] \notin {"new", "subscribed", "refused"}  BY DEF RequestsOK
<1>2. phase[c] # "returned"  BY DEF MessagesOK, ReturnsOK
<1>3. phase[c] # "threw"  BY DEF InStep, Abandoned, Peers
<1>4. QED  BY <1>1, <1>2, <1>3 DEF TypeOK, Phases, Live

(* What answers c was sent after the request of c.                         *)
LEMMA AnswerWasSent ==
  ASSUME NEW c \in Calls, NEW m, NEW s, Sent(m, s), m.answers = c
  PROVE  request[c] \in {"good", "bad"}
BY DEF Sent

(* The delivery thread of a call in step works while the call waits.       *)
LEMMA HandlerLive ==
  ASSUME OwnInv, NEW c \in Calls, InStep(c), handler[c] # None
  PROVE  Live(c)
<1>1. /\ handler[c].answers = c /\ prom[c] = None
      /\ Sent(handler[c], SubjectOf[c])
  BY DEF OwnInv, StepInv, InStepOK, MessagesOK, HandlersOK
<1>2. request[c] \in {"good", "bad"}  BY <1>1, AnswerWasSent
<1>3. QED  BY <1>1, <1>2, HoldsNoneLive DEF OwnInv, RegInv

(* A request in step that is not answered belongs to a call that waits.    *)
LEMMA AskedFacts ==
  ASSUME OwnInv, NEW c \in Calls, InStep(c), request[c] = "asked"
  PROVE  Live(c) /\ handler[c] = None /\ prom[c] = None /\ pending[c] = {}
<1>1. InStepOK(c) /\ MessagesOK  BY DEF OwnInv, StepInv
<1>2. handler[c] = None
  BY <1>1, AnswerWasSent DEF InStepOK, MessagesOK, HandlersOK
<1>3. prom[c] = None
  BY <1>1, AnswerWasSent DEF InStepOK, MessagesOK, PromisesOK
<1>4. pending[c] = {}
  BY <1>1, AnswerWasSent DEF InStepOK, MessagesOK, QueuesOK
<1>5. QED  BY <1>2, <1>3, <1>4, HoldsNoneLive DEF OwnInv, RegInv

(* Calls of one subject that are inside the function are the same call.    *)
LEMMA OneLivePerSubject ==
  ASSUME OneThreadPerSubject, RegInv, NEW c \in Calls, NEW d \in Calls,
         SubjectOf[c] = SubjectOf[d], Live(c), Live(d)
  PROVE  c = d
BY DEF OneThreadPerSubject, RegInv, OneLivePerThread

(* A call in step removes its own registration.                            *)
LEMMA UnsubscribesOwn ==
  ASSUME OneThreadPerSubject, OwnInv, NEW c \in Calls, InStep(c), Live(c),
         Unsubscribe(SubjectOf[c])
  PROVE  ~Registered(c)'
<1>t. TypeOK /\ RegInv /\ TableOK  BY DEF OwnInv, RegInv
<1>s. \A i \in DOMAIN subs : subs[i] \in Calls  BY <1>t DEF TypeOK
<1>1. CASE OnSubject(SubjectOf[c]) = {} /\ UNCHANGED subs
  BY <1>1 DEF OnSubject, Registered
<1>2. ASSUME NEW i \in OnSubject(SubjectOf[c]), subs' = Without(i)
      PROVE  ~Registered(c)'
  <2>1. i \in DOMAIN subs /\ SubjectOf[subs[i]] = SubjectOf[c]
    BY DEF OnSubject
  <2>2. InStep(subs[i]) /\ Registered(subs[i])
    BY <1>s, <2>1, PeersInStep DEF Registered
  <2>3. Live(subs[i])  BY <1>s, <2>1, <2>2 DEF OwnInv, StepInv, InStepOK
  <2>4. subs[i] = c  BY <1>s, <1>t, <2>1, <2>3, OneLivePerSubject
  <2>5. \A j \in DOMAIN subs \ {i} : subs[j] # c
    BY <1>t, <2>1, <2>4 DEF TableOK
  <2>6. \A k \in DOMAIN subs' : subs'[k] # c
    BY <1>2, <1>t, <2>1, <2>5, WithoutSource
  <2>7. QED  BY <2>6 DEF Registered
<1>3. QED  BY <1>1, <1>2 DEF Unsubscribe

LEMMA NextStepInv ==
  ASSUME OneThreadPerSubject, OwnInv, [Next]_vars
  PROVE  StepInv'
<1> SUFFICES ASSUME NEW c \in Calls, InStep(c)' PROVE InStepOK(c)'
  BY DEF StepInv
<1>t. TypeOK /\ RegInv /\ RequestsOK /\ MessagesOK /\ TableOK
  BY DEF OwnInv, RegInv
<1>i. InStep(c) /\ InStepOK(c)  BY <1>t, InStepBefore DEF OwnInv, StepInv
<1> DEFINE Settled == /\ prom'[c] = prom[c]
                      /\ handler'[c] \in {handler[c], None}
                      /\ pending'[c] \subseteq pending[c]
           Tracked == Registered(c)' => Live(c)'
<1>1. ASSUME Settled, Tracked PROVE InStepOK(c)'
  BY <1>i, <1>1 DEF InStepOK
<1>2. ASSUME UNCHANGED <<phase, subs>> PROVE Tracked
  BY <1>i, <1>2 DEF InStepOK, Registered, Live
<1> HIDE DEF Tracked
<1>3. ASSUME NEW d \in Calls, CallOpens(d) \/ CallProceeds(d)
      PROVE  InStepOK(c)'
  <2>1. Settled /\ \A e \in Calls \ {d} : phase'[e] = phase[e]
    BY <1>t, <1>3, CallerFrame DEF handlerVars
  <2>2. CASE Live(c)'  BY <1>1, <2>1, <2>2 DEF Tracked
  <2>3. CASE d # c
    <3>1. Live(c)' <=> Live(c)  BY <2>1, <2>3 DEF Live
    <3>2. Registered(c)' => Registered(c)
      <4>1. CASE Subscribe(d)
        <5>1. ASSUME NEW i \in DOMAIN subs', subs'[i] = c
              PROVE  i \in DOMAIN subs /\ subs[i] = c
          BY <1>t, <2>3, <4>1, <5>1, SubscribeTable
        <5>2. QED  BY <5>1 DEF Registered
      <4>2. CASE Unsubscribe(SubjectOf[d])
        BY <1>t, <4>2, UnsubscribeAddsNone
      <4>3. CASE UNCHANGED subs  BY <4>3 DEF Registered
      <4>4. QED
        BY <1>3, <4>1, <4>2, <4>3
        DEF CallOpens, SubscribeFails, CallProceeds, PublishRequest,
            PublishFails, WakeWithAnswer, WaitTimesOut, GiveUp, CloseReady,
            CloseTimedOut, CloseCaught
    <3>3. QED  BY <1>i, <1>1, <2>1, <3>1, <3>2 DEF Tracked, InStepOK
  <2>4. CASE d = c /\ SubscribeFails(c)
    <3>1. phase[c] = "new" /\ UNCHANGED subs  BY <2>4 DEF SubscribeFails
    <3>2. ~Registered(c)'  BY <1>t, <3>1 DEF TableOK, Registered
    <3>3. QED  BY <1>1, <2>1, <3>2 DEF Tracked
  <2>5. CASE d = c /\ PublishFails(c)
    <3>1. /\ phase[c] = "subscribed" /\ phase'[c] = "threw"
          /\ request[c] = "none"
      BY <1>t, <2>5 DEF PublishFails, TypeOK, RequestsOK
    <3>2. prom[c] = None
      BY <1>i, <1>t, <3>1, AnswerWasSent DEF InStepOK, MessagesOK, PromisesOK
    <3>3. Abandoned(c)'  BY <2>1, <3>1, <3>2 DEF Abandoned
    <3>4. QED  BY <3>3 DEF InStep, Peers
  <2>6. CASE d = c /\ (CloseReady(c) \/ CloseCaught(c))
    <3>1. Live(c) /\ Unsubscribe(SubjectOf[c])
      BY <2>6 DEF CloseReady, CloseCaught, Live
    <3>2. ~Registered(c)'  BY <1>i, <3>1, UnsubscribesOwn
    <3>3. QED  BY <1>1, <2>1, <3>2 DEF Tracked
  <2>7. CASE d = c /\ (\/ Subscribe(c) \/ PublishRequest(c)
                       \/ WakeWithAnswer(c) \/ WaitTimesOut(c)
                       \/ GiveUp(c) \/ CloseTimedOut(c))
    <3>1. Live(c)'
      BY <1>t, <2>7 DEF Subscribe, PublishRequest, WakeWithAnswer,
                        WaitTimesOut, GiveUp, CloseTimedOut, TypeOK, Live
    <3>2. QED  BY <2>2, <3>1
  <2>8. QED
    BY <1>3, <2>3, <2>4, <2>5, <2>6, <2>7 DEF CallOpens, CallProceeds
<1>4. ASSUME NEW d \in Calls, Dispatch(d) PROVE InStepOK(c)'
  <2>1. Tracked /\ UNCHANGED prom
    BY <1>2, <1>4 DEF Dispatch, callVars
  <2>2. PICK m \in pending[d] :
          /\ handler' = [handler EXCEPT ![d] = m]
          /\ pending' = [pending EXCEPT ![d] = @ \ {m}]
    BY <1>4 DEF Dispatch
  <2>3. CASE d # c
    <3>1. handler'[c] = handler[c] /\ pending'[c] = pending[c]
      BY <1>t, <2>2, <2>3 DEF TypeOK
    <3>2. QED  BY <1>1, <2>1, <3>1
  <2>4. CASE d = c
    <3>1. handler'[c] = m /\ pending'[c] = pending[c] \ {m}
      BY <1>t, <2>2, <2>4 DEF TypeOK
    <3>2. \A n \in pending[c] :
            n \in Response /\ n.answers = c
            /\ request[c] = IF n.good THEN "good" ELSE "bad"
      BY <1>i, <1>t DEF InStepOK, MessagesOK, QueuesOK, Sent
    <3>3. \A n \in pending[c] : n = m
      BY <2>4, <3>2 DEF Response
    <3>4. pending'[c] = {}  BY <3>1, <3>3
    <3>5. m.answers = c  BY <2>4, <3>2
    <3>6. prom'[c] = None  BY <1>i, <2>1, <2>4 DEF InStepOK
    <3>7. QED  BY <2>1, <3>1, <3>4, <3>5, <3>6 DEF Tracked, InStepOK
  <2>5. QED  BY <2>3, <2>4
<1>5. ASSUME NEW d \in Calls,
             Exchange(d) \/ StrayExchange(d) \/ StraySetPromise(d)
      PROVE  InStepOK(c)'
  <2>1. /\ UNCHANGED <<phase, prom, subs, pending>>
        /\ handler' = [handler EXCEPT ![d] = None] \/ UNCHANGED handler
    BY <1>5 DEF Exchange, Claim, StrayExchange, StraySetPromise, callVars
  <2>2. handler'[c] \in {handler[c], None}  BY <1>t, <2>1 DEF TypeOK
  <2>3. QED  BY <1>1, <1>2, <2>1, <2>2
<1>6. ASSUME NEW d \in Calls, SetPromise(d) PROVE InStepOK(c)'
  <2>1. PICK f \in FramesAt(d) : Fulfil(d, f)  BY <1>6 DEF SetPromise
  <2>2. /\ UNCHANGED <<phase, subs, pending>> /\ handler[d] # None
        /\ handler' = [handler EXCEPT ![d] = None]
    BY <1>6, <2>1 DEF SetPromise, Fulfil
  <2>3. Tracked  BY <1>2, <2>2
  <2>4. handler'[c] \in {handler[c], None}  BY <1>t, <2>2 DEF TypeOK
  <2>5. CASE f # c \/ prom[c] # None
    <3>1. prom'[c] = prom[c]  BY <1>t, <2>1, <2>5 DEF Fulfil, TypeOK
    <3>2. QED  BY <1>1, <2>2, <2>3, <2>4, <3>1
  <2>6. CASE f = c /\ prom[c] = None
    <3>1. SubjectOf[d] = SubjectOf[c]  BY <2>6 DEF FramesAt, Peers
    <3>2. Live(d)  BY <1>i, <2>2, <3>1, PeersInStep, HandlerLive
    <3>3. d = c  BY <2>6, <3>2 DEF FramesAt
    <3>4. prom'[c] = handler[c] /\ handler'[c] = None
      BY <1>t, <2>1, <2>2, <2>6, <3>3 DEF Fulfil, TypeOK
    <3>5. handler[c].answers = c /\ pending[c] = {}
      BY <1>i, <2>2, <3>3 DEF InStepOK
    <3>6. QED  BY <2>2, <2>3, <3>4, <3>5 DEF Tracked, InStepOK
  <2>7. QED  BY <2>5, <2>6
<1>7. ASSUME NEW d \in Calls, NEW ok \in BOOLEAN, Answer(d, ok)
      PROVE  InStepOK(c)'
  <2>1. Tracked /\ UNCHANGED <<prom, handler>> /\ request[d] = "asked"
    BY <1>2, <1>7 DEF Answer, callVars, handlerVars
  <2>2. pending'[c] = IF Registered(c) /\ SubjectOf[c] = SubjectOf[d]
                      THEN pending[c] \cup {[answers |-> d, good |-> ok]}
                      ELSE pending[c]
    BY <1>7 DEF Answer
  <2>3. CASE ~(Registered(c) /\ SubjectOf[c] = SubjectOf[d])
    BY <1>1, <2>1, <2>2, <2>3
  <2>4. CASE Registered(c) /\ SubjectOf[c] = SubjectOf[d]
    <3>1. Live(c)  BY <1>i, <2>4 DEF InStepOK
    <3>2. /\ Live(d)
          /\ handler[d] = None /\ prom[d] = None /\ pending[d] = {}
      BY <1>i, <2>1, <2>4, PeersInStep, AskedFacts
    <3>3. c = d  BY <1>t, <2>4, <3>1, <3>2, OneLivePerSubject
    <3>4. \A m \in pending'[c] : m.answers = c
      BY <2>2, <2>4, <3>2, <3>3
    <3>5. handler'[c] = None /\ prom'[c] = None  BY <2>1, <3>2, <3>3
    <3>6. QED  BY <2>1, <3>4, <3>5 DEF Tracked, InStepOK
  <2>5. QED  BY <2>3, <2>4
<1>8. CASE UNCHANGED vars  BY <1>1, <1>2, <1>8 DEF vars
<1>9. QED
  BY <1>3, <1>4, <1>5, <1>6, <1>7, <1>8 DEF Next, AllEnded, HandlerStep

LEMMA OwnInvariance ==
  ASSUME OneThreadPerSubject
  PROVE  Spec => []OwnInv
<1>1. Init => OwnInv
  <2> SUFFICES ASSUME Init PROVE OwnInv
    OBVIOUS
  <2>1. OneLivePerThread /\ WaitingIsRegistered /\ TableOK /\ StepInv
    BY DEF Init, OneLivePerThread, WaitingIsRegistered, Live, TableOK, StepInv,
           InStepOK, Registered
  <2>2. QED
    BY <2>1, InitTypeOK, InitRequestsOK, InitMessagesOK DEF OwnInv, RegInv
<1>2. OwnInv /\ [Next]_vars => OwnInv'
  <2> SUFFICES ASSUME OwnInv, [Next]_vars PROVE OwnInv'
    OBVIOUS
  <2>1. TypeOK /\ RegInv /\ RequestsOK /\ MessagesOK /\ TableOK
    BY DEF OwnInv, RegInv
  <2>2. RegInv'  BY <2>1, NextRegInv
  <2>3. RequestsOK' /\ MessagesOK' /\ TableOK'
    BY <2>1, NextRequestsOK, NextMessagesOK, NextTableOK
  <2>4. StepInv'  BY NextStepInv
  <2>5. QED  BY <2>2, <2>3, <2>4 DEF OwnInv
<1>3. QED  BY <1>1, <1>2, PTL DEF Spec

(* When the calls on one subject are made by one thread, and as long as    *)
(* none of them has been abandoned, what a call returns answers the        *)
(* request of that call: nothing else ties the two together.               *)
THEOREM AnswersAreOwn ==
  ASSUME OneThreadPerSubject
  PROVE  Spec => []AnswersOwnRequest
<1>1. OwnInv => AnswersOwnRequest
  <2> SUFFICES ASSUME OwnInv, NEW c \in Calls, phase[c] = "returned", InStep(c)
               PROVE  prom[c].answers = c
    BY DEF AnswersOwnRequest
  <2>1. prom[c] # None  BY DEF OwnInv, MessagesOK, ReturnsOK
  <2>2. QED  BY <2>1 DEF OwnInv, StepInv, InStepOK
<1>2. QED  BY <1>1, OwnInvariance, PTL

(* Under the same conditions a callback only runs while the frame that its *)
(* references reach exists.                                                *)
THEOREM CallbacksFindTheirFrame ==
  ASSUME OneThreadPerSubject
  PROVE  Spec => []NoStrayCallback
<1>1. OwnInv => NoStrayCallback  BY HandlerLive DEF NoStrayCallback
<1>2. QED  BY <1>1, OwnInvariance, PTL
=============================================================================
