-------------------------- MODULE NatsManagerProofs --------------------------
(***************************************************************************)
(* Proofs about the connection manager, for every number of threads,       *)
(* registrations, connections and teardowns.                               *)
(***************************************************************************)
EXTENDS NatsManager, TLAPS

(* What the lock protects: there is nothing on a connection that is not    *)
(* there or is being taken down, and a connection that has been destroyed  *)
(* is only in conn_ while the thread that destroyed it has the lock.       *)
LockInv ==
  /\ conn = None => js = None /\ tracked = {}
  /\ mutex # Free => js = None /\ tracked = {}
  /\ mutex = Free => conn \notin destroyed
  /\ conn <= opened
  /\ destroyed \subseteq 1..opened
  /\ \A t \in Threads :
       pc[t] \in {"reconnecting", "disconnecting"} => mutex = t

IInv == TypeOK /\ JetstreamOnConnection /\ TrackedAreUsable /\ LockInv

LEMMA StepFacts ==
  ASSUME TypeOK, NEW t \in Threads, NEW step \in Steps, Goto(t, step)
  PROVE  /\ pc' \in [Threads -> Steps]
         /\ pc'[t] = step
         /\ \A u \in Threads : u # t => pc'[u] = pc[u]
BY DEF TypeOK, Goto

(* A step that leaves the connection, the context and the registrations    *)
(* alone: all it does is move one thread.                                  *)
LEMMA ThreadPreserves ==
  ASSUME IInv, NEW t \in Threads,
         NEW step \in Steps \ {"reconnecting", "disconnecting"},
         Goto(t, step),
         using' \in [Threads -> Connections \cup {None}],
         UNCHANGED <<handles, mutex, registry, running, teardowns>>
  PROVE  IInv'
<1>1. /\ pc' \in [Threads -> Steps] /\ pc'[t] = step
      /\ \A u \in Threads : u # t => pc'[u] = pc[u]
  BY StepFacts DEF IInv
<1>2. TypeOK'  BY <1>1 DEF IInv, TypeOK, handles, registry
<1>3. JetstreamOnConnection'  BY DEF IInv, JetstreamOnConnection, handles
<1>4. TrackedAreUsable'
  BY DEF IInv, TrackedAreUsable, handles, registry
<1>5. LockInv'  BY <1>1 DEF IInv, LockInv, handles, registry
<1>6. QED  BY <1>2, <1>3, <1>4, <1>5 DEF IInv

LEMMA OpenFacts ==
  ASSUME IInv, Open
  PROVE  /\ conn' \in Connections /\ conn' # None
         /\ opened' \in 0..MaxConnections /\ opened' = opened + 1
         /\ conn' <= opened'
         /\ conn' \notin destroyed
         /\ destroyed \subseteq 1..opened'
BY BoundsAssumption DEF IInv, TypeOK, LockInv, Open, Connections, None

LEMMA EnsureConnectedPreserves ==
  ASSUME IInv, NEW t \in Threads, EnsureConnected(t)
  PROVE  IInv'
<1>1. PICK step \in First \cup {"idle"} : Goto(t, step)
  BY DEF EnsureConnected
<1>2. step \in Steps \ {"reconnecting", "disconnecting"}
  BY DEF First, Steps
<1>3. CASE conn = None
  <2>1. Open  BY <1>3 DEF EnsureConnected
  <2>2. /\ conn' \in Connections /\ conn' # None
        /\ opened' \in 0..MaxConnections /\ conn' <= opened'
        /\ conn' \notin destroyed /\ destroyed \subseteq 1..opened'
    BY <2>1, OpenFacts
  <2>3. js = None /\ tracked = {}  BY <1>3 DEF IInv, LockInv
  <2>4. /\ pc' \in [Threads -> Steps] /\ pc'[t] = step
        /\ \A u \in Threads : u # t => pc'[u] = pc[u]
    BY <1>1, <1>2, StepFacts DEF IInv
  <2>5. UNCHANGED <<js, destroyed, mutex, using, registry, running, teardowns>>
    BY DEF EnsureConnected
  <2>6. TypeOK'  BY <2>2, <2>4, <2>5 DEF IInv, TypeOK, registry
  <2>7. JetstreamOnConnection'  BY <2>3, <2>5 DEF JetstreamOnConnection
  <2>8. TrackedAreUsable'  BY <2>3, <2>5 DEF TrackedAreUsable, registry
  <2>9. LockInv'
    BY <1>2, <2>2, <2>3, <2>4, <2>5 DEF IInv, LockInv, registry
  <2>10. QED  BY <2>6, <2>7, <2>8, <2>9 DEF IInv
<1>4. CASE conn # None
  BY <1>1, <1>2, <1>4, ThreadPreserves
  DEF EnsureConnected, handles, IInv, TypeOK
<1>5. QED  BY <1>3, <1>4

LEMMA EnsureJetstreamPreserves ==
  ASSUME IInv, NEW t \in Threads, EnsureJetstream(t)
  PROVE  IInv'
<1>1. mutex = Free /\ (js # None \/ conn # None) /\ Goto(t, "context")
      /\ js' = IF js # None THEN js ELSE conn
  BY DEF EnsureJetstream
<1>2. UNCHANGED <<conn, opened, destroyed, mutex, using, registry, running,
                  teardowns>>
  BY DEF EnsureJetstream
<1>3. /\ pc' \in [Threads -> Steps] /\ pc'[t] = "context"
      /\ \A u \in Threads : u # t => pc'[u] = pc[u]
  BY <1>1, StepFacts DEF IInv, Steps
<1>4. conn # None /\ conn \notin destroyed
  BY <1>1 DEF IInv, JetstreamOnConnection, LockInv
<1>5. js' = conn
  BY <1>1 DEF IInv, JetstreamOnConnection
<1>6. TypeOK'  BY <1>2, <1>3, <1>5 DEF IInv, TypeOK, registry
<1>7. JetstreamOnConnection'
  BY <1>2, <1>4, <1>5 DEF JetstreamOnConnection
<1>8. TrackedAreUsable'  BY <1>2 DEF IInv, TrackedAreUsable, registry
<1>9. LockInv'  BY <1>1, <1>2, <1>3, <1>4 DEF IInv, LockInv, registry
<1>10. QED  BY <1>6, <1>7, <1>8, <1>9 DEF IInv

LEMMA SubscribePreserves ==
  ASSUME IInv, NEW t \in Threads, Subscribe(t)
  PROVE  IInv'
<1>1. PICK r \in Registrations :
        /\ callback[r] = "none"
        /\ callback' = [callback EXCEPT ![r] = "allocated"]
        /\ on' = [on EXCEPT ![r] = conn]
        /\ open' = open \cup {r}
        /\ tracked' = tracked \cup {r}
  BY DEF Subscribe
<1>2. /\ mutex = Free /\ conn # None /\ Goto(t, "idle")
      /\ UNCHANGED <<handles, mutex, using, running, teardowns>>
  BY DEF Subscribe
<1>3. /\ pc' \in [Threads -> Steps] /\ pc'[t] = "idle"
      /\ \A u \in Threads : u # t => pc'[u] = pc[u]
  BY <1>2, StepFacts DEF IInv, Steps
<1>4. TypeOK'  BY <1>1, <1>2, <1>3 DEF IInv, TypeOK, handles
<1>5. JetstreamOnConnection'
  BY <1>2 DEF IInv, JetstreamOnConnection, handles
<1>6. TrackedAreUsable'
  BY <1>1, <1>2 DEF IInv, TypeOK, TrackedAreUsable, handles
<1>7. LockInv'  BY <1>2, <1>3 DEF IInv, LockInv, handles
<1>8. QED  BY <1>4, <1>5, <1>6, <1>7 DEF IInv

LEMMA UnsubscribePreserves ==
  ASSUME IInv, NEW t \in Threads, Unsubscribe(t)
  PROVE  IInv'
<1>1. PICK r \in tracked : tracked' = tracked \ {r} /\ open' = open \ {r}
  BY DEF Unsubscribe
<1>2. UNCHANGED <<handles, mutex, pc, using, on, callback, running, teardowns>>
  BY DEF Unsubscribe
<1>3. TypeOK'  BY <1>1, <1>2 DEF IInv, TypeOK, handles
<1>4. JetstreamOnConnection'
  BY <1>2 DEF IInv, JetstreamOnConnection, handles
<1>5. TrackedAreUsable'  BY <1>1, <1>2 DEF IInv, TrackedAreUsable, handles
<1>6. LockInv'  BY <1>1, <1>2 DEF IInv, LockInv, handles
<1>7. QED  BY <1>3, <1>4, <1>5, <1>6 DEF IInv

LEMMA TeardownPreserves ==
  ASSUME IInv, NEW t \in Threads, Teardown(t)
  PROVE  IInv'
<1>1. PICK step \in {"reconnecting", "disconnecting"} : Goto(t, step)
  BY DEF Teardown
<1>2. /\ pc[t] = "idle" /\ mutex = Free /\ mutex' = t
      /\ teardowns < MaxTeardowns /\ teardowns' = teardowns + 1
      /\ js' = None /\ destroyed' = destroyed \cup ({conn} \ {None})
      /\ UNCHANGED <<conn, opened, using, running>>
  BY DEF Teardown
<1>3. /\ pc' \in [Threads -> Steps] /\ pc'[t] = step
      /\ \A u \in Threads : u # t => pc'[u] = pc[u]
  BY <1>1, StepFacts DEF IInv, Steps
<1>4. /\ tracked' = {} /\ open' = open \ tracked /\ on' = on
      /\ callback' = [r \in Registrations |->
                        IF r \in tracked THEN Delete(callback[r])
                                          ELSE callback[r]]
  BY DEF Teardown, CleanupSubscriptions
<1>5. callback' \in [Registrations -> {"none", "allocated", "deleted"}]
  <2>1. \A r \in tracked : Delete(callback[r]) = "deleted"
    BY DEF IInv, TrackedAreUsable, Delete
  <2>2. QED  BY <1>4, <2>1 DEF IInv, TypeOK
<1>6. teardowns' \in 0..MaxTeardowns
  BY <1>2, BoundsAssumption DEF IInv, TypeOK
<1>7. TypeOK'
  BY <1>2, <1>3, <1>4, <1>5, <1>6 DEF IInv, TypeOK
<1>8. JetstreamOnConnection'  BY <1>2 DEF JetstreamOnConnection
<1>9. TrackedAreUsable'  BY <1>4 DEF TrackedAreUsable
<1>10. LockInv'
  <2>1. \A u \in Threads :
          pc'[u] \in {"reconnecting", "disconnecting"} => u = t
    BY <1>2, <1>3, FreeAssumption DEF IInv, LockInv
  <2>2. destroyed' \subseteq 1..opened'
    BY <1>2 DEF IInv, TypeOK, LockInv, Connections, None
  <2>3. mutex' # Free  BY <1>2, FreeAssumption
  <2>4. QED  BY <1>2, <1>4, <2>1, <2>2, <2>3 DEF IInv, LockInv
<1>11. QED  BY <1>7, <1>8, <1>9, <1>10 DEF IInv

(* The end of a teardown: a new connection, or none.                       *)
LEMMA ClosePreserves ==
  ASSUME IInv, NEW t \in Threads, Disconnect(t) \/ Reconnect(t) \/ ReconnectFails(t)
  PROVE  IInv'
<1>1. /\ pc[t] \in {"reconnecting", "disconnecting"}
      /\ mutex' = Free /\ Goto(t, "idle")
      /\ UNCHANGED <<js, destroyed, using, registry, running, teardowns>>
      /\ Open \/ (conn' = None /\ opened' = opened)
  BY DEF Disconnect, Reconnect, ReconnectFails
<1>2. mutex = t /\ mutex # Free  BY <1>1, FreeAssumption DEF IInv, LockInv
<1>3. js = None /\ tracked = {}  BY <1>2 DEF IInv, LockInv
<1>4. /\ pc' \in [Threads -> Steps] /\ pc'[t] = "idle"
      /\ \A u \in Threads : u # t => pc'[u] = pc[u]
  BY <1>1, StepFacts DEF IInv, Steps
<1>5. /\ conn' \in Connections \cup {None} /\ conn' \notin destroyed
      /\ opened' \in 0..MaxConnections /\ conn' <= opened'
      /\ destroyed \subseteq 1..opened'
  <2>1. CASE Open  BY <2>1, OpenFacts
  <2>2. CASE conn' = None /\ opened' = opened
    BY <2>2 DEF IInv, TypeOK, LockInv, Connections, None
  <2>3. QED  BY <1>1, <2>1, <2>2
<1>6. TypeOK'  BY <1>1, <1>4, <1>5 DEF IInv, TypeOK, registry
<1>7. JetstreamOnConnection'  BY <1>1, <1>3 DEF JetstreamOnConnection
<1>8. TrackedAreUsable'  BY <1>1, <1>3 DEF TrackedAreUsable, registry
<1>9. LockInv'
  BY <1>1, <1>2, <1>3, <1>4, <1>5 DEF IInv, LockInv, registry
<1>10. QED  BY <1>6, <1>7, <1>8, <1>9 DEF IInv

LEMMA HandlerPreserves ==
  ASSUME IInv, NEW r \in Registrations, Deliver(r) \/ HandlerReturns(r)
  PROVE  IInv'
<1>1. /\ UNCHANGED <<handles, mutex, pc, using, registry, teardowns>>
      /\ running' = running \cup {r} \/ running' = running \ {r}
  BY DEF Deliver, HandlerReturns
<1>2. TypeOK'  BY <1>1 DEF IInv, TypeOK, handles, registry
<1>3. JetstreamOnConnection'
  BY <1>1 DEF IInv, JetstreamOnConnection, handles
<1>4. TrackedAreUsable'
  BY <1>1 DEF IInv, TrackedAreUsable, handles, registry
<1>5. LockInv'  BY <1>1 DEF IInv, LockInv, handles, registry
<1>6. QED  BY <1>2, <1>3, <1>4, <1>5 DEF IInv

LEMMA InitIInv == Init => IInv
<1> SUFFICES ASSUME Init PROVE IInv
  OBVIOUS
<1>1. TypeOK  BY BoundsAssumption DEF Init, TypeOK, Steps
<1>2. JetstreamOnConnection /\ TrackedAreUsable
  BY DEF Init, JetstreamOnConnection, TrackedAreUsable
<1>3. LockInv
  BY DEF Init, LockInv, None
<1>4. QED  BY <1>1, <1>2, <1>3 DEF IInv

LEMMA NextIInv == IInv /\ [Next]_vars => IInv'
<1> SUFFICES ASSUME IInv, [Next]_vars PROVE IInv'
  OBVIOUS
<1>1. ASSUME NEW t \in Threads, Caller(t) PROVE IInv'
  <2>1. CASE LoadConnection(t)
    <3>1. "loaded" \in Steps \ {"reconnecting", "disconnecting"}  BY DEF Steps
    <3>2. using' \in [Threads -> Connections \cup {None}]
      BY <2>1 DEF LoadConnection, IInv, TypeOK
    <3>3. QED  BY <2>1, <3>1, <3>2, ThreadPreserves DEF LoadConnection
  <2>2. CASE LoadJetstream(t)
    <3>1. "loaded" \in Steps \ {"reconnecting", "disconnecting"}  BY DEF Steps
    <3>2. using' \in [Threads -> Connections \cup {None}]
      BY <2>2 DEF LoadJetstream, IInv, TypeOK
    <3>3. QED  BY <2>2, <3>1, <3>2, ThreadPreserves DEF LoadJetstream
  <2>3. CASE GetContext(t)
    <3>1. "pulling" \in Steps \ {"reconnecting", "disconnecting"}  BY DEF Steps
    <3>2. QED  BY <2>3, <3>1, ThreadPreserves DEF GetContext, IInv, TypeOK
  <2>4. CASE \/ EnsureJetstreamFails(t) \/ SubscribeFails(t)
             \/ LibraryReturns(t)
    <3>1. "idle" \in Steps \ {"reconnecting", "disconnecting"}  BY DEF Steps
    <3>2. using' \in [Threads -> Connections \cup {None}]
      BY <2>4 DEF EnsureJetstreamFails, SubscribeFails, LibraryReturns,
                  IInv, TypeOK
    <3>3. QED
      BY <2>4, <3>1, <3>2, ThreadPreserves
      DEF EnsureJetstreamFails, SubscribeFails, LibraryReturns
  <2>5. QED
    BY <1>1, <2>1, <2>2, <2>3, <2>4, EnsureConnectedPreserves,
       EnsureJetstreamPreserves, SubscribePreserves, UnsubscribePreserves
    DEF Caller
<1>2. ASSUME NEW t \in Threads, Closer(t) PROVE IInv'
  BY <1>2, TeardownPreserves, ClosePreserves DEF Closer
<1>3. ASSUME NEW r \in Registrations, Deliver(r) \/ HandlerReturns(r)
      PROVE  IInv'
  BY <1>3, HandlerPreserves
<1>4. CASE UNCHANGED vars
  BY <1>4 DEF vars, handles, registry, IInv, TypeOK, JetstreamOnConnection,
              TrackedAreUsable, LockInv
<1>5. QED  BY <1>1, <1>2, <1>3, <1>4 DEF Next

LEMMA Invariance == Spec => []IInv
BY InitIInv, NextIInv, PTL DEF Spec

(* The members keep their types; in particular no callback is deleted      *)
(* twice, whichever threads unsubscribe and disconnect.                    *)
THEOREM TypeCorrect == Spec => []TypeOK
<1>1. IInv => TypeOK  BY DEF IInv
<1>2. QED  BY <1>1, Invariance, PTL

(* The JetStream context that is kept belongs to the present connection.   *)
THEOREM JetstreamIsCurrent == Spec => []JetstreamOnConnection
<1>1. IInv => JetstreamOnConnection  BY DEF IInv
<1>2. QED  BY <1>1, Invariance, PTL

(* A registration in the table is on the present connection.               *)
THEOREM TrackedUsable == Spec => []TrackedAreUsable
<1>1. IInv => TrackedAreUsable  BY DEF IInv
<1>2. QED  BY <1>1, Invariance, PTL

-----------------------------------------------------------------------------
(* Before the first teardown.                                              *)

SteadyInv ==
  /\ IInv
  /\ teardowns = 0 =>
       /\ destroyed = {}
       /\ mutex = Free
       /\ \A r \in Registrations : callback[r] # "deleted"
       /\ \A t \in Threads : using[t] # None => using[t] = conn

(* No step undoes a teardown, and a teardown counts.                       *)
LEMMA StillSteady ==
  ASSUME SteadyInv, [Next]_vars, teardowns' = 0
  PROVE  teardowns = 0 /\ \A t \in Threads : ~Closer(t)
<1>1. teardowns \in Nat  BY BoundsAssumption DEF SteadyInv, IInv, TypeOK
<1>2. \A t \in Threads : ~Teardown(t)  BY <1>1 DEF Teardown
<1>3. teardowns = 0
  BY <1>2 DEF Next, Caller, EnsureConnected, LoadConnection, GetContext,
     EnsureJetstream, EnsureJetstreamFails, LoadJetstream, LibraryReturns,
     Subscribe, SubscribeFails, Unsubscribe, Closer, Disconnect, Reconnect,
     ReconnectFails, Deliver, HandlerReturns, vars
<1>4. \A t \in Threads : pc[t] \notin {"reconnecting", "disconnecting"}
  BY <1>3, FreeAssumption DEF SteadyInv, IInv, LockInv
<1>5. QED
  BY <1>2, <1>3, <1>4 DEF Closer, Disconnect, Reconnect, ReconnectFails

LEMMA SteadyNext ==
  ASSUME SteadyInv, [Next]_vars
  PROVE  SteadyInv'
<1>1. IInv'  BY NextIInv DEF SteadyInv
<1> SUFFICES ASSUME teardowns' = 0
             PROVE  /\ destroyed' = {} /\ mutex' = Free
                    /\ \A r \in Registrations : callback'[r] # "deleted"
                    /\ \A u \in Threads : using'[u] # None => using'[u] = conn'
  BY <1>1 DEF SteadyInv
<1>2. /\ teardowns = 0 /\ destroyed = {} /\ mutex = Free
      /\ \A r \in Registrations : callback[r] # "deleted"
      /\ \A u \in Threads : using[u] # None => using[u] = conn
      /\ IInv
  BY StillSteady DEF SteadyInv
<1>3. ASSUME NEW t \in Threads, Caller(t)
      PROVE  /\ destroyed' = destroyed /\ mutex' = mutex
             /\ \A r \in Registrations : callback'[r] # "deleted"
             /\ \A u \in Threads : using'[u] # None => using'[u] = conn'
  <2>1. UNCHANGED <<destroyed, mutex>>
    BY <1>3 DEF Caller, EnsureConnected, LoadConnection, GetContext,
       EnsureJetstream, EnsureJetstreamFails, LoadJetstream, LibraryReturns,
       Subscribe, SubscribeFails, Unsubscribe, handles
  <2>2. \A r \in Registrations : callback'[r] # "deleted"
    <3>1. CASE Subscribe(t)
      BY <1>2, <3>1 DEF Subscribe, IInv, TypeOK
    <3>2. CASE ~Subscribe(t)
      BY <1>2, <1>3, <3>2 DEF Caller, EnsureConnected, LoadConnection,
         GetContext, EnsureJetstream, EnsureJetstreamFails, LoadJetstream,
         LibraryReturns, SubscribeFails, Unsubscribe, registry
    <3>3. QED  BY <3>1, <3>2
  <2>3. \A u \in Threads : using'[u] # None => using'[u] = conn'
    <3>1. CASE EnsureConnected(t)
      <4>1. conn = None => \A u \in Threads : using[u] = None
        BY <1>2
      <4>2. conn # None => conn' = conn
        BY <3>1 DEF EnsureConnected
      <4>3. using' = using  BY <3>1 DEF EnsureConnected
      <4>4. QED  BY <1>2, <4>1, <4>2, <4>3
    <3>2. CASE LoadConnection(t)
      BY <1>2, <3>2 DEF LoadConnection, handles, IInv, TypeOK
    <3>3. CASE LoadJetstream(t)
      BY <1>2, <3>3 DEF LoadJetstream, handles, IInv, TypeOK,
                        JetstreamOnConnection
    <3>4. CASE LibraryReturns(t)
      BY <1>2, <3>4 DEF LibraryReturns, handles, IInv, TypeOK
    <3>5. CASE \/ GetContext(t) \/ EnsureJetstream(t)
               \/ EnsureJetstreamFails(t) \/ Subscribe(t)
               \/ SubscribeFails(t) \/ Unsubscribe(t)
      BY <1>2, <3>5 DEF GetContext, EnsureJetstream, EnsureJetstreamFails,
                        Subscribe, SubscribeFails, Unsubscribe, handles
    <3>6. QED  BY <1>3, <3>1, <3>2, <3>3, <3>4, <3>5 DEF Caller
  <2>4. QED  BY <2>1, <2>2, <2>3
<1>4. ASSUME (\E r \in Registrations : Deliver(r) \/ HandlerReturns(r))
             \/ UNCHANGED vars
      PROVE  UNCHANGED <<handles, mutex, using, callback>>
  BY <1>4 DEF Deliver, HandlerReturns, vars, registry
<1>5. QED
  BY <1>2, <1>3, <1>4, StillSteady DEF Next, handles

(* Until a thread calls connect(url) or disconnect(), the handle a thread   *)
(* has read without the lock is the connection in use, and a running        *)
(* handler has its callback: what goes wrong needs a teardown.              *)
THEOREM SafeWhileSteady == Spec => []SteadyIsSafe
<1>1. Init => SteadyInv
  <2>1. ASSUME Init
        PROVE  /\ destroyed = {} /\ mutex = Free
               /\ \A r \in Registrations : callback[r] # "deleted"
               /\ \A t \in Threads : using[t] # None => using[t] = conn
    BY <2>1 DEF Init
  <2>2. QED  BY <2>1, InitIInv DEF SteadyInv
<1>2. SteadyInv /\ [Next]_vars => SteadyInv'  BY SteadyNext
<1>3. SteadyInv => SteadyIsSafe
  BY DEF SteadyInv, SteadyIsSafe, UsesWhatExists, IInv, TypeOK
<1>4. QED  BY <1>1, <1>2, <1>3, PTL DEF Spec
=============================================================================
