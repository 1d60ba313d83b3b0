----------------------------- MODULE NatsManager -----------------------------
(***************************************************************************)
(* The connection manager of falcon-comms, a process-wide singleton: the   *)
(* connection opened on first use, the JetStream context made on it, the   *)
(* subscriptions with their heap-allocated callbacks, and the threads that *)
(* publish, request, pull, subscribe, reconnect and disconnect while the   *)
(* NATS library delivers messages on threads of its own.                   *)
(*                                                                         *)
(* mutex_ guards every change of the members; publish(), request() and     *)
(* jetstream_pull() read conn_ and js_ after they have released it.        *)
(***************************************************************************)
EXTENDS Naturals, FiniteSets

CONSTANTS
  Threads,          \* threads that call the manager
  Registrations,    \* calls of subscribe(), each with a callback
  MaxConnections,   \* bound: connections opened
  MaxTeardowns,     \* bound: calls of connect(url) and disconnect()
  Free              \* the mutex has no owner

ASSUME BoundsAssumption == MaxConnections \in Nat /\ MaxTeardowns \in Nat

ASSUME FreeAssumption == Free \notin Threads

\* A connection is known by the order in which it was opened; 0 is nullptr.
None == 0

Connections == 1..MaxConnections

VARIABLES
  conn,       \* conn_
  js,         \* js_, by the connection it was made on
  opened,     \* connections opened so far
  destroyed,  \* connections given to natsConnection_Destroy
  mutex,      \* the owner of mutex_ across a teardown
  pc,         \* pc[t]: where t is
  using,      \* using[t]: the handle t has read, to pass to the library
  tracked,    \* the registrations in subscriptions_
  on,         \* on[r]: the connection r was made on, None before
  open,       \* the registrations whose natsSubscription is open
  callback,   \* callback[r]: the std::function allocated for r
  running,    \* the registrations whose message_handler is running
  teardowns   \* connect(url) and disconnect() calls so far

handles == <<conn, js, opened, destroyed>>
registry == <<tracked, on, open, callback>>
vars == <<handles, mutex, pc, using, registry, running, teardowns>>

Steps == {"idle", "connected", "pulling", "context", "loaded", "subscribing",
          "reconnecting", "disconnecting"}

TypeOK ==
  /\ conn \in Connections \cup {None}
  /\ js \in Connections \cup {None}
  /\ opened \in 0..MaxConnections
  /\ destroyed \subseteq Connections
  /\ mutex \in Threads \cup {Free}
  /\ pc \in [Threads -> Steps]
  /\ using \in [Threads -> Connections \cup {None}]
  /\ tracked \subseteq Registrations
  /\ on \in [Registrations -> Connections \cup {None}]
  /\ open \subseteq Registrations
  /\ callback \in [Registrations -> {"none", "allocated", "deleted"}]
  /\ running \subseteq Registrations
  /\ teardowns \in 0..MaxTeardowns

Init ==
  /\ conn = None /\ js = None /\ opened = 0 /\ destroyed = {}
  /\ mutex = Free
  /\ pc = [t \in Threads |-> "idle"]
  /\ using = [t \in Threads |-> None]
  /\ tracked = {} /\ open = {} /\ running = {}
  /\ on = [r \in Registrations |-> None]
  /\ callback = [r \in Registrations |-> "none"]
  /\ teardowns = 0

Goto(t, step) == pc' = [pc EXCEPT ![t] = step]

-----------------------------------------------------------------------------
(* ensure_connected(), the first thing each of these operations does.  The *)
(* call throws, and nothing changes, when the server cannot be reached.    *)

First == {"connected", "pulling", "subscribing"}

Open ==
  /\ opened < MaxConnections
  /\ conn' = opened + 1
  /\ opened' = opened + 1

\* Fault: whether there is a connection is not asked under the lock.
ConnectAgain(t) ==
  /\ pc[t] = "idle" /\ mutex = Free
  /\ Open
  /\ \E step \in First : Goto(t, step)
  /\ UNCHANGED <<js, destroyed, mutex, using, registry, running, teardowns>>

\* connect("") ends here; the others go on.
EnsureConnected(t) ==
  /\ pc[t] = "idle" /\ mutex = Free
  /\ IF conn = None THEN Open ELSE UNCHANGED <<conn, opened>>
  /\ \E step \in First \cup {"idle"} : Goto(t, step)
  /\ UNCHANGED <<js, destroyed, mutex, using, registry, running, teardowns>>

-----------------------------------------------------------------------------
(* publish() and request() read conn_ without the lock and hand it to the  *)
(* library; jetstream_pull() does the same with js_.                       *)

LoadConnection(t) ==
  /\ pc[t] = "connected"
  /\ using' = [using EXCEPT ![t] = conn]
  /\ Goto(t, "loaded")
  /\ UNCHANGED <<handles, mutex, registry, running, teardowns>>

\* get_jetstream_context() does not connect first.
GetContext(t) ==
  /\ pc[t] = "idle"
  /\ Goto(t, "pulling")
  /\ UNCHANGED <<handles, mutex, using, registry, running, teardowns>>

\* ensure_jetstream() throws when conn_ has gone since, or when NATS refuses.
EnsureJetstreamFails(t) ==
  /\ pc[t] = "pulling" /\ mutex = Free /\ js = None
  /\ Goto(t, "idle")
  /\ UNCHANGED <<handles, mutex, using, registry, running, teardowns>>

EnsureJetstream(t) ==
  /\ pc[t] = "pulling" /\ mutex = Free
  /\ js # None \/ conn # None
  /\ js' = IF js # None THEN js ELSE conn
  /\ Goto(t, "context")
  /\ UNCHANGED <<conn, opened, destroyed, mutex, using, registry, running,
                 teardowns>>

LoadJetstream(t) ==
  /\ pc[t] = "context"
  /\ using' = [using EXCEPT ![t] = js]
  /\ Goto(t, "loaded")
  /\ UNCHANGED <<handles, mutex, registry, running, teardowns>>

\* The library call returns or fails; a null handle is an invalid argument.
LibraryReturns(t) ==
  /\ pc[t] = "loaded"
  /\ using' = [using EXCEPT ![t] = None]
  /\ Goto(t, "idle")
  /\ UNCHANGED <<handles, mutex, registry, running, teardowns>>

-----------------------------------------------------------------------------
(* subscribe() and unsubscribe() hold the lock throughout.                 *)

Subscribe(t) ==
  /\ pc[t] = "subscribing" /\ mutex = Free
  /\ conn # None
  /\ \E r \in Registrations :
       /\ callback[r] = "none"
       /\ callback' = [callback EXCEPT ![r] = "allocated"]
       /\ on' = [on EXCEPT ![r] = conn]
       /\ open' = open \cup {r}
       /\ tracked' = tracked \cup {r}
  /\ Goto(t, "idle")
  /\ UNCHANGED <<handles, mutex, using, running, teardowns>>

\* NATS refuses, or conn_ has gone since: the callback is deleted again.
SubscribeFails(t) ==
  /\ pc[t] = "subscribing" /\ mutex = Free
  /\ Goto(t, "idle")
  /\ UNCHANGED <<handles, mutex, using, registry, running, teardowns>>

\* delete; what a second one does is undefined.
Delete(c) == IF c = "allocated" THEN "deleted" ELSE "deleted twice"

\* Fault: the subscription and its callback go, the entry stays.
UnsubscribeKeepsEntry(t) ==
  /\ pc[t] = "idle" /\ mutex = Free
  /\ \E r \in tracked :
       /\ open' = open \ {r}
       /\ callback' = [callback EXCEPT ![r] = Delete(@)]
  /\ UNCHANGED <<handles, mutex, pc, using, tracked, on, running, teardowns>>

\* Which entry is the first with the subject, RequestReply models.
Unsubscribe(t) ==
  /\ pc[t] = "idle" /\ mutex = Free
  /\ \E r \in tracked : tracked' = tracked \ {r} /\ open' = open \ {r}
  /\ UNCHANGED <<handles, mutex, pc, using, on, callback, running, teardowns>>

-----------------------------------------------------------------------------
(* connect(url) and disconnect(): everything is taken down under the lock, *)
(* while conn_ and js_ can still be read without it.                       *)

CleanupSubscriptions ==
  /\ open' = open \ tracked
  /\ callback' = [r \in Registrations |->
                    IF r \in tracked THEN Delete(callback[r])
                                      ELSE callback[r]]
  /\ tracked' = {}
  /\ UNCHANGED on

\* Fault: the subscriptions are left to the connection that goes.
TeardownKeepsSubscriptions(t) ==
  /\ pc[t] = "idle" /\ mutex = Free
  /\ teardowns < MaxTeardowns
  /\ teardowns' = teardowns + 1
  /\ js' = None
  /\ destroyed' = destroyed \cup ({conn} \ {None})
  /\ open' = open \ {r \in tracked : on[r] = conn}
  /\ mutex' = t
  /\ \E step \in {"reconnecting", "disconnecting"} : Goto(t, step)
  /\ UNCHANGED <<conn, opened, using, tracked, on, callback, running>>

\* Fault: the JetStream context outlives its connection.
TeardownKeepsJetstream(t) ==
  /\ pc[t] = "idle" /\ mutex = Free
  /\ teardowns < MaxTeardowns
  /\ teardowns' = teardowns + 1
  /\ CleanupSubscriptions
  /\ destroyed' = destroyed \cup ({conn} \ {None})
  /\ mutex' = t
  /\ \E step \in {"reconnecting", "disconnecting"} : Goto(t, step)
  /\ UNCHANGED <<conn, js, opened, using, running>>

Teardown(t) ==
  /\ pc[t] = "idle" /\ mutex = Free
  /\ teardowns < MaxTeardowns
  /\ teardowns' = teardowns + 1
  /\ CleanupSubscriptions
  /\ js' = None
  /\ destroyed' = destroyed \cup ({conn} \ {None})
  /\ mutex' = t
  /\ \E step \in {"reconnecting", "disconnecting"} : Goto(t, step)
  /\ UNCHANGED <<conn, opened, using, running>>

Disconnect(t) ==
  /\ pc[t] = "disconnecting"
  /\ conn' = None
  /\ mutex' = Free
  /\ Goto(t, "idle")
  /\ UNCHANGED <<js, opened, destroyed, using, registry, running, teardowns>>

Reconnect(t) ==
  /\ pc[t] = "reconnecting"
  /\ Open
  /\ mutex' = Free
  /\ Goto(t, "idle")
  /\ UNCHANGED <<js, destroyed, using, registry, running, teardowns>>

\* The new server cannot be reached: connect(url) throws, conn_ is null.
ReconnectFails(t) ==
  /\ pc[t] = "reconnecting"
  /\ conn' = None
  /\ mutex' = Free
  /\ Goto(t, "idle")
  /\ UNCHANGED <<js, opened, destroyed, using, registry, running, teardowns>>

-----------------------------------------------------------------------------
(* The delivery threads of the library: one message at a time for each     *)
(* subscription.  Closing a subscription does not wait for its handler.    *)

Deliver(r) ==
  /\ r \in open \ running
  /\ running' = running \cup {r}
  /\ UNCHANGED <<handles, mutex, pc, using, registry, teardowns>>

HandlerReturns(r) ==
  /\ r \in running
  /\ running' = running \ {r}
  /\ UNCHANGED <<handles, mutex, pc, using, registry, teardowns>>

-----------------------------------------------------------------------------
Caller(t) ==
  \/ EnsureConnected(t) \/ LoadConnection(t) \/ GetContext(t)
  \/ EnsureJetstream(t) \/ EnsureJetstreamFails(t) \/ LoadJetstream(t)
  \/ LibraryReturns(t)
  \/ Subscribe(t) \/ SubscribeFails(t) \/ Unsubscribe(t)

Closer(t) == Teardown(t) \/ Disconnect(t) \/ Reconnect(t) \/ ReconnectFails(t)

Next ==
  \/ \E t \in Threads : Caller(t) \/ Closer(t)
  \/ \E r \in Registrations : Deliver(r) \/ HandlerReturns(r)

Spec == Init /\ [][Next]_vars

-----------------------------------------------------------------------------
(* Properties.  TypeOK also says that no callback is deleted twice.        *)

(* js_ is a context of the connection in conn_: whichever thread reconnects *)
(* between a pull's ensure_connected() and ensure_jetstream(), no context   *)
(* of a destroyed connection is kept for the next pull.                     *)
JetstreamOnConnection == js # None => js = conn /\ js \notin destroyed

(* A tracked registration is one that can still deliver: its subscription   *)
(* is open on the present connection and its callback is allocated.         *)
TrackedAreUsable ==
  \A r \in tracked : r \in open /\ on[r] = conn /\ callback[r] = "allocated"

(* No thread and no handler uses what another thread has destroyed: the    *)
(* connection or context a thread has read without the lock is the present  *)
(* one until the library returns, and the closure message_handler()         *)
(* dereferences is there until it returns.                                  *)
UsesWhatExists ==
  /\ \A t \in Threads :
       using[t] # None => using[t] = conn /\ conn \notin destroyed
  /\ \A r \in running : callback[r] # "deleted"

(* Until somebody calls connect(url) or disconnect(), the reads without the *)
(* lock are harmless, and unsubscribing leaves a running handler its        *)
(* closure.                                                                 *)
SteadyIsSafe == teardowns = 0 => UsesWhatExists
=============================================================================
