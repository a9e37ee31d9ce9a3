-------------------------------- MODULE Hub --------------------------------
(***************************************************************************)
(* The WebSocket hub of the server (server/internal/hub): HubManager maps  *)
(* an entity (event, playlist, device) to a Hub; ServeWS attaches one      *)
(* Client per connection; Hub.run is the only goroutine that touches the   *)
(* clients map; readPump, writePump and the request goroutines that call   *)
(* HubManager.Broadcast talk to it through channels.                       *)
(*                                                                         *)
(* A step is what one goroutine does between two points where another can  *)
(* observe it: a channel operation, a critical section of HubManager.mu,   *)
(* or one frame read from or written to the connection.  Hub.run handles a *)
(* received value before it selects again, so receiving and handling are   *)
(* one step; closing h.stopped and removing the hub from the manager are   *)
(* two, because onEmpty has to wait for HubManager.mu.                     *)
(***************************************************************************)
EXTENDS Naturals, Sequences, FiniteSets

CONSTANTS
  Entities,         \* entity identifiers: the keys of HubManager.hubs
  Hubs,             \* Hub objects that may be allocated
  Clients,          \* Client objects, one per WebSocket connection
  Publishers,       \* request goroutines that call HubManager.Broadcast
  SendBuffer,       \* capacity of Client.send (sendBufferSize)
  BroadcastBuffer,  \* capacity of Hub.broadcast (sendBufferSize)
  MaxMessages,      \* bound on the messages ever sent
  Nil               \* "no hub", "no entity", "no message"

ASSUME HubAssumption ==
  /\ SendBuffer \in Nat \ {0}
  /\ BroadcastBuffer \in Nat \ {0}
  /\ MaxMessages \in Nat
  /\ Clients \cap Publishers = {}
  /\ Nil \notin Hubs \cup Entities \cup [id : 1..MaxMessages, entity : Entities]

VARIABLES
  hubs,        \* HubManager.hubs
  phase,       \* life of a Hub: "unborn", "running", "stopped" (h.stopped is
               \* closed, onEmpty has not run), "gone" (run has returned)
  room,        \* the entity a Hub was created for
  clients,     \* Hub.clients
  hadClients,  \* the local variable of Hub.run
  queue,       \* contents of Hub.broadcast
  serve,       \* where ServeWS is, per client
  attempt,     \* iterations of the loop of ServeWS begun so far
  entity,      \* the entity a connection asked for
  hubOf,       \* Client.hub
  conn,        \* Client.conn: "none", "open", "lost" (peer gone), "closed"
  sendCh,      \* Client.send: "open", "closed", or "panic" when it was closed
               \* twice or written to after being closed
  feed,        \* every message Hub.run has put into Client.send, in order
  taken,       \* how many of them writePump has received
  writer,      \* writePump: "off", "running", "done"
  reader,      \* readPump: "off", "reading", "forwarding", "leaving", "done"
  held,        \* the message a sender is passing to Hub.Broadcast
  pubHub,      \* the hub HubManager.Broadcast found, per publisher
  sent         \* number of messages created so far

hubVars    == <<hubs, phase, room, clients, hadClients>>
serveVars  == <<serve, attempt, entity, hubOf>>
sendVars   == <<sendCh, feed>>
writeVars  == <<taken, writer>>
senderVars == <<held, pubHub, sent>>
vars == <<hubVars, queue, serveVars, conn, sendVars, writeVars, reader, senderVars>>

Messages == [id : 1..MaxMessages, entity : Entities]
Senders  == Clients \cup Publishers
Stopped(h) == phase[h] \in {"stopped", "gone"}

TypeOK ==
  /\ hubs \in [Entities -> Hubs \cup {Nil}]
  /\ phase \in [Hubs -> {"unborn", "running", "stopped", "gone"}]
  /\ room \in [Hubs -> Entities \cup {Nil}]
  /\ clients \in [Hubs -> SUBSET Clients]
  /\ hadClients \in [Hubs -> BOOLEAN]
  /\ queue \in [Hubs -> Seq(Messages)]
  /\ serve \in [Clients -> {"idle", "lookup", "register", "registered",
                            "serving", "refused"}]
  /\ attempt \in [Clients -> 0..2]
  /\ entity \in [Clients -> Entities \cup {Nil}]
  /\ hubOf \in [Clients -> Hubs \cup {Nil}]
  /\ conn \in [Clients -> {"none", "open", "lost", "closed"}]
  /\ sendCh \in [Clients -> {"open", "closed", "panic"}]
  /\ feed \in [Clients -> Seq(Messages)]
  /\ taken \in [Clients -> Nat]
  /\ writer \in [Clients -> {"off", "running", "done"}]
  /\ reader \in [Clients -> {"off", "reading", "forwarding", "leaving", "done"}]
  /\ held \in [Senders -> Messages \cup {Nil}]
  /\ pubHub \in [Publishers -> Hubs \cup {Nil}]
  /\ sent \in 0..MaxMessages

Init ==
  /\ hubs = [e \in Entities |-> Nil]
  /\ phase = [h \in Hubs |-> "unborn"]
  /\ room = [h \in Hubs |-> Nil]
  /\ clients = [h \in Hubs |-> {}]
  /\ hadClients = [h \in Hubs |-> FALSE]
  /\ queue = [h \in Hubs |-> <<>>]
  /\ serve = [c \in Clients |-> "idle"]
  /\ attempt = [c \in Clients |-> 0]
  /\ entity = [c \in Clients |-> Nil]
  /\ hubOf = [c \in Clients |-> Nil]
  /\ conn = [c \in Clients |-> "none"]
  /\ sendCh = [c \in Clients |-> "open"]
  /\ feed = [c \in Clients |-> <<>>]
  /\ taken = [c \in Clients |-> 0]
  /\ writer = [c \in Clients |-> "off"]
  /\ reader = [c \in Clients |-> "off"]
  /\ held = [s \in Senders |-> Nil]
  /\ pubHub = [p \in Publishers |-> Nil]
  /\ sent = 0

-----------------------------------------------------------------------------
(* ServeWS: the request goroutine of one connection.                       *)

\* The HTTP connection is upgraded and the Client object created.
Connect(c, e) ==
  /\ serve[c] = "idle"
  /\ serve' = [serve EXCEPT ![c] = "lookup"]
  /\ entity' = [entity EXCEPT ![c] = e]
  /\ conn' = [conn EXCEPT ![c] = "open"]
  /\ UNCHANGED <<hubVars, queue, attempt, hubOf, sendVars, writeVars, reader, senderVars>>

\* Mutant: GetOrCreate does not look for an existing hub.
FoundAlwaysNew(e, h) == phase[h] = "unborn"

\* The hub the manager returns for e: the mapped one, even if it has stopped
\* and only waits for its onEmpty, else a new one.
Found(e, h) ==
  \/ hubs[e] = h
  \/ hubs[e] = Nil /\ phase[h] = "unborn"

\* One iteration of the loop of ServeWS up to the channel operation:
\* manager.GetOrCreate and client.hub = h.
GetOrCreate(c, h) ==
  /\ serve[c] = "lookup"
  /\ Found(entity[c], h)
  /\ hubs' = [hubs EXCEPT ![entity[c]] = h]
  /\ IF phase[h] = "unborn"
     THEN /\ phase' = [phase EXCEPT ![h] = "running"]
          /\ room' = [room EXCEPT ![h] = entity[c]]
     ELSE UNCHANGED <<phase, room>>
  /\ hubOf' = [hubOf EXCEPT ![c] = h]
  /\ attempt' = [attempt EXCEPT ![c] = @ + 1]
  /\ serve' = [serve EXCEPT ![c] = "register"]
  /\ UNCHANGED <<clients, hadClients, queue, entity, conn, sendVars, writeVars,
                 reader, senderVars>>

\* tryRegister: the hub receives from its register channel.
Register(c) ==
  /\ serve[c] = "register"
  /\ LET h == hubOf[c] IN
     /\ phase[h] = "running"
     /\ clients' = [clients EXCEPT ![h] = @ \cup {c}]
     /\ hadClients' = [hadClients EXCEPT ![h] = TRUE]
  /\ serve' = [serve EXCEPT ![c] = "registered"]
  /\ UNCHANGED <<hubs, phase, room, queue, attempt, entity, hubOf, conn, sendVars,
                 writeVars, reader, senderVars>>

\* Mutant: tryRegister is a plain send on h.register.
RegisterFailsNever(c) == FALSE

\* tryRegister: the hub has stopped.  One retry, then the connection is closed.
RegisterFails(c) ==
  /\ serve[c] = "register"
  /\ Stopped(hubOf[c])
  /\ IF attempt[c] < 2
     THEN /\ serve' = [serve EXCEPT ![c] = "lookup"]
          /\ UNCHANGED conn
     ELSE /\ serve' = [serve EXCEPT ![c] = "refused"]
          /\ conn' = [conn EXCEPT ![c] = "closed"]
  /\ UNCHANGED <<hubVars, queue, attempt, entity, hubOf, sendVars, writeVars,
                 reader, senderVars>>

\* go client.writePump(); go client.readPump()
StartPumps(c) ==
  /\ serve[c] = "registered"
  /\ serve' = [serve EXCEPT ![c] = "serving"]
  /\ writer' = [writer EXCEPT ![c] = "running"]
  /\ reader' = [reader EXCEPT ![c] = "reading"]
  /\ UNCHANGED <<hubVars, queue, attempt, entity, hubOf, conn, sendVars, taken, senderVars>>

-----------------------------------------------------------------------------
(* Hub.run: the goroutine that owns the clients map.                       *)

\* What run does after a case that may have emptied the map: left are the
\* clients that remain; if the last one has gone the hub closes h.stopped.
Settle(h, left) ==
  /\ clients' = [clients EXCEPT ![h] = left]
  /\ phase' = [phase EXCEPT ![h] = IF hadClients[h] /\ left = {} THEN "stopped" ELSE @]

\* close(c.send), which panics on a channel that is already closed.
CloseSend(c) == IF sendCh[c] = "open" THEN "closed" ELSE "panic"

\* Mutant: the unregister case does not test that c is in the map.
UnregisterUnchecked(c) ==
  /\ reader[c] = "leaving"
  /\ LET h == hubOf[c] IN
     /\ phase[h] = "running"
     /\ sendCh' = [sendCh EXCEPT ![c] = CloseSend(c)]
     /\ Settle(h, clients[h] \ {c})
  /\ reader' = [reader EXCEPT ![c] = "done"]
  /\ conn' = [conn EXCEPT ![c] = "closed"]
  /\ UNCHANGED <<hubs, room, hadClients, queue, serveVars, feed, writeVars, senderVars>>

\* case c := <-h.unregister, met by the deferred select of readPump.  The
\* reader then closes the connection and ends.
Unregister(c) ==
  /\ reader[c] = "leaving"
  /\ LET h == hubOf[c] IN
     /\ phase[h] = "running"
     /\ sendCh' = [sendCh EXCEPT ![c] = IF c \in clients[h] THEN CloseSend(c) ELSE @]
     /\ Settle(h, clients[h] \ {c})
  /\ reader' = [reader EXCEPT ![c] = "done"]
  /\ conn' = [conn EXCEPT ![c] = "closed"]
  /\ UNCHANGED <<hubs, room, hadClients, queue, serveVars, feed, writeVars, senderVars>>

\* The members whose send channel has room for one more message.
Ready(h) == {c \in clients[h] : Len(feed[c]) - taken[c] < SendBuffer}

\* Mutant: a full channel is skipped, its client stays.
DeliverSkipping(h) ==
  /\ phase[h] = "running"
  /\ queue[h] # <<>>
  /\ queue' = [queue EXCEPT ![h] = Tail(@)]
  /\ feed' = [c \in Clients |-> IF c \in Ready(h) THEN Append(feed[c], Head(queue[h]))
                                ELSE feed[c]]
  /\ UNCHANGED <<hubVars, sendCh, serveVars, conn, writeVars, reader, senderVars>>

\* case msg := <-h.broadcast: a non-blocking send to every member; a member
\* whose channel is full is dropped and its channel closed.
Deliver(h) ==
  /\ phase[h] = "running"
  /\ queue[h] # <<>>
  /\ queue' = [queue EXCEPT ![h] = Tail(@)]
  /\ feed' = [c \in Clients |-> IF c \in Ready(h) THEN Append(feed[c], Head(queue[h]))
                                ELSE feed[c]]
  /\ sendCh' = [c \in Clients |->
                  CASE c \in Ready(h) /\ sendCh[c] # "open" -> "panic"
                    [] c \in clients[h] \ Ready(h) -> CloseSend(c)
                    [] OTHER -> sendCh[c]]
  /\ Settle(h, Ready(h))
  /\ UNCHANGED <<hubs, room, hadClients, serveVars, conn, writeVars, reader, senderVars>>

\* Mutant: onEmpty leaves the manager's entry behind.
OnEmptyLeaking(h) ==
  /\ phase[h] = "stopped"
  /\ phase' = [phase EXCEPT ![h] = "gone"]
  /\ UNCHANGED <<hubs, room, clients, hadClients, queue, serveVars, conn, sendVars,
                 writeVars, reader, senderVars>>

\* onEmpty, the closure GetOrCreate passed to run: under HubManager.mu it
\* removes the hub if it is still the mapped one.  Then run returns.
OnEmpty(h) ==
  /\ phase[h] = "stopped"
  /\ phase' = [phase EXCEPT ![h] = "gone"]
  /\ hubs' = [hubs EXCEPT ![room[h]] = IF @ = h THEN Nil ELSE @]
  /\ UNCHANGED <<room, clients, hadClients, queue, serveVars, conn, sendVars, writeVars,
                 reader, senderVars>>

-----------------------------------------------------------------------------
(* writePump                                                               *)

\* A message is received from c.send and written.  A peer that has gone is
\* noticed at some later write.
Write(c) ==
  /\ writer[c] = "running"
  /\ taken[c] < Len(feed[c])
  /\ conn[c] \in {"open", "lost"}
  /\ taken' = [taken EXCEPT ![c] = @ + 1]
  /\ UNCHANGED <<hubVars, queue, serveVars, conn, sendVars, writer, reader, senderVars>>

\* A write of a message fails (the connection is gone, or the peer does not
\* read within writeWait): the message is lost and the connection closed.
WriteFails(c) ==
  /\ writer[c] = "running"
  /\ taken[c] < Len(feed[c])
  /\ taken' = [taken EXCEPT ![c] = @ + 1]
  /\ writer' = [writer EXCEPT ![c] = "done"]
  /\ conn' = [conn EXCEPT ![c] = "closed"]
  /\ UNCHANGED <<hubVars, queue, serveVars, sendVars, reader, senderVars>>

\* The periodic ping fails because the connection is gone.
PingFails(c) ==
  /\ writer[c] = "running"
  /\ conn[c] # "open"
  /\ writer' = [writer EXCEPT ![c] = "done"]
  /\ conn' = [conn EXCEPT ![c] = "closed"]
  /\ UNCHANGED <<hubVars, queue, serveVars, sendVars, taken, reader, senderVars>>

\* c.send is drained and closed: a close frame, then the connection closes.
WriteClose(c) ==
  /\ writer[c] = "running"
  /\ taken[c] = Len(feed[c])
  /\ sendCh[c] # "open"
  /\ writer' = [writer EXCEPT ![c] = "done"]
  /\ conn' = [conn EXCEPT ![c] = "closed"]
  /\ UNCHANGED <<hubVars, queue, serveVars, sendVars, taken, reader, senderVars>>

-----------------------------------------------------------------------------
(* readPump, the peer, and the callers of HubManager.Broadcast             *)

\* The peer closes the connection, vanishes, or misses its pongs.
PeerLeaves(c) ==
  /\ conn[c] = "open"
  /\ conn' = [conn EXCEPT ![c] = "lost"]
  /\ UNCHANGED <<hubVars, queue, serveVars, sendVars, writeVars, reader, senderVars>>

NewMessage(s, e) ==
  /\ sent < MaxMessages
  /\ sent' = sent + 1
  /\ held' = [held EXCEPT ![s] = [id |-> sent + 1, entity |-> e]]

\* ReadMessage returns a message the peer sent.
Read(c) ==
  /\ reader[c] = "reading"
  /\ conn[c] = "open"
  /\ NewMessage(c, entity[c])
  /\ reader' = [reader EXCEPT ![c] = "forwarding"]
  /\ UNCHANGED <<hubVars, queue, serveVars, conn, sendVars, writeVars, pubHub>>

\* ReadMessage returns an error; the deferred function starts.
ReadFails(c) ==
  /\ reader[c] = "reading"
  /\ conn[c] # "open"
  /\ reader' = [reader EXCEPT ![c] = "leaving"]
  /\ UNCHANGED <<hubVars, queue, serveVars, conn, sendVars, writeVars, senderVars>>

\* Mutant: Hub.Broadcast is a plain send on h.broadcast.
EnqueueBlocking(h, m) ==
  /\ Len(queue[h]) < BroadcastBuffer
  /\ queue' = [queue EXCEPT ![h] = Append(@, m)]

\* Hub.Broadcast: the message enters the buffer or, if the hub has stopped,
\* may be dropped; with room in the buffer of a stopped hub either happens.
Enqueue(h, m) ==
  \/ /\ Len(queue[h]) < BroadcastBuffer
     /\ queue' = [queue EXCEPT ![h] = Append(@, m)]
  \/ /\ Stopped(h)
     /\ UNCHANGED queue

\* readPump: c.hub.Broadcast(msg)
Forward(c) ==
  /\ reader[c] = "forwarding"
  /\ Enqueue(hubOf[c], held[c])
  /\ held' = [held EXCEPT ![c] = Nil]
  /\ reader' = [reader EXCEPT ![c] = "reading"]
  /\ UNCHANGED <<hubVars, serveVars, conn, sendVars, writeVars, pubHub, sent>>

\* Mutant: the deferred function only sends on h.unregister.
LeaveStoppedNever(c) == FALSE

\* The deferred select of readPump when the hub has stopped.
LeaveStopped(c) ==
  /\ reader[c] = "leaving"
  /\ Stopped(hubOf[c])
  /\ reader' = [reader EXCEPT ![c] = "done"]
  /\ conn' = [conn EXCEPT ![c] = "closed"]
  /\ UNCHANGED <<hubVars, queue, serveVars, sendVars, writeVars, senderVars>>

\* HubManager.Broadcast up to the unlock, for an entity that has a hub (for
\* one that has none it returns, as HasHub makes the handlers do).
Publish(p, e) ==
  /\ held[p] = Nil
  /\ hubs[e] # Nil
  /\ pubHub' = [pubHub EXCEPT ![p] = hubs[e]]
  /\ NewMessage(p, e)
  /\ UNCHANGED <<hubVars, queue, serveVars, conn, sendVars, writeVars, reader>>

\* h.Broadcast(msg) after HubManager.mu has been released.
PublishSend(p) ==
  /\ held[p] # Nil
  /\ Enqueue(pubHub[p], held[p])
  /\ held' = [held EXCEPT ![p] = Nil]
  /\ UNCHANGED <<hubVars, serveVars, conn, sendVars, writeVars, reader, pubHub, sent>>

-----------------------------------------------------------------------------
\* Every connection has ended and nobody is publishing.
Quiet ==
  /\ \A c \in Clients : serve[c] = "refused" \/ (reader[c] = "done" /\ writer[c] = "done")
  /\ \A p \in Publishers : held[p] = Nil
  /\ \A h \in Hubs : phase[h] # "stopped"
  /\ UNCHANGED vars

Next ==
  \/ \E c \in Clients :
       \/ \E e \in Entities : Connect(c, e)
       \/ \E h \in Hubs : GetOrCreate(c, h)
       \/ Register(c) \/ RegisterFails(c) \/ StartPumps(c)
       \/ Unregister(c) \/ LeaveStopped(c)
       \/ Write(c) \/ WriteFails(c) \/ PingFails(c) \/ WriteClose(c)
       \/ PeerLeaves(c) \/ Read(c) \/ ReadFails(c) \/ Forward(c)
  \/ \E h \in Hubs : Deliver(h) \/ OnEmpty(h)
  \/ \E p \in Publishers : PublishSend(p) \/ \E e \in Entities : Publish(p, e)
  \/ Quiet

\* Every goroutine that can run does: the scheduler is fair, select picks among
\* ready cases at random, HubManager.mu is not starved.  The peer and the
\* request that publishes are under no obligation.
Fairness ==
  /\ \A c \in Clients :
       /\ WF_vars(\E h \in Hubs : GetOrCreate(c, h))
       /\ WF_vars(Register(c)) /\ WF_vars(RegisterFails(c)) /\ WF_vars(StartPumps(c))
       /\ WF_vars(Unregister(c)) /\ WF_vars(LeaveStopped(c))
       /\ WF_vars(Write(c) \/ WriteFails(c) \/ PingFails(c) \/ WriteClose(c))
       /\ WF_vars(ReadFails(c)) /\ WF_vars(Forward(c))
  /\ \A h \in Hubs : WF_vars(Deliver(h)) /\ WF_vars(OnEmpty(h))
  /\ \A p \in Publishers : WF_vars(PublishSend(p))

Spec == Init /\ [][Next]_vars
FairSpec == Spec /\ Fairness

-----------------------------------------------------------------------------
(* Properties                                                              *)

\* close(c.send) never meets a closed channel and Hub.run never sends on one:
\* eviction of a slow client and its own later unregister, in either order,
\* close the channel exactly once (the "if _, ok" of the unregister case).
NoPanic == \A c \in Clients : sendCh[c] # "panic"

\* A client that registered has its channel open exactly while it is in the
\* clients map of the hub its pumps use: no way out of the map (eviction,
\* unregister, the hub stopping) leaves a writePump without an end.
OpenIffMember ==
  \A c \in Clients :
    serve[c] \in {"registered", "serving"} =>
      (sendCh[c] = "open" <=> c \in clients[hubOf[c]])

\* The room of an entity is never split: whatever the order of GetOrCreate,
\* stop and onEmpty, a running hub is the one the manager maps its entity to.
RunningHubIsMapped ==
  \A h \in Hubs : phase[h] = "running" => room[h] \in Entities /\ hubs[room[h]] = h

\* A hub stops with the step that removes its last client, whether it left or
\* was evicted as slow, and a stopped hub holds nobody.
EmptyIffStopped ==
  \A h \in Hubs : hadClients[h] => (clients[h] = {} <=> Stopped(h))

\* The manager's entry is never replaced while onEmpty waits for the lock: a
\* stopped hub stays mapped until its own onEmpty removes it.
StoppedHubStaysMapped ==
  \A h \in Hubs : phase[h] = "stopped" => hubs[room[h]] = h

\* No goroutine blocks for ever in Hub.Broadcast: the buffer is drained while
\* the hub runs and the stopped channel releases the sender afterwards.
SendersReturn == \A s \in Senders : held[s] # Nil ~> held[s] = Nil

\* ServeWS ends: the client is served or its connection is closed.
HandshakeSettles ==
  \A c \in Clients : serve[c] = "lookup" ~> serve[c] \in {"serving", "refused"}

\* No pump is leaked: once the peer is gone, or the hub has evicted the client,
\* both pumps end and the connection is closed.
PumpsExit ==
  \A c \in Clients :
    serve[c] = "serving" /\ (conn[c] # "open" \/ sendCh[c] # "open")
      ~> reader[c] = "done" /\ writer[c] = "done" /\ conn[c] = "closed"

\* A connection that ServeWS has not given up and whose peer is there.
Attached(c, e) ==
  entity[c] = e /\ conn[c] = "open" /\ serve[c] \in {"lookup", "register", "registered", "serving"}

\* Hubs of idle entities are reclaimed: with nobody attached to an entity its
\* entry disappears from the manager (or somebody attaches again).
IdleHubReclaimed ==
  \A e \in Entities :
    (\A c \in Clients : ~Attached(c, e))
      ~> (hubs[e] = Nil \/ \E c \in Clients : Attached(c, e))

\* A message that reaches the buffer of a hub reaches everyone who is a member
\* by then, unless the member leaves or is evicted.
MembersServed ==
  \A c \in Clients, h \in Hubs, i \in 1..MaxMessages :
    LET m == [id |-> i, entity |-> room[h]]
        Queued == \E k \in 1..Len(queue[h]) : queue[h][k] = m
        Fed == \E k \in 1..Len(feed[c]) : feed[c][k] = m
    IN (Queued /\ c \in clients[h]) ~> (Fed \/ c \notin clients[h])
=============================================================================
