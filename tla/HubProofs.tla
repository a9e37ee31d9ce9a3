----------------------------- MODULE HubProofs -----------------------------
(***************************************************************************)
(* Hub is correct for every number of entities, hubs, clients and          *)
(* publishers and for every buffer size: proofs that IInv is inductive and *)
(* implies the invariants that the runs check.                             *)
(***************************************************************************)
EXTENDS HubRoom, TLAPS

Attending == {"register", "registered", "serving"}

\* The messages of a hub, and of those who hand it one, are of its entity.
AddressInv ==
  /\ \A h \in Hubs : phase[h] = "unborn" => room[h] = Nil
  /\ \A c \in Clients : serve[c] \in Attending => room[hubOf[c]] = entity[c]
  /\ \A c \in Clients : reader[c] = "forwarding" => held[c].entity = entity[c]
  /\ \A p \in Publishers : held[p] # Nil =>
       pubHub[p] \in Hubs /\ held[p].entity = room[pubHub[p]]
  /\ \A h \in Hubs : \A i \in 1..Len(queue[h]) : queue[h][i].entity = room[h]

\* A message has a number that was given out, and is in one place: with a sender, in
\* a queue, or handed out.  A client that has not joined has been handed none.
UniqueInv ==
  /\ \A s \in Senders : held[s] # Nil => held[s].id <= sent
  /\ \A h \in Hubs : \A i \in 1..Len(queue[h]) : queue[h][i].id <= sent
  /\ \A c \in Clients : \A i \in 1..Len(feed[c]) : feed[c][i].id <= sent
  /\ \A s, t \in Senders : held[s] # Nil /\ held[s] = held[t] => s = t
  /\ \A s \in Senders, h \in Hubs : \A i \in 1..Len(queue[h]) : held[s] # queue[h][i]
  /\ \A s \in Senders, c \in Clients : \A i \in 1..Len(feed[c]) : held[s] # feed[c][i]
  /\ \A g, h \in Hubs : \A i \in 1..Len(queue[g]), j \in 1..Len(queue[h]) :
       queue[g][i] = queue[h][j] => g = h /\ i = j
  /\ \A h \in Hubs, c \in Clients : \A i \in 1..Len(queue[h]), j \in 1..Len(feed[c]) :
       queue[h][i] # feed[c][j]
  /\ \A c \in Clients : serve[c] \notin {"registered", "serving"} => feed[c] = <<>>

MInv == IInv /\ AddressInv /\ UniqueInv

\* IInv holds when the server starts: no hub, no connection.
LEMMA InitIInv == Init => IInv
<1> SUFFICES ASSUME Init PROVE IInv
  OBVIOUS
<1> USE HubAssumption DEF Init
<1>1. TypeOK
  BY DEF TypeOK, Senders
<1>2. ManagerInv /\ HubInv /\ ClientInv /\ ServeInv
  BY DEF ManagerInv, HubInv, ClientInv, ServeInv, Stopped
<1> QED BY <1>1, <1>2 DEF IInv
\* Connect preserves IInv: an upgraded connection has no hub yet and an open channel.
LEMMA ConnectIInv ==
  ASSUME NEW c \in Clients, NEW e \in Entities, IInv, Connect(c, e) PROVE IInv'
<1> USE HubAssumption DEF IInv, Connect, Stopped, hubVars, serveVars, sendVars, writeVars, senderVars
<1>1. TypeOK'
  BY DEF TypeOK, Senders, Messages
<1>2. ManagerInv'
  BY DEF TypeOK, ManagerInv, HubInv, ServeInv, ClientInv
<1>3. HubInv'
  BY DEF TypeOK, ManagerInv, HubInv, ServeInv, ClientInv
<1>4. ClientInv'
  BY DEF TypeOK, HubInv, ServeInv, ClientInv
<1>5. ServeInv'
  BY DEF TypeOK, Senders, ServeInv, ClientInv
<1> QED BY <1>1, <1>2, <1>3, <1>4, <1>5

\* GetOrCreate preserves IInv: the returned hub is the mapped one; a new hub was mapped by nobody.
LEMMA GetOrCreateIInv ==
  ASSUME NEW c \in Clients, NEW h \in Hubs, IInv, GetOrCreate(c, h) PROVE IInv'
<1> USE HubAssumption DEF IInv, GetOrCreate, Found, Stopped, hubVars, serveVars, sendVars, writeVars, senderVars
<1>1. TypeOK'
  <2>1. entity[c] \in Entities /\ attempt[c] \in {0, 1}
    BY DEF TypeOK, ServeInv
  <2>2. attempt' \in [Clients -> 0..2]
    BY <2>1 DEF TypeOK
  <2>3. hubs' \in [Entities -> Hubs \cup {Nil}] /\ room' \in [Hubs -> Entities \cup {Nil}]
    BY <2>1 DEF TypeOK
  <2> QED BY <2>2, <2>3 DEF TypeOK, Senders
<1>2. ManagerInv'
  <2>1. entity[c] \in Entities
    BY DEF ServeInv
  <2>2. CASE hubs[entity[c]] = h
    <3>1. h # Nil /\ phase[h] \in {"running", "stopped"}
      BY <2>1, <2>2 DEF ManagerInv
    <3> QED BY <2>1, <2>2, <3>1 DEF ManagerInv, TypeOK
  <2>3. CASE hubs[entity[c]] = Nil /\ phase[h] = "unborn"
    <3>1. h # Nil
      OBVIOUS
    <3>2. /\ hubs' = [hubs EXCEPT ![entity[c]] = h]
          /\ phase' = [phase EXCEPT ![h] = "running"]
          /\ room' = [room EXCEPT ![h] = entity[c]]
      BY <2>3
    <3>3. \A g \in Hubs : phase[g] \in {"running", "stopped"} => room[g] # entity[c] /\ g # h
      BY <2>3, <3>1 DEF ManagerInv
    <3>4. \A e \in Entities : hubs[e] # h
      BY <2>3, <3>1 DEF ManagerInv
    <3> QED BY <2>1, <3>1, <3>2, <3>3, <3>4 DEF ManagerInv, TypeOK
  <2> QED BY <2>2, <2>3
<1>3. HubInv'
  BY DEF TypeOK, ManagerInv, HubInv, ServeInv, ClientInv
<1>4. ClientInv'
  BY DEF TypeOK, HubInv, ServeInv, ClientInv
<1>5. ServeInv'
  BY DEF TypeOK, Senders, ServeInv, ClientInv
<1> QED BY <1>1, <1>2, <1>3, <1>4, <1>5

\* Register preserves IInv: the joining client's channel is still open.
LEMMA RegisterIInv ==
  ASSUME NEW c \in Clients, IInv, Register(c) PROVE IInv'
<1> USE HubAssumption DEF IInv, Register, Stopped, hubVars, serveVars, sendVars, writeVars, senderVars
<1>1. TypeOK'
  BY DEF TypeOK, Senders, Messages
<1>2. ManagerInv'
  BY DEF TypeOK, ManagerInv, HubInv, ServeInv, ClientInv
<1>3. HubInv'
  BY DEF TypeOK, ManagerInv, HubInv, ServeInv, ClientInv
<1>4. ClientInv'
  BY DEF TypeOK, HubInv, ServeInv, ClientInv
<1>5. ServeInv'
  BY DEF TypeOK, Senders, ServeInv, ClientInv
<1> QED BY <1>1, <1>2, <1>3, <1>4, <1>5

\* RegisterFails preserves IInv: at most two iterations.
LEMMA RegisterFailsIInv ==
  ASSUME NEW c \in Clients, IInv, RegisterFails(c) PROVE IInv'
<1> USE HubAssumption DEF IInv, RegisterFails, Stopped, hubVars, serveVars, sendVars, writeVars, senderVars
<1>1. TypeOK'
  <2>1. serve' \in [Clients -> {"idle", "lookup", "register", "registered", "serving", "refused"}]
    <3>1. CASE serve' = [serve EXCEPT ![c] = "lookup"]
      BY <3>1 DEF TypeOK
    <3>2. CASE serve' = [serve EXCEPT ![c] = "refused"]
      BY <3>2 DEF TypeOK
    <3> QED BY <3>1, <3>2
  <2>2. conn' \in [Clients -> {"none", "open", "lost", "closed"}]
    BY DEF TypeOK
  <2> QED BY <2>1, <2>2 DEF TypeOK
<1>2. ManagerInv'
  BY DEF TypeOK, ManagerInv, HubInv, ServeInv, ClientInv
<1>3. HubInv'
  BY DEF TypeOK, ManagerInv, HubInv, ServeInv, ClientInv
<1>4. ClientInv'
  BY DEF TypeOK, HubInv, ServeInv, ClientInv
<1>5. ServeInv'
  BY DEF TypeOK, Senders, ServeInv, ClientInv
<1> QED BY <1>1, <1>2, <1>3, <1>4, <1>5

\* StartPumps preserves IInv: the pumps start on a registered client.
LEMMA StartPumpsIInv ==
  ASSUME NEW c \in Clients, IInv, StartPumps(c) PROVE IInv'
<1> USE HubAssumption DEF IInv, StartPumps, Stopped, hubVars, serveVars, sendVars, writeVars, senderVars
<1>1. TypeOK'
  BY DEF TypeOK, Senders, Messages
<1>2. ManagerInv'
  BY DEF TypeOK, ManagerInv, HubInv, ServeInv, ClientInv
<1>3. HubInv'
  BY DEF TypeOK, ManagerInv, HubInv, ServeInv, ClientInv
<1>4. ClientInv'
  BY DEF TypeOK, HubInv, ServeInv, ClientInv
<1>5. ServeInv'
  BY DEF TypeOK, Senders, ServeInv, ClientInv
<1> QED BY <1>1, <1>2, <1>3, <1>4, <1>5

\* Unregister preserves IInv: the channel is closed with the removal, never twice.
LEMMA UnregisterIInv ==
  ASSUME NEW c \in Clients, IInv, Unregister(c) PROVE IInv'
<1> USE HubAssumption DEF IInv, Unregister, Settle, CloseSend, Stopped, hubVars, serveVars, sendVars, writeVars, senderVars
<1>1. TypeOK'
  BY DEF TypeOK, Senders, Messages
<1>2. ManagerInv'
  BY DEF TypeOK, ManagerInv, HubInv, ServeInv, ClientInv
<1>3. HubInv'
  BY DEF TypeOK, ManagerInv, HubInv, ServeInv, ClientInv
<1>4. ClientInv'
  BY DEF TypeOK, HubInv, ServeInv, ClientInv
<1>5. ServeInv'
  BY DEF TypeOK, Senders, ServeInv, ClientInv
<1> QED BY <1>1, <1>2, <1>3, <1>4, <1>5

\* LeaveStopped preserves IInv: the hub's map is not touched.
LEMMA LeaveStoppedIInv ==
  ASSUME NEW c \in Clients, IInv, LeaveStopped(c) PROVE IInv'
<1> USE HubAssumption DEF IInv, LeaveStopped, Stopped, hubVars, serveVars, sendVars, writeVars, senderVars
<1>1. TypeOK'
  BY DEF TypeOK, Senders, Messages
<1>2. ManagerInv'
  BY DEF TypeOK, ManagerInv, HubInv, ServeInv, ClientInv
<1>3. HubInv'
  BY DEF TypeOK, ManagerInv, HubInv, ServeInv, ClientInv
<1>4. ClientInv'
  BY DEF TypeOK, HubInv, ServeInv, ClientInv
<1>5. ServeInv'
  BY DEF TypeOK, Senders, ServeInv, ClientInv
<1> QED BY <1>1, <1>2, <1>3, <1>4, <1>5

\* Write preserves IInv: only taken moves.
LEMMA WriteIInv ==
  ASSUME NEW c \in Clients, IInv, Write(c) PROVE IInv'
<1> USE HubAssumption DEF IInv, Write, Stopped, hubVars, serveVars, sendVars, writeVars, senderVars
<1>1. TypeOK'
  <2>1. taken' \in [Clients -> Nat]
    BY DEF TypeOK
  <2> QED BY <2>1 DEF TypeOK
<1>2. ManagerInv'
  BY DEF TypeOK, ManagerInv, HubInv, ServeInv, ClientInv
<1>3. HubInv'
  BY DEF TypeOK, ManagerInv, HubInv, ServeInv, ClientInv
<1>4. ClientInv'
  BY DEF TypeOK, HubInv, ServeInv, ClientInv
<1>5. ServeInv'
  BY DEF TypeOK, Senders, ServeInv, ClientInv
<1> QED BY <1>1, <1>2, <1>3, <1>4, <1>5

\* WriteFails preserves IInv: only the pump and the connection change.
LEMMA WriteFailsIInv ==
  ASSUME NEW c \in Clients, IInv, WriteFails(c) PROVE IInv'
<1> USE HubAssumption DEF IInv, WriteFails, Stopped, hubVars, serveVars, sendVars, writeVars, senderVars
<1>1. TypeOK'
  <2>1. taken' \in [Clients -> Nat]
    BY DEF TypeOK
  <2> QED BY <2>1 DEF TypeOK
<1>2. ManagerInv'
  BY DEF TypeOK, ManagerInv, HubInv, ServeInv, ClientInv
<1>3. HubInv'
  BY DEF TypeOK, ManagerInv, HubInv, ServeInv, ClientInv
<1>4. ClientInv'
  BY DEF TypeOK, HubInv, ServeInv, ClientInv
<1>5. ServeInv'
  BY DEF TypeOK, Senders, ServeInv, ClientInv
<1> QED BY <1>1, <1>2, <1>3, <1>4, <1>5

\* PingFails preserves IInv: only the pump and the connection change.
LEMMA PingFailsIInv ==
  ASSUME NEW c \in Clients, IInv, PingFails(c) PROVE IInv'
<1> USE HubAssumption DEF IInv, PingFails, Stopped, hubVars, serveVars, sendVars, writeVars, senderVars
<1>1. TypeOK'
  BY DEF TypeOK, Senders, Messages
<1>2. ManagerInv'
  BY DEF TypeOK, ManagerInv, HubInv, ServeInv, ClientInv
<1>3. HubInv'
  BY DEF TypeOK, ManagerInv, HubInv, ServeInv, ClientInv
<1>4. ClientInv'
  BY DEF TypeOK, HubInv, ServeInv, ClientInv
<1>5. ServeInv'
  BY DEF TypeOK, Senders, ServeInv, ClientInv
<1> QED BY <1>1, <1>2, <1>3, <1>4, <1>5

\* WriteClose preserves IInv: only the pump and the connection change.
LEMMA WriteCloseIInv ==
  ASSUME NEW c \in Clients, IInv, WriteClose(c) PROVE IInv'
<1> USE HubAssumption DEF IInv, WriteClose, Stopped, hubVars, serveVars, sendVars, writeVars, senderVars
<1>1. TypeOK'
  BY DEF TypeOK, Senders, Messages
<1>2. ManagerInv'
  BY DEF TypeOK, ManagerInv, HubInv, ServeInv, ClientInv
<1>3. HubInv'
  BY DEF TypeOK, ManagerInv, HubInv, ServeInv, ClientInv
<1>4. ClientInv'
  BY DEF TypeOK, HubInv, ServeInv, ClientInv
<1>5. ServeInv'
  BY DEF TypeOK, Senders, ServeInv, ClientInv
<1> QED BY <1>1, <1>2, <1>3, <1>4, <1>5

\* PeerLeaves preserves IInv: only the connection changes.
LEMMA PeerLeavesIInv ==
  ASSUME NEW c \in Clients, IInv, PeerLeaves(c) PROVE IInv'
<1> USE HubAssumption DEF IInv, PeerLeaves, Stopped, hubVars, serveVars, sendVars, writeVars, senderVars
<1>1. TypeOK'
  BY DEF TypeOK, Senders, Messages
<1>2. ManagerInv'
  BY DEF TypeOK, ManagerInv, HubInv, ServeInv, ClientInv
<1>3. HubInv'
  BY DEF TypeOK, ManagerInv, HubInv, ServeInv, ClientInv
<1>4. ClientInv'
  BY DEF TypeOK, HubInv, ServeInv, ClientInv
<1>5. ServeInv'
  BY DEF TypeOK, Senders, ServeInv, ClientInv
<1> QED BY <1>1, <1>2, <1>3, <1>4, <1>5

\* Read preserves IInv: the reader now holds a message of its own entity.
LEMMA ReadIInv ==
  ASSUME NEW c \in Clients, IInv, Read(c) PROVE IInv'
<1> USE HubAssumption DEF IInv, Read, NewMessage, Stopped, hubVars, serveVars, sendVars, writeVars, senderVars
<1>1. TypeOK'
  <2>1. sent + 1 \in 1..MaxMessages
    BY DEF TypeOK
  <2>2. entity[c] \in Entities
    BY DEF ServeInv
  <2>3. held' \in [Senders -> Messages \cup {Nil}]
    BY <2>1, <2>2 DEF TypeOK, Senders, Messages
  <2> QED BY <2>1, <2>3 DEF TypeOK
<1>2. ManagerInv'
  BY DEF TypeOK, ManagerInv, HubInv, ServeInv, ClientInv
<1>3. HubInv'
  BY DEF TypeOK, ManagerInv, HubInv, ServeInv, ClientInv
<1>4. ClientInv'
  BY DEF TypeOK, HubInv, ServeInv, ClientInv
<1>5. ServeInv'
  BY DEF TypeOK, Senders, ServeInv, ClientInv
<1> QED BY <1>1, <1>2, <1>3, <1>4, <1>5

\* ReadFails preserves IInv: only the reader changes.
LEMMA ReadFailsIInv ==
  ASSUME NEW c \in Clients, IInv, ReadFails(c) PROVE IInv'
<1> USE HubAssumption DEF IInv, ReadFails, Stopped, hubVars, serveVars, sendVars, writeVars, senderVars
<1>1. TypeOK'
  BY DEF TypeOK, Senders, Messages
<1>2. ManagerInv'
  BY DEF TypeOK, ManagerInv, HubInv, ServeInv, ClientInv
<1>3. HubInv'
  BY DEF TypeOK, ManagerInv, HubInv, ServeInv, ClientInv
<1>4. ClientInv'
  BY DEF TypeOK, HubInv, ServeInv, ClientInv
<1>5. ServeInv'
  BY DEF TypeOK, Senders, ServeInv, ClientInv
<1> QED BY <1>1, <1>2, <1>3, <1>4, <1>5

\* Forward preserves IInv: the message enters the hub's buffer or is dropped.
LEMMA ForwardIInv ==
  ASSUME NEW c \in Clients, IInv, Forward(c) PROVE IInv'
<1> USE HubAssumption DEF IInv, Forward, Enqueue, Stopped, hubVars, serveVars, sendVars, writeVars, senderVars
<1>1. TypeOK'
  <2>1. c \in Senders
    BY DEF Senders
  <2>2. held[c] \in Messages
    BY <2>1 DEF TypeOK, ServeInv
  <2>3. queue' \in [Hubs -> Seq(Messages)]
    <3>1. CASE queue' = [queue EXCEPT ![hubOf[c]] = Append(@, held[c])]
      <4>1. \A g \in Hubs : Append(queue[g], held[c]) \in Seq(Messages)
        BY <2>2 DEF TypeOK
      <4> QED BY <3>1, <4>1 DEF TypeOK
    <3>2. CASE UNCHANGED queue
      BY <3>2 DEF TypeOK
    <3> QED BY <3>1, <3>2
  <2>4. held' \in [Senders -> Messages \cup {Nil}]
    BY <2>1 DEF TypeOK
  <2> QED BY <2>3, <2>4 DEF TypeOK
<1>2. ManagerInv'
  BY DEF TypeOK, ManagerInv, HubInv, ServeInv, ClientInv
<1>3. HubInv'
  BY DEF TypeOK, ManagerInv, HubInv, ServeInv, ClientInv
<1>4. ClientInv'
  BY DEF TypeOK, HubInv, ServeInv, ClientInv
<1>5. ServeInv'
  BY DEF TypeOK, Senders, ServeInv, ClientInv
<1> QED BY <1>1, <1>2, <1>3, <1>4, <1>5

\* Deliver preserves IInv: evicted clients lose their place and their channel together.
LEMMA DeliverIInv ==
  ASSUME NEW h \in Hubs, IInv, Deliver(h) PROVE IInv'
<1> USE HubAssumption DEF IInv, Deliver, Settle, CloseSend, Ready, Stopped, hubVars, serveVars, sendVars, writeVars, senderVars
<1>1. TypeOK'
  <2>1. /\ queue[h] \in Seq(Messages)
        /\ Head(queue[h]) \in Messages
        /\ Tail(queue[h]) \in Seq(Messages)
    BY DEF TypeOK
  <2>2. queue' \in [Hubs -> Seq(Messages)]
    BY <2>1 DEF TypeOK
  <2>3. feed' \in [Clients -> Seq(Messages)]
    BY <2>1 DEF TypeOK
  <2>4. sendCh' \in [Clients -> {"open", "closed", "panic"}]
    BY DEF TypeOK
  <2>5. clients' \in [Hubs -> SUBSET Clients] /\ phase' \in [Hubs -> {"unborn", "running", "stopped", "gone"}]
    BY DEF TypeOK
  <2> QED BY <2>2, <2>3, <2>4, <2>5 DEF TypeOK
<1>2. ManagerInv'
  BY DEF TypeOK, ManagerInv, HubInv, ServeInv, ClientInv
<1>3. HubInv'
  BY DEF TypeOK, ManagerInv, HubInv, ServeInv, ClientInv
<1>4. ClientInv'
  BY DEF TypeOK, HubInv, ServeInv, ClientInv
<1>5. ServeInv'
  BY DEF TypeOK, Senders, ServeInv, ClientInv
<1> QED BY <1>1, <1>2, <1>3, <1>4, <1>5

\* OnEmpty preserves IInv: the entry removed is the stopped hub's own.
LEMMA OnEmptyIInv ==
  ASSUME NEW h \in Hubs, IInv, OnEmpty(h) PROVE IInv'
<1> USE HubAssumption DEF IInv, OnEmpty, Stopped, hubVars, serveVars, sendVars, writeVars, senderVars
<1>1. TypeOK'
  BY DEF TypeOK, Senders, Messages
<1>2. ManagerInv'
  BY DEF TypeOK, ManagerInv, HubInv, ServeInv, ClientInv
<1>3. HubInv'
  BY DEF TypeOK, ManagerInv, HubInv, ServeInv, ClientInv
<1>4. ClientInv'
  BY DEF TypeOK, HubInv, ServeInv, ClientInv
<1>5. ServeInv'
  BY DEF TypeOK, Senders, ServeInv, ClientInv
<1> QED BY <1>1, <1>2, <1>3, <1>4, <1>5

\* PublishSend preserves IInv: the message enters the hub's buffer or is dropped.
LEMMA PublishSendIInv ==
  ASSUME NEW p \in Publishers, IInv, PublishSend(p) PROVE IInv'
<1> USE HubAssumption DEF IInv, PublishSend, Enqueue, Stopped, hubVars, serveVars, sendVars, writeVars, senderVars
<1>1. TypeOK'
  <2>1. p \in Senders
    BY DEF Senders
  <2>2. held[p] \in Messages
    BY <2>1 DEF TypeOK, ServeInv
  <2>3. queue' \in [Hubs -> Seq(Messages)]
    <3>1. CASE queue' = [queue EXCEPT ![pubHub[p]] = Append(@, held[p])]
      <4>1. \A g \in Hubs : Append(queue[g], held[p]) \in Seq(Messages)
        BY <2>2 DEF TypeOK
      <4> QED BY <3>1, <4>1 DEF TypeOK
    <3>2. CASE UNCHANGED queue
      BY <3>2 DEF TypeOK
    <3> QED BY <3>1, <3>2
  <2>4. held' \in [Senders -> Messages \cup {Nil}]
    BY <2>1 DEF TypeOK
  <2> QED BY <2>3, <2>4 DEF TypeOK
<1>2. ManagerInv'
  BY DEF TypeOK, ManagerInv, HubInv, ServeInv, ClientInv
<1>3. HubInv'
  BY DEF TypeOK, ManagerInv, HubInv, ServeInv, ClientInv
<1>4. ClientInv'
  BY DEF TypeOK, HubInv, ServeInv, ClientInv
<1>5. ServeInv'
  BY DEF TypeOK, Senders, ServeInv, ClientInv
<1> QED BY <1>1, <1>2, <1>3, <1>4, <1>5

\* Publish preserves IInv: the publisher holds a new message.
LEMMA PublishIInv ==
  ASSUME NEW p \in Publishers, NEW e \in Entities, IInv, Publish(p, e) PROVE IInv'
<1> USE HubAssumption DEF IInv, Publish, NewMessage, Stopped, hubVars, serveVars, sendVars, writeVars, senderVars
<1>1. TypeOK'
  <2>1. sent + 1 \in 1..MaxMessages
    BY DEF TypeOK
  <2>2. held' \in [Senders -> Messages \cup {Nil}]
    BY <2>1 DEF TypeOK, Senders, Messages
  <2> QED BY <2>1, <2>2 DEF TypeOK
<1>2. ManagerInv'
  BY DEF TypeOK, ManagerInv, HubInv, ServeInv, ClientInv
<1>3. HubInv'
  BY DEF TypeOK, ManagerInv, HubInv, ServeInv, ClientInv
<1>4. ClientInv'
  BY DEF TypeOK, HubInv, ServeInv, ClientInv
<1>5. ServeInv'
  BY DEF TypeOK, Senders, ServeInv, ClientInv
<1> QED BY <1>1, <1>2, <1>3, <1>4, <1>5

\* Every step of Hub, and every stuttering step, preserves IInv.
LEMMA NextIInv == IInv /\ [Next]_vars => IInv'
<1>1. ASSUME IInv, UNCHANGED vars PROVE IInv'
  BY <1>1 DEF IInv, TypeOK, ManagerInv, HubInv, ClientInv, ServeInv, Stopped, vars,
     hubVars, serveVars, sendVars, writeVars, senderVars
<1>2. ASSUME IInv, Next PROVE IInv'
  BY <1>1, <1>2, ConnectIInv, GetOrCreateIInv, RegisterIInv, RegisterFailsIInv,
     StartPumpsIInv, UnregisterIInv, LeaveStoppedIInv, WriteIInv, WriteFailsIInv,
     PingFailsIInv, WriteCloseIInv, PeerLeavesIInv, ReadIInv, ReadFailsIInv,
     ForwardIInv, DeliverIInv, OnEmptyIInv, PublishSendIInv, PublishIInv
     DEF Next, Quiet
<1> QED BY <1>1, <1>2

-----------------------------------------------------------------------------
(* Messages                                                                *)

\* A step that moves no message, and attaches no client.
LEMMA MessagesKept ==
  ASSUME MInv, UNCHANGED <<queue, feed, held, pubHub, sent, room, entity, hubOf>>,
         \A c \in Clients :
           /\ serve'[c] \in Attending => serve[c] \in Attending
           /\ serve[c] \in {"registered", "serving"} => serve'[c] \in {"registered", "serving"}
           /\ reader'[c] = "forwarding" => reader[c] = "forwarding",
         \A h \in Hubs : phase'[h] = "unborn" => phase[h] = "unborn"
  PROVE  AddressInv' /\ UniqueInv'
<1>1. AddressInv'
  BY DEF MInv, AddressInv
<1>2. UniqueInv'
  BY DEF MInv, UniqueInv
<1> QED BY <1>1, <1>2

\* These steps are of that kind.
LEMMA QuietSteps ==
  ASSUME MInv, NEW c \in Clients,
         \/ \E e \in Entities : Connect(c, e)
         \/ Register(c) \/ RegisterFails(c) \/ StartPumps(c) \/ Unregister(c)
         \/ LeaveStopped(c) \/ Write(c) \/ WriteFails(c) \/ PingFails(c) \/ WriteClose(c)
         \/ PeerLeaves(c) \/ ReadFails(c)
  PROVE  AddressInv' /\ UniqueInv'
<1> USE DEF MInv, IInv, Attending, hubVars, serveVars, sendVars, writeVars, senderVars
<1>1. CASE \E e \in Entities : Connect(c, e)
  <2>1. /\ reader[c] = "off" /\ serve'[c] = "lookup"
        /\ \A d \in Clients : d # c => serve'[d] = serve[d] /\ entity'[d] = entity[d]
        /\ UNCHANGED <<phase, room, queue, hubOf, reader, held, pubHub>>
    BY <1>1 DEF Connect, TypeOK, ServeInv
  <2>3. AddressInv'
    BY <2>1 DEF AddressInv
  <2>2. UniqueInv'
    BY <1>1 DEF UniqueInv, Connect, TypeOK
  <2> QED BY <2>2, <2>3
<1>2. CASE Register(c)
  <2>1. AddressInv'
    BY <1>2 DEF AddressInv, Register, TypeOK
  <2>2. UniqueInv'
    BY <1>2 DEF UniqueInv, Register, TypeOK
  <2> QED BY <2>1, <2>2
<1>3. CASE RegisterFails(c)
  BY <1>3, MessagesKept DEF RegisterFails, TypeOK
<1>4. CASE StartPumps(c)
  BY <1>4, MessagesKept DEF StartPumps, TypeOK
<1>5. CASE Unregister(c)
  BY <1>5, MessagesKept DEF Unregister, Settle, TypeOK
<1>6. CASE LeaveStopped(c) \/ ReadFails(c)
  BY <1>6, MessagesKept DEF LeaveStopped, ReadFails, TypeOK
<1>7. CASE Write(c) \/ WriteFails(c) \/ PingFails(c) \/ WriteClose(c) \/ PeerLeaves(c)
  BY <1>7, MessagesKept DEF Write, WriteFails, PingFails, WriteClose, PeerLeaves
<1> QED BY <1>1, <1>2, <1>3, <1>4, <1>5, <1>6, <1>7

\* A hub that is created has no message and no client that has one for it.
LEMMA GetOrCreateMessages ==
  ASSUME MInv, NEW c \in Clients, NEW h \in Hubs, GetOrCreate(c, h)
  PROVE  AddressInv' /\ UniqueInv'
<1> USE DEF MInv, IInv, GetOrCreate, Found, hubVars, sendVars, writeVars, senderVars
<1>1. entity[c] \in Entities /\ Nil \notin Entities /\ h # Nil
  BY HubAssumption DEF ServeInv
<1>2. UniqueInv'
  BY DEF UniqueInv, TypeOK
<1>3. room'[h] = entity[c] /\ \A g \in Hubs : room[g] # Nil => room'[g] = room[g]
  <2>1. CASE phase[h] = "unborn"
    BY <2>1 DEF TypeOK, AddressInv
  <2>2. CASE phase[h] # "unborn"
    BY <1>1, <2>2 DEF ManagerInv
  <2> QED BY <2>1, <2>2
<1>4. \A d \in Clients : serve'[d] \in Attending => room'[hubOf'[d]] = entity'[d]
  <2> SUFFICES ASSUME NEW d \in Clients, serve'[d] \in Attending
               PROVE  room'[hubOf'[d]] = entity[d]
    OBVIOUS
  <2>1. CASE d = c
    BY <1>3, <2>1 DEF TypeOK
  <2>2. CASE d # c
    <3>1. serve[d] \in Attending /\ hubOf'[d] = hubOf[d] /\ hubOf[d] \in Hubs
      BY <2>2 DEF TypeOK, Attending, ClientInv, ServeInv
    <3>2. entity[d] \in Entities
      BY <3>1 DEF ServeInv, Attending
    <3> QED BY <1>1, <1>3, <3>1, <3>2 DEF AddressInv
  <2> QED BY <2>1, <2>2
<1>5. \A p \in Publishers : held[p] # Nil => held[p].entity = room'[pubHub[p]]
  <2> SUFFICES ASSUME NEW p \in Publishers, held[p] # Nil PROVE held[p].entity = room'[pubHub[p]]
    OBVIOUS
  <2>1. held[p].entity \in Entities
    BY DEF TypeOK, Senders, Messages
  <2> QED BY <1>1, <1>3, <2>1 DEF AddressInv
<1>6. \A g \in Hubs : \A i \in 1..Len(queue[g]) : queue[g][i].entity = room'[g]
  <2> SUFFICES ASSUME NEW g \in Hubs, NEW i \in 1..Len(queue[g])
               PROVE  queue[g][i].entity = room'[g]
    OBVIOUS
  <2>1. queue[g][i] \in Messages
    BY DEF TypeOK
  <2>2. queue[g][i].entity \in Entities
    BY <2>1 DEF Messages
  <2> QED BY <1>1, <1>3, <2>2 DEF AddressInv
<1>7. \A g \in Hubs : phase'[g] = "unborn" => room'[g] = Nil
  BY DEF AddressInv, TypeOK
<1>8. AddressInv'
  BY <1>4, <1>5, <1>6, <1>7 DEF AddressInv
<1> QED BY <1>2, <1>8

\* The message that a sender creates is new to everybody.
LEMMA NewMessageUnique ==
  ASSUME MInv, NEW s \in Senders, NEW e \in Entities, NewMessage(s, e),
         UNCHANGED <<queue, feed, serve>>
  PROVE  /\ UniqueInv' /\ held'[s] # Nil /\ held'[s].entity = e
         /\ \A t \in Senders : t # s => held'[t] = held[t]
<1> DEFINE new == [id |-> sent + 1, entity |-> e]
<1>1. /\ sent \in Nat /\ sent + 1 \in 1..MaxMessages /\ new \in Messages /\ new # Nil
      /\ new.id = sent + 1 /\ new.entity = e /\ sent' = sent + 1
  BY HubAssumption DEF MInv, IInv, TypeOK, NewMessage, Messages
<1> HIDE DEF new
<1>2. held'[s] = new /\ \A t \in Senders : t # s => held'[t] = held[t]
  BY DEF MInv, IInv, TypeOK, NewMessage, new
<1>3. /\ \A h \in Hubs : \A i \in 1..Len(queue[h]) :
           queue[h][i] # new /\ queue[h][i].id <= sent'
      /\ \A c \in Clients : \A i \in 1..Len(feed[c]) :
           feed[c][i] # new /\ feed[c][i].id <= sent'
  <2>1. \A h \in Hubs : \A i \in 1..Len(queue[h]) : queue[h][i] \in Messages
    BY DEF MInv, IInv, TypeOK
  <2>2. \A c \in Clients : \A i \in 1..Len(feed[c]) : feed[c][i] \in Messages
    BY DEF MInv, IInv, TypeOK
  <2>3. \A m \in Messages : m.id \in Nat
    BY DEF Messages
  <2> QED BY <1>1, <2>1, <2>2, <2>3 DEF MInv, UniqueInv
<1>4. \A t \in Senders : t # s /\ held[t] # Nil => held[t] # new /\ held[t].id <= sent'
  <2>1. \A t \in Senders : held[t] # Nil => held[t].id \in Nat
    BY DEF MInv, IInv, TypeOK, Messages
  <2> QED BY <1>1, <2>1 DEF MInv, UniqueInv
<1> QED BY <1>1, <1>2, <1>3, <1>4 DEF MInv, UniqueInv

LEMMA ReadMessages ==
  ASSUME MInv, NEW c \in Clients, Read(c)
  PROVE  AddressInv' /\ UniqueInv'
<1> USE DEF Read, hubVars, serveVars, sendVars, writeVars
<1>1. c \in Senders /\ c \notin Publishers /\ entity[c] \in Entities
  BY HubAssumption DEF MInv, IInv, ServeInv, Senders
<1>2. /\ UniqueInv' /\ held'[c].entity = entity[c]
      /\ \A t \in Senders : t # c => held'[t] = held[t]
  BY <1>1, NewMessageUnique
<1>3. /\ reader' = [reader EXCEPT ![c] = "forwarding"]
      /\ reader \in [Clients -> {"off", "reading", "forwarding", "leaving", "done"}]
  BY DEF MInv, IInv, TypeOK
<1>4. AddressInv'
  BY <1>1, <1>2, <1>3 DEF MInv, AddressInv, Senders
<1> QED BY <1>2, <1>4

LEMMA PublishMessages ==
  ASSUME MInv, NEW p \in Publishers, NEW e \in Entities, Publish(p, e)
  PROVE  AddressInv' /\ UniqueInv'
<1> USE DEF Publish, hubVars, serveVars, sendVars, writeVars
<1>1. p \in Senders /\ p \notin Clients /\ hubs[e] \in Hubs /\ room[hubs[e]] = e
  BY HubAssumption DEF MInv, IInv, TypeOK, ManagerInv, Senders
<1>2. /\ UniqueInv' /\ held'[p].entity = e
      /\ \A t \in Senders : t # p => held'[t] = held[t]
  BY <1>1, NewMessageUnique
<1>3. pubHub'[p] = hubs[e] /\ \A t \in Publishers : t # p => pubHub'[t] = pubHub[t]
  BY DEF MInv, IInv, TypeOK
<1>4. AddressInv'
  BY <1>1, <1>2, <1>3 DEF MInv, AddressInv, Senders
<1> QED BY <1>2, <1>4

\* A message goes from its sender to the end of the buffer of its hub, or is lost.
LEMMA EnqueueMessages ==
  ASSUME MInv, NEW s \in Senders, NEW h \in Hubs, held[s] # Nil, held[s].entity = room[h],
         Enqueue(h, held[s]), held' = [held EXCEPT ![s] = Nil],
         UNCHANGED <<feed, sent, serve, room>>
  PROVE  /\ UniqueInv'
         /\ \A g \in Hubs : \A i \in 1..Len(queue'[g]) : queue'[g][i].entity = room[g]
<1>1. /\ held'[s] = Nil /\ \A t \in Senders : t # s => held'[t] = held[t]
      /\ held[s] \in Messages /\ Nil \notin Messages
  BY HubAssumption DEF MInv, IInv, TypeOK, Messages
<1>2. \A g \in Hubs : queue[g] \in Seq(Messages)
  BY DEF MInv, IInv, TypeOK
<1>3. CASE UNCHANGED queue
  <2>1. \A g \in Hubs : \A i \in 1..Len(queue[g]) : queue[g][i] # Nil
    BY <1>1, <1>2
  <2>2. \A c \in Clients : \A i \in 1..Len(feed[c]) : feed[c][i] # Nil
    BY <1>1 DEF MInv, IInv, TypeOK
  <2> QED BY <1>1, <1>3, <2>1, <2>2 DEF MInv, UniqueInv, AddressInv
<1>4. CASE queue' = [queue EXCEPT ![h] = Append(@, held[s])]
  <2>1. /\ \A g \in Hubs : g # h => queue'[g] = queue[g]
        /\ Len(queue'[h]) = Len(queue[h]) + 1 /\ Len(queue[h]) \in Nat
        /\ queue'[h][Len(queue[h]) + 1] = held[s]
        /\ \A i \in 1..Len(queue[h]) : queue'[h][i] = queue[h][i]
    BY <1>1, <1>2, <1>4 DEF MInv, IInv, TypeOK
  <2>2. ASSUME NEW g \in Hubs, NEW i \in 1..Len(queue'[g])
        PROVE  \/ g = h /\ i = Len(queue[h]) + 1 /\ queue'[g][i] = held[s]
               \/ i \in 1..Len(queue[g]) /\ queue'[g][i] = queue[g][i]
    BY <2>1
  <2>3. \A g \in Hubs : \A i \in 1..Len(queue'[g]) : queue'[g][i] # Nil
    BY <1>1, <1>2, <2>2
  <2>4. \A c \in Clients : \A i \in 1..Len(feed[c]) : feed[c][i] # Nil
    BY <1>1 DEF MInv, IInv, TypeOK
  <2>5. \A t \in Senders, g \in Hubs : \A i \in 1..Len(queue'[g]) : held'[t] # queue'[g][i]
    BY <1>1, <2>2, <2>3 DEF MInv, UniqueInv
  <2>6. \A f, g \in Hubs : \A i \in 1..Len(queue'[f]), j \in 1..Len(queue'[g]) :
          queue'[f][i] = queue'[g][j] => f = g /\ i = j
    <3> SUFFICES ASSUME NEW f \in Hubs, NEW g \in Hubs, NEW i \in 1..Len(queue'[f]),
                        NEW j \in 1..Len(queue'[g]), queue'[f][i] = queue'[g][j]
                 PROVE  f = g /\ i = j
      OBVIOUS
    <3>1. CASE queue'[f][i] = held[s]
      <4>1. \A g1 \in Hubs : \A k \in 1..Len(queue[g1]) : queue[g1][k] # held[s]
        BY DEF MInv, UniqueInv
      <4>2. f = h /\ i = Len(queue[h]) + 1
        BY <2>2, <3>1, <4>1
      <4>3. g = h /\ j = Len(queue[h]) + 1
        BY <2>2, <3>1, <4>1
      <4> QED BY <4>2, <4>3
    <3>2. CASE queue'[f][i] # held[s]
      BY <2>2, <3>2 DEF MInv, UniqueInv
    <3> QED BY <3>1, <3>2
  <2>7. \A g \in Hubs, c \in Clients : \A i \in 1..Len(queue'[g]), j \in 1..Len(feed[c]) :
          queue'[g][i] # feed[c][j]
    BY <2>2 DEF MInv, UniqueInv
  <2>8. \A g \in Hubs : \A i \in 1..Len(queue'[g]) :
          queue'[g][i].id <= sent /\ queue'[g][i].entity = room[g]
    BY <2>2 DEF MInv, UniqueInv, AddressInv
  <2> QED BY <1>1, <2>4, <2>5, <2>6, <2>7, <2>8 DEF MInv, UniqueInv
<1> QED BY <1>3, <1>4 DEF Enqueue

LEMMA ForwardMessages ==
  ASSUME MInv, NEW c \in Clients, Forward(c)
  PROVE  AddressInv' /\ UniqueInv'
<1> USE DEF Forward, hubVars, serveVars, sendVars
<1>1. /\ c \in Senders /\ c \notin Publishers /\ held[c] # Nil /\ serve[c] = "serving"
      /\ hubOf[c] \in Hubs
  BY HubAssumption DEF MInv, IInv, ServeInv, ClientInv, Senders
<1>2. held[c].entity = room[hubOf[c]]
  BY <1>1 DEF MInv, AddressInv, Attending
<1>3. /\ UniqueInv'
      /\ \A g \in Hubs : \A i \in 1..Len(queue'[g]) : queue'[g][i].entity = room[g]
  BY <1>1, <1>2, EnqueueMessages
<1>4. /\ \A t \in Senders : t # c => held'[t] = held[t]
      /\ reader'[c] = "reading" /\ \A d \in Clients : d # c => reader'[d] = reader[d]
  BY DEF MInv, IInv, TypeOK
<1>5. AddressInv'
  BY <1>1, <1>3, <1>4 DEF MInv, AddressInv, Senders
<1> QED BY <1>3, <1>5

LEMMA PublishSendMessages ==
  ASSUME MInv, NEW p \in Publishers, PublishSend(p)
  PROVE  AddressInv' /\ UniqueInv'
<1> USE DEF PublishSend, hubVars, serveVars, sendVars
<1>1. /\ p \in Senders /\ p \notin Clients /\ pubHub[p] \in Hubs
      /\ held[p].entity = room[pubHub[p]]
  BY HubAssumption DEF MInv, AddressInv, Senders
<1>2. /\ UniqueInv'
      /\ \A g \in Hubs : \A i \in 1..Len(queue'[g]) : queue'[g][i].entity = room[g]
  BY <1>1, EnqueueMessages
<1>3. held'[p] = Nil /\ \A t \in Senders : t # p => held'[t] = held[t]
  BY <1>1 DEF MInv, IInv, TypeOK
<1>4. AddressInv'
  BY <1>1, <1>2, <1>3 DEF MInv, AddressInv, Senders
<1> QED BY <1>2, <1>4

\* The first message of a queue is handed to members, who have all joined.
LEMMA DeliverMessages ==
  ASSUME MInv, NEW h \in Hubs, Deliver(h)
  PROVE  AddressInv' /\ UniqueInv'
<1> DEFINE m == Head(queue[h])
<1> USE DEF Deliver, Settle, hubVars, serveVars, writeVars, senderVars
<1>1. /\ \A g \in Hubs : queue[g] \in Seq(Messages)
      /\ \A c \in Clients : feed[c] \in Seq(Messages)
      /\ m \in Messages /\ Len(queue[h]) \in Nat /\ 1 \in 1..Len(queue[h]) /\ m = queue[h][1]
  BY DEF MInv, IInv, TypeOK
<1>2. /\ \A g \in Hubs : g # h => queue'[g] = queue[g]
      /\ Len(queue'[h]) = Len(queue[h]) - 1
      /\ \A i \in 1..Len(queue'[h]) :
           i + 1 \in 2..Len(queue[h]) /\ queue'[h][i] = queue[h][i + 1]
  BY <1>1 DEF MInv, IInv, TypeOK
<1>3. /\ \A c \in Clients \ Ready(h) : feed'[c] = feed[c]
      /\ \A c \in Clients \cap Ready(h) :
           /\ Len(feed'[c]) = Len(feed[c]) + 1 /\ Len(feed[c]) \in Nat
           /\ feed'[c][Len(feed[c]) + 1] = m
           /\ \A i \in 1..Len(feed[c]) : feed'[c][i] = feed[c][i]
  BY <1>1
<1> HIDE DEF m
<1>4. ASSUME NEW c \in Clients, NEW i \in 1..Len(feed'[c])
      PROVE  \/ feed'[c][i] = m
             \/ i \in 1..Len(feed[c]) /\ feed'[c][i] = feed[c][i]
  BY <1>3
<1>5. ASSUME NEW g \in Hubs, NEW i \in 1..Len(queue'[g])
      PROVE  \E j \in 1..Len(queue[g]) :
               /\ queue'[g][i] = queue[g][j] /\ queue[g][j] # m
               /\ IF g = h THEN j = i + 1 ELSE j = i
  <2>1. CASE g = h
    <3>1. i \in Nat /\ i + 1 \in 2..Len(queue[h]) /\ queue'[h][i] = queue[h][i + 1]
      BY <1>2, <2>1
    <3>2. i + 1 \in 1..Len(queue[h]) /\ i + 1 # 1
      BY <1>1, <3>1
    <3>3. queue[h][i + 1] # m
      <4>1. \A k, l \in 1..Len(queue[h]) : queue[h][k] = queue[h][l] => k = l
        BY DEF MInv, UniqueInv
      <4> QED BY <1>1, <3>2, <4>1
    <3> QED BY <2>1, <3>1, <3>2, <3>3
  <2>2. CASE g # h
    BY <1>1, <1>2, <2>2 DEF MInv, UniqueInv
  <2> QED BY <2>1, <2>2
<1>6. \A c \in Clients : serve'[c] \notin {"registered", "serving"} => feed'[c] = <<>>
  BY <1>3 DEF MInv, IInv, ClientInv, UniqueInv, Ready
<1>7. \A s \in Senders : held[s] # m
  BY <1>1 DEF MInv, UniqueInv
<1>8. /\ \A g \in Hubs : \A i \in 1..Len(queue'[g]) :
           queue'[g][i].id <= sent /\ queue'[g][i].entity = room[g]
      /\ \A s \in Senders, g \in Hubs : \A i \in 1..Len(queue'[g]) : held[s] # queue'[g][i]
  BY <1>5 DEF MInv, UniqueInv, AddressInv
<1>9. /\ \A c \in Clients : \A i \in 1..Len(feed'[c]) : feed'[c][i].id <= sent
      /\ \A s \in Senders, c \in Clients : \A i \in 1..Len(feed'[c]) : held[s] # feed'[c][i]
  <2>1. m.id <= sent
    BY <1>1 DEF MInv, UniqueInv
  <2> QED BY <1>4, <1>7, <2>1 DEF MInv, UniqueInv
<1>10. \A f, g \in Hubs : \A i \in 1..Len(queue'[f]), j \in 1..Len(queue'[g]) :
         queue'[f][i] = queue'[g][j] => f = g /\ i = j
  <2> SUFFICES ASSUME NEW f \in Hubs, NEW g \in Hubs, NEW i \in 1..Len(queue'[f]),
                      NEW j \in 1..Len(queue'[g]), queue'[f][i] = queue'[g][j]
               PROVE  f = g /\ i = j
    OBVIOUS
  <2>1. PICK k \in 1..Len(queue[f]) :
          queue'[f][i] = queue[f][k] /\ IF f = h THEN k = i + 1 ELSE k = i
    BY <1>5
  <2>2. PICK l \in 1..Len(queue[g]) :
          queue'[g][j] = queue[g][l] /\ IF g = h THEN l = j + 1 ELSE l = j
    BY <1>5
  <2>3. f = g /\ k = l
    BY <2>1, <2>2 DEF MInv, UniqueInv
  <2>4. i \in Nat /\ j \in Nat
    BY <1>2
  <2> QED BY <2>1, <2>2, <2>3, <2>4
<1>11. \A g \in Hubs, c \in Clients : \A i \in 1..Len(queue'[g]), j \in 1..Len(feed'[c]) :
         queue'[g][i] # feed'[c][j]
  <2> SUFFICES ASSUME NEW g \in Hubs, NEW c \in Clients, NEW i \in 1..Len(queue'[g]),
                      NEW j \in 1..Len(feed'[c])
               PROVE  queue'[g][i] # feed'[c][j]
    OBVIOUS
  <2>1. PICK k \in 1..Len(queue[g]) : queue'[g][i] = queue[g][k] /\ queue[g][k] # m
    BY <1>5
  <2> QED BY <1>4, <2>1 DEF MInv, UniqueInv
<1>12. UniqueInv'
  <2>1. /\ \A s \in Senders : held'[s] # Nil => held'[s].id <= sent'
        /\ \A s, t \in Senders : held'[s] # Nil /\ held'[s] = held'[t] => s = t
        /\ held' = held /\ sent' = sent
    BY DEF MInv, UniqueInv
  <2> QED BY <1>6, <1>8, <1>9, <1>10, <1>11, <2>1 DEF UniqueInv
<1>13. AddressInv'
  <2>1. \A g \in Hubs : phase'[g] = "unborn" => phase[g] = "unborn"
    BY DEF MInv, IInv, TypeOK
  <2> QED BY <1>8, <2>1 DEF MInv, AddressInv
<1> QED BY <1>12, <1>13

\* Every step keeps the messages apart.
LEMMA NextMInv == MInv /\ [Next]_vars => MInv'
<1>1. ASSUME MInv, UNCHANGED vars PROVE AddressInv' /\ UniqueInv'
  BY <1>1, MessagesKept DEF vars, hubVars, serveVars, sendVars, writeVars, senderVars
<1>2. ASSUME MInv, NEW h \in Hubs, OnEmpty(h) PROVE AddressInv' /\ UniqueInv'
  BY <1>2, MessagesKept
  DEF OnEmpty, MInv, IInv, TypeOK, serveVars, sendVars, writeVars, senderVars
<1>3. ASSUME MInv, Next PROVE AddressInv' /\ UniqueInv'
  BY <1>1, <1>2, <1>3, QuietSteps, GetOrCreateMessages, ReadMessages, ForwardMessages, DeliverMessages,
     PublishMessages, PublishSendMessages DEF Next, Quiet
<1> QED BY <1>1, <1>3, NextIInv DEF MInv

LEMMA InitMInv == Init => MInv
<1> SUFFICES ASSUME Init PROVE MInv
  OBVIOUS
<1>1. AddressInv
  BY DEF Init, AddressInv, Attending, Senders
<1>2. UniqueInv
  BY DEF Init, UniqueInv
<1> QED BY <1>1, <1>2, InitIInv DEF MInv

-----------------------------------------------------------------------------
(* Hub implements Room                                                     *)

\* The members of a room that has a running hub are the clients of that hub.
LEMMA RunningRoom ==
  ASSUME IInv, NEW h \in Hubs, phase[h] = "running"
  PROVE  /\ room[h] \in Entities
         /\ \A g \in Hubs : g # h /\ room[g] = room[h] => clients[g] = {}
         /\ RoomMembers[room[h]] = clients[h]
<1>1. room[h] \in Entities /\ hubs[room[h]] = h
  BY DEF IInv, ManagerInv
<1>2. ASSUME NEW g \in Hubs, g # h, room[g] = room[h] PROVE clients[g] = {}
  <2>1. phase[g] # "running"
    BY <1>1, <1>2 DEF IInv, ManagerInv
  <2>2. phase[g] \in {"unborn", "running", "stopped", "gone"}
    BY DEF IInv, TypeOK
  <2> QED BY <2>1, <2>2 DEF IInv, HubInv, Stopped
<1>3. RoomMembers[room[h]] = UNION {clients[g] : g \in {f \in Hubs : room[f] = room[h]}}
  BY <1>1 DEF RoomMembers
<1> QED BY <1>1, <1>2, <1>3

\* When the map of one hub of a room changes, the members of that room do.
LEMMA RoomMembersChange ==
  ASSUME IInv, NEW h \in Hubs, phase[h] = "running", NEW S, clients' = [clients EXCEPT ![h] = S],
         UNCHANGED room
  PROVE  RoomMembers' = [RoomMembers EXCEPT ![room[h]] = S]
<1>1. /\ room[h] \in Entities
      /\ \A g \in Hubs : g # h /\ room[g] = room[h] => clients[g] = {}
  BY RunningRoom
<1>2. clients'[h] = S /\ \A g \in Hubs : g # h => clients'[g] = clients[g]
  BY DEF IInv, TypeOK
<1> DEFINE Of(e) == {g \in Hubs : room[g] = e}
<1>3. UNION {clients'[g] : g \in Of(room[h])} = S
  BY <1>1, <1>2
<1>4. ASSUME NEW e \in Entities, e # room[h]
      PROVE  UNION {clients'[g] : g \in Of(e)} = UNION {clients[g] : g \in Of(e)}
  BY <1>2, <1>4
<1>5. RoomMembers' = [e \in Entities |-> UNION {clients'[g] : g \in Of(e)}]
  BY DEF RoomMembers
<1>6. RoomMembers = [e \in Entities |-> UNION {clients[g] : g \in Of(e)}]
  BY DEF RoomMembers
<1> HIDE DEF Of
<1> QED BY <1>1, <1>3, <1>4, <1>5, <1>6

\* Register is Join.
LEMMA RegisterJoins ==
  ASSUME MInv, NEW c \in Clients, Register(c)
  PROVE  R!Next
<1> DEFINE h == hubOf[c]
           e == room[h]
<1>1. /\ h \in Hubs /\ phase[h] = "running" /\ serve[c] = "register" /\ UNCHANGED <<room, feed>>
      /\ clients' = [clients EXCEPT ![h] = clients[h] \cup {c}]
  BY DEF Register, MInv, IInv, ServeInv, sendVars
<1>2. e \in Entities /\ RoomMembers[e] = clients[h]
  BY <1>1, RunningRoom DEF MInv
<1>3. RoomMembers' = [RoomMembers EXCEPT ![e] = RoomMembers[e] \cup {c}]
  BY <1>1, <1>2, RoomMembersChange DEF MInv
<1>4. feed[c] = <<>>
  BY <1>1 DEF MInv, UniqueInv
<1>5. \A g \in Hubs : c \notin clients[g]
  BY <1>1 DEF MInv, IInv, ClientInv
<1>6. \A x \in Entities : c \notin RoomMembers[x]
  BY <1>5 DEF RoomMembers
<1>7. R!Join(c, e)
  BY <1>1, <1>3, <1>4, <1>6 DEF R!Join
<1> QED BY <1>2, <1>7 DEF R!Next

\* Unregister is Leave, or nothing for a client that was thrown out before.
LEMMA UnregisterLeaves ==
  ASSUME MInv, NEW c \in Clients, Unregister(c)
  PROVE  R!Next \/ UNCHANGED R!roomVars
<1> DEFINE h == hubOf[c]
           e == room[h]
<1>1. /\ h \in Hubs /\ phase[h] = "running" /\ UNCHANGED <<room, feed>>
      /\ clients' = [clients EXCEPT ![h] = clients[h] \ {c}]
  BY DEF Unregister, Settle, MInv, IInv, ServeInv, ClientInv
<1>2. e \in Entities /\ RoomMembers[e] = clients[h]
  BY <1>1, RunningRoom DEF MInv
<1>3. RoomMembers' = [RoomMembers EXCEPT ![e] = RoomMembers[e] \ {c}]
  BY <1>1, <1>2, RoomMembersChange DEF MInv
<1>4. CASE c \in RoomMembers[e]
  BY <1>1, <1>2, <1>3, <1>4 DEF R!Next, R!Leave
<1>5. CASE c \notin RoomMembers[e]
  <2>1. RoomMembers' = RoomMembers
    BY <1>2, <1>3, <1>5 DEF RoomMembers
  <2> QED BY <1>1, <2>1 DEF R!roomVars
<1> QED BY <1>4, <1>5

\* Deliver is Publish: everybody in the room who is not thrown out is handed the
\* message, and nobody had it.
LEMMA DeliverPublishes ==
  ASSUME MInv, NEW h \in Hubs, Deliver(h)
  PROVE  R!Next
<1> DEFINE m == Head(queue[h])
           e == room[h]
           slow == clients[h] \ Ready(h)
<1>1. /\ phase[h] = "running" /\ UNCHANGED room
      /\ clients' = [clients EXCEPT ![h] = Ready(h)]
      /\ feed' = [c \in Clients |-> IF c \in Ready(h) THEN Append(feed[c], m) ELSE feed[c]]
      /\ Ready(h) \subseteq clients[h]
  BY DEF Deliver, Settle, Ready
<1>2. e \in Entities /\ RoomMembers[e] = clients[h]
  BY <1>1, RunningRoom DEF MInv
<1>3. RoomMembers' = [RoomMembers EXCEPT ![e] = Ready(h)]
  BY <1>1, RoomMembersChange DEF MInv
<1>4. Ready(h) = RoomMembers[e] \ slow
  BY <1>1, <1>2
<1>5. m \in Messages /\ 1 \in 1..Len(queue[h]) /\ m = queue[h][1]
  BY DEF Deliver, MInv, IInv, TypeOK
<1>6. m.entity = e
  BY <1>5 DEF MInv, AddressInv
<1>7. \A c \in Clients : m \notin R!HandedTo(c)
  BY <1>5 DEF MInv, UniqueInv, R!HandedTo
<1> HIDE DEF m, slow
<1>8. R!Publish(e, m, slow)
  BY <1>1, <1>3, <1>4, <1>6, <1>7 DEF R!Publish
<1>9. slow \in SUBSET RoomMembers[e]
  BY <1>2 DEF slow
<1> QED BY <1>2, <1>5, <1>8, <1>9 DEF R!Next

\* Nobody sees the other steps: a hub that is created is empty.
LEMMA OthersStutter ==
  ASSUME MInv,
         \/ \E c \in Clients :
              \/ \E e \in Entities : Connect(c, e)
              \/ \E h \in Hubs : GetOrCreate(c, h)
              \/ RegisterFails(c) \/ StartPumps(c) \/ LeaveStopped(c)
              \/ Write(c) \/ WriteFails(c) \/ PingFails(c) \/ WriteClose(c)
              \/ PeerLeaves(c) \/ Read(c) \/ ReadFails(c) \/ Forward(c)
         \/ \E h \in Hubs : OnEmpty(h)
         \/ \E p \in Publishers : PublishSend(p) \/ \E e \in Entities : Publish(p, e)
         \/ UNCHANGED vars
  PROVE  UNCHANGED R!roomVars
<1>1. CASE UNCHANGED <<room, clients, feed>>
  BY <1>1 DEF R!roomVars, RoomMembers
<1>2. ASSUME NEW c \in Clients, NEW h \in Hubs, GetOrCreate(c, h)
      PROVE  UNCHANGED R!roomVars
  <2>1. CASE phase[h] = "unborn"
    <3>1. clients[h] = {} /\ UNCHANGED <<clients, feed>>
          /\ \A g \in Hubs : g # h => room'[g] = room[g]
      BY <1>2, <2>1 DEF GetOrCreate, MInv, IInv, HubInv, TypeOK, sendVars
    <3>2. \A e \in Entities : UNION {clients[g] : g \in {f \in Hubs : room'[f] = e}}
                             = UNION {clients[g] : g \in {f \in Hubs : room[f] = e}}
      BY <3>1
    <3> QED BY <3>1, <3>2 DEF R!roomVars, RoomMembers
  <2>2. CASE phase[h] # "unborn"
    BY <1>1, <1>2, <2>2 DEF GetOrCreate, sendVars
  <2> QED BY <2>1, <2>2
<1> QED
  BY <1>1, <1>2 DEF Connect, RegisterFails, StartPumps, LeaveStopped, Write, WriteFails, PingFails,
    WriteClose, PeerLeaves, Read, ReadFails, Forward, OnEmpty, PublishSend, Publish, vars,
    hubVars, sendVars

LEMMA StepImplements == MInv /\ [Next]_vars => [R!Next]_(R!roomVars)
BY RegisterJoins, UnregisterLeaves, DeliverPublishes, OthersStutter DEF Next, Quiet

LEMMA InitImplements == Init => R!Init
BY DEF Init, R!Init, RoomMembers

-----------------------------------------------------------------------------
\* IInv is an invariant of the hub, whatever the constants.
THEOREM Invariance == Spec => []IInv
  BY InitIInv, NextIInv, PTL DEF Spec

\* Every variable of the hub stays in its type.
THEOREM TypeCorrect == Spec => []TypeOK
<1>1. IInv => TypeOK
  BY DEF IInv
<1> QED BY <1>1, Invariance, PTL

\* No send channel is closed twice or written to after it was closed: the hub
\* goroutine never panics, for any number of clients and any interleaving of
\* eviction and unregister.
THEOREM ChannelSafety == Spec => []NoPanic
<1>1. IInv => NoPanic
  BY DEF IInv, ClientInv, NoPanic
<1> QED BY <1>1, Invariance, PTL

\* A served client's channel is open exactly while its hub lists it.
THEOREM MembershipSafety == Spec => []OpenIffMember
<1>1. IInv => OpenIffMember
  BY DEF IInv, TypeOK, ClientInv, OpenIffMember
<1> QED BY <1>1, Invariance, PTL

\* An entity never has two running hubs, and the running one is the one that
\* GetOrCreate and HubManager.Broadcast find.
THEOREM RoomSafety == Spec => []RunningHubIsMapped
<1>1. IInv => RunningHubIsMapped
  BY DEF IInv, ManagerInv, RunningHubIsMapped
<1> QED BY <1>1, Invariance, PTL

\* A hub stops exactly when it loses its last client.
THEOREM StopSafety == Spec => []EmptyIffStopped
<1>1. IInv => EmptyIffStopped
  BY DEF IInv, TypeOK, HubInv, EmptyIffStopped, Stopped
<1> QED BY <1>1, Invariance, PTL

\* The test "only remove this exact instance" of onEmpty always succeeds: the
\* entry of a stopped hub is not replaced before onEmpty has run.
THEOREM RemovalSafety == Spec => []StoppedHubStaysMapped
<1>1. IInv => StoppedHubStaysMapped
  BY DEF IInv, ManagerInv, StoppedHubStaysMapped
<1> QED BY <1>1, Invariance, PTL

\* The hub implements one room per entity, for every number of hubs, clients and
\* messages: hubs that stop, are found while they stop and are replaced never split
\* a room, and two of its members see the same messages in the same order, each
\* once, with no gap and nothing of another room.
THEOREM HubImplementsRoom == Spec => ImplementsRoom
BY InitMInv, NextMInv, InitImplements, StepImplements, PTL DEF Spec, R!Spec, ImplementsRoom
=============================================================================
