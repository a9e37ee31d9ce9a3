------------------------------ MODULE HubRoom ------------------------------
(***************************************************************************)
(* The refinement mapping from Hub to Room, and the inductive invariant of *)
(* Hub that the proofs of HubProofs use and TLC checks first.              *)
(***************************************************************************)
EXTENDS Hub

\* Members of an entity's room: everybody in the map of any hub created for it.
RoomMembers == [e \in Entities |-> UNION {clients[h] : h \in {g \in Hubs : room[g] = e}}]

R == INSTANCE Room WITH members <- RoomMembers

\* The hub implements one room per entity (R!Spec): hubs that stop, are looked
\* up while they stop, and are replaced never split a room, reorder, repeat
\* or skip a message between two of a client's, or leak one to another room.
ImplementsRoom == R!Spec

-----------------------------------------------------------------------------
(* The inductive invariant, one part per component.                        *)

\* The manager and the hubs that have not returned are in one-to-one
\* correspondence, by the entity.
ManagerInv ==
  /\ \A e \in Entities : hubs[e] # Nil =>
       phase[hubs[e]] \in {"running", "stopped"} /\ room[hubs[e]] = e
  /\ \A h \in Hubs : phase[h] \in {"running", "stopped"} =>
       room[h] \in Entities /\ hubs[room[h]] = h

\* A hub's map agrees with its phase and its hadClients.
HubInv ==
  \A h \in Hubs :
    /\ Stopped(h) => hadClients[h] /\ clients[h] = {}
    /\ phase[h] = "unborn" => ~hadClients[h]
    /\ phase[h] = "running" /\ hadClients[h] => clients[h] # {}
    /\ ~hadClients[h] => clients[h] = {}

\* A client is in the map of its own hub or of none, and its send channel is
\* open while ServeWS still holds it and as long as it is in the map.
ClientInv ==
  \A c \in Clients :
    /\ \A h \in Hubs : c \in clients[h] =>
         /\ serve[c] \in {"registered", "serving"}
         /\ hubOf[c] = h
         /\ sendCh[c] = "open"
    /\ serve[c] \in {"registered", "serving"} =>
         /\ hubOf[c] \in Hubs
         /\ sendCh[c] = "open" => c \in clients[hubOf[c]]
    /\ serve[c] \in {"idle", "lookup", "register", "refused"} => sendCh[c] = "open"
    /\ sendCh[c] # "panic"

\* What ServeWS and the pumps know about their client.
ServeInv ==
  \A c \in Clients :
    /\ serve[c] # "idle" => entity[c] \in Entities
    /\ serve[c] = "register" => hubOf[c] \in Hubs
    /\ serve[c] = "idle" => attempt[c] = 0
    /\ serve[c] = "lookup" => attempt[c] < 2
    /\ reader[c] # "off" => serve[c] = "serving"
    /\ reader[c] = "forwarding" => held[c] # Nil

IInv == TypeOK /\ ManagerInv /\ HubInv /\ ClientInv /\ ServeInv
=============================================================================
