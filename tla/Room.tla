-------------------------------- MODULE Room --------------------------------
(***************************************************************************)
(* What the WebSocket hub promises to the services that use it, without    *)
(* hubs, channels or pumps: every entity has one room; a message published *)
(* in a room is handed, in one step, to everybody who is in the room,      *)
(* except those the step throws out for being slow; a connection joins at  *)
(* most one room, once, and never comes back.  So the members of a room    *)
(* see the same messages in the same order, each at most once, with no gap *)
(* between joining and leaving, and nothing of another room.               *)
(***************************************************************************)
EXTENDS Naturals, Sequences

CONSTANTS Entities, Clients, Messages

VARIABLES
  members,   \* the clients in the room of each entity
  feed       \* what each client has been handed, in order

roomVars == <<members, feed>>

Init ==
  /\ members = [e \in Entities |-> {}]
  /\ feed = [c \in Clients |-> <<>>]

HandedTo(c) == {feed[c][i] : i \in 1..Len(feed[c])}

\* A client is a newcomer to every room: it is in none, and has seen nothing.
Join(c, e) ==
  /\ \A x \in Entities : c \notin members[x]
  /\ feed[c] = <<>>
  /\ members' = [members EXCEPT ![e] = @ \cup {c}]
  /\ UNCHANGED feed

Leave(c, e) ==
  /\ c \in members[e]
  /\ members' = [members EXCEPT ![e] = @ \ {c}]
  /\ UNCHANGED feed

\* m is new to everybody; slow are the members thrown out instead of served.
Publish(e, m, slow) ==
  /\ m.entity = e
  /\ \A c \in Clients : m \notin HandedTo(c)
  /\ feed' = [c \in Clients |-> IF c \in members[e] \ slow THEN Append(feed[c], m)
                                ELSE feed[c]]
  /\ members' = [members EXCEPT ![e] = @ \ slow]

Next ==
  \E e \in Entities :
    \/ \E c \in Clients : Join(c, e) \/ Leave(c, e)
    \/ \E m \in Messages, slow \in SUBSET members[e] : Publish(e, m, slow)

Spec == Init /\ [][Next]_roomVars
=============================================================================
