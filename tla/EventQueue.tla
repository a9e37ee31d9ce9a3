----------------------------- MODULE EventQueue -----------------------------
(***************************************************************************)
(* The live queue of one event, from the vote to the screens: the handler  *)
(* of a vote broadcasts the queue after the vote has been committed        *)
(* (handler/track.go), the hub passes it on to the members of the event's  *)
(* room (Room), and the client application shows it, together with the     *)
(* votes it has sent and not heard of (EventQueueNotifier of               *)
(* lib/features/track_vote/event_queue_provider.dart).                     *)
(*                                                                         *)
(* The database is the tally of VoteTally, which EventVotes implements: a  *)
(* vote is one step, refused or cast.                                      *)
(***************************************************************************)
EXTENDS VoteTally, Integers, Sequences, FiniteSets

CONSTANTS
  Requests,  \* POST .../vote: one tap on the vote button each
  Caller,    \* Caller[q]: the user who taps
  Nil,       \* nothing (yet)
  Sent,      \* a request without an answer
  Restless   \* bound: the users who open, close and reload the screen

ASSUME QueueAssumption ==
  /\ Caller \in [Requests -> Users]
  /\ IsFiniteSet(Users) /\ IsFiniteSet(Requests)
  /\ Restless \subseteq Users

VARIABLES
  pc,        \* where the handler of request q is; "silent": answered without
             \* a broadcast, "failed": answered with an error
  track,     \* the track it is about
  fetched,   \* the queue it has read for its broadcast
  tapped,    \* the notifier that sent q is alive and waits for the answer
  messages,  \* queue_update messages in the hub, oldest first
  members,   \* users whose connection is in the room
  inbox,     \* messages on their way to a user
  open,      \* users who have the event on the screen
  load,      \* GET .../queue of a user: Nil, Sent, or the answer
  base,      \* the queue the server last told a user, Nil: none yet
  view       \* the state of the notifier: the queue shown, Nil: none yet

tallyVars == <<queue, ballots, count>>
handlerVars == <<pc, track, fetched>>
hubVars == <<messages, members, inbox>>
screenVars == <<open, load, base, view>>
vars == <<tallyVars, handlerVars, tapped, hubVars, screenVars>>

\* A queue as sent and shown: the tracks with their votes.
Queues == UNION {[S -> 0..Cardinality(Users)] : S \in SUBSET Tracks}

\* What GetQueue returns now.
Snapshot == [t \in queue |-> count[t]]

TypeOK ==
  /\ queue \in SUBSET Tracks /\ ballots \in SUBSET (Tracks \X Users)
  /\ count \in [Tracks -> 0..Cardinality(Users)]
  /\ pc \in [Requests -> {"idle", "posted", "cast", "fetch", "publish", "answered",
                          "silent", "failed"}]
  /\ track \in [Requests -> Tracks \cup {Nil}]
  /\ fetched \in [Requests -> Queues \cup {Nil}]
  /\ tapped \in [Requests -> BOOLEAN]
  /\ messages \in Seq(Queues)
  /\ open \in SUBSET Users /\ members \in SUBSET open
  /\ inbox \in [Users -> Seq(Queues)]
  /\ load \in [Users -> Queues \cup {Nil, Sent}]
  /\ base \in [Users -> Queues \cup {Nil}]
  /\ \A u \in Users : view[u] # Nil =>
       DOMAIN view[u] \subseteq Tracks /\ \A t \in DOMAIN view[u] : view[u][t] \in Nat

\* The users in O have had the event on the screen for a while.
InitWith(O) ==
  /\ queue = Tracks /\ ballots = {} /\ count = [t \in Tracks |-> 0]
  /\ pc = [q \in Requests |-> "idle"]
  /\ track = [q \in Requests |-> Nil]
  /\ fetched = [q \in Requests |-> Nil]
  /\ tapped = [q \in Requests |-> FALSE]
  /\ messages = <<>>
  /\ members = O /\ open = O
  /\ inbox = [u \in Users |-> <<>>]
  /\ load = [u \in Users |-> Nil]
  /\ base = [u \in Users |-> IF u \in O THEN Snapshot ELSE Nil]
  /\ view = base

QueueInit == InitWith(Users) \/ InitWith(Users \ Restless)

Goto(q, label) == pc' = [pc EXCEPT ![q] = label]

-----------------------------------------------------------------------------
(* The handler                                                             *)

\* svc.Vote: the vote is cast, or refused (licence, no such track, already
\* voted) or fails.
Vote(q) ==
  /\ pc[q] = "posted"
  /\ \/ Cast(track[q], Caller[q]) /\ Goto(q, "cast")
     \/ UNCHANGED tallyVars /\ Goto(q, "failed")
  /\ UNCHANGED <<track, fetched, tapped, hubVars, screenVars>>

\* broadcastQueue asks the manager whether somebody is watching.
CheckHub(q) ==
  /\ pc[q] = "cast"
  /\ Goto(q, IF members = {} THEN "silent" ELSE "fetch")
  /\ UNCHANGED <<tallyVars, track, fetched, tapped, hubVars, screenVars>>

\* It reads the queue; if that fails there is no broadcast.
FetchQueue(q) ==
  /\ pc[q] = "fetch"
  /\ \/ fetched' = [fetched EXCEPT ![q] = Snapshot] /\ Goto(q, "publish")
     \/ UNCHANGED fetched /\ Goto(q, "silent")
  /\ UNCHANGED <<tallyVars, track, tapped, hubVars, screenVars>>

\* Mutant: the message is dropped when the hub is busy.
PublishUnlessBusy(q) ==
  /\ pc[q] = "publish"
  /\ messages' = IF messages # <<>> \/ members = {} THEN messages
                 ELSE Append(messages, fetched[q])
  /\ fetched' = [fetched EXCEPT ![q] = Nil]
  /\ Goto(q, "answered")
  /\ UNCHANGED <<tallyVars, track, tapped, members, inbox, screenVars>>

\* HubManager.Broadcast; with nobody left in the room it has no effect.
Publish(q) ==
  /\ pc[q] = "publish"
  /\ messages' = IF members = {} THEN messages ELSE Append(messages, fetched[q])
  /\ fetched' = [fetched EXCEPT ![q] = Nil]
  /\ Goto(q, "answered")
  /\ UNCHANGED <<tallyVars, track, tapped, members, inbox, screenVars>>

\* The owner deletes a track; nobody is told.
DeleteTrack(t) ==
  /\ t \in queue
  /\ Discard({t})
  /\ UNCHANGED <<handlerVars, tapped, hubVars, screenVars>>

-----------------------------------------------------------------------------
(* The room                                                                *)

\* Hub.run hands the oldest message to the members.
Deliver ==
  /\ messages # <<>>
  /\ messages' = Tail(messages)
  /\ inbox' = [u \in Users |-> IF u \in members THEN Append(inbox[u], Head(messages))
                               ELSE inbox[u]]
  /\ UNCHANGED <<tallyVars, handlerVars, tapped, members, screenVars>>

\* The WebSocket of a screen is connected.
Connect(u) ==
  /\ u \in open \ members
  /\ members' = members \cup {u}
  /\ UNCHANGED <<tallyVars, handlerVars, tapped, messages, inbox, screenVars>>

\* A connection ends with what was on its way; the hub that loses its last
\* member stops, and the messages it holds are lost.
Disconnect(U) ==
  /\ members' = members \ U
  /\ inbox' = [u \in Users |-> IF u \in U THEN <<>> ELSE inbox[u]]
  /\ messages' = IF members \subseteq U THEN <<>> ELSE messages

Lose(u) ==
  /\ u \in members
  /\ Disconnect({u})
  /\ UNCHANGED <<tallyVars, handlerVars, tapped, screenVars>>

-----------------------------------------------------------------------------
(* The application                                                         *)

\* The screen is opened: build() asks for the queue.
Open(u) ==
  /\ u \notin open
  /\ open' = open \cup {u}
  /\ load' = [load EXCEPT ![u] = Sent]
  /\ UNCHANGED <<tallyVars, handlerVars, tapped, hubVars, base, view>>

\* The screen is closed: the connection ends and the notifier is disposed.
Close(u) ==
  /\ u \in open
  /\ open' = open \ {u}
  /\ load' = [load EXCEPT ![u] = Nil]
  /\ base' = [base EXCEPT ![u] = Nil]
  /\ view' = [view EXCEPT ![u] = Nil]
  /\ tapped' = [q \in Requests |-> tapped[q] /\ Caller[q] # u]
  /\ Disconnect({u})
  /\ UNCHANGED <<tallyVars, handlerVars>>

\* ref.invalidate(eventQueueProvider): build() is run again, the result of a
\* run under way is dropped.
Refresh(u) ==
  /\ u \in open
  /\ load' = [load EXCEPT ![u] = Sent]
  /\ UNCHANGED <<tallyVars, handlerVars, tapped, hubVars, open, base, view>>

\* The server answers GET .../queue.
AnswerLoad(u) ==
  /\ load[u] = Sent
  /\ load' = [load EXCEPT ![u] = Snapshot]
  /\ UNCHANGED <<tallyVars, handlerVars, tapped, hubVars, open, base, view>>

\* Both the end of build() and applyUpdate replace what is shown.
Show(u, tracks) ==
  /\ base' = [base EXCEPT ![u] = tracks]
  /\ view' = [view EXCEPT ![u] = tracks]

EndLoad(u) ==
  /\ load[u] \notin {Nil, Sent}
  /\ Show(u, load[u])
  /\ load' = [load EXCEPT ![u] = Nil]
  /\ UNCHANGED <<tallyVars, handlerVars, tapped, hubVars, open>>

ApplyUpdate(u) ==
  /\ inbox[u] # <<>>
  /\ Show(u, Head(inbox[u]))
  /\ inbox' = [inbox EXCEPT ![u] = Tail(@)]
  /\ UNCHANGED <<tallyVars, handlerVars, tapped, messages, members, open, load>>

\* Mutant: no lower bound.
AdjustUnbounded(u, t, delta) ==
  view' = [view EXCEPT ![u] = [s \in DOMAIN @ |-> IF s # t THEN @[s] ELSE @[s] + delta]]

\* _adjust: a track that is not shown any more is left alone, and no count
\* gets below zero.
Adjust(u, t, delta) ==
  view' = [view EXCEPT ![u] =
             [s \in DOMAIN @ |-> IF s # t THEN @[s]
                                 ELSE IF @[s] + delta < 0 THEN 0 ELSE @[s] + delta]]

\* upvote: the count goes up and the request leaves, one at a time per track.
Upvote(q, t) ==
  LET u == Caller[q] IN
  /\ pc[q] = "idle"
  /\ view[u] # Nil /\ t \in DOMAIN view[u]
  /\ \A r \in Requests : tapped[r] => Caller[r] # u \/ track[r] # t
  /\ Adjust(u, t, 1)
  /\ track' = [track EXCEPT ![q] = t]
  /\ tapped' = [tapped EXCEPT ![q] = TRUE]
  /\ Goto(q, "posted")
  /\ UNCHANGED <<tallyVars, fetched, hubVars, open, load, base>>

\* 200 "vote cast"
UpvoteDone(q) ==
  /\ tapped[q] /\ pc[q] \in {"answered", "silent"}
  /\ tapped' = [tapped EXCEPT ![q] = FALSE]
  /\ UNCHANGED <<tallyVars, handlerVars, hubVars, screenVars>>

\* Mutant: the error is classified and returned before the revert.
UpvoteFailedEarly(q) ==
  /\ tapped[q]
  /\ tapped' = [tapped EXCEPT ![q] = FALSE]
  /\ UNCHANGED <<tallyVars, handlerVars, hubVars, screenVars>>

\* Any DioException: an error status, or no answer (in time) from a handler
\* that may still be running or may have cast the vote.
UpvoteFailed(q) ==
  /\ tapped[q]
  /\ Adjust(Caller[q], track[q], -1)
  /\ tapped' = [tapped EXCEPT ![q] = FALSE]
  /\ UNCHANGED <<tallyVars, handlerVars, hubVars, open, load, base>>

-----------------------------------------------------------------------------
Handle(q) == Vote(q) \/ CheckHub(q) \/ FetchQueue(q) \/ Publish(q)

\* Nothing is under way.
Still ==
  /\ messages = <<>> /\ \A u \in Users : inbox[u] = <<>> /\ load[u] = Nil
  /\ \A q \in Requests : ~tapped[q] /\ pc[q] \in {"idle", "answered", "silent", "failed"}
  /\ UNCHANGED vars

QueueNext ==
  \/ \E q \in Requests : Handle(q) \/ UpvoteDone(q) \/ UpvoteFailed(q)
                        \/ \E t \in Tracks : Upvote(q, t)
  \/ \E t \in Tracks : DeleteTrack(t)
  \/ Deliver
  \/ \E u \in Restless : Connect(u) \/ Lose(u) \/ Open(u) \/ Close(u) \/ Refresh(u)
  \/ \E u \in Users : AnswerLoad(u) \/ EndLoad(u) \/ ApplyUpdate(u)
  \/ Still

\* Handlers and the hub run, what has arrived is applied; users are free.
QueueSpec == QueueInit /\ [][QueueNext]_vars
FairQueueSpec ==
  /\ QueueSpec
  /\ \A q \in Requests : WF_vars(Handle(q))
  /\ WF_vars(Deliver)
  /\ \A u \in Users : WF_vars(ApplyUpdate(u))

-----------------------------------------------------------------------------
(* Properties                                                              *)

InFlight(u, t) == {q \in Requests : tapped[q] /\ Caller[q] = u /\ track[q] = t}

\* No phantom votes: a screen never shows more votes than have been cast, its
\* own vote apart while it waits for the answer, in whatever order updates,
\* reloads and answers arrive.
NoPhantomVotes ==
  \A u \in Users, t \in queue :
    view[u] # Nil /\ t \in DOMAIN view[u]
      => view[u][t] <= count[t] + Cardinality(InFlight(u, t))

\* Every member of the room gets to see a vote: a queue with it arrives, unless
\* the connection ends, the track is deleted, or the broadcast was given up.
VotesArrive ==
  \A q \in Requests, u \in Users, n \in 1..Cardinality(Users) :
    LET t == track[q] IN
    pc[q] = "cast" /\ u \in members /\ count[t] = n
      ~> \/ u \notin members \/ t \notin queue \/ pc[q] = "silent"
         \/ base[u] # Nil /\ t \in DOMAIN base[u] /\ base[u][t] >= n

\* When all votes have been handled and all updates have arrived, everybody in
\* the room has been sent the queue with all the votes.
WatchersUpToDate ==
  /\ messages = <<>> /\ \A u \in Users : inbox[u] = <<>>
  /\ \A q \in Requests : pc[q] \in {"idle", "answered", "failed"}
  => \A u \in members, t \in queue : base[u][t] = count[t]
=============================================================================
