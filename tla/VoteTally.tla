----------------------------- MODULE VoteTally -----------------------------
(***************************************************************************)
(* What the queue of an event promises: tracks are suggested and removed,  *)
(* every user has one ballot per track, and a track's count goes up by one *)
(* with each ballot.  Every operation is atomic.                           *)
(***************************************************************************)
EXTENDS Naturals

CONSTANTS Tracks, Users

VARIABLES
  queue,    \* the tracks in the queue
  ballots,  \* <<t, u>>: u has voted for t
  count     \* the number displayed for a track

Init ==
  /\ queue \in SUBSET Tracks
  /\ ballots = {}
  /\ count = [t \in Tracks |-> 0]

Suggest(t) ==
  /\ t \notin queue
  /\ queue' = queue \cup {t}
  /\ UNCHANGED <<ballots, count>>

Cast(t, u) ==
  /\ t \in queue /\ <<t, u>> \notin ballots
  /\ ballots' = ballots \cup {<<t, u>>}
  /\ count' = [count EXCEPT ![t] = @ + 1]
  /\ UNCHANGED queue

\* Tracks go with their ballots: one track, or the whole event.
Discard(S) ==
  /\ queue' = queue \ S
  /\ ballots' = {b \in ballots : b[1] \notin S}
  /\ count' = [t \in Tracks |-> IF t \in S THEN 0 ELSE count[t]]

Next ==
  \/ \E t \in Tracks : Suggest(t) \/ Discard({t}) \/ \E u \in Users : Cast(t, u)
  \/ Discard(queue)

Spec == Init /\ [][Next]_<<queue, ballots, count>>
=============================================================================
