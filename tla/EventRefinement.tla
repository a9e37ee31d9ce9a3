-------------------------- MODULE EventRefinement --------------------------
(***************************************************************************)
(* The refinement mapping from EventVotes to VoteTally, and the inductive  *)
(* invariants that the proofs of EventVotesProofs use and TLC checks first.*)
(***************************************************************************)
EXTENDS EventVotes

Tally == INSTANCE VoteTally WITH queue <- live, ballots <- votes, count <- voteCount

\* Every commit is one operation on the tally (Tally!Spec): what overlapping
\* votes, suggestions, deletions and rollbacks leave is what they would leave
\* one after the other.
ImplementsTally == Tally!Spec

-----------------------------------------------------------------------------
(* The inductive invariant, one part per concern.                          *)

\* The row of events, stored or fetched, satisfies what validateLicense demands
\* of the body of every request.
SettingsInv ==
  /\ event # Nil => ValidLicense(event)
  /\ \A q \in Requests :
       /\ seen[q] # Nil => ValidLicense(seen[q])
       /\ pc[q] \notin {"idle", "done"} => seen[q] # Nil

\* Only votes get to the voting transaction, each for a track that has been
\* there, and only suggestions to the INSERT; a request that is accepted has
\* ended.
RequestInv ==
  \A q \in Requests :
    /\ track[q] \in suggested \cup {Nil}
    /\ pc[q] \in {"find", "ballot", "increment", "commit"} => q \in Voters
    /\ pc[q] = "add" => q \in Suggesters
    /\ q \in Voters /\ pc[q] \notin {"idle", "done"} => track[q] # Nil
    /\ outcome[q] \in {"ok", "unknown"} => pc[q] = "done" /\ (q \in Voters => track[q] # Nil)

\* What an open voting transaction holds: its track, a ballot that nobody else
\* holds or has cast, and once it has locked the row of the track the next count.
\* A track that is not in the queue has no count.
BallotInv ==
  /\ \A q \in Voters : InTransaction(q) => track[q] \in live /\ BallotOf(q) \notin votes
  /\ \A q, r \in Voters :
       InTransaction(q) /\ InTransaction(r) /\ BallotOf(q) = BallotOf(r) => q = r
  /\ \A q \in Voters : pc[q] = "commit" => next[q] = voteCount[track[q]] + 1
  /\ \A q, r \in Voters : pc[q] = "commit" /\ pc[r] = "commit" /\ track[q] = track[r] => q = r
  /\ \A t \in Tracks \ live : voteCount[t] = 0

VInv == TypeOK /\ SettingsInv /\ RequestInv /\ BallotInv /\ CountExact /\ AcceptedOnce

-----------------------------------------------------------------------------
\* A request under way knows the settings it has fetched, and has begun in the
\* past.  Past the licence check these settings admit its caller, as they still
\* do when the owner has invited others or time has passed.  With the event its
\* queue and its invitations go.
LicenseInv ==
  /\ known \in [Requests -> SUBSET Settings] /\ began \in [Requests -> 0..MaxClock]
  /\ event = Nil => live = {}
  /\ \A q \in Requests :
       /\ pc[q] \notin {"idle", "done"} => seen[q] \in known[q] /\ began[q] <= clock
       /\ pc[q] = "invitation" => seen[q].license = 1
       /\ pc[q] \in {"add", "find", "ballot", "increment", "commit"} =>
            event = Nil \/ Caller[q] = Owner \/ Admits(seen[q], q)
=============================================================================
