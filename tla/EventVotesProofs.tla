-------------------------- MODULE EventVotesProofs --------------------------
(***************************************************************************)
(* The votes of an event are counted exactly, for every set of users,      *)
(* tracks and requests, every settings and every update of them: proofs    *)
(* that VInv is inductive, that it implies the invariants the runs check,  *)
(* and that every step of EventVotes is a step of VoteTally or none.       *)
(***************************************************************************)
EXTENDS EventRefinement, FiniteSetTheorems, TLAPS

BallotsFor(t) == {b \in votes : b[1] = t}

-----------------------------------------------------------------------------
(* Counting                                                                *)

\* There are as many possible votes for a track as users.
LEMMA PossibleBallots ==
  ASSUME NEW t
  PROVE  IsFiniteSet({t} \X Users) /\ Cardinality({t} \X Users) = Cardinality(Users)
<1>1. IsFiniteSet({t}) /\ Cardinality({t}) = 1
  BY FS_Singleton
<1>2. IsFiniteSet(Users) /\ Cardinality(Users) \in Nat
  BY VotesAssumption, FS_CardinalityType
<1>3. /\ IsFiniteSet({t} \X Users)
      /\ Cardinality({t} \X Users) = Cardinality({t}) * Cardinality(Users)
  BY <1>1, <1>2, FS_Product, Zenon
<1>4. Cardinality({t}) * Cardinality(Users) = Cardinality(Users)
  BY <1>1, <1>2
<1> QED BY <1>3, <1>4

\* A track has at most one vote of every user.
LEMMA BallotsBounded ==
  ASSUME TypeOK, NEW t
  PROVE  IsFiniteSet(BallotsFor(t)) /\ Cardinality(BallotsFor(t)) \in Nat
<1>1. BallotsFor(t) \in SUBSET ({t} \X Users)
  BY DEF BallotsFor, TypeOK
<1> QED BY <1>1, PossibleBallots, FS_Subset, FS_CardinalityType

\* As long as a user has not voted for a track, its count is below the bound.
LEMMA RoomForOneMore ==
  ASSUME TypeOK, NEW t, NEW u \in Users, <<t, u>> \notin votes
  PROVE  Cardinality(BallotsFor(t)) + 1 \in 0..Cardinality(Users)
<1> DEFINE B == BallotsFor(t)
<1>1. IsFiniteSet(B) /\ Cardinality(B) \in Nat
  BY BallotsBounded
<1>2. <<t, u>> \notin B
  BY DEF BallotsFor
<1>3. Cardinality(B \cup {<<t, u>>}) = Cardinality(B) + 1
  BY <1>1, <1>2, FS_AddElement
<1>4. B \cup {<<t, u>>} \in SUBSET ({t} \X Users)
  BY DEF BallotsFor, TypeOK
<1>5. Cardinality(B \cup {<<t, u>>}) <= Cardinality(Users)
  <2>1. IsFiniteSet({t} \X Users) /\ Cardinality({t} \X Users) = Cardinality(Users)
    BY PossibleBallots
  <2>2. Cardinality(B \cup {<<t, u>>}) <= Cardinality({t} \X Users)
    BY <1>4, <2>1, FS_Subset, Zenon
  <2> QED BY <2>1, <2>2
<1>6. Cardinality(Users) \in Nat
  BY VotesAssumption, FS_CardinalityType
<1> QED BY <1>1, <1>3, <1>5, <1>6

\* One more vote for t adds one to the votes for t.
LEMMA CastCounts ==
  ASSUME TypeOK, NEW t, NEW u, <<t, u>> \notin votes
  PROVE  Cardinality({b \in votes \cup {<<t, u>>} : b[1] = t}) = Cardinality(BallotsFor(t)) + 1
<1>1. {b \in votes \cup {<<t, u>>} : b[1] = t} = BallotsFor(t) \cup {<<t, u>>}
  BY DEF BallotsFor
<1>2. <<t, u>> \notin BallotsFor(t)
  BY DEF BallotsFor
<1>3. Cardinality(BallotsFor(t) \cup {<<t, u>>}) = Cardinality(BallotsFor(t)) + 1
  BY <1>2, BallotsBounded, FS_AddElement
<1> QED BY <1>1, <1>3

-----------------------------------------------------------------------------
(* Preservation                                                            *)

\* AcceptedOnce is kept as long as the same requests are accepted and none gets
\* out of doubt.
LEMMA SameAccepted ==
  ASSUME AcceptedOnce, votes' = votes, live' = live,
         \A q \in Voters :
           /\ outcome'[q] = "ok" <=> outcome[q] = "ok"
           /\ outcome[q] = "unknown" => outcome'[q] = "unknown"
           /\ outcome[q] \in {"ok", "unknown"} => track'[q] = track[q]
  PROVE  AcceptedOnce'
<1>1. Accepted' = Accepted /\ InDoubt \subseteq InDoubt'
  BY DEF Accepted, InDoubt
<1>2. \A q \in Accepted \cup InDoubt : BallotOf(q)' = BallotOf(q)
  BY DEF Accepted, InDoubt, BallotOf
<1>3. {BallotOf(q) : q \in Accepted}' = {BallotOf(q) : q \in Accepted}
  BY <1>1, <1>2
<1>4. {BallotOf(q) : q \in Accepted \cup InDoubt} \subseteq {BallotOf(q) : q \in Accepted \cup InDoubt}'
  BY <1>1, <1>2
<1> QED BY <1>1, <1>2, <1>3, <1>4 DEF AcceptedOnce

\* VInv holds when the event has been created.
LEMMA InitVInv == Init => VInv
<1> SUFFICES ASSUME Init PROVE VInv
  OBVIOUS
<1> USE VotesAssumption DEF Init
<1>1. TypeOK
  <2>1. Cardinality(Users) \in Nat
    BY FS_CardinalityType
  <2> QED BY <2>1 DEF TypeOK, Requests
<1>2. SettingsInv /\ RequestInv
  BY DEF SettingsInv, RequestInv
<1>3. BallotInv
  BY DEF BallotInv, InTransaction, Requests
<1>4. CountExact
  BY FS_EmptySet DEF CountExact
<1>5. AcceptedOnce
  BY DEF AcceptedOnce, Accepted, InDoubt, Requests
<1> QED BY <1>1, <1>2, <1>3, <1>4, <1>5 DEF VInv

\* Access: the request fetches an event that validateLicense has passed.
LEMMA AccessVInv ==
  ASSUME NEW q \in Requests, VInv, Access(q) PROVE VInv'
<1> USE VotesAssumption DEF VInv, Access, Accessible, eventVars, queueVars, inputVars, Goto, Answer, Admit
<1>1. TypeOK'
  BY DEF TypeOK, Requests
<1>2. SettingsInv'
  BY DEF SettingsInv, TypeOK, Requests
<1>3. RequestInv'
  BY DEF RequestInv, TypeOK, Requests
<1>4. BallotInv'
  BY DEF BallotInv, RequestInv, TypeOK, InTransaction, BallotOf, Requests
<1>5. CountExact'
  BY DEF CountExact
<1>6. AcceptedOnce'
  BY SameAccepted DEF RequestInv, TypeOK, Requests
<1> QED BY <1>1, <1>2, <1>3, <1>4, <1>5, <1>6

\* EnforceLicense: votes go on to the query for the track.
LEMMA EnforceLicenseVInv ==
  ASSUME NEW q \in Requests, VInv, EnforceLicense(q) PROVE VInv'
<1> USE VotesAssumption DEF VInv, EnforceLicense, eventVars, queueVars, inputVars, Goto, Answer, Admit
<1>1. TypeOK'
  BY DEF TypeOK, Requests
<1>2. SettingsInv'
  BY DEF SettingsInv, TypeOK, Requests
<1>3. RequestInv'
  BY DEF RequestInv, TypeOK, Requests
<1>4. BallotInv'
  BY DEF BallotInv, RequestInv, TypeOK, InTransaction, BallotOf, Requests
<1>5. CountExact'
  BY DEF CountExact
<1>6. AcceptedOnce'
  BY SameAccepted DEF RequestInv, TypeOK, Requests
<1> QED BY <1>1, <1>2, <1>3, <1>4, <1>5, <1>6

\* CheckInvitation: so do those of invited users.
LEMMA CheckInvitationVInv ==
  ASSUME NEW q \in Requests, VInv, CheckInvitation(q) PROVE VInv'
<1> USE VotesAssumption DEF VInv, CheckInvitation, eventVars, queueVars, inputVars, Goto, Answer, Admit
<1>1. TypeOK'
  BY DEF TypeOK, Requests
<1>2. SettingsInv'
  BY DEF SettingsInv, TypeOK, Requests
<1>3. RequestInv'
  BY DEF RequestInv, TypeOK, Requests
<1>4. BallotInv'
  BY DEF BallotInv, RequestInv, TypeOK, InTransaction, BallotOf, Requests
<1>5. CountExact'
  BY DEF CountExact
<1>6. AcceptedOnce'
  BY SameAccepted DEF RequestInv, TypeOK, Requests
<1> QED BY <1>1, <1>2, <1>3, <1>4, <1>5, <1>6

\* FindTrack: the track may go again before the transaction starts.
LEMMA FindTrackVInv ==
  ASSUME NEW q \in Requests, VInv, FindTrack(q) PROVE VInv'
<1> USE VotesAssumption DEF VInv, FindTrack, eventVars, queueVars, inputVars, Goto, Answer, Admit
<1>1. TypeOK'
  BY DEF TypeOK, Requests
<1>2. SettingsInv'
  BY DEF SettingsInv, TypeOK, Requests
<1>3. RequestInv'
  BY DEF RequestInv, TypeOK, Requests
<1>4. BallotInv'
  BY DEF BallotInv, RequestInv, TypeOK, InTransaction, BallotOf, Requests
<1>5. CountExact'
  BY DEF CountExact
<1>6. AcceptedOnce'
  BY SameAccepted DEF RequestInv, TypeOK, Requests
<1> QED BY <1>1, <1>2, <1>3, <1>4, <1>5, <1>6

\* InsertBallot: the ballot is new, and nobody else holds it.
LEMMA InsertBallotVInv ==
  ASSUME NEW q \in Requests, VInv, InsertBallot(q) PROVE VInv'
<1> USE VotesAssumption DEF VInv, InsertBallot, eventVars, queueVars, inputVars, Goto, Answer, Admit
<1>1. TypeOK'
  BY DEF TypeOK, Requests
<1>2. SettingsInv'
  BY DEF SettingsInv, TypeOK, Requests
<1>3. RequestInv'
  BY DEF RequestInv, TypeOK, Requests
<1>4. BallotInv'
  <2>1. q \in Voters
    BY DEF RequestInv
  <2>2. CASE pc' = [pc EXCEPT ![q] = "increment"]
    <3>1. track[q] \in live /\ BallotOf(q) \notin votes
      BY <2>2 DEF TypeOK, BallotOf, Requests
    <3>2. \A r \in Voters \ {q} : InTransaction(r) => BallotOf(r) # BallotOf(q)
      BY DEF Pending, BallotOf
    <3>3. \A r \in Voters : InTransaction(r)' => r = q \/ InTransaction(r)
      BY <2>2 DEF TypeOK, InTransaction, Requests
    <3>4. \A r \in Voters : pc'[r] = "commit" => pc[r] = "commit"
      BY <2>2 DEF TypeOK, Requests
    <3>5. \A r \in Voters : BallotOf(r)' = BallotOf(r)
      BY DEF BallotOf
    <3> QED BY <3>1, <3>2, <3>3, <3>4, <3>5 DEF BallotInv
  <2>3. CASE pc' = [pc EXCEPT ![q] = "done"]
    BY <2>3 DEF BallotInv, TypeOK, InTransaction, BallotOf, Requests
  <2> QED BY <2>2, <2>3
<1>5. CountExact'
  BY DEF CountExact
<1>6. AcceptedOnce'
  BY SameAccepted DEF RequestInv, TypeOK, Requests
<1> QED BY <1>1, <1>2, <1>3, <1>4, <1>5, <1>6

\* Increment: the row was unlocked, so the count read is the last one.
LEMMA IncrementVInv ==
  ASSUME NEW q \in Requests, VInv, Increment(q) PROVE VInv'
<1> USE VotesAssumption DEF VInv, Increment, eventVars, queueVars, inputVars, Goto, Answer, Admit
<1>1. TypeOK'
  <2>1. q \in Voters /\ track[q] \in live /\ Caller[q] \in Users /\ BallotOf(q) \notin votes
    BY DEF BallotInv, RequestInv, InTransaction, Requests
  <2>2. voteCount[track[q]] = Cardinality(BallotsFor(track[q]))
    BY <2>1 DEF CountExact, BallotsFor
  <2>3. voteCount[track[q]] + 1 \in 0..Cardinality(Users)
    BY <2>1, <2>2, RoomForOneMore DEF BallotOf
  <2> QED BY <2>3 DEF TypeOK, Requests
<1>2. SettingsInv'
  BY DEF SettingsInv, TypeOK, Requests
<1>3. RequestInv'
  BY DEF RequestInv, TypeOK, Requests
<1>4. BallotInv'
  BY DEF BallotInv, RequestInv, TypeOK, InTransaction, BallotOf, Requests
<1>5. CountExact'
  BY DEF CountExact
<1>6. AcceptedOnce'
  BY SameAccepted DEF RequestInv, TypeOK, Requests
<1> QED BY <1>1, <1>2, <1>3, <1>4, <1>5, <1>6

\* Cancel: what the transaction held is dropped.
LEMMA CancelVInv ==
  ASSUME NEW q \in Requests, VInv, Cancel(q) PROVE VInv'
<1> USE VotesAssumption DEF VInv, Cancel, eventVars, queueVars, inputVars, Goto, Answer, Admit
<1>1. TypeOK'
  <2>1. 0 \in 0..Cardinality(Users)
    BY FS_CardinalityType
  <2> QED BY <2>1 DEF TypeOK, Requests
<1>2. SettingsInv'
  BY DEF SettingsInv, TypeOK, Requests
<1>3. RequestInv'
  BY DEF RequestInv, TypeOK, Requests
<1>4. BallotInv'
  BY DEF BallotInv, RequestInv, TypeOK, InTransaction, BallotOf, Requests
<1>5. CountExact'
  BY DEF CountExact
<1>6. AcceptedOnce'
  BY SameAccepted DEF RequestInv, TypeOK, Requests
<1> QED BY <1>1, <1>2, <1>3, <1>4, <1>5, <1>6

\* Invite changes no request and no vote.
LEMMA InviteVInv ==
  ASSUME NEW u \in Users, VInv, Invite(u) PROVE VInv'
<1> USE VotesAssumption DEF VInv, Invite, eventVars, queueVars, inputVars, Goto, Answer, Admit
<1>1. TypeOK'
  BY DEF TypeOK, Requests
<1>2. SettingsInv'
  BY DEF SettingsInv, TypeOK, Requests
<1>3. RequestInv'
  BY DEF RequestInv, TypeOK, Requests
<1>4. BallotInv'
  BY DEF BallotInv, RequestInv, TypeOK, InTransaction, BallotOf, Requests
<1>5. CountExact'
  BY DEF CountExact
<1>6. AcceptedOnce'
  BY SameAccepted DEF RequestInv, TypeOK, Requests
<1> QED BY <1>1, <1>2, <1>3, <1>4, <1>5, <1>6

\* Tick changes nothing but the clock.
LEMMA TickVInv ==
  ASSUME VInv, Tick PROVE VInv'
<1> USE VotesAssumption DEF VInv, Tick, eventVars, queueVars, inputVars
<1>1. TypeOK' /\ SettingsInv'
  BY DEF TypeOK, SettingsInv
<1>2. RequestInv' /\ BallotInv'
  BY DEF RequestInv, BallotInv, InTransaction, BallotOf
<1>3. CountExact' /\ AcceptedOnce'
  BY SameAccepted DEF CountExact
<1> QED BY <1>1, <1>2, <1>3

\* A licence of 2 comes with a geofence and a window, or the row has had them,
\* and the statement never takes them away.
LEMMA UpdatedSettings ==
  ASSUME NEW u \in Updates, VInv, UpdateEvent(u)
  PROVE  event' \in Settings /\ ValidLicense(event')
<1> USE VotesAssumption DEF UpdateEvent, Keep
<1>1. u \in Patches /\ event \in Settings /\ ValidLicense(event)
  BY DEF VInv, TypeOK, SettingsInv
<1>2. event' = [license |-> Keep(u.license, event.license),
                public |-> Keep(u.public, event.public),
                place |-> Keep(u.place, event.place),
                window |-> Keep(u.window, event.window)]
  BY <1>1 DEF Settings, Patches
<1> QED BY <1>1, <1>2 DEF Settings, Patches, ValidLicense

\* UpdateEvent: the new settings are valid, and nothing else changes.
LEMMA UpdateEventVInv ==
  ASSUME NEW u \in Updates, VInv, UpdateEvent(u) PROVE VInv'
<1> USE DEF VInv, UpdateEvent, queueVars, inputVars
<1>1. TypeOK' /\ SettingsInv'
  BY UpdatedSettings DEF TypeOK, SettingsInv
<1>2. RequestInv' /\ BallotInv'
  BY DEF RequestInv, BallotInv, InTransaction, BallotOf
<1>3. CountExact' /\ AcceptedOnce'
  BY SameAccepted DEF CountExact
<1> QED BY <1>1, <1>2, <1>3

\* AddTrack: the new track has a fresh id, so no request has been about it and
\* no vote is for it.
LEMMA AddTrackVInv ==
  ASSUME NEW q \in Requests, VInv, AddTrack(q) PROVE VInv'
<1> USE VotesAssumption DEF VInv, AddTrack, Answer, eventVars, inputVars
<1>1. CASE UNCHANGED <<suggested, live>>
  <2>1. TypeOK' /\ SettingsInv' /\ RequestInv'
    BY <1>1 DEF TypeOK, SettingsInv, RequestInv, Requests
  <2>2. BallotInv'
    BY <1>1 DEF BallotInv, TypeOK, InTransaction, BallotOf, Requests
  <2>3. CountExact'
    BY <1>1 DEF CountExact
  <2>4. AcceptedOnce'
    BY <1>1, SameAccepted DEF RequestInv, TypeOK, Requests
  <2> QED BY <2>1, <2>2, <2>3, <2>4
<1>2. ASSUME NEW t \in Tracks \ suggested,
             suggested' = suggested \cup {t}, live' = live \cup {t}
      PROVE  VInv'
  <2>1. TypeOK' /\ SettingsInv' /\ RequestInv'
    BY <1>2 DEF TypeOK, SettingsInv, RequestInv, Requests
  <2>2. BallotInv'
    BY <1>2 DEF BallotInv, TypeOK, InTransaction, BallotOf, Requests
  <2>3. CountExact'
    <3>1. votes' = votes /\ voteCount' = voteCount
      BY <1>2
    <3>2. {b \in votes : b[1] = t} = {} /\ voteCount[t] = 0
      BY DEF TypeOK, BallotInv
    <3>3. voteCount[t] = Cardinality({b \in votes : b[1] = t})
      BY <3>2, FS_EmptySet
    <3>4. CountExact /\ live' = live \cup {t}
      BY <1>2
    <3> HIDE DEF VInv, AddTrack, Answer
    <3> QED BY <3>1, <3>3, <3>4 DEF CountExact
  <2>4. AcceptedOnce'
    <3>1. \A r \in Voters : outcome[r] \in {"ok", "unknown"} => track[r] # t
      BY DEF RequestInv, TypeOK, Requests
    <3>2. \A r \in Voters : outcome[r] = outcome'[r] /\ track[r] = track'[r]
      BY VotesAssumption DEF RequestInv, TypeOK, Requests
    <3>3. Accepted' = Accepted /\ InDoubt' = InDoubt
      BY <1>2, <3>1, <3>2 DEF Accepted, InDoubt
    <3>4. \A r : BallotOf(r)' = BallotOf(r)
      BY DEF BallotOf
    <3>5. votes' = votes
      BY <1>2
    <3> HIDE DEF VInv, AddTrack, Answer
    <3> QED BY <3>3, <3>4, <3>5 DEF AcceptedOnce, VInv
  <2> QED BY <2>1, <2>2, <2>3, <2>4
<1> QED BY <1>1, <1>2

\* CommitVote: the one vote is stored and counted, and the request accepted, at
\* once.
LEMMA CommitVoteVInv ==
  ASSUME NEW q \in Requests, VInv, CommitVote(q) PROVE VInv'
<1> DEFINE t == track[q]
           u == Caller[q]
<1> USE VotesAssumption DEF VInv, CommitVote, Answer, eventVars, inputVars
<1>1. /\ q \in Voters /\ t \in live /\ t \in Tracks /\ u \in Users
      /\ <<t, u>> \notin votes
      /\ next[q] = voteCount[t] + 1
  BY DEF BallotInv, RequestInv, TypeOK, InTransaction, BallotOf, Requests
<1>2. votes' = votes \cup {<<t, u>>} /\ voteCount' = [voteCount EXCEPT ![t] = next[q]]
  OBVIOUS
<1>3. TypeOK' /\ SettingsInv' /\ RequestInv'
  <2>1. 0 \in 0..Cardinality(Users)
    BY FS_CardinalityType
  <2>2. TypeOK'
    BY <1>1, <2>1 DEF TypeOK, Requests
  <2>3. SettingsInv' /\ RequestInv'
    BY <1>1 DEF TypeOK, SettingsInv, RequestInv, Requests
  <2> QED BY <2>2, <2>3
<1>4. BallotInv'
  <2>1. \A r \in Voters : /\ BallotOf(r)' = BallotOf(r)
                          /\ InTransaction(r)' <=> r # q /\ InTransaction(r)
                          /\ pc'[r] = "commit" <=> r # q /\ pc[r] = "commit"
    BY DEF BallotOf, InTransaction, TypeOK, Requests
  <2>2. \A r \in Voters : InTransaction(r)' => track'[r] \in live' /\ BallotOf(r)' \notin votes'
    BY <1>1, <1>2, <2>1 DEF BallotInv, InTransaction, BallotOf
  <2>3. \A r \in Voters : r # q /\ pc[r] = "commit" => track[r] # t
    BY <1>1 DEF BallotInv
  <2>4. \A r \in Voters : pc'[r] = "commit" => next'[r] = voteCount'[track'[r]] + 1
    BY <1>1, <1>2, <2>1, <2>3 DEF BallotInv, TypeOK, Requests
  <2>5. \A s \in Tracks \ live' : voteCount'[s] = 0
    BY <1>1, <1>2 DEF BallotInv, TypeOK
  <2> QED BY <2>1, <2>2, <2>4, <2>5 DEF BallotInv
<1>5. CountExact'
  <2>1. \A s : s # t => {b \in votes' : b[1] = s} = BallotsFor(s)
    BY <1>2 DEF BallotsFor
  <2>2. Cardinality({b \in votes' : b[1] = t}) = Cardinality(BallotsFor(t)) + 1
    BY <1>1, <1>2, CastCounts
  <2>3. \A s \in live : voteCount[s] = Cardinality(BallotsFor(s))
    BY DEF CountExact, BallotsFor
  <2>4. \A s \in live : voteCount'[s] = IF s = t THEN voteCount[t] + 1 ELSE voteCount[s]
    BY <1>1, <1>2 DEF TypeOK
  <2>5. voteCount'[t] = Cardinality({b \in votes' : b[1] = t})
    BY <1>1, <2>2, <2>3, <2>4
  <2>6. ASSUME NEW s \in live, s # t
        PROVE  voteCount'[s] = Cardinality({b \in votes' : b[1] = s})
    <3>1. {b \in votes' : b[1] = s} = BallotsFor(s)
      BY <2>1, <2>6
    <3> QED BY <2>3, <2>4, <2>6, <3>1
  <2>7. live' = live
    OBVIOUS
  <2> HIDE DEF VInv, CommitVote, Answer
  <2> QED BY <2>5, <2>6, <2>7 DEF CountExact
<1>6. AcceptedOnce'
  <2>1. \/ Accepted' = Accepted \cup {q} /\ InDoubt' = InDoubt
        \/ Accepted' = Accepted /\ InDoubt' = InDoubt \cup {q}
    BY <1>1 DEF Accepted, InDoubt, RequestInv, TypeOK, Requests
  <2>2. \A r : BallotOf(r)' = BallotOf(r)
    BY DEF BallotOf
  <2>3. votes' = votes \cup {BallotOf(q)} /\ BallotOf(q) \notin votes
    BY <1>1, <1>2 DEF BallotOf
  <2> HIDE DEF VInv, CommitVote, Answer
  <2>4. /\ {BallotOf(r) : r \in Accepted} \subseteq votes
        /\ votes \subseteq {BallotOf(r) : r \in Accepted \cup InDoubt}
        /\ \A r, w \in Accepted : BallotOf(r) = BallotOf(w) => r = w
    BY DEF AcceptedOnce, VInv
  <2>5. /\ {BallotOf(r) : r \in Accepted'} \subseteq votes'
        /\ votes' \subseteq {BallotOf(r) : r \in Accepted' \cup InDoubt'}
    BY <2>1, <2>3, <2>4
  <2>6. \A r, w \in Accepted' : BallotOf(r) = BallotOf(w) => r = w
    BY <2>1, <2>3, <2>4
  <2>7. /\ {BallotOf(r) : r \in Accepted}' = {BallotOf(r) : r \in Accepted'}
        /\ {BallotOf(r) : r \in Accepted \cup InDoubt}' = {BallotOf(r) : r \in Accepted' \cup InDoubt'}
    BY <2>2
  <2> QED BY <2>2, <2>5, <2>6, <2>7 DEF AcceptedOnce
<1> QED BY <1>3, <1>4, <1>5, <1>6

\* A deletion takes the tracks, their votes and the acceptance of these away; it
\* waits for the transactions on the tracks.
LEMMA DiscardVInv ==
  ASSUME NEW S \in SUBSET live, VInv, Discard(S),
         event' \in {event, Nil}, invited' \in SUBSET Users,
         UNCHANGED <<clock, pc, inputVars, next, outcome>>
  PROVE  VInv'
<1> USE VotesAssumption DEF VInv, Discard, inputVars
<1>1. TypeOK' /\ SettingsInv' /\ RequestInv'
  <2>1. 0 \in 0..Cardinality(Users)
    BY FS_CardinalityType
  <2>2. TypeOK'
    BY <2>1 DEF TypeOK
  <2>3. SettingsInv' /\ RequestInv'
    BY DEF SettingsInv, RequestInv
  <2> QED BY <2>2, <2>3
<1>2. BallotInv'
  <2>1. \A q : (BallotOf(q)' = BallotOf(q)) /\ (InTransaction(q)' <=> InTransaction(q))
    BY DEF BallotOf, InTransaction
  <2>2. \A q \in Voters : InTransaction(q) =>
          /\ track[q] \in live'
          /\ BallotOf(q) \notin votes'
          /\ voteCount'[track[q]] = voteCount[track[q]]
    BY DEF BallotInv, TypeOK
  <2>3. \A t \in Tracks \ live' : voteCount'[t] = 0
    BY DEF BallotInv, TypeOK
  <2>4. \A q \in Voters : pc[q] = "commit" => InTransaction(q)
    BY DEF InTransaction
  <2> QED BY <2>1, <2>2, <2>3, <2>4 DEF BallotInv
<1>3. CountExact'
  <2>1. \A t \in live' : /\ t \in live /\ t \notin S
                         /\ voteCount'[t] = voteCount[t]
                         /\ {b \in votes' : b[1] = t} = {b \in votes : b[1] = t}
    BY DEF TypeOK
  <2> QED BY <2>1 DEF CountExact
<1>4. AcceptedOnce'
  <2>1. /\ Accepted' = {q \in Accepted : track[q] \notin S}
        /\ InDoubt' = {q \in InDoubt : track[q] \notin S}
    BY DEF Accepted, InDoubt
  <2>2. \A q : BallotOf(q)' = BallotOf(q) /\ BallotOf(q)[1] = track[q]
    BY DEF BallotOf
  <2>3. votes' = {b \in votes : b[1] \notin S}
    OBVIOUS
  <2> HIDE DEF VInv, Discard
  <2>4. /\ {BallotOf(q) : q \in Accepted} \subseteq votes
        /\ votes \subseteq {BallotOf(q) : q \in Accepted \cup InDoubt}
        /\ \A q, r \in Accepted : BallotOf(q) = BallotOf(r) => q = r
    BY DEF AcceptedOnce, VInv
  <2>5. /\ {BallotOf(q) : q \in Accepted'} \subseteq votes'
        /\ votes' \subseteq {BallotOf(q) : q \in Accepted' \cup InDoubt'}
    BY <2>1, <2>2, <2>3, <2>4
  <2>6. /\ {BallotOf(q) : q \in Accepted}' = {BallotOf(q) : q \in Accepted'}
        /\ {BallotOf(q) : q \in Accepted \cup InDoubt}' = {BallotOf(q) : q \in Accepted' \cup InDoubt'}
    BY <2>2
  <2> QED BY <2>1, <2>2, <2>4, <2>5, <2>6 DEF AcceptedOnce
<1> QED BY <1>1, <1>2, <1>3, <1>4

\* DeleteTrack and DeleteEvent.
LEMMA DeleteVInv ==
  ASSUME VInv, DeleteEvent \/ \E t \in Tracks : DeleteTrack(t) PROVE VInv'
<1>1. CASE DeleteEvent
  BY <1>1, DiscardVInv DEF DeleteEvent
<1>2. ASSUME NEW t \in Tracks, DeleteTrack(t) PROVE VInv'
  <2>1. {t} \in SUBSET live /\ Discard({t})
    BY <1>2 DEF DeleteTrack
  <2>2. event' \in {event, Nil} /\ invited' \in SUBSET Users
    BY <1>2 DEF DeleteTrack, eventVars, VInv, TypeOK
  <2>3. UNCHANGED <<clock, pc, inputVars, next, outcome>>
    BY <1>2 DEF DeleteTrack
  <2> QED BY <2>1, <2>2, <2>3, DiscardVInv
<1> QED BY <1>1, <1>2

\* Every step of the event preserves the invariant.
LEMMA NextVInv == VInv /\ [Next]_vars => VInv'
<1> SUFFICES ASSUME VInv, [Next]_vars PROVE VInv'
  OBVIOUS
<1>1. CASE UNCHANGED vars
  BY <1>1, SameAccepted
     DEF VInv, TypeOK, SettingsInv, RequestInv, BallotInv, BallotOf, InTransaction,
         CountExact, vars, eventVars, queueVars, inputVars
<1>2. ASSUME NEW q \in Requests, Access(q) \/ Step(q) \/ Cancel(q) PROVE VInv'
  BY <1>2, AccessVInv, EnforceLicenseVInv, CheckInvitationVInv, AddTrackVInv, FindTrackVInv,
     InsertBallotVInv, IncrementVInv, CommitVoteVInv, CancelVInv DEF Step
<1>3. CASE DeleteEvent \/ \E t \in Tracks : DeleteTrack(t)
  BY <1>3, DeleteVInv
<1>4. CASE \E u \in Updates : UpdateEvent(u)
  BY <1>4, UpdateEventVInv
<1>5. CASE \E u \in Users : Invite(u)
  BY <1>5, InviteVInv
<1>6. CASE Tick
  BY <1>6, TickVInv
<1>7. CASE Answered
  BY <1>1, <1>7 DEF Answered
<1> QED BY <1>1, <1>2, <1>3, <1>4, <1>5, <1>6, <1>7 DEF Next

\* Every step of the specification is one of the event.
LEMMA Recorded == [Next /\ Record]_vars => [Next]_vars
OBVIOUS

\* The inductive invariant holds in every state of the event.
THEOREM Invariance == Spec => []VInv
BY InitVInv, Recorded, NextVInv, PTL DEF Spec

-----------------------------------------------------------------------------
(* What the runs check, for every value of the constants                   *)

\* The variables have their types; in particular no count exceeds the number of
\* users (tracks.vote_count).
THEOREM TypeCorrect == Spec => []TypeOK
<1>1. VInv => TypeOK
  BY DEF VInv
<1> QED BY <1>1, Invariance, PTL

\* vote_count is the number of votes of the track, for any overlap of votes,
\* deletions and rollbacks (CastVote, DeleteTrack, Delete).
THEOREM ExactCounts == Spec => []CountExact
<1>1. VInv => CountExact
  BY DEF VInv
<1> QED BY <1>1, Invariance, PTL

\* Votes that are accepted are the votes that are stored, one of a user for a
\* track (CastVote and UNIQUE (track_id, user_id)).
THEOREM OneBallot == Spec => []AcceptedOnce
<1>1. VInv => AcceptedOnce
  BY DEF VInv
<1> QED BY <1>1, Invariance, PTL

\* enforceLicense follows no nil pointer, whatever bodies of PATCH come before
\* (validateLicense sees the body alone).
THEOREM NoNil == Spec => []NoNilDereference
<1>1. VInv => NoNilDereference
  BY DEF VInv, SettingsInv, NoNilDereference
<1> QED BY <1>1, Invariance, PTL

-----------------------------------------------------------------------------
(* The licence                                                             *)

Past == {"add", "find", "ballot", "increment", "commit"}

\* What one step does to the licence check of a request.
LicenseStep(q) ==
  /\ pc[q] # "idle" => seen'[q] = seen[q] /\ spot'[q] = spot[q] /\ pc'[q] # "idle"
  /\ pc[q] = "done" => pc'[q] = "done"
  /\ pc[q] = "idle" /\ pc'[q] \notin {"idle", "done"} =>
       pc'[q] = "license" /\ seen'[q] = event /\ UNCHANGED <<event, clock>>
  /\ pc'[q] = "invitation" => seen[q].license = 1
  /\ pc'[q] \in Past /\ pc[q] \notin Past =>
       /\ pc[q] \in {"license", "invitation"} /\ UNCHANGED <<event, invited, clock>>
       /\ \/ Caller[q] = Owner
          \/ /\ seen[q].license = 1 => Caller[q] \in invited
             /\ seen[q].license = 2 => spot[q] = seen[q].place /\ clock \in seen[q].window

\* Only Access fetches the settings, and only EnforceLicense and CheckInvitation
\* let a request pass.
LEMMA StepOfLicense ==
  ASSUME VInv, LicenseInv, Next PROVE \A q \in Requests : LicenseStep(q)
<1> USE DEF LicenseStep, Past, eventVars, queueVars, inputVars
<1>1. ASSUME NEW r \in Requests, Access(r) PROVE \A q \in Requests : LicenseStep(q)
  BY <1>1 DEF Access, Goto, Answer, VInv, TypeOK, LicenseInv
<1>2. ASSUME NEW r \in Requests, EnforceLicense(r) PROVE \A q \in Requests : LicenseStep(q)
  BY <1>2 DEF EnforceLicense, Admit, Goto, Answer, VInv, TypeOK, LicenseInv
<1>3. ASSUME NEW r \in Requests, CheckInvitation(r) PROVE \A q \in Requests : LicenseStep(q)
  BY <1>3 DEF CheckInvitation, Admit, Goto, Answer, VInv, TypeOK, LicenseInv
<1>4. ASSUME NEW r \in Requests, AddTrack(r) \/ CommitVote(r) \/ Cancel(r)
      PROVE  \A q \in Requests : LicenseStep(q)
  BY <1>4 DEF AddTrack, CommitVote, Cancel, Answer, VInv, TypeOK, LicenseInv
<1>5. ASSUME NEW r \in Requests, FindTrack(r) \/ InsertBallot(r) \/ Increment(r)
      PROVE  \A q \in Requests : LicenseStep(q)
  BY <1>5 DEF FindTrack, InsertBallot, Increment, Goto, Answer, VInv, TypeOK, LicenseInv
<1>6. CASE DeleteEvent \/ \E t \in Tracks : DeleteTrack(t)
  BY <1>6 DEF DeleteEvent, DeleteTrack, LicenseInv
<1>7. CASE (\E u \in Updates : UpdateEvent(u)) \/ (\E u \in Users : Invite(u)) \/ Tick \/ Answered
  BY <1>7 DEF UpdateEvent, Invite, Tick, Answered, vars, LicenseInv
<1> QED BY <1>1, <1>2, <1>3, <1>4, <1>5, <1>6, <1>7 DEF Next, Step

\* Time passes, invitations stay until the event is deleted, and a deleted event
\* has no queue.
LEMMA StepOfEvent ==
  ASSUME VInv, LicenseInv, Next
  PROVE  /\ clock <= clock'
         /\ event' # Nil => event # Nil /\ invited \subseteq invited'
         /\ event' = Nil => live' = {}
<1> USE DEF eventVars, queueVars, inputVars
<1>0. clock \in Nat /\ (event = Nil => live = {})
  BY VotesAssumption DEF VInv, TypeOK, LicenseInv
<1>1. ASSUME NEW r \in Requests, Access(r) \/ Step(r) \/ Cancel(r)
      PROVE  clock' = clock /\ event' = event /\ invited' = invited /\ (event = Nil => live' = {})
  BY <1>0, <1>1 DEF Access, Step, EnforceLicense, CheckInvitation, AddTrack, FindTrack, InsertBallot,
                    Increment, CommitVote, Cancel
<1>2. CASE DeleteEvent \/ \E t \in Tracks : DeleteTrack(t)
  BY <1>0, <1>2 DEF DeleteEvent, DeleteTrack, Discard
<1>3. CASE \E u \in Updates : UpdateEvent(u)
  <2>1. event' # Nil
    BY <1>3, UpdatedSettings, VotesAssumption
  <2> QED BY <1>0, <1>3, <2>1 DEF UpdateEvent
<1>4. CASE (\E u \in Users : Invite(u)) \/ Tick \/ Answered
  BY <1>0, <1>4 DEF Invite, Tick, Answered, vars
<1> QED BY <1>0, <1>1, <1>2, <1>3, <1>4 DEF Next

\* The history of a request has its type, and grows while the request is under
\* way.
LEMMA HistoryGrows ==
  ASSUME VInv, VInv', LicenseInv, Record
  PROVE  /\ known' \in [Requests -> SUBSET Settings]
         /\ began' \in [Requests -> 0..MaxClock]
         /\ \A q \in Requests : pc'[q] \notin {"idle", "done"} =>
              /\ known'[q] = known[q] \cup ({event'} \ {Nil})
              /\ began'[q] = IF pc[q] = "idle" THEN clock ELSE began[q]
<1>1. known' \in [Requests -> SUBSET Settings]
  <2>1. event' \in Settings \cup {Nil} /\ known \in [Requests -> SUBSET Settings]
    BY DEF VInv, TypeOK, LicenseInv
  <2> QED BY <2>1 DEF Record
<1>2. began' \in [Requests -> 0..MaxClock]
  <2>1. clock \in 0..MaxClock /\ 0 \in 0..MaxClock /\ began \in [Requests -> 0..MaxClock]
    BY VotesAssumption DEF VInv, TypeOK, LicenseInv
  <2> QED BY <2>1 DEF Record
<1> QED BY <1>1, <1>2 DEF Record

\* Settings that admit a request go on admitting it until the event is deleted.
LEMMA StillAdmitted ==
  ASSUME NEW q \in Requests, NEW e, Admits(e, q),
         invited \subseteq invited', spot'[q] = spot[q], began'[q] = began[q],
         began[q] \in Nat, clock \in Nat, clock' \in Nat, clock <= clock'
  PROVE  Admits(e, q)'
  BY DEF Admits

\* LicenseInv is preserved, whatever updates, invitations, deletions and ticks
\* come between the statements of a request.
LEMMA NextLicenseInv ==
  ASSUME VInv, VInv', LicenseInv, [Next /\ Record]_vars PROVE LicenseInv'
<1>1. CASE UNCHANGED vars
  BY <1>1 DEF LicenseInv, Admits, vars, eventVars, queueVars, inputVars, historyVars
<1>2. CASE Next /\ Record
  <2> DEFINE Active(q) == pc'[q] \notin {"idle", "done"}
  <2>1. \A q \in Requests : LicenseStep(q)
    BY <1>2, StepOfLicense
  <2>2. /\ clock <= clock' /\ (event' # Nil => event # Nil /\ invited \subseteq invited')
        /\ (event' = Nil => live' = {})
    BY <1>2, StepOfEvent
  <2>3. /\ known' \in [Requests -> SUBSET Settings] /\ began' \in [Requests -> 0..MaxClock]
        /\ \A q \in Requests : Active(q) =>
             /\ known'[q] = known[q] \cup ({event'} \ {Nil})
             /\ began'[q] = IF pc[q] = "idle" THEN clock ELSE began[q]
    BY <1>2, HistoryGrows
  <2>4. clock \in Nat /\ clock' \in Nat /\ \A q \in Requests : began[q] \in Nat
    BY VotesAssumption DEF VInv, TypeOK, LicenseInv
  <2>5. ASSUME NEW q \in Requests, Active(q) PROVE seen'[q] \in known'[q] /\ began'[q] <= clock'
    <3>1. seen'[q] # Nil
      BY <2>5 DEF VInv, SettingsInv
    <3>2. CASE pc[q] = "idle"
      BY <2>1, <2>2, <2>3, <2>4, <2>5, <3>1, <3>2 DEF LicenseStep
    <3>3. CASE pc[q] # "idle"
      <4>1. seen[q] \in known[q] /\ began[q] <= clock
        BY <2>1, <2>5, <3>3 DEF LicenseStep, LicenseInv
      <4> QED BY <2>1, <2>2, <2>3, <2>4, <2>5, <3>3, <4>1 DEF LicenseStep
    <3> QED BY <3>2, <3>3
  <2>6. ASSUME NEW q \in Requests, pc'[q] = "invitation" PROVE seen'[q].license = 1
    BY <2>1, <2>6 DEF LicenseStep
  <2>7. ASSUME NEW q \in Requests, pc'[q] \in Past, event' # Nil, Caller[q] # Owner
        PROVE  Admits(seen[q], q)'
    <3>1. pc[q] \notin {"idle", "done"} /\ Active(q)
      BY <2>1, <2>7 DEF LicenseStep, Past
    <3>2. seen'[q] = seen[q] /\ spot'[q] = spot[q] /\ began'[q] = began[q]
      BY <2>1, <2>3, <3>1 DEF LicenseStep
    <3>3. Admits(seen[q], q)
      <4>1. CASE pc[q] \in Past
        BY <2>2, <2>7, <4>1 DEF LicenseInv, Past
      <4>2. CASE pc[q] \notin Past
        BY <2>1, <2>4, <2>7, <3>1, <4>2 DEF LicenseStep, LicenseInv, Admits
      <4> QED BY <4>1, <4>2
    <3> QED BY <2>2, <2>4, <2>7, <3>2, <3>3, StillAdmitted
  <2> QED BY <2>2, <2>3, <2>5, <2>6, <2>7 DEF LicenseInv, Past
<1> QED BY <1>1, <1>2

\* LicenseInv holds in every state, with VInv.
LEMMA LicenseInvariance == Spec => [](VInv /\ LicenseInv)
<1>1. Init => LicenseInv
  BY VotesAssumption DEF Init, LicenseInv
<1>2. VInv /\ LicenseInv /\ [Next /\ Record]_vars => (VInv /\ LicenseInv)'
  BY Recorded, NextVInv, NextLicenseInv
<1> QED BY <1>1, <1>2, InitVInv, PTL DEF Spec

\* Nobody gets a track or a vote in whom no settings in force since the access
\* check admit, except the owner (enforceLicense), however votes, updates,
\* invitations, deletions and the clock overlap.
THEOREM LicenseSafety == Spec => LicenseRespected
<1>1. ASSUME VInv, LicenseInv, [Next /\ Record]_vars
      PROVE  [\A q \in Requests :
                TakesEffect(q) => Caller[q] = Owner \/ \E e \in known[q] : Admits(e, q)]_vars
  <2>1. CASE UNCHANGED vars
    BY <2>1
  <2>2. ASSUME Next, NEW q \in Requests, TakesEffect(q), Caller[q] # Owner
        PROVE  \E e \in known[q] : Admits(e, q)
    <3>1. event # Nil
      <4>1. event = Nil => event' = Nil /\ live = {} /\ live' = {}
        BY <1>1, <2>2, StepOfEvent DEF LicenseInv
      <4>2. votes \in SUBSET (live \X Users) /\ votes' \in SUBSET (live' \X Users)
        BY <1>1, <2>2, NextVInv DEF VInv, TypeOK
      <4> QED BY <2>2, <4>1, <4>2 DEF TakesEffect
    <3>2. pc[q] \in {"add", "commit"}
      BY <2>2 DEF TakesEffect
    <3> QED BY <1>1, <2>2, <3>1, <3>2 DEF LicenseInv
  <2> QED BY <1>1, <2>1, <2>2
<1> QED BY <1>1, LicenseInvariance, PTL DEF Spec, LicenseRespected

-----------------------------------------------------------------------------
(* The refinement                                                          *)

\* Suggestions, commits and deletions are one operation of the tally each, and
\* the other steps leave it as it is.
LEMMA StepRefines ==
  ASSUME VInv, [Next]_vars PROVE [Tally!Next]_<<live, votes, voteCount>>
<1> USE DEF queueVars
<1> DEFINE Same == UNCHANGED <<live, votes, voteCount>>
<1>1. CASE UNCHANGED vars
  BY <1>1 DEF vars
<1>2. ASSUME NEW q \in Requests,
             \/ Access(q) \/ EnforceLicense(q) \/ CheckInvitation(q)
             \/ FindTrack(q) \/ InsertBallot(q) \/ Increment(q) \/ Cancel(q)
      PROVE  Same
  BY <1>2 DEF Access, EnforceLicense, CheckInvitation, FindTrack, InsertBallot, Increment, Cancel
<1>3. ASSUME NEW q \in Requests, AddTrack(q) PROVE Tally!Next \/ Same
  <2>1. CASE UNCHANGED live
    BY <1>3, <2>1 DEF AddTrack
  <2>2. ASSUME NEW t \in Tracks \ suggested, live' = live \cup {t} PROVE Tally!Suggest(t)
    BY <1>3, <2>2 DEF AddTrack, Tally!Suggest, VInv, TypeOK
  <2> QED BY <1>3, <2>1, <2>2 DEF AddTrack, Tally!Next
<1>4. ASSUME NEW q \in Requests, CommitVote(q) PROVE Tally!Next
  <2>1. /\ q \in Voters /\ track[q] \in live /\ BallotOf(q) \notin votes
        /\ next[q] = voteCount[track[q]] + 1
    BY <1>4 DEF CommitVote, VInv, RequestInv, BallotInv, InTransaction
  <2>2. track[q] \in Tracks /\ Caller[q] \in Users
    BY <2>1, VotesAssumption DEF VInv, TypeOK, Requests
  <2>3. Tally!Cast(track[q], Caller[q])
    BY <1>4, <2>1 DEF CommitVote, Tally!Cast, BallotOf
  <2> QED BY <2>2, <2>3 DEF Tally!Next
<1>5. ASSUME NEW t \in Tracks, DeleteTrack(t) PROVE Tally!Next
  BY <1>5 DEF DeleteTrack, Discard, Tally!Discard, Tally!Next
<1>6. CASE DeleteEvent
  BY <1>6 DEF DeleteEvent, Discard, Tally!Discard, Tally!Next
<1>7. CASE Tick \/ Answered \/ (\E u \in Updates : UpdateEvent(u)) \/ \E u \in Users : Invite(u)
  BY <1>7 DEF Tick, Answered, UpdateEvent, Invite, vars
<1> QED BY <1>1, <1>2, <1>3, <1>4, <1>5, <1>6, <1>7 DEF Next, Step

\* What concurrent requests do to the queue and its votes is what atomic
\* operations on the tally do one after the other.
THEOREM Refinement == Spec => ImplementsTally
<1>1. Init => Tally!Init
  BY DEF Init, Tally!Init
<1>2. VInv /\ [Next]_vars => [Tally!Next]_<<live, votes, voteCount>>
  BY StepRefines
<1> QED BY <1>1, <1>2, Invariance, PTL DEF Spec, ImplementsTally, Tally!Spec
=============================================================================
