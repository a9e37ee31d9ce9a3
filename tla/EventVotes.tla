----------------------------- MODULE EventVotes -----------------------------
(***************************************************************************)
(* One event: its settings, its track queue and the votes, as concurrent   *)
(* requests change them (server/internal/service/{event,track}.go and the  *)
(* SQL of server/internal/repository/{event,track}.go).                    *)
(*                                                                         *)
(* A suggestion or a vote is a request of several statements, each of      *)
(* which sees what is committed when it runs: the access check, which also *)
(* fetches the event; the licence check on the event fetched, with a query *)
(* of its own for invitations; then the INSERT of the track, or the query  *)
(* for the track and a transaction that inserts the ballot and increments  *)
(* the count.  The owner's operations each end in one statement, and what  *)
(* they check before (ownership, existence) does not change under them.    *)
(*                                                                         *)
(* A ballot inserted and not yet committed blocks the same ballot of       *)
(* another request (UNIQUE) and the deletion of its track (foreign key);   *)
(* an increment not yet committed blocks other increments of the row.      *)
(*                                                                         *)
(* A request that fails before the statement that commits is sent stores   *)
(* nothing ("aborted").  Afterwards its client does not know ("unknown"):  *)
(* the server may have committed, and only the answer be lost.             *)
(***************************************************************************)
EXTENDS Naturals, FiniteSets

CONSTANTS
  Tracks,      \* rows of tracks, each generated at most once
  Song,        \* Song[t]: external_id
  Users, Owner,
  Suggesters,  \* requests POST .../tracks
  Voters,      \* requests POST .../tracks/:trackId/vote
  Caller,      \* Caller[q]: the user who makes request q
  Places,      \* positions and geofences: in range means equal
  Windows,     \* voting windows: sets of clock values
  InitEvents,  \* settings the event may be created with
  Updates,     \* bodies of PATCH /events/:id that are tried
  MaxClock,    \* bound on the clock
  Nil          \* NULL, absent

Requests == Suggesters \cup Voters

Settings == [license : 0..2, public : BOOLEAN,
             place : Places \cup {Nil}, window : Windows \cup {Nil}]
Patches == [license : (0..2) \cup {Nil}, public : BOOLEAN \cup {Nil},
            place : Places \cup {Nil}, window : Windows \cup {Nil}]

\* validateLicense: licence 2 comes with a geofence and a voting window.
ValidLicense(s) == s.license = 2 => s.place # Nil /\ s.window # Nil

ASSUME VotesAssumption ==
  /\ IsFiniteSet(Users) /\ Owner \in Users /\ Caller \in [Requests -> Users]
  /\ Suggesters \cap Voters = {}
  /\ MaxClock \in Nat /\ \A w \in Windows : w \subseteq 0..MaxClock
  /\ Nil \notin Places \cup Windows \cup Tracks \cup Settings
  /\ InitEvents \subseteq {s \in Settings : ValidLicense(s)}
  /\ Updates \subseteq Patches

VARIABLES
  event,      \* the row of events, Nil once deleted
  invited,    \* event_invites
  suggested,  \* rows of tracks generated so far
  live,       \* rows of tracks
  voteCount,  \* tracks.vote_count
  votes,      \* rows of votes
  clock,
  pc,         \* what request q does next
  seen,       \* the event as GetAccessible returned it
  spot,       \* the coordinates in the request
  track,      \* the track voted for
  next,       \* the vote_count written and not committed
  outcome,    \* the answer
  known,      \* history: the settings in force while request q was under way
  began       \* history: the time at which it began

eventVars == <<event, invited>>
queueVars == <<suggested, live, voteCount, votes>>
inputVars == <<seen, spot, track>>
historyVars == <<known, began>>
vars == <<eventVars, queueVars, clock, pc, inputVars, next, outcome, historyVars>>

TypeOK ==
  /\ event \in Settings \cup {Nil}
  /\ invited \in SUBSET Users
  /\ suggested \in SUBSET Tracks /\ live \in SUBSET suggested
  /\ voteCount \in [Tracks -> 0..Cardinality(Users)]
  /\ votes \in SUBSET (live \X Users)
  /\ clock \in 0..MaxClock
  /\ pc \in [Requests -> {"idle", "license", "invitation", "add", "find", "ballot",
                          "increment", "commit", "done"}]
  /\ seen \in [Requests -> Settings \cup {Nil}]
  /\ spot \in [Requests -> Places \cup {Nil}]
  /\ track \in [Requests -> Tracks \cup {Nil}]
  /\ next \in [Requests -> 0..Cardinality(Users)]
  /\ outcome \in [Requests -> {"none", "ok", "noevent", "notinvited", "nocoords",
                               "outofrange", "closed", "notrack", "duplicate", "error",
                               "aborted", "unknown"}]

Init ==
  /\ event \in InitEvents
  /\ invited = {}
  /\ \E t \in Tracks : suggested = {t} /\ live = {t}
  /\ voteCount = [t \in Tracks |-> 0]
  /\ votes = {}
  /\ clock = 0
  /\ pc = [q \in Requests |-> "idle"]
  /\ seen = [q \in Requests |-> Nil]
  /\ spot = [q \in Requests |-> Nil]
  /\ track = [q \in Requests |-> Nil]
  /\ next = [q \in Requests |-> 0]
  /\ outcome = [q \in Requests |-> "none"]
  /\ known = [q \in Requests |-> {}]
  /\ began = [q \in Requests |-> 0]

Goto(q, label) == pc' = [pc EXCEPT ![q] = label] /\ UNCHANGED outcome

Answer(q, result) ==
  /\ pc' = [pc EXCEPT ![q] = "done"]
  /\ outcome' = [outcome EXCEPT ![q] = result]

\* GetAccessible: public, owned by the caller, or the caller is invited.
Accessible(u) == event # Nil /\ (event.public \/ u = Owner \/ u \in invited)

-----------------------------------------------------------------------------
(* Suggest and Vote up to the writes                                       *)

\* GetAccessible, with the body of the request at hand.
Access(q) ==
  /\ pc[q] = "idle"
  /\ \E p \in Places \cup {Nil} : spot' = [spot EXCEPT ![q] = p]
  /\ IF q \in Voters
     THEN \E t \in suggested : track' = [track EXCEPT ![q] = t]
     ELSE UNCHANGED track
  /\ IF Accessible(Caller[q])
     THEN /\ seen' = [seen EXCEPT ![q] = event]
          /\ Goto(q, "license")
     ELSE /\ Answer(q, "noevent")
          /\ UNCHANGED seen
  /\ UNCHANGED <<eventVars, queueVars, clock, next>>

Admit(q) == Goto(q, IF q \in Voters THEN "find" ELSE "add")

\* Mutant: licence 1 has no case of its own.
EnforceLicenseZero(q) ==
  /\ pc[q] = "license"
  /\ LET e == seen[q] IN
     \/ (Caller[q] = Owner \/ e.license < 2) /\ Admit(q)
     \/ /\ Caller[q] # Owner /\ e.license = 2
        /\ \/ spot[q] = Nil /\ Answer(q, "nocoords")
           \/ spot[q] # Nil /\ spot[q] # e.place /\ Answer(q, "outofrange")
           \/ spot[q] = e.place /\ clock \notin e.window /\ Answer(q, "closed")
           \/ spot[q] = e.place /\ clock \in e.window /\ Admit(q)
  /\ UNCHANGED <<eventVars, queueVars, clock, inputVars, next>>

\* The part of enforceLicense that needs no query.
EnforceLicense(q) ==
  /\ pc[q] = "license"
  /\ LET e == seen[q] IN
     \/ (Caller[q] = Owner \/ e.license = 0) /\ Admit(q)
     \/ Caller[q] # Owner /\ e.license = 1 /\ Goto(q, "invitation")
     \/ /\ Caller[q] # Owner /\ e.license = 2
        /\ \/ spot[q] = Nil /\ Answer(q, "nocoords")
           \/ spot[q] # Nil /\ spot[q] # e.place /\ Answer(q, "outofrange")
           \/ spot[q] = e.place /\ clock \notin e.window /\ Answer(q, "closed")
           \/ spot[q] = e.place /\ clock \in e.window /\ Admit(q)
  /\ UNCHANGED <<eventVars, queueVars, clock, inputVars, next>>

\* Its query for licence 1: IsInvited.
CheckInvitation(q) ==
  /\ pc[q] = "invitation"
  /\ IF Caller[q] \in invited THEN Admit(q) ELSE Answer(q, "notinvited")
  /\ UNCHANGED <<eventVars, queueVars, clock, inputVars, next>>

\* INSERT INTO tracks: the event is still there (foreign key) and the song is
\* not in the queue (UNIQUE).  The answer of the statement may be lost.
AddTrack(q) ==
  /\ pc[q] = "add"
  /\ \E t \in Tracks \ suggested :
       LET taken == \E s \in live : Song[s] = Song[t] IN
       \/ /\ taken \/ event = Nil
          /\ Answer(q, IF taken THEN "duplicate" ELSE "error")
          /\ UNCHANGED <<suggested, live>>
       \/ /\ ~taken /\ event # Nil
          /\ suggested' = suggested \cup {t}
          /\ live' = live \cup {t}
          /\ \E result \in {"ok", "unknown"} : Answer(q, result)
  /\ UNCHANGED <<eventVars, voteCount, votes, clock, inputVars, next>>

FindTrack(q) ==
  /\ pc[q] = "find"
  /\ IF track[q] \in live THEN Goto(q, "ballot") ELSE Answer(q, "notrack")
  /\ UNCHANGED <<eventVars, queueVars, clock, inputVars, next>>

-----------------------------------------------------------------------------
(* The voting transaction                                                  *)

InTransaction(q) == pc[q] \in {"increment", "commit"}

\* The ballot is not committed yet: another request has inserted it.
Pending(q) == \E r \in Voters \ {q} :
                InTransaction(r) /\ track[r] = track[q] /\ Caller[r] = Caller[q]

\* Mutant: votes has no UNIQUE (track_id, user_id).
InsertBallotAgain(q) ==
  /\ pc[q] = "ballot"
  /\ IF track[q] \notin live THEN Answer(q, "error") ELSE Goto(q, "increment")
  /\ UNCHANGED <<eventVars, queueVars, clock, inputVars, next>>

\* INSERT INTO votes.
InsertBallot(q) ==
  /\ pc[q] = "ballot"
  /\ ~Pending(q)
  /\ CASE <<track[q], Caller[q]>> \in votes -> Answer(q, "duplicate")
       [] track[q] \notin live -> Answer(q, "error")
       [] OTHER -> Goto(q, "increment")
  /\ UNCHANGED <<eventVars, queueVars, clock, inputVars, next>>

\* Mutant: the count was read by the application, before the row was locked.
IncrementUnlocked(q) ==
  /\ pc[q] = "increment"
  /\ next' = [next EXCEPT ![q] = voteCount[track[q]] + 1]
  /\ Goto(q, "commit")
  /\ UNCHANGED <<eventVars, queueVars, clock, inputVars>>

\* Mutant: the ballot's foreign key check locks the row of the track against
\* increments.
IncrementShared(q) ==
  /\ pc[q] = "increment"
  /\ ~\E r \in Voters \ {q} : InTransaction(r) /\ track[r] = track[q]
  /\ next' = [next EXCEPT ![q] = voteCount[track[q]] + 1]
  /\ Goto(q, "commit")
  /\ UNCHANGED <<eventVars, queueVars, clock, inputVars>>

\* UPDATE tracks SET vote_count = vote_count + 1, once the row is unlocked.
Increment(q) ==
  /\ pc[q] = "increment"
  /\ ~\E r \in Voters \ {q} : pc[r] = "commit" /\ track[r] = track[q]
  /\ next' = [next EXCEPT ![q] = voteCount[track[q]] + 1]
  /\ Goto(q, "commit")
  /\ UNCHANGED <<eventVars, queueVars, clock, inputVars>>

\* COMMIT; its answer may be lost.
CommitVote(q) ==
  /\ pc[q] = "commit"
  /\ votes' = votes \cup {<<track[q], Caller[q]>>}
  /\ voteCount' = [voteCount EXCEPT ![track[q]] = next[q]]
  /\ next' = [next EXCEPT ![q] = 0]
  /\ \E result \in {"ok", "unknown"} : Answer(q, result)
  /\ UNCHANGED <<eventVars, suggested, live, clock, inputVars>>

\* The request is cancelled or a statement fails: deferred Rollback, or a
\* statement that commits, but not on the server.
Cancel(q) ==
  /\ pc[q] \notin {"idle", "done"}
  /\ next' = [next EXCEPT ![q] = 0]
  /\ Answer(q, IF pc[q] \in {"add", "commit"} THEN "unknown" ELSE "aborted")
  /\ UNCHANGED <<eventVars, queueVars, clock, inputVars>>

-----------------------------------------------------------------------------
(* The owner, and time                                                     *)

\* ON DELETE CASCADE: the tracks of S go with their votes, once no open
\* transaction has inserted a ballot for one of them.
Discard(S) ==
  /\ \A q \in Voters : InTransaction(q) => track[q] \notin S
  /\ live' = live \ S
  /\ votes' = {b \in votes : b[1] \notin S}
  /\ voteCount' = [t \in Tracks |-> IF t \in S THEN 0 ELSE voteCount[t]]
  /\ UNCHANGED suggested

DeleteTrack(t) ==
  /\ event # Nil /\ t \in live
  /\ Discard({t})
  /\ UNCHANGED <<eventVars, clock, pc, inputVars, next, outcome>>

DeleteEvent ==
  /\ event # Nil
  /\ event' = Nil
  /\ invited' = {}
  /\ Discard(live)
  /\ UNCHANGED <<clock, pc, inputVars, next, outcome>>

Keep(new, old) == IF new = Nil THEN old ELSE new

\* Mutant: the statement writes NULL where the request has no value.
UpdateEventErasing(u) ==
  /\ event # Nil
  /\ ValidLicense(u)
  /\ event' = [u EXCEPT !.license = Keep(@, event.license), !.public = Keep(@, event.public)]
  /\ UNCHANGED <<invited, queueVars, clock, pc, inputVars, next, outcome>>

\* Update: validateLicense sees the request only; the statement keeps what the
\* request leaves out.
UpdateEvent(u) ==
  /\ event # Nil
  /\ ValidLicense(u)
  /\ event' = [f \in DOMAIN event |-> Keep(u[f], event[f])]
  /\ UNCHANGED <<invited, queueVars, clock, pc, inputVars, next, outcome>>

Invite(u) ==
  /\ event # Nil /\ u \notin invited
  /\ invited' = invited \cup {u}
  /\ UNCHANGED <<event, queueVars, clock, pc, inputVars, next, outcome>>

Tick ==
  /\ clock < MaxClock
  /\ clock' = clock + 1
  /\ UNCHANGED <<eventVars, queueVars, pc, inputVars, next, outcome>>

-----------------------------------------------------------------------------
Step(q) ==
  \/ EnforceLicense(q) \/ CheckInvitation(q)
  \/ AddTrack(q)
  \/ FindTrack(q) \/ InsertBallot(q) \/ Increment(q) \/ CommitVote(q)

\* All requests have been answered.
Answered == (\A q \in Requests : pc[q] \in {"idle", "done"}) /\ UNCHANGED vars

Next ==
  \/ \E q \in Requests : Access(q) \/ Step(q) \/ Cancel(q)
  \/ \E t \in Tracks : DeleteTrack(t)
  \/ \E u \in Updates : UpdateEvent(u)
  \/ \E u \in Users : Invite(u)
  \/ DeleteEvent
  \/ Tick
  \/ Answered

\* History: a request under way knows the settings of the event from the one it
\* has fetched on, and when it began.
Record ==
  /\ known' = [q \in Requests |-> IF pc'[q] \in {"idle", "done"} THEN {}
                                 ELSE known[q] \cup ({event'} \ {Nil})]
  /\ began' = [q \in Requests |-> CASE pc'[q] \in {"idle", "done"} -> 0
                                    [] pc[q] = "idle" -> clock
                                    [] OTHER -> began[q]]

\* A request that has begun is run to its end.
Spec == Init /\ [][Next /\ Record]_vars
FairSpec == Spec /\ \A q \in Requests : WF_vars(Step(q) /\ Record)

-----------------------------------------------------------------------------
(* Properties                                                              *)

\* An accepted vote is stored as long as its track is there, and a vote stored
\* was accepted or is of a request whose client could not learn what became of
\* its COMMIT: none is lost, none is left behind by a request that was refused or
\* rolled back, and no two requests of a user are accepted for one track.
Accepted == {q \in Voters : outcome[q] = "ok" /\ track[q] \in live}
InDoubt == {q \in Voters : outcome[q] = "unknown" /\ track[q] \in live}
BallotOf(q) == <<track[q], Caller[q]>>
AcceptedOnce ==
  /\ {BallotOf(q) : q \in Accepted} \subseteq votes
  /\ votes \subseteq {BallotOf(q) : q \in Accepted \cup InDoubt}
  /\ \A q, r \in Accepted : BallotOf(q) = BallotOf(r) => q = r

\* vote_count is the number of votes of the track, whatever votes, deletions
\* and rollbacks overlap.
CountExact ==
  \A t \in live : voteCount[t] = Cardinality({b \in votes : b[1] = t})

\* The pointers enforceLicense follows are set: no sequence of updates leaves an
\* event of licence 2 without geofence or window.
NoNilDereference ==
  \A q \in Requests : pc[q] = "license" => ValidLicense(seen[q])

\* e lets the caller of q in, with the coordinates of the request and at some
\* time since it began.
Admits(e, q) ==
  /\ e.license = 1 => Caller[q] \in invited
  /\ e.license = 2 => spot[q] = e.place /\ \E c \in began[q]..clock : c \in e.window

TakesEffect(q) ==
  /\ pc[q] \in {"add", "commit"} /\ pc'[q] = "done"
  /\ live' # live \/ votes' # votes

\* A track or a vote gets in only by the owner (enforceLicense lets the owner
\* pass whatever the licence, unlike docs/license_enforcement.md) or if settings
\* in force while the request was under way admit its caller: however the owner
\* changes the settings, invites, and the voting window opens and closes
\* meanwhile, nobody gets in whom no settings since the access check let in.
LicenseRespected ==
  [][\A q \in Requests :
       TakesEffect(q) => Caller[q] = Owner \/ \E e \in known[q] : Admits(e, q)]_vars

\* No request waits for ever on the lock of another, and cancelled requests
\* leave no lock behind.
RequestsEnd == \A q \in Requests : pc[q] # "idle" ~> pc[q] = "done"
=============================================================================
