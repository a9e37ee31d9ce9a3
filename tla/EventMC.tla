------------------------------ MODULE EventMC ------------------------------
(***************************************************************************)
(* Model checking of EventVotes and of its refinement of VoteTally.        *)
(***************************************************************************)
EXTENDS EventRefinement, TLC

CONSTANTS owner, ann, bob,     \* users
          s1, v1, v2, v3,      \* requests
          t1, t2,              \* tracks
          here                 \* a place

\* Ann suggests, and votes twice; Bob votes once.
Callers == [q \in Requests |-> IF q = v3 THEN bob ELSE ann]

\* t2 is the song of t1 under a new id.
SharedSong == [t \in Tracks |-> IF t = t2 THEN t1 ELSE t]

VotingHours == {{1}}

Free == [license |-> 0, public |-> TRUE, place |-> Nil, window |-> Nil]
Guests == [license |-> 1, public |-> TRUE, place |-> Nil, window |-> Nil]
OnSite == [license |-> 2, public |-> TRUE, place |-> here, window |-> {1}]

AnyEvent == {Free, Guests, OnSite}

\* Bodies of PATCH /events/:id; none makes the event public again.
AllPatches == {u \in Patches : u.public # TRUE}

Begins(S) == \E q \in S : pc[q] = "idle" /\ pc'[q] # "idle"
AllIdle(S) == \A q \in S : pc[q] = "idle"

\* The settings change in any sequence of updates while no request is under way;
\* the licence and whether the event is public also change once during one
\* suggestion or Bob's vote, and only with these the voting window closes again.
\* All other votes overlap while the settings stay.  One answer may be lost.
\* v1 and v2 are interchangeable: v1 begins first.  Where a request is made from
\* is tried only if the licence asks for it.
Bounded ==
  /\ event' \notin {event, Nil} =>
       /\ AllIdle({v1, v2})
       /\ \A q \in Requests : Cardinality(known'[q]) <= 2
       /\ (\E q \in Requests : known[q] # {}) =>
            event' = [event EXCEPT !.license = event'.license, !.public = event'.public]
  /\ Begins(Voters) => AllIdle(Suggesters) /\ event \in AnyEvent
  /\ Begins({v1, v2}) => /\ seen[v3] \in {event, Nil} /\ known[v3] \subseteq {event}
                         /\ clock < MaxClock
  /\ clock' > clock /\ clock' = MaxClock => AllIdle({v1, v2})
  /\ Cardinality({q \in Requests : outcome'[q] = "unknown"}) <= 1
  /\ Begins(Suggesters) => AllIdle(Voters)
  /\ Begins({v2}) => ~AllIdle({v1})
  /\ spot' # spot => event # Nil /\ event.license = 2
  /\ Owner \notin invited'

BoundedSpec ==
  /\ Init /\ suggested = {t1}
  /\ [][Next /\ Record /\ Bounded]_vars
  /\ \A q \in Requests : WF_vars(Step(q) /\ Record)
=============================================================================
