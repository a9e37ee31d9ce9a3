----------------------------- MODULE PlaylistMC -----------------------------
(***************************************************************************)
(* Model checking of PlaylistTracks and of its refinement of PlaylistOrder *)
(***************************************************************************)
EXTENDS PlaylistRefinement

CONSTANTS r1, r2, r3, r4,           \* members of Rows
          t1, t2, t3, t4, t5, t6    \* members of Adders, Removers, Movers

\* At most three requests are made, in any combination of kinds.  Requests of one
\* kind are interchangeable, and so are r2 and r3.
Made(S) == {t \in S : pc[t] # "idle"}
AtMostThree ==
  /\ Cardinality(Made(Requests)) <= 3
  /\ t3 \in Made(Requests) => t2 \in Made(Requests)
  /\ t5 \in Made(Requests) => t4 \in Made(Requests)
  /\ t6 \in Made(Requests) => t1 \in Made(Requests)

\* Behaviours are finite: a request that can go on does, if the system does.
BoundedSpec ==
  /\ Init /\ pos[r2] < pos[r3]
  /\ [][Next /\ AtMostThree']_vars
  /\ WF_vars(\E t \in Requests : Step(t))

\* One of two additions has inserted a position that was not the last any more.
Outrun == raced /\ Cardinality(Made(Adders)) > 1

\* Every commit is one edit of the list (append, delete, move), except those of removals
\* that have numbered the rows before a move committed, and unless one addition is outrun
\* by another.
ImplementsOrder ==
  /\ Abstract!Init
  /\ [][pos' # pos => Abstract!Next \/ Outdated \/ Outrun']_Order

\* Different songs; and r4 carries the song of r1, which may be being removed.
DistinctSongs == [r \in Rows |-> r]
SharedSong == [r \in Rows |-> IF r = r4 THEN r1 ELSE r]

=============================================================================
