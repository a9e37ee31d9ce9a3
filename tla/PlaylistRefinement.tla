------------------------- MODULE PlaylistRefinement -------------------------
(***************************************************************************)
(* The refinement mapping from PlaylistTracks to PlaylistOrder.            *)
(***************************************************************************)
EXTENDS PlaylistTracks

\* The members of S by their position p, if positions differ: fewer than k are before
\* the k-th, and at least k are not after it.
ByPosition(S, p) ==
  [k \in 1..Cardinality(S) |->
     CHOOSE r \in S : /\ Cardinality({s \in S : p[s] < p[r]}) < k
                      /\ Cardinality({s \in S : p[s] <= p[r]}) >= k]

\* The rows as ListTracks returns them.
Order == ByPosition(Live, pos)

Abstract == INSTANCE PlaylistOrder WITH order <- Order

\* A removal commits numbers that are older than a move.
Outdated == \E t \in Removers : overtaken[t] /\ RemoveCommit(t)
=============================================================================
