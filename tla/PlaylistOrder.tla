--------------------------- MODULE PlaylistOrder ---------------------------
(***************************************************************************)
(* What the playlist editor promises about the order of a playlist: it is  *)
(* a list, and every edit is one atomic operation on the list.             *)
(***************************************************************************)
EXTENDS SequencesExt

CONSTANT Rows

VARIABLE order

\* A list without repetition.
Init == order \in {s \in SeqOf(Rows, Cardinality(Rows)) : IsInjective(s)}

\* POST .../tracks
AppendTrack(r) == /\ r \notin ToSet(order)
                  /\ order' = Append(order, r)

\* DELETE .../tracks/:trackId
DeleteTrack(r) == /\ r \in ToSet(order)
                  /\ order' = RemoveFirst(order, r)

\* PATCH .../tracks/:trackId/position: take the track out, put it back as k-th.
MoveTrack(r, k) == /\ r \in ToSet(order)
                   /\ order' = InsertAt(RemoveFirst(order, r), k, r)

Next == \E r \in Rows :
          \/ AppendTrack(r)
          \/ DeleteTrack(r)
          \/ \E k \in 1..Len(order) : MoveTrack(r, k)

Spec == Init /\ [][Next]_order
=============================================================================
