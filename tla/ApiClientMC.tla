---------------------------- MODULE ApiClientMC ----------------------------
(***************************************************************************)
(* Model checking of ApiClient.                                            *)
(***************************************************************************)
EXTENDS ApiClient

\* The app is killed only during a refresh; once a revoked token may be about, no
\* login or logout begins.
Bounded ==
  /\ kills' # kills => \E c \in Calls : Refreshing(c)
  /\ me \in {"in", "out"} /\ me' \notin {"in", "out"} => ~excused /\ kills = 0

BoundedSpec ==
  Init /\ [][Next /\ Bounded]_vars /\ \A c \in Calls : WF_vars(Continue(c))
=============================================================================
