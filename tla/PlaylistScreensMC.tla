------------------------- MODULE PlaylistScreensMC -------------------------
(***************************************************************************)
(* Model checking of PlaylistScreens: the screens of the owner and of      *)
(* another user.                                                           *)
(***************************************************************************)
EXTENDS PlaylistScreens

CONSTANTS owner, ann, s1, s2, t1, t2, t3

TwoTracks == <<t1, t2>>
Viewers == [s \in Screens |-> IF s = s1 THEN owner ELSE ann]

Free == [public |-> TRUE, license |-> 0]

AllSettings == [public : BOOLEAN, license : 0..1]

\* Of a public playlist anyone may edit, one thing may begin before the first
\* edit is over.  The settings change only before any screen is opened and while
\* an edit, not the owner's, is checked.
Begins ==
  \/ \E q \in EditRequests : stage[q] = "idle" /\ stage'[q] # "idle"
  \/ \E s \in Screens : load[s] = "none" /\ load'[s] # "none"
  \/ ~(room' \subseteq room)

Checked(q) == stage[q] \in {"access", "invitation", "write"} /\ Caller(q) # Owner

Bounded ==
  /\ overlapped => ~Begins
  /\ overlapped' =>
       /\ playlist = Free /\ UNCHANGED <<playlist, invited, room>>
       /\ invited = {} /\ \A q \in EditRequests : stage[q] # "done" \/ overlapped
  /\ <<playlist, invited>>' # <<playlist, invited>> =>
       \/ \E q \in EditRequests : Checked(q)
       \/ UNCHANGED playlist /\ room = {} /\ \A s \in Screens : shown[s] = None /\ load[s] = "none"

BoundedSpec == ScreensInit /\ [][ScreensNext /\ Bounded]_playlistVars
=============================================================================
