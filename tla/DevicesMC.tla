----------------------------- MODULE DevicesMC -----------------------------
(***************************************************************************)
(* Model checking of Friends and Devices.  Alice owns a device; Bob is her *)
(* friend, Carol has asked to be.                                          *)
(***************************************************************************)
EXTENDS Devices

CONSTANTS alice, bob, carol,  \* Users
          q1, q2, q3,         \* Requests
          f1, f2,             \* OldRows
          d1                  \* OldDevices

Friendship == [f \in OldRows |-> IF f = f1
                 THEN [from |-> alice, to |-> bob, status |-> "accepted"]
                 ELSE [from |-> carol, to |-> alice, status |-> "pending"]]

AliceOwns == [d \in OldDevices |-> alice]
BobPlays == [g \in OldGrants |-> [device |-> d1, delegate |-> bob, state |-> "active"]]

\* The requests are interchangeable: q1 begins first and q3 last.
InOrder ==
  /\ pc'[q2] # "idle" => pc[q1] # "idle"
  /\ pc'[q3] # "idle" => pc[q2] # "idle"

BoundedSpec ==
  Init /\ [][Next /\ Record /\ InOrder]_vars /\ \A q \in Requests : WF_vars(Step(q) /\ Record)
=============================================================================
