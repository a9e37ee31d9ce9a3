----------------------------- MODULE AccountsMC -----------------------------
(***************************************************************************)
(* Model checking of Accounts and Sessions: two old users, one of whom has *)
(* a session, and two Google accounts.                                     *)
(***************************************************************************)
EXTENDS Accounts, TLC

CONSTANTS
  typed, lower, second, free,  \* members of Addresses
  u1, u2,                      \* members of OldUsers
  g1, g2                       \* members of Googles

\* lower is typed in small letters; nobody has registered with free.
LowerCase == [a \in Addresses |-> IF a = typed THEN lower ELSE a]
Registered == [u \in OldUsers |-> IF u = u1 THEN lower ELSE second]

\* g1 belongs to the owner of an old user's address, g2 to someone new.
GoogleMail == [g \in Googles |-> IF g = g1 THEN second ELSE free]

\* Requests are interchangeable.
RequestSymmetry == Permutations(Requests)
=============================================================================
