--------------------------- MODULE DevicesProofs ---------------------------
(***************************************************************************)
(* Proofs about Friends and Devices: two users have one friendship unless  *)
(* their requests crossed, a device has one active delegation at most, and *)
(* a command is sent for those alone whom the middleware may let through,  *)
(* for any number of users, devices, delegations and overlapping requests. *)
(***************************************************************************)
EXTENDS Devices, FiniteSetTheorems, TLAPS

Granting == {"friend", "supersede", "update", "insert", "commit"}
OnDevice == Granting \cup {"cascade", "revoke", "withdraw", "send", "join"}

\* A request under way knows its users and its row, and no row bears its name yet.
Shape(q) ==
  /\ pc[q] \notin {"idle", "done"} => caller[q] \in Users
  /\ pc[q] \in Granting \cup {"create"} => peer[q] \in Users
  /\ pc[q] \in {"accept", "remove"} => subject[q] \in Rows
  /\ pc[q] \in OnDevice => subject[q] \in DeviceRows
  /\ pc[q] # "done" => friendship[q] = Nil /\ owner[q] = Nil /\ delegation[q] = Nil

\* A request about to insert has seen none of the rows that there are between its
\* two users, and those who inserted them did not see its row.
PairInv ==
  /\ OneRowPerPair
  /\ \A q, r \in Requests : r \in known[q] => pc[r] = "done"
  /\ \A q \in Requests : pc[q] = "create" =>
       /\ caller[q] # peer[q]
       /\ \A f \in Between(caller[q], peer[q]) : f \in Requests /\ f \notin known[q]

\* Snapshots and row locks are about the device of the request, and belong to one
\* transaction each.
LockInv ==
  \A q \in Requests :
    /\ snapshot[q] # {} => pc[q] \in {"update", "withdraw"}
    /\ locked[q] # {} => pc[q] \in {"insert", "commit"}
    /\ \A g \in snapshot[q] \cup locked[q] :
         delegation[g] # Nil /\ delegation[g].device = subject[q]
    /\ \A r \in Requests : q # r => locked[q] \cap locked[r] = {}

\* A grant that is about to commit holds the only active delegation of a device
\* that is there, and is alone with it; so is a deletion.
CommitInv ==
  /\ \A g, h \in Active : delegation[g].device = delegation[h].device => g = h
  /\ \A q \in Requests : pc[q] \in {"commit", "cascade"} =>
       /\ subject[q] \in Registered
       /\ \A r \in Requests :
            pc[r] \in {"commit", "cascade"} /\ subject[r] = subject[q] => q = r
  /\ \A q \in Requests : pc[q] = "commit" => ActiveOn(subject[q]) \subseteq locked[q]

\* The variables of the requests.
RequestsOK ==
  /\ pc \in [Requests -> Labels] /\ answer \in [Requests -> Answers]
  /\ caller \in [Requests -> Users \cup {Nil}] /\ peer \in [Requests -> Users \cup {Nil}]
  /\ subject \in [Requests -> Rows \cup DeviceRows \cup {Nil}]

TypeInv == DevicesTypeOK /\ RequestsOK /\ \A q \in Requests : Shape(q)
DInv == TypeInv /\ PairInv /\ LockInv /\ CommitInv

-----------------------------------------------------------------------------
(* What a step is made of: one request goes on, ...                        *)

Moved(q) ==
  /\ pc[q] # "done" /\ RequestsOK'
  /\ \A r \in Requests \ {q} :
       /\ pc'[r] = pc[r] /\ answer'[r] = answer[r]
       /\ caller'[r] = caller[r] /\ peer'[r] = peer[r] /\ subject'[r] = subject[r]

\* ... and no row appears but one of its name.
Born(q) ==
  /\ \A f \in Rows \ {q} : friendship[f] = Nil => friendship'[f] = Nil
  /\ \A d \in DeviceRows \ {q} : owner'[d] = owner[d]
  /\ \A g \in Grants \ {q} : delegation[g] = Nil => delegation'[g] = Nil

\* A request that arrives.
LEMMA Started ==
  ASSUME RequestsOK, NEW q \in Requests, NEW u \in Users, NEW v \in Users \cup {Nil},
         NEW x \in Rows \cup DeviceRows \cup {Nil}, NEW l \in Labels,
         Idle(q), Start(q, u, v, x, l)
  PROVE  /\ Moved(q) /\ pc[q] = "idle" /\ pc'[q] = l /\ answer'[q] = answer[q]
         /\ caller'[q] = u /\ peer'[q] = v /\ subject'[q] = x
BY DEF RequestsOK, Idle, Start, Moved

\* A request that goes on to its next statement.
LEMMA Gone ==
  ASSUME RequestsOK, NEW q \in Requests, NEW l \in Labels, pc[q] # "done", Goto(q, l)
  PROVE  /\ Moved(q) /\ pc'[q] = l /\ answer'[q] = answer[q]
         /\ caller'[q] = caller[q] /\ peer'[q] = peer[q] /\ subject'[q] = subject[q]
BY DEF RequestsOK, Goto, Moved

\* A request that is answered.
LEMMA Answered ==
  ASSUME RequestsOK, NEW q \in Requests, NEW a \in Answers, pc[q] # "done", Answer(q, a)
  PROVE  Moved(q) /\ pc'[q] = "done" /\ answer'[q] = a
BY DEF RequestsOK, Answer, Moved, Labels

\* A request that has committed, whether its client learns it or not.
LEMMA CommittedAnswer ==
  ASSUME RequestsOK, NEW q \in Requests, pc[q] # "done", Committed(q)
  PROVE  Moved(q) /\ pc'[q] = "done"
BY Answered DEF Committed, Answers

\* The requests that wait keep their shape.
LEMMA Shapes ==
  ASSUME TypeInv, NEW q \in Requests, Moved(q), Born(q), Shape(q)'
  PROVE  \A r \in Requests : Shape(r)'
<1> SUFFICES ASSUME NEW r \in Requests, r # q PROVE Shape(r)'
  OBVIOUS
<1>1. r \in Rows /\ r \in DeviceRows /\ r \in Grants /\ r \in Requests \ {q}
  BY DEF Rows, DeviceRows, Grants
<1> QED BY <1>1 DEF TypeInv, Shape, Moved, Born

\* The friendships do not mind what the devices do.
LEMMA PairsKept ==
  ASSUME TypeInv, PairInv, NEW q \in Requests, Moved(q), UNCHANGED friendVars,
         pc'[q] # "create"
  PROVE  PairInv'
<1>1. OneRowPerPair'
  BY DEF PairInv, OneRowPerPair, friendVars, There, Crossed, Pair
<1>2. \A p, r \in Requests : r \in known'[p] => pc'[r] = "done"
  BY DEF PairInv, friendVars, Moved
<1>3. \A p \in Requests : pc'[p] = "create" =>
        /\ caller'[p] # peer'[p]
        /\ \A f \in Between(caller[p], peer[p])' : f \in Requests /\ f \notin known'[p]
  BY DEF PairInv, friendVars, Moved, Between, There, Pair
<1> QED BY <1>1, <1>2, <1>3 DEF PairInv, Between

\* The transactions of devices do not mind a request that has no part in them.
LEMMA LocksKept ==
  ASSUME TypeInv, LockInv, CommitInv, NEW q \in Requests, Moved(q),
         UNCHANGED <<tables, snapshot, locked>>, snapshot[q] = {} /\ locked[q] = {},
         pc'[q] \notin {"commit", "cascade"}
  PROVE  LockInv' /\ CommitInv'
<1>1. LockInv'
  BY DEF LockInv, Moved, tables
<1>2. CommitInv'
  BY DEF CommitInv, Moved, tables, Registered, Active, ActiveOn
<1> QED BY <1>1, <1>2

-----------------------------------------------------------------------------
(* Friendships                                                             *)

\* A step of Friends leaves the devices alone.
LEMMA FriendsFrame ==
  ASSUME DInv, NEW q \in Requests, Moved(q), UNCHANGED deviceVars,
         pc[q] \notin OnDevice, pc'[q] \notin OnDevice,
         Born(q), Shape(q)', FriendsTypeOK', PairInv'
  PROVE  DInv'
<1>1. snapshot[q] = {} /\ locked[q] = {}
  BY DEF DInv, LockInv, OnDevice, Granting
<1>2. LockInv' /\ CommitInv'
  BY <1>1, LocksKept DEF DInv, deviceVars, localVars, OnDevice, Granting
<1>3. DevicesTypeOK'
  BY DEF DInv, TypeInv, DevicesTypeOK, deviceVars, tables, localVars, Active, Registered
<1>4. \A r \in Requests : Shape(r)'
  BY Shapes DEF DInv
<1> QED BY <1>2, <1>3, <1>4 DEF DInv, TypeInv, Moved

\* A step that changes no friendship, and does not go on to insert one.
LEMMA FriendsIdle ==
  ASSUME DInv, NEW q \in Requests, Moved(q), UNCHANGED <<friendVars, deviceVars>>,
         pc[q] \notin OnDevice, pc'[q] \notin OnDevice, pc'[q] # "create", Shape(q)'
  PROVE  DInv'
<1>1. Born(q)
  BY DEF Born, friendVars, deviceVars, tables
<1>2. FriendsTypeOK'
  BY DEF DInv, TypeInv, RequestsOK, Moved, DevicesTypeOK, FriendsTypeOK, friendVars, There
<1>3. PairInv'
  BY PairsKept DEF DInv
<1> QED BY <1>1, <1>2, <1>3, FriendsFrame

\* The requests that are about to insert, and their rows, wait for the lookup.
LEMMA SendRequestInv ==
  ASSUME DInv, NEW q \in Requests, NEW u \in Users, NEW v \in Users,
         SendRequest(q, u, v), UNCHANGED deviceVars
  PROVE  DInv'
<1>1. pc[q] = "idle" /\ q \notin There /\ RequestsOK
  BY DEF SendRequest, Idle, DInv, TypeInv, Shape, There
<1>2. CASE \E a \in {"self", "exists"} : Answer(q, a) /\ UNCHANGED known
  <2>1. PICK a \in Answers : Answer(q, a)
    BY <1>2 DEF Answers
  <2>2. Moved(q) /\ pc'[q] = "done"
    BY <1>1, <2>1, Answered
  <2>3. UNCHANGED friendVars
    BY <1>2 DEF SendRequest, friendVars
  <2> QED BY <1>1, <2>2, <2>3, FriendsIdle DEF Shape, OnDevice, Granting
<1>3. CASE /\ u # v /\ Between(u, v) = {}
           /\ known' = [known EXCEPT ![q] = There]
           /\ Start(q, u, v, Nil, "create")
  <2>1. /\ Moved(q) /\ pc'[q] = "create"
        /\ caller'[q] = u /\ peer'[q] = v
    BY <1>1, <1>3, Started DEF SendRequest, Labels
  <2>2. friendship' = friendship /\ known \in [Requests -> SUBSET Rows] /\ There \subseteq Rows
    BY DEF SendRequest, DInv, TypeInv, DevicesTypeOK, FriendsTypeOK, There
  <2>3. known' \in [Requests -> SUBSET Rows] /\ known'[q] = There
        /\ \A r \in Requests : r # q => known'[r] = known[r]
    BY <1>3, <2>2
  <2>4. FriendsTypeOK'
    BY <2>1, <2>2, <2>3
    DEF DInv, TypeInv, RequestsOK, Moved, DevicesTypeOK, FriendsTypeOK, There
  <2>5. OneRowPerPair'
    BY <1>1, <2>2, <2>3 DEF DInv, PairInv, OneRowPerPair, There, Crossed
  <2>6. \A p, r \in Requests : r \in known'[p] => pc'[r] = "done"
    <3> SUFFICES ASSUME NEW p \in Requests, NEW r \in Requests, r \in known'[p]
                 PROVE  pc[r] = "done"
      BY <2>1 DEF Moved
    <3> QED BY <2>3 DEF DInv, PairInv, TypeInv, Shape, There
  <2>7. \A p \in Requests : pc'[p] = "create" =>
          /\ caller'[p] # peer'[p]
          /\ \A f \in Between(caller'[p], peer'[p]) : f \in Requests /\ f \notin known'[p]
    <3> SUFFICES ASSUME NEW p \in Requests, pc'[p] = "create"
                 PROVE  /\ caller'[p] # peer'[p]
                        /\ \A f \in Between(caller'[p], peer'[p]) :
                             f \in Requests /\ f \notin known'[p]
      OBVIOUS
    <3>1. CASE p = q
      BY <1>3, <2>1, <3>1
    <3>2. CASE p # q
      BY <2>1, <2>3, <3>2 DEF DInv, PairInv, Moved
    <3> QED BY <3>1, <3>2
  <2>8. PairInv'
    BY <2>2, <2>5, <2>6, <2>7 DEF PairInv, Between, There
  <2>9. Born(q) /\ Shape(q)'
    BY <1>1, <2>1, <2>2, FriendsAssumption
    DEF Born, Shape, DInv, TypeInv, deviceVars, tables, OnDevice, Granting
  <2> QED BY <1>1, <2>1, <2>4, <2>8, <2>9, FriendsFrame DEF OnDevice, Granting
<1> QED BY <1>2, <1>3 DEF SendRequest

\* The new row meets those alone that its request did not see, and whose requests
\* did not see it.
LEMMA CreateRequestInv ==
  ASSUME DInv, NEW q \in Requests, CreateRequest(q), UNCHANGED deviceVars
  PROVE  DInv'
<1>1. /\ pc[q] = "create" /\ q \in Rows /\ q \notin There /\ RequestsOK
      /\ caller[q] \in Users /\ peer[q] \in Users
  BY DEF CreateRequest, DInv, TypeInv, Shape, There, Rows
<1>2. PICK a \in Answers : Answer(q, a)
  BY DEF CreateRequest, Answers
<1>3. Moved(q) /\ pc'[q] = "done"
  BY <1>1, <1>2, Answered
<1>4. Shape(q)'
  BY <1>3 DEF Shape, OnDevice, Granting
<1>5. CASE UNCHANGED friendship
  BY <1>1, <1>3, <1>4, <1>5, FriendsIdle
  DEF CreateRequest, friendVars, OnDevice, Granting
<1>6. CASE /\ Directed(caller[q], peer[q]) = {}
           /\ friendship' = [friendship EXCEPT ![q] =
                               [from |-> caller[q], to |-> peer[q], status |-> "pending"]]
  <2> DEFINE new == [from |-> caller[q], to |-> peer[q], status |-> "pending"]
  <2>1. /\ known' = known /\ known \in [Requests -> SUBSET Rows]
        /\ friendship \in [Rows -> Friendships \cup {Nil}]
    BY DEF CreateRequest, DInv, TypeInv, DevicesTypeOK, FriendsTypeOK
  <2>2. /\ new \in Friendships /\ new # Nil /\ caller[q] # peer[q]
        /\ new.from = caller[q] /\ new.to = peer[q]
    BY <1>1, FriendsAssumption DEF Friendships, DInv, PairInv
  <2> HIDE DEF new
  <2>3. /\ friendship' \in [Rows -> Friendships \cup {Nil}]
        /\ friendship'[q] = new
        /\ \A f \in Rows : f # q => friendship'[f] = friendship[f]
        /\ There' = There \cup {q} /\ There \subseteq Rows
    BY <1>1, <1>6, <2>1, <2>2 DEF There, new
  <2>4. FriendsTypeOK'
    BY <1>3, <2>1, <2>2, <2>3
    DEF DInv, TypeInv, RequestsOK, Moved, DevicesTypeOK, FriendsTypeOK, There
  <2>5. \A f \in There : Pair(friendship[f]) = {caller[q], peer[q]} =>
          /\ f \in Requests /\ f \notin known[q] /\ q \notin known[f]
          /\ friendship[f].from = peer[q] /\ friendship[f].to = caller[q]
    <3> SUFFICES ASSUME NEW f \in There, Pair(friendship[f]) = {caller[q], peer[q]}
                 PROVE  /\ f \in Requests /\ f \notin known[q] /\ q \notin known[f]
                        /\ friendship[f].from = peer[q] /\ friendship[f].to = caller[q]
      OBVIOUS
    <3>1. f \in Between(caller[q], peer[q])
      BY DEF Between
    <3>2. f \in Requests /\ f \notin known[q] /\ q \notin known[f]
      BY <1>1, <3>1 DEF DInv, PairInv
    <3>3. friendship[f].from # caller[q]
      BY <1>6, <3>1 DEF Directed
    <3>4. {friendship[f].from, friendship[f].to} = {caller[q], peer[q]}
      BY DEF Pair
    <3>5. friendship[f].from = peer[q]
      BY <3>3, <3>4
    <3>6. friendship[f].to = caller[q]
      BY <2>2, <3>4, <3>5
    <3> QED BY <3>2, <3>5, <3>6
  <2>6. OneRowPerPair'
    <3> SUFFICES ASSUME NEW f \in There', NEW g \in There',
                        Pair(friendship'[f]) = Pair(friendship'[g]), f # g
                 PROVE  /\ Crossed(f, g)'
                        /\ friendship'[f].from = friendship'[g].to
      BY DEF OneRowPerPair, Pair, Crossed
    <3>1. Crossed(f, g)' <=> Crossed(f, g)
      BY <2>1 DEF Crossed
    <3>2. CASE f = q
      <4>1. g \in There /\ friendship'[g] = friendship[g]
        BY <2>3, <3>2
      <4>2. Pair(friendship[g]) = {caller[q], peer[q]}
        BY <2>2, <2>3, <3>2, <4>1 DEF Pair
      <4> QED BY <2>2, <2>3, <2>5, <3>1, <3>2, <4>1, <4>2 DEF Crossed
    <3>3. CASE g = q
      <4>1. f \in There /\ friendship'[f] = friendship[f]
        BY <2>3, <3>3
      <4>2. Pair(friendship[f]) = {caller[q], peer[q]}
        BY <2>2, <2>3, <3>3, <4>1 DEF Pair
      <4> QED BY <2>2, <2>3, <2>5, <3>1, <3>3, <4>1, <4>2 DEF Crossed
    <3>4. CASE f # q /\ g # q
      BY <2>3, <3>1, <3>4 DEF DInv, PairInv, OneRowPerPair
    <3> QED BY <3>2, <3>3, <3>4
  <2>7. \A p, r \in Requests : r \in known'[p] => pc'[r] = "done"
    BY <1>3, <2>1 DEF DInv, PairInv, Moved
  <2>8. ASSUME NEW p \in Requests, pc'[p] = "create"
        PROVE  /\ caller'[p] # peer'[p]
               /\ \A f \in Between(caller[p], peer[p])' : f \in Requests /\ f \notin known'[p]
    <3>1. p # q /\ pc[p] = "create" /\ caller'[p] = caller[p] /\ peer'[p] = peer[p]
      BY <1>3, <2>8 DEF Moved
    <3>2. ASSUME NEW f \in Between(caller[p], peer[p])', f # q
          PROVE  f \in Between(caller[p], peer[p])
      BY <2>3, <3>1, <3>2 DEF Between
    <3>3. q \notin known[p]
      BY <1>1 DEF DInv, PairInv
    <3> QED BY <2>1, <3>1, <3>2, <3>3 DEF DInv, PairInv
  <2>9. PairInv'
    BY <2>6, <2>7, <2>8 DEF PairInv, Between
  <2>10. Born(q)
    BY <2>3 DEF Born, deviceVars, tables
  <2> QED BY <1>1, <1>3, <1>4, <2>4, <2>9, <2>10, FriendsFrame DEF OnDevice, Granting
<1> QED BY <1>5, <1>6 DEF CreateRequest

\* A request is answered, or goes on to accept a row or to remove it.
LEMMA LookupInv ==
  ASSUME DInv, NEW q \in Requests, NEW u \in Users, NEW f \in Rows,
         NEW next \in {"accept", "remove"}, Idle(q),
         (\E a \in Answers : Answer(q, a)) \/ Start(q, u, Nil, f, next),
         UNCHANGED <<friendVars, deviceVars>>
  PROVE  DInv'
<1>1. pc[q] = "idle" /\ RequestsOK
  BY DEF Idle, DInv, TypeInv
<1>2. CASE \E a \in Answers : Answer(q, a)
  BY <1>1, <1>2, Answered, FriendsIdle DEF Shape, OnDevice, Granting
<1>3. CASE Start(q, u, Nil, f, next)
  <2>1. /\ Moved(q) /\ pc'[q] = next /\ caller'[q] = u /\ subject'[q] = f
    BY <1>1, <1>3, Started DEF Labels
  <2>2. Shape(q)'
    BY <1>1, <2>1
    DEF DInv, TypeInv, Shape, OnDevice, Granting, friendVars, deviceVars, tables
  <2> QED BY <1>1, <2>1, <2>2, FriendsIdle DEF OnDevice, Granting
<1> QED BY <1>2, <1>3

\* A row that is accepted keeps its users.
LEMMA AcceptInv ==
  ASSUME DInv, NEW q \in Requests, Accept(q), UNCHANGED deviceVars
  PROVE  DInv'
<1>1. pc[q] = "accept" /\ subject[q] \in Rows /\ RequestsOK
  BY DEF Accept, DInv, TypeInv, Shape
<1>2. Moved(q) /\ pc'[q] = "done"
  BY <1>1, Answered DEF Accept, Answers
<1>3. known' = known /\ friendship \in [Rows -> Friendships \cup {Nil}]
  BY DEF Accept, DInv, TypeInv, DevicesTypeOK, FriendsTypeOK
<1>4. ASSUME NEW f \in Rows
      PROVE  \/ friendship[f] = Nil /\ friendship'[f] = Nil
             \/ /\ friendship[f] \in Friendships /\ friendship'[f] \in Friendships
                /\ friendship'[f].from = friendship[f].from
                /\ friendship'[f].to = friendship[f].to
  <2>1. CASE friendship[f] = Nil
    BY <1>1, <1>3, <2>1 DEF Accept, There
  <2>2. CASE friendship[f] # Nil
    BY <1>1, <1>3, <2>2 DEF Accept, There, Friendships
  <2> QED BY <2>1, <2>2
<1>5. There' = There /\ \A f \in There : Pair(friendship'[f]) = Pair(friendship[f])
  BY <1>4, FriendsAssumption DEF There, Pair
<1>6. friendship' \in [Rows -> Friendships \cup {Nil}]
  BY <1>3, <1>4 DEF Accept
<1>7. FriendsTypeOK'
  BY <1>2, <1>3, <1>4, <1>5, <1>6
  DEF DInv, TypeInv, RequestsOK, Moved, DevicesTypeOK, FriendsTypeOK, There
<1>8. OneRowPerPair'
  BY <1>3, <1>4, <1>5 DEF DInv, PairInv, OneRowPerPair, Crossed, There
<1>9. \A p \in Requests :
        Between(caller[p], peer[p]) = {f \in There' : Pair(friendship'[f]) = {caller[p], peer[p]}}
  BY <1>5 DEF Between
<1>10. PairInv'
  BY <1>2, <1>3, <1>8, <1>9 DEF DInv, PairInv, Moved, Between
<1>11. Born(q) /\ Shape(q)'
  BY <1>2, <1>4, FriendsAssumption DEF Born, deviceVars, tables, Shape, OnDevice, Granting
<1> QED BY <1>1, <1>2, <1>7, <1>10, <1>11, FriendsFrame DEF OnDevice, Granting

\* The rows that are left satisfy what all did.
LEMMA RemoveInv ==
  ASSUME DInv, NEW q \in Requests, Remove(q), UNCHANGED deviceVars
  PROVE  DInv'
<1>1. pc[q] = "remove" /\ subject[q] \in Rows /\ RequestsOK
  BY DEF Remove, DInv, TypeInv, Shape
<1>2. Moved(q) /\ pc'[q] = "done"
  BY <1>1, Answered DEF Remove, Answers
<1>3. known' = known /\ friendship \in [Rows -> Friendships \cup {Nil}]
  BY DEF Remove, DInv, TypeInv, DevicesTypeOK, FriendsTypeOK
<1>4. /\ friendship' \in [Rows -> Friendships \cup {Nil}]
      /\ \A f \in Rows : friendship'[f] \in {friendship[f], Nil}
  BY <1>3 DEF Remove
<1>5. There' \subseteq There /\ \A f \in There' : friendship'[f] = friendship[f]
  BY <1>4 DEF There
<1>6. FriendsTypeOK'
  BY <1>2, <1>3, <1>4, <1>5
  DEF DInv, TypeInv, RequestsOK, Moved, DevicesTypeOK, FriendsTypeOK
<1>7. OneRowPerPair'
  <2> SUFFICES ASSUME NEW f \in There', NEW g \in There',
                      Pair(friendship'[f]) = Pair(friendship'[g]), f # g
               PROVE  Crossed(f, g)' /\ friendship'[f].from = friendship'[g].to
    BY DEF OneRowPerPair, Crossed, Pair
  <2>1. /\ f \in There /\ g \in There
        /\ friendship'[f] = friendship[f] /\ friendship'[g] = friendship[g]
    BY <1>5
  <2> QED BY <1>3, <2>1 DEF DInv, PairInv, OneRowPerPair, Crossed
<1>8. \A p \in Requests :
        {f \in There' : Pair(friendship'[f]) = {caller[p], peer[p]}}
          \subseteq Between(caller[p], peer[p])
  BY <1>5 DEF Between, Pair
<1>9. PairInv'
  BY <1>2, <1>3, <1>7, <1>8 DEF DInv, PairInv, Moved, Between, Pair
<1>10. Born(q) /\ Shape(q)'
  BY <1>2, <1>4 DEF Born, deviceVars, tables, Shape, OnDevice, Granting
<1> QED BY <1>1, <1>2, <1>6, <1>9, <1>10, FriendsFrame DEF OnDevice, Granting

\* A profile is looked at.
LEMMA ProfileInv ==
  ASSUME DInv, NEW q \in Requests, UNCHANGED deviceVars,
         (\E u, v \in Users : GetUserProfile(q, u, v)) \/ ShowProfile(q)
  PROVE  DInv'
<1>1. RequestsOK /\ UNCHANGED <<friendVars, deviceVars>>
  BY DEF DInv, TypeInv, GetUserProfile, ShowProfile
<1>2. CASE \E u, v \in Users : GetUserProfile(q, u, v)
  <2>1. PICK u \in Users, v \in Users, l \in {"friends", "public"} :
          Idle(q) /\ Start(q, u, v, Nil, l)
    BY <1>2 DEF GetUserProfile
  <2>2. Moved(q) /\ pc[q] = "idle" /\ pc'[q] = l /\ caller'[q] = u
    BY <1>1, <2>1, Started DEF Labels
  <2>3. Shape(q)'
    BY <1>1, <2>2
    DEF DInv, TypeInv, Shape, OnDevice, Granting, friendVars, deviceVars, tables
  <2> QED BY <1>1, <2>2, <2>3, FriendsIdle DEF OnDevice, Granting
<1>3. CASE ShowProfile(q)
  <2>1. pc[q] \in {"friends", "public"} /\ \E a \in Answers : Answer(q, a)
    BY <1>3 DEF ShowProfile, Answers
  <2> QED BY <1>1, <2>1, Answered, FriendsIdle DEF Shape, OnDevice, Granting
<1> QED BY <1>2, <1>3

\* So every step of Friends keeps the invariant.
LEMMA FriendsNextInv == DInv /\ FriendsNext /\ UNCHANGED deviceVars => DInv'
<1> SUFFICES ASSUME DInv, NEW q \in Requests, UNCHANGED deviceVars,
                    \/ \E u, v \in Users : SendRequest(q, u, v) \/ GetUserProfile(q, u, v)
                    \/ \E u \in Users, f \in Rows :
                         AcceptRequest(q, u, f) \/ RejectRequest(q, u, f) \/ Unfriend(q, u, f)
                    \/ FriendsStep(q)
             PROVE  DInv'
  BY DEF FriendsNext
<1>1. CASE \E u, v \in Users : SendRequest(q, u, v)
  BY <1>1, SendRequestInv
<1>2. CASE \E u \in Users, f \in Rows : AcceptRequest(q, u, f)
  <2>1. PICK u \in Users, f \in Rows : AcceptRequest(q, u, f)
    BY <1>2
  <2>2. /\ Idle(q) /\ UNCHANGED friendVars
        /\ (\E a \in Answers : Answer(q, a)) \/ Start(q, u, Nil, f, "accept")
    BY <2>1 DEF AcceptRequest, LookupRequest, Answers
  <2> QED BY <2>2, LookupInv
<1>3. CASE \E u \in Users, f \in Rows : RejectRequest(q, u, f)
  <2>1. PICK u \in Users, f \in Rows : RejectRequest(q, u, f)
    BY <1>3
  <2>2. /\ Idle(q) /\ UNCHANGED friendVars
        /\ (\E a \in Answers : Answer(q, a)) \/ Start(q, u, Nil, f, "remove")
    BY <2>1 DEF RejectRequest, LookupRequest, Answers
  <2> QED BY <2>2, LookupInv
<1>4. CASE \E u \in Users, f \in Rows : Unfriend(q, u, f)
  <2>1. PICK u \in Users, f \in Rows : Unfriend(q, u, f)
    BY <1>4
  <2>2. /\ Idle(q) /\ UNCHANGED friendVars
        /\ (\E a \in Answers : Answer(q, a)) \/ Start(q, u, Nil, f, "remove")
    BY <2>1 DEF Unfriend, Answers
  <2> QED BY <2>2, LookupInv
<1>5. CASE CreateRequest(q)
  BY <1>5, CreateRequestInv
<1>6. CASE Accept(q)
  BY <1>6, AcceptInv
<1>7. CASE Remove(q)
  BY <1>7, RemoveInv
<1>8. CASE ShowProfile(q) \/ \E u, v \in Users : GetUserProfile(q, u, v)
  BY <1>8, ProfileInv
<1> QED BY <1>1, <1>2, <1>3, <1>4, <1>5, <1>6, <1>7, <1>8 DEF FriendsStep

-----------------------------------------------------------------------------
(* Devices, delegations and commands                                       *)

TablesOK ==
  /\ owner \in [DeviceRows -> Users \cup {Nil}]
  /\ deleted \subseteq {d \in DeviceRows : owner[d] # Nil}
  /\ delegation \in [Grants -> Delegations \cup {Nil}]
  /\ \A g \in Active : delegation[g].device \in Registered

LocalsOK ==
  /\ snapshot \in [Requests -> SUBSET Grants] /\ locked \in [Requests -> SUBSET Active]

\* A step of Devices leaves the friendships alone.
LEMMA DevicesFrame ==
  ASSUME DInv, NEW q \in Requests, Moved(q), UNCHANGED friendVars, pc'[q] # "create",
         Born(q), Shape(q)', TablesOK', LocalsOK', LockInv', CommitInv'
  PROVE  DInv'
<1>1. FriendsTypeOK'
  BY DEF DInv, TypeInv, RequestsOK, Moved, DevicesTypeOK, FriendsTypeOK, friendVars, There
<1>2. PairInv'
  BY PairsKept DEF DInv
<1>3. \A r \in Requests : Shape(r)'
  BY Shapes DEF DInv
<1>4. DevicesTypeOK'
  BY <1>1 DEF DevicesTypeOK, TablesOK, LocalsOK
<1> QED BY <1>2, <1>3, <1>4 DEF DInv, TypeInv, Moved

\* A request outside its transactions that changes no row and locks none.
LEMMA StillInv ==
  ASSUME DInv, NEW q \in Requests, Moved(q), UNCHANGED <<friendVars, deviceVars>>,
         snapshot[q] = {} /\ locked[q] = {}, Shape(q)',
         pc'[q] \notin {"create", "commit", "cascade"}
  PROVE  DInv'
<1>1. Born(q)
  BY DEF Born, deviceVars, tables, friendVars
<1>2. TablesOK' /\ LocalsOK'
  BY DEF DInv, TypeInv, DevicesTypeOK, TablesOK, LocalsOK, deviceVars, tables, localVars,
         Active, Registered
<1>3. LockInv' /\ CommitInv'
  BY LocksKept DEF DInv, deviceVars, localVars
<1> QED BY <1>1, <1>2, <1>3, DevicesFrame

\* A request that is answered before it has begun.
LEMMA RefusedInv ==
  ASSUME DInv, NEW q \in Requests, NEW a \in Answers, Idle(q), Answer(q, a),
         UNCHANGED <<friendVars, deviceVars>>
  PROVE  DInv'
<1>1. Moved(q) /\ pc'[q] = "done" /\ Shape(q)'
  BY Answered DEF DInv, TypeInv, Idle, Shape, OnDevice, Granting
<1>2. snapshot[q] = {} /\ locked[q] = {}
  BY DEF DInv, LockInv, Idle
<1> QED BY <1>1, <1>2, StillInv

\* A request whose transaction ends without a change.
LEMMA ClosedInv ==
  ASSUME DInv, NEW q \in Requests, NEW a \in Answers, pc[q] # "done",
         Answer(q, a), Close(q), UNCHANGED <<friendVars, tables>>
  PROVE  DInv'
<1>1. Moved(q) /\ pc'[q] = "done" /\ Shape(q)'
  BY Answered DEF DInv, TypeInv, Shape, OnDevice, Granting
<1>2. Born(q)
  BY DEF Born, tables, friendVars
<1>3. LocalsOK /\ TablesOK
  BY DEF DInv, TypeInv, DevicesTypeOK, TablesOK, LocalsOK
<1>4. /\ snapshot' \in [Requests -> SUBSET Grants] /\ locked' \in [Requests -> SUBSET Active]
      /\ snapshot'[q] = {} /\ locked'[q] = {}
      /\ \A r \in Requests \ {q} :
           snapshot'[r] = snapshot[r] /\ locked'[r] = locked[r]
  BY <1>3 DEF LocalsOK, Close
<1>5. Active' = Active
  BY DEF tables, Active
<1>6. TablesOK' /\ LocalsOK'
  BY <1>3, <1>4, <1>5 DEF TablesOK, LocalsOK, tables, Registered
<1>7. LockInv'
  BY <1>1, <1>4 DEF DInv, LockInv, Moved, tables
<1>8. CommitInv'
  BY <1>1, <1>4, <1>5 DEF DInv, CommitInv, Moved, tables, Registered, ActiveOn
<1> QED BY <1>1, <1>2, <1>6, <1>7, <1>8, DevicesFrame

\* The new device is of no delegation and of no request.
LEMMA RegisterInv ==
  ASSUME DInv, NEW q \in Requests, NEW u \in Users, Register(q, u)
  PROVE  DInv'
<1>1. CASE Answer(q, "conflict") /\ UNCHANGED owner
  BY <1>1, RefusedInv DEF Register, Answers, deviceVars, tables
<1>2. CASE owner' = [owner EXCEPT ![q] = u] /\ Answer(q, "ok")
  <2>1. Moved(q) /\ pc'[q] = "done" /\ Shape(q)' /\ pc[q] = "idle"
    BY <1>2, Answered DEF Register, DInv, TypeInv, Idle, Answers, Shape, OnDevice, Granting
  <2>2. /\ UNCHANGED <<deleted, delegation, localVars, friendVars>>
        /\ owner[q] = Nil /\ q \in DeviceRows /\ u # Nil
        /\ snapshot[q] = {} /\ locked[q] = {}
        /\ owner \in [DeviceRows -> Users \cup {Nil}]
    BY <2>1, FriendsAssumption
    DEF Register, DInv, TypeInv, DevicesTypeOK, Shape, DeviceRows, LockInv
  <2>3. /\ owner' \in [DeviceRows -> Users \cup {Nil}]
        /\ \A d \in DeviceRows : owner[d] # Nil => owner'[d] = owner[d]
        /\ \A d \in DeviceRows \ {q} : owner'[d] = owner[d]
        /\ Registered \subseteq Registered' /\ Active' = Active
    BY <1>2, <2>2 DEF Registered, Active
  <2>4. Born(q)
    BY <2>2, <2>3 DEF Born, friendVars
  <2>5. TablesOK' /\ LocalsOK'
    BY <2>2, <2>3 DEF DInv, TypeInv, DevicesTypeOK, TablesOK, LocalsOK, localVars
  <2>6. LockInv'
    BY <2>1, <2>2 DEF DInv, LockInv, Moved, localVars
  <2>7. CommitInv'
    BY <2>1, <2>2, <2>3 DEF DInv, CommitInv, Moved, localVars, ActiveOn
  <2> QED BY <2>1, <2>2, <2>4, <2>5, <2>6, <2>7, DevicesFrame
<1> QED BY <1>1, <1>2 DEF Register

\* The row that is locked is of a device that no grant is about to commit on and
\* no other request deletes.
LEMMA DeleteDeviceInv ==
  ASSUME DInv, NEW q \in Requests, NEW u \in Users, NEW d \in DeviceRows,
         DeleteDevice(q, u, d)
  PROVE  DInv'
<1>1. CASE Answer(q, "notfound")
  BY <1>1, RefusedInv DEF DeleteDevice, Answers
<1>2. CASE Owns(u, d) /\ ~Inserting(q, d) /\ ~Deleting(q, d) /\ Start(q, u, Nil, d, "cascade")
  <2>1. /\ Moved(q) /\ pc[q] = "idle" /\ pc'[q] = "cascade"
        /\ caller'[q] = u /\ subject'[q] = d /\ UNCHANGED <<deviceVars, friendVars>>
    BY <1>2, Started DEF DeleteDevice, DInv, TypeInv, Idle, Labels
  <2>2. Shape(q)'
    BY <2>1 DEF DInv, TypeInv, Shape, OnDevice, Granting, friendVars, deviceVars, tables
  <2>3. Born(q) /\ TablesOK' /\ LocalsOK'
    BY <2>1 DEF Born, DInv, TypeInv, DevicesTypeOK, TablesOK, LocalsOK, deviceVars, tables,
                localVars, friendVars, Active, Registered
  <2>4. LockInv'
    BY <2>1 DEF DInv, LockInv, Moved, deviceVars, tables, localVars
  <2>5. CommitInv'
    <3>1. \A g, h \in Active' : delegation'[g].device = delegation'[h].device => g = h
      BY <2>1 DEF DInv, CommitInv, deviceVars, tables, Active
    <3>2. d \in Registered /\ Registered' = Registered
      BY <1>2, <2>1 DEF Owns, Registered, deviceVars, tables
    <3>3. \A r \in Requests \ {q} : pc[r] \in {"commit", "cascade"} => subject[r] # d
      BY <1>2 DEF Inserting, Deleting
    <3>4. \A p \in Requests : pc'[p] \in {"commit", "cascade"} =>
            /\ subject'[p] \in Registered
            /\ \A r \in Requests :
                 pc'[r] \in {"commit", "cascade"} /\ subject'[r] = subject'[p] => p = r
      BY <2>1, <3>2, <3>3 DEF DInv, CommitInv, Moved
    <3>5. \A p \in Requests : pc'[p] = "commit" => ActiveOn(subject[p])' \subseteq locked'[p]
      BY <2>1 DEF DInv, CommitInv, Moved, deviceVars, tables, localVars, ActiveOn, Active
    <3> QED BY <3>1, <3>2, <3>4, <3>5 DEF CommitInv, ActiveOn
  <2> QED BY <2>1, <2>2, <2>3, <2>4, <2>5, DevicesFrame
<1> QED BY <1>1, <1>2 DEF DeleteDevice

\* The delegations of S change their state and nothing else.
LEMMA PutRows ==
  ASSUME TablesOK, NEW S \in SUBSET Grants, \A g \in S : delegation[g] # Nil,
         NEW s \in {"revoked", "deleted"}
  PROVE  /\ Put(S, s) \in [Grants -> Delegations \cup {Nil}]
         /\ \A g \in Grants \ S : Put(S, s)[g] = delegation[g]
         /\ \A g \in S : /\ Put(S, s)[g] # Nil /\ Put(S, s)[g].state = s
                         /\ Put(S, s)[g].device = delegation[g].device
                         /\ Put(S, s)[g].delegate = delegation[g].delegate
<1>1. ASSUME NEW g \in S
      PROVE  /\ [delegation[g] EXCEPT !.state = s] \in Delegations
             /\ [delegation[g] EXCEPT !.state = s].state = s
             /\ [delegation[g] EXCEPT !.state = s].device = delegation[g].device
             /\ [delegation[g] EXCEPT !.state = s].delegate = delegation[g].delegate
  BY DEF TablesOK, Delegations
<1>2. Nil \notin Delegations
  BY DevicesAssumption
<1>3. \A g \in Grants : Put(S, s)[g] = IF g \in S THEN [delegation[g] EXCEPT !.state = s]
                                               ELSE delegation[g]
  BY DEF Put
<1>4. \A g \in Grants : Put(S, s)[g] \in Delegations \cup {Nil}
  BY <1>1, <1>3 DEF TablesOK
<1>5. Put(S, s) \in [Grants -> Delegations \cup {Nil}]
  BY <1>4 DEF Put
<1> QED BY <1>1, <1>2, <1>3, <1>5

\* The device is gone with all its delegations; no transaction had changed one.
LEMMA DeleteCascadeInv ==
  ASSUME DInv, NEW q \in Requests, DeleteCascade(q)
  PROVE  DInv'
<1> DEFINE d == subject[q]
           S == GrantsOn(d)
<1>1. /\ pc[q] = "cascade" /\ d \in DeviceRows /\ d \in Registered
      /\ snapshot[q] = {} /\ locked[q] = {}
      /\ \A r \in Requests \ {q} : pc[r] \in {"commit", "cascade"} => subject[r] # d
  BY DEF DeleteCascade, DInv, TypeInv, Shape, OnDevice, CommitInv, LockInv
<1>2. Moved(q) /\ pc'[q] = "done" /\ Shape(q)'
  BY <1>1, CommittedAnswer DEF DeleteCascade, DInv, TypeInv, Shape, OnDevice, Granting
<1>3. TablesOK /\ LocalsOK
  BY DEF DInv, TypeInv, DevicesTypeOK, TablesOK, LocalsOK
<1>4. S \in SUBSET Grants /\ \A g \in S : delegation[g] # Nil /\ delegation[g].device = d
  BY DEF GrantsOn
<1>5. /\ delegation' \in [Grants -> Delegations \cup {Nil}]
      /\ \A g \in Grants \ S : delegation'[g] = delegation[g]
      /\ \A g \in S : /\ delegation'[g] # Nil /\ delegation'[g].state = "deleted"
                      /\ delegation'[g].device = delegation[g].device
                      /\ delegation'[g].delegate = delegation[g].delegate
  BY <1>3, <1>4, PutRows DEF DeleteCascade
<1> HIDE DEF S
<1>5a. \A g \in Grants : delegation[g] # Nil =>
        /\ delegation'[g] # Nil
        /\ delegation'[g].device = delegation[g].device
        /\ delegation'[g].delegate = delegation[g].delegate
  BY <1>5
<1>6. /\ UNCHANGED <<owner, snapshot, locked, friendVars>>
      /\ deleted' = deleted \cup {d}
      /\ \A r \in Requests \ {q} : locked[r] \cap S = {}
  BY DEF DeleteCascade, localVars, Untouched, S
<1>7. /\ Active' = Active \ S
      /\ \A g \in Active' : delegation'[g] = delegation[g]
  BY <1>4, <1>5 DEF Active
<1>8. \A g \in Active' : delegation[g].device # d
  BY <1>7 DEF S, GrantsOn, Active
<1>9. Registered' = Registered \ {d}
  BY <1>6 DEF Registered
<1>10. TablesOK'
  BY <1>1, <1>3, <1>5, <1>6, <1>7, <1>8, <1>9 DEF TablesOK, Registered
<1>11. LocalsOK'
  BY <1>1, <1>3, <1>6, <1>7 DEF LocalsOK
<1>12. LockInv'
  BY <1>5a, <1>1, <1>2, <1>3, <1>6 DEF DInv, LockInv, Moved, LocalsOK, Active
<1>13. CommitInv'
  <2>1. \A g, h \in Active' : delegation'[g].device = delegation'[h].device => g = h
    BY <1>7 DEF DInv, CommitInv
  <2>2. \A p \in Requests : pc'[p] \in {"commit", "cascade"} =>
          /\ subject'[p] \in Registered'
          /\ \A r \in Requests :
               pc'[r] \in {"commit", "cascade"} /\ subject'[r] = subject'[p] => p = r
    BY <1>1, <1>2, <1>9 DEF DInv, CommitInv, Moved
  <2>3. \A p \in Requests : pc'[p] = "commit" => ActiveOn(subject[p])' \subseteq locked'[p]
    BY <1>2, <1>6, <1>7 DEF DInv, CommitInv, Moved, ActiveOn
  <2> QED BY <2>1, <2>2, <2>3 DEF CommitInv, ActiveOn
<1>14. Born(q)
  BY <1>4, <1>5, <1>6 DEF Born, friendVars
<1> QED BY <1>2, <1>6, <1>10, <1>11, <1>12, <1>13, <1>14, DevicesFrame

\* The steps that lock nothing: a grant or a revocation arrives, and a friend is
\* looked for.
LEMMA GrantInv ==
  ASSUME DInv, NEW q \in Requests, NEW u \in Users, NEW d \in DeviceRows,
         (\E v \in Users : Grant(q, u, d, v)) \/ Revoke(q, u, d)
  PROVE  DInv'
<1>1. Idle(q) /\ UNCHANGED <<deviceVars, friendVars>> /\ RequestsOK
  BY DEF Grant, Revoke, DInv, TypeInv
<1>2. CASE Answer(q, "notfound")
  BY <1>1, <1>2, RefusedInv DEF Answers
<1>3. ASSUME NEW v \in Users \cup {Nil}, NEW l \in {"friend", "revoke"},
             l = "friend" => v \in Users, Start(q, u, v, d, l)
      PROVE  DInv'
  <2>1. /\ Moved(q) /\ pc[q] = "idle" /\ pc'[q] = l
        /\ caller'[q] = u /\ peer'[q] = v /\ subject'[q] = d
    BY <1>1, <1>3, Started DEF Labels
  <2>2. Shape(q)'
    BY <1>1, <1>3, <2>1
    DEF DInv, TypeInv, Shape, OnDevice, Granting, friendVars, deviceVars, tables
  <2>3. snapshot[q] = {} /\ locked[q] = {}
    BY <2>1 DEF DInv, LockInv
  <2> QED BY <1>1, <2>1, <2>2, <2>3, StillInv
<1> QED BY <1>2, <1>3 DEF Grant, Revoke

LEMMA GrantFriendInv ==
  ASSUME DInv, NEW q \in Requests, GrantFriend(q)
  PROVE  DInv'
<1>1. /\ pc[q] = "friend" /\ UNCHANGED <<deviceVars, friendVars>> /\ RequestsOK
      /\ snapshot[q] = {} /\ locked[q] = {}
  BY DEF GrantFriend, DInv, TypeInv, LockInv
<1>2. CASE Answer(q, "notfriends")
  BY <1>1, <1>2, Answered, StillInv DEF Answers, Shape, OnDevice, Granting
<1>3. CASE Goto(q, "supersede")
  <2>1. /\ Moved(q) /\ pc'[q] = "supersede" /\ caller'[q] = caller[q]
        /\ peer'[q] = peer[q] /\ subject'[q] = subject[q]
    BY <1>1, <1>3, Gone DEF Labels
  <2>2. Shape(q)'
    BY <1>1, <2>1
    DEF DInv, TypeInv, Shape, OnDevice, Granting, friendVars, deviceVars, tables
  <2> QED BY <1>1, <2>1, <2>2, StillInv
<1> QED BY <1>2, <1>3 DEF GrantFriend

\* A step of a transaction that changes no row: snapshots and locks alone.
LEMMA LockingFrame ==
  ASSUME DInv, NEW q \in Requests, Moved(q), UNCHANGED <<tables, friendVars>>,
         pc[q] \in Granting \cup {"revoke"}, pc'[q] \in Granting \cup {"withdraw"},
         pc[q] \in Granting <=> pc'[q] \in Granting,
         caller'[q] = caller[q] /\ peer'[q] = peer[q] /\ subject'[q] = subject[q],
         LocalsOK', LockInv', CommitInv'
  PROVE  DInv'
<1>1. Shape(q)'
  BY DEF DInv, TypeInv, Shape, OnDevice, Granting, tables, friendVars
<1>2. Born(q) /\ TablesOK'
  BY DEF Born, DInv, TypeInv, DevicesTypeOK, TablesOK, tables, friendVars, Active, Registered
<1> QED BY <1>1, <1>2, DevicesFrame DEF Granting

\* The snapshot holds delegations of the device of the request.
LEMMA BeginUpdateInv ==
  ASSUME DInv, NEW q \in Requests, GrantBegin(q) \/ RevokeBegin(q)
  PROVE  DInv'
<1>1. PICK from \in {"supersede", "revoke"}, to \in {"update", "withdraw"} :
        (from = "supersede" <=> to = "update") /\ BeginUpdate(q, from, to)
  BY DEF GrantBegin, RevokeBegin
<1>2. /\ Moved(q) /\ pc[q] = from /\ pc'[q] = to /\ caller'[q] = caller[q]
      /\ peer'[q] = peer[q] /\ subject'[q] = subject[q]
      /\ UNCHANGED <<tables, locked, friendVars>>
  BY <1>1, Gone DEF BeginUpdate, DInv, TypeInv, Labels
<1>3. LocalsOK /\ ActiveOn(subject[q]) \subseteq Grants
  BY DEF DInv, TypeInv, DevicesTypeOK, LocalsOK, ActiveOn, Active
<1>4. /\ snapshot' \in [Requests -> SUBSET Grants] /\ snapshot'[q] = ActiveOn(subject[q])
      /\ \A r \in Requests \ {q} : snapshot'[r] = snapshot[r]
  BY <1>1, <1>3 DEF BeginUpdate, LocalsOK
<1>5. Active' = Active /\ Registered' = Registered
  BY <1>2 DEF tables, Active, Registered
<1>6. LocalsOK'
  BY <1>2, <1>3, <1>4, <1>5 DEF LocalsOK
<1>7. locked[q] = {}
  BY <1>2 DEF DInv, LockInv
<1>8. LockInv'
  BY <1>2, <1>4, <1>7 DEF DInv, LockInv, Moved, tables, ActiveOn, Active
<1>9. CommitInv'
  BY <1>2, <1>5 DEF DInv, CommitInv, Moved, tables, ActiveOn
<1> QED BY <1>1, <1>2, <1>6, <1>8, <1>9, LockingFrame DEF Granting

\* The rows that are locked are those of the snapshot that are active still, and
\* that nobody else has locked.
LEMMA GrantUpdateInv ==
  ASSUME DInv, NEW q \in Requests, GrantUpdate(q)
  PROVE  DInv'
<1>1. /\ Moved(q) /\ pc[q] = "update" /\ pc'[q] = "insert" /\ caller'[q] = caller[q]
      /\ peer'[q] = peer[q] /\ subject'[q] = subject[q]
      /\ UNCHANGED <<tables, friendVars>>
  BY Gone DEF GrantUpdate, DInv, TypeInv, Labels
<1>2. LocalsOK
  BY DEF DInv, TypeInv, DevicesTypeOK, LocalsOK
<1>3. /\ locked' \in [Requests -> SUBSET Active] /\ locked'[q] = snapshot[q] \cap Active
      /\ snapshot' \in [Requests -> SUBSET Grants] /\ snapshot'[q] = {}
      /\ \A r \in Requests \ {q} : snapshot'[r] = snapshot[r] /\ locked'[r] = locked[r]
      /\ \A r \in Requests \ {q} : locked[r] \cap snapshot[q] = {}
  BY <1>2 DEF GrantUpdate, LocalsOK, Untouched
<1>4. Active' = Active /\ Registered' = Registered
  BY <1>1 DEF tables, Active, Registered
<1>5. LocalsOK'
  BY <1>1, <1>2, <1>3, <1>4 DEF LocalsOK
<1>6. LockInv'
  BY <1>1, <1>3 DEF DInv, LockInv, Moved, tables
<1>7. CommitInv'
  BY <1>1, <1>3, <1>4 DEF DInv, CommitInv, Moved, tables, ActiveOn
<1> QED BY <1>1, <1>5, <1>6, <1>7, LockingFrame DEF Granting

\* The device is there, no other grant is about to commit on it and no request
\* deletes it, and what is active on it is locked by this grant.
LEMMA GrantInsertInv ==
  ASSUME DInv, NEW q \in Requests, GrantInsert(q)
  PROVE  DInv'
<1>1. CASE Rollback(q, "failed")
  BY <1>1, ClosedInv DEF GrantInsert, Rollback, Answers
<1>2. CASE /\ subject[q] \in Registered /\ ActiveOn(subject[q]) \subseteq locked[q]
           /\ Goto(q, "commit")
           /\ UNCHANGED <<deviceVars, friendVars>>
  <2>1. /\ Moved(q) /\ pc[q] = "insert" /\ pc'[q] = "commit" /\ caller'[q] = caller[q]
        /\ peer'[q] = peer[q] /\ subject'[q] = subject[q]
        /\ UNCHANGED <<tables, snapshot, locked, friendVars>>
    BY <1>2, Gone DEF GrantInsert, DInv, TypeInv, Labels, deviceVars, localVars
  <2>2. Active' = Active /\ Registered' = Registered
    BY <2>1 DEF tables, Active, Registered
  <2>3. LocalsOK'
    BY <2>1, <2>2 DEF DInv, TypeInv, DevicesTypeOK, LocalsOK
  <2>4. LockInv'
    BY <2>1 DEF DInv, LockInv, Moved, tables
  <2>5. CommitInv'
    <3>1. \A r \in Requests \ {q} : pc[r] \in {"commit", "cascade"} => subject[r] # subject[q]
      BY DEF GrantInsert, Inserting, Deleting
    <3>2. \A g, h \in Active' : delegation'[g].device = delegation'[h].device => g = h
      BY <2>1, <2>2 DEF DInv, CommitInv, tables
    <3>3. \A p \in Requests : pc'[p] \in {"commit", "cascade"} =>
            /\ subject'[p] \in Registered'
            /\ \A r \in Requests :
                 pc'[r] \in {"commit", "cascade"} /\ subject'[r] = subject'[p] => p = r
      BY <1>2, <2>1, <2>2, <3>1 DEF DInv, CommitInv, Moved
    <3>4. \A p \in Requests : pc'[p] = "commit" => ActiveOn(subject[p])' \subseteq locked'[p]
      BY <1>2, <2>1, <2>2 DEF DInv, CommitInv, Moved, tables, ActiveOn
    <3> QED BY <3>2, <3>3, <3>4 DEF CommitInv, ActiveOn
  <2> QED BY <2>1, <2>3, <2>4, <2>5, LockingFrame DEF Granting
<1> QED BY <1>1, <1>2 DEF GrantInsert

\* The answer of a transaction that has changed delegations of S, all of the device
\* of the request and locked by no other.
LEMMA ReleasedLocals ==
  ASSUME LocalsOK, NEW q \in Requests, Close(q), NEW S, Active \ S \subseteq Active',
         \A r \in Requests \ {q} : locked[r] \cap S = {}
  PROVE  /\ LocalsOK' /\ snapshot'[q] = {} /\ locked'[q] = {}
         /\ \A r \in Requests \ {q} :
              snapshot'[r] = snapshot[r] /\ locked'[r] = locked[r]
<1>1. /\ snapshot' \in [Requests -> SUBSET Grants]
      /\ locked' \in [Requests -> SUBSET Active]
      /\ snapshot'[q] = {} /\ locked'[q] = {}
      /\ \A r \in Requests \ {q} :
           snapshot'[r] = snapshot[r] /\ locked'[r] = locked[r]
  BY DEF LocalsOK, Close
<1>2. \A r \in Requests : locked'[r] \subseteq Active'
  BY <1>1 DEF LocalsOK
<1>3. locked' \in [Requests -> SUBSET Active']
  BY <1>1, <1>2
<1> QED BY <1>1, <1>3 DEF LocalsOK

\* The delegations that are revoked are of one device, and no other transaction
\* has changed one of them.
LEMMA RevokeUpdateInv ==
  ASSUME DInv, NEW q \in Requests, RevokeUpdate(q)
  PROVE  DInv'
<1> DEFINE S == snapshot[q] \cap Active
<1>1. Moved(q) /\ pc[q] = "withdraw" /\ pc'[q] = "done" /\ Shape(q)'
  BY CommittedAnswer DEF RevokeUpdate, DInv, TypeInv, Shape, OnDevice, Granting
<1>2. TablesOK /\ LocalsOK /\ S \in SUBSET Grants
  BY DEF DInv, TypeInv, DevicesTypeOK, TablesOK, LocalsOK, Active
<1>3. /\ UNCHANGED <<owner, deleted, friendVars>> /\ Close(q)
      /\ delegation' = Put(S, "revoked")
      /\ \A r \in Requests \ {q} : locked[r] \cap S = {}
  BY DEF RevokeUpdate, Untouched
<1>4. \A g \in S : delegation[g] # Nil
  BY DEF Active
<1>5. /\ delegation' \in [Grants -> Delegations \cup {Nil}]
      /\ \A g \in Grants \ S : delegation'[g] = delegation[g]
      /\ \A g \in S : /\ delegation'[g] # Nil /\ delegation'[g].state = "revoked"
                      /\ delegation'[g].device = delegation[g].device
                      /\ delegation'[g].delegate = delegation[g].delegate
  BY <1>2, <1>3, <1>4, PutRows
<1> HIDE DEF S
<1>6. \A g \in Grants : delegation[g] # Nil =>
        /\ delegation'[g] # Nil
        /\ delegation'[g].device = delegation[g].device
        /\ delegation'[g].delegate = delegation[g].delegate
  BY <1>5
<1>7. /\ Active' = Active \ S /\ Registered' = Registered
      /\ \A g \in Active' : delegation'[g] = delegation[g]
  BY <1>2, <1>3, <1>4, <1>5 DEF Active, Registered
<1>8. /\ LocalsOK' /\ snapshot'[q] = {} /\ locked'[q] = {}
      /\ \A r \in Requests \ {q} :
           snapshot'[r] = snapshot[r] /\ locked'[r] = locked[r]
  BY <1>2, <1>3, <1>7, ReleasedLocals
<1>9. TablesOK'
  BY <1>2, <1>3, <1>5, <1>7 DEF TablesOK
<1>10. LockInv'
  BY <1>1, <1>2, <1>6, <1>8 DEF DInv, LockInv, Moved, LocalsOK, Active
<1>11. CommitInv'
  BY <1>1, <1>7, <1>8 DEF DInv, CommitInv, Moved, ActiveOn
<1>12. Born(q)
  BY <1>3, <1>4, <1>5 DEF Born, friendVars
<1> QED BY <1>1, <1>3, <1>8, <1>9, <1>10, <1>11, <1>12, DevicesFrame

\* What was active on the device is revoked, and the new delegation takes its place;
\* no other grant is about to commit on the device.
LEMMA GrantCommitInv ==
  ASSUME DInv, NEW q \in Requests, GrantCommit(q)
  PROVE  DInv'
<1> DEFINE S == locked[q]
           d == subject[q]
           new == [device |-> d, delegate |-> peer[q], state |-> "active"]
<1>1. /\ Moved(q) /\ pc[q] = "commit" /\ pc'[q] = "done" /\ Shape(q)'
      /\ d \in DeviceRows /\ d \in Registered /\ peer[q] \in Users
      /\ q \in Grants /\ delegation[q] = Nil
  BY CommittedAnswer
  DEF GrantCommit, DInv, TypeInv, Shape, OnDevice, Granting, CommitInv, Grants
<1>2. TablesOK /\ LocalsOK /\ S \in SUBSET Grants /\ S \subseteq Active
  BY DEF DInv, TypeInv, DevicesTypeOK, TablesOK, LocalsOK, Active
<1>3. /\ UNCHANGED <<owner, deleted, friendVars>> /\ Close(q)
      /\ delegation' = [Put(S, "revoked") EXCEPT ![q] = new]
      /\ \A r \in Requests \ {q} : locked[r] \cap S = {}
      /\ \A g \in S : delegation[g].device = d
  BY DEF GrantCommit, DInv, LockInv
<1>4. /\ \A g \in S : delegation[g] # Nil
      /\ q \notin S
  BY <1>1, <1>2 DEF Active
<1>5. /\ Put(S, "revoked") \in [Grants -> Delegations \cup {Nil}]
      /\ \A g \in Grants \ S : Put(S, "revoked")[g] = delegation[g]
      /\ \A g \in S : /\ Put(S, "revoked")[g] # Nil /\ Put(S, "revoked")[g].state = "revoked"
                      /\ Put(S, "revoked")[g].device = delegation[g].device
                      /\ Put(S, "revoked")[g].delegate = delegation[g].delegate
  BY <1>2, <1>4, PutRows
<1>6. /\ new \in Delegations /\ new # Nil
      /\ new.device = d /\ new.state = "active"
  BY <1>1, DevicesAssumption DEF Delegations
<1> HIDE DEF S, new
<1>7. /\ delegation' \in [Grants -> Delegations \cup {Nil}] /\ delegation'[q] = new
      /\ \A g \in Grants \ (S \cup {q}) : delegation'[g] = delegation[g]
      /\ \A g \in S : /\ delegation'[g] # Nil /\ delegation'[g].state = "revoked"
                      /\ delegation'[g].device = delegation[g].device
                      /\ delegation'[g].delegate = delegation[g].delegate
  BY <1>1, <1>2, <1>3, <1>4, <1>5, <1>6
<1>8. \A g \in Grants : delegation[g] # Nil =>
        /\ delegation'[g] # Nil
        /\ delegation'[g].device = delegation[g].device
        /\ delegation'[g].delegate = delegation[g].delegate
  BY <1>1, <1>7
<1>9. /\ Active' = (Active \ S) \cup {q} /\ Registered' = Registered
      /\ \A g \in Active \ S : delegation'[g] = delegation[g]
  BY <1>1, <1>2, <1>3, <1>6, <1>7 DEF Active, Registered
<1>10. \A g \in Active \ S : delegation[g].device # d
  BY <1>1 DEF DInv, CommitInv, ActiveOn, S
<1>11. /\ LocalsOK' /\ snapshot'[q] = {} /\ locked'[q] = {}
       /\ \A r \in Requests \ {q} :
            snapshot'[r] = snapshot[r] /\ locked'[r] = locked[r]
  BY <1>2, <1>3, <1>9, ReleasedLocals
<1>12. TablesOK'
  BY <1>1, <1>2, <1>3, <1>6, <1>7, <1>9 DEF TablesOK
<1>13. LockInv'
  BY <1>1, <1>2, <1>8, <1>11 DEF DInv, LockInv, Moved, LocalsOK, Active
<1>14. CommitInv'
  <2>1. \A g, h \in Active' : delegation'[g].device = delegation'[h].device => g = h
    BY <1>6, <1>7, <1>9, <1>10 DEF DInv, CommitInv
  <2>2. \A p \in Requests : pc'[p] \in {"commit", "cascade"} =>
          /\ p # q /\ subject'[p] # d
          /\ subject'[p] \in Registered'
          /\ \A r \in Requests :
               pc'[r] \in {"commit", "cascade"} /\ subject'[r] = subject'[p] => p = r
    BY <1>1, <1>9 DEF DInv, CommitInv, Moved
  <2>3. \A p \in Requests : pc'[p] = "commit" => ActiveOn(subject[p])' \subseteq locked'[p]
    BY <1>1, <1>6, <1>7, <1>9, <1>11, <2>2 DEF DInv, CommitInv, Moved, ActiveOn
  <2> QED BY <2>1, <2>2, <2>3 DEF CommitInv, ActiveOn
<1>15. Born(q)
  BY <1>3, <1>4, <1>7 DEF Born, friendVars
<1> QED BY <1>1, <1>3, <1>11, <1>12, <1>13, <1>14, <1>15, DevicesFrame

\* A command that has passed the middleware, or is refused, changes no row.
LEMMA RequireInv ==
  ASSUME DInv, NEW q \in Requests, NEW u \in Users, NEW d \in DeviceRows,
         NEW l \in {"send", "join"}, Require(q, u, d, l)
  PROVE  DInv'
<1>1. UNCHANGED <<deviceVars, friendVars>> /\ pc[q] = "idle" /\ RequestsOK
      /\ snapshot[q] = {} /\ locked[q] = {}
  BY DEF Require, Idle, DInv, TypeInv, LockInv
<1>2. CASE Answer(q, "forbidden")
  BY <1>1, <1>2, RefusedInv DEF Idle, Answers
<1>3. CASE Start(q, u, Nil, d, l)
  <2>1. /\ Moved(q) /\ pc'[q] = l /\ caller'[q] = u /\ subject'[q] = d
    BY <1>1, <1>3, Started DEF Idle, Labels
  <2>2. Shape(q)'
    BY <1>1, <2>1
    DEF DInv, TypeInv, Shape, OnDevice, Granting, friendVars, deviceVars, tables
  <2> QED BY <1>1, <2>1, <2>2, StillInv
<1> QED BY <1>2, <1>3 DEF Require

-----------------------------------------------------------------------------
\* No row, and no request, at the start but the old ones.
LEMMA InitInv == Init => DInv
<1> SUFFICES ASSUME Init PROVE DInv
  OBVIOUS
<1>1. /\ RequestsOK /\ \A q \in Requests : pc[q] = "idle"
  BY DEF Init, FriendsInit, RequestsOK, Labels, Answers
<1>2. /\ friendship \in [Rows -> Friendships \cup {Nil}] /\ There = OldRows
      /\ \A f \in OldRows : friendship[f] = OldFriendship[f]
      /\ \A q \in Requests : friendship[q] = Nil
      /\ known \in [Requests -> SUBSET Rows] /\ \A q \in Requests : known[q] = {}
  BY FriendsAssumption DEF Init, FriendsInit, Rows, There
<1>3. FriendsTypeOK
  BY <1>1, <1>2, FriendsAssumption DEF FriendsTypeOK, RequestsOK
<1>3a. OneRowPerPair
  BY <1>2, FriendsAssumption DEF OneRowPerPair
<1>3b. PairInv
  BY <1>1, <1>2, <1>3a DEF PairInv
<1>4. /\ owner \in [DeviceRows -> Users \cup {Nil}] /\ OldDevices \subseteq Registered
      /\ deleted = {} /\ \A q \in Requests : owner[q] = Nil
  BY FriendsAssumption, DevicesAssumption DEF Init, DeviceRows, Registered
<1>5. /\ delegation \in [Grants -> Delegations \cup {Nil}] /\ Active \subseteq OldGrants
      /\ \A g \in OldGrants : delegation[g] = OldDelegation[g]
      /\ \A q \in Requests : delegation[q] = Nil
  BY DevicesAssumption DEF Init, Grants, Active
<1>6. \A g \in Active : delegation[g].device \in Registered
  BY <1>4, <1>5, DevicesAssumption
<1>7. \A q \in Requests : snapshot[q] = {} /\ locked[q] = {}
  BY DEF Init
<1>8. DevicesTypeOK
  BY <1>3, <1>4, <1>5, <1>6, <1>7 DEF Init, DevicesTypeOK
<1>9. CommitInv
  BY <1>1, <1>5, DevicesAssumption DEF CommitInv
<1> QED BY <1>1, <1>2, <1>4, <1>5, <1>7, <1>8, <1>9, <1>3b
        DEF DInv, TypeInv, Shape, OnDevice, Granting, LockInv

\* Every step keeps the invariant.
LEMMA NextInv == DInv /\ [Next]_vars => DInv'
<1>1. ASSUME DInv, FriendsNext /\ UNCHANGED deviceVars PROVE DInv'
  BY <1>1, FriendsNextInv
<1>2. ASSUME DInv, NEW q \in Requests, Begin(q) PROVE DInv'
  BY <1>2, RegisterInv, DeleteDeviceInv, GrantInv, RequireInv DEF Begin, Send, ServeDeviceWS
<1>3. ASSUME DInv, NEW q \in Requests, Proceed(q) PROVE DInv'
  <2>1. pc[q] \notin {"update", "withdraw", "insert", "commit", "done"}
        /\ (\E a \in Answers : Answer(q, a)) /\ UNCHANGED <<friendVars, deviceVars>>
    BY <1>3 DEF Proceed, Answers
  <2>2. Moved(q) /\ pc'[q] = "done" /\ snapshot[q] = {} /\ locked[q] = {}
    BY <1>3, <2>1, Answered DEF DInv, TypeInv, LockInv
  <2>3. Shape(q)'
    BY <2>2 DEF Shape, OnDevice, Granting
  <2> QED BY <1>3, <2>1, <2>2, <2>3, StillInv
<1>4. ASSUME DInv, NEW q \in Requests, Continue(q) PROVE DInv'
  BY <1>3, <1>4, DeleteCascadeInv, GrantFriendInv, BeginUpdateInv, GrantUpdateInv, GrantInsertInv,
     GrantCommitInv, RevokeUpdateInv DEF Continue
<1>5. ASSUME DInv, NEW q \in Requests, DeadlockVictim(q) \/ Cancel(q) PROVE DInv'
  <2>1. pc[q] # "done" /\ \E a \in Answers : Rollback(q, a)
    BY <1>5 DEF DeadlockVictim, Cancel, Answers
  <2> QED BY <1>5, <2>1, ClosedInv DEF Rollback
<1>6. ASSUME DInv, UNCHANGED vars PROVE DInv'
  <2> USE <1>6 DEF DInv, vars, requestVars, friendVars, deviceVars, tables, localVars
  <2>1. There' = There /\ Active' = Active /\ Registered' = Registered
    BY DEF There, Active, Registered
  <2>2. TypeInv'
    BY <2>1 DEF TypeInv, DevicesTypeOK, FriendsTypeOK, RequestsOK, Shape
  <2>3. OneRowPerPair'
    BY <2>1 DEF PairInv, OneRowPerPair, Pair, Crossed
  <2>4. PairInv'
    BY <2>1, <2>3 DEF PairInv, Between, Pair
  <2>5. LockInv' /\ CommitInv'
    BY <2>1 DEF LockInv, CommitInv, ActiveOn
  <2> QED BY <2>2, <2>4, <2>5
<1> QED BY <1>1, <1>2, <1>4, <1>5, <1>6 DEF Next

LEMMA SpecInv == Spec => []DInv
<1>1. [Next /\ Record]_vars => [Next]_vars
  OBVIOUS
<1> QED BY <1>1, InitInv, NextInv, PTL DEF Spec

\* The rows of friendships, devices and delegations keep their types, an active
\* delegation is of a device that is there, and a transaction locks active ones.
THEOREM TypeCorrect == Spec => []DevicesTypeOK
<1>1. DInv => DevicesTypeOK
  BY DEF DInv, TypeInv
<1> QED BY <1>1, SpecInv, PTL

\* However the checks and the inserts of requests overlap, two users have one row
\* of friendships unless their requests crossed, and then one of each direction.
THEOREM NoDoubleFriendship == Spec => []OneRowPerPair
<1>1. DInv => OneRowPerPair
  BY DEF DInv, PairInv
<1> QED BY <1>1, SpecInv, PTL

\* However the transactions of grants, revocations and deletions overlap, are
\* rolled back or break off, a device has at most one active delegation.
THEOREM OneActiveDelegation == Spec => []OneActive
<1>1. DInv => OneActive
  <2> SUFFICES ASSUME DInv, NEW d \in DeviceRows PROVE Cardinality(ActiveOn(d)) <= 1
    BY DEF OneActive
  <2>1. CASE ActiveOn(d) = {}
    BY <2>1, FS_EmptySet
  <2>2. CASE ActiveOn(d) # {}
    <3>1. PICK g : g \in ActiveOn(d)
      BY <2>2
    <3>2. ActiveOn(d) = {g}
      BY <3>1 DEF DInv, CommitInv, ActiveOn
    <3> QED BY <3>2, FS_Singleton
  <2> QED BY <2>1, <2>2
<1> QED BY <1>1, SpecInv, PTL

-----------------------------------------------------------------------------
(* Commands                                                                *)

Withdrawing == Granting \cup {"revoke", "withdraw", "cascade"}

MayCommand(q) ==
  \/ owner[subject[q]] = caller[q]
  \/ \E g \in GrantsOn(subject[q]) \ ended[q] : delegation[g].delegate = caller[q]

\* The delegations that stood when a request to end them arrived: those that are
\* active still are in its snapshot, and then locked by it.
HistoryOf(q) ==
  /\ standing[q] # {} => pc[q] \in Withdrawing
  /\ \A g \in standing[q] :
       g \in Grants /\ delegation[g] # Nil /\ delegation[g].device = subject[q]
  /\ pc[q] \in {"update", "withdraw"} => standing[q] \cap Active \subseteq snapshot[q]
  /\ pc[q] \in {"insert", "commit"} => standing[q] \cap Active \subseteq locked[q]
  /\ pc[q] \in {"send", "join"} => MayCommand(q)

\* No delegation is active of whose end the owner has been told.
HistoryInv ==
  /\ \A g \in withdrawn : g \in Grants /\ delegation[g] # Nil /\ g \notin Active
  /\ \A q \in Requests : HistoryOf(q)

\* Rows keep what they are about, and no delegation becomes active again.
RowsKept ==
  /\ \A d \in DeviceRows : owner[d] # Nil => owner'[d] = owner[d]
  /\ \A g \in Grants : delegation[g] # Nil =>
       /\ delegation'[g] # Nil
       /\ delegation'[g].device = delegation[g].device
       /\ delegation'[g].delegate = delegation[g].delegate
       /\ g \in Active' => g \in Active

\* The other requests stay where they are.
Alone(q) ==
  \A r \in Requests \ {q} :
    /\ pc'[r] = pc[r] /\ answer'[r] = answer[r]
    /\ caller'[r] = caller[r] /\ subject'[r] = subject[r]
    /\ snapshot'[r] = snapshot[r] /\ locked'[r] = locked[r]

\* Request q ends, or it has nothing to do with delegations.
Ends(q) ==
  /\ pc'[q] \notin Withdrawing \cup {"send", "join"}
  /\ pc'[q] = "done" \/ standing[q] = {}
  /\ Succeeds(q) => standing[q] \cap Active' = {}

\* It arrives, to end delegations or to command.
Enters(q) ==
  /\ pc[q] = "idle" /\ subject'[q] \in DeviceRows /\ answer'[q] = answer[q]
  /\ owner' = owner /\ delegation' = delegation
  /\ \/ pc'[q] \in {"friend", "revoke", "cascade"}
     \/ pc'[q] \in {"send", "join"} /\ Authorized(caller'[q], subject'[q])

\* It goes on towards ending delegations.
GoesOn(q) ==
  /\ pc[q] \in Withdrawing /\ pc'[q] \in Withdrawing
  /\ subject'[q] = subject[q] /\ answer'[q] = answer[q] /\ delegation' = delegation
  /\ pc'[q] \in {"update", "withdraw"} => snapshot'[q] = ActiveOn(subject[q])
  /\ pc'[q] = "insert" => pc[q] = "update" /\ locked'[q] = snapshot[q] \cap Active
  /\ pc'[q] = "commit" => pc[q] = "insert" /\ locked'[q] = locked[q]

\* HistoryInv is preserved by every such step.
LEMMA HistoryStep ==
  ASSUME DInv, HistoryInv, Record, RowsKept, NEW q \in Requests, Alone(q),
         Ends(q) \/ Enters(q) \/ GoesOn(q)
  PROVE  HistoryInv'
<1>1. ASSUME NEW g \in withdrawn' PROVE g \in Grants /\ delegation'[g] # Nil /\ g \notin Active'
  <2>1. CASE g \in withdrawn
    BY <2>1 DEF HistoryInv, RowsKept
  <2>2. CASE g \notin withdrawn
    <3>1. PICK r \in Requests : Succeeds(r) /\ g \in standing[r]
      BY <1>1, <2>2 DEF Record
    <3>2. r = q /\ Ends(q)
      BY <3>1 DEF Succeeds, Alone, Enters, GoesOn
    <3>3. g \in Grants /\ delegation[g] # Nil
      BY <3>1 DEF HistoryInv, HistoryOf
    <3> QED BY <3>1, <3>2, <3>3 DEF Ends, RowsKept
  <2> QED BY <2>1, <2>2
<1>2. ASSUME NEW r \in Requests, r # q PROVE HistoryOf(r)'
  <2>1. /\ pc'[r] = pc[r] /\ caller'[r] = caller[r] /\ subject'[r] = subject[r]
        /\ snapshot'[r] = snapshot[r] /\ locked'[r] = locked[r]
    BY <1>2 DEF Alone
  <2>2. /\ standing'[r] \subseteq standing[r]
        /\ pc[r] \in {"send", "join"} => ended'[r] = ended[r]
    BY <2>1 DEF Record, Arrives
  <2>3. HistoryOf(r)
    BY DEF HistoryInv
  <2>4. \A g \in standing[r] : g \in Active' => g \in Active
    BY <2>3 DEF HistoryOf, RowsKept
  <2>5. ASSUME pc[r] \in {"send", "join"} PROVE MayCommand(r)'
    <3>1. subject[r] \in DeviceRows /\ caller[r] \in Users /\ caller[r] # Nil
      BY <2>5, FriendsAssumption DEF DInv, TypeInv, Shape, OnDevice
    <3>2. CASE owner[subject[r]] = caller[r]
      BY <2>1, <3>1, <3>2 DEF RowsKept, MayCommand
    <3>3. ASSUME NEW g \in GrantsOn(subject[r]) \ ended[r], delegation[g].delegate = caller[r]
          PROVE  MayCommand(r)'
      <4>1. g \in GrantsOn(subject[r])' /\ delegation'[g].delegate = caller'[r]
        BY <2>1, <3>3 DEF GrantsOn, RowsKept
      <4> QED BY <2>1, <2>2, <2>5, <3>3, <4>1 DEF MayCommand, GrantsOn
    <3> QED BY <2>3, <2>5, <3>2, <3>3 DEF HistoryOf, MayCommand
  <2> QED BY <2>1, <2>2, <2>3, <2>4, <2>5 DEF HistoryOf, RowsKept
<1>3. HistoryOf(q)'
  <2>1. HistoryOf(q)
    BY DEF HistoryInv
  <2>2. CASE Ends(q)
    <3>1. standing'[q] = {}
      BY <2>2 DEF Record, Ends, Arrives, Withdrawing, Granting
    <3> QED BY <2>2, <3>1 DEF HistoryOf, Ends, Withdrawing, Granting
  <2>3. CASE Enters(q) /\ pc'[q] \in {"friend", "revoke", "cascade"}
    <3>1. standing'[q] = ActiveOn(subject'[q])
      BY <2>3 DEF Record, Arrives, Enters
    <3> QED BY <2>3, <3>1 DEF HistoryOf, Enters, Withdrawing, Granting, ActiveOn, Active
  <2>4. CASE Enters(q) /\ pc'[q] \in {"send", "join"}
    <3>1. standing'[q] = {} /\ ended'[q] = withdrawn
      BY <2>1, <2>4 DEF Record, Arrives, Enters, HistoryOf, Withdrawing, Granting
    <3>2. Authorized(caller'[q], subject'[q])
      BY <2>4 DEF Enters
    <3>3. \/ owner[subject'[q]] = caller'[q]
          \/ \E g \in ActiveOn(subject'[q]) : delegation[g].delegate = caller'[q]
      BY <3>2 DEF Authorized, Owns
    <3>4. \A g \in ActiveOn(subject'[q]) : g \in GrantsOn(subject'[q]) /\ g \notin withdrawn
      BY DEF ActiveOn, Active, GrantsOn, HistoryInv
    <3>5. owner' = owner /\ delegation' = delegation
      BY <2>4 DEF Enters
    <3>6. MayCommand(q)'
      BY <3>1, <3>3, <3>4, <3>5 DEF MayCommand, GrantsOn
    <3> QED BY <2>4, <3>1, <3>6 DEF HistoryOf, Withdrawing, Granting
  <2>5. CASE GoesOn(q)
    <3>1. standing'[q] = standing[q]
      BY <2>5 DEF Record, Arrives, GoesOn, Withdrawing, Granting
    <3>2. Active' = Active /\ pc'[q] \notin {"send", "join"}
      BY <2>5 DEF GoesOn, Active, Withdrawing, Granting
    <3>3. \A g \in standing[q] \cap Active : g \in ActiveOn(subject[q])
      BY <2>1 DEF HistoryOf, ActiveOn
    <3> QED BY <2>1, <2>5, <3>1, <3>2, <3>3 DEF HistoryOf, GoesOn
  <2> QED BY <2>2, <2>3, <2>4, <2>5 DEF Enters
<1> QED BY <1>1, <1>2, <1>3 DEF HistoryInv

\* A step that changes no delegation and no owner keeps the rows.
LEMMA SameRows ==
  ASSUME UNCHANGED <<owner, delegation>> PROVE RowsKept
BY DEF RowsKept, Active

\* Friendships are no business of the devices.
LEMMA FriendsHistory ==
  ASSUME DInv, HistoryInv, Record, FriendsNext, UNCHANGED deviceVars PROVE HistoryInv'
<1>1. PICK q \in Requests :
        \/ \E u, v \in Users : SendRequest(q, u, v) \/ GetUserProfile(q, u, v)
        \/ \E u \in Users, f \in Rows :
             AcceptRequest(q, u, f) \/ RejectRequest(q, u, f) \/ Unfriend(q, u, f)
        \/ FriendsStep(q)
  BY DEF FriendsNext
<1> DEFINE Elsewhere == {"create", "accept", "remove", "friends", "public", "done"}
<1>2. /\ pc[q] \in {"idle", "create", "accept", "remove", "friends", "public"}
      /\ \/ \E a \in Answers : Answer(q, a)
         \/ \E u, v, x, l : Start(q, u, v, x, l) /\ l \in Elsewhere
  BY <1>1 DEF SendRequest, GetUserProfile, AcceptRequest, RejectRequest, LookupRequest, Unfriend,
              FriendsStep, CreateRequest, Accept, Remove, ShowProfile, Idle, Answers
<1>3. /\ pc'[q] \in Elsewhere
      /\ \A r \in Requests \ {q} :
           /\ pc'[r] = pc[r] /\ answer'[r] = answer[r]
           /\ caller'[r] = caller[r] /\ subject'[r] = subject[r]
  BY <1>2 DEF Answer, Start, DInv, TypeInv, RequestsOK
<1>4. Alone(q) /\ RowsKept
  BY <1>3, SameRows DEF Alone, deviceVars, tables, localVars
<1>5. standing[q] = {}
  BY <1>2 DEF HistoryInv, HistoryOf, Withdrawing, Granting
<1>6. Ends(q)
  BY <1>3, <1>5 DEF Ends, Withdrawing, Granting
<1> QED BY <1>4, <1>6, HistoryStep

\* A request that is answered without a change, and without success if it was to
\* end delegations.
LEMMA UnansweredHistory ==
  ASSUME DInv, HistoryInv, Record, NEW q \in Requests, NEW a \in Answers, Answer(q, a),
         UNCHANGED <<owner, delegation>>, pc[q] \in Withdrawing => a # "ok",
         \A r \in Requests \ {q} : snapshot'[r] = snapshot[r] /\ locked'[r] = locked[r]
  PROVE  HistoryInv'
<1>1. pc'[q] = "done" /\ answer'[q] = a
  BY DEF Answer, DInv, TypeInv, RequestsOK
<1>2. Alone(q) /\ RowsKept
  BY SameRows DEF Answer, Alone, DInv, TypeInv, RequestsOK
<1>3. Ends(q)
  BY <1>1 DEF Ends, Withdrawing, Granting, Succeeds, HistoryInv, HistoryOf
<1> QED BY <1>2, <1>3, HistoryStep

\* The requests that arrive.
LEMMA BeginHistory ==
  ASSUME DInv, HistoryInv, Record, NEW q \in Requests, Begin(q) PROVE HistoryInv'
<1>1. PICK u \in Users :
        \/ Register(q, u)
        \/ \E d \in DeviceRows :
             \/ DeleteDevice(q, u, d) \/ Revoke(q, u, d) \/ Send(q, u, d) \/ ServeDeviceWS(q, u, d)
             \/ \E v \in Users : Grant(q, u, d, v)
  BY DEF Begin
<1>2. pc[q] = "idle" /\ owner[q] = Nil /\ q \in DeviceRows
  BY <1>1 DEF Register, DeleteDevice, Revoke, Send, ServeDeviceWS, Require, Grant, Idle,
              DInv, TypeInv, Shape, DeviceRows
<1>3. CASE Register(q, u)
  <2>1. UNCHANGED <<deleted, delegation, localVars>> /\ \E a \in Answers : Answer(q, a)
    BY <1>3 DEF Register, Answers
  <2>2. /\ pc'[q] = "done"
        /\ Alone(q)
    BY <2>1 DEF Answer, Alone, DInv, TypeInv, RequestsOK, localVars
  <2>3. RowsKept
    BY <1>2, <1>3, <2>1 DEF Register, RowsKept, Active, DInv, TypeInv, DevicesTypeOK
  <2>4. standing[q] = {}
    BY <1>2 DEF HistoryInv, HistoryOf, Withdrawing, Granting
  <2>5. Ends(q)
    BY <2>2, <2>4 DEF Ends, Withdrawing, Granting
  <2> QED BY <2>2, <2>3, <2>5, HistoryStep
<1>4. ASSUME NEW d \in DeviceRows,
             \/ DeleteDevice(q, u, d) \/ Revoke(q, u, d) \/ Send(q, u, d) \/ ServeDeviceWS(q, u, d)
             \/ \E v \in Users : Grant(q, u, d, v)
      PROVE  HistoryInv'
  <2>1. UNCHANGED deviceVars
    BY <1>4 DEF DeleteDevice, Revoke, Send, ServeDeviceWS, Require, Grant
  <2>2. CASE \E a \in Answers : Answer(q, a)
    BY <1>2, <2>1, <2>2, UnansweredHistory
    DEF deviceVars, tables, localVars, Withdrawing, Granting
  <2>3. ASSUME NEW v, NEW l \in {"friend", "revoke", "cascade", "send", "join"},
               Start(q, u, v, d, l), l \in {"send", "join"} => Authorized(u, d)
        PROVE  HistoryInv'
    <3>1. /\ pc'[q] = l /\ caller'[q] = u /\ subject'[q] = d /\ answer'[q] = answer[q]
          /\ Alone(q)
      BY <2>1, <2>3 DEF Start, Alone, DInv, TypeInv, RequestsOK, deviceVars, localVars
    <3>2. RowsKept
      BY <2>1, SameRows DEF deviceVars, tables
    <3>3. Enters(q)
      BY <1>2, <2>1, <2>3, <3>1 DEF Enters, deviceVars, tables
    <3> QED BY <3>1, <3>2, <3>3, HistoryStep
  <2>4. \/ \E a \in Answers : Answer(q, a)
        \/ \E v \in Users \cup {Nil}, l \in {"friend", "revoke", "cascade", "send", "join"} :
             Start(q, u, v, d, l) /\ (l \in {"send", "join"} => Authorized(u, d))
    BY <1>4 DEF DeleteDevice, Revoke, Send, ServeDeviceWS, Require, Grant, Answers
  <2> QED BY <2>2, <2>3, <2>4
<1> QED BY <1>1, <1>3, <1>4

\* The requests that go on, and the transactions that commit.
LEMMA ContinueHistory ==
  ASSUME DInv, HistoryInv, Record, NEW q \in Requests, Continue(q) PROVE HistoryInv'
<1>1. RequestsOK /\ TablesOK /\ LocalsOK
  BY DEF DInv, TypeInv, DevicesTypeOK, TablesOK, LocalsOK
<1>2. ASSUME NEW from \in Withdrawing, NEW to \in Withdrawing, pc[q] = from, Goto(q, to),
             UNCHANGED tables,
             \A r \in Requests \ {q} : snapshot'[r] = snapshot[r] /\ locked'[r] = locked[r],
             to \in {"update", "withdraw"} => snapshot'[q] = ActiveOn(subject[q]),
             to = "insert" => from = "update" /\ locked'[q] = snapshot[q] \cap Active,
             to = "commit" => from = "insert" /\ locked'[q] = locked[q]
      PROVE  HistoryInv'
  <2>1. /\ pc'[q] = to /\ subject'[q] = subject[q] /\ answer'[q] = answer[q]
        /\ Alone(q)
    BY <1>1, <1>2 DEF Goto, Alone, RequestsOK
  <2>2. RowsKept
    BY <1>2, SameRows DEF tables
  <2>3. GoesOn(q)
    BY <1>2, <2>1 DEF GoesOn, tables
  <2> QED BY <2>1, <2>2, <2>3, HistoryStep
<1>3. CASE GrantFriend(q)
  <2>1. CASE Answer(q, "notfriends")
    BY <1>3, <2>1, UnansweredHistory DEF GrantFriend, Answers, deviceVars, tables, localVars
  <2>2. CASE Goto(q, "supersede")
    <3>1. "friend" \in Withdrawing /\ "supersede" \in Withdrawing
      BY DEF Withdrawing, Granting
    <3> QED BY <1>2, <1>3, <2>2, <3>1 DEF GrantFriend, deviceVars, localVars
  <2> QED BY <1>3, <2>1, <2>2 DEF GrantFriend
<1>4. CASE GrantBegin(q) \/ RevokeBegin(q)
  <2>1. PICK from \in {"supersede", "revoke"}, to \in {"update", "withdraw"} :
          BeginUpdate(q, from, to)
    BY <1>4 DEF GrantBegin, RevokeBegin
  <2>2. from \in Withdrawing /\ to \in Withdrawing
    BY DEF Withdrawing, Granting
  <2>3. /\ snapshot'[q] = ActiveOn(subject[q])
        /\ \A r \in Requests \ {q} : snapshot'[r] = snapshot[r] /\ locked'[r] = locked[r]
    BY <1>1, <2>1 DEF BeginUpdate, LocalsOK
  <2> QED BY <1>2, <2>1, <2>2, <2>3 DEF BeginUpdate
<1>5. CASE GrantUpdate(q)
  <2>1. "update" \in Withdrawing /\ "insert" \in Withdrawing
    BY DEF Withdrawing, Granting
  <2>2. /\ locked'[q] = snapshot[q] \cap Active
        /\ \A r \in Requests \ {q} : snapshot'[r] = snapshot[r] /\ locked'[r] = locked[r]
    BY <1>1, <1>5 DEF GrantUpdate, LocalsOK
  <2> QED BY <1>2, <1>5, <2>1, <2>2 DEF GrantUpdate
<1>6. CASE GrantInsert(q)
  <2>1. CASE Rollback(q, "failed")
    BY <1>1, <2>1, UnansweredHistory DEF Rollback, Close, Answers, tables, LocalsOK
  <2>2. CASE Goto(q, "commit") /\ UNCHANGED deviceVars
    <3>1. "insert" \in Withdrawing /\ "commit" \in Withdrawing
      BY DEF Withdrawing, Granting
    <3> QED BY <1>2, <1>6, <2>2, <3>1 DEF GrantInsert, deviceVars, localVars
  <2> QED BY <1>6, <2>1, <2>2 DEF GrantInsert
<1>7. ASSUME NEW S \in SUBSET Grants, NEW s \in {"revoked", "deleted"}, owner' = owner,
             \A g \in S : delegation[g] # Nil,
             Committed(q), standing[q] \cap Active \subseteq S,
             \A r \in Requests \ {q} : snapshot'[r] = snapshot[r] /\ locked'[r] = locked[r],
             \/ delegation' = Put(S, s)
             \/ delegation[q] = Nil /\ \E row : delegation' = [Put(S, s) EXCEPT ![q] = row]
      PROVE  HistoryInv'
  <2>1. /\ \A g \in Grants \ S : Put(S, s)[g] = delegation[g]
        /\ \A g \in S : /\ Put(S, s)[g] # Nil /\ Put(S, s)[g].state = s
                        /\ Put(S, s)[g].device = delegation[g].device
                        /\ Put(S, s)[g].delegate = delegation[g].delegate
    BY <1>1, <1>7, PutRows
  <2>2. \A g \in Grants : delegation[g] # Nil => delegation'[g] = Put(S, s)[g]
    BY <1>7 DEF Put
  <2>3. RowsKept
    BY <1>7, <2>1, <2>2 DEF RowsKept, Active
  <2>4. \A g \in S : g \notin Active'
    BY <1>7, <2>1, <2>2 DEF Active
  <2>5. standing[q] \cap Active' = {}
    BY <1>7, <2>3, <2>4 DEF HistoryInv, HistoryOf, RowsKept
  <2>6. pc'[q] = "done" /\ Alone(q)
    BY <1>1, <1>7 DEF Committed, Answer, Alone, RequestsOK
  <2>7. Ends(q)
    BY <2>5, <2>6 DEF Ends, Withdrawing, Granting
  <2> QED BY <2>3, <2>6, <2>7, HistoryStep
<1>8. HistoryOf(q) /\ standing[q] \subseteq GrantsOn(subject[q])
  BY DEF HistoryInv, HistoryOf, GrantsOn
<1>9. CASE GrantCommit(q)
  <2>1. /\ locked[q] \in SUBSET Grants /\ \A g \in locked[q] : delegation[g] # Nil
        /\ delegation[q] = Nil /\ standing[q] \cap Active \subseteq locked[q]
    BY <1>1, <1>8, <1>9 DEF GrantCommit, DInv, TypeInv, Shape, LocalsOK, Active, HistoryOf
  <2>2. \A r \in Requests \ {q} : snapshot'[r] = snapshot[r] /\ locked'[r] = locked[r]
    BY <1>1, <1>9 DEF GrantCommit, Close, LocalsOK
  <2> QED BY <1>7, <1>9, <2>1, <2>2 DEF GrantCommit
<1>10. CASE RevokeUpdate(q)
  <2> DEFINE S == snapshot[q] \cap Active
  <2>1. /\ S \in SUBSET Grants /\ \A g \in S : delegation[g] # Nil
        /\ standing[q] \cap Active \subseteq S
    BY <1>1, <1>8, <1>10 DEF RevokeUpdate, LocalsOK, Active, HistoryOf
  <2>2. \A r \in Requests \ {q} : snapshot'[r] = snapshot[r] /\ locked'[r] = locked[r]
    BY <1>1, <1>10 DEF RevokeUpdate, Close, LocalsOK
  <2> QED BY <1>7, <1>10, <2>1, <2>2 DEF RevokeUpdate
<1>11. CASE DeleteCascade(q)
  <2> DEFINE S == GrantsOn(subject[q])
  <2>1. /\ S \in SUBSET Grants /\ \A g \in S : delegation[g] # Nil
        /\ standing[q] \cap Active \subseteq S
    BY <1>8 DEF GrantsOn
  <2> QED BY <1>7, <1>11, <2>1 DEF DeleteCascade, localVars
<1>12. CASE Proceed(q)
  <2>1. pc[q] \notin Withdrawing /\ \E a \in Answers : Answer(q, a)
    BY <1>12 DEF Proceed, Withdrawing, Granting, Answers
  <2> QED BY <1>12, <2>1, UnansweredHistory DEF Proceed, deviceVars, tables, localVars
<1> QED
  BY <1>3, <1>4, <1>5, <1>6, <1>9, <1>10, <1>11, <1>12 DEF Continue

\* Every step keeps the history.
LEMMA NextHistory ==
  ASSUME DInv, HistoryInv, [Next /\ Record]_vars PROVE HistoryInv'
<1>1. CASE UNCHANGED vars
  BY <1>1 DEF HistoryInv, HistoryOf, MayCommand, Active, GrantsOn, vars, requestVars, deviceVars,
              tables, localVars, historyVars
<1>2. ASSUME Record, NEW q \in Requests, DeadlockVictim(q) \/ Cancel(q) PROVE HistoryInv'
  <2>1. PICK a \in {"failed", "error"} : Rollback(q, a)
    BY <1>2 DEF DeadlockVictim, Cancel
  <2>2. \A r \in Requests \ {q} : snapshot'[r] = snapshot[r] /\ locked'[r] = locked[r]
    BY <2>1 DEF Rollback, Close, DInv, TypeInv, DevicesTypeOK
  <2> QED BY <1>2, <2>1, <2>2, UnansweredHistory DEF Rollback, tables, Answers
<1> QED BY <1>1, <1>2, FriendsHistory, BeginHistory, ContinueHistory DEF Next

\* HistoryInv holds in every state, with DInv.
LEMMA HistoryInvariance == Spec => [](DInv /\ HistoryInv)
<1>1. Init => HistoryInv
  BY DEF Init, FriendsInit, HistoryInv, HistoryOf, Withdrawing, Granting
<1>2. DInv /\ HistoryInv /\ [Next /\ Record]_vars => (DInv /\ HistoryInv)'
  BY NextInv, NextHistory
<1> QED BY <1>1, <1>2, InitInv, PTL DEF Spec

\* A request is admitted by Proceed alone.
LEMMA AdmittedByProceed ==
  ASSUME DInv, Next
  PROVE  \/ \E q \in Requests : Proceed(q)
         \/ UNCHANGED answer
         \/ \E q \in Requests, a \in Answers \ {"sent", "joined"} : Answer(q, a)
<1>1. CASE FriendsNext
  BY <1>1 DEF FriendsNext, FriendsStep, SendRequest, CreateRequest, AcceptRequest, RejectRequest,
    LookupRequest, Unfriend, Accept, Remove, GetUserProfile, ShowProfile, Start, Answers
<1>2. ASSUME NEW q \in Requests, Begin(q)
      PROVE  UNCHANGED answer \/ \E a \in Answers \ {"sent", "joined"} : Answer(q, a)
  BY <1>2 DEF Begin, Register, DeleteDevice, Revoke, Send, ServeDeviceWS, Require, Grant,
    Start, Answers
<1>3. ASSUME NEW q \in Requests, Continue(q)
      PROVE  \/ Proceed(q) \/ UNCHANGED answer
             \/ \E a \in Answers \ {"sent", "joined"} : Answer(q, a)
  BY <1>3 DEF Continue, DeleteCascade, GrantFriend, GrantBegin, GrantUpdate, GrantInsert,
    GrantCommit, RevokeBegin, RevokeUpdate, BeginUpdate, Rollback, Goto, Committed, Answers
<1>4. ASSUME NEW q \in Requests, DeadlockVictim(q) \/ Cancel(q)
      PROVE  \E a \in Answers \ {"sent", "joined"} : Answer(q, a)
  BY <1>4 DEF DeadlockVictim, Cancel, Rollback, Answers
<1> QED BY <1>1, <1>2, <1>3, <1>4 DEF Next, vars, requestVars

\* A command is sent, and the room of a device joined, for its owner or for the
\* holder of a delegation of whose end the owner had not been told when the request
\* arrived, and for nobody else, however grants, revocations and deletions overlap.
THEOREM CommandsArePermitted == Spec => CommandsPermitted
<1>1. DInv /\ HistoryInv /\ [Next /\ Record]_vars =>
        [\A q \in Requests : Admitted(q) =>
           \/ owner[subject[q]] = caller[q]
           \/ \E g \in GrantsOn(subject[q]) \ ended[q] : delegation[g].delegate = caller[q]]_vars
  <2> SUFFICES ASSUME DInv, HistoryInv, Next, NEW q \in Requests, Admitted(q)
               PROVE  pc[q] \in {"send", "join"}
    BY DEF HistoryInv, HistoryOf, MayCommand
  <2>1. answer \in [Requests -> Answers]
    BY DEF DInv, TypeInv, RequestsOK
  <2>2. ASSUME NEW p \in Requests, NEW a \in Answers \ {"sent", "joined"}, Answer(p, a)
        PROVE  FALSE
    BY <2>1, <2>2 DEF Answer, Admitted
  <2>3. PICK p \in Requests : Proceed(p)
    BY <2>2, AdmittedByProceed DEF Admitted
  <2>4. p = q
    BY <2>1, <2>3 DEF Proceed, Answer, Admitted
  <2> QED BY <2>3, <2>4 DEF Proceed
<1> QED BY <1>1, HistoryInvariance, PTL DEF Spec, CommandsPermitted
=============================================================================
