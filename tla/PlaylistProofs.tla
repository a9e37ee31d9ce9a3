--------------------------- MODULE PlaylistProofs ---------------------------
(***************************************************************************)
(* Proofs about the order of the tracks and about the screens of the       *)
(* editor, for any number of tracks, requests, users and screens.          *)
(*                                                                         *)
(* PlaylistTracks: positions stay 1..n unless an addition races.  Until    *)
(* then, the committed positions, what a removal has numbered and what a   *)
(* move has read are rankings: 1..n, each given once.  A removal that has  *)
(* written holds every row, so that no other request holds one; a move     *)
(* commits only if the rows it has ranked are as it has read them.         *)
(*                                                                         *)
(* PlaylistRefinement: until then too, a commit is one edit of the list,   *)
(* or that of a removal outdated by a move.  What any other removal is     *)
(* about to commit is the committed ranking without its row.               *)
(*                                                                         *)
(* PlaylistScreens: only those who could edit have edited, and unless      *)
(* edits or loads overlap, a screen ends with the list.  An edit applied   *)
(* to a list it has already been applied to leaves it as it is: the echo   *)
(* of an optimistic edit changes nothing.                                  *)
(***************************************************************************)
EXTENDS PlaylistRefinement, PlaylistScreens, FiniteSetTheorems, FunctionTheorems, TLAPS

\* f gives each of the positions 1..n to one member of S.
Ranks(f, S, n) ==
  /\ \A r \in S : f[r] \in 1..n
  /\ \A r, s \in S : f[r] = f[s] => r = s
  /\ \A k \in 1..n : \E r \in S : f[r] = k

Labels == {"idle", "insert", "recompact", "recompacting", "removed",
           "shift", "place", "moved", "done"}
Results == {"none", "ok", "notfound", "duplicate", "outofrange", "conflict", "aborted"}

Removing(t) == pc[t] \in {"recompact", "recompacting", "removed"}
Moving(t) == pc[t] \in {"shift", "place", "moved"}

\* The rows there were when move t began.
SnapLive(t) == {r \in Rows : snap[t][r] > 0}

\* No position exceeds the number of rows generated.
Bound == 0..Cardinality(spent)
Partial(B) == UNION {[S -> B] : S \in SUBSET Rows}

Types ==
  /\ spent \subseteq Rows /\ raced \in BOOLEAN
  /\ pos \in [Rows -> Bound]
  /\ Live \subseteq spent
  /\ pc \in [Requests -> Labels]
  /\ row \in [Requests -> Rows \cup {Nil}]
  /\ target \in [Requests -> Bound]
  /\ write \in [Requests -> Partial(Bound)]
  /\ todo \in [Requests -> Partial(Bound)]
  /\ snap \in [Requests -> Partial(Bound)]
  /\ changed \in [Requests -> SUBSET Rows]
  /\ overtaken \in [Requests -> BOOLEAN]
  /\ outcome \in [Requests -> Results]
  /\ \A t \in Requests :
       /\ pc[t] = "insert" => row[t] \in spent
       /\ Removing(t) => t \in Removers /\ row[t] \in Rows
       /\ Moving(t) => row[t] \in Rows /\ snap[t] \in [Rows -> Bound]

\* A row is locked by one request at a time, and deleted by none but that.  What a
\* move has read and nobody has changed since is there as it has read it.
Locks ==
  /\ \A t \in Requests : DOMAIN write[t] \subseteq Live
  /\ \A t, u \in Requests : t # u => DOMAIN write[t] \cap DOMAIN write[u] = {}
  /\ \A t \in Requests : pc[t] \in {"idle", "done", "insert", "shift"} => write[t] = NoWrite
  /\ \A t \in Requests : Moving(t) =>
       /\ row[t] \in SnapLive(t) /\ target[t] > 0
       /\ \A r \in SnapLive(t) \ changed[t] : pos[r] = snap[t][r]

\* What a removal holds, has numbered, has written.
Removal(t) ==
  LET left == Live \ {row[t]} IN
  /\ pc[t] \in {"recompact", "recompacting"} =>
       DOMAIN write[t] = {row[t]} /\ write[t][row[t]] = 0
  /\ pc[t] = "recompacting" =>
       DOMAIN todo[t] = left /\ Ranks(todo[t], left, Cardinality(left))
  /\ pc[t] = "removed" =>
       /\ DOMAIN write[t] = Live /\ row[t] \in Live /\ write[t][row[t]] = 0
       /\ Ranks(write[t], left, Cardinality(left))

\* A move that will not fail finds the rows as it has read them.
Move(t) ==
  LET m == Cardinality(SnapLive(t)) IN
  Moving(t) =>
    /\ Ranks(snap[t], SnapLive(t), m) /\ SnapLive(t) \subseteq spent
    /\ target[t] \in 1..m /\ target[t] # snap[t][row[t]]
    /\ \/ overtaken[t]
       \/ pc[t] = "shift" /\ SnapLive(t) \subseteq changed[t]
       \/ \A r \in SnapLive(t) : pos[r] = snap[t][r]
    /\ pc[t] = "place" => write[t] = Shifted(t)
    /\ pc[t] = "moved" => write[t] = Over([r \in {row[t]} |-> target[t]], Shifted(t))

\* The row of an addition is of that addition only.
Addition(t) ==
  pc[t] = "insert" =>
    /\ row[t] \notin Live
    /\ \A u \in Requests : pc[u] = "insert" /\ row[u] = row[t] => u = t
    /\ \A u \in Requests : Moving(u) => row[t] \notin SnapLive(u)

InOrder ==
  /\ Ranks(pos, Live, Cardinality(Live))
  /\ \A t \in Requests : Removal(t) /\ Move(t) /\ Addition(t)

PInv == Types /\ Locks /\ (~raced => InOrder)

-----------------------------------------------------------------------------
(* Rankings and finite sets                                                *)

\* As many are ranked as there are ranks.
LEMMA RanksCount ==
  ASSUME NEW S, NEW f, NEW n \in Nat, Ranks(f, S, n)
  PROVE  IsFiniteSet(S) /\ Cardinality(S) = n
<1> DEFINE g == [r \in S |-> f[r]]
<1>1. g \in Bijection(S, 1..n)
  <2>1. g \in [S -> 1..n] BY DEF Ranks
  <2>2. \A a, b \in S : g[a] = g[b] => a = b BY DEF Ranks
  <2>3. \A k \in 1..n : \E r \in S : g[r] = k BY DEF Ranks
  <2> QED BY <2>1, <2>2, <2>3, Fun_IsBij
<1>2. ExistsBijection(1..n, S)
  BY <1>1, Fun_ExistsBijSymmetric DEF ExistsBijection
<1>3. IsFiniteSet(1..n) /\ Cardinality(1..n) = n
  BY FS_Interval
<1> QED BY <1>2, <1>3, FS_Bijection

\* A numbering is a ranking.
LEMMA BijectionRanks ==
  ASSUME NEW S, NEW n \in Nat, NEW f \in Bijection(S, 1..n)
  PROVE  f \in [S -> 1..n] /\ Ranks(f, S, n)
BY DEF Bijection, Injection, Surjection, IsInjective, Ranks

\* A bounded set of numbers that is not empty has a greatest member.
LEMMA Greatest ==
  ASSUME NEW S \in SUBSET Nat, NEW n \in Nat, \A s \in S : s <= n, S # {}
  PROVE  \E p \in S : \A q \in S : q <= p
<1> DEFINE T == {n - s : s \in S}
<1>1. \A s \in S : n - s \in Nat OBVIOUS
<1>2. T \subseteq Nat /\ T # {} BY <1>1
<1> HIDE DEF T
<1>3. PICK x \in T : \A y \in T : <<y, x>> \notin OpToRel(<, Nat)
  BY <1>2, NatLessThanWellFounded, WFMin
<1>4. \A y \in T : ~(y < x)
  BY <1>2, <1>3 DEF OpToRel
<1>5. PICK p \in S : x = n - p BY DEF T
<1>6. \A q \in S : q <= p
  BY <1>4, <1>5 DEF T
<1> QED BY <1>6

\* The rows that are there are finitely many, no more than were generated.
LEMMA Counts ==
  ASSUME Types
  PROVE  /\ IsFiniteSet(Live) /\ IsFiniteSet(spent)
         /\ Cardinality(Live) \in Nat /\ Cardinality(spent) \in Nat
         /\ Cardinality(Live) <= Cardinality(spent)
         /\ Cardinality(spent) <= Cardinality(Rows) /\ Cardinality(Rows) \in Nat
<1>1. IsFiniteSet(Rows) BY PlaylistAssumption
<1>2. IsFiniteSet(spent) /\ Cardinality(spent) <= Cardinality(Rows)
  BY <1>1, FS_Subset DEF Types
<1>3. IsFiniteSet(Live) /\ Cardinality(Live) <= Cardinality(spent)
  BY <1>2, FS_Subset DEF Types
<1> QED BY <1>1, <1>2, <1>3, FS_CardinalityType

\* The partial functions of the model.
LEMMA PartialFunction ==
  ASSUME NEW B, NEW f
  PROVE  f \in Partial(B) <=> (DOMAIN f \subseteq Rows /\ f \in [DOMAIN f -> B])
BY DEF Partial

\* The bound only grows.
LEMMA PartialGrows ==
  ASSUME NEW A, NEW B, A \subseteq B
  PROVE  Partial(A) \subseteq Partial(B)
BY DEF Partial

LEMMA NoWritePartial ==
  ASSUME NEW B
  PROVE  NoWrite \in Partial(B)
BY PartialFunction DEF NoWrite

-----------------------------------------------------------------------------
(* Sequences                                                               *)

LEMMA Part ==
  ASSUME NEW S, NEW l \in Seq(S), NEW m \in 1..(Len(l) + 1), NEW n \in 0..Len(l), m <= n + 1
  PROVE  SubSeq(l, m, n) \in Seq(S) /\ SubSeq(l, m, n) = [j \in 1..(n - m + 1) |-> l[m + j - 1]]
         /\ Len(SubSeq(l, m, n)) = n - m + 1
  OBVIOUS

LEMMA Listed ==
  ASSUME NEW S, NEW l \in Seq(S)
  PROVE  l = [j \in 1..Len(l) |-> l[j]]
  OBVIOUS

LEMMA Spliced ==
  ASSUME NEW S, NEW l \in Seq(S), NEW m \in Seq(S)
  PROVE  l \o m = [j \in 1..(Len(l) + Len(m)) |-> IF j <= Len(l) THEN l[j] ELSE m[j - Len(l)]]
<1> DEFINE f == [j \in 1..(Len(l) + Len(m)) |-> IF j <= Len(l) THEN l[j] ELSE m[j - Len(l)]]
<1>1. l \o m \in Seq(S) /\ Len(l \o m) = Len(l) + Len(m)
  OBVIOUS
<1>2. f \in Seq(S) /\ Len(f) = Len(l) + Len(m)
  OBVIOUS
<1>3. \A j \in 1..Len(l \o m) : (l \o m)[j] = f[j]
  OBVIOUS
<1>4. l \o m = [j \in 1..Len(l \o m) |-> (l \o m)[j]]
  BY <1>1, Listed
<1>5. f = [j \in 1..Len(f) |-> f[j]]
  BY <1>2
<1> HIDE DEF f
<1>6. l \o m = f
  BY <1>1, <1>2, <1>3, <1>4, <1>5
<1> QED BY <1>6 DEF f

LEMMA Removed ==
  ASSUME NEW S, NEW n \in Nat, NEW l \in [1..n -> S], \A i, j \in 1..n : l[i] = l[j] => i = j,
         NEW i \in 1..n
  PROVE  RemoveFirst(l, l[i]) = [j \in 1..(n - 1) |-> IF j < i THEN l[j] ELSE l[j + 1]]
<1>1. l \in Seq(S) /\ Len(l) = n
  OBVIOUS
<1>2. {j \in 1..Len(l) : l[j] = l[i]} = {i}
  BY <1>1
<1>3. SelectInSeq(l, LAMBDA v : v = l[i]) = i
  BY <1>2 DEF SelectInSeq, Min
<1>4. RemoveFirst(l, l[i]) = RemoveAt(l, i)
  BY <1>1, <1>3 DEF RemoveFirst
<1> DEFINE a == SubSeq(l, 1, i - 1)
           b == SubSeq(l, i + 1, n)
<1>5. /\ a \in Seq(S) /\ Len(a) = i - 1 /\ a = [j \in 1..(i - 1) |-> l[j]]
      /\ b \in Seq(S) /\ Len(b) = n - i /\ b = [j \in 1..(n - i) |-> l[i + j]]
  BY <1>1, Part
<1> HIDE DEF a, b
<1>6. a \o b = [j \in 1..(n - 1) |-> IF j < i THEN l[j] ELSE l[j + 1]]
  BY <1>5, Spliced
<1> QED
  BY <1>1, <1>4, <1>6 DEF RemoveAt, a, b

LEMMA Inserted ==
  ASSUME NEW S, NEW n \in Nat, NEW l \in [1..n -> S], NEW k \in 1..(n + 1), NEW t \in S
  PROVE  InsertAt(l, k, t) = [j \in 1..(n + 1) |-> IF j < k THEN l[j] ELSE IF j = k THEN t ELSE l[j - 1]]
<1>1. l \in Seq(S) /\ Len(l) = n
  OBVIOUS
<1> DEFINE a == SubSeq(l, 1, k - 1)
           b == SubSeq(l, k, n)
<1>2. /\ a \in Seq(S) /\ Len(a) = k - 1 /\ a = [j \in 1..(k - 1) |-> l[j]]
      /\ b \in Seq(S) /\ Len(b) = n - k + 1 /\ b = [j \in 1..(n - k + 1) |-> l[k + j - 1]]
  BY <1>1, Part
<1>3. <<t>> \in Seq(S) /\ Len(<<t>>) = 1 /\ <<t>>[1] = t
  OBVIOUS
<1> HIDE DEF a, b
<1>4. a \o <<t>> = [j \in 1..k |-> IF j < k THEN l[j] ELSE t]
  BY <1>2, <1>3, Spliced
<1>5. a \o <<t>> \in Seq(S) /\ Len(a \o <<t>>) = k
  BY <1>2, <1>3
<1> DEFINE c == a \o <<t>>
<1> HIDE DEF c
<1>6. c \o b = [j \in 1..(n + 1) |-> IF j <= k THEN c[j] ELSE b[j - k]]
  <2>1. k + Len(b) = n + 1
    BY <1>2
  <2> QED BY <1>2, <1>5, <2>1, Spliced DEF c
<1>7. \A j \in 1..(n + 1) :
        (IF j <= k THEN c[j] ELSE b[j - k]) = IF j < k THEN l[j] ELSE IF j = k THEN t ELSE l[j - 1]
  BY <1>2, <1>4 DEF c
<1>8. c \o b = [j \in 1..(n + 1) |-> IF j < k THEN l[j] ELSE IF j = k THEN t ELSE l[j - 1]]
  BY <1>6, <1>7
<1> QED
  BY <1>1, <1>8 DEF InsertAt, a, b, c

-----------------------------------------------------------------------------
(* Types                                                                   *)

TxTypes ==
  /\ write \in [Requests -> Partial(Bound)]
  /\ todo \in [Requests -> Partial(Bound)]
  /\ snap \in [Requests -> Partial(Bound)]
  /\ changed \in [Requests -> SUBSET Rows]
  /\ overtaken \in [Requests -> BOOLEAN]

\* The end of a transaction.
LEMMA EndTypes ==
  ASSUME Types, NEW t \in Requests, NEW done \in SUBSET Rows, NEW isMove \in BOOLEAN,
         EndTransaction(t, done, isMove), spent' = spent
  PROVE  TxTypes'
<1> Bound' = Bound BY DEF Bound
<1>1. write' \in [Requests -> Partial(Bound)] /\ todo' \in [Requests -> Partial(Bound)]
      /\ snap' \in [Requests -> Partial(Bound)]
  BY NoWritePartial DEF Types, EndTransaction
<1>2. changed' \in [Requests -> SUBSET Rows]
  BY DEF Types, EndTransaction
<1>3. overtaken' \in [Requests -> BOOLEAN]
  BY DEF Types, EndTransaction
<1> QED BY <1>1, <1>2, <1>3 DEF TxTypes

\* An answer without a commit.
LEMMA FinishTypes ==
  ASSUME Types, NEW t \in Requests, NEW result \in Results, Finish(t, result)
  PROVE  Types'
<1> /\ Bound' = Bound /\ Live' = Live /\ UNCHANGED <<pos, spent, raced, row, target>>
  BY DEF Finish, dbVars, Bound, Live
<1>1. TxTypes' BY EndTypes DEF Finish, dbVars
<1>2. pc' = [pc EXCEPT ![t] = "done"] /\ outcome' = [outcome EXCEPT ![t] = result]
  BY DEF Finish, Answer
<1>3. pc' \in [Requests -> Labels] /\ outcome' \in [Requests -> Results]
  BY <1>2 DEF Types, Labels
<1>4. snap' = [snap EXCEPT ![t] = NoWrite]
  BY DEF Finish, EndTransaction
<1>5. ASSUME NEW u \in Requests
      PROVE  /\ pc'[u] = "insert" => row[u] \in spent
             /\ Removing(u)' => u \in Removers /\ row[u] \in Rows
             /\ Moving(u)' => row[u] \in Rows /\ snap'[u] \in [Rows -> Bound]
  BY <1>2, <1>4 DEF Types, Removing, Moving
<1> QED BY <1>1, <1>3, <1>5 DEF Types, TxTypes

\* What a transaction sees has the rows of the table.
LEMMA ViewTypes ==
  ASSUME Types, Locks, NEW t \in Requests
  PROVE  /\ View(t) \in [Rows -> Bound] /\ DOMAIN View(t) = Rows
         /\ \A r \in Rows : View(t)[r] = IF r \in DOMAIN write[t] THEN write[t][r] ELSE pos[r]
         /\ {r \in Rows : View(t)[r] > 0} \subseteq Live
<1>1. DOMAIN write[t] \subseteq Rows /\ write[t] \in [DOMAIN write[t] -> Bound]
  BY PartialFunction DEF Types
<1>2. DOMAIN write[t] \subseteq Live BY DEF Locks
<1>3. DOMAIN pos = Rows BY DEF Types
<1>4. View(t) = [r \in Rows |-> IF r \in DOMAIN write[t] THEN write[t][r] ELSE pos[r]]
  BY <1>1, <1>3 DEF View, Over
<1>5. View(t) \in [Rows -> Bound] BY <1>1, <1>4 DEF Types
<1>6. {r \in Rows : View(t)[r] > 0} \subseteq Live BY <1>2, <1>4 DEF Live
<1> QED BY <1>4, <1>5, <1>6

\* A commit.
LEMMA CommitTypes ==
  ASSUME Types, Locks, NEW t \in Requests, NEW isMove \in BOOLEAN, Commit(t, isMove)
  PROVE  Types'
<1> /\ Bound' = Bound /\ UNCHANGED <<spent, raced, row, target>>
  BY DEF Commit, Bound
<1>1. TxTypes'
  <2> DOMAIN write[t] \subseteq Rows BY PartialFunction DEF Types
  <2> QED BY EndTypes DEF Commit
<1>2. pos' \in [Rows -> Bound] /\ Live' \subseteq spent
  BY ViewTypes DEF Commit, Live, Types
<1>3. pc' = [pc EXCEPT ![t] = "done"] /\ outcome' = [outcome EXCEPT ![t] = "ok"]
  BY DEF Commit, Answer
<1>4. pc' \in [Requests -> Labels] /\ outcome' \in [Requests -> Results]
  BY <1>3 DEF Types, Labels, Results
<1>5. snap' = [snap EXCEPT ![t] = NoWrite]
  BY DEF Commit, EndTransaction
<1>6. ASSUME NEW u \in Requests
      PROVE  /\ pc'[u] = "insert" => row[u] \in spent
             /\ Removing(u)' => u \in Removers /\ row[u] \in Rows
             /\ Moving(u)' => row[u] \in Rows /\ snap'[u] \in [Rows -> Bound]
  BY <1>3, <1>5 DEF Types, Removing, Moving
<1> QED BY <1>1, <1>2, <1>4, <1>6 DEF Types, TxTypes

\* MAX(position), if there is a row.
LEMMA LastPositionIsMax ==
  ASSUME Types
  PROVE  /\ LastPosition \in Bound
         /\ \A r \in Live : pos[r] <= LastPosition
         /\ Live # {} => \E r \in Live : pos[r] = LastPosition
<1> DEFINE n == Cardinality(spent)
<1>1. n \in Nat BY Counts
<1>2. CASE Live = {} BY <1>1, <1>2 DEF LastPosition, Bound
<1>3. CASE Live # {}
  <2>1. Range(pos) \subseteq Nat /\ \A q \in Range(pos) : q <= n
    BY <1>1 DEF Types, Bound, Range
  <2>2. Range(pos) # {} BY <1>3 DEF Range, Types, Live
  <2>3. \E p \in Range(pos) : \A q \in Range(pos) : q <= p
    BY <1>1, <2>1, <2>2, Greatest
  <2>4. LastPosition \in Range(pos) /\ \A q \in Range(pos) : q <= LastPosition
    BY <1>3, <2>3 DEF LastPosition
  <2>5. \A r \in Rows : pos[r] \in Range(pos) BY DEF Types, Range
  <2>6. PICK r \in Rows : pos[r] = LastPosition BY <2>4 DEF Types, Range
  <2>7. LastPosition > 0 BY <1>3, <2>1, <2>4, <2>5 DEF Live
  <2> QED BY <1>1, <2>1, <2>4, <2>5, <2>6, <2>7 DEF Live, Bound
<1> QED BY <1>2, <1>3

LEMMA AddReadTypes ==
  ASSUME Types, NEW t \in Requests, AddRead(t)
  PROVE  Types'
<1>1. PICK r \in Rows \ spent :
        row' = [row EXCEPT ![t] = r] /\ spent' = spent \cup {r}
  BY DEF AddRead
<1>2. Cardinality(spent') = Cardinality(spent) + 1 /\ Cardinality(spent) \in Nat
  BY <1>1, Counts, FS_AddElement
<1>3. Bound \subseteq Bound' /\ Partial(Bound) \subseteq Partial(Bound')
  BY <1>2, PartialGrows DEF Bound
<1>4. UNCHANGED <<pos, raced, write, todo, snap, changed, overtaken, outcome>> /\ Live' = Live
  BY DEF AddRead, txVars, Live
<1>5. target' \in [Requests -> Bound']
  <2>1. LastPosition + 1 \in Bound' BY <1>2, LastPositionIsMax DEF Bound
  <2> QED BY <1>3, <2>1 DEF AddRead, Types
<1>6. pc' = [pc EXCEPT ![t] = "insert"] /\ pc' \in [Requests -> Labels]
  BY DEF AddRead, Goto, Types, Labels
<1>7. pos' \in [Rows -> Bound'] BY <1>3, <1>4 DEF Types
<1>8. /\ write' \in [Requests -> Partial(Bound')] /\ todo' \in [Requests -> Partial(Bound')]
      /\ snap' \in [Requests -> Partial(Bound')]
  BY <1>3, <1>4 DEF Types
<1>9. ASSUME NEW u \in Requests
      PROVE  /\ pc'[u] = "insert" => row'[u] \in spent'
             /\ Removing(u)' => u \in Removers /\ row'[u] \in Rows
             /\ Moving(u)' => row'[u] \in Rows /\ snap'[u] \in [Rows -> Bound']
  BY <1>1, <1>3, <1>4, <1>6 DEF Types, Removing, Moving
<1>10. row' \in [Requests -> Rows \cup {Nil}] /\ spent' \subseteq Rows /\ Live' \subseteq spent'
  BY <1>1, <1>4 DEF Types
<1> QED BY <1>4, <1>5, <1>6, <1>7, <1>8, <1>9, <1>10 DEF Types

LEMMA AddInsertTypes ==
  ASSUME Types, NEW t \in Requests, AddInsert(t)
  PROVE  Types'
<1> /\ Bound' = Bound /\ UNCHANGED <<spent, row, target, write, todo, snap, changed, overtaken>>
  BY DEF AddInsert, Bound, txVars
<1>1. pos' = [pos EXCEPT ![row[t]] = target[t]] /\ raced' \in BOOLEAN
  BY DEF AddInsert
<1>2. pos' \in [Rows -> Bound] /\ Live' \subseteq spent
  BY <1>1 DEF Types, AddInsert, Live
<1>3. pc' = [pc EXCEPT ![t] = "done"] /\ outcome' = [outcome EXCEPT ![t] = "ok"]
  BY DEF AddInsert, Answer
<1>4. pc' \in [Requests -> Labels] /\ outcome' \in [Requests -> Results]
  BY <1>3 DEF Types, Labels, Results
<1>5. ASSUME NEW u \in Requests
      PROVE  /\ pc'[u] = "insert" => row[u] \in spent
             /\ Removing(u)' => u \in Removers /\ row[u] \in Rows
             /\ Moving(u)' => row[u] \in Rows /\ snap'[u] \in [Rows -> Bound]
  BY <1>3 DEF Types, Removing, Moving
<1> QED BY <1>1, <1>2, <1>4, <1>5 DEF Types

LEMMA RemoveDeleteTypes ==
  ASSUME Types, NEW t \in Requests, NEW r \in Rows, RemoveDelete(t, r)
  PROVE  Types'
<1> /\ Bound' = Bound /\ Live' = Live
    /\ UNCHANGED <<pos, spent, raced, target, todo, snap, changed, overtaken, outcome>>
  BY DEF RemoveDelete, Bound, Live, dbVars
<1>1. pc' = [pc EXCEPT ![t] = "recompact"] /\ pc' \in [Requests -> Labels]
  BY DEF RemoveDelete, Goto, Types, Labels
<1>2. row' = [row EXCEPT ![t] = r] /\ t \in Removers
  BY DEF RemoveDelete
<1>3. [x \in {r} |-> 0] \in Partial(Bound)
  <2>1. 0 \in Bound BY Counts DEF Bound
  <2> QED BY <2>1, PartialFunction
<1>4. write' \in [Requests -> Partial(Bound)]
  BY <1>3 DEF RemoveDelete, Types
<1>5. ASSUME NEW u \in Requests
      PROVE  /\ pc'[u] = "insert" => row'[u] \in spent
             /\ Removing(u)' => u \in Removers /\ row'[u] \in Rows
             /\ Moving(u)' => row'[u] \in Rows /\ snap'[u] \in [Rows -> Bound]
  BY <1>1, <1>2 DEF Types, Removing, Moving
<1> QED BY <1>1, <1>2, <1>4, <1>5 DEF Types

\* A step of a transaction that keeps its row and its snapshot.
LEMMA StepTypes ==
  ASSUME Types, NEW t \in Requests, NEW label \in {"recompacting", "removed", "place", "moved"},
         Goto(t, label), label \in {"recompacting", "removed"} => Removing(t),
         label \in {"place", "moved"} => Moving(t),
         write' \in [Requests -> Partial(Bound)], todo' \in [Requests -> Partial(Bound)],
         UNCHANGED <<dbVars, row, target, snap, changed, overtaken, outcome>>
  PROVE  Types'
<1> Bound' = Bound /\ Live' = Live /\ UNCHANGED <<pos, spent, raced>>
  BY DEF Bound, Live, dbVars
<1>1. pc' = [pc EXCEPT ![t] = label] /\ pc' \in [Requests -> Labels]
  BY DEF Goto, Types, Labels
<1>2. ASSUME NEW u \in Requests
      PROVE  /\ pc'[u] = "insert" => row[u] \in spent
             /\ Removing(u)' => u \in Removers /\ row[u] \in Rows
             /\ Moving(u)' => row[u] \in Rows /\ snap'[u] \in [Rows -> Bound]
  BY <1>1 DEF Types, Removing, Moving
<1> QED BY <1>1, <1>2 DEF Types

\* What ROW_NUMBER gives to the rows that t sees.
LEMMA Numbered ==
  ASSUME Types, Locks, NEW t \in Requests, NEW n \in RowNumbers(View(t))
  PROVE  LET S == {r \in Rows : View(t)[r] > 0}
         IN  S \subseteq Live /\ n \in [S -> 1..Cardinality(S)] /\ Ranks(n, S, Cardinality(S))
             /\ n \in Partial(Bound)
<1> DEFINE S == {r \in Rows : View(t)[r] > 0}
<1>1. S \subseteq Live BY ViewTypes
<1>2. n \in Bijection(S, 1..Cardinality(S)) BY DEF RowNumbers
<1>3. Cardinality(S) \in Nat /\ Cardinality(S) <= Cardinality(spent)
  <2>1. IsFiniteSet(S) /\ Cardinality(S) <= Cardinality(Live) BY <1>1, Counts, FS_Subset
  <2> QED BY <2>1, Counts, FS_CardinalityType
<1> HIDE DEF S
<1>4. n \in [S -> 1..Cardinality(S)] /\ Ranks(n, S, Cardinality(S))
  BY <1>2, <1>3, BijectionRanks
<1>5. 1..Cardinality(S) \subseteq Bound BY <1>3, Counts DEF Bound
<1>6. S \subseteq Rows BY DEF S
<1>7. n \in Partial(Bound)
  <2>1. DOMAIN n = S /\ n \in [S -> Bound] BY <1>4, <1>5
  <2> QED BY <2>1, <1>6, PartialFunction
<1> QED BY <1>1, <1>4, <1>7 DEF S

LEMMA RecompactReadTypes ==
  ASSUME Types, Locks, NEW t \in Requests, RecompactRead(t)
  PROVE  Types'
<1>1. PICK n \in RowNumbers(View(t)) : todo' = [todo EXCEPT ![t] = n]
  BY DEF RecompactRead
<1>2. n \in Partial(Bound) BY Numbered
<1>3. todo' \in [Requests -> Partial(Bound)] BY <1>1, <1>2 DEF Types
<1>4. write' \in [Requests -> Partial(Bound)] BY DEF Types, RecompactRead
<1> QED BY <1>3, <1>4, StepTypes DEF RecompactRead, Removing

\* One version over another.
LEMMA OverPartial ==
  ASSUME NEW B, NEW f \in Partial(B), NEW g \in Partial(B)
  PROVE  Over(f, g) \in Partial(B) /\ DOMAIN Over(f, g) = DOMAIN f \cup DOMAIN g
<1>1. /\ DOMAIN f \subseteq Rows /\ f \in [DOMAIN f -> B]
      /\ DOMAIN g \subseteq Rows /\ g \in [DOMAIN g -> B]
  BY PartialFunction
<1>2. DOMAIN Over(f, g) = DOMAIN f \cup DOMAIN g BY DEF Over
<1>3. Over(f, g) \in [DOMAIN f \cup DOMAIN g -> B] BY <1>1 DEF Over
<1> QED BY <1>1, <1>2, <1>3, PartialFunction

LEMMA RecompactWriteTypes ==
  ASSUME Types, NEW t \in Requests, RecompactWrite(t)
  PROVE  Types'
<1> DEFINE f == Restrict(todo[t], DOMAIN todo[t] \cap Live)
<1>1. f \in Partial(Bound)
  <2>1. DOMAIN todo[t] \subseteq Rows /\ todo[t] \in [DOMAIN todo[t] -> Bound]
    BY PartialFunction DEF Types
  <2>2. DOMAIN f = DOMAIN todo[t] \cap Live BY DEF Restrict
  <2>3. f \in [DOMAIN todo[t] \cap Live -> Bound] BY <2>1 DEF Restrict
  <2> QED BY <2>1, <2>2, <2>3, PartialFunction
<1>2. write[t] \in Partial(Bound) BY DEF Types
<1> HIDE DEF f
<1>3. Over(f, write[t]) \in Partial(Bound) BY <1>1, <1>2, OverPartial
<1>4. write' = [write EXCEPT ![t] = Over(f, write[t])] BY DEF RecompactWrite, f
<1>5. write' \in [Requests -> Partial(Bound)] BY <1>3, <1>4 DEF Types
<1>6. todo' \in [Requests -> Partial(Bound)] BY NoWritePartial DEF Types, RecompactWrite
<1> QED BY <1>5, <1>6, StepTypes DEF RecompactWrite, Removing

LEMMA MoveReadTypes ==
  ASSUME Types, NEW t \in Requests, NEW r \in Rows, NEW p \in Nat, MoveRead(t, r, p)
  PROVE  Types'
<1>1. CASE \E result \in Results : Finish(t, result) BY <1>1, FinishTypes
<1>2. CASE ~\E result \in Results : Finish(t, result)
  <2>1. /\ p <= Cardinality(Live) /\ r \in Live
        /\ row' = [row EXCEPT ![t] = r] /\ target' = [target EXCEPT ![t] = p]
        /\ snap' = [snap EXCEPT ![t] = pos] /\ Goto(t, "shift")
        /\ UNCHANGED <<dbVars, write, todo, changed, overtaken, outcome>>
    BY <1>2 DEF MoveRead, Results
  <2> Bound' = Bound /\ Live' = Live /\ UNCHANGED <<pos, spent, raced>>
    BY <2>1 DEF Bound, Live, dbVars
  <2>2. pc' = [pc EXCEPT ![t] = "shift"] /\ pc' \in [Requests -> Labels]
    BY <2>1 DEF Goto, Types, Labels
  <2>3. p \in Bound BY <2>1, Counts DEF Bound
  <2>4. pos \in Partial(Bound) BY PartialFunction DEF Types
  <2>5. /\ row' \in [Requests -> Rows \cup {Nil}] /\ target' \in [Requests -> Bound]
        /\ snap' \in [Requests -> Partial(Bound)]
    BY <2>1, <2>3, <2>4 DEF Types
  <2>6. ASSUME NEW u \in Requests
        PROVE  /\ pc'[u] = "insert" => row'[u] \in spent
               /\ Removing(u)' => u \in Removers /\ row'[u] \in Rows
               /\ Moving(u)' => row'[u] \in Rows /\ snap'[u] \in [Rows -> Bound]
    BY <2>1, <2>2 DEF Types, Removing, Moving
  <2> QED BY <2>1, <2>2, <2>5, <2>6 DEF Types
<1> QED BY <1>1, <1>2

\* The rows between, and where they go.
Between(t) ==
  IF target[t] > snap[t][row[t]]
  THEN {r \in Rows : snap[t][row[t]] < snap[t][r] /\ snap[t][r] <= target[t]}
  ELSE {r \in Rows : target[t] <= snap[t][r] /\ snap[t][r] < snap[t][row[t]]}

LEMMA ShiftedIs ==
  ASSUME NEW t
  PROVE  /\ DOMAIN Shifted(t) = Between(t)
         /\ \A r \in Between(t) :
              Shifted(t)[r] = IF target[t] > snap[t][row[t]] THEN snap[t][r] - 1 ELSE snap[t][r] + 1
BY DEF Shifted, Between

LEMMA ShiftedTypes ==
  ASSUME Types, NEW t \in Requests, Moving(t)
  PROVE  Shifted(t) \in Partial(Bound) /\ Between(t) \subseteq Rows
<1>1. row[t] \in Rows /\ snap[t] \in [Rows -> Bound] /\ target[t] \in Bound
  BY DEF Types
<1>2. Cardinality(spent) \in Nat BY Counts
<1>3. Between(t) \subseteq Rows BY DEF Between
<1>4. ASSUME NEW r \in Between(t)
      PROVE  Shifted(t)[r] \in Bound
  <2> DEFINE c == snap[t][row[t]]
             x == snap[t][r]
             p == target[t]
             N == Cardinality(spent)
  <2>1. c \in 0..N /\ x \in 0..N /\ p \in 0..N BY <1>1, <1>3, <1>4 DEF Bound
  <2>2. Shifted(t)[r] = IF p > c THEN x - 1 ELSE x + 1 BY <1>4, ShiftedIs
  <2>3. (p > c => c < x) /\ (~(p > c) => x < c) BY <1>4 DEF Between
  <2> HIDE DEF c, x, p
  <2>4. Shifted(t)[r] \in 0..N BY <1>2, <2>1, <2>2, <2>3
  <2> QED BY <2>4 DEF Bound
<1>5. Shifted(t) \in [Between(t) -> Bound]
  <2>1. Shifted(t) = [r \in Between(t) |-> Shifted(t)[r]] BY DEF Shifted, Between
  <2> QED BY <2>1, <1>4
<1> QED BY <1>3, <1>5, ShiftedIs, PartialFunction

LEMMA SerializableTypes ==
  ASSUME Types, NEW t \in Requests, Moving(t), NEW v \in Partial(Bound),
         NEW label \in {"place", "moved"}, SerializableWrite(t, v, label)
  PROVE  Types'
<1>1. CASE Finish(t, "conflict") BY <1>1, FinishTypes DEF Results
<1>2. CASE ~Finish(t, "conflict")
  <2>1. /\ write' = [write EXCEPT ![t] = Over(v, write[t])] /\ Goto(t, label)
        /\ UNCHANGED <<dbVars, row, target, todo, snap, changed, overtaken, outcome>>
    BY <1>2 DEF SerializableWrite
  <2>2. Over(v, write[t]) \in Partial(Bound) BY OverPartial DEF Types
  <2>3. /\ write' \in [Requests -> Partial(Bound)] /\ todo' \in [Requests -> Partial(Bound)]
    BY <2>1, <2>2 DEF Types
  <2> QED BY <2>1, <2>3, StepTypes
<1> QED BY <1>1, <1>2

LEMMA PlacedTypes ==
  ASSUME Types, NEW t \in Requests, Moving(t)
  PROVE  [r \in {row[t]} |-> target[t]] \in Partial(Bound)
BY PartialFunction DEF Types

\* Every action keeps the types.
LEMMA TypesNext ==
  ASSUME Types, Locks, [Next]_vars
  PROVE  Types'
<1>1. ASSUME NEW t \in Requests, AddDuplicate(t) \/ Cancel(t) \/ DeadlockVictim(t)
      PROVE  Types'
  BY <1>1, FinishTypes DEF AddDuplicate, Cancel, DeadlockVictim, Results
<1>2. ASSUME NEW t \in Requests, NEW r \in Rows, RemoveNotFound(t, r)
      PROVE  Types'
  BY <1>2, FinishTypes DEF RemoveNotFound, Results
<1>3. ASSUME NEW t \in Requests, RemoveCommit(t) PROVE Types'
  BY <1>3, CommitTypes DEF RemoveCommit
<1>4. ASSUME NEW t \in Requests, MoveCommit(t) PROVE Types'
  BY <1>4, CommitTypes, FinishTypes DEF MoveCommit, Results
<1>5. ASSUME NEW t \in Requests, MoveShift(t) PROVE Types'
  <2>1. Moving(t) BY <1>5 DEF MoveShift, Moving
  <2> QED BY <1>5, <2>1, ShiftedTypes, SerializableTypes DEF MoveShift
<1>6. ASSUME NEW t \in Requests, MovePlace(t) PROVE Types'
  <2>1. Moving(t) BY <1>6 DEF MovePlace, Moving
  <2> QED BY <1>6, <2>1, PlacedTypes, SerializableTypes DEF MovePlace
<1>7. ASSUME NEW t \in Requests, NEW r \in Rows, NEW p \in 1..(Cardinality(Rows) + 1),
             MoveRead(t, r, p)
      PROVE  Types'
  BY <1>7, Counts, MoveReadTypes
<1>8. CASE UNCHANGED vars
  <2> UNCHANGED <<pos, spent, raced, pc, row, target, write, todo, snap, changed, overtaken,
                  outcome>>
    BY <1>8 DEF vars, dbVars, txVars, reqVars
  <2>1. Bound' = Bound /\ Live' = Live BY DEF Bound, Live
  <2> QED BY <2>1 DEF Types, Removing, Moving
<1> QED
  BY <1>1, <1>2, <1>3, <1>4, <1>5, <1>6, <1>7, <1>8, AddReadTypes, AddInsertTypes,
     RemoveDeleteTypes, RecompactReadTypes, RecompactWriteTypes
  DEF Next, Start, Step, Answered

-----------------------------------------------------------------------------
(* Locks                                                                   *)

\* What the end of a transaction leaves to the others.
LEMMA FinishFacts ==
  ASSUME Types, NEW t \in Requests, NEW result, Finish(t, result)
  PROVE  /\ \A u \in Requests \ {t} :
              /\ pc'[u] = pc[u] /\ write'[u] = write[u] /\ todo'[u] = todo[u] /\ snap'[u] = snap[u]
              /\ Moving(u) => changed'[u] = changed[u] /\ overtaken'[u] = overtaken[u]
         /\ pc'[t] = "done" /\ write'[t] = NoWrite
         /\ UNCHANGED <<pos, spent, raced, row, target>>
<1>1. EndTransaction(t, {}, FALSE) /\ pc' = [pc EXCEPT ![t] = "done"]
      /\ UNCHANGED <<pos, spent, raced, row, target>>
  BY DEF Finish, Answer, dbVars
<1>2. \A u \in Requests \ {t} :
        pc'[u] = pc[u] /\ write'[u] = write[u] /\ todo'[u] = todo[u] /\ snap'[u] = snap[u]
  BY <1>1 DEF EndTransaction, Types
<1>3. ASSUME NEW u \in Requests \ {t}, Moving(u)
      PROVE  changed'[u] = changed[u] /\ overtaken'[u] = overtaken[u]
  <2>1. changed'[u] = changed[u] \cup {} BY <1>1, <1>3 DEF EndTransaction, Moving
  <2>2. overtaken'[u] = overtaken[u] BY <1>1, <1>3 DEF EndTransaction, Moving, Types
  <2> QED BY <2>1, <2>2
<1>4. pc'[t] = "done" /\ write'[t] = NoWrite BY <1>1 DEF EndTransaction, Types
<1> QED BY <1>1, <1>2, <1>3, <1>4

LEMMA CommitFacts ==
  ASSUME Types, NEW t \in Requests, NEW isMove \in BOOLEAN, Commit(t, isMove)
  PROVE  /\ \A u \in Requests \ {t} :
              /\ pc'[u] = pc[u] /\ write'[u] = write[u] /\ todo'[u] = todo[u] /\ snap'[u] = snap[u]
              /\ Moving(u) => /\ changed'[u] = changed[u] \cup DOMAIN write[t]
                              /\ isMove = FALSE => overtaken'[u] = overtaken[u]
                              /\ isMove = TRUE /\ DOMAIN write[t] # {} => overtaken'[u] = TRUE
         /\ pc'[t] = "done" /\ write'[t] = NoWrite
<1>1. EndTransaction(t, DOMAIN write[t], isMove) /\ pc' = [pc EXCEPT ![t] = "done"]
  BY DEF Commit, Answer
<1>2. \A u \in Requests \ {t} :
        /\ pc'[u] = pc[u] /\ write'[u] = write[u] /\ todo'[u] = todo[u] /\ snap'[u] = snap[u]
        /\ Moving(u) => changed'[u] = changed[u] \cup DOMAIN write[t]
  BY <1>1 DEF EndTransaction, Types, Moving
<1>3. ASSUME NEW u \in Requests \ {t}, Moving(u)
      PROVE  /\ isMove = FALSE => overtaken'[u] = overtaken[u]
             /\ isMove = TRUE /\ DOMAIN write[t] # {} => overtaken'[u] = TRUE
  <2>1. overtaken'[u] = (overtaken[u] \/ (isMove /\ DOMAIN write[t] # {}))
    BY <1>1, <1>3 DEF EndTransaction, Moving
  <2>2. overtaken[u] \in BOOLEAN BY DEF Types
  <2> QED BY <2>1, <2>2
<1>4. pc'[t] = "done" /\ write'[t] = NoWrite BY <1>1 DEF EndTransaction, Types
<1> QED BY <1>2, <1>3, <1>4

\* A request that stays in its place keeps its part of the locks.
LEMMA LocksFrame ==
  ASSUME Types, Locks, NEW t \in Requests, pos' = pos,
         \A u \in Requests \ {t} :
           /\ pc'[u] = pc[u] /\ write'[u] = write[u] /\ snap'[u] = snap[u] /\ row'[u] = row[u]
           /\ target'[u] = target[u] /\ (Moving(u) => changed[u] \subseteq changed'[u]),
         DOMAIN write'[t] \subseteq Live,
         \A u \in Requests \ {t} : DOMAIN write'[t] \cap DOMAIN write[u] = {},
         pc'[t] \in {"idle", "done", "insert", "shift"} => write'[t] = NoWrite,
         Moving(t)' => /\ row'[t] \in SnapLive(t)' /\ target'[t] > 0
                       /\ \A r \in SnapLive(t)' \ changed'[t] : pos[r] = snap'[t][r]
  PROVE  Locks'
<1>1. Live' = Live BY DEF Live
<1>2. \A u \in Requests : DOMAIN write'[u] \subseteq Live' BY <1>1 DEF Locks
<1>3. \A u, v \in Requests : u # v => DOMAIN write'[u] \cap DOMAIN write'[v] = {}
  BY DEF Locks
<1>4. \A u \in Requests : pc'[u] \in {"idle", "done", "insert", "shift"} => write'[u] = NoWrite
  BY DEF Locks
<1>5. ASSUME NEW u \in Requests, Moving(u)'
      PROVE  /\ row'[u] \in SnapLive(u)' /\ target'[u] > 0
             /\ \A r \in SnapLive(u)' \ changed'[u] : pos'[r] = snap'[u][r]
  <2>1. CASE u = t BY <1>5, <2>1
  <2>2. CASE u # t
    <3>1. Moving(u) BY <1>5, <2>2 DEF Moving
    <3>2. SnapLive(u)' = SnapLive(u) BY <2>2 DEF SnapLive
    <3>3. changed[u] \subseteq changed'[u] BY <2>2, <3>1
    <3> QED BY <2>2, <3>1, <3>2, <3>3 DEF Locks
  <2> QED BY <2>1, <2>2
<1> QED BY <1>2, <1>3, <1>4, <1>5 DEF Locks

LEMMA FinishLocks ==
  ASSUME Types, Locks, NEW t \in Requests, NEW result, Finish(t, result)
  PROVE  Locks'
<1>1. /\ \A u \in Requests \ {t} :
           /\ pc'[u] = pc[u] /\ write'[u] = write[u] /\ snap'[u] = snap[u]
           /\ Moving(u) => changed'[u] = changed[u]
      /\ pc'[t] = "done" /\ write'[t] = NoWrite /\ UNCHANGED <<pos, row, target>>
  BY FinishFacts
<1>2. DOMAIN write'[t] = {} BY <1>1 DEF NoWrite
<1>3. ~Moving(t)' BY <1>1 DEF Moving
<1> QED BY <1>1, <1>2, <1>3, LocksFrame

LEMMA CommitLocks ==
  ASSUME Types, Locks, NEW t \in Requests, NEW isMove \in BOOLEAN, Commit(t, isMove)
  PROVE  Locks'
<1>1. EndTransaction(t, DOMAIN write[t], isMove) /\ pc' = [pc EXCEPT ![t] = "done"]
      /\ pos' = View(t) /\ UNCHANGED <<row, target>>
  BY DEF Commit, Answer
<1>2. /\ \A u \in Requests \ {t} :
           /\ pc'[u] = pc[u] /\ write'[u] = write[u] /\ snap'[u] = snap[u]
           /\ Moving(u) => changed'[u] = changed[u] \cup DOMAIN write[t]
      /\ pc'[t] = "done" /\ write'[t] = NoWrite
  BY CommitFacts
<1>3. \A r \in Rows \ DOMAIN write[t] : pos'[r] = pos[r]
  BY <1>1, ViewTypes
<1>4. DOMAIN write'[t] = {} BY <1>2 DEF NoWrite
<1>5. ASSUME NEW u \in Requests PROVE DOMAIN write'[u] \subseteq Live'
  BY <1>2, <1>3, <1>4 DEF Locks, Live
<1>6. \A u, v \in Requests : u # v => DOMAIN write'[u] \cap DOMAIN write'[v] = {}
  BY <1>2, <1>4 DEF Locks
<1>7. \A u \in Requests : pc'[u] \in {"idle", "done", "insert", "shift"} => write'[u] = NoWrite
  BY <1>2 DEF Locks
<1>8. ASSUME NEW u \in Requests, Moving(u)'
      PROVE  /\ row'[u] \in SnapLive(u)' /\ target'[u] > 0
             /\ \A r \in SnapLive(u)' \ changed'[u] : pos'[r] = snap'[u][r]
  <2>1. u # t BY <1>2, <1>8 DEF Moving
  <2>2. Moving(u) BY <1>2, <1>8, <2>1 DEF Moving
  <2>3. SnapLive(u)' = SnapLive(u) /\ SnapLive(u) \subseteq Rows BY <1>2, <2>1 DEF SnapLive
  <2>4. changed'[u] = changed[u] \cup DOMAIN write[t] BY <1>2, <2>1, <2>2
  <2> QED BY <1>1, <1>2, <1>3, <2>1, <2>2, <2>3, <2>4 DEF Locks
<1> QED BY <1>5, <1>6, <1>7, <1>8 DEF Locks

\* The row of an addition that inserts is not there.
LEMMA Inserting ==
  ASSUME Types, NEW t \in Requests, AddInsert(t)
  PROVE  row[t] \in Rows /\ row[t] \notin Live
<1>1. row[t] \in Rows BY DEF AddInsert, Types
<1> QED BY <1>1 DEF AddInsert, SongTaken

LEMMA AddInsertLocks ==
  ASSUME Types, Locks, NEW t \in Requests, AddInsert(t)
  PROVE  Locks'
<1>1. /\ pos' = [pos EXCEPT ![row[t]] = target[t]] /\ pc' = [pc EXCEPT ![t] = "done"]
      /\ UNCHANGED <<row, target, write, snap, changed>> /\ pc[t] = "insert"
  BY DEF AddInsert, Answer, txVars
<1>2. \A r \in Live : pos'[r] = pos[r] BY <1>1, Inserting DEF Types, Live
<1>3. Live \subseteq Live' BY <1>2 DEF Live
<1>4. \A u \in Requests : pc'[u] \in {"idle", "done", "insert", "shift"} => write'[u] = NoWrite
  BY <1>1 DEF Locks, Types
<1>5. ASSUME NEW u \in Requests, Moving(u)'
      PROVE  /\ row'[u] \in SnapLive(u)' /\ target'[u] > 0
             /\ \A r \in SnapLive(u)' \ changed'[u] : pos'[r] = snap'[u][r]
  <2>1. Moving(u) /\ SnapLive(u)' = SnapLive(u) BY <1>1, <1>5 DEF Moving, SnapLive, Types
  <2>2. \A r \in SnapLive(u) \ changed[u] : pos[r] = snap[u][r] BY <2>1 DEF Locks
  <2>3. \A r \in SnapLive(u) \ changed[u] : r \in Live
    BY <2>2 DEF Live, SnapLive
  <2> QED BY <1>1, <1>2, <2>1, <2>2, <2>3 DEF Locks
<1> QED BY <1>1, <1>3, <1>4, <1>5 DEF Locks

LEMMA AddReadLocks ==
  ASSUME Types, Locks, NEW t \in Requests, AddRead(t)
  PROVE  Locks'
<1>1. /\ UNCHANGED <<pos, write, snap, changed>>
      /\ pc[t] = "idle" /\ pc' = [pc EXCEPT ![t] = "insert"]
      /\ \A u \in Requests \ {t} : row'[u] = row[u] /\ target'[u] = target[u]
  BY DEF AddRead, txVars, Goto, Types
<1>2. /\ \A u \in Requests \ {t} : pc'[u] = pc[u]
      /\ pc'[t] = "insert" /\ ~Moving(t)'
  BY <1>1 DEF Types, Moving
<1>3. write[t] = NoWrite /\ DOMAIN write[t] = {} BY <1>1 DEF Locks, NoWrite
<1> QED BY <1>1, <1>2, <1>3, LocksFrame

LEMMA RemoveDeleteLocks ==
  ASSUME Types, Locks, NEW t \in Requests, NEW r \in Rows, RemoveDelete(t, r)
  PROVE  Locks'
<1>1. /\ UNCHANGED <<pos, target, snap, changed>>
      /\ pc' = [pc EXCEPT ![t] = "recompact"] /\ row' = [row EXCEPT ![t] = r]
      /\ write' = [write EXCEPT ![t] = [x \in {r} |-> 0]]
      /\ r \in Live /\ ~LockedFor(t, r)
  BY DEF RemoveDelete, dbVars, Goto
<1>2. /\ \A u \in Requests \ {t} : pc'[u] = pc[u] /\ write'[u] = write[u] /\ row'[u] = row[u]
      /\ pc'[t] = "recompact" /\ ~Moving(t)' /\ DOMAIN write'[t] = {r}
  BY <1>1 DEF Types, Moving
<1>3. \A u \in Requests \ {t} : DOMAIN write'[t] \cap DOMAIN write[u] = {}
  BY <1>1, <1>2 DEF LockedFor
<1> QED BY <1>1, <1>2, <1>3, LocksFrame

LEMMA RecompactReadLocks ==
  ASSUME Types, Locks, NEW t \in Requests, RecompactRead(t)
  PROVE  Locks'
<1>1. /\ UNCHANGED <<pos, target, row, write, snap, changed>>
      /\ pc' = [pc EXCEPT ![t] = "recompacting"]
  BY DEF RecompactRead, dbVars, Goto
<1>2. /\ \A u \in Requests \ {t} : pc'[u] = pc[u]
      /\ pc'[t] = "recompacting" /\ ~Moving(t)'
  BY <1>1 DEF Types, Moving
<1>3. /\ \A u \in Requests \ {t} : DOMAIN write'[t] \cap DOMAIN write[u] = {}
      /\ DOMAIN write'[t] \subseteq Live
  BY <1>1 DEF Locks
<1> QED BY <1>1, <1>2, <1>3, LocksFrame

\* What a removal holds after it has written.
LEMMA Recompacted ==
  ASSUME Types, NEW t \in Requests, RecompactWrite(t)
  PROVE  /\ DOMAIN write'[t] = (DOMAIN todo[t] \cap Live) \cup DOMAIN write[t]
         /\ \A r \in DOMAIN write'[t] :
              write'[t][r] = IF r \in DOMAIN todo[t] \cap Live THEN todo[t][r] ELSE write[t][r]
         /\ \A u \in Requests \ {t} : write'[u] = write[u]
<1> DEFINE f == Restrict(todo[t], DOMAIN todo[t] \cap Live)
<1>1. write' = [write EXCEPT ![t] = Over(f, write[t])] BY DEF RecompactWrite
<1>2. write'[t] = Over(f, write[t]) /\ \A u \in Requests \ {t} : write'[u] = write[u]
  BY <1>1 DEF Types
<1>3. DOMAIN f = DOMAIN todo[t] \cap Live /\ \A r \in DOMAIN f : f[r] = todo[t][r]
  BY DEF Restrict
<1> HIDE DEF f
<1> QED BY <1>2, <1>3 DEF Over

LEMMA RecompactWriteLocks ==
  ASSUME Types, Locks, NEW t \in Requests, RecompactWrite(t)
  PROVE  Locks'
<1>1. /\ UNCHANGED <<pos, target, row, snap, changed>>
      /\ pc' = [pc EXCEPT ![t] = "removed"]
      /\ \A r \in DOMAIN todo[t] : ~LockedFor(t, r)
  BY DEF RecompactWrite, dbVars, Goto
<1>2. /\ \A u \in Requests \ {t} : pc'[u] = pc[u]
      /\ pc'[t] = "removed" /\ ~Moving(t)'
  BY <1>1 DEF Types, Moving
<1>3. DOMAIN write'[t] \subseteq Live BY Recompacted DEF Locks
<1>4. \A u \in Requests \ {t} : DOMAIN write'[t] \cap DOMAIN write[u] = {}
  BY <1>1, Recompacted DEF Locks, LockedFor
<1>5. \A u \in Requests \ {t} : write'[u] = write[u] BY Recompacted
<1> QED BY <1>1, <1>2, <1>3, <1>4, <1>5, LocksFrame

\* A move that has read and goes on.
MoveBegins(t, r, p) ==
  /\ pc[t] = "idle" /\ t \in Movers
  /\ p <= Cardinality(Live) /\ r \in Live /\ pos[r] # p
  /\ row' = [row EXCEPT ![t] = r] /\ target' = [target EXCEPT ![t] = p]
  /\ snap' = [snap EXCEPT ![t] = pos] /\ pc' = [pc EXCEPT ![t] = "shift"]
  /\ UNCHANGED <<pos, spent, raced, write, todo, changed, overtaken, outcome>>

LEMMA MoveReadCases ==
  ASSUME NEW t, NEW r, NEW p, MoveRead(t, r, p)
  PROVE  (\E result \in Results : Finish(t, result)) \/ MoveBegins(t, r, p)
BY DEF MoveRead, MoveBegins, Results, Goto, dbVars

LEMMA MoveReadLocks ==
  ASSUME Types, Locks, NEW t \in Requests, NEW r \in Rows, NEW p \in Nat \ {0}, MoveRead(t, r, p)
  PROVE  Locks'
<1>1. CASE \E result \in Results : Finish(t, result) BY <1>1, FinishLocks
<1>2. CASE MoveBegins(t, r, p)
  <2>1. \A u \in Requests \ {t} :
           /\ pc'[u] = pc[u] /\ row'[u] = row[u] /\ target'[u] = target[u] /\ snap'[u] = snap[u]
    BY <1>2 DEF MoveBegins, Types
  <2>2. row'[t] = r /\ target'[t] = p /\ snap'[t] = pos /\ pc'[t] = "shift"
    BY <1>2 DEF MoveBegins, Types
  <2>3. SnapLive(t)' = Live BY <2>2 DEF SnapLive, Live
  <2>4. write[t] = NoWrite /\ DOMAIN write[t] = {} BY <1>2 DEF MoveBegins, Locks, NoWrite
  <2>5. r \in Live /\ UNCHANGED <<pos, write, changed>> BY <1>2 DEF MoveBegins
  <2> QED BY <2>1, <2>2, <2>3, <2>4, <2>5, LocksFrame
<1> QED BY <1>1, <1>2, MoveReadCases

\* The rows between are of the snapshot.
LEMMA BetweenLive ==
  ASSUME Types, Locks, NEW t \in Requests, Moving(t)
  PROVE  Between(t) \subseteq SnapLive(t) /\ row[t] \notin Between(t)
<1>1. row[t] \in Rows /\ snap[t] \in [Rows -> Bound] /\ target[t] \in Bound /\ Bound \subseteq Nat
  BY Counts DEF Types, Bound
<1>2. target[t] > 0 BY DEF Locks
<1>3. ASSUME NEW r \in Between(t) PROVE r \in SnapLive(t)
  <2>1. r \in Rows /\ snap[t][r] \in Nat /\ snap[t][row[t]] \in Nat /\ target[t] \in Nat
    BY <1>1, <1>3 DEF Between
  <2>2. snap[t][r] > 0 BY <1>2, <1>3, <2>1 DEF Between
  <2> QED BY <2>1, <2>2 DEF SnapLive
<1>4. row[t] \notin Between(t)
  <2>1. snap[t][row[t]] \in Nat BY <1>1
  <2> QED BY <2>1 DEF Between
<1> QED BY <1>3, <1>4

\* A move that writes without a conflict.
Wrote(t, v, label) ==
  /\ \A r \in DOMAIN v : ~LockedFor(t, r)
  /\ DOMAIN v \cap changed[t] = {} /\ ~overtaken[t]
  /\ write' = [write EXCEPT ![t] = Over(v, write[t])]
  /\ pc' = [pc EXCEPT ![t] = label]
  /\ UNCHANGED <<pos, spent, raced, row, target, todo, snap, changed, overtaken, outcome>>

LEMMA SerializableCases ==
  ASSUME NEW t, NEW v, NEW label, SerializableWrite(t, v, label)
  PROVE  Finish(t, "conflict") \/ Wrote(t, v, label)
BY DEF SerializableWrite, Wrote, Goto, dbVars

LEMMA WroteLocks ==
  ASSUME Types, Locks, NEW t \in Requests, Moving(t), NEW v \in Partial(Bound),
         DOMAIN v \subseteq SnapLive(t), NEW label \in {"place", "moved"}, Wrote(t, v, label)
  PROVE  Locks'
<1>1. /\ \A u \in Requests \ {t} : pc'[u] = pc[u] /\ write'[u] = write[u]
      /\ pc'[t] = label /\ write'[t] = Over(v, write[t])
  BY DEF Types, Wrote
<1>2. DOMAIN write'[t] = DOMAIN v \cup DOMAIN write[t] BY <1>1 DEF Over
<1>3. DOMAIN v \subseteq Live
  <2>1. \A r \in DOMAIN v : pos[r] = snap[t][r] BY DEF Locks, Wrote
  <2> QED BY <2>1 DEF SnapLive, Live
<1>4. DOMAIN write'[t] \subseteq Live BY <1>2, <1>3 DEF Locks
<1>5. \A u \in Requests \ {t} : DOMAIN write'[t] \cap DOMAIN write[u] = {}
  BY <1>2 DEF Locks, LockedFor, Wrote
<1>6. SnapLive(t)' = SnapLive(t) /\ UNCHANGED <<pos, row, target, snap, changed>>
  BY DEF SnapLive, Wrote
<1>7. /\ row[t] \in SnapLive(t) /\ target[t] > 0
      /\ \A r \in SnapLive(t) \ changed[t] : pos[r] = snap[t][r]
  BY DEF Locks
<1> QED BY <1>1, <1>4, <1>5, <1>6, <1>7, LocksFrame

LEMMA ShiftLocks ==
  ASSUME Types, Locks, NEW t \in Requests, MoveShift(t)
  PROVE  Locks'
<1>1. Moving(t) BY DEF MoveShift, Moving
<1>2. Shifted(t) \in Partial(Bound) /\ DOMAIN Shifted(t) \subseteq SnapLive(t)
  BY <1>1, ShiftedTypes, ShiftedIs, BetweenLive
<1> QED BY <1>1, <1>2, SerializableCases, FinishLocks, WroteLocks DEF MoveShift

LEMMA PlaceLocks ==
  ASSUME Types, Locks, NEW t \in Requests, MovePlace(t)
  PROVE  Locks'
<1> DEFINE v == [r \in {row[t]} |-> target[t]]
<1>1. Moving(t) BY DEF MovePlace, Moving
<1>2. v \in Partial(Bound) BY <1>1, PlacedTypes
<1>3. DOMAIN v \subseteq SnapLive(t) BY <1>1 DEF Locks
<1>4. SerializableWrite(t, v, "moved") BY DEF MovePlace
<1> HIDE DEF v
<1> QED BY <1>1, <1>2, <1>3, <1>4, SerializableCases, FinishLocks, WroteLocks

\* Every action keeps the locks.
LEMMA LocksNext ==
  ASSUME Types, Locks, [Next]_vars
  PROVE  Locks'
<1>1. ASSUME NEW t \in Requests, AddDuplicate(t) \/ Cancel(t) \/ DeadlockVictim(t)
      PROVE  Locks'
  BY <1>1, FinishLocks DEF AddDuplicate, Cancel, DeadlockVictim
<1>2. ASSUME NEW t \in Requests, NEW r \in Rows, RemoveNotFound(t, r)
      PROVE  Locks'
  BY <1>2, FinishLocks DEF RemoveNotFound
<1>3. ASSUME NEW t \in Requests, RemoveCommit(t) PROVE Locks'
  BY <1>3, CommitLocks DEF RemoveCommit
<1>4. ASSUME NEW t \in Requests, MoveCommit(t) PROVE Locks'
  BY <1>4, CommitLocks, FinishLocks DEF MoveCommit
<1>5. ASSUME NEW t \in Requests, NEW r \in Rows, NEW p \in 1..(Cardinality(Rows) + 1),
             MoveRead(t, r, p)
      PROVE  Locks'
  BY <1>5, Counts, MoveReadLocks
<1>6. CASE UNCHANGED vars
  <2> UNCHANGED <<pos, pc, row, target, write, snap, changed>>
    BY <1>6 DEF vars, dbVars, txVars, reqVars
  <2> QED BY DEF Locks, Live, Moving, SnapLive
<1> QED
  BY <1>1, <1>2, <1>3, <1>4, <1>5, <1>6, AddReadLocks, AddInsertLocks,
     RemoveDeleteLocks, RecompactReadLocks, RecompactWriteLocks, ShiftLocks, PlaceLocks
  DEF Next, Start, Step, Answered

-----------------------------------------------------------------------------
(* Frames                                                                  *)

LEMMA RemovalFrame ==
  ASSUME NEW u, Removal(u), Live' = Live, pc'[u] = pc[u], row'[u] = row[u],
         write'[u] = write[u], todo'[u] = todo[u]
  PROVE  Removal(u)'
BY DEF Removal

LEMMA MoveFrame ==
  ASSUME NEW u, Move(u), pc'[u] = pc[u], row'[u] = row[u], target'[u] = target[u],
         write'[u] = write[u], snap'[u] = snap[u], spent \subseteq spent',
         Moving(u) => /\ \/ overtaken[u] /\ overtaken'[u]
                         \/ pc[u] = "shift" /\ SnapLive(u) \subseteq changed'[u]
                         \/ \A r \in SnapLive(u) : pos'[r] = snap[u][r]
  PROVE  Move(u)'
<1>1. Moving(u)' <=> Moving(u) BY DEF Moving
<1>2. SnapLive(u)' = SnapLive(u) BY DEF SnapLive
<1>3. Shifted(u)' = Shifted(u) BY DEF Shifted
<1> QED BY <1>1, <1>2, <1>3 DEF Move

\* A move that has not been answered keeps what it has read if nobody commits.
LEMMA MoveStays ==
  ASSUME NEW u, Move(u), pc'[u] = pc[u], row'[u] = row[u], target'[u] = target[u],
         write'[u] = write[u], snap'[u] = snap[u], spent \subseteq spent', pos' = pos,
         Moving(u) => changed'[u] = changed[u] /\ overtaken'[u] = overtaken[u]
  PROVE  Move(u)'
BY MoveFrame DEF Move

LEMMA AdditionFrame ==
  ASSUME \A u \in Requests : Addition(u), Live' \subseteq Live,
         \A u \in Requests : pc'[u] = "insert" => pc[u] = "insert" /\ row'[u] = row[u],
         \A u \in Requests : Moving(u)' => \/ Moving(u) /\ snap'[u] = snap[u]
                                           \/ SnapLive(u)' \subseteq Live
  PROVE  \A u \in Requests : Addition(u)'
<1> SUFFICES ASSUME NEW t \in Requests, pc'[t] = "insert"
             PROVE  /\ row'[t] \notin Live'
                    /\ \A u \in Requests : pc'[u] = "insert" /\ row'[u] = row'[t] => u = t
                    /\ \A u \in Requests : Moving(u)' => row'[t] \notin SnapLive(u)'
  BY DEF Addition
<1>1. pc[t] = "insert" /\ row'[t] = row[t] OBVIOUS
<1>2. row'[t] \notin Live' BY <1>1 DEF Addition
<1>3. \A u \in Requests : pc'[u] = "insert" /\ row'[u] = row'[t] => u = t
  BY <1>1 DEF Addition
<1>4. ASSUME NEW u \in Requests, Moving(u)' PROVE row'[t] \notin SnapLive(u)'
  <2>1. CASE Moving(u) /\ snap'[u] = snap[u]
    <3>1. SnapLive(u)' = SnapLive(u) BY <2>1 DEF SnapLive
    <3> QED BY <1>1, <2>1, <3>1 DEF Addition
  <2>2. CASE SnapLive(u)' \subseteq Live BY <1>1, <2>2 DEF Addition
  <2> QED BY <1>4, <2>1, <2>2
<1> QED BY <1>2, <1>3, <1>4

\* One request changes, the table does not.
LEMMA OneChanges ==
  ASSUME InOrder, NEW t \in Requests, pos' = pos, spent \subseteq spent',
         \A u \in Requests \ {t} :
           /\ pc'[u] = pc[u] /\ row'[u] = row[u] /\ target'[u] = target[u]
           /\ write'[u] = write[u] /\ todo'[u] = todo[u] /\ snap'[u] = snap[u]
           /\ Moving(u) => changed'[u] = changed[u] /\ overtaken'[u] = overtaken[u],
         Removal(t)', Move(t)', \A u \in Requests : Addition(u)'
  PROVE  InOrder'
<1>1. Live' = Live BY DEF Live
<1>2. Ranks(pos, Live, Cardinality(Live))' BY <1>1 DEF InOrder, Ranks
<1>3. \A u \in Requests \ {t} : Removal(u)' BY <1>1, RemovalFrame DEF InOrder
<1>4. \A u \in Requests \ {t} : Move(u)' BY MoveStays DEF InOrder
<1> QED BY <1>2, <1>3, <1>4 DEF InOrder

LEMMA FinishInOrder ==
  ASSUME Types, InOrder, NEW t \in Requests, NEW result, Finish(t, result)
  PROVE  InOrder'
<1>1. /\ \A u \in Requests \ {t} :
           /\ pc'[u] = pc[u] /\ write'[u] = write[u] /\ todo'[u] = todo[u] /\ snap'[u] = snap[u]
           /\ Moving(u) => changed'[u] = changed[u] /\ overtaken'[u] = overtaken[u]
      /\ pc'[t] = "done" /\ write'[t] = NoWrite
      /\ UNCHANGED <<pos, spent, raced, row, target>>
  BY FinishFacts
<1>2. Removal(t)' BY <1>1 DEF Removal
<1>3. Move(t)' BY <1>1 DEF Move, Moving
<1>4. \A u \in Requests : Addition(u)'
  <2>1. Live' = Live BY <1>1 DEF Live
  <2>2. \A u \in Requests : Addition(u) BY DEF InOrder
  <2>3. \A u \in Requests : pc'[u] = "insert" => pc[u] = "insert" /\ row'[u] = row[u] BY <1>1
  <2>4. \A u \in Requests : Moving(u)' => Moving(u) /\ snap'[u] = snap[u] BY <1>1 DEF Moving
  <2> QED BY <2>1, <2>2, <2>3, <2>4, AdditionFrame
<1> QED BY <1>1, <1>2, <1>3, <1>4, OneChanges

-----------------------------------------------------------------------------
(* Additions and removals                                                  *)

LEMMA AddReadInOrder ==
  ASSUME Types, Locks, InOrder, NEW t \in Requests, AddRead(t)
  PROVE  InOrder'
<1>1. PICK r \in Rows \ spent : row' = [row EXCEPT ![t] = r] /\ spent' = spent \cup {r}
  BY DEF AddRead
<1>2. /\ \A u \in Requests \ {t} :
           pc'[u] = pc[u] /\ row'[u] = row[u] /\ target'[u] = target[u]
      /\ UNCHANGED <<pos, write, todo, snap, changed, overtaken>>
      /\ pc'[t] = "insert" /\ row'[t] = r
  BY <1>1 DEF AddRead, Types, txVars, Goto
<1>3. Removal(t)' BY <1>2 DEF Removal
<1>4. Move(t)' BY <1>2 DEF Move, Moving
<1>5. ASSUME NEW u \in Requests
      PROVE  /\ pc[u] = "insert" => row[u] # r
             /\ Moving(u)' => u # t /\ Moving(u) /\ SnapLive(u)' = SnapLive(u)
             /\ Moving(u) => r \notin SnapLive(u)
  BY <1>2 DEF Types, Moving, SnapLive, InOrder, Move
<1>6. Live' = Live /\ r \notin Live BY <1>2 DEF Types, Live
<1>7. ASSUME NEW u \in Requests, pc'[u] = "insert"
      PROVE  /\ row'[u] \notin Live'
             /\ \A v \in Requests : pc'[v] = "insert" /\ row'[v] = row'[u] => v = u
             /\ \A v \in Requests : Moving(v)' => row'[u] \notin SnapLive(v)'
  <2>1. CASE u = t BY <1>2, <1>5, <1>6, <2>1
  <2>2. CASE u # t
    <3>1. pc[u] = "insert" /\ row'[u] = row[u] /\ row[u] # r BY <1>2, <1>5, <1>7, <2>2
    <3>2. Addition(u) BY DEF InOrder
    <3> QED BY <1>2, <1>5, <1>6, <3>1, <3>2 DEF Addition
  <2> QED BY <2>1, <2>2
<1>8. \A u \in Requests : Addition(u)' BY <1>7 DEF Addition
<1> QED BY <1>1, <1>2, <1>3, <1>4, <1>8, OneChanges

\* An addition that does not race comes after all others, and no removal is under way.
LEMMA Appends ==
  ASSUME Types, InOrder, NEW t \in Requests, AddInsert(t), ~raced'
  PROVE  LET n == Cardinality(Live)
             x == row[t]
         IN /\ x \in Rows \ Live /\ n \in Nat
            /\ pos'[x] = n + 1 /\ \A r \in Rows \ {x} : pos'[r] = pos[r]
            /\ Live' = Live \cup {x} /\ Cardinality(Live') = n + 1
            /\ \A u \in Removers : pc[u] \notin {"recompacting", "removed"}
<1> DEFINE n == Cardinality(Live)
           x == row[t]
<1>1. /\ pos' = [pos EXCEPT ![x] = target[t]] /\ pc' = [pc EXCEPT ![t] = "done"]
      /\ pc[t] = "insert" /\ target[t] = LastPosition + 1
      /\ \A u \in Removers : pc[u] \notin {"recompacting", "removed"}
  BY DEF AddInsert, Answer, txVars
<1>2. x \in Rows /\ x \notin Live BY Inserting
<1>3. n \in Nat /\ IsFiniteSet(Live) BY Counts
<1>4. Ranks(pos, Live, n) BY DEF InOrder
<1>5. LastPosition = n
  <2>1. CASE Live = {}
    <3>1. n = 0 BY <2>1, FS_EmptySet
    <3> QED BY <2>1, <3>1 DEF LastPosition
  <2>2. CASE Live # {}
    <3>1. PICK r \in Live : pos[r] = LastPosition BY <2>2, LastPositionIsMax
    <3>2. LastPosition \in 1..n BY <1>4, <3>1 DEF Ranks
    <3>3. PICK s \in Live : pos[s] = n BY <1>3, <1>4, <3>2 DEF Ranks
    <3>4. n <= LastPosition BY <3>3, LastPositionIsMax
    <3> QED BY <1>3, <3>2, <3>4
  <2> QED BY <2>1, <2>2
<1> HIDE DEF n, x
<1>6. pos'[x] = n + 1 /\ \A r \in Rows \ {x} : pos'[r] = pos[r]
  BY <1>1, <1>2, <1>5 DEF Types
<1>7. Live' = Live \cup {x} BY <1>2, <1>3, <1>6 DEF Live
<1>8. Cardinality(Live') = n + 1 BY <1>2, <1>3, <1>7, FS_AddElement DEF n
<1> QED BY <1>1, <1>2, <1>3, <1>6, <1>7, <1>8 DEF n, x

LEMMA AddInsertInOrder ==
  ASSUME Types, Locks, InOrder, NEW t \in Requests, AddInsert(t), ~raced'
  PROVE  InOrder'
<1> DEFINE n == Cardinality(Live)
           x == row[t]
<1>1. /\ pos' = [pos EXCEPT ![x] = target[t]] /\ pc' = [pc EXCEPT ![t] = "done"]
      /\ UNCHANGED <<spent, row, target, write, todo, snap, changed, overtaken>>
      /\ pc[t] = "insert" /\ \A u \in Removers : pc[u] \notin {"recompacting", "removed"}
  BY DEF AddInsert, Answer, txVars
<1>2. x \in Rows /\ x \notin Live BY Appends
<1>3. n \in Nat BY Appends
<1>4. Ranks(pos, Live, n) BY DEF InOrder
<1>5. pos'[x] = n + 1 /\ \A r \in Rows \ {x} : pos'[r] = pos[r] BY Appends
<1>6. Live' = Live \cup {x} BY Appends
<1>7. Cardinality(Live') = n + 1 BY Appends
<1> HIDE DEF n, x
<1>8. Ranks(pos, Live, Cardinality(Live))'
  <2>1. \A r \in Live : pos'[r] = pos[r] BY <1>2, <1>5 DEF Live
  <2>2. \A r \in Live' : pos'[r] \in 1..(n + 1)
    BY <1>3, <1>4, <1>5, <1>6, <2>1 DEF Ranks
  <2>3. \A r, s \in Live' : pos'[r] = pos'[s] => r = s
    BY <1>3, <1>4, <1>5, <1>6, <2>1 DEF Ranks
  <2>4. ASSUME NEW k \in 1..(n + 1) PROVE \E r \in Live' : pos'[r] = k
    <3>1. CASE k = n + 1 BY <1>5, <1>6, <3>1
    <3>2. CASE k # n + 1
      <4>1. k \in 1..n BY <1>3, <3>2
      <4> QED BY <1>4, <1>6, <2>1, <4>1 DEF Ranks
    <3> QED BY <3>1, <3>2
  <2> QED BY <1>7, <2>2, <2>3, <2>4 DEF Ranks
<1>9. ASSUME NEW u \in Requests PROVE Removal(u)'
  <2>1. Removal(u) BY DEF InOrder
  <2>2. pc'[u] \notin {"recompacting", "removed"} BY <1>1 DEF Types, Removing
  <2>3. pc'[u] = "recompact" => pc[u] = "recompact" BY <1>1 DEF Types
  <2> QED BY <1>1, <2>1, <2>2, <2>3 DEF Removal
<1>10. ASSUME NEW u \in Requests PROVE Move(u)'
  <2>1. CASE u = t BY <1>1, <2>1 DEF Move, Moving, Types
  <2>2. CASE u # t
    <3>1. Move(u) /\ pc'[u] = pc[u] BY <1>1, <2>2 DEF InOrder, Types
    <3>2. Moving(u) => x \notin SnapLive(u) BY <1>1 DEF InOrder, Addition, x
    <3>3. Moving(u) => \A r \in SnapLive(u) : pos'[r] = pos[r]
      BY <1>5, <3>2 DEF SnapLive
    <3>4. Moving(u) => \/ overtaken[u]
                       \/ pc[u] = "shift" /\ SnapLive(u) \subseteq changed[u]
                       \/ \A r \in SnapLive(u) : pos[r] = snap[u][r]
      BY <3>1 DEF Move
    <3> QED BY <1>1, <3>1, <3>3, <3>4, MoveFrame
  <2> QED BY <2>1, <2>2
<1>11. ASSUME NEW u \in Requests PROVE Addition(u)'
  <2>1. Addition(u) BY DEF InOrder
  <2>2. CASE u = t BY <1>1, <2>2 DEF Addition, Types
  <2>3. CASE u # t
    <3>1. pc[u] = "insert" => row[u] # x BY <1>1, <2>3 DEF InOrder, Addition, x
    <3>2. \A v \in Requests : /\ Moving(v)' => Moving(v)
                              /\ SnapLive(v)' = SnapLive(v)
                              /\ pc'[v] = "insert" => pc[v] = "insert"
      BY <1>1 DEF Moving, SnapLive, Types
    <3> QED BY <1>1, <1>6, <2>1, <3>1, <3>2 DEF Addition
  <2> QED BY <2>2, <2>3
<1> QED BY <1>8, <1>9, <1>10, <1>11 DEF InOrder

LEMMA RemoveDeleteInOrder ==
  ASSUME Types, Locks, InOrder, NEW t \in Requests, NEW r \in Rows, RemoveDelete(t, r)
  PROVE  InOrder'
<1>1. /\ \A u \in Requests \ {t} : pc'[u] = pc[u] /\ row'[u] = row[u] /\ write'[u] = write[u]
      /\ UNCHANGED <<pos, spent, target, todo, snap, changed, overtaken>>
      /\ pc'[t] = "recompact" /\ row'[t] = r /\ write'[t] = [x \in {r} |-> 0]
  BY DEF RemoveDelete, Types, Goto, dbVars
<1>2. Removal(t)' BY <1>1 DEF Removal
<1>3. Move(t)' BY <1>1 DEF Move, Moving
<1>4. \A u \in Requests : Addition(u)'
  <2>1. Live' = Live BY <1>1 DEF Live
  <2>2. \A u \in Requests : Addition(u) BY DEF InOrder
  <2>3. \A u \in Requests : pc'[u] = "insert" => pc[u] = "insert" /\ row'[u] = row[u] BY <1>1
  <2>4. \A u \in Requests : Moving(u)' => Moving(u) /\ snap'[u] = snap[u] BY <1>1 DEF Moving
  <2> QED BY <2>1, <2>2, <2>3, <2>4, AdditionFrame
<1> QED BY <1>1, <1>2, <1>3, <1>4, OneChanges

LEMMA RecompactReadInOrder ==
  ASSUME Types, Locks, InOrder, NEW t \in Requests, RecompactRead(t)
  PROVE  InOrder'
<1>1. PICK n \in RowNumbers(View(t)) : todo' = [todo EXCEPT ![t] = n]
  BY DEF RecompactRead
<1>2. /\ \A u \in Requests \ {t} : pc'[u] = pc[u] /\ todo'[u] = todo[u]
      /\ UNCHANGED <<pos, spent, row, target, write, snap, changed, overtaken>>
      /\ pc[t] = "recompact" /\ pc'[t] = "recompacting" /\ todo'[t] = n
  BY <1>1 DEF RecompactRead, Types, Goto, dbVars
<1>3. DOMAIN write[t] = {row[t]} /\ write[t][row[t]] = 0
  BY <1>2 DEF InOrder, Removal
<1>4. {r \in Rows : View(t)[r] > 0} = Live \ {row[t]}
  BY <1>3, ViewTypes DEF Live
<1>5. DOMAIN n = Live \ {row[t]} /\ Ranks(n, Live \ {row[t]}, Cardinality(Live \ {row[t]}))
  BY <1>4, Numbered
<1>6. Live' = Live BY <1>2 DEF Live
<1>7. Removal(t)' BY <1>2, <1>3, <1>5, <1>6 DEF Removal
<1>8. Move(t)' BY <1>2 DEF Move, Moving
<1>9. \A u \in Requests : Addition(u)'
  <2>1. \A u \in Requests : Addition(u) BY DEF InOrder
  <2>2. \A u \in Requests : pc'[u] = "insert" => pc[u] = "insert" /\ row'[u] = row[u] BY <1>2
  <2>3. \A u \in Requests : Moving(u)' => Moving(u) /\ snap'[u] = snap[u] BY <1>2 DEF Moving
  <2> QED BY <1>6, <2>1, <2>2, <2>3, AdditionFrame
<1> QED BY <1>2, <1>7, <1>8, <1>9, OneChanges

LEMMA RecompactWriteInOrder ==
  ASSUME Types, Locks, InOrder, NEW t \in Requests, RecompactWrite(t)
  PROVE  InOrder'
<1> DEFINE left == Live \ {row[t]}
<1>1. /\ \A u \in Requests \ {t} : pc'[u] = pc[u] /\ todo'[u] = todo[u] /\ write'[u] = write[u]
      /\ UNCHANGED <<pos, spent, row, target, snap, changed, overtaken>>
      /\ pc[t] = "recompacting" /\ pc'[t] = "removed"
  BY Recompacted DEF RecompactWrite, Types, Goto, dbVars
<1>2. /\ DOMAIN write[t] = {row[t]} /\ write[t][row[t]] = 0
      /\ DOMAIN todo[t] = left /\ Ranks(todo[t], left, Cardinality(left))
  BY <1>1 DEF InOrder, Removal
<1>3. row[t] \in Live BY <1>2 DEF Locks
<1>4. DOMAIN write'[t] = Live /\ write'[t][row[t]] = 0
      /\ \A r \in left : write'[t][r] = todo[t][r]
  BY <1>2, <1>3, Recompacted
<1>5. Ranks(write'[t], left, Cardinality(left)) BY <1>2, <1>4 DEF Ranks
<1>6. Live' = Live BY <1>1 DEF Live
<1>7. Removal(t)' BY <1>1, <1>3, <1>4, <1>5, <1>6 DEF Removal
<1>8. Move(t)' BY <1>1 DEF Move, Moving
<1>9. \A u \in Requests : Addition(u)'
  <2>1. \A u \in Requests : Addition(u) BY DEF InOrder
  <2>2. \A u \in Requests : pc'[u] = "insert" => pc[u] = "insert" /\ row'[u] = row[u] BY <1>1
  <2>3. \A u \in Requests : Moving(u)' => Moving(u) /\ snap'[u] = snap[u] BY <1>1 DEF Moving
  <2> QED BY <1>6, <2>1, <2>2, <2>3, AdditionFrame
<1> QED BY <1>1, <1>7, <1>8, <1>9, OneChanges

\* A move shifts at least one row.
LEMMA BetweenNonempty ==
  ASSUME Types, InOrder, NEW t \in Requests, Moving(t)
  PROVE  Between(t) # {}
<1> DEFINE m == Cardinality(SnapLive(t))
<1>1. Ranks(snap[t], SnapLive(t), m) /\ target[t] \in 1..m /\ target[t] # snap[t][row[t]]
  BY DEF InOrder, Move
<1>2. PICK r \in SnapLive(t) : snap[t][r] = target[t] BY <1>1 DEF Ranks
<1>3. snap[t][row[t]] \in Nat /\ snap[t][r] \in Nat /\ r \in Rows
  BY <1>2, Counts DEF Types, Bound, SnapLive
<1>4. r \in Between(t) BY <1>1, <1>2, <1>3 DEF Between
<1> QED BY <1>4

\* Who holds no row.
LEMMA HoldsNothing ==
  ASSUME Types, InOrder, NEW u \in Requests, DOMAIN write[u] = {}
  PROVE  ~Removing(u) /\ pc[u] \notin {"place", "moved"}
<1>1. ~Removing(u) BY DEF InOrder, Removal, Removing
<1>2. pc[u] # "place"
  <2>1. SUFFICES ASSUME pc[u] = "place" PROVE FALSE OBVIOUS
  <2>2. Moving(u) BY <2>1 DEF Moving
  <2>3. write[u] = Shifted(u) BY <2>1, <2>2 DEF InOrder, Move
  <2> QED BY <2>2, <2>3, BetweenNonempty, ShiftedIs
<1>3. pc[u] # "moved"
  <2>1. SUFFICES ASSUME pc[u] = "moved" PROVE FALSE OBVIOUS
  <2>2. Moving(u) BY <2>1 DEF Moving
  <2>3. write[u] = Over([r \in {row[u]} |-> target[u]], Shifted(u))
    BY <2>1, <2>2 DEF InOrder, Move
  <2>4. row[u] \in DOMAIN write[u] BY <2>3 DEF Over
  <2> QED BY <2>4
<1> QED BY <1>1, <1>2, <1>3

\* A removal that commits leaves what it has numbered, and no other removal is under way.
LEMMA Commits ==
  ASSUME Types, Locks, InOrder, NEW t \in Requests, RemoveCommit(t)
  PROVE  /\ DOMAIN write[t] = Live /\ row[t] \in Live /\ Live' = Live \ {row[t]}
         /\ \A r \in Live : pos'[r] = write[t][r]
         /\ \A u \in Requests \ {t} : ~Removing(u) /\ pc[u] \notin {"place", "moved"}
<1> DEFINE left == Live \ {row[t]}
<1>1. Commit(t, FALSE) /\ pc[t] = "removed" BY DEF RemoveCommit
<1>2. /\ DOMAIN write[t] = Live /\ row[t] \in Live /\ write[t][row[t]] = 0
      /\ Ranks(write[t], left, Cardinality(left))
  BY <1>1 DEF InOrder, Removal
<1>3. pos' = View(t) BY <1>1 DEF Commit
<1>4. /\ \A r \in Live : pos'[r] = write[t][r]
      /\ \A r \in Rows \ Live : pos'[r] = pos[r]
  BY <1>2, <1>3, ViewTypes DEF Live
<1>5. Live' = left
  <2>1. \A r \in left : pos'[r] > 0
    <3>1. Cardinality(left) \in Nat
      BY Counts, FS_RemoveElement, FS_CardinalityType
    <3> QED BY <1>2, <1>4, <3>1 DEF Ranks
  <2>2. \A r \in Rows \ left : ~(pos'[r] > 0) BY <1>2, <1>4 DEF Live
  <2>3. left \subseteq Rows BY DEF Live
  <2> QED BY <2>1, <2>2, <2>3 DEF Live
<1>6. ASSUME NEW u \in Requests \ {t}
      PROVE  ~Removing(u) /\ pc[u] \notin {"place", "moved"}
  <2>1. DOMAIN write[u] = {} BY <1>2 DEF Locks
  <2> QED BY <2>1, HoldsNothing
<1> QED BY <1>2, <1>4, <1>5, <1>6

\* A move that has read before a removal commits will fail.
LEMMA RemoveCommitInOrder ==
  ASSUME Types, Locks, InOrder, NEW t \in Requests, RemoveCommit(t)
  PROVE  InOrder'
<1> DEFINE left == Live \ {row[t]}
<1>1. Commit(t, FALSE) /\ pc[t] = "removed" BY DEF RemoveCommit
<1>2. /\ DOMAIN write[t] = Live /\ row[t] \in Live /\ write[t][row[t]] = 0
      /\ Ranks(write[t], left, Cardinality(left))
  BY <1>1 DEF InOrder, Removal
<1>3. /\ \A u \in Requests \ {t} :
           /\ pc'[u] = pc[u] /\ write'[u] = write[u] /\ todo'[u] = todo[u] /\ snap'[u] = snap[u]
           /\ Moving(u) => changed'[u] = changed[u] \cup Live /\ overtaken'[u] = overtaken[u]
      /\ pc'[t] = "done" /\ write'[t] = NoWrite
  BY <1>1, <1>2, CommitFacts
<1>4. pos' = View(t) /\ UNCHANGED <<spent, row, target>> BY <1>1 DEF Commit
<1>5. \A r \in Live : pos'[r] = write[t][r] BY Commits
<1>6. Live' = left BY Commits
<1>7. Ranks(pos, Live, Cardinality(Live))'
  <2>1. \A r \in left : pos'[r] = write[t][r] BY <1>5
  <2> QED BY <1>2, <1>6, <2>1 DEF Ranks
<1>8. \A u \in Requests \ {t} : ~Removing(u) /\ pc[u] \notin {"place", "moved"} BY Commits
<1>9. ASSUME NEW u \in Requests PROVE Removal(u)'
  <2>1. CASE u = t BY <1>3, <2>1 DEF Removal
  <2>2. CASE u # t BY <1>3, <1>8, <2>2 DEF Removal, Removing
  <2> QED BY <2>1, <2>2
<1>10. ASSUME NEW u \in Requests PROVE Move(u)'
  <2>1. CASE u = t BY <1>3, <2>1 DEF Move, Moving
  <2>2. CASE u # t
    <3>1. Move(u) BY DEF InOrder
    <3>2. ASSUME Moving(u)
          PROVE  \/ overtaken[u] /\ overtaken'[u]
                 \/ pc[u] = "shift" /\ SnapLive(u) \subseteq changed'[u]
      <4>1. pc[u] = "shift" BY <1>8, <2>2, <3>2 DEF Moving
      <4>2. changed'[u] = changed[u] \cup Live /\ overtaken'[u] = overtaken[u]
        BY <1>3, <2>2, <3>2
      <4>3. CASE \A r \in SnapLive(u) : pos[r] = snap[u][r]
        <5>1. SnapLive(u) \subseteq Live BY <4>3 DEF SnapLive, Live
        <5> QED BY <4>1, <4>2, <5>1
      <4> QED BY <3>1, <3>2, <4>1, <4>2, <4>3 DEF Move
    <3> QED BY <1>3, <1>4, <2>2, <3>1, <3>2, MoveFrame
  <2> QED BY <2>1, <2>2
<1>11. \A u \in Requests : Addition(u)'
  <2>1. Live' \subseteq Live BY <1>6
  <2>2. \A u \in Requests : Addition(u) BY DEF InOrder
  <2>3. \A u \in Requests : pc'[u] = "insert" => pc[u] = "insert" /\ row'[u] = row[u]
    BY <1>3, <1>4
  <2>4. \A u \in Requests : Moving(u)' => Moving(u) /\ snap'[u] = snap[u] BY <1>3 DEF Moving
  <2> QED BY <2>1, <2>2, <2>3, <2>4, AdditionFrame
<1> QED BY <1>7, <1>9, <1>10, <1>11 DEF InOrder

-----------------------------------------------------------------------------
(* Moves                                                                   *)

\* The positions between c and p make room, and c goes to p.
Shift(c, p, x) ==
  IF x = c THEN p
  ELSE IF c < x /\ x <= p THEN x - 1
  ELSE IF p <= x /\ x < c THEN x + 1
  ELSE x

LEMMA ShiftRanks ==
  ASSUME NEW S, NEW f, NEW g, NEW m \in Nat, Ranks(f, S, m), NEW c \in 1..m, NEW p \in 1..m,
         \A r \in S : g[r] = Shift(c, p, f[r])
  PROVE  Ranks(g, S, m)
<1>1. \A x \in 1..m : Shift(c, p, x) \in 1..m BY DEF Shift
<1>2. \A x, y \in 1..m : Shift(c, p, x) = Shift(c, p, y) => x = y BY DEF Shift
<1>3. ASSUME NEW k \in 1..m PROVE \E x \in 1..m : Shift(c, p, x) = k
  <2>1. CASE k = p BY <2>1 DEF Shift
  <2>2. CASE c <= k /\ k < p
    <3>1. k + 1 \in 1..m /\ Shift(c, p, k + 1) = k BY <2>2 DEF Shift
    <3> QED BY <3>1
  <2>3. CASE p < k /\ k <= c
    <3>1. k - 1 \in 1..m /\ Shift(c, p, k - 1) = k BY <2>3 DEF Shift
    <3> QED BY <3>1
  <2>4. CASE k # p /\ ~(c <= k /\ k < p) /\ ~(p < k /\ k <= c)
    <3>1. Shift(c, p, k) = k BY <2>4 DEF Shift
    <3> QED BY <3>1
  <2> QED BY <2>1, <2>2, <2>3, <2>4
<1>4. \A r \in S : g[r] \in 1..m BY <1>1 DEF Ranks
<1>5. \A r, s \in S : g[r] = g[s] => r = s BY <1>2 DEF Ranks
<1>6. ASSUME NEW k \in 1..m PROVE \E r \in S : g[r] = k
  <2>1. PICK x \in 1..m : Shift(c, p, x) = k BY <1>3
  <2>2. PICK r \in S : f[r] = x BY DEF Ranks
  <2> QED BY <2>1, <2>2
<1> QED BY <1>4, <1>5, <1>6 DEF Ranks

\* The first m may be ranked anew.
LEMMA Rerank ==
  ASSUME NEW S, NEW T, T \subseteq S, NEW f, NEW g, NEW n \in Nat, NEW m \in Nat,
         Ranks(f, S, n), Ranks(f, T, m), Ranks(g, T, m), \A r \in S \ T : g[r] = f[r]
  PROVE  Ranks(g, S, n)
<1>1. m <= n
  <2>1. CASE m = 0 BY <2>1
  <2>2. CASE m # 0
    <3>1. m \in 1..m BY <2>2
    <3>2. PICK r \in T : f[r] = m BY <3>1 DEF Ranks
    <3> QED BY <3>2 DEF Ranks
  <2> QED BY <2>1, <2>2
<1>2. ASSUME NEW r \in S \ T PROVE f[r] \in (m + 1)..n
  <2>1. f[r] \in 1..n BY DEF Ranks
  <2>2. f[r] \notin 1..m
    <3>1. SUFFICES ASSUME f[r] \in 1..m PROVE FALSE OBVIOUS
    <3>2. PICK s \in T : f[s] = f[r] BY <3>1 DEF Ranks
    <3>3. s = r BY <3>2 DEF Ranks
    <3> QED BY <3>3
  <2> QED BY <2>1, <2>2
<1>3. \A r \in S : g[r] \in 1..n BY <1>1, <1>2 DEF Ranks
<1>4. ASSUME NEW r \in S, NEW s \in S, g[r] = g[s] PROVE r = s
  <2>1. CASE r \in T /\ s \in T BY <1>4, <2>1 DEF Ranks
  <2>2. CASE r \notin T /\ s \notin T BY <1>4, <2>2 DEF Ranks
  <2>3. CASE r \in T /\ s \notin T
    <3>1. g[r] \in 1..m /\ g[s] \in (m + 1)..n BY <1>2, <2>3 DEF Ranks
    <3> QED BY <1>4, <3>1
  <2>4. CASE r \notin T /\ s \in T
    <3>1. g[s] \in 1..m /\ g[r] \in (m + 1)..n BY <1>2, <2>4 DEF Ranks
    <3> QED BY <1>4, <3>1
  <2> QED BY <2>1, <2>2, <2>3, <2>4
<1>5. ASSUME NEW k \in 1..n PROVE \E r \in S : g[r] = k
  <2>1. CASE k \in 1..m BY <2>1 DEF Ranks
  <2>2. CASE k \notin 1..m
    <3>1. PICK r \in S : f[r] = k BY DEF Ranks
    <3>2. r \notin T BY <2>2, <3>1 DEF Ranks
    <3> QED BY <3>1, <3>2
  <2> QED BY <2>1, <2>2
<1> QED BY <1>3, <1>4, <1>5 DEF Ranks

LEMMA MoveReadInOrder ==
  ASSUME Types, Locks, InOrder, NEW t \in Requests, NEW r \in Rows, NEW p \in Nat \ {0},
         MoveRead(t, r, p)
  PROVE  InOrder'
<1>1. CASE \E result \in Results : Finish(t, result) BY <1>1, FinishInOrder
<1>2. CASE MoveBegins(t, r, p)
  <2>1. \A u \in Requests \ {t} :
           /\ pc'[u] = pc[u] /\ row'[u] = row[u] /\ target'[u] = target[u] /\ snap'[u] = snap[u]
    BY <1>2 DEF MoveBegins, Types
  <2>2. /\ row'[t] = r /\ target'[t] = p /\ snap'[t] = pos /\ pc'[t] = "shift"
        /\ UNCHANGED <<pos, spent, write, todo, changed, overtaken>>
        /\ p <= Cardinality(Live) /\ r \in Live /\ pos[r] # p
    BY <1>2 DEF MoveBegins, Types
  <2>3. SnapLive(t)' = Live /\ Live' = Live BY <2>2 DEF SnapLive, Live
  <2>4. Removal(t)' BY <2>2 DEF Removal
  <2>5. Move(t)'
    <3>1. Ranks(pos, Live, Cardinality(Live)) /\ Live \subseteq spent BY DEF InOrder, Types
    <3>2. p \in 1..Cardinality(Live) BY <2>2, Counts
    <3> QED BY <2>2, <2>3, <3>1, <3>2 DEF Move
  <2>6. \A u \in Requests : Addition(u)'
    <3>1. \A u \in Requests : Addition(u) BY DEF InOrder
    <3>2. \A u \in Requests : pc'[u] = "insert" => pc[u] = "insert" /\ row'[u] = row[u]
      BY <2>1, <2>2
    <3>3. \A u \in Requests : Moving(u)' => \/ Moving(u) /\ snap'[u] = snap[u]
                                            \/ SnapLive(u)' \subseteq Live
      BY <2>1, <2>3 DEF Moving
    <3> QED BY <2>3, <3>1, <3>2, <3>3, AdditionFrame
  <2> QED BY <2>1, <2>2, <2>4, <2>5, <2>6, OneChanges
<1> QED BY <1>1, <1>2, MoveReadCases

\* A write without a conflict: the rows are as the move has read them.
LEMMA WroteInOrder ==
  ASSUME Types, Locks, InOrder, NEW t \in Requests, Moving(t), NEW v,
         NEW label \in {"place", "moved"}, Wrote(t, v, label),
         pc[t] = "shift" => DOMAIN v = Between(t),
         label = "place" => Over(v, write[t]) = Shifted(t),
         label = "moved" => Over(v, write[t]) = Over([r \in {row[t]} |-> target[t]], Shifted(t))
  PROVE  InOrder'
<1>1. /\ \A u \in Requests \ {t} : pc'[u] = pc[u] /\ write'[u] = write[u]
      /\ pc'[t] = label /\ write'[t] = Over(v, write[t])
      /\ UNCHANGED <<pos, spent, row, target, todo, snap, changed, overtaken>>
      /\ DOMAIN v \cap changed[t] = {} /\ ~overtaken[t]
  BY DEF Wrote, Types
<1>2. Removal(t)' BY <1>1 DEF Removal
<1>3. \A r \in SnapLive(t) : pos[r] = snap[t][r]
  <2>1. SUFFICES ASSUME pc[t] = "shift", SnapLive(t) \subseteq changed[t] PROVE FALSE
    BY <1>1 DEF InOrder, Move
  <2>2. Between(t) \subseteq changed[t] /\ Between(t) # {}
    BY <2>1, BetweenLive, BetweenNonempty
  <2> QED BY <1>1, <2>1, <2>2
<1>4. SnapLive(t)' = SnapLive(t) /\ Shifted(t)' = Shifted(t) BY <1>1 DEF SnapLive, Shifted
<1>5. Move(t)'
  <2>1. Move(t) BY DEF InOrder
  <2> QED BY <1>1, <1>3, <1>4, <2>1 DEF Move
<1>6. \A u \in Requests : Addition(u)'
  <2>1. Live' = Live BY <1>1 DEF Live
  <2>2. \A u \in Requests : Addition(u) BY DEF InOrder
  <2>3. \A u \in Requests : pc'[u] = "insert" => pc[u] = "insert" /\ row'[u] = row[u] BY <1>1
  <2>4. \A u \in Requests : Moving(u)' => Moving(u) /\ snap'[u] = snap[u] BY <1>1 DEF Moving
  <2> QED BY <2>1, <2>2, <2>3, <2>4, AdditionFrame
<1> QED BY <1>1, <1>2, <1>5, <1>6, OneChanges

LEMMA ShiftInOrder ==
  ASSUME Types, Locks, InOrder, NEW t \in Requests, MoveShift(t)
  PROVE  InOrder'
<1>1. Moving(t) /\ pc[t] = "shift" BY DEF MoveShift, Moving
<1>2. DOMAIN write[t] = {} BY <1>1 DEF Locks, NoWrite
<1>3. Over(Shifted(t), write[t]) = Shifted(t)
  <2>1. Over(Shifted(t), write[t]) = [x \in DOMAIN Shifted(t) |-> Shifted(t)[x]]
    BY <1>2 DEF Over
  <2>2. Shifted(t) = [x \in DOMAIN Shifted(t) |-> Shifted(t)[x]] BY DEF Shifted
  <2> QED BY <2>1, <2>2
<1>4. Finish(t, "conflict") \/ Wrote(t, Shifted(t), "place")
  BY SerializableCases DEF MoveShift
<1> QED BY <1>1, <1>3, <1>4, ShiftedIs, FinishInOrder, WroteInOrder

LEMMA PlaceInOrder ==
  ASSUME Types, Locks, InOrder, NEW t \in Requests, MovePlace(t)
  PROVE  InOrder'
<1> DEFINE v == [r \in {row[t]} |-> target[t]]
<1>1. Moving(t) /\ pc[t] = "place" BY DEF MovePlace, Moving
<1>2. write[t] = Shifted(t) BY <1>1 DEF InOrder, Move
<1>3. Finish(t, "conflict") \/ Wrote(t, v, "moved")
  <2>1. SerializableWrite(t, v, "moved") BY DEF MovePlace
  <2> QED BY <2>1, SerializableCases
<1>4. CASE Finish(t, "conflict") BY <1>4, FinishInOrder
<1>5. CASE Wrote(t, v, "moved")
  <2>1. Over(v, write[t]) = Over([r \in {row[t]} |-> target[t]], Shifted(t)) BY <1>2
  <2> HIDE DEF v
  <2> QED BY <1>1, <1>5, <2>1, WroteInOrder
<1> QED BY <1>3, <1>4, <1>5

\* A move that commits shifts all rows, those it has read and the others.
LEMMA Moves ==
  ASSUME Types, Locks, InOrder, NEW t \in Requests, pc[t] = "moved", ~overtaken[t], Commit(t, TRUE)
  PROVE  /\ row[t] \in Live /\ target[t] \in 1..Cardinality(Live) /\ Live' = Live
         /\ \A r \in Live : pos'[r] = Shift(pos[row[t]], target[t], pos[r])
         /\ Ranks(pos', Live, Cardinality(Live)) /\ DOMAIN write[t] # {}
<1> DEFINE S == SnapLive(t)
           m == Cardinality(SnapLive(t))
           c == snap[t][row[t]]
<1>1. Commit(t, TRUE) /\ Moving(t) /\ ~overtaken[t] BY DEF Moving
<1>2. /\ Ranks(snap[t], S, m) /\ target[t] \in 1..m /\ row[t] \in S
      /\ \A r \in S : pos[r] = snap[t][r]
      /\ write[t] = Over([r \in {row[t]} |-> target[t]], Shifted(t))
  BY <1>1 DEF InOrder, Move, Locks
<1>3. m \in Nat
  <2>1. IsFiniteSet(S) BY Counts, FS_Subset, <1>1 DEF InOrder, Move
  <2> QED BY <2>1, FS_CardinalityType
<1>4. c \in 1..m BY <1>2 DEF Ranks
<1>5. /\ DOMAIN write[t] = {row[t]} \cup Between(t) /\ DOMAIN write[t] \subseteq S
      /\ write[t][row[t]] = target[t]
      /\ \A r \in Between(t) : write[t][r] = Shifted(t)[r]
  BY <1>1, <1>2, ShiftedIs, BetweenLive DEF Over
<1>6. /\ pos' = View(t) /\ UNCHANGED <<spent, row, target>> BY <1>1 DEF Commit
<1>7. \A r \in Rows : pos'[r] = IF r \in DOMAIN write[t] THEN write[t][r] ELSE pos[r]
  BY <1>6, ViewTypes
<1>8. S \subseteq Rows /\ S \subseteq Live BY <1>2 DEF SnapLive, Live
<1>9. ASSUME NEW r \in S PROVE pos'[r] = Shift(c, target[t], snap[t][r])
  <2>1. r \in Rows /\ snap[t][r] \in 1..m /\ (snap[t][r] = c => r = row[t])
    BY <1>2, <1>8 DEF Ranks
  <2>2. CASE r = row[t] BY <1>5, <1>7, <2>1, <2>2 DEF Shift
  <2>3. CASE r \in Between(t)
    <3>1. pos'[r] = IF target[t] > c THEN snap[t][r] - 1 ELSE snap[t][r] + 1
      BY <1>5, <1>7, <2>1, <2>3, ShiftedIs
    <3> HIDE DEF c, m
    <3>2. IF target[t] > c THEN c < snap[t][r] /\ snap[t][r] <= target[t]
                           ELSE target[t] <= snap[t][r] /\ snap[t][r] < c
      BY <2>3 DEF Between, c
    <3> QED BY <1>2, <1>3, <1>4, <2>1, <3>1, <3>2 DEF Shift
  <2>4. CASE r # row[t] /\ r \notin Between(t)
    <3>1. pos'[r] = snap[t][r] BY <1>2, <1>5, <1>7, <2>1, <2>4
    <3> HIDE DEF c, m
    <3>2. snap[t][r] # c BY <2>1, <2>4
    <3>3. IF target[t] > c THEN ~(c < snap[t][r] /\ snap[t][r] <= target[t])
                           ELSE ~(target[t] <= snap[t][r] /\ snap[t][r] < c)
      BY <2>1, <2>4 DEF Between, c
    <3> QED BY <1>2, <1>3, <1>4, <2>1, <3>1, <3>2, <3>3 DEF Shift
  <2> QED BY <2>2, <2>3, <2>4
<1>10. Ranks(pos', S, m)
  <2> HIDE DEF S, m, c
  <2> QED BY <1>2, <1>3, <1>4, <1>9, ShiftRanks
<1>11. Ranks(pos', Live, Cardinality(Live))
  <2>1. Ranks(pos, S, m) BY <1>2 DEF Ranks
  <2>2. \A r \in Live \ S : pos'[r] = pos[r] BY <1>5, <1>7 DEF Live
  <2>3. Ranks(pos, Live, Cardinality(Live)) BY DEF InOrder
  <2> HIDE DEF S, m, c
  <2> QED BY <1>3, <1>8, <1>10, <2>1, <2>2, <2>3, Counts, Rerank
<1>12. Live' = Live
  <2>1. \A r \in Live : pos'[r] > 0 BY <1>11, Counts DEF Ranks
  <2>2. \A r \in Rows \ Live : pos'[r] = pos[r] BY <1>5, <1>7, <1>8
  <2> QED BY <2>1, <2>2 DEF Live
<1>13. m <= Cardinality(Live)
  <2>1. PICK r \in S : snap[t][r] = m BY <1>2, <1>3, <1>4 DEF Ranks
  <2>2. r \in Live /\ pos[r] = m BY <1>2, <1>8, <2>1
  <2> QED BY <2>2, Counts DEF InOrder, Ranks
<1>14. ASSUME NEW r \in Live PROVE pos'[r] = Shift(pos[row[t]], target[t], pos[r])
  <2>1. c = pos[row[t]] BY <1>2
  <2>2. CASE r \in S BY <1>2, <1>9, <2>1, <2>2
  <2>3. CASE r \notin S
    <3>1. pos'[r] = pos[r] BY <1>5, <1>7, <2>3 DEF Live
    <3>2. pos[r] \in 1..Cardinality(Live) BY DEF InOrder, Ranks
    <3>3. pos[r] \notin 1..m
      <4>1. SUFFICES ASSUME pos[r] \in 1..m PROVE FALSE OBVIOUS
      <4>2. PICK s \in S : snap[t][s] = pos[r] BY <1>2, <4>1 DEF Ranks
      <4>3. s \in Live /\ pos[s] = pos[r] BY <1>2, <1>8, <4>2
      <4> QED BY <2>3, <4>3 DEF InOrder, Ranks
    <3>4. pos[r] \in Nat /\ pos[r] > m BY <1>3, <3>2, <3>3, Counts
    <3> HIDE DEF c, m
    <3> QED BY <1>2, <1>3, <1>4, <2>1, <3>1, <3>4 DEF Shift
  <2> QED BY <2>2, <2>3
<1>15. row[t] \in Live /\ target[t] \in 1..Cardinality(Live)
  <2> HIDE DEF c, m
  <2> QED BY <1>2, <1>3, <1>8, <1>13, Counts
<1>16. DOMAIN write[t] # {} BY <1>5
<1> QED BY <1>11, <1>12, <1>14, <1>15, <1>16

\* The moves that overlap it will fail.
LEMMA MoveCommitInOrder ==
  ASSUME Types, Locks, InOrder, NEW t \in Requests, MoveCommit(t)
  PROVE  InOrder'
<1>1. CASE Finish(t, "conflict") BY <1>1, FinishInOrder
<1>2. CASE ~Finish(t, "conflict")
  <2>1. Commit(t, TRUE) /\ pc[t] = "moved" /\ ~overtaken[t] BY <1>2 DEF MoveCommit
  <2>2. UNCHANGED <<spent, row, target>> BY <2>1 DEF Commit
  <2>3. Live' = Live /\ Ranks(pos', Live, Cardinality(Live)) BY <2>1, Moves
  <2>4. Ranks(pos, Live, Cardinality(Live))' BY <2>3
  <2>5. DOMAIN write[t] # {} BY <2>1, Moves
  <2>6. /\ \A u \in Requests \ {t} :
             /\ pc'[u] = pc[u] /\ write'[u] = write[u] /\ todo'[u] = todo[u] /\ snap'[u] = snap[u]
             /\ Moving(u) => overtaken'[u] = TRUE
        /\ pc'[t] = "done" /\ write'[t] = NoWrite
    BY <2>1, <2>5, CommitFacts
  <2>7. ASSUME NEW u \in Requests PROVE Removal(u)'
    <3>1. CASE u = t BY <2>6, <3>1 DEF Removal
    <3>2. CASE u # t BY <2>2, <2>3, <2>6, <3>2, RemovalFrame DEF InOrder
    <3> QED BY <3>1, <3>2
  <2>8. ASSUME NEW u \in Requests PROVE Move(u)'
    <3>1. CASE u = t BY <2>6, <3>1 DEF Move, Moving
    <3>2. CASE u # t
      <4>1. Move(u) BY DEF InOrder
      <4>2. /\ Moving(u)' <=> Moving(u)
            /\ SnapLive(u)' = SnapLive(u) /\ Shifted(u)' = Shifted(u)
            /\ Moving(u) => overtaken'[u]
        BY <2>2, <2>6, <3>2 DEF Moving, SnapLive, Shifted
      <4> QED BY <2>2, <2>6, <3>2, <4>1, <4>2 DEF Move
    <3> QED BY <3>1, <3>2
  <2>9. \A u \in Requests : Addition(u)'
    <3>1. \A u \in Requests : Addition(u) BY DEF InOrder
    <3>2. \A u \in Requests : pc'[u] = "insert" => pc[u] = "insert" /\ row'[u] = row[u]
      BY <2>2, <2>6
    <3>3. \A u \in Requests : Moving(u)' => Moving(u) /\ snap'[u] = snap[u]
      BY <2>6 DEF Moving
    <3> QED BY <2>3, <3>1, <3>2, <3>3, AdditionFrame
  <2> QED BY <2>4, <2>7, <2>8, <2>9 DEF InOrder
<1> QED BY <1>1, <1>2

-----------------------------------------------------------------------------
(* The theorems                                                            *)

\* A new playlist has what the invariant asks for.
LEMMA InitInv ==
  ASSUME Init
  PROVE  PInv
<1> DEFINE n == Cardinality(InitRows)
<1>1. IsFiniteSet(InitRows) /\ n \in Nat /\ InitRows \subseteq Rows
  BY PlaylistAssumption, FS_Subset, FS_CardinalityType
<1> HIDE DEF n
<1>2. PICK f \in Bijection(InitRows, 1..n) :
        pos = [r \in Rows |-> IF r \in InitRows THEN f[r] ELSE 0]
  BY DEF Init, n
<1>3. f \in [InitRows -> 1..n] /\ Ranks(f, InitRows, n) BY <1>1, <1>2, BijectionRanks
<1>4. Live = InitRows BY <1>1, <1>2, <1>3 DEF Live
<1>5. Ranks(pos, Live, Cardinality(Live)) BY <1>1, <1>2, <1>3, <1>4 DEF Ranks, n
<1>6. pos \in [Rows -> Bound] BY <1>1, <1>2, <1>3 DEF Bound, Init, n
<1>7. \A t \in Requests : /\ pc[t] = "idle" /\ row[t] = Nil /\ target[t] = 0
                          /\ write[t] = NoWrite /\ ~Moving(t) /\ ~Removing(t)
  BY DEF Init, Moving, Removing
<1>8. Types
  <2>1. 0 \in Bound BY <1>1 DEF Bound, Init, n
  <2>2. /\ spent \subseteq Rows /\ raced \in BOOLEAN /\ Live \subseteq spent
        /\ pc \in [Requests -> Labels] /\ row \in [Requests -> Rows \cup {Nil}]
        /\ target \in [Requests -> Bound] /\ outcome \in [Requests -> Results]
        /\ changed \in [Requests -> SUBSET Rows] /\ overtaken \in [Requests -> BOOLEAN]
    BY <1>1, <1>4, <2>1 DEF Init, Labels, Results
  <2>3. /\ write \in [Requests -> Partial(Bound)] /\ todo \in [Requests -> Partial(Bound)]
        /\ snap \in [Requests -> Partial(Bound)]
    BY NoWritePartial DEF Init
  <2> QED BY <1>6, <1>7, <2>2, <2>3 DEF Types
<1>9. Locks
  <2>1. DOMAIN NoWrite = {} BY DEF NoWrite
  <2> QED BY <1>7, <2>1 DEF Locks
<1>10. InOrder BY <1>5, <1>7 DEF InOrder, Removal, Removing, Move, Addition
<1> QED BY <1>8, <1>9, <1>10 DEF PInv

LEMMA InOrderNext ==
  ASSUME Types, Locks, InOrder, [Next]_vars, ~raced'
  PROVE  InOrder'
<1>1. ASSUME NEW t \in Requests, AddDuplicate(t) \/ Cancel(t) \/ DeadlockVictim(t)
      PROVE  InOrder'
  BY <1>1, FinishInOrder DEF AddDuplicate, Cancel, DeadlockVictim
<1>2. ASSUME NEW t \in Requests, NEW r \in Rows, RemoveNotFound(t, r)
      PROVE  InOrder'
  BY <1>2, FinishInOrder DEF RemoveNotFound
<1>3. ASSUME NEW t \in Requests, NEW r \in Rows, NEW p \in 1..(Cardinality(Rows) + 1),
             MoveRead(t, r, p)
      PROVE  InOrder'
  BY <1>3, Counts, MoveReadInOrder
<1>4. CASE UNCHANGED vars
  <2> UNCHANGED <<pos, spent, pc, row, target, write, todo, snap, changed, overtaken>>
    BY <1>4 DEF vars, dbVars, txVars, reqVars
  <2>1. Live' = Live BY DEF Live
  <2>2. \A u \in Requests : Removal(u)' BY <2>1, RemovalFrame DEF InOrder
  <2>3. \A u \in Requests : Move(u)' BY MoveStays DEF InOrder
  <2>4. \A u \in Requests : Addition(u)'
    <3>1. \A u \in Requests : Moving(u)' => Moving(u) /\ snap'[u] = snap[u] BY DEF Moving
    <3> QED BY <2>1, <3>1, AdditionFrame DEF InOrder
  <2> QED BY <2>1, <2>2, <2>3, <2>4 DEF InOrder, Ranks
<1> QED
  BY <1>1, <1>2, <1>3, <1>4, AddReadInOrder, AddInsertInOrder, RemoveDeleteInOrder,
     RecompactReadInOrder, RecompactWriteInOrder, RemoveCommitInOrder, ShiftInOrder,
     PlaceInOrder, MoveCommitInOrder
  DEF Next, Start, Step, Answered

\* An addition that has raced has raced for ever.
LEMMA RacedStays ==
  ASSUME raced, [Next]_vars
  PROVE  raced'
<1>1. ASSUME NEW t, NEW result, Finish(t, result) PROVE raced' BY <1>1 DEF Finish, dbVars
<1>2. ASSUME NEW t, NEW isMove, Commit(t, isMove) PROVE raced' BY <1>2 DEF Commit
<1>3. ASSUME NEW t, NEW v, NEW label, SerializableWrite(t, v, label) PROVE raced'
  BY <1>1, <1>3 DEF SerializableWrite, dbVars
<1>4. ASSUME NEW t, NEW r, NEW p, MoveRead(t, r, p) PROVE raced'
  BY <1>1, <1>4 DEF MoveRead, dbVars
<1>5. ASSUME NEW t, NEW r, RemoveDelete(t, r) \/ RemoveNotFound(t, r) PROVE raced'
  BY <1>1, <1>5 DEF RemoveDelete, RemoveNotFound, dbVars
<1>6. ASSUME NEW t, Step(t) \/ Cancel(t) \/ AddRead(t) PROVE raced'
  BY <1>1, <1>2, <1>3, <1>6
  DEF Step, Cancel, AddRead, AddInsert, AddDuplicate, RecompactRead, RecompactWrite,
      RemoveCommit, MoveShift, MovePlace, MoveCommit, DeadlockVictim, dbVars
<1>7. CASE UNCHANGED vars BY <1>7 DEF vars, dbVars
<1> QED BY <1>4, <1>5, <1>6, <1>7 DEF Next, Start, Answered

\* The strengthening that the next two theorems rest on: types, what a request holds,
\* and rankings as long as no addition has raced.
THEOREM Invariance == Spec => []PInv
<1>1. Init => PInv BY InitInv
<1>2. PInv /\ [Next]_vars => PInv'
  <2> SUFFICES ASSUME PInv, [Next]_vars PROVE PInv' OBVIOUS
  <2>1. Types' /\ Locks' BY TypesNext, LocksNext DEF PInv
  <2>2. ~raced' => InOrder' BY InOrderNext, RacedStays DEF PInv
  <2> QED BY <2>1, <2>2 DEF PInv
<1> QED BY <1>1, <1>2, PTL DEF Spec

\* Every variable keeps its type: no position and no version exceeds the number of
\* rows generated.
THEOREM TypeCorrect == Spec => []TypeOK
<1>1. PInv => TypeOK
  <2> SUFFICES ASSUME PInv PROVE TypeOK OBVIOUS
  <2>1. Types BY DEF PInv
  <2>2. Bound \subseteq Positions BY <2>1, Counts DEF Bound, Positions
  <2>3. Partial(Bound) \subseteq Versions BY <2>2 DEF Partial, Versions
  <2> QED BY <2>1, <2>2, <2>3 DEF Types, TypeOK, Labels, Results
<1> QED BY <1>1, Invariance, PTL

\* Positions are 1..n, unless an addition has inserted a position that was not the last
\* any more, or while a removal had already numbered the rows: no combination of
\* RemoveTrack and MoveTrack, and no sequence of edits, leaves a gap or a duplicate.
THEOREM PositionsGapless == Spec => []GaplessUnlessRaced
<1>1. PInv => GaplessUnlessRaced
  <2> SUFFICES ASSUME PInv, ~raced PROVE Gapless BY DEF GaplessUnlessRaced
  <2>1. Ranks(pos, Live, Cardinality(Live)) BY DEF PInv, InOrder
  <2> QED BY <2>1 DEF Ranks, Gapless
<1> QED BY <1>1, Invariance, PTL

-----------------------------------------------------------------------------
(* The playlist as a list                                                  *)

\* The first k of a ranking.
LEMMA Prefix ==
  ASSUME NEW S, NEW f, NEW n \in Nat, Ranks(f, S, n), NEW k \in 0..n
  PROVE  IsFiniteSet({s \in S : f[s] <= k}) /\ Cardinality({s \in S : f[s] <= k}) = k
<1> DEFINE T == {s \in S : f[s] <= k}
<1>1. Ranks(f, T, k)
  BY DEF Ranks
<1> HIDE DEF T
<1>2. IsFiniteSet(T) /\ Cardinality(T) = k
  BY <1>1, RanksCount
<1> QED BY <1>2 DEF T

\* The position c becomes free and those behind it move up.
Closed(c, x) == IF x < c THEN x ELSE x - 1

\* Without one member, there is one ranking in the same order.
LEMMA OneClosed ==
  ASSUME NEW S, NEW f, NEW n \in Nat, Ranks(f, S, n), NEW d \in S, NEW g, NEW m \in Nat,
         Ranks(g, S \ {d}, m), \A r, s \in S \ {d} : f[r] < f[s] => g[r] < g[s],
         NEW r \in S \ {d}
  PROVE  g[r] = Closed(f[d], f[r])
<1> DEFINE A == {s \in S \ {d} : g[s] <= g[r]}
           B == {s \in S : f[s] <= f[r]}
<1>1. /\ \A s \in S : f[s] \in 1..n
      /\ \A s \in S \ {d} : g[s] \in 1..m
      /\ f[r] # f[d]
  BY DEF Ranks
<1>2. \A s \in S \ {d} : g[s] <= g[r] <=> f[s] <= f[r]
  <2> SUFFICES ASSUME NEW s \in S \ {d} PROVE g[s] <= g[r] <=> f[s] <= f[r]
    OBVIOUS
  <2>1. f[s] = f[r] => s = r BY DEF Ranks
  <2>2. f[s] < f[r] \/ f[r] < f[s] \/ f[s] = f[r] BY <1>1
  <2>3. f[s] < f[r] => g[s] < g[r] OBVIOUS
  <2>4. f[r] < f[s] => g[r] < g[s] OBVIOUS
  <2> QED BY <1>1, <2>1, <2>2, <2>3, <2>4
<1>3. Cardinality(A) = g[r]
  BY <1>1, Prefix
<1>4. IsFiniteSet(B) /\ Cardinality(B) = f[r]
  BY <1>1, Prefix
<1>5. A = B \ {d}
  BY <1>2
<1>6. CASE f[d] < f[r]
  <2>1. d \in B BY <1>1, <1>6
  <2> HIDE DEF A, B
  <2>2. Cardinality(A) = Cardinality(B) - 1 BY <1>4, <1>5, <2>1, FS_RemoveElement
  <2> QED BY <1>1, <1>3, <1>4, <1>6, <2>2 DEF Closed
<1>7. CASE f[r] < f[d]
  <2>1. d \notin B BY <1>1, <1>7
  <2> HIDE DEF A, B
  <2>2. A = B BY <1>5, <2>1
  <2> QED BY <1>1, <1>3, <1>4, <1>7, <2>2 DEF Closed
<1> QED BY <1>1, <1>6, <1>7

\* A ranking lists each member at its rank.
LEMMA Sorted ==
  ASSUME NEW S, NEW p, NEW n \in Nat, Ranks(p, S, n)
  PROVE  ByPosition(S, p) \in [1..n -> S] /\ \A k \in 1..n : p[ByPosition(S, p)[k]] = k
<1> DEFINE Before(r) == Cardinality({s \in S : p[s] < p[r]})
           UpTo(r) == Cardinality({s \in S : p[s] <= p[r]})
           l == [k \in 1..n |-> CHOOSE r \in S : Before(r) < k /\ UpTo(r) >= k]
<1>1. ByPosition(S, p) = l
  BY RanksCount DEF ByPosition
<1>2. ASSUME NEW r \in S
      PROVE  p[r] \in 1..n /\ Before(r) = p[r] - 1 /\ UpTo(r) = p[r]
  <2>1. \A s \in S : p[s] \in 1..n BY DEF Ranks
  <2>2. UpTo(r) = p[r] BY <2>1, Prefix
  <2>3. PICK q \in 0..n : q = p[r] - 1 BY <2>1
  <2>4. Cardinality({s \in S : p[s] <= q}) = q BY Prefix
  <2>5. {s \in S : p[s] < p[r]} = {s \in S : p[s] <= q} BY <2>1, <2>3
  <2> QED BY <2>1, <2>2, <2>3, <2>4, <2>5
<1> HIDE DEF Before, UpTo
<1>3. \A k \in 1..n : \A r \in S : (Before(r) < k /\ UpTo(r) >= k) <=> p[r] = k
  BY <1>2
<1>4. ASSUME NEW k \in 1..n PROVE l[k] \in S /\ p[l[k]] = k
  <2>1. PICK r \in S : p[r] = k BY DEF Ranks
  <2>2. Before(r) < k /\ UpTo(r) >= k BY <1>3, <2>1
  <2>3. l[k] = CHOOSE s \in S : Before(s) < k /\ UpTo(s) >= k OBVIOUS
  <2>4. l[k] \in S /\ Before(l[k]) < k /\ UpTo(l[k]) >= k BY <2>2, <2>3
  <2> QED BY <1>3, <2>4
<1>5. l \in [1..n -> S]
  BY <1>4
<1> QED BY <1>1, <1>4, <1>5

\* No other list does.
LEMMA SortedOnce ==
  ASSUME NEW S, NEW p, NEW n \in Nat, Ranks(p, S, n), NEW l \in [1..n -> S], NEW m \in [1..n -> S],
         \A k \in 1..n : p[l[k]] = k /\ p[m[k]] = k
  PROVE  l = m
BY DEF Ranks

LEMMA OrderIs ==
  ASSUME Types, InOrder
  PROVE  LET n == Cardinality(Live)
         IN /\ n \in Nat /\ Order \in [1..n -> Live] /\ \A k \in 1..n : pos[Order[k]] = k
            /\ \A r \in Live : pos[r] \in 1..n /\ Order[pos[r]] = r
            /\ \A i, j \in 1..n : Order[i] = Order[j] => i = j
            /\ DOMAIN Order = 1..n /\ Len(Order) = n /\ ToSet(Order) = Live
<1> DEFINE n == Cardinality(Live)
<1>1. n \in Nat /\ Ranks(pos, Live, n)
  BY Counts DEF InOrder
<1>2. Order \in [1..n -> Live] /\ \A k \in 1..n : pos[Order[k]] = k
  BY <1>1, Sorted DEF Order
<1> HIDE DEF n
<1>3. ASSUME NEW r \in Live PROVE pos[r] \in 1..n /\ Order[pos[r]] = r
  <2>1. pos[r] \in 1..n BY <1>1 DEF Ranks
  <2>2. Order[pos[r]] \in Live /\ pos[Order[pos[r]]] = pos[r] BY <1>2, <2>1
  <2> QED BY <1>1, <2>1, <2>2 DEF Ranks
<1>4. \A i, j \in 1..n : Order[i] = Order[j] => i = j
  <2> SUFFICES ASSUME NEW i \in 1..n, NEW j \in 1..n, Order[i] = Order[j] PROVE i = j
    OBVIOUS
  <2>1. pos[Order[i]] = i /\ pos[Order[j]] = j BY <1>2
  <2> QED BY <2>1
<1>5. DOMAIN Order = 1..n /\ Len(Order) = n
  BY <1>1, <1>2
<1>6. ToSet(Order) = Live
  BY <1>2, <1>3, <1>5 DEF ToSet
<1> QED BY <1>1, <1>2, <1>3, <1>4, <1>5, <1>6 DEF n

LEMMA OrderWithout ==
  ASSUME Types, InOrder, NEW c \in 1..Cardinality(Live)
  PROVE  RemoveFirst(Order, Order[c]) =
           [j \in 1..(Cardinality(Live) - 1) |-> IF j < c THEN Order[j] ELSE Order[j + 1]]
<1> DEFINE n == Cardinality(Live)
           l == Order
<1>1. n \in Nat /\ l \in [1..n -> Live] /\ (\A i, j \in 1..n : l[i] = l[j] => i = j) /\ c \in 1..n
  BY OrderIs
<1> HIDE DEF n, l
<1>2. RemoveFirst(l, l[c]) = [j \in 1..(n - 1) |-> IF j < c THEN l[j] ELSE l[j + 1]]
  BY <1>1, Removed
<1> QED BY <1>2 DEF n, l

\* The abstract specification has its own instances of the operators on sequences.
LEMMA SameOperators ==
  ASSUME NEW l, NEW x, NEW k
  PROVE  /\ Abstract!ToSet(l) = ToSet(l)
         /\ Abstract!RemoveFirst(l, x) = RemoveFirst(l, x)
         /\ Abstract!InsertAt(l, k, x) = InsertAt(l, k, x)
<1>1. Abstract!ToSet(l) = ToSet(l)
  BY DEF Abstract!ToSet, ToSet
<1>2. Abstract!InsertAt(l, k, x) = InsertAt(l, k, x)
  BY DEF Abstract!InsertAt, InsertAt
<1>3. Abstract!RemoveFirst(l, x) = RemoveFirst(l, x)
  BY DEF Abstract!RemoveFirst, RemoveFirst, Abstract!RemoveAt, RemoveAt,
         Abstract!SelectInSeq, SelectInSeq, Abstract!Min, Min
<1> QED BY <1>1, <1>2, <1>3

\* What a step makes of the list.
LEMMA OrderNext ==
  ASSUME Types', InOrder', NEW n \in Nat, n = Cardinality(Live'), NEW l \in [1..n -> Live'],
         \A k \in 1..n : pos'[l[k]] = k
  PROVE  Order' = l
<1>1. Ranks(pos', Live', n)
  BY DEF InOrder, Ranks
<1>2. Order' = ByPosition(Live', pos')
  BY DEF Order
<1> DEFINE L == Live'
           P == pos'
           O == ByPosition(L, P)
<1>3. Ranks(P, L, n) /\ l \in [1..n -> L] /\ \A k \in 1..n : P[l[k]] = k
  BY <1>1
<1> HIDE DEF L, P, O
<1>4. O \in [1..n -> L] /\ \A k \in 1..n : P[O[k]] = k
  BY <1>3, Sorted DEF O
<1>5. O = l
  BY <1>3, <1>4, SortedOnce
<1> QED BY <1>2, <1>5 DEF O, L, P

\* An addition appends.
LEMMA Appending ==
  ASSUME Types, Types', InOrder, InOrder', NEW t \in Requests, AddInsert(t), ~raced'
  PROVE  Abstract!AppendTrack(row[t])
<1> DEFINE n == Cardinality(Live)
           x == row[t]
           l == Append(Order, x)
<1>1. /\ x \in Rows \ Live /\ n \in Nat
      /\ pos'[x] = n + 1 /\ \A r \in Rows \ {x} : pos'[r] = pos[r]
      /\ Live' = Live \cup {x} /\ Cardinality(Live') = n + 1
  BY Appends
<1>2. /\ Order \in [1..n -> Live] /\ \A k \in 1..n : pos[Order[k]] = k
      /\ ToSet(Order) = Live
  BY OrderIs
<1> HIDE DEF n, x
<1>3. Order \in Seq(Live) /\ Len(Order) = n
  BY <1>1, <1>2
<1>4. l \in Seq(Live') /\ Len(l) = n + 1 /\ l[n + 1] = x /\ \A k \in 1..n : l[k] = Order[k]
  BY <1>1, <1>3
<1> HIDE DEF l
<1>5. l \in [1..(n + 1) -> Live']
  BY <1>4
<1>6. \A k \in 1..(n + 1) : pos'[l[k]] = k
  <2>1. \A r \in Live : pos'[r] = pos[r] BY <1>1 DEF Live
  <2> QED BY <1>1, <1>2, <1>4, <2>1
<1>7. Order' = l
  <2> DEFINE N == n + 1
  <2>1. N \in Nat /\ N = Cardinality(Live') /\ l \in [1..N -> Live'] /\ \A k \in 1..N : pos'[l[k]] = k
    BY <1>1, <1>5, <1>6
  <2> HIDE DEF N
  <2> QED BY <2>1, OrderNext
<1> QED BY <1>1, <1>2, <1>7, SameOperators DEF Abstract!AppendTrack, l, x

\* A move is one of the list.
LEMMA Reordering ==
  ASSUME Types, Locks, Types', InOrder, InOrder', NEW t \in Requests, pc[t] = "moved", ~overtaken[t],
         Commit(t, TRUE)
  PROVE  Abstract!MoveTrack(row[t], target[t]) /\ target[t] \in 1..Len(Order)
<1> DEFINE n == Cardinality(Live)
           x == row[t]
           p == target[t]
           c == pos[x]
           w == RemoveFirst(Order, x)
           l == InsertAt(w, p, x)
<1>1. x \in Live /\ p \in 1..n /\ Live' = Live /\ \A r \in Live : pos'[r] = Shift(c, p, pos[r])
  BY Moves
<1>2. /\ n \in Nat /\ Order \in [1..n -> Live] /\ \A k \in 1..n : pos[Order[k]] = k
      /\ c \in 1..n /\ Order[c] = x
      /\ \A i, j \in 1..n : Order[i] = Order[j] => i = j
      /\ Len(Order) = n /\ ToSet(Order) = Live
  BY <1>1, OrderIs
<1> HIDE DEF n, x, p, c
<1>3. w = [j \in 1..(n - 1) |-> IF j < c THEN Order[j] ELSE Order[j + 1]]
  BY <1>2, OrderWithout DEF n
<1>4. n - 1 \in Nat /\ w \in [1..(n - 1) -> Live]
  BY <1>2, <1>3
<1> DEFINE m == n - 1
<1>5. m \in Nat /\ m + 1 = n
  BY <1>2, <1>4
<1>6. l = [j \in 1..(m + 1) |-> IF j < p THEN w[j] ELSE IF j = p THEN x ELSE w[j - 1]]
  <2>1. w \in [1..m -> Live] /\ p \in 1..(m + 1) BY <1>1, <1>4, <1>5
  <2> HIDE DEF w, m
  <2> QED BY <1>1, <1>5, <2>1, Inserted
<1> HIDE DEF m
<1>7. l = [j \in 1..n |-> IF j < p THEN w[j] ELSE IF j = p THEN x ELSE w[j - 1]]
  BY <1>5, <1>6
<1> HIDE DEF w, l
<1>8. ASSUME NEW k \in 1..n PROVE l[k] \in Live /\ pos'[l[k]] = k
  <2>1. CASE k = p
    BY <1>1, <1>2, <1>7, <2>1 DEF Shift, c
  <2>2. CASE k < p
    <3>1. l[k] = w[k] /\ k \in 1..(n - 1) BY <1>1, <1>2, <1>7, <2>2
    <3>2. CASE k < c
      <4>1. l[k] = Order[k] BY <1>3, <3>1, <3>2
      <4> QED BY <1>1, <1>2, <2>2, <3>2, <4>1 DEF Shift
    <3>3. CASE c <= k
      <4>1. l[k] = Order[k + 1] /\ k + 1 \in 1..n BY <1>2, <1>3, <3>1, <3>3
      <4>2. l[k] \in Live /\ pos[l[k]] = k + 1 BY <1>2, <4>1
      <4> QED BY <1>1, <1>2, <2>2, <3>3, <4>2 DEF Shift
    <3> QED BY <1>2, <3>2, <3>3
  <2>3. CASE p < k
    <3>1. l[k] = w[k - 1] /\ k - 1 \in 1..(n - 1) BY <1>1, <1>2, <1>7, <2>3
    <3>2. CASE k - 1 < c
      <4>1. l[k] = Order[k - 1] /\ k - 1 \in 1..n BY <1>2, <1>3, <3>1, <3>2
      <4>2. l[k] \in Live /\ pos[l[k]] = k - 1 BY <1>2, <4>1
      <4> QED BY <1>1, <1>2, <2>3, <3>2, <4>2 DEF Shift
    <3>3. CASE c <= k - 1
      <4>1. l[k] = Order[k] BY <1>2, <1>3, <3>1, <3>3
      <4> QED BY <1>1, <1>2, <2>3, <3>3, <4>1 DEF Shift
    <3> QED BY <1>2, <3>2, <3>3
  <2> QED BY <1>1, <2>1, <2>2, <2>3
<1>9. l \in [1..n -> Live]
  BY <1>7, <1>8
<1>10. Order' = l
  BY <1>1, <1>2, <1>8, <1>9, OrderNext DEF n
<1> QED BY <1>1, <1>2, <1>10, SameOperators DEF Abstract!MoveTrack, l, w, x, p

-----------------------------------------------------------------------------
(* Removals                                                                *)

\* Unless a move has committed since, a removal has numbered the rows as they are now.
Kept(t) ==
  ~overtaken[t] =>
    /\ pc[t] = "recompacting" =>
         \A r \in Live \ {row[t]} : todo[t][r] = Closed(pos[row[t]], pos[r])
    /\ pc[t] = "removed" =>
         \A r \in Live \ {row[t]} : write[t][r] = Closed(pos[row[t]], pos[r])

\* A removal takes its track out.
LEMMA Deleting ==
  ASSUME Types, Locks, Types', InOrder, InOrder', NEW t \in Requests, RemoveCommit(t), Kept(t),
         ~overtaken[t]
  PROVE  Abstract!DeleteTrack(row[t])
<1> DEFINE n == Cardinality(Live)
           x == row[t]
           c == pos[x]
           l == RemoveFirst(Order, x)
<1>1. x \in Live /\ Live' = Live \ {x} /\ \A r \in Live \ {x} : pos'[r] = Closed(c, pos[r])
  BY Commits DEF Kept, RemoveCommit
<1>2. /\ n \in Nat /\ Order \in [1..n -> Live] /\ \A k \in 1..n : pos[Order[k]] = k
      /\ c \in 1..n /\ Order[c] = x
      /\ \A i, j \in 1..n : Order[i] = Order[j] => i = j
      /\ ToSet(Order) = Live
  BY <1>1, OrderIs
<1>3. Cardinality(Live') = n - 1 /\ n - 1 \in Nat
  <2>1. IsFiniteSet(Live) BY Counts
  <2>2. Cardinality(Live \ {x}) = Cardinality(Live) - 1 /\ Cardinality(Live \ {x}) \in Nat
    BY <1>1, <2>1, FS_RemoveElement, FS_CardinalityType
  <2> QED BY <1>1, <2>2
<1> HIDE DEF n, x, c
<1>4. l = [j \in 1..(n - 1) |-> IF j < c THEN Order[j] ELSE Order[j + 1]]
  BY <1>2, OrderWithout DEF n
<1> HIDE DEF l
<1>5. ASSUME NEW k \in 1..(n - 1) PROVE l[k] \in Live' /\ pos'[l[k]] = k
  <2>1. CASE k < c
    <3>1. l[k] = Order[k] /\ k \in 1..n BY <1>2, <1>4, <2>1
    <3>2. l[k] \in Live /\ pos[l[k]] = k BY <1>2, <3>1
    <3> QED BY <1>1, <1>2, <2>1, <3>2 DEF Closed, c
  <2>2. CASE c <= k
    <3>1. l[k] = Order[k + 1] /\ k + 1 \in 1..n BY <1>2, <1>4, <2>2
    <3>2. l[k] \in Live /\ pos[l[k]] = k + 1 BY <1>2, <3>1
    <3> QED BY <1>1, <1>2, <2>2, <3>2 DEF Closed, c
  <2> QED BY <1>2, <2>1, <2>2
<1>6. l \in [1..(n - 1) -> Live']
  BY <1>4, <1>5
<1>7. Order' = l
  BY <1>3, <1>5, <1>6, OrderNext
<1> QED BY <1>1, <1>2, <1>7, SameOperators DEF Abstract!DeleteTrack, l, x

\* What the end of a transaction leaves of a removal.
LEMMA KeptEnds ==
  ASSUME Types, NEW t \in Requests, NEW done, NEW isMove \in BOOLEAN, EndTransaction(t, done, isMove),
         pc' = [pc EXCEPT ![t] = "done"], NEW u \in Requests, pc'[u] \in {"recompacting", "removed"}
  PROVE  /\ u # t /\ pc'[u] = pc[u] /\ todo'[u] = todo[u] /\ write'[u] = write[u]
         /\ overtaken[u] => overtaken'[u]
         /\ isMove = TRUE /\ done # {} => overtaken'[u]
<1>1. u # t /\ pc'[u] = pc[u]
  BY DEF Types
<1>2. todo'[u] = todo[u] /\ write'[u] = write[u]
  BY <1>1 DEF EndTransaction, Types
<1>3. overtaken'[u] = (overtaken[u] \/ (isMove /\ done # {}))
  BY <1>1 DEF EndTransaction
<1> QED BY <1>1, <1>2, <1>3

\* The table does not change.
LEMMA KeptStays ==
  ASSUME \A u \in Requests : Kept(u), pos' = pos,
         \A u \in Requests : pc'[u] \in {"recompacting", "removed"} =>
           /\ pc'[u] = pc[u] /\ row'[u] = row[u] /\ todo'[u] = todo[u] /\ write'[u] = write[u]
           /\ overtaken[u] => overtaken'[u]
  PROVE  \A u \in Requests : Kept(u)'
BY DEF Kept, Live

LEMMA FinishKept ==
  ASSUME Types, \A u \in Requests : Kept(u), NEW t \in Requests, NEW result, Finish(t, result)
  PROVE  \A u \in Requests : Kept(u)'
<1>1. EndTransaction(t, {}, FALSE) /\ pc' = [pc EXCEPT ![t] = "done"] /\ UNCHANGED <<pos, row>>
  BY DEF Finish, Answer, dbVars
<1> QED BY <1>1, KeptEnds, KeptStays

\* What a removal numbers is what is left, closed up.
LEMMA RecompactReadKept ==
  ASSUME Types, Locks, InOrder, \A u \in Requests : Kept(u), NEW t \in Requests, RecompactRead(t)
  PROVE  \A u \in Requests : Kept(u)'
<1> DEFINE left == Live \ {row[t]}
<1>1. PICK n \in RowNumbers(View(t)) : todo' = [todo EXCEPT ![t] = n]
  BY DEF RecompactRead
<1>2. /\ \A u \in Requests \ {t} : pc'[u] = pc[u] /\ todo'[u] = todo[u]
      /\ UNCHANGED <<pos, row, write, overtaken>>
      /\ pc[t] = "recompact" /\ pc'[t] = "recompacting" /\ todo'[t] = n
  BY <1>1 DEF RecompactRead, Types, Goto, dbVars
<1>3. DOMAIN write[t] = {row[t]} /\ write[t][row[t]] = 0 /\ row[t] \in Live
  BY <1>2 DEF InOrder, Removal, Locks
<1>4. /\ {r \in Rows : View(t)[r] > 0} = left
      /\ \A r \in left : View(t)[r] = pos[r]
  BY <1>3, ViewTypes DEF Live
<1>5. Ranks(n, left, Cardinality(left))
  BY <1>4, Numbered
<1>6. \A r, s \in left : pos[r] < pos[s] => n[r] < n[s]
  BY <1>4 DEF RowNumbers
<1>7. Cardinality(Live) \in Nat /\ Cardinality(left) \in Nat /\ Ranks(pos, Live, Cardinality(Live))
  BY Counts, FS_RemoveElement, FS_CardinalityType DEF InOrder
<1>8. \A r \in left : n[r] = Closed(pos[row[t]], pos[r])
  <2> DEFINE d == row[t]
             N == Cardinality(Live)
             m == Cardinality(left)
  <2>1. /\ N \in Nat /\ m \in Nat /\ d \in Live
        /\ Ranks(pos, Live, N) /\ Ranks(n, Live \ {d}, m)
        /\ \A r, s \in Live \ {d} : pos[r] < pos[s] => n[r] < n[s]
    BY <1>3, <1>5, <1>6, <1>7
  <2> HIDE DEF d, N, m
  <2>2. \A r \in Live \ {d} : n[r] = Closed(pos[d], pos[r])
    BY <2>1, OneClosed
  <2> QED BY <2>2 DEF d
<1>9. Kept(t)'
  BY <1>2, <1>8 DEF Kept, Live
<1>10. \A u \in Requests \ {t} : Kept(u)'
  BY <1>2 DEF Kept, Live
<1> QED BY <1>9, <1>10

LEMMA RecompactWriteKept ==
  ASSUME Types, Locks, InOrder, \A u \in Requests : Kept(u), NEW t \in Requests, RecompactWrite(t)
  PROVE  \A u \in Requests : Kept(u)'
<1>1. /\ \A u \in Requests \ {t} : pc'[u] = pc[u] /\ todo'[u] = todo[u] /\ write'[u] = write[u]
      /\ UNCHANGED <<pos, row, overtaken>>
      /\ pc[t] = "recompacting" /\ pc'[t] = "removed"
  BY Recompacted DEF RecompactWrite, Types, Goto, dbVars
<1>2. /\ DOMAIN write[t] = {row[t]} /\ DOMAIN todo[t] = Live \ {row[t]}
  BY <1>1 DEF InOrder, Removal
<1>3. \A r \in Live \ {row[t]} : write'[t][r] = todo[t][r]
  BY <1>2, Recompacted
<1>4. Kept(t)'
  BY <1>1, <1>3 DEF Kept, Live
<1>5. \A u \in Requests \ {t} : Kept(u)'
  BY <1>1 DEF Kept, Live
<1> QED BY <1>4, <1>5

LEMMA KeptNext ==
  ASSUME Types, Locks, InOrder, \A u \in Requests : Kept(u), [Next]_vars, ~raced'
  PROVE  \A u \in Requests : Kept(u)'
<1>1. ASSUME NEW t \in Requests, AddDuplicate(t) \/ Cancel(t) \/ DeadlockVictim(t)
      PROVE  \A u \in Requests : Kept(u)'
  BY <1>1, FinishKept DEF AddDuplicate, Cancel, DeadlockVictim
<1>2. ASSUME NEW t \in Requests, NEW r \in Rows, RemoveNotFound(t, r)
      PROVE  \A u \in Requests : Kept(u)'
  BY <1>2, FinishKept DEF RemoveNotFound
<1>3. ASSUME NEW t \in Requests, NEW r \in Rows, NEW p \in 1..(Cardinality(Rows) + 1), MoveRead(t, r, p)
      PROVE  \A u \in Requests : Kept(u)'
  <2>1. CASE \E result \in Results : Finish(t, result) BY <2>1, FinishKept
  <2>2. CASE MoveBegins(t, r, p)
    BY <2>2, KeptStays DEF MoveBegins, Types
  <2> QED BY <1>3, <2>1, <2>2, Counts, MoveReadCases
<1>4. CASE UNCHANGED vars
  BY <1>4, KeptStays DEF vars, dbVars, txVars, reqVars
<1>5. ASSUME NEW t \in Requests, AddRead(t)
      PROVE  \A u \in Requests : Kept(u)'
  BY <1>5, KeptStays DEF AddRead, Goto, txVars, Types
<1>6. ASSUME NEW t \in Requests, AddInsert(t)
      PROVE  \A u \in Requests : Kept(u)'
  <2>1. \A u \in Removers : pc[u] \notin {"recompacting", "removed"} BY <1>6, Appends
  <2>2. pc' = [pc EXCEPT ![t] = "done"] BY <1>6 DEF AddInsert, Answer
  <2>3. \A u \in Requests : pc'[u] \notin {"recompacting", "removed"}
    BY <2>1, <2>2 DEF Types, Removing
  <2> QED BY <2>3 DEF Kept
<1>7. ASSUME NEW t \in Requests, NEW r \in Rows, RemoveDelete(t, r)
      PROVE  \A u \in Requests : Kept(u)'
  BY <1>7, KeptStays DEF RemoveDelete, Goto, dbVars, Types
<1>8. ASSUME NEW t \in Requests, RemoveCommit(t)
      PROVE  \A u \in Requests : Kept(u)'
  <2>1. \A u \in Requests \ {t} : ~Removing(u) BY <1>8, Commits
  <2>2. pc' = [pc EXCEPT ![t] = "done"] BY <1>8 DEF RemoveCommit, Commit, Answer
  <2>3. \A u \in Requests : pc'[u] \notin {"recompacting", "removed"}
    BY <2>1, <2>2 DEF Types, Removing
  <2> QED BY <2>3 DEF Kept
<1>9. ASSUME NEW t \in Requests, NEW v, NEW label \in {"place", "moved"}, SerializableWrite(t, v, label)
      PROVE  \A u \in Requests : Kept(u)'
  <2>1. CASE Finish(t, "conflict") BY <2>1, FinishKept
  <2>2. CASE Wrote(t, v, label)
    BY <2>2, KeptStays DEF Wrote, Types
  <2> QED BY <1>9, <2>1, <2>2, SerializableCases
<1>10. ASSUME NEW t \in Requests, MoveCommit(t)
      PROVE  \A u \in Requests : Kept(u)'
  <2>1. CASE Finish(t, "conflict") BY <2>1, FinishKept
  <2>2. CASE pc[t] = "moved" /\ ~overtaken[t] /\ Commit(t, TRUE)
    <3>1. EndTransaction(t, DOMAIN write[t], TRUE) /\ pc' = [pc EXCEPT ![t] = "done"]
      BY <2>2 DEF Commit, Answer
    <3>2. DOMAIN write[t] # {} BY <2>2, Moves
    <3>3. \A u \in Requests : pc'[u] \in {"recompacting", "removed"} => overtaken'[u]
      BY <3>1, <3>2, KeptEnds
    <3> QED BY <3>3 DEF Kept
  <2> QED BY <1>10, <2>1, <2>2 DEF MoveCommit
<1> QED
  BY <1>1, <1>2, <1>3, <1>4, <1>5, <1>6, <1>7, <1>8, <1>9, <1>10, RecompactReadKept, RecompactWriteKept
  DEF Next, Start, Step, Answered, MoveShift, MovePlace

KInv == PInv /\ (~raced => \A t \in Requests : Kept(t))

\* Every step is one edit of the list, none, or the commit of an outdated removal.
LEMMA OneEdit ==
  ASSUME KInv, KInv', [Next]_vars, ~raced'
  PROVE  Abstract!Next \/ Outdated \/ UNCHANGED Order
<1>1. /\ Types /\ Locks /\ InOrder /\ Types' /\ InOrder' /\ \A t \in Requests : Kept(t)
  BY RacedStays DEF KInv, PInv
<1>2. CASE pos' = pos
  BY <1>2 DEF Order, Live
<1>3. ASSUME NEW t \in Requests, AddInsert(t) PROVE Abstract!Next
  <2>1. row[t] \in Rows BY <1>1, <1>3, Appends
  <2> QED BY <1>1, <1>3, <2>1, Appending DEF Abstract!Next
<1>4. ASSUME NEW t \in Requests, RemoveCommit(t) PROVE Abstract!Next \/ Outdated
  <2>1. t \in Removers /\ row[t] \in Rows BY <1>1, <1>4 DEF RemoveCommit, Types, Removing
  <2>2. CASE overtaken[t] BY <1>4, <2>1, <2>2 DEF Outdated
  <2>3. CASE ~overtaken[t]
    BY <1>1, <1>4, <2>1, <2>3, Deleting DEF Abstract!Next
  <2> QED BY <2>2, <2>3
<1>5. ASSUME NEW t \in Requests, MoveCommit(t), pos' # pos PROVE Abstract!Next
  <2>1. pc[t] = "moved" /\ ~overtaken[t] /\ Commit(t, TRUE)
    BY <1>5 DEF MoveCommit, Finish, dbVars
  <2>2. row[t] \in Rows BY <1>1, <2>1 DEF Types, Moving
  <2>3. Abstract!MoveTrack(row[t], target[t]) /\ target[t] \in 1..Len(Order)
    BY <1>1, <2>1, Reordering
  <2> QED BY <2>2, <2>3 DEF Abstract!Next
<1>6. ASSUME NEW t \in Requests, NEW result, Finish(t, result) PROVE pos' = pos
  BY <1>6 DEF Finish, dbVars
<1>7. ASSUME NEW t \in Requests, NEW v, NEW label \in {"place", "moved"}, SerializableWrite(t, v, label)
      PROVE  pos' = pos
  BY <1>6, <1>7, SerializableCases DEF Wrote
<1>8. ASSUME NEW t \in Requests, NEW r \in Rows, NEW p \in 1..(Cardinality(Rows) + 1), MoveRead(t, r, p)
      PROVE  pos' = pos
  BY <1>1, <1>6, <1>8, Counts, MoveReadCases DEF MoveBegins
<1>9. ASSUME NEW t \in Requests, MoveShift(t) \/ MovePlace(t) PROVE pos' = pos
  BY <1>7, <1>9 DEF MoveShift, MovePlace
<1>10. ASSUME NEW t \in Requests,
              \/ AddDuplicate(t) \/ Cancel(t) \/ DeadlockVictim(t)
              \/ \E r \in Rows : RemoveNotFound(t, r)
       PROVE  pos' = pos
  BY <1>6, <1>10 DEF AddDuplicate, Cancel, DeadlockVictim, RemoveNotFound
<1>11. ASSUME NEW t \in Requests,
              \/ AddRead(t) \/ RecompactRead(t) \/ RecompactWrite(t)
              \/ \E r \in Rows : RemoveDelete(t, r)
       PROVE  pos' = pos
  BY <1>11 DEF AddRead, RecompactRead, RecompactWrite, RemoveDelete, dbVars
<1>12. UNCHANGED vars => pos' = pos
  BY DEF vars, dbVars
<1> QED
  BY <1>2, <1>3, <1>4, <1>5, <1>8, <1>9, <1>10, <1>11, <1>12 DEF Next, Start, Step, Answered

LEMMA KInvariance == Spec => []KInv
<1>1. Init => KInv
  <2> SUFFICES ASSUME Init PROVE KInv OBVIOUS
  <2>1. \A t \in Requests : pc[t] = "idle" BY DEF Init
  <2> QED BY <2>1, InitInv DEF KInv, Kept
<1>2. KInv /\ [Next]_vars => KInv'
  <2> SUFFICES ASSUME KInv, [Next]_vars PROVE KInv' OBVIOUS
  <2>1. Types' /\ Locks' BY TypesNext, LocksNext DEF KInv, PInv
  <2>2. ~raced' => InOrder' BY InOrderNext, RacedStays DEF KInv, PInv
  <2>3. ~raced' => (\A t \in Requests : Kept(t))' BY KeptNext, RacedStays DEF KInv, PInv
  <2> QED BY <2>1, <2>2, <2>3 DEF KInv, PInv
<1> QED BY <1>1, <1>2, PTL DEF Spec

\* A new playlist is a list.
LEMMA ListBegins ==
  ASSUME Init
  PROVE  Abstract!Init
<1>1. Types /\ InOrder BY InitInv DEF PInv, Init
<1> DEFINE n == Cardinality(Live)
<1>2. /\ n \in Nat /\ Order \in [1..n -> Live] /\ \A i, j \in 1..n : Order[i] = Order[j] => i = j
      /\ n <= Cardinality(Rows) /\ Cardinality(Rows) \in Nat
  BY <1>1, OrderIs, Counts
<1>3. Live \subseteq Rows BY DEF Live
<1> HIDE DEF n
<1>4. n \in 0..Cardinality(Rows) /\ Order \in [1..n -> Rows] BY <1>2, <1>3
<1>5. Order \in Abstract!SeqOf(Rows, Cardinality(Rows))
  BY <1>4 DEF Abstract!SeqOf
<1>6. Abstract!IsInjective(Order)
  BY <1>2 DEF Abstract!IsInjective
<1>7. Abstract!Cardinality(Rows) = Cardinality(Rows)
  BY DEF Abstract!Cardinality, Cardinality
<1> QED BY <1>5, <1>6, <1>7 DEF Abstract!Init

\* As long as no addition has raced, every step is one edit of the list (append, delete
\* or move), none, or the commit of a removal that has numbered the rows before a move
\* committed: what additions, moves and other removals leave, however they overlap, is
\* what they would leave one after the other.
THEOREM EditsAreOrdered ==
  Spec => Abstract!Init /\ [][raced' \/ Abstract!Next \/ Outdated]_Order
<1>1. Init => Abstract!Init
  BY ListBegins
<1>2. KInv /\ KInv' /\ [Next]_vars => [raced' \/ Abstract!Next \/ Outdated]_Order
  BY OneEdit
<1> QED BY <1>1, <1>2, KInvariance, PTL DEF Spec

-----------------------------------------------------------------------------
(* Screens.  Lists without repetition                                      *)

LEMMA ListType ==
  ASSUME NEW l \in Lists
  PROVE  l \in [1..Len(l) -> Tracks] /\ Len(l) \in Nat /\ DOMAIN l = 1..Len(l) /\ l \in Seq(Tracks)
  BY DEF Lists, SeqOf

LEMMA ListIntro ==
  ASSUME NEW n \in Nat, NEW l \in [1..n -> Tracks], \A i, j \in 1..n : l[i] = l[j] => i = j
  PROVE  l \in Lists
<1>1. l \in Injection(1..n, Tracks)
  BY DEF Injection, IsInjective
<1>2. Cardinality(1..n) = n
  BY FS_Interval
<1>3. n <= Cardinality(Tracks) /\ Cardinality(Tracks) \in Nat
  BY <1>1, <1>2, FS_Injection, FS_CardinalityType, ScreensAssumption
<1> QED
  BY <1>3 DEF Lists, SeqOf, IsInjective

LEMMA Empty == <<>> \in Lists /\ ToSet(<<>>) = {}
<1>1. <<>> \in [1..0 -> Tracks] /\ 0 \in Nat /\ DOMAIN <<>> = {}
  OBVIOUS
<1>2. <<>> \in Lists
  <2> DEFINE n == 0
  <2>1. n \in Nat /\ <<>> \in [1..n -> Tracks] /\ \A i, j \in 1..n : <<>>[i] = <<>>[j] => i = j
    BY <1>1
  <2> HIDE DEF n
  <2> QED BY <2>1, ListIntro
<1> QED BY <1>1, <1>2 DEF ToSet

LEMMA ListWithout ==
  ASSUME NEW l \in Lists, NEW i \in 1..Len(l)
  PROVE  RemoveFirst(l, l[i]) = [j \in 1..(Len(l) - 1) |-> IF j < i THEN l[j] ELSE l[j + 1]]
<1>1. Len(l) \in Nat /\ l \in [1..Len(l) -> Tracks] /\ \A j, k \in 1..Len(l) : l[j] = l[k] => j = k
  BY ListType DEF Lists, IsInjective
<1> DEFINE n == Len(l)
<1> HIDE DEF n
<1>2. n \in Nat /\ l \in [1..n -> Tracks] /\ (\A j, k \in 1..n : l[j] = l[k] => j = k) /\ i \in 1..n
  BY <1>1 DEF n
<1>3. RemoveFirst(l, l[i]) = [j \in 1..(n - 1) |-> IF j < i THEN l[j] ELSE l[j + 1]]
  BY <1>2, Removed
<1> QED BY <1>3 DEF n

LEMMA Without ==
  ASSUME NEW l \in Lists, NEW t \in ToSet(l)
  PROVE  /\ RemoveFirst(l, t) \in Lists /\ Len(RemoveFirst(l, t)) = Len(l) - 1 /\ Len(l) >= 1
         /\ ToSet(RemoveFirst(l, t)) = ToSet(l) \ {t}
<1>1. PICK i \in 1..Len(l) : l[i] = t
  BY ListType DEF ToSet
<1> DEFINE m == [j \in 1..(Len(l) - 1) |-> IF j < i THEN l[j] ELSE l[j + 1]]
<1>2. RemoveFirst(l, t) = m
  BY <1>1, ListWithout
<1>3. Len(l) - 1 \in Nat /\ m \in [1..(Len(l) - 1) -> Tracks]
  BY ListType
<1>4. \A j, k \in 1..(Len(l) - 1) : m[j] = m[k] => j = k
  BY ListType DEF Lists, IsInjective
<1>5. DOMAIN m = 1..(Len(l) - 1)
  OBVIOUS
<1>6. ToSet(m) \subseteq ToSet(l) \ {t}
  <2> SUFFICES ASSUME NEW j \in 1..(Len(l) - 1) PROVE m[j] \in ToSet(l) \ {t}
    BY <1>5 DEF ToSet
  <2> QED BY <1>1, ListType DEF ToSet, Lists, IsInjective
<1>7. ToSet(l) \ {t} \subseteq ToSet(m)
  <2> SUFFICES ASSUME NEW j \in 1..Len(l), l[j] # t PROVE l[j] \in ToSet(m)
    BY ListType DEF ToSet
  <2>1. CASE j < i
    <3>1. j \in 1..(Len(l) - 1) /\ m[j] = l[j]
      BY <2>1, ListType
    <3> QED BY <3>1, <1>5 DEF ToSet
  <2>2. CASE j > i
    <3>1. j - 1 \in 1..(Len(l) - 1) /\ m[j - 1] = l[j]
      BY <2>2, ListType
    <3> QED BY <3>1, <1>5 DEF ToSet
  <2> QED BY <1>1, <2>1, <2>2
<1> HIDE DEF m
<1>8. m \in Lists
  BY <1>3, <1>4, ListIntro
<1>9. Len(m) = Len(l) - 1
  BY <1>3
<1> QED BY <1>2, <1>3, <1>6, <1>7, <1>8, <1>9

LEMMA Absent ==
  ASSUME NEW l \in Lists, NEW t, t \notin ToSet(l)
  PROVE  RemoveFirst(l, t) = l
<1>1. ~\E i \in 1..Len(l) : l[i] = t
  BY ListType DEF ToSet
<1> QED BY <1>1 DEF RemoveFirst

LEMMA PutIn ==
  ASSUME NEW l \in Lists, NEW t \in Tracks \ ToSet(l), NEW k \in 1..(Len(l) + 1)
  PROVE  /\ InsertAt(l, k, t) \in Lists /\ Len(InsertAt(l, k, t)) = Len(l) + 1
         /\ ToSet(InsertAt(l, k, t)) = ToSet(l) \cup {t}
         /\ RemoveFirst(InsertAt(l, k, t), t) = l
<1>1. PICK n \in Nat : n = Len(l) /\ l \in [1..n -> Tracks] /\ DOMAIN l = 1..n
  BY ListType
<1> DEFINE m == [j \in 1..(n + 1) |-> IF j < k THEN l[j] ELSE IF j = k THEN t ELSE l[j - 1]]
<1>2. InsertAt(l, k, t) = m
  <2>1. n \in Nat /\ l \in [1..n -> Tracks] /\ k \in 1..(n + 1) /\ t \in Tracks
    BY <1>1
  <2> QED BY <2>1, Inserted
<1>3. m \in [1..(n + 1) -> Tracks] /\ DOMAIN m = 1..(n + 1)
  BY <1>1
<1>4. \A j \in 1..n : l[j] # t
  BY <1>1 DEF ToSet
<1>5. \A i, j \in 1..n : l[i] = l[j] => i = j
  BY <1>1 DEF Lists, IsInjective
<1>6. \A i, j \in 1..(n + 1) : m[i] = m[j] => i = j
  BY <1>1, <1>4, <1>5
<1>7. ToSet(m) \subseteq ToSet(l) \cup {t}
  <2> SUFFICES ASSUME NEW j \in 1..(n + 1) PROVE m[j] \in ToSet(l) \cup {t}
    BY <1>3 DEF ToSet
  <2> QED BY <1>1 DEF ToSet
<1>8. ToSet(l) \cup {t} \subseteq ToSet(m)
  <2>1. m[k] = t /\ k \in 1..(n + 1)
    BY <1>1
  <2>2. ASSUME NEW j \in 1..n PROVE \E i \in 1..(n + 1) : m[i] = l[j]
    <3>1. CASE j < k
      <4>1. j \in 1..(n + 1) /\ m[j] = l[j] BY <1>1, <3>1
      <4> QED BY <4>1
    <3>2. CASE j >= k
      <4>1. j + 1 \in 1..(n + 1) /\ m[j + 1] = l[j] BY <1>1, <3>2
      <4> QED BY <4>1
    <3> QED BY <1>1, <3>1, <3>2
  <2> QED BY <2>1, <2>2, <1>1, <1>3 DEF ToSet
<1>9. Len(m) = n + 1
  BY <1>1, <1>3
<1> HIDE DEF m
<1>10. m \in Lists
  BY <1>1, <1>3, <1>6, ListIntro
<1>11. m[k] = t /\ k \in 1..Len(m)
  BY <1>1, <1>9 DEF m
<1>12. RemoveFirst(m, t) = [j \in 1..n |-> IF j < k THEN m[j] ELSE m[j + 1]]
  <2>1. RemoveFirst(m, m[k]) = [j \in 1..(Len(m) - 1) |-> IF j < k THEN m[j] ELSE m[j + 1]]
    BY <1>10, <1>11, ListWithout
  <2>2. Len(m) - 1 = n
    BY <1>9
  <2> QED BY <1>11, <2>1, <2>2
<1>13. \A j \in 1..n : (IF j < k THEN m[j] ELSE m[j + 1]) = l[j]
  BY <1>1 DEF m
<1>14. RemoveFirst(m, t) = l
  BY <1>1, <1>12, <1>13
<1> QED BY <1>1, <1>2, <1>7, <1>8, <1>9, <1>10, <1>14

LEMMA Appended ==
  ASSUME NEW l \in Lists, NEW t \in Tracks \ ToSet(l)
  PROVE  Append(l, t) \in Lists /\ ToSet(Append(l, t)) = ToSet(l) \cup {t}
<1> DEFINE n == Len(l)
<1>1. n \in Nat /\ l \in [1..n -> Tracks] /\ l \in Seq(Tracks) /\ DOMAIN l = 1..n
  BY ListType
<1> DEFINE m == Append(l, t)
<1>2. m \in [1..(n + 1) -> Tracks] /\ DOMAIN m = 1..(n + 1) /\ Len(m) = n + 1
  <2>1. m \in Seq(Tracks) /\ Len(m) = n + 1
    BY <1>1
  <2> HIDE DEF m
  <2> QED BY <1>1, <2>1, Listed
<1>3. \A j \in 1..n : m[j] = l[j]
  BY <1>1
<1>4. m[n + 1] = t
  BY <1>1
<1> HIDE DEF m
<1>5. \A j \in 1..n : l[j] # t
  BY <1>1 DEF ToSet
<1>6. \A i, j \in 1..n : l[i] = l[j] => i = j
  BY <1>1 DEF Lists, IsInjective
<1>7. \A i, j \in 1..(n + 1) : m[i] = m[j] => i = j
  BY <1>1, <1>3, <1>4, <1>5, <1>6
<1>8. m \in Lists
  BY <1>1, <1>2, <1>7, ListIntro
<1>9. ToSet(m) = ToSet(l) \cup {t}
  BY <1>1, <1>2, <1>3, <1>4 DEF ToSet
<1> QED BY <1>8, <1>9 DEF m

\* An edit applied to a list gives a list.
LEMMA AppliedType ==
  ASSUME NEW l \in Lists, NEW e \in Edits
  PROVE  Applied(l, e) \in Lists /\ ToSet(Applied(l, e)) \subseteq ToSet(l) \cup {e.track}
<1>1. e.track \in Tracks /\ e.op \in {"add", "remove", "move"}
  BY DEF Edits
<1>2. CASE e.op = "add"
  BY <1>1, <1>2, Appended DEF Applied
<1>3. CASE e.op = "remove"
  BY <1>1, <1>3, Without, Absent DEF Applied
<1>4. CASE e.op = "move"
  <2>1. e.at \in Nat /\ e.at >= 1
    BY <1>4 DEF Edits
  <2>2. CASE e.track \notin ToSet(l)
    BY <1>4, <2>2 DEF Applied
  <2>3. CASE e.track \in ToSet(l)
    <3> DEFINE k == IF e.at < Len(l) THEN e.at ELSE Len(l)
               m == RemoveFirst(l, e.track)
    <3>1. Applied(l, e) = InsertAt(m, k, e.track)
      BY <1>4, <2>3 DEF Applied
    <3>2. m \in Lists /\ Len(m) = Len(l) - 1 /\ Len(l) >= 1 /\ ToSet(m) = ToSet(l) \ {e.track}
      BY <2>3, Without
    <3>3. k \in 1..(Len(m) + 1)
      BY <2>1, <3>2, ListType
    <3> HIDE DEF k, m
    <3> QED BY <1>1, <3>1, <3>2, <3>3, PutIn
  <2> QED BY <2>2, <2>3
<1> QED BY <1>1, <1>2, <1>3, <1>4

\* An edit that is applied once more changes nothing.
LEMMA AppliedAgain ==
  ASSUME NEW l \in Lists, NEW e \in Edits
  PROVE  Applied(Applied(l, e), e) = Applied(l, e)
<1>1. e.track \in Tracks /\ e.op \in {"add", "remove", "move"}
  BY DEF Edits
<1>2. CASE e.op = "add"
  BY <1>1, <1>2, Appended DEF Applied
<1>3. CASE e.op = "remove"
  BY <1>1, <1>3, Without, Absent DEF Applied
<1>4. CASE e.op = "move"
  <2>1. e.at \in Nat /\ e.at >= 1
    BY <1>4 DEF Edits
  <2>2. CASE e.track \notin ToSet(l)
    BY <1>4, <2>2 DEF Applied
  <2>3. CASE e.track \in ToSet(l)
    <3> DEFINE k == IF e.at < Len(l) THEN e.at ELSE Len(l)
               m == RemoveFirst(l, e.track)
               r == InsertAt(m, k, e.track)
    <3>1. Applied(l, e) = r
      BY <1>4, <2>3 DEF Applied
    <3>2. m \in Lists /\ Len(m) = Len(l) - 1 /\ Len(l) >= 1 /\ ToSet(m) = ToSet(l) \ {e.track}
      BY <2>3, Without
    <3>3. k \in 1..(Len(m) + 1)
      BY <2>1, <3>2, ListType
    <3>4. r \in Lists /\ Len(r) = Len(l) /\ e.track \in ToSet(r) /\ RemoveFirst(r, e.track) = m
      <4> HIDE DEF k, m
      <4> QED BY <1>1, <3>2, <3>3, PutIn, ListType
    <3>5. Applied(r, e) = InsertAt(RemoveFirst(r, e.track), k, e.track)
      <4> HIDE DEF r
      <4> QED BY <1>4, <3>4 DEF Applied
    <3> QED BY <3>1, <3>4, <3>5
  <2> QED BY <2>2, <2>3
<1> QED BY <1>1, <1>2, <1>3, <1>4
-----------------------------------------------------------------------------
Under(q) == stage[q] \notin {"idle", "done"}
Early(q) == stage[q] \in {"access", "invitation", "write", "failed", "denied"}

\* Who may edit while his edit is under way is noted, and an edit that has passed its
\* checks is his.
Entitlement ==
  /\ playlist = None => invited = {}
  /\ \A q \in EditRequests : Under(q) /\ MayEdit(Caller(q)) => q \in entitled
  /\ \A q \in EditRequests : stage[q] \in {"write", "publish"} => q \in entitled

\* Without an overlap there is one edit or one load, and events of one edit.
Alone ==
  /\ \A q, r \in EditRequests : Under(q) /\ Under(r) => q = r
  /\ \A s, t \in Screens : load[s] # "none" /\ load[t] # "none" => s = t
  /\ \A q \in EditRequests, s \in Screens :
       Under(q) => load[s] = "none" /\ (stage[q] # "ok" => inbox[s] = <<>>)
  /\ \A s, t \in Screens : load[s] # "none" => inbox[t] = <<>>
  /\ \A s \in Screens : Len(inbox[s]) <= 1

Showing(s) == s \notin missed /\ shown[s] # None

Agreement ==
  /\ \A q \in EditRequests : Early(q) =>
       /\ \A s \in Screens : Showing(s) =>
            shown[s] = IF s = screen[q] /\ edit[q].op # "add" THEN Applied(list, edit[q]) ELSE list
       /\ screen[q] \notin missed /\ edit[q].op # "add" => before[q] = list
  /\ \A q \in EditRequests : stage[q] = "publish" =>
       \A s \in Screens : Showing(s) => Applied(shown[s], edit[q]) = list
  /\ (\A q \in EditRequests : stage[q] \in {"idle", "ok", "done"}) =>
       \A s \in Screens : Showing(s) =>
         IF inbox[s] = <<>> THEN shown[s] = list ELSE Applied(shown[s], Head(inbox[s])) = list
  /\ \A s \in Screens : load[s] \in {"invitation", "answer"} => fetched[s].tracks = list

AgreeInv == ~overlapped => Alone /\ (playlist # None => Agreement)

\* The types, by the groups of variables that steps change together.
AccessOK ==
  /\ playlist \in Settings \cup {None} /\ invited \subseteq Users
  /\ list \in Lists /\ ToSet(list) \subseteq minted /\ minted \subseteq Tracks

StageLabels == {"idle", "access", "invitation", "write", "publish", "ok", "failed", "denied", "done"}

EditsOK ==
  /\ stage \in [EditRequests -> StageLabels]
  /\ screen \in [EditRequests -> Screens \cup {None}]
  /\ edit \in [EditRequests -> Edits \cup {None}]
  /\ before \in [EditRequests -> Lists \cup {None}]
  /\ \A q \in EditRequests :
       IF Under(q) THEN /\ screen[q] \in Screens /\ edit[q] \in Edits
                        /\ edit[q].op # "add" => before[q] \in Lists
                   ELSE screen[q] = None

RoomOK ==
  /\ room \subseteq Screens /\ inbox \in [Screens -> Seq(Edits)]
  /\ \A s \in Screens : s \notin room => inbox[s] = <<>>

Replies == [open : BOOLEAN, tracks : Lists]

LoadsOK ==
  /\ load \in [Screens -> {"none", "access", "tracks", "invitation", "answer"}]
  /\ fetched \in [Screens -> Replies \cup {None}]
  /\ shown \in [Screens -> Lists \cup {None}] /\ canEdit \subseteq Screens
  /\ \A s \in canEdit : shown[s] # None
  /\ \A s \in Screens : load[s] \in {"tracks", "invitation", "answer"} => fetched[s] \in Replies

HistoryOK == missed \subseteq Screens /\ overlapped \in BOOLEAN /\ entitled \subseteq EditRequests

ScreenTypes == AccessOK /\ EditsOK /\ RoomOK /\ LoadsOK /\ HistoryOK

LEMMA TypesBegin == ScreensInit => ScreenTypes /\ Entitlement /\ AgreeInv
<1> SUFFICES ASSUME ScreensInit PROVE ScreenTypes /\ Entitlement /\ AgreeInv
  OBVIOUS
<1>1. <<>> \in Seq(Edits) /\ ToSet(InitList) \subseteq Tracks
  BY ScreensAssumption, ListType DEF ToSet
<1>2. ScreenTypes
  BY <1>1, ScreensAssumption
  DEF ScreenTypes, AccessOK, EditsOK, RoomOK, LoadsOK, HistoryOK, StageLabels, ScreensInit, Under
<1>3. Entitlement
  BY DEF ScreensInit, Entitlement, Under
<1>4. AgreeInv
  BY DEF ScreensInit, AgreeInv, Alone, Agreement, Under, Early, Showing
<1> QED BY <1>2, <1>3, <1>4

\* What the server writes is what the screens apply.
LEMMA Written ==
  ASSUME NEW l \in Lists, NEW e \in Edits,
         e.op = "add" <=> e.track \notin ToSet(l), e.op = "move" => e.at <= Len(l)
  PROVE  (CASE e.op = "add" -> Append(l, e.track)
            [] e.op = "remove" -> RemoveFirst(l, e.track)
            [] e.op = "move" -> InsertAt(RemoveFirst(l, e.track), e.at, e.track)) = Applied(l, e)
<1>1. e.op \in {"add", "remove", "move"} /\ (e.op = "move" => e.at \in Nat) /\ Len(l) \in Nat
  BY ListType DEF Edits
<1>2. e.op = "move" => (IF e.at < Len(l) THEN e.at ELSE Len(l)) = e.at
  BY <1>1
<1> QED BY <1>1, <1>2 DEF Applied

LEMMA WriteIs ==
  ASSUME ScreenTypes, NEW q \in EditRequests, Write(q)
  PROVE  \/ /\ list' = Applied(list, edit[q]) /\ minted' = minted \cup {edit[q].track}
            /\ stage' = [stage EXCEPT ![q] = "publish"] /\ playlist # None
         \/ UNCHANGED <<list, minted>> /\ stage' = [stage EXCEPT ![q] = "failed"]
<1>1. list \in Lists /\ edit[q] \in Edits
  BY DEF ScreenTypes, AccessOK, EditsOK, Under, Write
<1> QED BY <1>1, Written DEF Write, Feasible, Advance

LEMMA AccessNext == ScreenTypes /\ ScreensNext => AccessOK'
<1> SUFFICES ASSUME ScreenTypes, ScreensNext PROVE AccessOK'
  OBVIOUS
<1>1. CASE UNCHANGED accessVars
  BY <1>1 DEF accessVars, ScreenTypes, AccessOK
<1>2. ASSUME NEW q \in EditRequests, Write(q) PROVE AccessOK'
  <2>1. edit[q] \in Edits /\ list \in Lists /\ edit[q].track \in Tracks
    BY <1>2 DEF ScreenTypes, AccessOK, EditsOK, Under, Write, Edits
  <2>2. Applied(list, edit[q]) \in Lists /\ ToSet(Applied(list, edit[q])) \subseteq ToSet(list) \cup {edit[q].track}
    BY <2>1, AppliedType
  <2>3. UNCHANGED <<playlist, invited>>
    BY <1>2 DEF Write
  <2> QED BY <1>2, <2>1, <2>2, <2>3, WriteIs DEF ScreenTypes, AccessOK
<1>3. CASE UpdatePlaylist \/ DeletePlaylist \/ \E u \in Users : Invite(u)
  BY <1>3, Empty DEF UpdatePlaylist, DeletePlaylist, Invite, Administer, ScreenTypes, AccessOK
<1> QED
  BY <1>1, <1>2, <1>3
  DEF ScreensNext, Handle, RequireEditAccess, RequireInvited, Check, InternalError, Publish, Confirm, Refuse, Finished,
      BeginEdit, Open, Loading, LoadAccess, LoadTracks, LoadInvited, LoadDone, Join, Leave, Deliver

LEMMA EditsNext == ScreenTypes /\ ScreensNext => EditsOK'
<1> SUFFICES ASSUME ScreenTypes, ScreensNext PROVE EditsOK'
  OBVIOUS
<1>1. CASE UNCHANGED editVars
  BY <1>1 DEF editVars, ScreenTypes, EditsOK, Under
<1>2. ASSUME NEW q \in EditRequests, NEW a \in StageLabels \ {"idle", "done"}, Under(q),
             stage' = [stage EXCEPT ![q] = a], UNCHANGED <<screen, edit, before>>
      PROVE EditsOK'
  BY <1>2 DEF ScreenTypes, EditsOK, Under
<1>3. ASSUME NEW q \in EditRequests, Write(q) PROVE EditsOK'
  <2>1. Under(q) /\ UNCHANGED <<screen, edit, before>>
    BY <1>3 DEF Under, Write
  <2> QED BY <1>2, <1>3, <2>1, WriteIs DEF StageLabels
<1>4. ASSUME NEW q \in EditRequests,
             RequireEditAccess(q) \/ RequireInvited(q) \/ InternalError(q) \/ Publish(q)
      PROVE  EditsOK'
  BY <1>2, <1>4
  DEF RequireEditAccess, RequireInvited, InternalError, Publish, Check, Advance, StageLabels, Under
<1>5. ASSUME NEW q \in EditRequests, Confirm(q) \/ Refuse(q) PROVE EditsOK'
  <2>1. Finished(q)
    BY <1>5 DEF Confirm, Refuse
  <2> QED BY <2>1 DEF Finished, Advance, StageLabels, ScreenTypes, EditsOK, Under
<1>6. ASSUME NEW q \in EditRequests, NEW s \in Screens, NEW e \in Edits, BeginEdit(q, s, e) PROVE EditsOK'
  <2>1. /\ stage' = [stage EXCEPT ![q] = "access"] /\ screen' = [screen EXCEPT ![q] = s]
        /\ edit' = [edit EXCEPT ![q] = e]
        /\ IF e.op = "add" THEN UNCHANGED before ELSE before' = [before EXCEPT ![q] = shown[s]]
    BY <1>6 DEF BeginEdit, Advance
  <2>2. shown[s] \in Lists
    BY <1>6 DEF BeginEdit, ScreenTypes, LoadsOK
  <2> QED BY <2>1, <2>2 DEF ScreenTypes, EditsOK, StageLabels, Under
<1> QED
  BY <1>1, <1>3, <1>4, <1>5, <1>6
  DEF ScreensNext, Handle, Open, Loading, LoadAccess, LoadTracks, LoadInvited, LoadDone, Join, Leave, Deliver,
      UpdatePlaylist, DeletePlaylist, Invite, Administer

LEMMA RoomNext == ScreenTypes /\ ScreensNext => RoomOK'
<1> SUFFICES ASSUME ScreenTypes, ScreensNext PROVE RoomOK'
  OBVIOUS
<1>1. CASE UNCHANGED roomVars
  BY <1>1 DEF roomVars, ScreenTypes, RoomOK
<1>2. ASSUME NEW q \in EditRequests, Publish(q) PROVE RoomOK'
  <2>1. edit[q] \in Edits
    BY <1>2 DEF Publish, ScreenTypes, EditsOK, Under
  <2>2. \A s \in Screens : Append(inbox[s], edit[q]) \in Seq(Edits)
    BY <2>1 DEF ScreenTypes, RoomOK
  <2> QED BY <1>2, <2>2 DEF Publish, ScreenTypes, RoomOK
<1>3. ASSUME NEW s \in Screens, Join(s) \/ Leave(s) \/ Deliver(s) PROVE RoomOK'
  <2>1. <<>> \in Seq(Edits) /\ (inbox[s] # <<>> => Tail(inbox[s]) \in Seq(Edits) /\ s \in room)
    BY DEF ScreenTypes, RoomOK
  <2> QED BY <1>3, <2>1 DEF Join, Leave, Deliver, ScreenTypes, RoomOK
<1> QED
  BY <1>1, <1>2, <1>3
  DEF ScreensNext, Handle, RequireEditAccess, RequireInvited, Check, Write, InternalError, Confirm, Refuse, Finished,
      BeginEdit, Open, Loading, LoadAccess, LoadTracks, LoadInvited, LoadDone,
      UpdatePlaylist, DeletePlaylist, Invite, Administer

LEMMA LoadsNext == ScreenTypes /\ ScreensNext => LoadsOK'
<1> SUFFICES ASSUME ScreenTypes, ScreensNext PROVE LoadsOK'
  OBVIOUS
<1>1. CASE UNCHANGED screenVars
  BY <1>1 DEF screenVars, ScreenTypes, LoadsOK
<1>2. ASSUME NEW s \in Screens, NEW l \in Lists, shown[s] # None \/ l # None,
             shown' = [shown EXCEPT ![s] = l], UNCHANGED <<load, fetched>>, canEdit' \subseteq canEdit
      PROVE  LoadsOK'
  BY <1>2, ScreensAssumption DEF ScreenTypes, LoadsOK
<1>3. ASSUME NEW q \in EditRequests, Confirm(q) \/ Refuse(q) PROVE LoadsOK'
  <2>1. UNCHANGED <<load, fetched>> /\ canEdit' \subseteq canEdit /\ (UNCHANGED shown \/ Revert(q)) /\ Under(q)
    BY <1>3 DEF Confirm, Refuse, Finished, Under
  <2>2. CASE UNCHANGED shown
    BY <2>1, <2>2 DEF ScreenTypes, LoadsOK
  <2>3. CASE Revert(q) /\ edit[q].op # "add"
    <3>1. screen[q] \in Screens /\ before[q] \in Lists
      BY <2>1, <2>3 DEF ScreenTypes, EditsOK
    <3> QED BY <1>2, <2>1, <2>3, <3>1, ScreensAssumption DEF Revert
  <2> QED BY <2>1, <2>2, <2>3 DEF Revert
<1>4. ASSUME NEW q \in EditRequests, NEW s \in Screens, NEW e \in Edits, BeginEdit(q, s, e) PROVE LoadsOK'
  <2>1. shown[s] \in Lists
    BY <1>4 DEF BeginEdit, ScreenTypes, LoadsOK
  <2>2. Applied(shown[s], e) \in Lists
    BY <2>1, AppliedType
  <2>3. UNCHANGED <<load, fetched, canEdit>>
    BY <1>4 DEF BeginEdit
  <2>4. CASE e.op = "add"
    BY <1>1, <1>4, <2>3, <2>4 DEF BeginEdit, screenVars
  <2>5. CASE e.op # "add"
    <3>1. shown' = [shown EXCEPT ![s] = Applied(shown[s], e)]
      BY <1>4, <2>5 DEF BeginEdit
    <3> QED BY <1>2, <2>2, <2>3, <3>1, ScreensAssumption
  <2> QED BY <2>4, <2>5
<1>5. ASSUME NEW s \in Screens, Open(s) PROVE LoadsOK'
  BY <1>5 DEF Open, ScreenTypes, LoadsOK
<1>6. ASSUME NEW s \in Screens, NEW from, NEW to \in {"none", "tracks", "invitation", "answer"},
             NEW reply \in Replies \cup {None}, to # "none" => reply \in Replies,
             Loading(s, from, to, reply)
      PROVE  LoadsOK'
  BY <1>6 DEF Loading, ScreenTypes, LoadsOK
<1>7. ASSUME NEW s \in Screens, LoadAccess(s) PROVE LoadsOK'
  <2>1. [open |-> playlist.license # 1 \/ Viewer[s] = Owner, tracks |-> <<>>] \in Replies
    BY Empty DEF Replies
  <2> QED BY <1>6, <1>7, <2>1 DEF LoadAccess
<1>8. ASSUME NEW s \in Screens, LoadTracks(s) \/ LoadInvited(s) PROVE LoadsOK'
  <2>1. fetched[s] \in Replies /\ list \in Lists
    BY <1>8 DEF LoadTracks, LoadInvited, Loading, ScreenTypes, LoadsOK, AccessOK
  <2>2. /\ [fetched[s] EXCEPT !.tracks = list] \in Replies
        /\ [fetched[s] EXCEPT !.open = @ \/ Viewer[s] \in invited] \in Replies
    BY <2>1 DEF Replies
  <2> QED BY <1>6, <1>8, <2>2 DEF LoadTracks, LoadInvited
<1>9. ASSUME NEW s \in Screens, LoadDone(s) PROVE LoadsOK'
  <2>1. fetched[s] \in Replies
    BY <1>9 DEF LoadDone, ScreenTypes, LoadsOK
  <2>2. fetched[s].tracks \in Lists
    BY <2>1 DEF Replies
  <2> QED BY <1>9, <2>2, ScreensAssumption DEF LoadDone, ScreenTypes, LoadsOK
<1>10. ASSUME NEW s \in Screens, Deliver(s) PROVE LoadsOK'
  <2>1. UNCHANGED <<load, fetched, canEdit>>
    BY <1>10 DEF Deliver
  <2>2. CASE shown[s] = None
    BY <1>1, <1>10, <2>1, <2>2 DEF Deliver, screenVars
  <2>3. CASE shown[s] # None
    <3>1. shown[s] \in Lists /\ Head(inbox[s]) \in Edits
      BY <1>10, <2>3 DEF Deliver, ScreenTypes, LoadsOK, RoomOK
    <3>2. Applied(shown[s], Head(inbox[s])) \in Lists
      BY <3>1, AppliedType
    <3>3. shown' = [shown EXCEPT ![s] = Applied(shown[s], Head(inbox[s]))]
      BY <1>10, <2>3 DEF Deliver
    <3> QED BY <1>2, <2>1, <2>3, <3>2, <3>3
  <2> QED BY <2>2, <2>3
<1> QED
  BY <1>1, <1>3, <1>4, <1>5, <1>7, <1>8, <1>9, <1>10
  DEF ScreensNext, Handle, RequireEditAccess, RequireInvited, Check, Write, InternalError, Publish, Join, Leave,
      UpdatePlaylist, DeletePlaylist, Invite, Administer

LEMMA HistoryNext == ScreenTypes /\ ScreensNext => HistoryOK'
<1> SUFFICES ASSUME ScreenTypes, ScreensNext PROVE HistoryOK'
  OBVIOUS
<1>1. missed \subseteq Screens /\ overlapped \in BOOLEAN /\ entitled \subseteq EditRequests
  BY DEF ScreenTypes, HistoryOK
<1>2. overlapped' \in BOOLEAN /\ entitled' \subseteq EditRequests
  BY <1>1
  DEF ScreensNext, Handle, RequireEditAccess, RequireInvited, Check, Write, InternalError, Publish, Confirm, Refuse, Finished,
      BeginEdit, Beginning, NoteEntitled, Open, Loading, LoadAccess, LoadTracks, LoadInvited, LoadDone,
      Join, Leave, Deliver, UpdatePlaylist, DeletePlaylist, Invite, Administer
<1>3. \A q \in EditRequests : stage[q] = "ok" => screen[q] \in Screens
  BY DEF ScreenTypes, EditsOK, Under
<1>4. missed' \subseteq Screens
  BY <1>1, <1>3
  DEF ScreensNext, Handle, RequireEditAccess, RequireInvited, Check, Write, InternalError, Publish, Confirm, Refuse, Finished,
      BeginEdit, Open, Loading, LoadAccess, LoadTracks, LoadInvited, LoadDone,
      Join, Leave, Deliver, UpdatePlaylist, DeletePlaylist, Invite, Administer
<1> QED BY <1>2, <1>4 DEF HistoryOK

LEMMA ScreenTypesNext == ScreenTypes /\ [ScreensNext]_playlistVars => ScreenTypes'
<1>1. CASE UNCHANGED playlistVars
  BY <1>1
  DEF playlistVars, accessVars, editVars, roomVars, screenVars, ScreenTypes, AccessOK, EditsOK, Under,
      RoomOK, LoadsOK, HistoryOK
<1>2. CASE ScreensNext
  BY <1>2, AccessNext, EditsNext, RoomNext, LoadsNext, HistoryNext DEF ScreenTypes
<1> QED BY <1>1, <1>2

LEMMA TypesHold == ScreenTypes => ScreensTypeOK
<1> SUFFICES ASSUME ScreenTypes PROVE ScreensTypeOK
  OBVIOUS
<1>1. \A s \in Screens : ToSet(inbox[s]) \subseteq Edits
  BY DEF ScreenTypes, RoomOK, ToSet
<1> QED
  BY <1>1 DEF ScreenTypes, AccessOK, EditsOK, RoomOK, LoadsOK, HistoryOK, StageLabels, Replies, ScreensTypeOK

\* An edit that gets past its last check is that of an entitled caller.
LEMMA PassedChecks ==
  ASSUME Entitlement, NEW q \in EditRequests, RequireEditAccess(q) \/ RequireInvited(q), stage'[q] = "write",
         stage \in [EditRequests -> StageLabels]
  PROVE  q \in entitled
<1>1. Under(q)
  BY DEF RequireEditAccess, RequireInvited, Under
<1>2. MayEdit(Caller(q))
  BY DEF RequireEditAccess, RequireInvited, Check, Advance, MayEdit, Accessible, Entitlement
<1> QED BY <1>1, <1>2 DEF Entitlement

LEMMA EntitlementNext == ScreenTypes /\ Entitlement /\ [ScreensNext]_playlistVars => Entitlement'
<1> SUFFICES ASSUME ScreenTypes, Entitlement, [ScreensNext]_playlistVars PROVE Entitlement'
  OBVIOUS
<1>t. /\ stage \in [EditRequests -> StageLabels] /\ screen \in [EditRequests -> Screens \cup {None}]
      /\ EditsOK'
  BY ScreenTypesNext DEF ScreenTypes, EditsOK
<1>1. CASE UNCHANGED <<playlist, invited, stage, screen, entitled>>
  BY <1>1 DEF Entitlement, Under, MayEdit, Accessible, Caller
<1>2. ASSUME NEW q \in EditRequests, NEW a \in StageLabels, Under(q), stage' = [stage EXCEPT ![q] = a],
             UNCHANGED <<playlist, invited, screen, entitled>>,
             a \in {"write", "publish"} => q \in entitled
      PROVE  Entitlement'
  BY <1>2, <1>t DEF Entitlement, Under, MayEdit, Accessible, Caller
<1>3. ASSUME NEW q \in EditRequests, RequireEditAccess(q) \/ RequireInvited(q) PROVE Entitlement'
  <2>1. PICK a \in {"failed", "write", "invitation", "denied"} : Check(q, a)
    BY <1>3 DEF RequireEditAccess, RequireInvited
  <2>2. stage'[q] = a /\ Under(q)
    BY <1>3, <2>1, <1>t DEF Check, Advance, RequireEditAccess, RequireInvited, Under
  <2>3. a = "write" => q \in entitled
    BY <1>3, <2>2, <1>t, PassedChecks
  <2> QED BY <1>2, <2>1, <2>2, <2>3 DEF Check, Advance, accessVars, StageLabels
<1>4. ASSUME NEW q \in EditRequests, Write(q) PROVE Entitlement'
  <2>1. Under(q) /\ q \in entitled /\ UNCHANGED <<playlist, invited, screen, entitled>>
    BY <1>4 DEF Write, Under, Entitlement
  <2> QED BY <1>2, <1>4, <2>1, WriteIs DEF StageLabels
<1>5. ASSUME NEW q \in EditRequests, InternalError(q) \/ Publish(q) PROVE Entitlement'
  BY <1>2, <1>5 DEF InternalError, Publish, Under, accessVars, StageLabels, Advance
<1>6. ASSUME NEW q \in EditRequests, Confirm(q) \/ Refuse(q) PROVE Entitlement'
  <2>1. Finished(q)
    BY <1>6 DEF Confirm, Refuse
  <2>2. /\ stage' = [stage EXCEPT ![q] = "done"] /\ screen' = [screen EXCEPT ![q] = None]
        /\ entitled' = entitled \ {q} /\ UNCHANGED <<playlist, invited>>
    BY <2>1 DEF Finished, Advance, accessVars
  <2>3. \A r \in EditRequests : r # q => stage'[r] = stage[r] /\ screen'[r] = screen[r]
    BY <2>2, <1>t
  <2>4. stage'[q] = "done"
    BY <2>2, <1>t
  <2> QED BY <2>2, <2>3, <2>4 DEF Entitlement, Under, MayEdit, Accessible, Caller
<1>7. ASSUME NoteEntitled, playlist' = None => invited' = {},
             \A q \in EditRequests : stage'[q] \in {"write", "publish"} => stage'[q] = stage[q]
      PROVE  Entitlement'
  <2>1. \A q \in EditRequests : Under(q)' => screen'[q] # None
    BY <1>t, ScreensAssumption DEF EditsOK
  <2> QED BY <1>7, <2>1 DEF Entitlement, NoteEntitled
<1>8. ASSUME NEW q \in EditRequests, NEW s \in Screens, NEW e \in Edits, BeginEdit(q, s, e) PROVE Entitlement'
  <2>1. NoteEntitled /\ stage' = [stage EXCEPT ![q] = "access"] /\ UNCHANGED <<playlist, invited>>
    BY <1>8 DEF BeginEdit, Advance, accessVars
  <2> QED BY <1>7, <1>t, <2>1 DEF Entitlement
<1>9. CASE UpdatePlaylist \/ DeletePlaylist \/ \E u \in Users : Invite(u)
  <2>1. NoteEntitled /\ UNCHANGED stage
    BY <1>9 DEF UpdatePlaylist, DeletePlaylist, Invite, Administer, editVars
  <2>2. playlist' = None => invited' = {}
    BY <1>9, ScreensAssumption DEF UpdatePlaylist, DeletePlaylist, Invite
  <2> QED BY <1>7, <2>1, <2>2
<1>10. CASE UNCHANGED playlistVars
  BY <1>1, <1>10 DEF playlistVars, accessVars, editVars
<1>11. CASE ScreensNext
  BY <1>1, <1>11, <1>3, <1>4, <1>5, <1>6, <1>8, <1>9
  DEF ScreensNext, Handle, Open, Loading, LoadAccess, LoadTracks, LoadInvited, LoadDone, Join, Leave, Deliver,
      accessVars, editVars
<1> QED BY <1>10, <1>11

\* Every variable of the screens keeps its type: no list, on a screen, in an answer or
\* in the database, has a track twice.
THEOREM ScreensTypeCorrect == ScreensSpec => []ScreensTypeOK
<1>1. ScreensInit => ScreenTypes
  BY TypesBegin
<1>2. ScreenTypes /\ [ScreensNext]_playlistVars => ScreenTypes'
  BY ScreenTypesNext
<1> QED BY <1>1, <1>2, TypesHold, PTL DEF ScreensSpec

\* An edit takes effect only if its caller could edit the playlist at some moment while
\* it was under way, however visibility, licence and invitations change between checks.
THEOREM PermittedEdits == ScreensSpec => EditsPermitted
<1>1. ScreensInit => ScreenTypes /\ Entitlement
  BY TypesBegin
<1>2. ScreenTypes /\ Entitlement /\ [ScreensNext]_playlistVars => (ScreenTypes /\ Entitlement)'
  BY ScreenTypesNext, EntitlementNext
<1>3. ScreenTypes /\ Entitlement /\ [ScreensNext]_playlistVars =>
        [\A q \in EditRequests : stage'[q] = "publish" => q \in entitled]_playlistVars
  <2> SUFFICES ASSUME ScreenTypes, Entitlement, ScreensNext, NEW q \in EditRequests, stage'[q] = "publish"
               PROVE  q \in entitled
    OBVIOUS
  <2>1. stage \in [EditRequests -> StageLabels]
    BY DEF ScreenTypes, EditsOK
  <2>2. stage[q] \in {"write", "publish"}
    BY <2>1
    DEF ScreensNext, Handle, RequireEditAccess, RequireInvited, Check, Write, InternalError, Publish, Confirm, Refuse, Finished,
        Advance, BeginEdit, Open, Loading, LoadAccess, LoadTracks, LoadInvited, LoadDone, Join, Leave, Deliver,
        UpdatePlaylist, DeletePlaylist, Invite, Administer, editVars
  <2> QED BY <2>2 DEF Entitlement
<1> QED BY <1>1, <1>2, <1>3, PTL DEF ScreensSpec, EditsPermitted
-----------------------------------------------------------------------------
LEMMA AloneNext ==
  ASSUME ScreenTypes, ScreensNext, ~overlapped', Alone
  PROVE  Alone'
<1>t. /\ stage \in [EditRequests -> StageLabels] /\ inbox \in [Screens -> Seq(Edits)]
      /\ load \in [Screens -> {"none", "access", "tracks", "invitation", "answer"}]
  BY DEF ScreenTypes, EditsOK, RoomOK, LoadsOK
<1>1. CASE UNCHANGED <<stage, load, inbox>>
  BY <1>1 DEF Alone, Under
<1>2. ASSUME NEW q \in EditRequests, NEW a \in StageLabels, Under(q), stage[q] # "ok",
             stage' = [stage EXCEPT ![q] = a], UNCHANGED <<load, inbox>>
      PROVE  Alone'
  BY <1>2, <1>t DEF Alone, Under
<1>3. ASSUME NEW q \in EditRequests, RequireEditAccess(q) \/ RequireInvited(q) \/ InternalError(q)
      PROVE  Alone'
  BY <1>2, <1>3
  DEF RequireEditAccess, RequireInvited, InternalError, Check, Advance, Under, roomVars, screenVars, StageLabels
<1>4. ASSUME NEW q \in EditRequests, Write(q) PROVE Alone'
  BY <1>2, <1>4, WriteIs DEF Write, Under, roomVars, screenVars, StageLabels
<1>5. ASSUME NEW q \in EditRequests, Refuse(q) PROVE Alone'
  BY <1>2, <1>5 DEF Refuse, Finished, Advance, Under, roomVars, StageLabels
<1>6. ASSUME NEW q \in EditRequests, Publish(q) PROVE Alone'
  <2>1. /\ stage[q] = "publish" /\ stage' = [stage EXCEPT ![q] = "ok"] /\ UNCHANGED load
        /\ inbox' = [s \in Screens |-> IF s \in room THEN Append(inbox[s], edit[q]) ELSE inbox[s]]
    BY <1>6 DEF Publish, Advance, screenVars
  <2>2. Under(q) /\ edit[q] \in Edits /\ \A s \in Screens : load[s] = "none" /\ inbox[s] = <<>>
    BY <2>1 DEF Alone, Under, ScreenTypes, EditsOK
  <2>3. \A s \in Screens : Len(inbox'[s]) <= 1
    BY <2>1, <2>2
  <2> QED BY <1>t, <2>1, <2>2, <2>3 DEF Alone, Under
<1>7. ASSUME NEW q \in EditRequests, Confirm(q) PROVE Alone'
  <2>1. stage[q] = "ok" /\ stage' = [stage EXCEPT ![q] = "done"] /\ UNCHANGED <<load, inbox>>
    BY <1>7 DEF Confirm, Finished, Advance, roomVars
  <2> QED BY <1>t, <2>1 DEF Alone, Under
<1>8. ASSUME NEW q \in EditRequests, NEW s \in Screens, NEW e \in Edits, BeginEdit(q, s, e) PROVE Alone'
  <2>1. Quiet /\ stage' = [stage EXCEPT ![q] = "access"] /\ UNCHANGED <<load, inbox>>
    BY <1>8 DEF BeginEdit, Beginning, Advance, roomVars, ScreenTypes, HistoryOK
  <2> QED BY <1>t, <2>1 DEF Alone, Under, Quiet
<1>9. ASSUME NEW s \in Screens, Open(s) PROVE Alone'
  <2>1. Quiet /\ load' = [load EXCEPT ![s] = "access"] /\ UNCHANGED <<stage, inbox>>
    BY <1>9 DEF Open, Beginning, editVars, roomVars, ScreenTypes, HistoryOK
  <2> QED BY <1>t, <2>1 DEF Alone, Under, Quiet
<1>10. ASSUME NEW s \in Screens, LoadAccess(s) \/ LoadTracks(s) \/ LoadInvited(s) \/ LoadDone(s) PROVE Alone'
  <2>1. PICK to : /\ load[s] # "none" /\ load' = [load EXCEPT ![s] = to] /\ UNCHANGED <<stage, inbox>>
    BY <1>10 DEF LoadAccess, LoadTracks, LoadInvited, LoadDone, Loading, editVars, roomVars
  <2> QED BY <1>t, <2>1 DEF Alone, Under
<1>11. ASSUME NEW s \in Screens, Leave(s) PROVE Alone'
  <2>1. inbox' = [inbox EXCEPT ![s] = <<>>] /\ UNCHANGED <<stage, load>>
    BY <1>11 DEF Leave, editVars, screenVars
  <2> QED BY <1>t, <2>1 DEF Alone, Under
<1>12. ASSUME NEW s \in Screens, Deliver(s) PROVE Alone'
  <2>1. inbox[s] # <<>> /\ inbox' = [inbox EXCEPT ![s] = Tail(inbox[s])] /\ UNCHANGED <<stage, load>>
    BY <1>12 DEF Deliver, editVars
  <2>2. inbox'[s] = Tail(inbox[s]) /\ Len(inbox'[s]) <= 1
    BY <1>t, <2>1 DEF Alone
  <2> QED BY <1>t, <2>1, <2>2 DEF Alone, Under
<1> QED
  BY <1>1, <1>3, <1>4, <1>5, <1>6, <1>7, <1>8, <1>9, <1>10, <1>11, <1>12
  DEF ScreensNext, Handle, Join, UpdatePlaylist, DeletePlaylist, Invite, Administer,
      editVars, roomVars, screenVars

LEMMA AgreementNext ==
  ASSUME ScreenTypes, ScreensNext, ~overlapped', playlist' # None, Alone, Agreement
  PROVE  Agreement'
<1>t. /\ stage \in [EditRequests -> StageLabels] /\ inbox \in [Screens -> Seq(Edits)]
      /\ load \in [Screens -> {"none", "access", "tracks", "invitation", "answer"}]
      /\ shown \in [Screens -> Lists \cup {None}] /\ list \in Lists
      /\ fetched \in [Screens -> Replies \cup {None}]
  BY DEF ScreenTypes, EditsOK, RoomOK, LoadsOK, AccessOK
<1>e. \A q \in EditRequests : Under(q) => screen[q] \in Screens /\ edit[q] \in Edits
  BY DEF ScreenTypes, EditsOK
<1>1. CASE UNCHANGED <<list, stage, screen, edit, before, inbox, load, fetched, shown, missed>>
  BY <1>1 DEF Agreement, Early, Showing
<1>2. ASSUME NEW q \in EditRequests, Early(q), NEW a \in {"write", "invitation", "failed", "denied"},
             stage' = [stage EXCEPT ![q] = a],
             UNCHANGED <<list, screen, edit, before, inbox, load, fetched, shown, missed>>
      PROVE  Agreement'
  <2>1. \A r \in EditRequests : Under(r) => r = q
    BY <1>2 DEF Alone, Under, Early
  <2> QED BY <1>2, <1>t, <2>1 DEF Agreement, Early, Showing, Under
<1>3. ASSUME NEW q \in EditRequests, RequireEditAccess(q) \/ RequireInvited(q) PROVE Agreement'
  <2>1. PICK a \in {"write", "invitation", "failed", "denied"} : Check(q, a)
    BY <1>3 DEF RequireEditAccess, RequireInvited
  <2>2. Early(q)
    BY <1>3 DEF RequireEditAccess, RequireInvited, Early
  <2> QED BY <1>2, <2>1, <2>2 DEF Check, Advance, accessVars, roomVars, screenVars
<1>4. ASSUME NEW q \in EditRequests, Write(q) PROVE Agreement'
  <2>1. Early(q) /\ UNCHANGED <<screen, edit, before, inbox, load, fetched, shown, missed>>
    BY <1>4 DEF Write, Early, roomVars, screenVars
  <2>2. CASE stage' = [stage EXCEPT ![q] = "failed"] /\ UNCHANGED list
    BY <1>2, <2>1, <2>2
  <2>3. CASE stage' = [stage EXCEPT ![q] = "publish"] /\ list' = Applied(list, edit[q])
    <3>1. /\ edit[q] \in Edits /\ \A r \in EditRequests : Under(r) => r = q
          /\ \A s \in Screens : load[s] = "none"
      BY <1>e, <2>1 DEF Alone, Under, Early
    <3>2. \A s \in Screens : Showing(s) => Applied(shown[s], edit[q]) = list'
      <4>1. Applied(Applied(list, edit[q]), edit[q]) = Applied(list, edit[q])
        BY <1>t, <3>1, AppliedAgain
      <4>2. ASSUME NEW s \in Screens, Showing(s) PROVE shown[s] \in {list, Applied(list, edit[q])}
        BY <2>1, <4>2 DEF Agreement
      <4> QED BY <2>3, <4>1, <4>2
    <3>3. stage'[q] = "publish" /\ \A r \in EditRequests : r # q => stage'[r] \in {"idle", "done"}
      BY <1>t, <2>3, <3>1 DEF Under
    <3> QED BY <2>1, <3>1, <3>2, <3>3 DEF Agreement, Early, Showing
  <2> QED BY <1>4, <2>2, <2>3, WriteIs
<1>5. ASSUME NEW q \in EditRequests, Publish(q) PROVE Agreement'
  <2>1. /\ stage[q] = "publish" /\ stage' = [stage EXCEPT ![q] = "ok"]
        /\ UNCHANGED <<list, screen, edit, before, load, fetched, shown>>
        /\ inbox' = [s \in Screens |-> IF s \in room THEN Append(inbox[s], edit[q]) ELSE inbox[s]]
        /\ missed' = missed \cup (Screens \ room)
    BY <1>5 DEF Publish, Advance, screenVars, accessVars
  <2>2. /\ \A r \in EditRequests : Under(r) => r = q
        /\ \A s \in Screens : load[s] = "none" /\ inbox[s] = <<>>
        /\ edit[q] \in Edits
    BY <1>e, <2>1 DEF Alone, Under
  <2>3. ASSUME NEW s \in Screens, Showing(s)'
        PROVE  Showing(s) /\ inbox'[s] = <<edit[q]>>
    <3>1. Showing(s) /\ s \in room
      BY <2>1, <2>3 DEF Showing
    <3>2. inbox'[s] = Append(<<>>, edit[q])
      BY <2>1, <2>2, <3>1
    <3> QED BY <3>1, <3>2
  <2>4. \A s \in Screens : Showing(s)' => inbox'[s] # <<>> /\ Applied(shown[s], Head(inbox'[s])) = list
    BY <2>1, <2>2, <2>3 DEF Agreement
  <2>5. \A r \in EditRequests : stage'[r] \in {"idle", "ok", "done"}
    BY <1>t, <2>1, <2>2 DEF Under
  <2> QED BY <2>1, <2>2, <2>4, <2>5 DEF Agreement, Early
<1>6. ASSUME NEW q \in EditRequests, Confirm(q) \/ Refuse(q) PROVE Agreement'
  <2>1. stage' = [stage EXCEPT ![q] = "done"] /\ UNCHANGED <<list, inbox, load, fetched>> /\ Under(q)
    BY <1>6 DEF Confirm, Refuse, Finished, Advance, accessVars, roomVars, Under
  <2>2. /\ \A r \in EditRequests : Under(r) => r = q
        /\ \A s \in Screens : load[s] = "none"
        /\ edit[q] \in Edits /\ screen[q] \in Screens
    BY <1>e, <2>1 DEF Alone
  <2>3. \A r \in EditRequests : stage'[r] \in {"idle", "done"}
    BY <1>t, <2>1, <2>2 DEF Under
  <2>4. ASSUME NEW s \in Screens, Showing(s)'
        PROVE  IF inbox[s] = <<>> THEN shown'[s] = list ELSE Applied(shown'[s], Head(inbox[s])) = list
    <3>1. CASE Confirm(q)
      <4>1. \A r \in EditRequests : stage[r] \in {"idle", "ok", "done"}
        BY <1>t, <2>2, <3>1 DEF Confirm, Under
      <4>2. Showing(s) /\ shown'[s] = shown[s]
        BY <1>t, <2>2, <2>4, <3>1 DEF Confirm, Revert, Showing
      <4> QED BY <4>1, <4>2 DEF Agreement
    <3>2. CASE Refuse(q)
      <4>1. Early(q) /\ Revert(q) /\ UNCHANGED missed /\ stage[q] # "ok"
        BY <3>2 DEF Refuse, Early
      <4>2. inbox[s] = <<>>
        BY <2>1, <4>1 DEF Alone
      <4>3. CASE s = screen[q] /\ edit[q].op # "add"
        BY <1>t, <2>4, <4>1, <4>2, <4>3 DEF Revert, Showing, Agreement
      <4>4. CASE ~(s = screen[q] /\ edit[q].op # "add")
        <5>1. shown'[s] = shown[s] /\ Showing(s)
          BY <1>t, <2>2, <2>4, <4>1, <4>4 DEF Revert, Showing
        <5> QED BY <4>1, <4>2, <4>4, <5>1 DEF Agreement
      <4> QED BY <4>3, <4>4
    <3> QED BY <1>6, <3>1, <3>2
  <2> QED BY <2>1, <2>2, <2>3, <2>4 DEF Agreement, Early
<1>7. ASSUME NEW q \in EditRequests, NEW s \in Screens, NEW e \in Edits, BeginEdit(q, s, e) PROVE Agreement'
  <2>1. /\ Quiet /\ stage' = [stage EXCEPT ![q] = "access"]
        /\ screen' = [screen EXCEPT ![q] = s] /\ edit' = [edit EXCEPT ![q] = e]
        /\ UNCHANGED <<list, inbox, load, fetched, missed>>
        /\ IF e.op = "add" THEN UNCHANGED <<before, shown>>
           ELSE /\ before' = [before EXCEPT ![q] = shown[s]]
                /\ shown' = [shown EXCEPT ![s] = Applied(shown[s], e)]
    BY <1>7 DEF BeginEdit, Beginning, Advance, accessVars, roomVars, ScreenTypes, HistoryOK
  <2>2. shown[s] # None
    BY <1>7 DEF BeginEdit, ScreenTypes, LoadsOK
  <2>3. \A t \in Screens : Showing(t) => shown[t] = list
    BY <2>1 DEF Quiet, Agreement
  <2>4. screen'[q] = s /\ edit'[q] = e /\ (e.op # "add" => before'[q] = shown[s])
    BY <2>1 DEF ScreenTypes, EditsOK
  <2>5. ASSUME NEW t \in Screens, Showing(t)'
        PROVE  shown'[t] = IF t = s /\ e.op # "add" THEN Applied(list, e) ELSE list
    BY <1>t, <2>1, <2>2, <2>3, <2>5 DEF Showing
  <2>6. s \notin missed /\ e.op # "add" => before'[q] = list
    BY <2>2, <2>3, <2>4 DEF Showing
  <2>7. stage'[q] = "access" /\ \A r \in EditRequests : r # q => stage'[r] \in {"idle", "done"}
    BY <1>t, <2>1 DEF Quiet
  <2>8. \A t \in Screens : load[t] = "none"
    BY <2>1 DEF Quiet
  <2> QED BY <2>1, <2>4, <2>5, <2>6, <2>7, <2>8 DEF Agreement, Early
<1>8. ASSUME NEW s \in Screens, Open(s) PROVE Agreement'
  <2>1. /\ load' = [load EXCEPT ![s] = "access"]
        /\ UNCHANGED <<list, stage, screen, edit, before, inbox, fetched, shown, missed>>
    BY <1>8 DEF Open, accessVars, editVars, roomVars
  <2> QED BY <1>t, <2>1 DEF Agreement, Early, Showing
<1>9. ASSUME NEW s \in Screens, LoadAccess(s) \/ LoadTracks(s) \/ LoadInvited(s) PROVE Agreement'
  <2>1. /\ load[s] # "none" /\ UNCHANGED <<list, stage, screen, edit, before, inbox, shown, missed>>
        /\ \E to, reply : load' = [load EXCEPT ![s] = to] /\ fetched' = [fetched EXCEPT ![s] = reply]
    BY <1>9 DEF LoadAccess, LoadTracks, LoadInvited, Loading, accessVars, editVars, roomVars
  <2>2. \A t \in Screens : t # s => load'[t] = "none"
    BY <1>t, <2>1 DEF Alone
  <2>3. load'[s] \in {"invitation", "answer"} => fetched'[s].tracks = list
    <3>1. CASE LoadAccess(s)
      BY <1>t, <3>1 DEF LoadAccess, Loading
    <3>2. CASE LoadTracks(s) \/ LoadInvited(s)
      <4>1. fetched[s] \in Replies
        BY <3>2 DEF LoadTracks, LoadInvited, Loading, ScreenTypes, LoadsOK
      <4>2. /\ [fetched[s] EXCEPT !.tracks = list].tracks = list
            /\ [fetched[s] EXCEPT !.open = @ \/ Viewer[s] \in invited].tracks = fetched[s].tracks
        BY <4>1 DEF Replies
      <4> QED BY <1>t, <3>2, <4>2 DEF LoadTracks, LoadInvited, Loading, Agreement
    <3> QED BY <1>9, <3>1, <3>2
  <2> QED BY <2>1, <2>2, <2>3 DEF Agreement, Early, Showing
<1>10. ASSUME NEW s \in Screens, LoadDone(s) PROVE Agreement'
  <2>1. /\ load[s] = "answer" /\ load' = [load EXCEPT ![s] = "none"]
        /\ shown' = [shown EXCEPT ![s] = fetched[s].tracks] /\ missed' = missed \ {s}
        /\ UNCHANGED <<list, stage, screen, edit, before, inbox>>
    BY <1>10 DEF LoadDone, accessVars, editVars, roomVars
  <2>2. /\ \A q \in EditRequests : stage[q] \in {"idle", "done"}
        /\ \A t \in Screens : load'[t] = "none" /\ inbox[t] = <<>>
    BY <1>t, <2>1 DEF Alone, Under
  <2>3. shown'[s] = list
    BY <1>t, <2>1 DEF Agreement
  <2>4. \A t \in Screens : t # s => shown'[t] = shown[t] /\ (Showing(t)' => Showing(t))
    BY <1>t, <2>1 DEF Showing
  <2>5. \A t \in Screens : Showing(t)' => shown'[t] = list
    BY <2>2, <2>3, <2>4 DEF Agreement
  <2> QED BY <2>1, <2>2, <2>5 DEF Agreement, Early
<1>11. ASSUME NEW s \in Screens, Leave(s) PROVE Agreement'
  <2>1. /\ inbox' = [inbox EXCEPT ![s] = <<>>]
        /\ missed' = IF inbox[s] = <<>> THEN missed ELSE missed \cup {s}
        /\ UNCHANGED <<list, stage, screen, edit, before, load, fetched, shown>>
    BY <1>11 DEF Leave, accessVars, editVars, screenVars
  <2>2. missed \subseteq missed' /\ \A t \in Screens : Showing(t)' => Showing(t) /\ inbox'[t] = inbox[t]
    BY <1>t, <2>1 DEF Showing
  <2> QED BY <2>1, <2>2 DEF Agreement, Early
<1>12. ASSUME NEW s \in Screens, Deliver(s) PROVE Agreement'
  <2>1. /\ inbox[s] # <<>> /\ inbox' = [inbox EXCEPT ![s] = Tail(inbox[s])]
        /\ shown' = IF shown[s] = None THEN shown
                    ELSE [shown EXCEPT ![s] = Applied(shown[s], Head(inbox[s]))]
        /\ UNCHANGED <<list, stage, screen, edit, before, load, fetched, missed>>
    BY <1>12 DEF Deliver, accessVars, editVars
  <2>2. /\ \A q \in EditRequests : stage[q] \in {"idle", "ok", "done"}
        /\ \A t \in Screens : load[t] = "none"
    BY <1>t, <2>1 DEF Alone, Under
  <2>3. inbox'[s] = <<>>
    BY <1>t, <2>1 DEF Alone
  <2>4. Showing(s)' => shown'[s] = list
    BY <1>t, <2>1, <2>2 DEF Agreement, Showing
  <2>5. \A t \in Screens : t # s => shown'[t] = shown[t] /\ inbox'[t] = inbox[t] /\ (Showing(t)' => Showing(t))
    BY <1>t, <2>1 DEF Showing
  <2> QED BY <2>1, <2>2, <2>3, <2>4, <2>5 DEF Agreement, Early
<1>13. ASSUME NEW q \in EditRequests, InternalError(q) PROVE Agreement'
  <2>1. /\ stage' = [stage EXCEPT ![q] = "failed"] /\ Under(q)
        /\ UNCHANGED <<list, screen, edit, before, inbox, load, fetched, shown>>
    BY <1>13 DEF InternalError, Advance, Under, accessVars, roomVars, screenVars
  <2>2. CASE Early(q) /\ UNCHANGED missed
    BY <1>2, <2>1, <2>2
  <2>3. CASE missed' = Screens
    <3>1. \A s \in Screens : ~Showing(s)'
      BY <2>3 DEF Showing
    <3>2. \A r \in EditRequests : Under(r) => screen'[r] \in missed'
      BY <1>e, <2>1, <2>3
    <3>3. \A r \in EditRequests : Early(r)' => Under(r)
      BY <1>t, <2>1 DEF Early, Under
    <3> QED BY <2>1, <3>1, <3>2, <3>3 DEF Agreement
  <2> QED BY <1>13, <2>2, <2>3 DEF InternalError, Early
<1> QED
  BY <1>1, <1>3, <1>4, <1>5, <1>6, <1>7, <1>8, <1>9, <1>10, <1>11, <1>12, <1>13
  DEF ScreensNext, Handle, Join, UpdatePlaylist, DeletePlaylist, Invite, Administer,
      accessVars, editVars, roomVars, screenVars

LEMMA AgreeNext == ScreenTypes /\ AgreeInv /\ [ScreensNext]_playlistVars => AgreeInv'
<1> SUFFICES ASSUME ScreenTypes, AgreeInv, [ScreensNext]_playlistVars, ~overlapped'
             PROVE  Alone' /\ (playlist' # None => Agreement')
  BY DEF AgreeInv
<1>1. CASE UNCHANGED playlistVars
  BY <1>1
  DEF AgreeInv, Alone, Agreement, Under, Early, Showing, playlistVars, accessVars, editVars, roomVars, screenVars
<1>2. CASE ScreensNext
  <2>1. ~overlapped
    BY <1>2
    DEF ScreensNext, Handle, RequireEditAccess, RequireInvited, Check, Write, InternalError, Publish, Confirm, Refuse, Finished,
        BeginEdit, Beginning, Open, Loading, LoadAccess, LoadTracks, LoadInvited, LoadDone, Join, Leave, Deliver,
        UpdatePlaylist, DeletePlaylist, Invite, Administer
  <2>2. playlist' # None => playlist # None
    BY <1>2
    DEF ScreensNext, Handle, RequireEditAccess, RequireInvited, Check, Write, InternalError, Publish, Confirm, Refuse, Finished,
        BeginEdit, Open, Loading, LoadAccess, LoadTracks, LoadInvited, LoadDone, Join, Leave, Deliver,
        UpdatePlaylist, DeletePlaylist, Invite, accessVars
  <2> QED BY <1>2, <2>1, <2>2, AloneNext, AgreementNext DEF AgreeInv
<1> QED BY <1>1, <1>2

\* Unless edits, loads or connections have overlapped, a screen that has missed no edit
\* shows the list once all events have arrived, after reverted edits too.
THEOREM ScreensEndWithList == ScreensSpec => []ScreensAgree
<1>1. ScreensInit => ScreenTypes /\ AgreeInv
  BY TypesBegin
<1>2. ScreenTypes /\ AgreeInv /\ [ScreensNext]_playlistVars => (ScreenTypes /\ AgreeInv)'
  BY ScreenTypesNext, AgreeNext
<1>3. AgreeInv => ScreensAgree
  BY DEF AgreeInv, ScreensAgree, Agreement, Quiet, Showing
<1> QED BY <1>1, <1>2, <1>3, PTL DEF ScreensSpec

=============================================================================
