--------------------------- MODULE PlaylistTracks ---------------------------
(***************************************************************************)
(* The tracks of one playlist: AddTrack, RemoveTrack and MoveTrack of      *)
(* server/internal/repository/playlist.go, each the SQL it sends, run by   *)
(* concurrent requests whose access check has passed.                      *)
(*                                                                         *)
(* PostgreSQL is modelled as far as these statements depend on it.  Rows   *)
(* have a committed version (pos) and uncommitted versions (write), which  *)
(* lock them.  AddTrack is one READ COMMITTED statement, RemoveTrack a     *)
(* READ COMMITTED transaction: a statement computes what it writes from a  *)
(* snapshot and, once the rows are unlocked, writes what it computed to    *)
(* those that still exist.  MoveTrack is a SERIALIZABLE transaction: one   *)
(* snapshot for all its statements, and it fails if a row it writes was    *)
(* changed since, or if another MoveTrack of the playlist wrote and        *)
(* committed since (each has read every row of the playlist with COUNT).   *)
(***************************************************************************)
EXTENDS Integers, FiniteSets, Functions

CONSTANTS
  Rows,       \* ids of playlist_tracks rows, each generated at most once
  InitRows,   \* the rows the playlist starts with
  Song,       \* Song[r]: the external_id of the track in row r
  Adders,     \* requests that may call AddTrack
  Removers,   \* requests that may call RemoveTrack
  Movers,     \* requests that may call MoveTrack
  Nil         \* "no row"

Requests == Adders \cup Removers \cup Movers

ASSUME PlaylistAssumption ==
  /\ IsFiniteSet(Rows) /\ InitRows \subseteq Rows /\ Nil \notin Rows
  /\ \A r, s \in InitRows : Song[r] = Song[s] => r = s

VARIABLES
  pos,       \* committed playlist_tracks.position of a row; 0: no such row
  spent,     \* row ids generated so far
  raced,     \* history: an addition has inserted a position that was not the last
             \* any more, or while a removal had already numbered the rows
  pc,        \* the statement a request is about to run
  row,       \* the row a request is about
  target,    \* AddTrack: MAX(position) + 1 as read; MoveTrack: newPos
  write,     \* the uncommitted versions of a request: partial function on Rows
  todo,      \* what a whole-table UPDATE has computed and not yet written
  snap,      \* the snapshot of MoveTrack
  changed,   \* rows that others have committed since that snapshot
  overtaken, \* another MoveTrack has written and committed since; for a removal,
             \* history: since it numbered the rows
  outcome    \* the result of the request

dbVars == <<pos, spent, raced>>
txVars == <<write, todo, snap, changed, overtaken>>
reqVars == <<pc, row, target, outcome>>
vars == <<dbVars, txVars, reqVars>>

Live == {r \in Rows : pos[r] > 0}
Positions == 0..(Cardinality(Rows) + 1)
NoWrite == [r \in {} |-> 0]
Versions == UNION {[S -> Positions] : S \in SUBSET Rows}

TypeOK ==
  /\ pos \in [Rows -> Positions]
  /\ spent \in SUBSET Rows
  /\ raced \in BOOLEAN
  /\ pc \in [Requests -> {"idle", "insert", "recompact", "recompacting", "removed",
                          "shift", "place", "moved", "done"}]
  /\ row \in [Requests -> Rows \cup {Nil}]
  /\ target \in [Requests -> Positions]
  /\ write \in [Requests -> Versions]
  /\ todo \in [Requests -> Versions]
  /\ snap \in [Requests -> Versions]
  /\ changed \in [Requests -> SUBSET Rows]
  /\ overtaken \in [Requests -> BOOLEAN]
  /\ outcome \in [Requests -> {"none", "ok", "notfound", "duplicate", "outofrange",
                               "conflict", "aborted"}]

\* A playlist built by requests that did not overlap.
Init ==
  /\ \E f \in Bijection(InitRows, 1..Cardinality(InitRows)) :
       pos = [r \in Rows |-> IF r \in InitRows THEN f[r] ELSE 0]
  /\ spent = InitRows
  /\ raced = FALSE
  /\ pc = [t \in Requests |-> "idle"]
  /\ row = [t \in Requests |-> Nil]
  /\ target = [t \in Requests |-> 0]
  /\ write = [t \in Requests |-> NoWrite]
  /\ todo = [t \in Requests |-> NoWrite]
  /\ snap = [t \in Requests |-> NoWrite]
  /\ changed = [t \in Requests |-> {}]
  /\ overtaken = [t \in Requests |-> FALSE]
  /\ outcome = [t \in Requests |-> "none"]

-----------------------------------------------------------------------------
(* PostgreSQL                                                              *)

\* f takes precedence over g where both are defined.
Over(f, g) == [x \in DOMAIN f \cup DOMAIN g |-> IF x \in DOMAIN f THEN f[x] ELSE g[x]]

\* What request t sees of the table now.
View(t) == Over(write[t], pos)

\* Row r has an uncommitted version of a request other than t.
LockedFor(t, r) == \E u \in Requests \ {t} : r \in DOMAIN write[u]

\* A row with the song of r exists, or may still come back if the transaction
\* that deletes it rolls back.
SongTaken(r) == \E s \in Live : Song[s] = Song[r]
SongInDoubt(r) == \E s \in Live, u \in Requests :
                    Song[s] = Song[r] /\ s \in DOMAIN write[u] /\ write[u][s] = 0

\* Mutant: the deferred Rollback is missing.
EndTransactionLeaking(t, done, isMove) ==
  /\ UNCHANGED <<write, todo, snap>>
  /\ changed' = [u \in Requests |-> changed[u] \cup done]
  /\ UNCHANGED overtaken

\* The transaction of t is over: its versions, locks and snapshot are dropped.
\* If it committed, the rows in done have new versions for the snapshots of
\* the open moves; if it was a move, it has overtaken them, and the removals
\* that have numbered the rows.
EndTransaction(t, done, isMove) ==
  LET Open(u) == pc[u] \in {"shift", "place", "moved"}
      Numbered(u) == pc[u] \in {"recompacting", "removed"}
  IN
  /\ write' = [write EXCEPT ![t] = NoWrite]
  /\ todo' = [todo EXCEPT ![t] = NoWrite]
  /\ snap' = [snap EXCEPT ![t] = NoWrite]
  /\ changed' = [u \in Requests |->
                   IF u # t /\ Open(u) THEN changed[u] \cup done ELSE {}]
  /\ overtaken' = [u \in Requests |->
                     /\ u # t /\ (Open(u) \/ Numbered(u))
                     /\ overtaken[u] \/ (isMove /\ done # {})]

Answer(t, result) ==
  /\ pc' = [pc EXCEPT ![t] = "done"]
  /\ outcome' = [outcome EXCEPT ![t] = result]

\* COMMIT: the versions of t become the committed ones.
Commit(t, isMove) ==
  /\ pos' = View(t)
  /\ EndTransaction(t, DOMAIN write[t], isMove)
  /\ Answer(t, "ok")
  /\ UNCHANGED <<spent, raced, row, target>>

\* ROLLBACK, or a transaction that has written nothing.
Finish(t, result) ==
  /\ EndTransaction(t, {}, FALSE)
  /\ Answer(t, result)
  /\ UNCHANGED <<dbVars, row, target>>

Goto(t, label) == pc' = [pc EXCEPT ![t] = label]

-----------------------------------------------------------------------------
(* AddTrack: INSERT ... position = COALESCE((SELECT MAX(position)), 0) + 1  *)

LastPosition == IF Live = {} THEN 0
                ELSE CHOOSE p \in Range(pos) : \A q \in Range(pos) : q <= p

\* The statement takes its snapshot and evaluates the subquery.
AddRead(t) ==
  /\ t \in Adders /\ pc[t] = "idle"
  /\ \E r \in Rows \ spent :
       /\ row' = [row EXCEPT ![t] = r]
       /\ spent' = spent \cup {r}
  /\ target' = [target EXCEPT ![t] = LastPosition + 1]
  /\ Goto(t, "insert")
  /\ UNCHANGED <<pos, raced, txVars, outcome>>

\* The row is inserted, once no transaction that deletes the same song is
\* open, and the statement commits.
AddInsert(t) ==
  /\ pc[t] = "insert"
  /\ ~SongTaken(row[t])
  /\ pos' = [pos EXCEPT ![row[t]] = target[t]]
  /\ raced' = (raced \/ target[t] # LastPosition + 1
                     \/ \E u \in Removers : pc[u] \in {"recompacting", "removed"})
  /\ Answer(t, "ok")
  /\ UNCHANGED <<spent, row, target, txVars>>

\* UNIQUE (playlist_id, external_id)
AddDuplicate(t) ==
  /\ pc[t] = "insert"
  /\ SongTaken(row[t]) /\ ~SongInDoubt(row[t])
  /\ Finish(t, "duplicate")

-----------------------------------------------------------------------------
(* RemoveTrack: BEGIN; DELETE; UPDATE ... ROW_NUMBER(); COMMIT             *)

RemoveDelete(t, r) ==
  /\ t \in Removers /\ pc[t] = "idle"
  /\ r \in Live /\ ~LockedFor(t, r)
  /\ row' = [row EXCEPT ![t] = r]
  /\ write' = [write EXCEPT ![t] = [x \in {r} |-> 0]]
  /\ Goto(t, "recompact")
  /\ UNCHANGED <<dbVars, target, todo, snap, changed, overtaken, outcome>>

\* RowsAffected() == 0: the client's track id is of a row that has gone.
RemoveNotFound(t, r) ==
  /\ t \in Removers /\ pc[t] = "idle"
  /\ r \in spent \ Live
  /\ Finish(t, "notfound")

\* Mutant: ORDER BY position DESC.
RowNumbersDescending(v) ==
  LET S == {r \in Rows : v[r] > 0} IN
  {n \in Bijection(S, 1..Cardinality(S)) : \A r, s \in S : v[r] > v[s] => n[r] < n[s]}

\* Numberings of the rows of v by ROW_NUMBER() OVER (ORDER BY position); rows
\* with equal positions come in any order.
RowNumbers(v) ==
  LET S == {r \in Rows : v[r] > 0} IN
  {n \in Bijection(S, 1..Cardinality(S)) : \A r, s \in S : v[r] < v[s] => n[r] < n[s]}

\* The UPDATE takes its snapshot and the subquery numbers the rows.
RecompactRead(t) ==
  /\ pc[t] = "recompact"
  /\ \E n \in RowNumbers(View(t)) : todo' = [todo EXCEPT ![t] = n]
  /\ Goto(t, "recompacting")
  /\ UNCHANGED <<dbVars, row, target, outcome, write, snap, changed, overtaken>>

\* It writes every row it numbered that still exists, changed or not.
RecompactWrite(t) ==
  /\ pc[t] = "recompacting"
  /\ \A r \in DOMAIN todo[t] : ~LockedFor(t, r)
  /\ write' = [write EXCEPT ![t] = Over(Restrict(todo[t], DOMAIN todo[t] \cap Live), @)]
  /\ todo' = [todo EXCEPT ![t] = NoWrite]
  /\ Goto(t, "removed")
  /\ UNCHANGED <<dbVars, row, target, outcome, snap, changed, overtaken>>

RemoveCommit(t) ==
  /\ pc[t] = "removed"
  /\ Commit(t, FALSE)

-----------------------------------------------------------------------------
(* MoveTrack: BEGIN ISOLATION LEVEL SERIALIZABLE; SELECT COUNT; SELECT     *)
(* position; UPDATE the rows between; UPDATE the row; COMMIT               *)

\* COUNT fixes the snapshot; count and currentPos come from it.
MoveRead(t, r, p) ==
  /\ t \in Movers /\ pc[t] = "idle"
  /\ r \in spent
  /\ \/ /\ p > Cardinality(Live)
        /\ Finish(t, "outofrange")
     \/ /\ p <= Cardinality(Live) /\ r \notin Live
        /\ Finish(t, "notfound")
     \/ /\ p <= Cardinality(Live) /\ r \in Live /\ pos[r] = p
        /\ Finish(t, "ok")
     \/ /\ p <= Cardinality(Live) /\ r \in Live /\ pos[r] # p
        /\ row' = [row EXCEPT ![t] = r]
        /\ target' = [target EXCEPT ![t] = p]
        /\ snap' = [snap EXCEPT ![t] = pos]
        /\ Goto(t, "shift")
        /\ UNCHANGED <<dbVars, write, todo, changed, overtaken, outcome>>

\* Mutant: position >= newPos only, for a move towards the front.
ShiftedUnbounded(t) ==
  LET cur == snap[t][row[t]]
      new == target[t]
      Between == IF new > cur
                 THEN {r \in Rows : cur < snap[t][r] /\ snap[t][r] <= new}
                 ELSE {r \in Rows : new <= snap[t][r]}
  IN [r \in Between |-> IF new > cur THEN snap[t][r] - 1 ELSE snap[t][r] + 1]

\* Mutant: position <= newPos only: deleted rows get position -1.
ShiftedBelow(t) ==
  LET cur == snap[t][row[t]]
      new == target[t]
      Between == IF new > cur
                 THEN {r \in Rows : snap[t][r] <= new}
                 ELSE {r \in Rows : new <= snap[t][r] /\ snap[t][r] < cur}
  IN [r \in Between |-> IF new > cur THEN snap[t][r] - 1 ELSE snap[t][r] + 1]

\* The rows between currentPos and newPos, with their new positions.
Shifted(t) ==
  LET cur == snap[t][row[t]]
      new == target[t]
      Between == IF new > cur
                 THEN {r \in Rows : cur < snap[t][r] /\ snap[t][r] <= new}
                 ELSE {r \in Rows : new <= snap[t][r] /\ snap[t][r] < cur}
  IN [r \in Between |-> IF new > cur THEN snap[t][r] - 1 ELSE snap[t][r] + 1]

\* A SERIALIZABLE statement writes the versions v once their rows are unlocked,
\* or fails because one of them is not the version of the snapshot any more or
\* because the transactions could not be ordered.
SerializableWrite(t, v, next) ==
  /\ \A r \in DOMAIN v : ~LockedFor(t, r)
  /\ IF DOMAIN v \cap changed[t] = {} /\ ~overtaken[t]
     THEN /\ write' = [write EXCEPT ![t] = Over(v, @)]
          /\ Goto(t, next)
          /\ UNCHANGED <<dbVars, row, target, todo, snap, changed, overtaken, outcome>>
     ELSE Finish(t, "conflict")

MoveShift(t) ==
  /\ pc[t] = "shift"
  /\ SerializableWrite(t, Shifted(t), "place")

MovePlace(t) ==
  /\ pc[t] = "place"
  /\ SerializableWrite(t, [r \in {row[t]} |-> target[t]], "moved")

MoveCommit(t) ==
  /\ pc[t] = "moved"
  /\ IF overtaken[t]
     THEN Finish(t, "conflict")
     ELSE Commit(t, TRUE)

-----------------------------------------------------------------------------
InTransaction(t) ==
  pc[t] \in {"insert", "recompact", "recompacting", "removed", "shift", "place", "moved"}

\* The request's context is cancelled or its connection breaks: deferred Rollback.
Cancel(t) == InTransaction(t) /\ Finish(t, "aborted")

\* The rows the next statement of t has to lock.
Wanted(t) == CASE pc[t] = "recompacting" -> DOMAIN todo[t]
               [] pc[t] = "shift" -> DOMAIN Shifted(t)
               [] pc[t] = "place" -> {row[t]}
               [] OTHER -> {}

WaitsFor(t, u) == t # u /\ Wanted(t) \cap DOMAIN write[u] # {}

\* PostgreSQL aborts one of a set of transactions that wait for each other.
DeadlockVictim(t) ==
  /\ Wanted(t) # {}
  /\ \E S \in SUBSET Requests :
       t \in S /\ \A x \in S : \E y \in S : WaitsFor(x, y)
  /\ Finish(t, "aborted")

\* All requests have been answered.
Answered == (\A t \in Requests : pc[t] \in {"idle", "done"}) /\ UNCHANGED vars

Step(t) ==
  \/ AddInsert(t) \/ AddDuplicate(t)
  \/ RecompactRead(t) \/ RecompactWrite(t) \/ RemoveCommit(t)
  \/ MoveShift(t) \/ MovePlace(t) \/ MoveCommit(t)
  \/ DeadlockVictim(t)

Start(t) ==
  \/ AddRead(t)
  \/ \E r \in Rows : RemoveDelete(t, r) \/ RemoveNotFound(t, r)
  \/ \E r \in Rows, p \in 1..(Cardinality(Rows) + 1) : MoveRead(t, r, p)

Next == (\E t \in Requests : Start(t) \/ Step(t) \/ Cancel(t)) \/ Answered

\* A request that has begun is run to its end; nobody has to make a request or
\* to cancel one.
Spec == Init /\ [][Next]_vars
FairSpec == Spec /\ \A t \in Requests : WF_vars(Step(t))

-----------------------------------------------------------------------------
(* Properties                                                              *)

\* Positions are 1, 2, ..., n: no gap and no duplicate.
Gapless == {pos[r] : r \in Live} = 1..Cardinality(Live)

\* Nothing else than an addition that raced disturbs that, whatever removals and moves
\* do to each other: two additions that have read the same MAX(position) leave a
\* duplicate, an addition and a removal a gap.
GaplessUnlessRaced == raced \/ Gapless

\* Tracks that are there before and after a removal keep their relative order.
Keeps(r, s) == r \in Live /\ s \in Live /\ pos'[r] > 0 /\ pos'[s] > 0 /\ pos[r] < pos[s]
                 => pos'[r] < pos'[s]
RemoveKeepsOrder ==
  [][\A t \in Requests : RemoveCommit(t) => \A r, s \in Rows : Keeps(r, s)]_vars

\* No request waits for ever: deadlocks between removals and moves are broken.
RequestsEnd == \A t \in Requests : InTransaction(t) ~> pc[t] = "done"
=============================================================================
