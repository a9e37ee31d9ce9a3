-------------------------- MODULE EventQueueProofs --------------------------
(***************************************************************************)
(* Proof that a screen never shows phantom votes (NoPhantomVotes), for any *)
(* number of users, tracks and taps.                                       *)
(*                                                                         *)
(* A queue that is on its way to a screen is older than the database, so   *)
(* it has no more votes (it fits).  A screen may be ahead by the one tap   *)
(* of its user that has not been counted yet: the property allows for a    *)
(* tap until its answer, but a vote is counted before; what has to be      *)
(* followed is the tap that is not counted.                                *)
(***************************************************************************)
EXTENDS EventQueue, FiniteSetTheorems, TLAPS

Shown == UNION {[S -> Nat] : S \in SUBSET Tracks}

\* The queues without phantom votes.
Fitting == {x \in Shown : \A t \in queue \cap DOMAIN x : x[t] <= count[t]}

\* A tap of u on t that may still be counted or taken back, but has not been.
Uncounted(u, t) ==
  \E q \in Requests :
    tapped[q] /\ Caller[q] = u /\ track[q] = t /\ pc[q] \in {"posted", "failed"}

Ahead(u, t) == IF Uncounted(u, t) THEN 1 ELSE 0

QueueTypes ==
  /\ queue \subseteq Tracks /\ count \in [Tracks -> Nat]
  /\ pc \in [Requests -> {"idle", "posted", "cast", "fetch", "publish", "answered",
                          "silent", "failed"}]
  /\ track \in [Requests -> Tracks \cup {Nil}]
  /\ tapped \in [Requests -> BOOLEAN]
  /\ view \in [Users -> Shown \cup {Nil}]

\* Whatever has been read from the database is not ahead of it.
OnTheWay ==
  /\ fetched \in [Requests -> Fitting \cup {Nil}]
  /\ \A q \in Requests : pc[q] = "publish" => fetched[q] \in Fitting
  /\ messages \in Seq(Fitting)
  /\ inbox \in [Users -> Seq(Fitting)]
  /\ load \in [Users -> Fitting \cup {Nil, Sent}]

\* One tap per user and track waits for its answer.
OneTap ==
  /\ \A q \in Requests : tapped[q] => track[q] \in Tracks
  /\ \A q, r \in Requests :
       tapped[q] /\ tapped[r] /\ Caller[q] = Caller[r] /\ track[q] = track[r] => q = r

Showing(u) == view[u] # Nil \/ \E q \in Requests : tapped[q] /\ Caller[q] = u

ViewFits(u) ==
  Showing(u) =>
    /\ view[u] \in Shown
    /\ \A t \in queue \cap DOMAIN view[u] : view[u][t] <= count[t] + Ahead(u, t)

QInv == QueueTypes /\ OnTheWay /\ OneTap /\ \A u \in Users : ViewFits(u)

-----------------------------------------------------------------------------
(* The operators                                                           *)

\* The set of all queues does not depend on the state.
LEMMA ShownConstant == Shown' = Shown
  BY DEF Shown

\* A sequence over a set is one over each larger set.
LEMMA SeqGrows == ASSUME NEW A, NEW B, A \subseteq B PROVE Seq(A) \subseteq Seq(B)
  OBVIOUS

\* GetQueue returns a queue without phantom votes.
LEMMA SnapshotFits == QueueTypes => Snapshot \in Fitting
<1> SUFFICES ASSUME QueueTypes PROVE Snapshot \in Fitting
  OBVIOUS
<1>1. Snapshot \in [queue -> Nat]
  BY DEF Snapshot, QueueTypes
<1>2. Snapshot \in Shown
  BY <1>1 DEF Shown, QueueTypes
<1>3. \A t \in queue \cap DOMAIN Snapshot : Snapshot[t] <= count[t]
  BY DEF Snapshot, QueueTypes
<1> QED
  BY <1>2, <1>3 DEF Fitting

\* What the database does while tracks are not suggested: tracks go, votes come.
Counting ==
  /\ queue' \subseteq queue /\ count' \in [Tracks -> Nat]
  /\ \A t \in queue' : count[t] <= count'[t]

\* A queue that was read stays one without phantom votes.
LEMMA FittingGrows == QueueTypes /\ Counting => Fitting \subseteq Fitting'
<1> SUFFICES ASSUME QueueTypes, Counting, NEW x \in Fitting PROVE x \in Fitting'
  OBVIOUS
<1>1. x \in Shown /\ x \in Shown'
  BY DEF Fitting, Shown
<1>2. ASSUME NEW t \in queue' \cap DOMAIN x PROVE x[t] <= count'[t]
  <2>1. t \in queue /\ t \in Tracks
    BY <1>2 DEF Counting, QueueTypes
  <2>2. x[t] <= count[t] /\ count[t] <= count'[t]
    BY <1>2, <2>1 DEF Fitting, Counting
  <2>3. x[t] \in Nat
    BY <1>1, <1>2 DEF Shown
  <2>4. count[t] \in Nat /\ count'[t] \in Nat
    BY <2>1 DEF QueueTypes, Counting
  <2> QED
    BY <2>2, <2>3, <2>4
<1> QED
  BY <1>1, <1>2 DEF Fitting

\* What is on the way stays without phantom votes when nothing is sent.
LEMMA WayKept ==
  ASSUME OnTheWay, Fitting \subseteq Fitting',
         UNCHANGED <<fetched, messages, inbox, load>>,
         \A q \in Requests : pc'[q] = "publish" => pc[q] = "publish"
  PROVE  OnTheWay'
<1>1. Seq(Fitting) \subseteq Seq(Fitting')
  BY SeqGrows
<1> QED
  BY <1>1 DEF OnTheWay

\* A step that touches neither the counts nor the screens nor the taps, and
\* neither posts nor counts one.
Aside ==
  /\ UNCHANGED <<queue, count, track, tapped, view>>
  /\ \A q \in Requests :
       pc'[q] \in {"posted", "failed"} <=> pc[q] \in {"posted", "failed"}

\* Such a step leaves the screens as they are.
LEMMA AsideKeeps ==
  ASSUME QInv, Aside PROVE OneTap' /\ (\A u \in Users : ViewFits(u))'
<1>1. OneTap'
  BY DEF QInv, OneTap, Aside
<1>2. ASSUME NEW u \in Users PROVE ViewFits(u)'
  <2>1. ViewFits(u)
    BY DEF QInv
  <2>2. Showing(u)' => Showing(u)
    BY DEF Showing, Aside
  <2>3. ASSUME NEW t PROVE Ahead(u, t)' = Ahead(u, t)
    BY DEF Ahead, Uncounted, Aside
  <2>4. Shown' = Shown
    BY DEF Shown
  <2> QED
    BY <2>1, <2>2, <2>3, <2>4 DEF ViewFits, Aside
<1> QED
  BY <1>1, <1>2

\* A screen is never behind by a negative number of taps.
LEMMA AheadNat == ASSUME NEW u, NEW t PROVE Ahead(u, t) \in {0, 1}
  BY DEF Ahead

-----------------------------------------------------------------------------
(* The steps                                                               *)

\* The application starts with what the database says.
LEMMA InitQueue == QueueInit => QInv
<1> SUFFICES ASSUME QueueInit PROVE QInv
  OBVIOUS
<1>1. PICK O \in {Users, Users \ Restless} : InitWith(O)
  BY DEF QueueInit
<1> USE <1>1 DEF InitWith
<1>2. Snapshot \in [Tracks -> Nat] /\ Snapshot \in Shown
  <2>1. Snapshot \in [Tracks -> Nat]
    BY DEF Snapshot
  <2> QED
    BY <2>1 DEF Shown
<1>3. QueueTypes
  BY <1>2 DEF QueueTypes
<1>4. OnTheWay
  BY <1>2 DEF OnTheWay
<1>5. OneTap
  BY DEF OneTap
<1>6. ASSUME NEW u \in Users PROVE ViewFits(u)
  <2>1. view[u] # Nil => view[u] = Snapshot
    OBVIOUS
  <2>2. \A t \in queue : Snapshot[t] = 0 /\ count[t] = 0
    BY DEF Snapshot
  <2>3. Showing(u) => view[u] # Nil
    BY DEF Showing
  <2> QED
    BY <1>2, <2>1, <2>2, <2>3, AheadNat DEF ViewFits
<1> QED
  BY <1>3, <1>4, <1>5, <1>6 DEF QInv

\* A vote is counted: its tap is no longer ahead of the database.
LEMMA CastStep ==
  ASSUME QInv, NEW q \in Requests, Vote(q), Cast(track[q], Caller[q]), Goto(q, "cast")
  PROVE  QInv'
<1> DEFINE T == track[q]
<1> USE DEF QInv
<1>1. UNCHANGED <<track, fetched, tapped, messages, inbox, load, view>> /\ queue' = queue
  BY DEF Vote, hubVars, screenVars, Cast
<1>2. T \in Tracks /\ count' = [count EXCEPT ![T] = count[T] + 1]
  BY DEF Cast, QueueTypes
<1>3. pc' = [pc EXCEPT ![q] = "cast"]
  BY DEF Goto
<1>4. \A t \in Tracks : count[t] \in Nat /\ count'[t] = IF t = T THEN count[t] + 1 ELSE count[t]
  BY <1>2 DEF QueueTypes
<1>5. Counting
  BY <1>1, <1>2, <1>4 DEF Counting, QueueTypes
<1>6. QueueTypes'
  BY <1>1, <1>3, <1>5, ShownConstant DEF QueueTypes, Counting
<1>7. OnTheWay'
  BY <1>1, <1>3, <1>5, FittingGrows, WayKept DEF QueueTypes
<1>8. OneTap'
  BY <1>1 DEF OneTap
<1>9. ASSUME NEW u \in Users PROVE ViewFits(u)'
  <2>1. Showing(u)' => Showing(u)
    BY <1>1 DEF Showing
  <2>2. ASSUME NEW t, t # T PROVE Ahead(u, t)' = Ahead(u, t)
    BY <1>1, <1>3, <2>2 DEF Ahead, Uncounted, QueueTypes
  <2>3. ASSUME Showing(u)', NEW t \in queue \cap DOMAIN view[u]
        PROVE  view[u][t] <= count'[t] + Ahead(u, t)'
    <3>1. view[u] \in Shown /\ view[u][t] <= count[t] + Ahead(u, t)
      BY <2>1, <2>3 DEF ViewFits
    <3>2. view[u][t] \in Nat /\ t \in Tracks /\ count[t] \in Nat
      BY <1>4, <2>3, <3>1 DEF Shown, QueueTypes
    <3>3. Ahead(u, t) \in {0, 1} /\ Ahead(u, t)' \in {0, 1}
      BY AheadNat DEF Ahead
    <3>4. CASE t = T
      BY <1>4, <3>1, <3>2, <3>3, <3>4
    <3>5. CASE t # T
      BY <1>4, <2>2, <3>1, <3>2, <3>5
    <3> QED
      BY <3>4, <3>5
  <2>4. Showing(u)' => view'[u] \in Shown'
    BY <1>1, <2>1 DEF ViewFits, Shown
  <2> QED
    BY <1>1, <2>3, <2>4 DEF ViewFits
<1> QED
  BY <1>6, <1>7, <1>8, <1>9

\* The handler of a vote.
LEMMA HandleStep == ASSUME QInv, NEW q \in Requests, Handle(q) PROVE QInv'
<1> USE DEF QInv
<1>1. CASE Vote(q)
  <2>1. CASE Cast(track[q], Caller[q]) /\ Goto(q, "cast")
    BY <1>1, <2>1, CastStep
  <2>2. CASE UNCHANGED tallyVars /\ Goto(q, "failed")
    <3>1. UNCHANGED <<queue, count, track, fetched, tapped, messages, inbox, load, view>>
          /\ pc[q] = "posted" /\ pc' = [pc EXCEPT ![q] = "failed"]
      BY <1>1, <2>2 DEF Vote, hubVars, screenVars, tallyVars, Goto
    <3>2. Aside
      BY <3>1 DEF Aside, QueueTypes
    <3>3. QueueTypes'
      BY <3>1, ShownConstant DEF QueueTypes
    <3>4. OnTheWay'
      BY <3>1, WayKept DEF QueueTypes, Fitting, Shown
    <3> QED
      BY <3>2, <3>3, <3>4, AsideKeeps
  <2> QED
    BY <1>1, <2>1, <2>2 DEF Vote
<1>2. CASE CheckHub(q)
  <2>1. UNCHANGED <<queue, count, track, fetched, tapped, messages, inbox, load, view>>
        /\ pc[q] = "cast"
        /\ (pc' = [pc EXCEPT ![q] = "silent"] \/ pc' = [pc EXCEPT ![q] = "fetch"])
    BY <1>2 DEF CheckHub, hubVars, screenVars, tallyVars, Goto
  <2>2. Aside
    BY <2>1 DEF Aside, QueueTypes
  <2>3. QueueTypes'
    BY <2>1, ShownConstant DEF QueueTypes
  <2>4. OnTheWay'
    BY <2>1, WayKept DEF QueueTypes, Fitting, Shown
  <2> QED
    BY <2>2, <2>3, <2>4, AsideKeeps
<1>3. CASE FetchQueue(q)
  <2>1. /\ UNCHANGED <<queue, count, track, tapped, messages, inbox, load, view>>
        /\ pc[q] = "fetch"
        /\ \/ fetched' = [fetched EXCEPT ![q] = Snapshot] /\ pc' = [pc EXCEPT ![q] = "publish"]
           \/ fetched' = fetched /\ pc' = [pc EXCEPT ![q] = "silent"]
    BY <1>3 DEF FetchQueue, hubVars, screenVars, tallyVars, Goto
  <2>2. Aside
    BY <2>1 DEF Aside, QueueTypes
  <2>3. QueueTypes'
    BY <2>1, ShownConstant DEF QueueTypes
  <2>4. Fitting' = Fitting
    BY <2>1 DEF Fitting, Shown
  <2>5. OnTheWay'
    BY <2>1, <2>4, SnapshotFits DEF OnTheWay, QueueTypes
  <2> QED
    BY <2>2, <2>3, <2>5, AsideKeeps
<1>4. CASE Publish(q)
  <2>1. /\ UNCHANGED <<queue, count, track, tapped, inbox, load, view>>
        /\ pc[q] = "publish" /\ pc' = [pc EXCEPT ![q] = "answered"]
        /\ fetched' = [fetched EXCEPT ![q] = Nil]
        /\ (messages' = messages \/ messages' = Append(messages, fetched[q]))
    BY <1>4 DEF Publish, screenVars, tallyVars, Goto
  <2>2. Aside
    BY <2>1 DEF Aside, QueueTypes
  <2>3. QueueTypes'
    BY <2>1, ShownConstant DEF QueueTypes
  <2>4. Fitting' = Fitting
    BY <2>1 DEF Fitting, Shown
  <2>5. messages' \in Seq(Fitting)
    <3>1. messages \in Seq(Fitting) /\ fetched[q] \in Fitting
      BY <2>1 DEF OnTheWay
    <3> QED
      BY <2>1, <3>1
  <2>6. OnTheWay'
    BY <2>1, <2>4, <2>5 DEF OnTheWay, QueueTypes
  <2> QED
    BY <2>2, <2>3, <2>6, AsideKeeps
<1> QED
  BY <1>1, <1>2, <1>3, <1>4 DEF Handle

\* A track that is deleted takes its votes along; the others keep theirs.
LEMMA DeleteStep == ASSUME QInv, NEW t \in Tracks, DeleteTrack(t) PROVE QInv'
<1> USE DEF QInv
<1>1. /\ UNCHANGED <<pc, track, fetched, tapped, messages, inbox, load, view>>
      /\ queue' = queue \ {t}
      /\ count' = [s \in Tracks |-> IF s \in {t} THEN 0 ELSE count[s]]
  BY DEF DeleteTrack, Discard, handlerVars, hubVars, screenVars
<1>2. \A s \in queue' : count'[s] = count[s] /\ count[s] \in Nat
  BY <1>1 DEF QueueTypes
<1>3. Counting
  BY <1>1, <1>2 DEF Counting, QueueTypes
<1>4. QueueTypes'
  BY <1>1, <1>3, ShownConstant DEF QueueTypes, Counting
<1>5. OnTheWay'
  BY <1>1, <1>3, FittingGrows, WayKept
<1>6. OneTap'
  BY <1>1 DEF OneTap
<1>7. ASSUME NEW u \in Users PROVE ViewFits(u)'
  <2>1. Showing(u)' => Showing(u)
    BY <1>1 DEF Showing
  <2>2. ASSUME NEW s PROVE Ahead(u, s)' = Ahead(u, s)
    BY <1>1 DEF Ahead, Uncounted
  <2> QED
    BY <1>1, <1>2, <2>1, <2>2, ShownConstant DEF ViewFits
<1> QED
  BY <1>4, <1>5, <1>6, <1>7

\* The end of a connection only drops queues.
LEMMA CutKeeps ==
  ASSUME QInv, NEW u \in Users, messages' \in {messages, <<>>},
         inbox' = [w \in Users |-> IF w \in {u} THEN <<>> ELSE inbox[w]]
  PROVE  messages' \in Seq(Fitting) /\ inbox' \in [Users -> Seq(Fitting)]
<1>1. messages \in Seq(Fitting) /\ inbox \in [Users -> Seq(Fitting)] /\ <<>> \in Seq(Fitting)
  BY DEF QInv, OnTheWay
<1>2. messages' \in Seq(Fitting)
  BY <1>1
<1>3. inbox' \in [Users -> Seq(Fitting)]
  BY <1>1
<1> QED
  BY <1>2, <1>3

\* What the room and the connections do, and the questions and answers of a
\* screen: they move queues, or drop them.
LEMMA TransportStep ==
  ASSUME QInv,
         \/ Deliver
         \/ \E u \in Users : Connect(u) \/ Lose(u) \/ Open(u) \/ Refresh(u) \/ AnswerLoad(u)
  PROVE  QInv'
<1> USE DEF QInv
<1>1. UNCHANGED <<queue, count, pc, track, fetched, tapped, view>>
  BY DEF Deliver, Connect, Lose, Open, Refresh, AnswerLoad, tallyVars, handlerVars, screenVars
<1>2. QueueTypes'
  BY <1>1, ShownConstant DEF QueueTypes
<1>3. OneTap' /\ (\A u \in Users : ViewFits(u))'
  BY <1>1, AsideKeeps DEF Aside
<1>4. Fitting' = Fitting
  BY <1>1, ShownConstant DEF Fitting
<1>5. /\ messages' \in Seq(Fitting)
      /\ inbox' \in [Users -> Seq(Fitting)]
      /\ load' \in [Users -> Fitting \cup {Nil, Sent}]
  <2>1. CASE Deliver
    <3>1. /\ load' = load /\ messages # <<>> /\ messages' = Tail(messages)
          /\ inbox' = [u \in Users |-> IF u \in members THEN Append(inbox[u], Head(messages))
                                       ELSE inbox[u]]
      BY <2>1 DEF Deliver, screenVars
    <3>2. messages' \in Seq(Fitting) /\ Head(messages) \in Fitting
      BY <3>1 DEF OnTheWay
    <3>3. inbox' \in [Users -> Seq(Fitting)]
      BY <3>1, <3>2 DEF OnTheWay
    <3> QED
      BY <3>1, <3>2, <3>3 DEF OnTheWay
  <2>2. ASSUME NEW u \in Users, Connect(u) PROVE <1>5!1 /\ <1>5!2 /\ <1>5!3
    BY <2>2 DEF Connect, screenVars, OnTheWay
  <2>3. ASSUME NEW u \in Users, Lose(u) PROVE <1>5!1 /\ <1>5!2 /\ <1>5!3
    <3>1. /\ load' = load /\ messages' \in {messages, <<>>}
          /\ inbox' = [w \in Users |-> IF w \in {u} THEN <<>> ELSE inbox[w]]
      BY <2>3 DEF Lose, Disconnect, screenVars
    <3> QED
      BY <3>1, CutKeeps DEF OnTheWay
  <2>4. ASSUME NEW u \in Users, Open(u) \/ Refresh(u) PROVE <1>5!1 /\ <1>5!2 /\ <1>5!3
    BY <2>4 DEF Open, Refresh, hubVars, OnTheWay
  <2>5. ASSUME NEW u \in Users, AnswerLoad(u) PROVE <1>5!1 /\ <1>5!2 /\ <1>5!3
    BY <2>5, SnapshotFits DEF AnswerLoad, hubVars, OnTheWay
  <2> QED
    BY <2>1, <2>2, <2>3, <2>4, <2>5
<1>6. OnTheWay'
  BY <1>1, <1>4, <1>5 DEF OnTheWay
<1> QED
  BY <1>2, <1>3, <1>6

\* A screen that is closed shows nothing and has no taps.
LEMMA CloseStep == ASSUME QInv, NEW u \in Users, Close(u) PROVE QInv'
<1> USE DEF QInv
<1>1. /\ UNCHANGED <<queue, count, pc, track, fetched>>
      /\ load' = [load EXCEPT ![u] = Nil] /\ view' = [view EXCEPT ![u] = Nil]
      /\ tapped' = [q \in Requests |-> tapped[q] /\ Caller[q] # u]
      /\ messages' \in {messages, <<>>}
      /\ inbox' = [w \in Users |-> IF w \in {u} THEN <<>> ELSE inbox[w]]
  BY DEF Close, Disconnect, tallyVars, handlerVars
<1>2. QueueTypes'
  BY <1>1, ShownConstant DEF QueueTypes
<1>3. Fitting' = Fitting
  BY <1>1, ShownConstant DEF Fitting
<1>4. OnTheWay'
  BY <1>1, <1>3, CutKeeps DEF OnTheWay
<1>5. OneTap'
  BY <1>1 DEF OneTap, QueueTypes
<1>6. ASSUME NEW w \in Users PROVE ViewFits(w)'
  <2>1. CASE w = u
    BY <1>1, <2>1 DEF ViewFits, Showing, QueueTypes
  <2>2. CASE w # u
    <3>1. view'[w] = view[w] /\ (Showing(w)' => Showing(w))
      BY <1>1, <2>2 DEF Showing, QueueTypes
    <3>2. ASSUME NEW t PROVE Ahead(w, t)' = Ahead(w, t)
      BY <1>1, <2>2 DEF Ahead, Uncounted, QueueTypes
    <3> QED
      BY <1>1, <3>1, <3>2, ShownConstant DEF ViewFits
  <2> QED
    BY <2>1, <2>2
<1> QED
  BY <1>2, <1>4, <1>5, <1>6

\* A queue without phantom votes replaces what a screen shows.
LEMMA ShowKeeps ==
  ASSUME QInv, NEW u \in Users, NEW x \in Fitting, Show(u, x),
         UNCHANGED <<queue, count, pc, track, tapped>>
  PROVE  QueueTypes' /\ OneTap' /\ (\A w \in Users : ViewFits(w))'
<1> USE DEF QInv
<1>1. view' = [view EXCEPT ![u] = x] /\ x \in Shown
  BY DEF Show, Fitting
<1>2. QueueTypes'
  BY <1>1, ShownConstant DEF QueueTypes
<1>3. OneTap'
  BY DEF OneTap
<1>4. ASSUME NEW w \in Users PROVE ViewFits(w)'
  <2>1. ASSUME NEW t PROVE Ahead(w, t)' = Ahead(w, t)
    BY DEF Ahead, Uncounted
  <2>2. CASE w = u
    <3>1. view'[w] = x
      BY <1>1, <2>2 DEF QueueTypes
    <3>2. ASSUME NEW t \in queue \cap DOMAIN x PROVE x[t] <= count[t] + Ahead(w, t)
      <4>1. x[t] <= count[t] /\ x[t] \in Nat /\ count[t] \in Nat
        BY <1>1, <3>2 DEF Fitting, Shown, QueueTypes
      <4> QED
        BY <4>1, AheadNat
    <3> QED
      BY <1>1, <2>1, <3>1, <3>2, ShownConstant DEF ViewFits
  <2>3. CASE w # u
    <3>1. view'[w] = view[w] /\ (Showing(w)' => Showing(w))
      BY <1>1, <2>3 DEF Showing, QueueTypes
    <3> QED
      BY <2>1, <3>1, ShownConstant DEF ViewFits
  <2> QED
    BY <2>2, <2>3
<1> QED
  BY <1>2, <1>3, <1>4

\* The end of build() and an update.
LEMMA ShowStep == ASSUME QInv, NEW u \in Users, EndLoad(u) \/ ApplyUpdate(u) PROVE QInv'
<1>1. UNCHANGED <<queue, count, pc, track, fetched, tapped, messages>>
  BY DEF EndLoad, ApplyUpdate, tallyVars, handlerVars, hubVars
<1>2. PICK x \in Fitting : Show(u, x)
  <2>1. CASE EndLoad(u)
    BY <2>1 DEF EndLoad, QInv, OnTheWay
  <2>2. CASE ApplyUpdate(u)
    <3>1. inbox[u] \in Seq(Fitting) /\ inbox[u] # <<>>
      BY <2>2 DEF ApplyUpdate, QInv, OnTheWay
    <3>2. Head(inbox[u]) \in Fitting
      BY <3>1
    <3> QED
      BY <2>2, <3>2 DEF ApplyUpdate
  <2> QED
    BY <2>1, <2>2
<1>3. load' \in [Users -> Fitting \cup {Nil, Sent}] /\ inbox' \in [Users -> Seq(Fitting)]
  <2>1. CASE EndLoad(u)
    BY <2>1 DEF EndLoad, hubVars, QInv, OnTheWay
  <2>2. CASE ApplyUpdate(u)
    <3>1. load' = load /\ inbox' = [inbox EXCEPT ![u] = Tail(inbox[u])] /\ inbox[u] # <<>>
      BY <2>2 DEF ApplyUpdate
    <3>2. inbox[u] \in Seq(Fitting) /\ inbox \in [Users -> Seq(Fitting)]
      BY DEF QInv, OnTheWay
    <3>3. Tail(inbox[u]) \in Seq(Fitting)
      BY <3>1, <3>2
    <3> QED
      BY <3>1, <3>2, <3>3 DEF QInv, OnTheWay
  <2> QED
    BY <2>1, <2>2
<1>4. Fitting' = Fitting
  BY <1>1, ShownConstant DEF Fitting
<1>5. OnTheWay'
  BY <1>1, <1>3, <1>4 DEF QInv, OnTheWay
<1> QED
  BY <1>1, <1>2, <1>5, ShowKeeps DEF QInv

\* The votes shown for one track are replaced; the other tracks keep theirs.
LEMMA AdjustTo ==
  ASSUME QInv, NEW u \in Users, NEW t, NEW d \in {-1, 1}, Adjust(u, t, d), view[u] \in Shown
  PROVE  /\ view' \in [Users -> Shown \cup {Nil}]
         /\ view'[u] \in Shown /\ DOMAIN view'[u] = DOMAIN view[u]
         /\ \A s \in DOMAIN view[u] :
              /\ s # t => view'[u][s] = view[u][s]
              /\ s = t => view'[u][s] = IF view[u][s] + d < 0 THEN 0 ELSE view[u][s] + d
         /\ \A w \in Users : w # u => view'[w] = view[w]
<1> DEFINE x == [s \in DOMAIN view[u] |->
                   IF s # t THEN view[u][s]
                   ELSE IF view[u][s] + d < 0 THEN 0 ELSE view[u][s] + d]
<1>1. view \in [Users -> Shown \cup {Nil}] /\ view' = [view EXCEPT ![u] = x]
  BY DEF Adjust, QInv, QueueTypes
<1>2. \A s \in DOMAIN view[u] : view[u][s] \in Nat
  BY DEF Shown
<1>3. \A s \in DOMAIN view[u] : x[s] \in Nat
  BY <1>2
<1>4. x \in Shown
  <2>1. x \in [DOMAIN view[u] -> Nat]
    BY <1>3
  <2>2. DOMAIN view[u] \in SUBSET Tracks
    BY DEF Shown
  <2> QED
    BY <2>1, <2>2 DEF Shown
<1>5. view'[u] = x
  BY <1>1
<1>6. view' \in [Users -> Shown \cup {Nil}]
  BY <1>1, <1>4
<1> QED
  BY <1>1, <1>4, <1>5, <1>6

\* A tap: the screen is ahead by one, and was not before.
LEMMA UpvoteStep ==
  ASSUME QInv, NEW q \in Requests, NEW t \in Tracks, Upvote(q, t) PROVE QInv'
<1> DEFINE u == Caller[q]
<1> USE DEF QInv
<1>1. /\ UNCHANGED <<queue, count, fetched, messages, inbox, load>>
      /\ pc[q] = "idle" /\ pc' = [pc EXCEPT ![q] = "posted"]
      /\ track' = [track EXCEPT ![q] = t] /\ tapped' = [tapped EXCEPT ![q] = TRUE]
      /\ view[u] # Nil /\ Adjust(u, t, 1)
  BY DEF Upvote, tallyVars, hubVars, Goto
<1>2. u \in Users
  BY QueueAssumption
<1>3. \A r \in Requests : tapped[r] => Caller[r] # u \/ track[r] # t
  BY DEF Upvote
<1>4. view[u] \in Shown
  BY <1>1, <1>2 DEF ViewFits, Showing
<1>5. /\ view' \in [Users -> Shown \cup {Nil}] /\ view'[u] \in Shown
      /\ DOMAIN view'[u] = DOMAIN view[u]
      /\ \A w \in Users : w # u => view'[w] = view[w]
  BY <1>1, <1>2, <1>4, AdjustTo
<1>6. \A s \in DOMAIN view[u] : view'[u][s] = IF s = t THEN view[u][s] + 1 ELSE view[u][s]
  <2>1. \A s \in DOMAIN view[u] :
          /\ s # t => view'[u][s] = view[u][s]
          /\ s = t => view'[u][s] = IF view[u][s] + 1 < 0 THEN 0 ELSE view[u][s] + 1
    BY <1>1, <1>2, <1>4, AdjustTo
  <2>2. \A s \in DOMAIN view[u] : view[u][s] \in Nat
    BY <1>4 DEF Shown
  <2> QED
    BY <2>1, <2>2
<1>7. QueueTypes'
  BY <1>1, <1>5, ShownConstant DEF QueueTypes
<1>8. OnTheWay'
  <2>1. Fitting' = Fitting
    BY <1>1, ShownConstant DEF Fitting
  <2> QED
    BY <1>1, <2>1, WayKept DEF QueueTypes
<1>9. OneTap'
  BY <1>1, <1>3 DEF OneTap, QueueTypes
<1>10. ASSUME NEW w \in Users PROVE ViewFits(w)'
  <2>2. ASSUME NEW s, ~(w = u /\ s = t) PROVE Ahead(w, s)' \in {0, 1} /\ Ahead(w, s)' >= Ahead(w, s)
    <3>1. Uncounted(w, s) => Uncounted(w, s)'
      BY <1>1 DEF Uncounted, QueueTypes
    <3> QED
      BY <3>1 DEF Ahead
  <2>3. Ahead(u, t) = 0 /\ Ahead(u, t)' = 1
    BY <1>1, <1>3 DEF Ahead, Uncounted, QueueTypes
  <2>4. CASE w # u
    <3>1. view'[w] = view[w] /\ (Showing(w)' => Showing(w))
      BY <1>1, <1>5, <2>4 DEF Showing, QueueTypes
    <3>2. ASSUME NEW s \in queue \cap DOMAIN view[w], view[w] \in Shown,
                 view[w][s] <= count[s] + Ahead(w, s)
          PROVE  view[w][s] <= count[s] + Ahead(w, s)'
      <4>1. view[w][s] \in Nat /\ count[s] \in Nat
        BY <3>2 DEF Shown, QueueTypes
      <4>2. Ahead(w, s) \in {0, 1} /\ Ahead(w, s)' \in {0, 1} /\ Ahead(w, s)' >= Ahead(w, s)
        BY <2>2, <2>4, AheadNat
      <4> QED
        BY <3>2, <4>1, <4>2
    <3> QED
      BY <1>1, <3>1, <3>2, ShownConstant DEF ViewFits
  <2>5. CASE w = u
    <3>1. \A s \in queue \cap DOMAIN view[u] : view[u][s] <= count[s] + Ahead(u, s)
      BY <1>1, <1>2 DEF ViewFits, Showing
    <3>2. ASSUME NEW s \in queue \cap DOMAIN view[u]
          PROVE  view'[u][s] <= count[s] + Ahead(u, s)'
      <4>1. view[u][s] \in Nat /\ count[s] \in Nat /\ view[u][s] <= count[s] + Ahead(u, s)
        BY <1>4, <3>1, <3>2 DEF Shown, QueueTypes
      <4>2. CASE s = t
        BY <1>6, <2>3, <3>2, <4>1, <4>2
      <4>3. CASE s # t
        <5>1. Ahead(u, s) \in {0, 1} /\ Ahead(u, s)' \in {0, 1} /\ Ahead(u, s)' >= Ahead(u, s)
          BY <2>2, <2>5, <4>3, AheadNat
        <5>2. view'[u][s] = view[u][s]
          BY <1>6, <3>2, <4>3
        <5> QED
          BY <4>1, <5>1, <5>2
      <4> QED
        BY <4>2, <4>3
    <3> QED
      BY <1>1, <1>5, <2>5, <3>2, ShownConstant DEF ViewFits
  <2> QED
    BY <2>4, <2>5
<1> QED
  BY <1>7, <1>8, <1>9, <1>10

\* A tap that was answered with 200 has been counted.
LEMMA DoneStep == ASSUME QInv, NEW q \in Requests, UpvoteDone(q) PROVE QInv'
<1> USE DEF QInv
<1>1. /\ UNCHANGED <<queue, count, pc, track, fetched, messages, inbox, load, view>>
      /\ pc[q] \in {"answered", "silent"} /\ tapped' = [tapped EXCEPT ![q] = FALSE]
  BY DEF UpvoteDone, tallyVars, handlerVars, hubVars, screenVars
<1>2. QueueTypes'
  BY <1>1, ShownConstant DEF QueueTypes
<1>3. OnTheWay'
  BY <1>1, ShownConstant, WayKept DEF Fitting
<1>4. OneTap'
  BY <1>1 DEF OneTap, QueueTypes
<1>5. ASSUME NEW u \in Users PROVE ViewFits(u)'
  <2>1. Showing(u)' => Showing(u)
    BY <1>1 DEF Showing, QueueTypes
  <2>2. ASSUME NEW t PROVE Ahead(u, t)' = Ahead(u, t)
    BY <1>1 DEF Ahead, Uncounted, QueueTypes
  <2> QED
    BY <1>1, <2>1, <2>2, ShownConstant DEF ViewFits
<1> QED
  BY <1>2, <1>3, <1>4, <1>5

\* A tap that failed is taken back, whatever has become of the vote.
LEMMA FailedStep == ASSUME QInv, NEW q \in Requests, UpvoteFailed(q) PROVE QInv'
<1> DEFINE u == Caller[q]
           t == track[q]
<1> USE DEF QInv
<1>1. /\ UNCHANGED <<queue, count, pc, track, fetched, messages, inbox, load>>
      /\ tapped[q] /\ tapped' = [tapped EXCEPT ![q] = FALSE] /\ Adjust(u, t, -1)
  BY DEF UpvoteFailed, tallyVars, handlerVars, hubVars
<1>2. u \in Users
  BY QueueAssumption
<1>3. view[u] \in Shown /\ \A s \in queue \cap DOMAIN view[u] : view[u][s] <= count[s] + Ahead(u, s)
  BY <1>1, <1>2 DEF ViewFits, Showing
<1>4. /\ view' \in [Users -> Shown \cup {Nil}] /\ view'[u] \in Shown
      /\ DOMAIN view'[u] = DOMAIN view[u]
      /\ \A s \in DOMAIN view[u] :
           /\ s # t => view'[u][s] = view[u][s]
           /\ s = t => view'[u][s] = IF view[u][s] + (-1) < 0 THEN 0 ELSE view[u][s] + (-1)
      /\ \A w \in Users : w # u => view'[w] = view[w]
  BY <1>1, <1>2, <1>3, AdjustTo
<1>5. QueueTypes'
  BY <1>1, <1>4, ShownConstant DEF QueueTypes
<1>6. OnTheWay'
  BY <1>1, ShownConstant, WayKept DEF Fitting
<1>7. OneTap'
  BY <1>1 DEF OneTap, QueueTypes
<1>8. ASSUME NEW w \in Users PROVE ViewFits(w)'
  <2>1. ASSUME NEW s, ~(w = u /\ s = t) PROVE Ahead(w, s)' = Ahead(w, s)
    BY <1>1, <2>1 DEF Ahead, Uncounted, QueueTypes
  <2>2. CASE w # u
    <3>1. view'[w] = view[w] /\ (Showing(w)' => Showing(w))
      BY <1>1, <1>4, <2>2 DEF Showing, QueueTypes
    <3> QED
      BY <1>1, <2>1, <2>2, <3>1, ShownConstant DEF ViewFits
  <2>3. CASE w = u
    <3>1. ASSUME NEW s \in queue \cap DOMAIN view[u]
          PROVE  view'[u][s] <= count[s] + Ahead(u, s)'
      <4>1. view[u][s] \in Nat /\ count[s] \in Nat /\ view[u][s] <= count[s] + Ahead(u, s)
        BY <1>3, <3>1 DEF Shown, QueueTypes
      <4>2. Ahead(u, s) \in {0, 1} /\ Ahead(u, s)' \in {0, 1}
        BY AheadNat DEF Ahead
      <4>3. CASE s = t
        BY <1>4, <3>1, <4>1, <4>2, <4>3
      <4>4. CASE s # t
        BY <1>4, <2>1, <2>3, <3>1, <4>1, <4>4
      <4> QED
        BY <4>3, <4>4
    <3> QED
      BY <1>1, <1>4, <2>3, <3>1, ShownConstant DEF ViewFits
  <2> QED
    BY <2>2, <2>3
<1> QED
  BY <1>5, <1>6, <1>7, <1>8

\* Nothing happens.
LEMMA StutterStep == QInv /\ UNCHANGED vars => QInv'
<1> SUFFICES ASSUME QInv, UNCHANGED vars PROVE QInv'
  OBVIOUS
<1>1. UNCHANGED <<queue, count, pc, track, fetched, tapped, messages, inbox, load, view>>
  BY DEF vars, tallyVars, handlerVars, hubVars, screenVars
<1>2. QueueTypes'
  BY <1>1, ShownConstant DEF QInv, QueueTypes
<1>3. OnTheWay'
  BY <1>1, ShownConstant, WayKept DEF QInv, Fitting
<1> QED
  BY <1>1, <1>2, <1>3, AsideKeeps DEF Aside, QInv

-----------------------------------------------------------------------------
(* The theorem                                                             *)

\* Every step leaves the screens without phantom votes.
LEMMA QueueInductive == QInv /\ [QueueNext]_vars => QInv'
<1> SUFFICES ASSUME QInv, [QueueNext]_vars PROVE QInv'
  OBVIOUS
<1>1. ASSUME NEW q \in Requests,
             Handle(q) \/ UpvoteDone(q) \/ UpvoteFailed(q) \/ \E t \in Tracks : Upvote(q, t)
      PROVE  QInv'
  BY <1>1, HandleStep, DoneStep, FailedStep, UpvoteStep
<1>2. ASSUME NEW t \in Tracks, DeleteTrack(t) PROVE QInv'
  BY <1>2, DeleteStep
<1>3. CASE Deliver
  BY <1>3, TransportStep
<1>4. ASSUME NEW u \in Restless,
             Connect(u) \/ Lose(u) \/ Open(u) \/ Close(u) \/ Refresh(u)
      PROVE  QInv'
  <2>1. u \in Users
    BY <1>4, QueueAssumption
  <2> QED
    BY <1>4, <2>1, TransportStep, CloseStep
<1>5. ASSUME NEW u \in Users, AnswerLoad(u) \/ EndLoad(u) \/ ApplyUpdate(u) PROVE QInv'
  BY <1>5, TransportStep, ShowStep
<1>6. CASE Still \/ UNCHANGED vars
  BY <1>6, StutterStep DEF Still
<1> QED
  BY <1>1, <1>2, <1>3, <1>4, <1>5, <1>6 DEF QueueNext

\* A screen that fits shows no phantom votes: the tap that is not counted waits
\* for its answer.
LEMMA FitsNoPhantoms == QInv => NoPhantomVotes
<1> SUFFICES ASSUME QInv, NEW u \in Users, NEW t \in queue,
                    view[u] # Nil, t \in DOMAIN view[u]
             PROVE  view[u][t] \in 0..(count[t] + Cardinality(InFlight(u, t)))
  BY DEF NoPhantomVotes
<1>1. view[u] \in Shown /\ view[u][t] <= count[t] + Ahead(u, t)
  BY DEF QInv, ViewFits, Showing
<1>2. view[u][t] \in Nat /\ count[t] \in Nat
  BY <1>1 DEF Shown, QInv, QueueTypes
<1>3. IsFiniteSet(InFlight(u, t))
  BY QueueAssumption, FS_Subset DEF InFlight
<1>4. Cardinality(InFlight(u, t)) \in Nat
  BY <1>3, FS_CardinalityType
<1>5. Uncounted(u, t) => InFlight(u, t) # {}
  BY DEF Uncounted, InFlight
<1>6. Uncounted(u, t) => Cardinality(InFlight(u, t)) >= 1
  BY <1>3, <1>4, <1>5, FS_EmptySet
<1> QED
  BY <1>1, <1>2, <1>4, <1>6 DEF Ahead

\* No phantom votes (handler/track.go, event_queue_provider.dart): whatever the order
\* of updates, reloads, answers, failures, lost connections and deletions, no screen
\* shows more votes for a track than were cast, its own open tap apart.
THEOREM ScreensShowCastVotes == QueueSpec => []NoPhantomVotes
<1>1. QueueSpec => []QInv
  BY InitQueue, QueueInductive, PTL DEF QueueSpec
<1> QED
  BY <1>1, FitsNoPhantoms, PTL
=============================================================================
