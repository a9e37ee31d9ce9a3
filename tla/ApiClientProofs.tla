-------------------------- MODULE ApiClientProofs --------------------------
(***************************************************************************)
(* Proofs about ApiClient: there is one refresh at a time, and the app     *)
(* shows the server no refresh token it has exchanged but for the excuses  *)
(* ReuseIsExcused names, for any number of calls, pairs, logins and kills. *)
(***************************************************************************)
EXTENDS ApiClient, TLAPS

Saving == {"save access", "save refresh"}
Clearing == {"clear access", "clear refresh"}
Leading == {"read", "post", "retry leading", "clear access again", "clear refresh again"}
             \cup Saving \cup Clearing
Labels == {"idle", "sent", "waiting", "retry", "hung", "answered"} \cup Leading
Keeping == {"keep access", "keep refresh"}

ClientTypes ==
  /\ issued \in 0..MaxPairs /\ revoked \subseteq 0..issued
  /\ refresh \in 0..issued \cup {Nil}
  /\ pc \in [Calls -> Labels] /\ fresh \in [Calls -> 0..issued \cup {Nil}]
  /\ pending \in Calls \cup {Nil}
  /\ me \in {"in", "out", "revoke", "drop access", "drop refresh"} \cup Keeping
  /\ mine \in 0..issued \cup {Nil} /\ (me \in Keeping \cup {"revoke"} => mine # Nil)
  /\ reused \in BOOLEAN /\ excused \in BOOLEAN
  /\ \A c \in Calls : pc[c] \in {"post"} \cup Saving => fresh[c] # Nil

\* The call that leads is the one that created the completer.
OneLeader == \A c \in Calls : pc[c] \in Leading <=> pending = c

\* As long as nothing excuses it, no refresh meets a logout, and a token that is
\* presented or about to be stored is not revoked.  The one in the storage may be
\* while the call that exchanged it is about to replace or to clear it, or a logout
\* is about to clear it.  The pair of a login is nowhere else.
Unrevoked ==
  /\ ~reused
  /\ \A c \in Calls : Refreshing(c) => ~LoggingOut
  /\ \A c \in Calls : pc[c] \in {"post"} \cup Saving => fresh[c] \notin revoked
  /\ refresh \in revoked =>
       \/ \E c \in Calls : pc[c] \in Saving \cup Clearing
       \/ me \in {"drop access", "drop refresh"}
  /\ me \in Keeping =>
       /\ mine \notin revoked /\ mine # refresh
       /\ \A c \in Calls : pc[c] \in {"post"} \cup Saving => fresh[c] # mine

CInv == ClientTypes /\ OneLeader /\ (excused \/ Unrevoked)

-----------------------------------------------------------------------------
\* One pair, one login, no call.
LEMMA InitInv == Init => CInv
<1> SUFFICES ASSUME Init PROVE CInv
  OBVIOUS
<1>1. ClientTypes
  <2>1. 0 \in 0..MaxPairs /\ 0 \in 0..0
    BY ApiClientAssumption
  <2>2. pc \in [Calls -> Labels] /\ \A c \in Calls : pc[c] = "idle"
    BY DEF Init, Labels
  <2> QED BY <2>1, <2>2 DEF Init, ClientTypes, Saving, Keeping
<1>2. OneLeader
  BY ApiClientAssumption DEF Init, OneLeader, Leading, Saving, Clearing
<1>3. Unrevoked
  BY DEF Init, Unrevoked, Refreshing, Saving, Clearing, Keeping
<1> QED BY <1>1, <1>2, <1>3 DEF CInv

\* The pair that is issued next.
LEMMA NextPair ==
  ASSUME NEW n \in 0..MaxPairs, n < MaxPairs
  PROVE  /\ n + 1 \in 0..MaxPairs /\ n + 1 \in 0..(n + 1) /\ 0..n \subseteq 0..(n + 1)
         /\ n + 1 \notin 0..n /\ n + 1 # Nil
<1>1. MaxPairs \in Nat /\ Nil \notin 0..MaxPairs
  BY ApiClientAssumption DEF Pairs
<1> QED BY <1>1

\* No token is not a token.
LEMMA NilNotRevoked == ClientTypes => Nil \notin revoked
<1> SUFFICES ASSUME ClientTypes PROVE Nil \notin revoked
  OBVIOUS
<1>1. MaxPairs \in Nat /\ Nil \notin 0..MaxPairs
  BY ApiClientAssumption DEF Pairs
<1>2. issued \in 0..MaxPairs /\ revoked \subseteq 0..issued
  BY DEF ClientTypes
<1>3. 0..issued \subseteq 0..MaxPairs
  BY <1>1, <1>2
<1> QED BY <1>1, <1>2, <1>3

\* A call that leads no refresh, before and after.
LEMMA FollowInv ==
  ASSUME CInv, NEW c \in Calls, NEW l \in Labels \ Leading, pc[c] \notin Leading, Goto(c, l),
         UNCHANGED <<server, storage, pending, person, history>>,
         fresh' = fresh \/ fresh' = [fresh EXCEPT ![c] = Nil]
  PROVE  CInv'
<1> USE DEF CInv, Goto, server, storage, person, history
<1>1. /\ pc' \in [Calls -> Labels] /\ pc'[c] = l
      /\ \A d \in Calls : d # c => pc'[d] = pc[d] /\ fresh'[d] = fresh[d]
      /\ fresh' \in [Calls -> 0..issued \cup {Nil}]
  BY DEF ClientTypes
<1>2. ClientTypes'
  BY <1>1 DEF ClientTypes, Leading
<1>3. OneLeader'
  BY <1>1 DEF OneLeader
<1>4. Unrevoked => Unrevoked'
  BY <1>1 DEF Unrevoked, Refreshing, Leading, Saving, Clearing, LoggingOut
<1> QED BY <1>2, <1>3, <1>4

\* The first call that is refused leads, and not while a logout is under way.
LEMMA RefusedInv ==
  ASSUME CInv, NEW c \in Calls, Refused(c)
  PROVE  CInv'
<1> USE DEF CInv, Refused, Goto, server, storage, person, NoteExcuse
<1>1. pc[c] = "sent" /\ pc \in [Calls -> Labels]
  BY DEF ClientTypes
<1>2. CASE pending # Nil
  <2>1. pc' \in [Calls -> Labels] /\ pc'[c] = "waiting" /\ \A d \in Calls : d # c => pc'[d] = pc[d]
    BY <1>1, <1>2 DEF Labels
  <2>2. ClientTypes'
    BY <1>2, <2>1 DEF ClientTypes, Saving
  <2>3. OneLeader'
    BY <1>1, <1>2, <2>1 DEF OneLeader, Leading, Saving, Clearing
  <2>4. Unrevoked => Unrevoked'
    BY <1>1, <1>2, <2>1 DEF Unrevoked, Refreshing, Saving, Clearing, LoggingOut
  <2> QED BY <2>2, <2>3, <2>4 DEF ClientTypes
<1>3. CASE pending = Nil
  <2>1. /\ pc' \in [Calls -> Labels] /\ pc'[c] = "read" /\ pending' = c /\ c # Nil
        /\ \A d \in Calls : d # c => pc'[d] = pc[d]
    BY <1>1, <1>3, ApiClientAssumption DEF Labels, Leading
  <2>2. ClientTypes'
    BY <1>3, <2>1 DEF ClientTypes, Saving
  <2>3. OneLeader'
    BY <1>3, <2>1, ApiClientAssumption DEF OneLeader, Leading
  <2>4. ASSUME Unrevoked, ~excused' PROVE Unrevoked'
    <3>1. ~LoggingOut'
      BY <2>1, <2>4 DEF Refreshing
    <3> QED BY <1>1, <2>1, <2>4, <3>1 DEF Unrevoked, Refreshing, Saving, Clearing, LoggingOut
  <2> QED BY <2>2, <2>3, <2>4 DEF ClientTypes
<1> QED BY <1>2, <1>3

\* A step of the leader: it keeps leading, or makes room.
LEMMA LeaderFrame ==
  ASSUME CInv, NEW c \in Calls, pc[c] \in Leading, NEW l \in Labels, Goto(c, l),
         IF l \in Leading THEN UNCHANGED pending ELSE pending' = Nil
  PROVE  /\ OneLeader' /\ pending = c /\ pending' \in Calls \cup {Nil}
         /\ pc' \in [Calls -> Labels] /\ pc'[c] = l
         /\ \A d \in Calls : d # c => pc'[d] = pc[d] /\ pc[d] \notin Leading
<1>1. pc' \in [Calls -> Labels] /\ pc'[c] = l /\ \A d \in Calls : d # c => pc'[d] = pc[d]
  BY DEF CInv, ClientTypes, Goto
<1>2. pending = c /\ \A d \in Calls : d # c => pc[d] \notin Leading
  BY DEF CInv, OneLeader
<1>3. OneLeader'
  BY <1>1, <1>2, ApiClientAssumption DEF OneLeader
<1> QED BY <1>1, <1>2, <1>3

\* The token that is read is not revoked: nobody else leads, and nobody logs out.
LEMMA ReadRefreshInv ==
  ASSUME CInv, NEW c \in Calls, ReadRefresh(c)
  PROVE  CInv'
<1> USE DEF CInv, server, storage, person, history
<1>1. pc[c] = "read" /\ UNCHANGED <<server, storage, person, history, pending>>
  BY DEF ReadRefresh
<1>2. PICK l \in {"clear access", "post"} :
        /\ Goto(c, l) /\ (l = "clear access" => fresh' = fresh)
        /\ l = "post" => refresh # Nil /\ fresh' = [fresh EXCEPT ![c] = refresh]
  BY DEF ReadRefresh, FailRefresh
<1>3. /\ OneLeader' /\ pc' \in [Calls -> Labels] /\ pc'[c] = l
      /\ \A d \in Calls : d # c => pc'[d] = pc[d] /\ pc[d] \notin Leading
  BY <1>1, <1>2, LeaderFrame DEF Labels, Leading, Clearing
<1>4. /\ fresh' \in [Calls -> 0..issued \cup {Nil}] /\ (l = "post" => fresh'[c] = refresh)
      /\ \A d \in Calls : d # c => fresh'[d] = fresh[d]
  BY <1>2 DEF ClientTypes
<1>5. ClientTypes'
  BY <1>1, <1>2, <1>3, <1>4 DEF ClientTypes, Saving
<1>6. ASSUME Unrevoked PROVE Unrevoked'
  <2>1. ~LoggingOut /\ refresh \notin revoked
    BY <1>1, <1>3, <1>6 DEF Unrevoked, Refreshing, LoggingOut, Leading, Saving, Clearing
  <2> QED BY <1>1, <1>2, <1>3, <1>4, <1>6, <2>1
          DEF Unrevoked, Refreshing, LoggingOut, Leading, Saving, Clearing
<1> QED BY <1>1, <1>3, <1>5, <1>6

\* The token that is exchanged was not revoked, the pair that comes for it is new.
LEMMA PostRefreshInv ==
  ASSUME CInv, NEW c \in Calls, PostRefresh(c)
  PROVE  CInv'
<1> USE DEF CInv, storage, person
<1>1. /\ pc[c] = "post" /\ UNCHANGED <<refresh, pending, me, mine, excused>>
      /\ fresh[c] \in 0..issued /\ issued \in 0..MaxPairs
  BY DEF PostRefresh, ClientTypes
<1>2. PICK l \in {"save access", "clear access"} : Goto(c, l)
  BY DEF PostRefresh, FailRefresh
<1>3. /\ OneLeader' /\ pc' \in [Calls -> Labels] /\ pc'[c] = l
      /\ \A d \in Calls : d # c => pc'[d] = pc[d] /\ pc[d] \notin Leading
  BY <1>1, <1>2, LeaderFrame DEF Labels, Leading, Saving, Clearing
<1>4. CASE /\ fresh[c] \notin revoked /\ issued < MaxPairs
           /\ issued' = issued + 1 /\ revoked' = revoked \cup {fresh[c]} /\ reused' = reused
           /\ \/ l = "save access" /\ fresh' = [fresh EXCEPT ![c] = issued']
              \/ l = "clear access" /\ fresh' = fresh
  <2>1. /\ issued' \in 0..MaxPairs /\ 0..issued \subseteq 0..issued' /\ issued' \notin 0..issued
        /\ revoked' \subseteq 0..issued /\ issued' # Nil /\ issued' \in 0..issued'
    <3>1. revoked' \subseteq 0..issued
      BY <1>1, <1>4 DEF ClientTypes
    <3> QED BY <1>1, <1>4, <3>1, NextPair
  <2>2. /\ fresh' \in [Calls -> 0..issued' \cup {Nil}] /\ (l = "save access" => fresh'[c] = issued')
        /\ \A d \in Calls : d # c => fresh'[d] = fresh[d]
    <3>1. fresh \in [Calls -> 0..issued' \cup {Nil}]
      BY <2>1 DEF ClientTypes
    <3> QED BY <1>4, <2>1, <3>1
  <2>3. ClientTypes'
    BY <1>1, <1>3, <1>4, <2>1, <2>2 DEF ClientTypes, Saving, Leading
  <2>4. ASSUME Unrevoked PROVE Unrevoked'
    <3>1. me \in Keeping => mine # fresh[c] /\ mine # issued'
      BY <1>1, <2>1, <2>4 DEF Unrevoked, ClientTypes
    <3> QED BY <1>1, <1>3, <1>4, <2>1, <2>2, <2>4, <3>1
            DEF Unrevoked, Refreshing, LoggingOut, Leading, Saving, Clearing
  <2> QED BY <1>1, <1>3, <2>3, <2>4
<1>5. CASE /\ l = "clear access" /\ UNCHANGED <<issued, fresh>>
           /\ \/ fresh[c] \in revoked /\ revoked' = 0..issued /\ reused' = TRUE
              \/ UNCHANGED <<revoked, reused>>
  <2>1. ClientTypes'
    BY <1>1, <1>3, <1>5 DEF ClientTypes, Saving, Leading
  <2>2. ASSUME Unrevoked PROVE Unrevoked'
    <3>1. revoked' = revoked /\ reused' = reused
      BY <1>1, <1>5, <2>2 DEF Unrevoked
    <3> QED BY <1>1, <1>3, <1>5, <2>2, <3>1
            DEF Unrevoked, Refreshing, LoggingOut, Leading, Saving, Clearing
  <2> QED BY <1>1, <1>3, <2>1, <2>2
<1> QED
  <2>1. \/ /\ fresh[c] \notin revoked /\ issued < MaxPairs
           /\ issued' = issued + 1 /\ revoked' = revoked \cup {fresh[c]} /\ reused' = reused
           /\ \/ Goto(c, "save access") /\ fresh' = [fresh EXCEPT ![c] = issued']
              \/ Goto(c, "clear access") /\ fresh' = fresh
        \/ /\ Goto(c, "clear access") /\ UNCHANGED <<issued, fresh>>
           /\ \/ fresh[c] \in revoked /\ revoked' = 0..issued /\ reused' = TRUE
              \/ UNCHANGED <<revoked, reused>>
    BY DEF PostRefresh, FailRefresh
  <2>2. ASSUME NEW k, Goto(c, k) PROVE k = l
    BY <1>3, <2>2 DEF Goto, ClientTypes
  <2> QED BY <1>4, <1>5, <2>1, <2>2

\* The pair is stored before the leader makes room.
LEMMA SaveInv ==
  ASSUME CInv, NEW c \in Calls, SaveAccess(c) \/ SaveRefresh(c)
  PROVE  CInv'
<1> USE DEF CInv, server, storage, person, history
<1>1. CASE SaveAccess(c)
  <2>1. /\ pc[c] = "save access" /\ UNCHANGED <<refresh, pending, issued, revoked, fresh, person, history>>
        /\ Goto(c, "save refresh")
    BY <1>1 DEF SaveAccess
  <2>2. /\ OneLeader' /\ pc' \in [Calls -> Labels] /\ pc'[c] = "save refresh"
        /\ \A d \in Calls : d # c => pc'[d] = pc[d] /\ pc[d] \notin Leading
    BY <2>1, LeaderFrame DEF Labels, Leading, Saving
  <2>3. ClientTypes'
    BY <2>1, <2>2 DEF ClientTypes, Saving
  <2>4. Unrevoked => Unrevoked'
    BY <2>1, <2>2 DEF Unrevoked, Refreshing, LoggingOut, Leading, Saving, Clearing
  <2> QED BY <2>1, <2>2, <2>3, <2>4
<1>2. CASE SaveRefresh(c)
  <2>1. /\ pc[c] = "save refresh" /\ UNCHANGED <<pending, issued, revoked, person, history>>
        /\ Goto(c, "retry leading") /\ refresh' = fresh[c] /\ fresh' = [fresh EXCEPT ![c] = Nil]
    BY <1>2 DEF SaveRefresh
  <2>2. /\ OneLeader' /\ pc' \in [Calls -> Labels] /\ pc'[c] = "retry leading"
        /\ \A d \in Calls : d # c => pc'[d] = pc[d] /\ pc[d] \notin Leading
    BY <2>1, LeaderFrame DEF Labels, Leading, Saving
  <2>3. /\ fresh' \in [Calls -> 0..issued \cup {Nil}] /\ fresh[c] \in 0..issued \cup {Nil}
        /\ \A d \in Calls : d # c => fresh'[d] = fresh[d]
    BY <2>1 DEF ClientTypes
  <2>4. ClientTypes'
    BY <2>1, <2>2, <2>3 DEF ClientTypes, Saving
  <2>5. ASSUME Unrevoked PROVE Unrevoked'
    <3>1. refresh' \notin revoked /\ (me \in Keeping => mine # refresh')
      BY <2>1, <2>5 DEF Unrevoked, Saving
    <3> QED BY <2>1, <2>2, <2>3, <2>5, <3>1
            DEF Unrevoked, Refreshing, LoggingOut, Leading, Saving, Clearing
  <2> QED BY <2>1, <2>2, <2>4, <2>5
<1> QED BY <1>1, <1>2

LEMMA RetryLeaderInv ==
  ASSUME CInv, NEW c \in Calls, RetryLeader(c)
  PROVE  CInv'
<1> USE DEF CInv, server, storage, person, history
<1>1. pc[c] = "retry leading" /\ UNCHANGED <<server, storage, person, history>> /\ pending' = Nil
  BY DEF RetryLeader
<1>2. PICK l \in {"answered", "hung"} : Goto(c, l)
  BY DEF RetryLeader, Answered
<1>3. /\ OneLeader' /\ pc' \in [Calls -> Labels] /\ pc'[c] = l
      /\ \A d \in Calls : d # c => pc'[d] = pc[d] /\ pc[d] \notin Leading
  BY <1>1, <1>2, LeaderFrame DEF Labels, Leading, Saving, Clearing
<1>4. /\ fresh' \in [Calls -> 0..issued \cup {Nil}]
      /\ \A d \in Calls : d # c => fresh'[d] = fresh[d]
  BY DEF ClientTypes, RetryLeader, Answered
<1>5. ClientTypes'
  BY <1>1, <1>2, <1>3, <1>4 DEF ClientTypes, Saving
<1>6. Unrevoked => Unrevoked'
  BY <1>1, <1>2, <1>3, <1>4 DEF Unrevoked, Refreshing, LoggingOut, Leading, Saving, Clearing
<1> QED BY <1>1, <1>3, <1>5, <1>6

\* The storage is empty before the leader makes room.
LEMMA ClearInv ==
  ASSUME CInv, NEW c \in Calls, Clear(c)
  PROVE  CInv'
<1> USE DEF CInv, server, history
<1>1. UNCHANGED <<issued, revoked, mine, reused, excused>>
  BY DEF Clear
<1>2. PICK l \in {"clear refresh", "clear access again", "clear refresh again", "answered"} :
        /\ Goto(c, l)
        /\ \/ /\ pc[c] = "clear access" /\ l = "clear refresh"
              /\ UNCHANGED <<refresh, fresh, pending, me>>
           \/ /\ pc[c] = "clear refresh" /\ l = "clear access again"
              /\ refresh' = Nil /\ UNCHANGED <<fresh, pending, me>>
           \/ /\ pc[c] = "clear access again" /\ l = "clear refresh again"
              /\ UNCHANGED <<refresh, fresh, pending, me>>
           \/ /\ pc[c] = "clear refresh again" /\ l = "answered"
              /\ refresh' = Nil /\ fresh' = [fresh EXCEPT ![c] = Nil] /\ pending' = Nil
              /\ me' = IF me = "in" THEN "out" ELSE me
  BY DEF Clear, Answered
<1>3. /\ OneLeader' /\ pc' \in [Calls -> Labels] /\ pc'[c] = l
      /\ pending' \in Calls \cup {Nil} /\ l \notin Saving \cup {"post", "read"}
      /\ \A d \in Calls : d # c => pc'[d] = pc[d] /\ pc[d] \notin Leading
  BY <1>2, LeaderFrame DEF Labels, Leading, Saving, Clearing
<1>4. /\ fresh' \in [Calls -> 0..issued \cup {Nil}]
      /\ \A d \in Calls : d # c => fresh'[d] = fresh[d]
  BY <1>2 DEF ClientTypes
<1>5. /\ refresh' \in {refresh, Nil} /\ Nil \notin revoked
      /\ (pc[c] = "clear refresh" => refresh' = Nil)
      /\ me' = me \/ (me = "in" /\ me' = "out")
  BY <1>2, NilNotRevoked
<1>6. ClientTypes'
  BY <1>1, <1>3, <1>4, <1>5 DEF ClientTypes, Keeping
<1>7. ASSUME Unrevoked PROVE Unrevoked'
  <2>1. \A d \in Calls : ~Refreshing(d)'
    BY <1>2, <1>3 DEF Refreshing, Saving, Leading
  <2>2. refresh' \in revoked =>
          pc[c] # "clear refresh" /\ (pc[c] = "clear access" \/ me \in {"drop access", "drop refresh"})
    BY <1>2, <1>3, <1>5, <1>7 DEF Unrevoked, Leading, Saving, Clearing
  <2>3. refresh' \in revoked =>
          \/ \E d \in Calls : pc'[d] \in Saving \cup Clearing
          \/ me' \in {"drop access", "drop refresh"}
    BY <1>2, <1>3, <1>5, <2>2 DEF Clearing
  <2>4. me' \in Keeping => mine \notin revoked /\ mine # refresh'
    BY <1>5, <1>7 DEF Unrevoked, Keeping, ClientTypes
  <2>5. \A d \in Calls : pc'[d] \notin {"post"} \cup Saving
    BY <2>1 DEF Refreshing, Saving
  <2> QED BY <1>1, <1>7, <2>1, <2>3, <2>4, <2>5 DEF Unrevoked
<1> QED BY <1>1, <1>3, <1>6, <1>7

-----------------------------------------------------------------------------
(* Logins, logouts, kills                                                  *)

\* From now on a refresh and a logout excuse each other.
LEMMA PersonFrame ==
  ASSUME CInv, Person
  PROVE  /\ UNCHANGED calls /\ UNCHANGED reused /\ excused' \in BOOLEAN
         /\ OneLeader' /\ (excused => excused')
         /\ ~excused' => \A c \in Calls : Refreshing(c) => ~LoggingOut'
<1>1. UNCHANGED calls /\ UNCHANGED reused /\ NoteExcuse
  BY DEF Person
<1>2. OneLeader'
  BY <1>1 DEF CInv, OneLeader, calls
<1>3. excused' \in BOOLEAN
  BY <1>1 DEF NoteExcuse, CInv, ClientTypes
<1>4. ASSUME ~excused', NEW c \in Calls, Refreshing(c) PROVE ~LoggingOut'
  BY <1>1, <1>4 DEF NoteExcuse, Refreshing, calls
<1> QED BY <1>1, <1>2, <1>3, <1>4 DEF NoteExcuse

LEMMA LogOutInv == CInv /\ (LogOut \/ Revoke \/ Drop) => CInv'
<1> SUFFICES ASSUME CInv, LogOut \/ Revoke \/ Drop PROVE CInv'
  OBVIOUS
<1> USE DEF CInv, storage
<1>1. /\ UNCHANGED calls /\ UNCHANGED reused /\ excused' \in BOOLEAN
      /\ OneLeader' /\ (excused => excused')
      /\ ~excused' => \A c \in Calls : Refreshing(c) => ~LoggingOut'
  BY PersonFrame DEF LogOut, Revoke, Drop
<1>2. issued' = issued /\ revoked' \subseteq 0..issued
  BY DEF LogOut, Revoke, Drop, ClientTypes
<1>3. ClientTypes'
  BY <1>1, <1>2 DEF LogOut, Revoke, Drop, ClientTypes, calls, Keeping
<1>4. ASSUME Unrevoked, ~excused' PROVE Unrevoked'
  <2>1. \A c \in Calls : Refreshing(c)' => ~LoggingOut'
    BY <1>1, <1>4 DEF Refreshing, calls
  <2>2. me' \notin Keeping
    BY DEF LogOut, Revoke, Drop, Keeping
  <2>3. CASE LogOut
    <3>1. UNCHANGED <<revoked, refresh>> /\ me = "in"
      BY <2>3 DEF LogOut
    <3> QED BY <1>1, <1>4, <2>1, <2>2, <3>1 DEF Unrevoked, calls
  <2>4. CASE Revoke
    <3>1. me' = "drop access" /\ UNCHANGED refresh
      BY <2>4 DEF Revoke
    <3>2. \A c \in Calls : pc[c] \notin {"post"} \cup Saving
      BY <1>1, <1>4, <3>1 DEF Refreshing, LoggingOut, Saving
    <3> QED BY <1>1, <1>4, <2>1, <2>2, <3>1, <3>2 DEF Unrevoked, calls
  <2>5. CASE Drop
    <3>1. /\ revoked' = revoked /\ Nil \notin revoked
          /\ \/ me' = "drop refresh" /\ UNCHANGED refresh
             \/ me' = "out" /\ refresh' = Nil
      BY <2>5, NilNotRevoked DEF Drop
    <3> QED BY <1>1, <1>4, <2>1, <2>2, <3>1 DEF Unrevoked, calls
  <2> QED BY <2>3, <2>4, <2>5
<1> QED BY <1>1, <1>3, <1>4

\* The pair of a login is new, and is stored as it was given.
LEMMA LogInInv == CInv /\ (LogIn \/ Keep) => CInv'
<1> SUFFICES ASSUME CInv, LogIn \/ Keep PROVE CInv'
  OBVIOUS
<1> USE DEF CInv, storage
<1>1. /\ UNCHANGED calls /\ UNCHANGED reused /\ excused' \in BOOLEAN
      /\ OneLeader' /\ (excused => excused')
  BY PersonFrame DEF LogIn, Keep
<1>2. CASE LogIn
  <2>1. /\ me = "out" /\ me' = "keep access" /\ issued < MaxPairs
        /\ issued' = issued + 1 /\ mine' = issued' /\ UNCHANGED <<revoked, refresh>>
    BY <1>2 DEF LogIn
  <2>2. /\ issued' \in 0..MaxPairs /\ issued' \in 0..issued' /\ 0..issued \subseteq 0..issued'
        /\ issued' \notin 0..issued /\ issued' # Nil
    BY <2>1, NextPair DEF ClientTypes
  <2>3. revoked \subseteq 0..issued' /\ refresh \in 0..issued' \cup {Nil}
        /\ fresh \in [Calls -> 0..issued' \cup {Nil}]
    BY <2>2 DEF ClientTypes
  <2>4. ClientTypes'
    BY <1>1, <2>1, <2>2, <2>3 DEF ClientTypes, calls, Keeping
  <2>5. ASSUME Unrevoked PROVE Unrevoked'
    <3>1. /\ mine' \notin revoked /\ mine' # refresh
          /\ \A c \in Calls : fresh[c] # mine'
      BY <2>1, <2>2 DEF ClientTypes
    <3> QED BY <1>1, <2>1, <2>5, <3>1 DEF Unrevoked, Refreshing, LoggingOut, calls
  <2> QED BY <1>1, <2>4, <2>5
<1>3. CASE Keep
  <2>1. /\ UNCHANGED <<issued, revoked>> /\ me \in Keeping
        /\ \/ me' = "keep refresh" /\ UNCHANGED <<refresh, mine>>
           \/ me' = "in" /\ refresh' = mine /\ mine' = Nil
    BY <1>3 DEF Keep, Keeping
  <2>2. ClientTypes'
    BY <1>1, <2>1 DEF ClientTypes, calls, Keeping
  <2>3. ASSUME Unrevoked PROVE Unrevoked'
    BY <1>1, <2>1, <2>3 DEF Unrevoked, Refreshing, LoggingOut, calls, Keeping
  <2> QED BY <1>1, <2>2, <2>3
<1> QED BY <1>2, <1>3

\* After a kill nobody leads, and a revoked token in the storage is an excuse.
LEMMA KillInv == CInv /\ (Kill \/ Expire) => CInv'
<1> SUFFICES ASSUME CInv, Kill \/ Expire PROVE CInv'
  OBVIOUS
<1> USE DEF CInv, storage, server
<1>1. CASE Kill
  <2>1. /\ pc' \in [Calls -> Labels] /\ \A c \in Calls : pc'[c] \in {"idle", "answered"}
        /\ \A c \in Calls : c # Nil
    BY <1>1, ApiClientAssumption DEF Kill, Labels
  <2>2. ClientTypes'
    BY <1>1, <2>1 DEF Kill, ClientTypes, Saving, Keeping
  <2>3. OneLeader'
    BY <1>1, <2>1 DEF Kill, OneLeader, Leading, Saving, Clearing
  <2>4. (excused \/ Unrevoked)'
    BY <1>1, <2>1 DEF Kill, Unrevoked, Refreshing, Saving, Keeping
  <2> QED BY <2>2, <2>3, <2>4
<1>2. CASE Expire
  <2>1. UNCHANGED <<issued, revoked, storage, calls, person, history>>
    BY <1>2 DEF Expire
  <2> QED BY <2>1 DEF ClientTypes, OneLeader, Unrevoked, Refreshing, LoggingOut, calls, person, history
<1> QED BY <1>1, <1>2

-----------------------------------------------------------------------------
LEMMA NextInv == CInv /\ [Next]_vars => CInv'
<1>1. ASSUME CInv, NEW c \in Calls, Send(c) \/ Answer(c) \/ Resume(c) \/ RetryWaiter(c)
      PROVE  CInv'
  <2>1. /\ pc[c] \notin Leading /\ UNCHANGED <<server, storage, pending, person, history>>
        /\ fresh' = fresh \/ fresh' = [fresh EXCEPT ![c] = Nil]
        /\ \E l \in {"sent", "answered", "retry"} : Goto(c, l)
    BY <1>1 DEF Send, Answer, Resume, RetryWaiter, Answered, Leading, Saving, Clearing
  <2> QED BY <1>1, <2>1, FollowInv DEF Labels, Leading, Saving, Clearing
<1>2. ASSUME CInv, NEW c \in Calls, Continue(c) PROVE CInv'
  BY <1>1, <1>2, RefusedInv, ReadRefreshInv, PostRefreshInv, SaveInv, RetryLeaderInv, ClearInv
  DEF Continue
<1>3. ASSUME CInv, UNCHANGED vars PROVE CInv'
  BY <1>3 DEF CInv, vars, server, storage, calls, person, history, ClientTypes, OneLeader,
    Unrevoked, Refreshing, LoggingOut
<1> QED BY <1>1, <1>2, <1>3, LogOutInv, LogInInv, KillInv DEF Next

\* However calls, logins, logouts and kills overlap, the server is shown a refresh
\* token twice only after a logout met a refresh, or a kill met a rotation.
THEOREM ReuseSafety == Spec => []ReuseIsExcused
<1>1. CInv => ReuseIsExcused
  BY DEF CInv, Unrevoked, ReuseIsExcused
<1> QED BY <1>1, InitInv, NextInv, PTL DEF Spec

\* _pendingRefresh serialises the refreshes: two calls never lead one at a time, and
\* who does is the one the others wait for.
THEOREM OneRefresh == Spec => []OneLeader
<1>1. CInv => OneLeader
  BY DEF CInv
<1> QED BY <1>1, InitInv, NextInv, PTL DEF Spec
=============================================================================
