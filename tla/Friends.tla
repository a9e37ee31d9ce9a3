------------------------------ MODULE Friends ------------------------------
(***************************************************************************)
(* Friendships and what a profile shows of them (service/friend.go,        *)
(* service/profile.go and their repositories).  Every operation checks in  *)
(* one statement and writes in another; a row of friendships is named      *)
(* after the request that inserts it.                                      *)
(***************************************************************************)
EXTENDS Naturals, FiniteSets

CONSTANTS
  Users,
  Requests,      \* HTTP requests
  OldRows,       \* friendships that exist from the start
  OldFriendship, \* OldFriendship[f]: what row f says
  Nil

Rows == OldRows \cup Requests

Friendships == [from : Users, to : Users, status : {"pending", "accepted"}]
Pair(f) == {f.from, f.to}

ASSUME FriendsAssumption ==
  /\ OldRows \cap Requests = {} /\ Nil \notin Friendships \cup Users \cup Rows
  /\ OldFriendship \in [OldRows -> Friendships]
  /\ \A f \in OldRows : OldFriendship[f].from # OldFriendship[f].to
  /\ \A f, g \in OldRows : Pair(OldFriendship[f]) = Pair(OldFriendship[g]) => f = g

VARIABLES
  friendship, \* rows of friendships; Nil: no such row
  known,      \* history: the rows there were when SendRequest looked for one
  pc,         \* the next statement of a request
  caller,     \* the authenticated user
  peer,       \* the other user a request names
  subject,    \* the row a request is about
  answer      \* the response

requestVars == <<pc, caller, peer, subject, answer>>
friendVars == <<friendship, known>>

There == {f \in Rows : friendship[f] # Nil}
Between(u, v) == {f \in There : Pair(friendship[f]) = {u, v}}
Directed(u, v) == {f \in Between(u, v) : friendship[f].from = u}
IsFriend(u, v) == \E f \in Between(u, v) : friendship[f].status = "accepted"

Answers == {"none", "ok", "self", "exists", "notfound", "forbidden", "conflict",
            "shown", "hidden", "notfriends", "sent", "joined", "failed", "error"}

\* Steps of a request, those of Devices included.
Labels == {"idle", "create", "accept", "remove", "friends", "public", "cascade", "friend",
           "supersede", "update", "insert", "commit", "revoke", "withdraw", "send", "join",
           "done"}

FriendsTypeOK ==
  /\ friendship \in [Rows -> Friendships \cup {Nil}]
  /\ \A f \in There : friendship[f].from # friendship[f].to
  /\ known \in [Requests -> SUBSET Rows]
  /\ pc \in [Requests -> Labels]
  /\ caller \in [Requests -> Users \cup {Nil}] /\ peer \in [Requests -> Users \cup {Nil}]
  /\ answer \in [Requests -> Answers]

FriendsInit ==
  /\ friendship = [f \in Rows |-> IF f \in OldRows THEN OldFriendship[f] ELSE Nil]
  /\ known = [q \in Requests |-> {}]
  /\ pc = [q \in Requests |-> "idle"]
  /\ caller = [q \in Requests |-> Nil]
  /\ peer = [q \in Requests |-> Nil]
  /\ subject = [q \in Requests |-> Nil]
  /\ answer = [q \in Requests |-> "none"]

-----------------------------------------------------------------------------
Idle(q) == pc[q] = "idle"

\* The request of u, which names v and is about x, continues with label.
Start(q, u, v, x, label) ==
  /\ pc' = [pc EXCEPT ![q] = label]
  /\ caller' = [caller EXCEPT ![q] = u]
  /\ peer' = [peer EXCEPT ![q] = v]
  /\ subject' = [subject EXCEPT ![q] = x]
  /\ UNCHANGED answer

Goto(q, label) ==
  /\ pc' = [pc EXCEPT ![q] = label]
  /\ UNCHANGED <<caller, peer, subject, answer>>

\* The response is written, and the variables of the handler are gone.
Answer(q, a) ==
  /\ pc' = [pc EXCEPT ![q] = "done"]
  /\ answer' = [answer EXCEPT ![q] = a]
  /\ caller' = [caller EXCEPT ![q] = Nil]
  /\ peer' = [peer EXCEPT ![q] = Nil]
  /\ subject' = [subject EXCEPT ![q] = Nil]

-----------------------------------------------------------------------------
\* Mutant: GetExisting looks for the same direction only.
SendRequestOneWay(q, u, v) ==
  /\ Idle(q)
  /\ \/ u = v /\ Answer(q, "self") /\ UNCHANGED known
     \/ Directed(u, v) # {} /\ Answer(q, "exists") /\ UNCHANGED known
     \/ /\ u # v /\ Directed(u, v) = {}
        /\ known' = [known EXCEPT ![q] = There]
        /\ Start(q, u, v, Nil, "create")
  /\ UNCHANGED friendship

\* POST /friends/requests: GetExisting finds a row of either direction.
SendRequest(q, u, v) ==
  /\ Idle(q)
  /\ \/ u = v /\ Answer(q, "self") /\ UNCHANGED known
     \/ Between(u, v) # {} /\ Answer(q, "exists") /\ UNCHANGED known
     \/ /\ u # v /\ Between(u, v) = {}
        /\ known' = [known EXCEPT ![q] = There]
        /\ Start(q, u, v, Nil, "create")
  /\ UNCHANGED friendship

\* Create: UNIQUE (requester_id, addressee_id) knows one direction only; its
\* violation is an internal error.
CreateRequest(q) ==
  /\ pc[q] = "create"
  /\ \/ Directed(caller[q], peer[q]) # {} /\ Answer(q, "failed") /\ UNCHANGED friendship
     \/ /\ Directed(caller[q], peer[q]) = {}
        /\ friendship' = [friendship EXCEPT ![q] =
                            [from |-> caller[q], to |-> peer[q], status |-> "pending"]]
        /\ Answer(q, "ok")
  /\ UNCHANGED known

\* GetByID and the checks of AcceptRequest and RejectRequest.
LookupRequest(q, u, f, next) ==
  /\ Idle(q)
  /\ \/ f \notin There /\ Answer(q, "notfound")
     \/ /\ f \in There
        /\ \/ friendship[f].to # u /\ Answer(q, "forbidden")
           \/ /\ friendship[f].to = u /\ friendship[f].status # "pending"
              /\ Answer(q, "conflict")
           \/ /\ friendship[f].to = u /\ friendship[f].status = "pending"
              /\ Start(q, u, Nil, f, next)
  /\ UNCHANGED friendVars

AcceptRequest(q, u, f) == LookupRequest(q, u, f, "accept")
RejectRequest(q, u, f) == LookupRequest(q, u, f, "remove")

\* Unfriend: either side of a friendship, or the sender of a pending request.
Entitled(u, f) == f.from = u \/ (f.to = u /\ f.status = "accepted")

Unfriend(q, u, f) ==
  /\ Idle(q)
  /\ \/ f \notin There /\ Answer(q, "notfound")
     \/ f \in There /\ ~Entitled(u, friendship[f]) /\ Answer(q, "forbidden")
     \/ f \in There /\ Entitled(u, friendship[f]) /\ Start(q, u, Nil, f, "remove")
  /\ UNCHANGED friendVars

\* Accept: UPDATE ... WHERE id, whatever the row is by now.
Accept(q) ==
  /\ pc[q] = "accept"
  /\ friendship' = IF subject[q] \in There
                   THEN [friendship EXCEPT ![subject[q]].status = "accepted"]
                   ELSE friendship
  /\ Answer(q, "ok")
  /\ UNCHANGED known

\* Delete: DELETE ... WHERE id.
Remove(q) ==
  /\ pc[q] = "remove"
  /\ friendship' = [friendship EXCEPT ![subject[q]] = Nil]
  /\ Answer(q, "ok")
  /\ UNCHANGED known

\* GET /users/:id: the status of one of the rows of the two users, then the
\* profile, with friends_info if that row is an accepted friendship.
GetUserProfile(q, u, v) ==
  /\ Idle(q) /\ u # v
  /\ \/ Between(u, v) = {} /\ Start(q, u, v, Nil, "public")
     \/ \E f \in Between(u, v) :
          Start(q, u, v, Nil, IF friendship[f].status = "accepted" THEN "friends" ELSE "public")
  /\ UNCHANGED friendVars

ShowProfile(q) ==
  /\ \/ pc[q] = "friends" /\ Answer(q, "shown")
     \/ pc[q] = "public" /\ Answer(q, "hidden")
  /\ UNCHANGED friendVars

-----------------------------------------------------------------------------
FriendsStep(q) == CreateRequest(q) \/ Accept(q) \/ Remove(q) \/ ShowProfile(q)

FriendsNext ==
  \E q \in Requests :
    \/ \E u, v \in Users : SendRequest(q, u, v) \/ GetUserProfile(q, u, v)
    \/ \E u \in Users, f \in Rows :
         AcceptRequest(q, u, f) \/ RejectRequest(q, u, f) \/ Unfriend(q, u, f)
    \/ FriendsStep(q)

-----------------------------------------------------------------------------
(* Properties                                                              *)

\* Two users have one row, in one direction, unless their requests crossed: each
\* had looked for a row before the other was inserted.
Crossed(f, g) ==
  f \in Requests /\ g \in Requests /\ f \notin known[g] /\ g \notin known[f]
OneRowPerPair ==
  \A f, g \in There :
    Pair(friendship[f]) = Pair(friendship[g])
      => f = g \/ (Crossed(f, g) /\ friendship[f].from = friendship[g].to)
=============================================================================
