------------------------------ MODULE Devices ------------------------------
(***************************************************************************)
(* Devices, the delegation of their control to friends, and commands       *)
(* (service/{device,delegation}.go, their repositories, handler/{command,  *)
(* delegation}.go), on top of Friends.                                     *)
(*                                                                         *)
(* Grant runs in a READ COMMITTED transaction: an UPDATE that revokes the  *)
(* active delegation it sees, an INSERT, and the commit.  An UPDATE takes  *)
(* its snapshot when it begins, waits for rows that another transaction    *)
(* has changed, and then skips those that are revoked by now.  The INSERT  *)
(* waits for transactions that may yet change the active delegation        *)
(* (unique index of migration 6) and for one that deletes the device       *)
(* (foreign key).                                                          *)
(***************************************************************************)
EXTENDS Friends

CONSTANTS
  OldDevices, \* devices registered before
  OldOwner,   \* OldOwner[d]: the user of device d
  OldGrants,  \* delegations granted before
  OldDelegation

DeviceRows == OldDevices \cup Requests
Grants == OldGrants \cup Requests
Delegations == [device : DeviceRows, delegate : Users,
                state : {"active", "revoked", "deleted"}]

ASSUME DevicesAssumption ==
  /\ OldDevices \cap Requests = {} /\ OldGrants \cap Requests = {}
  /\ Nil \notin DeviceRows \cup Delegations
  /\ OldOwner \in [OldDevices -> Users]
  /\ OldDelegation \in [OldGrants -> {e \in Delegations : e.device \in OldDevices /\ e.state = "active"}]
  /\ \A g, h \in OldGrants : OldDelegation[g].device = OldDelegation[h].device => g = h

VARIABLES
  owner,      \* devices.user_id; Nil: never registered
  deleted,    \* the devices whose row is deleted
  delegation, \* rows of delegations; Nil: no such row
  snapshot,   \* the active delegations an UPDATE has seen at its start
  locked,     \* the delegations a transaction has revoked and not committed
  standing,   \* history: the delegations that were active when a request to end
              \* them arrived
  withdrawn,  \* history: the delegations of whose end the owner has been told
  ended       \* history: those when a command arrived

tables == <<owner, deleted, delegation>>
localVars == <<snapshot, locked>>
deviceVars == <<tables, localVars>>
historyVars == <<standing, withdrawn, ended>>
vars == <<requestVars, friendVars, deviceVars, historyVars>>

Registered == {d \in DeviceRows : owner[d] # Nil /\ d \notin deleted}
Owns(u, d) == d \in Registered /\ owner[d] = u
Active == {g \in Grants : delegation[g] # Nil /\ delegation[g].state = "active"}
ActiveOn(d) == {g \in Active : delegation[g].device = d}

DevicesTypeOK ==
  /\ FriendsTypeOK
  /\ owner \in [DeviceRows -> Users \cup {Nil}]
  /\ deleted \subseteq {d \in DeviceRows : owner[d] # Nil}
  /\ delegation \in [Grants -> Delegations \cup {Nil}]
  /\ \A g \in Active : delegation[g].device \in Registered
  /\ snapshot \in [Requests -> SUBSET Grants] /\ locked \in [Requests -> SUBSET Active]

Init ==
  /\ FriendsInit
  /\ owner = [d \in DeviceRows |-> IF d \in OldDevices THEN OldOwner[d] ELSE Nil]
  /\ deleted = {}
  /\ delegation = [g \in Grants |-> IF g \in OldGrants THEN OldDelegation[g] ELSE Nil]
  /\ snapshot = [q \in Requests |-> {}]
  /\ locked = [q \in Requests |-> {}]
  /\ standing = [q \in Requests |-> {}]
  /\ withdrawn = {}
  /\ ended = [q \in Requests |-> {}]

\* The transaction of q is over.
Close(q) ==
  /\ snapshot' = [snapshot EXCEPT ![q] = {}]
  /\ locked' = [locked EXCEPT ![q] = {}]

\* No other transaction has changed one of the delegations of S.
Untouched(q, S) == \A r \in Requests \ {q} : locked[r] \cap S = {}

\* Another transaction refers to the row of device d or deletes it.
Inserting(q, d) == \E r \in Requests \ {q} : pc[r] = "commit" /\ subject[r] = d
Deleting(q, d) == \E r \in Requests \ {q} : pc[r] = "cascade" /\ subject[r] = d

\* The server has committed; whether it has, the client may not learn.
Committed(q) == \E a \in {"ok", "error"} : Answer(q, a)

-----------------------------------------------------------------------------
(* Devices                                                                 *)

\* POST /devices: the device is of a model that the user has registered, and not
\* about to delete (UNIQUE (user_id, model)), or of another model.
Register(q, u) ==
  /\ Idle(q)
  /\ \/ /\ \E d \in Registered : owner[d] = u /\ ~Deleting(q, d)
        /\ Answer(q, "conflict")
        /\ UNCHANGED owner
     \/ owner' = [owner EXCEPT ![q] = u] /\ Answer(q, "ok")
  /\ UNCHANGED <<deleted, delegation, localVars, friendVars>>

\* DELETE /devices/:id: the row of the device is locked ...
DeleteDevice(q, u, d) ==
  /\ Idle(q)
  /\ \/ ~Owns(u, d) /\ Answer(q, "notfound")
     \/ /\ Owns(u, d) /\ ~Inserting(q, d) /\ ~Deleting(q, d)
        /\ Start(q, u, Nil, d, "cascade")
  /\ UNCHANGED <<deviceVars, friendVars>>

\* ... and ON DELETE CASCADE takes the delegations with it.
GrantsOn(d) == {g \in Grants : delegation[g] # Nil /\ delegation[g].device = d}
Put(S, state) == [g \in Grants |-> IF g \in S THEN [delegation[g] EXCEPT !.state = state]
                                             ELSE delegation[g]]

\* Mutant: the delegations stay.
DeleteOnly(q) ==
  /\ pc[q] = "cascade"
  /\ deleted' = deleted \cup {subject[q]}
  /\ Answer(q, "ok")
  /\ UNCHANGED <<owner, delegation, localVars, friendVars>>

DeleteCascade(q) ==
  /\ pc[q] = "cascade"
  /\ Untouched(q, GrantsOn(subject[q]))
  /\ deleted' = deleted \cup {subject[q]}
  /\ delegation' = Put(GrantsOn(subject[q]), "deleted")
  /\ Committed(q)
  /\ UNCHANGED <<owner, localVars, friendVars>>

-----------------------------------------------------------------------------
(* Delegation                                                              *)

\* POST /devices/:id/delegate: the device is the caller's, ...
Grant(q, u, d, v) ==
  /\ Idle(q)
  /\ \/ ~Owns(u, d) /\ Answer(q, "notfound")
     \/ Owns(u, d) /\ Start(q, u, v, d, "friend")
  /\ UNCHANGED <<deviceVars, friendVars>>

\* ... the delegate is a friend, ...
GrantFriend(q) ==
  /\ pc[q] = "friend"
  /\ \/ ~IsFriend(caller[q], peer[q]) /\ Answer(q, "notfriends")
     \/ IsFriend(caller[q], peer[q]) /\ Goto(q, "supersede")
  /\ UNCHANGED <<deviceVars, friendVars>>

\* ... and the transaction begins: UPDATE delegations SET revoked_at, here and
\* in Revoke.
BeginUpdate(q, from, to) ==
  /\ pc[q] = from
  /\ snapshot' = [snapshot EXCEPT ![q] = ActiveOn(subject[q])]
  /\ Goto(q, to)
  /\ UNCHANGED <<tables, locked, friendVars>>

GrantBegin(q) == BeginUpdate(q, "supersede", "update")

GrantUpdate(q) ==
  /\ pc[q] = "update"
  /\ Untouched(q, snapshot[q])
  /\ locked' = [locked EXCEPT ![q] = snapshot[q] \cap Active]
  /\ snapshot' = [snapshot EXCEPT ![q] = {}]
  /\ Goto(q, "insert")
  /\ UNCHANGED <<tables, friendVars>>

\* Mutant: a transaction that PostgreSQL has aborted keeps its locks.
RollbackForgotten(q, a) ==
  /\ Answer(q, a)
  /\ IF a = "failed" THEN UNCHANGED localVars ELSE Close(q)
  /\ UNCHANGED <<tables, friendVars>>

Rollback(q, a) == Answer(q, a) /\ Close(q) /\ UNCHANGED <<tables, friendVars>>

\* Mutant: there is no unique index of active delegations.
GrantInsertAnyway(q) ==
  /\ pc[q] = "insert"
  /\ ~Deleting(q, subject[q])
  /\ \/ subject[q] \notin Registered /\ Rollback(q, "failed")
     \/ /\ subject[q] \in Registered
        /\ Goto(q, "commit")
        /\ UNCHANGED <<deviceVars, friendVars>>

\* INSERT INTO delegations: waits as long as it is open whether the device and
\* another active delegation of it will be there, and fails if there is no
\* device or another delegation.
GrantInsert(q) ==
  /\ pc[q] = "insert"
  /\ ~Deleting(q, subject[q]) /\ ~Inserting(q, subject[q])
  /\ Untouched(q, ActiveOn(subject[q]))
  /\ \/ subject[q] \notin Registered /\ Rollback(q, "failed")
     \/ ActiveOn(subject[q]) \ locked[q] # {} /\ Rollback(q, "failed")
     \/ /\ subject[q] \in Registered /\ ActiveOn(subject[q]) \subseteq locked[q]
        /\ Goto(q, "commit")
        /\ UNCHANGED <<deviceVars, friendVars>>

GrantCommit(q) ==
  /\ pc[q] = "commit"
  /\ delegation' = [Put(locked[q], "revoked") EXCEPT ![q] =
                      [device |-> subject[q], delegate |-> peer[q], state |-> "active"]]
  /\ Committed(q) /\ Close(q)
  /\ UNCHANGED <<owner, deleted, friendVars>>

\* DELETE /devices/:id/delegate
Revoke(q, u, d) ==
  /\ Idle(q)
  /\ \/ ~Owns(u, d) /\ Answer(q, "notfound")
     \/ Owns(u, d) /\ Start(q, u, Nil, d, "revoke")
  /\ UNCHANGED <<deviceVars, friendVars>>

RevokeBegin(q) == BeginUpdate(q, "revoke", "withdraw")

RevokeUpdate(q) ==
  /\ pc[q] = "withdraw"
  /\ Untouched(q, snapshot[q])
  /\ delegation' = Put(snapshot[q] \cap Active, "revoked")
  /\ Committed(q) /\ Close(q)
  /\ UNCHANGED <<owner, deleted, friendVars>>

\* PostgreSQL aborts one of a deletion and a grant that wait for each other.
DeadlockVictim(q) ==
  /\ \E r \in Requests : /\ {pc[q], pc[r]} = {"cascade", "insert"}
                         /\ subject[q] = subject[r]
                         /\ locked[q] \cup locked[r] # {}
  /\ Rollback(q, "failed")

\* The client goes away, or the database fails: the transaction is rolled back.
Cancel(q) == pc[q] \notin {"idle", "done"} /\ Rollback(q, "error")

-----------------------------------------------------------------------------
(* Commands                                                                *)

\* Mutant: revoked_at IS NULL is missing.
AuthorizedEver(u, d) ==
  \/ Owns(u, d)
  \/ \E g \in GrantsOn(d) : delegation[g].state # "deleted" /\ delegation[g].delegate = u

\* IsAuthorized
Authorized(u, d) == Owns(u, d) \/ \E g \in ActiveOn(d) : delegation[g].delegate = u

\* RequireDelegateOrOwner, in front of POST .../command and GET .../ws.
Require(q, u, d, next) ==
  /\ Idle(q)
  /\ \/ ~Authorized(u, d) /\ Answer(q, "forbidden")
     \/ Authorized(u, d) /\ Start(q, u, Nil, d, next)
  /\ UNCHANGED <<deviceVars, friendVars>>

\* Send hands the command to the room of the device; ServeDeviceWS joins it (Hub).
Send(q, u, d) == Require(q, u, d, "send")
ServeDeviceWS(q, u, d) == Require(q, u, d, "join")

Proceed(q) ==
  /\ \/ pc[q] = "send" /\ Answer(q, "sent")
     \/ pc[q] = "join" /\ Answer(q, "joined")
  /\ UNCHANGED <<deviceVars, friendVars>>

-----------------------------------------------------------------------------
Begin(q) ==
  \E u \in Users :
    \/ Register(q, u)
    \/ \E d \in DeviceRows :
         \/ DeleteDevice(q, u, d) \/ Revoke(q, u, d) \/ Send(q, u, d) \/ ServeDeviceWS(q, u, d)
         \/ \E v \in Users : Grant(q, u, d, v)

Continue(q) ==
  \/ DeleteCascade(q) \/ GrantFriend(q) \/ GrantBegin(q) \/ GrantUpdate(q) \/ GrantInsert(q)
  \/ GrantCommit(q) \/ RevokeBegin(q) \/ RevokeUpdate(q) \/ Proceed(q)

Next ==
  \/ FriendsNext /\ UNCHANGED deviceVars
  \/ \E q \in Requests : Begin(q) \/ Continue(q) \/ DeadlockVictim(q) \/ Cancel(q)
  \/ (\A q \in Requests : pc[q] = "done") /\ UNCHANGED vars

\* History: a grant, a revocation or a deletion ends the delegations that stood
\* when it arrived, and its success tells the owner so; a command or a join is
\* held against what the owner knew when it arrived.
Succeeds(q) == answer[q] # "ok" /\ answer'[q] = "ok"
Arrives(q, labels) == pc[q] = "idle" /\ pc'[q] \in labels
Record ==
  /\ standing' = [q \in Requests |->
                    CASE Arrives(q, {"friend", "revoke", "cascade"}) -> ActiveOn(subject'[q])
                      [] pc'[q] = "done" -> {}
                      [] OTHER -> standing[q]]
  /\ withdrawn' = withdrawn \cup UNION {standing[q] : q \in {r \in Requests : Succeeds(r)}}
  /\ ended' = [q \in Requests |->
                 CASE Arrives(q, {"send", "join"}) -> withdrawn
                   [] pc'[q] = "done" -> {}
                   [] OTHER -> ended[q]]

Spec == Init /\ [][Next /\ Record]_vars

\* A request that has begun is run to its end, and deadlocks are detected.
Step(q) == (FriendsStep(q) /\ UNCHANGED deviceVars) \/ Continue(q) \/ DeadlockVictim(q)
FairSpec == Spec /\ \A q \in Requests : WF_vars(Step(q) /\ Record)

-----------------------------------------------------------------------------
(* Properties                                                              *)

\* There is always at most one active delegation per device (docs/delegation.md),
\* however grants, revocations and deletions overlap.
OneActive == \A d \in DeviceRows : Cardinality(ActiveOn(d)) <= 1

\* A command is sent, and the room of a device is joined, only by the owner of
\* the device or by the holder of a delegation of whose end the owner had not
\* been told when the request arrived: once a revocation, a grant to somebody else
\* or the deletion of the device has succeeded, none that was active when it
\* arrived admits anybody, whichever of several overlapping requests has ended it.
\* The middleware admits the delegate to the room of the device too (comment of
\* ServeDeviceWS), unlike docs/command.md.
Admitted(q) == answer[q] \notin {"sent", "joined"} /\ answer'[q] \in {"sent", "joined"}
CommandsPermitted ==
  [][\A q \in Requests : Admitted(q) =>
       \/ owner[subject[q]] = caller[q]
       \/ \E g \in GrantsOn(subject[q]) \ ended[q] : delegation[g].delegate = caller[q]]_vars

\* No request waits for ever for the locks of others.
RequestsEnd == \A q \in Requests : pc[q] # "idle" ~> pc[q] = "done"
=============================================================================
