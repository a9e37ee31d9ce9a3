# Music Room in TLA+

A model of the Music Room server (Go, `src/server`) and of the parts of its
client application (Flutter, `src/lib`) that keep a replica of server state:
what the concurrent code promises, checked with TLC on small instances and, but for
liveness, proved with TLAPS for every instance.

## 1. The system

| Component | State | Operations |
|---|---|---|
| WebSocket hub (`internal/hub`) | map entity → hub; per hub a client map, three channels, `stopped`; per connection a send channel and two goroutines | connect, register, unregister, broadcast, evict a slow client, stop and remove an empty hub |
| Playlists (`{handler,service,repository}/playlist.go`) | `playlists`, `playlist_invites`, `playlist_tracks(position)` | CRUD, invite; add, remove and move a track, each followed by a broadcast |
| Events (`{handler,service,repository}/{event,track}.go`) | `events` (licence, geofence, voting window), `event_invites`, `tracks(vote_count)`, `votes` | CRUD, invite; suggest, vote (followed by a broadcast), delete a track |
| Live queue (`handler/track.go`, `features/track_vote`) | the queue shown by each screen, votes sent and not answered | load, apply update, optimistic vote and revert |
| Playlist editor (`features/playlist_editor`) | the list shown, edits sent and not answered, read-only or not | load, apply an event of the room, optimistic removal and move, revert |
| Sessions (`internal/auth`, `repository/token.go`) | refresh tokens (rows with `revoked_at`, `expires_at`); stateless access tokens | login, refresh (rotation, reuse detection), logout |
| Accounts (`service/auth_service.go`, `auth/google.go`) | users, verification and reset links, OAuth providers | register, verify, resend, forgot, reset, sign in with Google, link a Google account |
| Friends (`service/friend.go`) | `friendships(status)` | request, accept, reject, unfriend; what a profile shows |
| Devices, delegation, commands | `devices`, `delegations(revoked_at)` | register, delete, grant, revoke, send a command to the device's room |
| API client (`lib/core/api/api_client.dart`, `auth_provider.dart`) | stored tokens, the refresh in progress | 401 interceptor, login, logout, restart |
| WebSocket client (`web_socket_service.dart`) | socket, retry timer, attempts | connect, reconnect, disconnect |
| Device screens (`features/devices`) | playback shown, command in flight, audio player of the owner | send a command, apply the echo, cast a playlist, load and play |
| Profiles, music catalogue, middleware, start-up, screens | no state across rows or goroutines of their own | |

HTTP handlers run concurrently, one goroutine per request; they share nothing
but PostgreSQL and the `HubManager`. A handler that has changed a playlist, or
has stored a vote, publishes a message in the room of the entity; the clients
in the room replace or patch their replica. A handler that checks access does
so with a query of its own before the statement or transaction that writes.

What is hard here: goroutines and channels in the hub (shutdown of a room while
others enter it); transactions of different isolation levels on the rows of one
playlist; a counter that duplicates the number of votes; checks that are
separated from the writes they guard; broadcasts that are not ordered with the
commits they announce; clients that show unconfirmed changes while reloads,
updates and answers arrive in any order; tokens that are rotated by concurrent
requests; timers, awaits and screens that end in the middle of either. The file
`PROJECT.json` lists each of these hazards at its line, with the property that covers
it and what that property excepts.

## 2. Modules

| Module | What it is |
|---|---|
| `Room` | Abstract: one room per entity; publishing is one atomic step |
| `Hub` | The hub: goroutines, channels, the manager's mutex |
| `HubRoom` | Refinement mapping from `Hub` to `Room`; the inductive invariant |
| `HubProofs` | Theorems about `Hub` |
| `PlaylistOrder` | Abstract: a playlist is a list, every edit is atomic |
| `PlaylistTracks` | `AddTrack`, `RemoveTrack`, `MoveTrack`, statement by statement |
| `PlaylistRefinement` | Refinement mapping from `PlaylistTracks` to `PlaylistOrder` |
| `PlaylistProofs` | Theorems about `PlaylistTracks`, `PlaylistRefinement` and `PlaylistScreens` |
| `VoteTally` | Abstract: a queue with ballots and counts, every operation is atomic |
| `EventVotes` | One event: settings, licence check, suggestion, voting transaction, deletions |
| `EventRefinement` | Refinement mapping from `EventVotes` to `VoteTally`; the inductive invariant |
| `EventVotesProofs` | Theorems about `EventVotes` |
| `EventQueue` | The live queue: vote, broadcast, room, screens; extends `VoteTally` |
| `EventQueueProofs` | Theorem about `EventQueue` |
| `PlaylistScreens` | One playlist: who may see and edit it, its edits and their broadcasts, the editor screens |
| `Sessions` | Refresh tokens: rotation, reuse detection, logout, expiry |
| `Accounts` | Users, links and Google accounts; extends `Sessions` |
| `AccountsProofs` | Theorems about `Accounts` and `Sessions` |
| `Friends` | Friendships and what a profile shows of them |
| `Devices` | Devices, delegations, commands; extends `Friends` |
| `DevicesProofs` | Theorems about `Devices` and `Friends` |
| `ApiClient` | The app's interceptor, its token storage, login and logout |
| `ApiClientProofs` | Theorems about `ApiClient` |
| `WsClient` | The reconnecting WebSocket, its timer and the retry button |
| `DeviceScreen` | The remote control of a device and its player: commands, echoes, loads; extends `WsClient` |
| `DeviceScreenProofs` | Theorems about `WsClient` and `DeviceScreen` |
| `HubMC`, `PlaylistMC`, `EventMC`, `EventQueueMC`, `PlaylistScreensMC`, `AccountsMC`, `DevicesMC`, `ApiClientMC`, `DeviceScreenMC` | Instances for TLC and refinement mappings |

`EventQueue` composes the other two layers by what they promise: its database is
`VoteTally`, which `EventVotes` is proved to implement, and its room behaves as
`Room`, which `Hub` is proved to implement (except that slow readers are not
told apart from connections that break). `PlaylistScreens` composes in the same
way: an edit takes effect in one step on a list, as `PlaylistOrder` says, and its
room is `Room`. `Accounts` and `Sessions` share the request that acts, and so do
`Devices` and `Friends`: a step of either is a statement of one HTTP request.
`ApiClient` has the server's side of a refresh (`PostRefresh`) as `Sessions` has it,
for one user and without overlapping requests at the server. `DeviceScreen` runs on
the socket of `WsClient` step for step: a step of the socket takes what is on its way
with it (`Linked`), and what a tap does depends on the state the service has announced.

Definitions named *Mutant* in a comment are wrong variants of the definition
that follows them. They are not part of the model: each shows that a property
notices a plausible mistake in the code.

### Hub

`hubs` is `HubManager.hubs`; `phase[h]` is the life of a `Hub`: `run` is running,
`h.stopped` is closed (but `onEmpty` waits for the mutex), `run` has returned.
`clients`, `hadClients` and `queue` are the map, the local variable and the
broadcast channel of `Hub.run`. Per connection, `serve` is the program counter
of `ServeWS`, `reader` and `writer` those of the pumps, `feed` and `taken`
together the send channel: what was put in and how much was taken out.

A step is one channel operation, one critical section or one frame. The
unbuffered channels `register` and `unregister` are a joint step of the two
goroutines. A `select` with several ready cases is a choice. That a closed
`stopped` channel and room in the buffer of `broadcast` may both be ready is why
`Enqueue` may put a message into the buffer of a hub that has stopped.

Left out: `Len`, failures of the upgrade, read limits and deadlines (a missed
pong is `PeerLeaves`), the payload of messages.

### Playlist tracks

One action per SQL statement, two for those that compute from a snapshot and
then wait for row locks (`RecompactRead`/`RecompactWrite`, `AddRead`/`AddInsert`).
`pos` is the committed column, `write` what a transaction has written and not
committed; `snap`, `changed` and `overtaken` are what PostgreSQL knows about a
SERIALIZABLE transaction. The definitions for PostgreSQL are marked external:
they follow its documented behaviour as far as these statements depend on it.
`SerializableWrite` and `MoveCommit` fail a move when a row it writes changed, or
when another move of the playlist committed, after its snapshot: both have read
all rows with `COUNT` and each has written what the other read. READ COMMITTED
transactions take no part in that ordering, and a removal can only fail a move
through the rows both write. `raced` is history: an addition has inserted a position
that was not the one after the last any more, or while a removal had already numbered
the rows. For a removal, `overtaken` is history too: a move has committed since it
numbered the rows.

### Event

`EventVotes` follows a suggestion or a vote through `GetAccessible`,
`enforceLicense`, its query for invitations, the query for the track and the
three steps of the voting transaction. Other requests run between any two of
them. Positions and geofences are places, in range or not (the haversine formula
is arithmetic on floats and left to its unit tests); a voting window is a set of
clock values. The owner's requests are one step each, because what they check
beforehand (ownership) cannot change. Row locks and ON DELETE CASCADE are the
guards of `InsertBallot`, `Increment` and `Discard`.

A statement that fails, or a request that is cancelled, before the statement that commits is
sent stores nothing (outcome `aborted`). `tx.Commit`, and the INSERT of a suggestion, may
return an error although the server has committed: `CommitVote`, `AddTrack` and `Cancel`
then answer `unknown`, and `AcceptedOnce` says of such a request only that it may have
left its ballot. `known` and `began` are history, kept by `Record` at every step: the
settings in force since the access check of a request, and when it was. `LicenseRespected` asks
of the step that stores a track or a vote that one of these settings admits the caller, at
a time since then.

`EventQueue` follows one tap on the vote button from the screen
(`Upvote`) through the handler (`Vote`, `CheckHub`, `FetchQueue`, `Publish`) and
the room (`Deliver`) to all screens (`ApplyUpdate`). `base` is the queue the
server last told a screen, `view` what it shows, with its own unconfirmed votes.
An answer may be lost, or come late, after the handler has done its work.
`Restless` users open, close, reload and reconnect at any time; the others stay.

### Accounts and sessions

A request is a program counter `pc[q]` with the user and the token it has read;
one action is one statement or transaction, and any statement in the middle of a
request may fail (`Fail`), with everything before it committed. A row of
`refresh_tokens` (a *pair*, with the access token issued with it), a user and a
link are named after the request that inserts them, so that a bound on requests
bounds everything. Access tokens are no state of the server: `stale` are the pairs
whose access token has expired, `expired` those whose refresh token has too.
`email`, `password`, `verified` and `provider` are columns of `users` and
`user_providers`; `password[u]` is who chose it. `Lower` is `normalizeEmail`, which
`Register`, `ResendVerification` and `ForgotPassword` apply and `Login` and
Google's sign-in do not. `parent` and `origin` are history: what a pair was
exchanged for, and the login it descends from.

UNIQUE constraints that the code relies on are guards: `GoogleCreate` and
`GoogleConnect` can only `Fail` where the insertion would violate one.

### Friends, devices and delegations

Here too every operation checks in one statement and writes in a later one.
`Accept` and `Remove` act on a row by its id whatever has become of it.
`Grant` is a READ COMMITTED transaction: `GrantBegin` takes the snapshot of the
UPDATE, `GrantUpdate` waits for rows others have changed and locks those that are
still active, `GrantInsert` waits for whoever may change the answer of the unique
index of active delegations or of the foreign key, `GrantCommit` makes it visible.
`DeadlockVictim` is PostgreSQL's choice when a grant and a deletion of the device
wait for each other. The model of a device is not a variable: `Register` succeeds with a new
one, or meets `UNIQUE (user_id, model)` if the user has a device. A COMMIT whose answer
is lost is one that takes effect and is answered by an error (`Committed`).

`known`, `standing`, `withdrawn` and `ended` are history for the properties: the friendships
there were when `SendRequest` looked; the delegations that were active when a request to end
them (a revocation, a grant to somebody else, a deletion) arrived; those of whose end the owner
has been told by the success of such a request, which counts as given when the request
has ended at the server; and these when a command or a join arrived. A delegation may have been
ended by another request than the one that tells the owner, so `CommandsPermitted` does not
restate the check of the middleware.

### Playlist screens

An edit begins on a screen (`BeginEdit`; removals and moves are shown at once), is
checked in one or two statements, written (`Write`), published to those in the
room and answered. The answer may be lost: a time-out is an error to the screen,
which takes the edit back although it has been done (`Confirm`). A load reads
access, tracks and invitation in three statements; while a reload is under way the
old list stays and takes events. Any statement of an edit may fail with an internal error
(`InternalError`); if only the answer of COMMIT was lost, the edit is done, its screen takes it
back and nobody is told. `missed` and `overlapped` are history: which
screens an edit has happened to unnoticed, and whether anything began before
something else was over.

### API client

One action per `await` of the interceptor (`Refused` up to the first, `ReadRefresh`,
`PostRefresh`, `SaveAccess`, `SaveRefresh`, `RetryLeader`, `Clear`), of `login` and of
`logout`. A completer is the pair `settled`, `outcome`. `RetryLeader` has the path of
the code in which the leader's own second attempt fails after the waiters were
released: completing the completer again throws, the caller of that request
is never answered (`hung`), and only `pending` is reset. Access and refresh token
of a pair have the same number. The app may be killed between any two awaits.

### WebSocket client

A slot is one call of `_openSocket`, from the timer that will make it over its awaits
(`TokenRead`, `Ready`, `HandshakeFails`) to the end of the socket it opens; slots are
used again, so that the number of reconnections is not bounded. `channel`,
`subscription`, `retryTimer`, `attempt` and `intentionalClose` are the fields. Of
web_socket_channel the model assumes that no event follows the cancellation of a
subscription, and that the cancellation does not close the socket (the contract of
`StreamChannel`). Editor and event screens have a retry button (`hasButton`), device
screens have not. `Draw` is a frame: the button is there while the screen shows an error
that follows a first connection, whatever the state is by now. `Impatient` says whether it
may be tapped again before the next frame. `stranded` is the case that reading the token
throws, which nothing catches.

### Device screens

`Tap` is `_send` up to its await, where the state of the socket is read; `Send` is the
handler, `Finish` the answer, after which a command is applied if the socket was not
connected at the tap; `GiveUp` may leave a request behind that the server still serves.
`OtherTaps` are the commands of other screens. `Join`, `Deliver` and `Receive` are the
room and the echo; a connection can be in the room before the client hears of it, and
connected before it is in the room. `Reconcile` is the listener of the state; a call of
`_loadAndPlay` is an element of `loads`, with the track it has chosen before its first
await. Of just_audio the model assumes that the last `setUrl` wins (`Latest`): an earlier call
of `_loadAndPlay` fails, or goes on to its end if its own `setUrl` had returned before. It
also assumes that `play` and `pause` set a flag that survives `setUrl`. The screen of a
delegate is the same without a cast. `truth`, `slipped` and `disturbed` are history.
Left out: the volume and the label, which overwrite.

## 3. Runs

Bounds are named in the `.cfg` files and the MC modules. Deadlock is checked except
where the system may come to rest anywhere (`Client`, `PlaylistScreens`, and the
violations).

| Run | Question | Bounds, and why they are enough |
|---|---|---|
| `HubSafety` | Can a room be split, mixed, lose order or panic? | Two connections, two entities, one publisher, three messages, a send buffer of 1: a hub can stop and be replaced while the other connection is anywhere in `ServeWS`; either connection can be too slow while the other is not. The proofs below are for any number. Hubs and clients are interchangeable (symmetry). |
| `HubLiveness` | Does everything that waits get on? | One entity, two connections, two hubs, two messages, buffers of 1 so that they fill; no symmetry |
| `PlaylistEdits` | Which combinations of edits keep positions 1..n and the order, and do requests end? | Three rows and two that may be added, one of which may carry the song being removed; any three of two additions, two removals and two moves |
| `PlaylistMoveRemove` | Does a removal keep the order of the others? | violated |
| `PlaylistScreens` | Do screens end with the list? Does everybody who edits have the right to? | Two screens of two users, two tracks and one to add, two edits. One thing may begin before the first edit is over (of a public playlist anyone may edit); settings change before the screens open and while an edit is being checked (`Bounded`). |
| `EventTally` | One ballot per user and track, exact counts, nobody let in whom no settings admit, every commit one operation on the tally? Can updates make `enforceLicense` follow a nil pointer? Do requests end? | One track, two votes of one user, one of another and a suggestion, every licence, a window that opens and closes (`MaxClock` 2); invitations, cancellation and deletion at any time; one COMMIT whose answer is lost. Every body of an update over two values per field while nothing is under way; once, the licence and whether the event is public change during one suggestion or one vote, and the window closes only during these; votes that overlap do so under fixed settings (`Bounded`). The proofs are without these bounds. |
| `QueueScreens` | Do screens show only votes that exist, and all of them? | Two users, one vote each, one of the users restless |
| `QueueOrder` | Are the watchers up to date when all is quiet? | violated |
| `Accounts` | What can concurrent and failing requests about accounts, links and tokens not do? | Two old users, one session, two Google accounts (of an old user's address and of a new one), four addresses, three requests of any kind: the hazards need two requests that overlap and one that profits |
| `Social` | One friendship per pair, one active delegation per device, commands only by those entitled, nobody blocked? | Three users, a friendship and a request, one device with a delegation, three requests of any kind, which begin in the order of their names (`InOrder`: they are interchangeable): two overlap, the third sets the stage or observes |
| `Client` | Does the app trip the reuse detection? Are waiting calls released? | Two calls, two further pairs, one kill; the app is killed during a refresh, and no login or logout begins once a revoked token may be about (`Bounded`) |
| `DeviceScreen` | Is there ever more than one connection, one left behind, or no end to connecting? Does a device screen show what the server has accepted, and does the player follow? | Two slots (a call and a dying socket), two attempts, any number of connections, losses and retries; screens with a retry button, redrawn between two taps, and device screens with two commands of any screen, casts and loads at any time, followed until the first command the property excepts. Two commands overlap, and a command meets a load. The proofs below are for any number of attempts and slots. |

Where additions meet additions or removals, or moves meet removals, the list *is*
disturbed. `GaplessUnlessRaced` says that an addition whose position is out of date when
it is inserted is the only cause of a gap or a duplicate; `ImplementsOrder`, that a commit
which is no append, deletion or move of the list needs two additions, one of them outrun,
or a removal that has numbered the rows before a move committed (`Outdated`): such a removal
disturbs the order that the move has set, but leaves no gap. A removal that waits for a
move to commit and numbers the rows afterwards disturbs nothing.

### Fairness

- Hub: weak fairness of every step of a goroutine that does not depend on the
  peer. Go's scheduler runs every goroutine that is ready, `select` chooses
  uniformly among ready cases, and `sync.Mutex` has a starvation mode. No
  fairness for the peer, for reads of messages, or for the start of a publication.
- Playlist, event, friends and devices: weak fairness of the next statement of a
  request that has begun. PostgreSQL detects deadlocks after `deadlock_timeout`;
  nobody is obliged to make a request or to cancel one.
- Live queue: weak fairness of handlers, of delivery in the room and of the
  application of what has arrived; nothing for users and connections.
- API client: weak fairness of the awaits of a call, which end by themselves
  (storage; answers, for which dio waits ten seconds; completers that have a
  value). Nothing for the person, the expiry of tokens and the end of the app.
- WebSocket client: weak fairness of each call and socket: the storage answers, a
  handshake ends one way or the other (the system's time-outs), timers fire, the
  events of a broken socket are delivered. Nothing for the server's acceptance, for
  breaks, frames and taps: `Settles` holds because the attempts run out.

### Findings

1. `PlaylistMoveRemove`: a removal writes positions computed before a move committed
   and so reverts part of that move; the order of the remaining tracks changes.
2. `QueueOrder`: two votes whose broadcasts cross leave everybody in the room with
   a queue that lacks one of them, until the next vote or reload.

Seen while modelling, without a run of their own:

- The retry of `ServeWS` may get the hub that has just refused the client, because
  the entry is deleted only when `onEmpty` gets the mutex; the client has to
  reconnect. The comment in `manager.go` that a concurrent `GetOrCreate` may have
  replaced a hub before `onEmpty` runs describes something that cannot happen
  (`StoppedHubStaysMapped`, proved).
- An addition concurrent with a removal leaves a gap until the next removal; two
  concurrent additions get the same position (there is no UNIQUE constraint on it). A move
  that loses against another is not retried, and the client gets an error
  (`docs/playlist_track_management.md` says PostgreSQL retries).
- Of two concurrent grants of one device the second may be answered by an internal
  error, because its UPDATE has not seen the delegation of the first
  (`docs/delegation.md`: "Granting a second delegation does not return an error").
- The owner of an event votes and suggests whatever its licence (`service/track.go:107`), though
  `docs/license_enforcement.md` exempts nobody (lines 11-12) and its example expects the
  creator's own token to be answered by 400 and 403 `OUT_OF_RANGE` (lines 129-137).
- A delegate can join the room of a device (the comment of `ServeDeviceWS` says so), though
  `docs/command.md:35` ("Only the device owner can connect. Non-owners receive `403`.") and
  `device_detail_screen.dart:17-20` of the client say otherwise.
- If the answer of COMMIT is lost, a vote that is answered by an internal error has been counted,
  and an edit of a playlist that the screen takes back has been made and is not broadcast.
- Two taps on the retry button between two frames open two connections; the first is
  overwritten without being closed and outlives the screen. (`OneConnection` fails with
  `Impatient = TRUE`; `WsNotifier` promises one connection per path, torn down with the
  last listener.)
- A `next` sent while the socket is down is applied by the answer and, if the socket is
  back in time, once more by the echo, the double count that the comment of `sendCommand`
  rules out. If the socket was connected and breaks, the command is not counted at all.
- A pause that arrives while a track is being loaded has no effect on the player; in the
  same way a slow load replaces the track of a later one.
- Two refreshes of one token that overlap between lookup and revocation both
  succeed (`SECURITY.md` calls the tokens one-time-use); a refresh that has passed its
  check survives a logout and the reuse detection, whose own error is ignored.
  `Logout` revokes one token; access tokens outlive it, and a password reset ends
  no session.
- `Login` and Google's sign-in compare the address as it is spelled with one that
  `Register` has put in lower case.
- Friend requests that cross leave two rows; `Unfriend` deletes one of them, and the
  profile shows the state of either. A request that is withdrawn while it is being
  accepted is accepted all the same in the answer. Delegations outlive the
  friendship, and a delegate in the room of a device outlives the delegation.
- Playlist screens whose edits or loads overlap may differ from the list until they
  are opened again: broadcasts may cross, a failed edit restores a snapshot that
  lacks the events since, events before the first load are dropped, a reconnection
  does not reload.
- The interceptor leaves the caller of the leading request without an answer when
  its second attempt fails. A logout during a refresh leaves the new tokens in the
  storage; `clearTokens` of a failed refresh may delete the tokens of a later login;
  a kill between the rotation and the storage makes the next start present a
  revoked token, which ends all sessions of the user.
- A socket whose first connection fails four times shows no banner and no button,
  because the banner waits for a first connection: only leaving the screen helps. If
  the secure storage throws, the screen says connecting for ever.
- A playlist that is cast while the device is playing is not loaded until the next
  change of the state.
- The documentation gives the radius of the geofence in metres in one place and
  kilometres in another.

## 4. Proofs

`HubProofs` proves, for all sets of entities, hubs, clients and publishers and
all positive buffer sizes, that `Spec` implies the invariants `TypeOK`, `NoPanic`,
`RunningHubIsMapped` (the last two checked by a run) and `OpenIffMember`, `EmptyIffStopped`,
`StoppedHubStaysMapped`. The only assumption is `HubAssumption` (positive buffers,
distinct kinds of identity).

None of them is inductive alone. That no channel is closed twice needs that a
client is in the map of its own hub only and only while its channel is open
(`ClientInv`); that in turn needs to know where `ServeWS` is, because a client is
added to a map before its pumps start (`ServeInv`). That a room is not split
needs that the manager's entry and the hubs that have not returned correspond
one to one (`ManagerInv`), including the hub that has stopped and still waits for
`onEmpty`; that a stopped hub is empty needs the relation between `hadClients`
and the map (`HubInv`). `IInv` in `HubRoom` is their conjunction; `HubProofs` shows
that `Init` implies it and that each action preserves it, one lemma per part.

`HubImplementsRoom` is the refinement `Spec => ImplementsRoom`, step by step. The members of
the room of an entity are those in the map of any hub created for it; `Deliver` is the
publication, evictions included, joining and leaving are those of the hub, and every other
step is a stutter. This needs two more invariants (`MInv`): a message is for the entity of
the queue it is in (`AddressInv`), so that a room never gets the messages of another, and
no message is in two places or twice in one (`UniqueInv`), so that what is delivered is new
to everybody. That a publication reaches all members needs `ManagerInv`: the clients of an
entity are in the map of one hub.

`EventVotesProofs` proves, for all users (finitely many), tracks, requests,
settings and updates, that `Spec` implies `TypeOK`, `CountExact`, `AcceptedOnce`,
`NoNilDereference`, the action property `LicenseRespected` and the refinement
`ImplementsTally`, with failures and lost answers of COMMIT. The assumption is
`VotesAssumption`. The inductive invariant is `VInv` in `EventRefinement`:

- `CountExact` survives a commit because the value to be committed is the stored
  one plus one, which holds because nobody else can be between `Increment` and
  `CommitVote` on that row, and because the ballot is not among the stored ones
  (`BallotInv`). A track that has been deleted has no count, so that a row
  generated later starts with none.
- `AcceptedOnce` needs in addition that a request changes nothing once it has
  been answered, and that only votes reach the voting transaction (`RequestInv`).
  Only `CommitVote` stores a ballot, and it answers `ok` or `unknown`.
- That no count exceeds the number of users, a part of `TypeOK`, follows from
  exactness: the votes for a track are a subset of `{t} \X Users`.
- `NoNilDereference` needs that the *stored* row satisfies what `validateLicense`
  demands of each body (`SettingsInv`): an update never erases a field, and one
  that sets licence 2 sets the two fields with it.
- `LicenseRespected` needs `LicenseInv`: the row that a request has fetched is among those
  in force since (`known`), and past the check it admits the caller. What it admits
  once it goes on admitting: invitations are withdrawn only with the event, whose tracks
  go too, and the time of the check stays one since the request began.
- A step of the refinement is `Suggest` (`AddTrack`), `Cast` (`CommitVote`),
  `Discard` (deletions) or a stutter.

`AccountsProofs` proves, for all users, addresses, Google accounts, requests and any
spelling map `Lower`, that `Spec` of `Accounts` implies `AccountsTypeOK`,
`SessionsAreEntitled`, `GoogleAnswersAgree`, `LinkOrFailure`, `ParentRevoked` and the action
properties `RevokedIsUseless` and `UsedLinkIsDead`. The assumptions are those of
`Sessions` and `Accounts`: names of different kinds differ, `Lower` is idempotent, the
old users have different addresses. The inductive invariant `AInv` adds what the rows
refer to (`References`: owners, linked and verified users exist) and what a request in
the middle of its statements knows: until it is done it has inserted no pair, until
its insertion no user and no link, so that the names it gives are new (`Progress`);
the token it exchanges was issued to its user, and is revoked when the pair is
issued (`Exchange`); its subject is a Google account or a link, depending on the step,
and the account is its user's at `issue` (`Subject`); who is about to get a pair is
entitled to it (`AboutToIssue`, which needs that nobody loses `verified` or a provider).
`GoogleAnswersAgree` needs that a provider row is never changed once it
is there, and `LinkOrFailure` that only `verify` and `renew` are between the deletion of
a link and what makes up for it. The two action properties follow from the actions
that start an exchange (`RefreshLookup`) or a reset (`ResetLookup`), both of which
require that the token or link is still good.

`OneLivePerLogin` needs `FamilyInv`: the pairs of one login form a tree by `parent`, in which
`origin` is constant (`Lineage`), and a tree that never forks has one end (`OneEnd`).
`Issue` is the only action that touches it, and puts the new pair in the place of the one it
was exchanged for or forks the tree, which is the case the property excepts. What has
been exchanged is revoked, so that the end is the only pair that may be usable.

`PlaylistProofs` proves, for any numbers of rows, songs and requests, that `Spec` implies
`TypeOK` and `GaplessUnlessRaced` from `PlaylistAssumption`. Counting is done with rankings:
`Ranks(f, S, n)` says that `f` gives each of 1..n to one member of `S`. The inductive
invariant `PInv` says who locks what (`Locks`) and, as long as no addition has raced, that
three things are rankings: the committed positions, what a removal has numbered (all rows
but its own, which it holds once it has written), and what a move has read. The case that
makes it inductive is a removal that commits while a move is under way: it has changed
every row the move has ranked, or the move holds a row and the removal has waited. So a
move that commits finds its rows as it has read them (`Move`), and its shift and its
placement are a permutation of the ranking. The numbers of a removal stay right
although they are old, because no other request adds or deletes a row in between
without `raced`. Model checking of `PInv` on the instance of `PlaylistEdits` preceded the
proof.

`EditsAreOrdered` is the refinement of `PlaylistOrder` until an addition has raced: every step
appends, deletes or moves one track of the list that `ListTracks` returns, leaves the list
alone, or is `Outdated`. The mapping `ByPosition` takes the k-th row by counting those before it;
on a ranking it is the inverse of `pos` (`Sorted`, from `Prefix`: k members have a rank up to k).
An addition of the last position is an append, and the permutation of a move is a `RemoveFirst`
followed by an `InsertAt`. For a removal one more invariant is needed (`Kept`): what it has numbered
and no move has overtaken is the committed ranking, closed where its own row was
(`OneClosed`). Moves are the only commits that change a position and let the removal go on: an
addition would be a race, and other removals need its row or rows it holds. What `RemoveFirst`
and `InsertAt` do to a sequence without repetition is stated by index once (`Removed`,
`Inserted`), for this proof and for the screens.

About `PlaylistScreens` it proves, from `ScreensAssumption` (the owner and the viewers are users, the
tracks are finitely many and the list at first is one of them without repetition, the
markers are distinct from values), for any users, screens, tracks and edits:

- `ScreensTypeOK`. No list has a track twice because `Write` puts in a track that is new and a screen
  adds one only if it is not there.
- `EditsPermitted`. A request whose caller may edit is noted at every step at which that is so
  (`NoteEntitled`); one that has passed its checks could edit when it read the playlist,
  or when it read its invitation, which suffices because invitations go with the playlist
  (`Entitlement`).
- `ScreensAgree`. Without an overlap there is one edit or one load, and no load while an event is on
  its way (`Alone`). `Agreement` says for each stage of the edit what the screens show: before it is
  written the list, or on the screen that has begun it the list edited; then a list that
  the event makes the new one; at last the list, or one that the event in the inbox
  makes the list. That the event may find an edit applied needs that applying it twice is applying it once
  (`AppliedAgain`), and the revert, that the list kept by the screen is the one before.

`DevicesProofs` proves, for any users, devices, grants and requests, that `Spec` implies
`DevicesTypeOK`, `OneRowPerPair`, `OneActive` and the action property `CommandsPermitted`, from the
assumptions of `Friends` and `Devices`. `DInv` says what each request knows about the rows it has
read. `OneRowPerPair` follows because two requests about to insert have not seen each
other's row (`PairInv`). `OneActive`: the unique index is asked at the INSERT, and the delegation
is there at the COMMIT. `CommitInv` says that in between the transaction holds all active
delegations of its device, that no other is about to commit or to delete the device, and that
the device is registered; this needs that row locks are exclusive (`LockInv`). `CommandsPermitted` needs `HistoryInv`: no delegation is active
of whose end the owner has been told. What stood when a request to end delegations arrived
and is still active is in the snapshot of its UPDATE and then among the rows it holds
(`HistoryOf`), so that its success leaves none of it; owners do not change and no delegation
becomes active again (`RowsKept`). What the middleware has read is then held by a request to
its last statement (`MayCommand`).

`EventQueueProofs` proves `NoPhantomVotes` for any users, tracks and taps. Every queue that is on
its way to a screen (in a handler, the room, an inbox, an answer to a reload) is no further
than the database (`OnTheWay`). A screen may be ahead of the database by one vote, the tap
of its user that is neither counted nor taken back (`Ahead`); the property itself, which
allows for a tap until its answer, is weaker and not inductive, because a tap may be
counted before it is answered.

`ApiClientProofs` proves `ReuseIsExcused` and that one call refreshes at a time (`OneRefresh`). `CInv`
says that the call which leads is the one `pending` names; and, until there is an excuse,
that a token which is presented or about to be stored is not revoked, and that the one in
the storage is revoked only while somebody is about to replace or to clear it
(`Unrevoked`).

`DeviceScreenProofs` proves, for every number of attempts and any set of slots, and for a
screen that is redrawn between two taps (`~Impatient`), that `WsSpec` implies `WsTypeOK`,
`OneConnection`, `StateIsTruthful` (the state shown is that of the socket and the retries) and
the action property `StaysQuiet` (a closed screen starts nothing). The assumption is
`WsClientAssumption`. `SInv` is inductive because it ties
the slots to the fields: what is open is what is subscribed to, a timer is the one
`retryTimer` holds, so that `disconnect` reaches both; a call under way excludes a
subscription and has attempts left; and in the error state nothing is under way, which
is what allows `connect` to begin without looking. A device screen has the same
connections: every step of `DeviceSpec` is a step of `WsSpec` or leaves the socket alone
(`DeviceKeepsOneConnection`).

For device screens, with any number of commands, connections and loads, it also proves
`FollowsInStep` and `PlayerFollows`, without that condition on taps. What is on its way to the
screen (its inbox and the room's messages) leads from the playback shown to the one
accepted by the server: there is a path of states, one per command (`Leads`); a new command
extends the path at its end, an echo shortens it at its start. A command that the screen has to
apply itself is alone on its way (`InStep`). `PlayerFollows` needs that, until something has
disturbed it, at most one load is under way and it is the one the state asks for
(`PlayerInv`).

Only model-checked:

- all liveness properties: fairness and ENABLED are out of the prover's reach;
- `ImplementsOrder` where it says more than `EditsAreOrdered`: what later edits do to a list in which
  an addition has left a gap, that is, where positions are no ranking any more;
- the two properties that are violated.

The type invariants of `Hub`, `EventVotes`, `Accounts` and `WsClient` are proved and not checked
by a run once more.

## 5. Not modelled, and what is left

Not modelled: the music catalogue, middleware, start-up, the generated API
documentation and the presentation layer, which keep no state that several steps
could bring out of step; listings and searches, which change nothing; the update of
a profile, a single statement; signatures of tokens and hashes of passwords.

A lost answer of COMMIT is a case of its own in `EventVotes`, `Devices` and `PlaylistScreens`, where
properties relate answers to what is stored. Elsewhere it is the committed case or the
failed one: the properties of `PlaylistTracks` read no answers, and those of `Friends` and
`Accounts` only successful ones or excuse whatever has failed.

Left, in this order:

1. `ImplementsOrder` after an addition has raced: the order of rows with gaps between them is that
   of a ranking closed several times, which `OneClosed` does for one; two rows with one position
   remain an exception.
2. `EventQueue`: suggestions, after which the suggesting screen alone reloads.
