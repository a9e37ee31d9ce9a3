-------------------------- MODULE PlaylistScreens --------------------------
(***************************************************************************)
(* One playlist, who may see and edit it, and the editor screens that show *)
(* it (service/playlist.go, handler/playlist.go, playlist_detail_provider  *)
(* and playlist_editor_screen of the client).                              *)
(*                                                                         *)
(* An edit is checked in one or two statements, takes effect (one edit of  *)
(* a list: PlaylistTracks), is published to the room of the playlist and   *)
(* then answered.  A screen applies removals and moves at once, takes them *)
(* back when the answer is an error, and applies what the room sends, its  *)
(* own edits included.                                                     *)
(***************************************************************************)
EXTENDS Naturals, FiniteSets, SequencesExt

CONSTANTS
  Users, Owner,
  Tracks,     \* rows of playlist_tracks, each inserted at most once
  InitList,   \* the tracks the playlist starts with
  Screens,
  Viewer,     \* Viewer[s]: the user of screen s
  EditRequests, \* requests that add, remove or move a track
  Settings,   \* the visibilities and licences that are tried
  None

Edits == [op : {"add", "remove"}, track : Tracks]
           \cup [op : {"move"}, track : Tracks, at : 1..Cardinality(Tracks)]

\* The tracks in some order, none twice.
Lists == {l \in SeqOf(Tracks, Cardinality(Tracks)) : IsInjective(l)}

ASSUME ScreensAssumption ==
  /\ Owner \in Users /\ Viewer \in [Screens -> Users]
  /\ Settings \subseteq [public : BOOLEAN, license : 0..1] /\ Settings # {}
  /\ IsFiniteSet(Tracks) /\ InitList \in Lists
  /\ None \notin Settings /\ None \notin Screens /\ None \notin Lists

VARIABLES
  playlist,   \* visibility and licence; None: deleted
  invited,    \* playlist_invites
  list,       \* the tracks by position
  minted,     \* the rows inserted so far
  stage,      \* the next step of an edit
  screen,     \* the screen it was made on
  edit,       \* what it asks for
  before,     \* the list its screen goes back to if it fails
  room,       \* the screens in the room of the playlist
  inbox,      \* the events on their way to a screen
  load,       \* the next step of a screen's GET /playlists/:id
  fetched,    \* what that request has read
  shown,      \* the tracks a screen shows; None: not loaded
  canEdit,    \* the screens that are not read-only
  missed,     \* history: the screens an edit has happened to unnoticed
  overlapped, \* history: something began before something else was over
  entitled    \* history: the edits whose caller could edit at some time since

accessVars == <<playlist, invited, list, minted>>
editVars == <<stage, screen, edit, before>>
roomVars == <<room, inbox>>
screenVars == <<load, fetched, shown, canEdit>>
playlistVars == <<accessVars, editVars, roomVars, screenVars, missed, overlapped, entitled>>

\* Lists have no track twice, on screens neither.
ScreensTypeOK ==
  /\ playlist \in Settings \cup {None} /\ invited \subseteq Users
  /\ list \in Lists /\ ToSet(list) \subseteq minted /\ minted \subseteq Tracks
  /\ stage \in [EditRequests -> {"idle", "access", "invitation", "write", "publish",
                          "ok", "failed", "denied", "done"}]
  /\ screen \in [EditRequests -> Screens \cup {None}]
  /\ edit \in [EditRequests -> Edits \cup {None}]
  /\ before \in [EditRequests -> Lists \cup {None}]
  /\ room \subseteq Screens
  /\ \A s \in Screens : ToSet(inbox[s]) \subseteq Edits /\ (s \notin room => inbox[s] = <<>>)
  /\ load \in [Screens -> {"none", "access", "tracks", "invitation", "answer"}]
  /\ fetched \in [Screens -> [open : BOOLEAN, tracks : Lists] \cup {None}]
  /\ shown \in [Screens -> Lists \cup {None}]
  /\ canEdit \subseteq Screens /\ missed \subseteq Screens
  /\ overlapped \in BOOLEAN /\ entitled \subseteq EditRequests

ScreensInit ==
  /\ playlist \in Settings /\ invited = {}
  /\ list = InitList /\ minted = ToSet(InitList)
  /\ stage = [q \in EditRequests |-> "idle"]
  /\ screen = [q \in EditRequests |-> None]
  /\ edit = [q \in EditRequests |-> None]
  /\ before = [q \in EditRequests |-> None]
  /\ room = {} /\ inbox = [s \in Screens |-> <<>>]
  /\ load = [s \in Screens |-> "none"]
  /\ fetched = [s \in Screens |-> None]
  /\ shown = [s \in Screens |-> None]
  /\ canEdit = {} /\ missed = {} /\ overlapped = FALSE /\ entitled = {}

-----------------------------------------------------------------------------
\* GetAccessible
Accessible(u) == playlist # None /\ (playlist.public \/ u = Owner \/ u \in invited)

MayEdit(u) == Accessible(u) /\ (playlist.license # 1 \/ u = Owner \/ u \in invited)

Caller(q) == Viewer[screen[q]]

\* Nothing is under way: every edit is answered, every event and load has come.
Quiet ==
  /\ \A q \in EditRequests : stage[q] \in {"idle", "done"}
  /\ \A s \in Screens : inbox[s] = <<>> /\ load[s] = "none"

Beginning == overlapped' = (overlapped \/ ~Quiet)

Advance(q, label) == stage' = [stage EXCEPT ![q] = label]

\* Those whose edits are under way and who may edit from now on.
NoteEntitled ==
  entitled' = entitled \cup {q \in EditRequests : screen'[q] # None /\ MayEdit(Caller(q))'}

\* Mutant: only the field of the moved track changes, not its place in the list.
AppliedPatching(l, e) ==
  CASE e.op = "add" -> IF e.track \in ToSet(l) THEN l ELSE Append(l, e.track)
    [] e.op = "remove" -> RemoveFirst(l, e.track)
    [] e.op = "move" -> l

\* Mutant: the echo of an addition is not recognised.
AppliedTwice(l, e) ==
  CASE e.op = "add" -> Append(l, e.track)
    [] e.op = "remove" -> RemoveFirst(l, e.track)
    [] e.op = "move" -> l

\* applyTrackAdded, applyTrackRemoved, applyTrackMoved
Applied(l, e) ==
  CASE e.op = "add" -> IF e.track \in ToSet(l) THEN l ELSE Append(l, e.track)
    [] e.op = "remove" -> RemoveFirst(l, e.track)
    [] e.op = "move" ->
         IF e.track \notin ToSet(l) THEN l
         ELSE InsertAt(RemoveFirst(l, e.track), IF e.at < Len(l) THEN e.at ELSE Len(l), e.track)

-----------------------------------------------------------------------------
(* An edit, from the screen and back                                       *)

\* _handleAddTrack, removeTrack or moveTrack on a screen that is not read-only.
BeginEdit(q, s, e) ==
  /\ stage[q] = "idle" /\ s \in canEdit
  /\ e.op = "add" => e.track \notin minted \/ e.track \in ToSet(list)
  /\ e.op # "add" => e.track \in ToSet(shown[s])
  /\ e.op = "move" => e.at <= Len(shown[s])
  /\ Advance(q, "access")
  /\ screen' = [screen EXCEPT ![q] = s]
  /\ edit' = [edit EXCEPT ![q] = e]
  /\ IF e.op = "add" THEN UNCHANGED <<before, shown>>
     ELSE /\ before' = [before EXCEPT ![q] = shown[s]]
          /\ shown' = [shown EXCEPT ![s] = Applied(@, e)]
  /\ UNCHANGED <<accessVars, roomVars, load, fetched, canEdit, missed>>
  /\ Beginning /\ NoteEntitled

Check(q, to) ==
  /\ Advance(q, to)
  /\ UNCHANGED <<accessVars, screen, edit, before, roomVars, screenVars, missed, overlapped, entitled>>

\* Mutant: the licence is not looked at.
RequireAnyEditor(q) ==
  /\ stage[q] = "access"
  /\ \/ ~Accessible(Caller(q)) /\ Check(q, "failed")
     \/ Accessible(Caller(q)) /\ Check(q, "write")

\* requireEditAccess: GetAccessible, then IsInvited where the licence asks.
RequireEditAccess(q) ==
  /\ stage[q] = "access"
  /\ \/ ~Accessible(Caller(q)) /\ Check(q, "failed")
     \/ /\ Accessible(Caller(q)) /\ (playlist.license # 1 \/ Caller(q) = Owner)
        /\ Check(q, "write")
     \/ /\ Accessible(Caller(q)) /\ playlist.license = 1 /\ Caller(q) # Owner
        /\ Check(q, "invitation")

RequireInvited(q) ==
  /\ stage[q] = "invitation"
  /\ \/ Caller(q) \notin invited /\ Check(q, "denied")
     \/ Caller(q) \in invited /\ Check(q, "write")

\* The edit of the list, refused for a song that is there, a track that is not,
\* a position past the end, or a playlist that is gone.
Feasible(e) ==
  /\ playlist # None
  /\ e.op = "add" <=> e.track \notin ToSet(list)
  /\ e.op = "move" => e.at <= Len(list)

Write(q) ==
  /\ stage[q] = "write"
  /\ IF Feasible(edit[q])
     THEN /\ list' = CASE edit[q].op = "add" -> Append(list, edit[q].track)
                       [] edit[q].op = "remove" -> RemoveFirst(list, edit[q].track)
                       [] edit[q].op = "move" ->
                            InsertAt(RemoveFirst(list, edit[q].track), edit[q].at, edit[q].track)
          /\ minted' = minted \cup {edit[q].track}
          /\ Advance(q, "publish")
     ELSE Advance(q, "failed") /\ UNCHANGED <<list, minted>>
  /\ UNCHANGED <<playlist, invited, screen, edit, before, roomVars, screenVars,
                 missed, overlapped, entitled>>

\* An internal error ends the request.  If it is the answer of the COMMIT that is
\* lost, the edit is done and nobody is told.
InternalError(q) ==
  /\ stage[q] \in {"access", "invitation", "write", "publish"}
  /\ Advance(q, "failed")
  /\ missed' = IF stage[q] = "publish" THEN Screens ELSE missed
  /\ UNCHANGED <<accessVars, screen, edit, before, roomVars, screenVars, overlapped, entitled>>

\* broadcast, to those who are in the room by now.
Publish(q) ==
  /\ stage[q] = "publish"
  /\ inbox' = [s \in Screens |-> IF s \in room THEN Append(inbox[s], edit[q]) ELSE inbox[s]]
  /\ missed' = missed \cup (Screens \ room)
  /\ Advance(q, "ok")
  /\ UNCHANGED <<accessVars, screen, edit, before, room, screenVars, overlapped, entitled>>

\* The screen goes back to the list it had when the edit was made.
Revert(q) ==
  IF edit[q].op = "add" THEN UNCHANGED shown
                        ELSE shown' = [shown EXCEPT ![screen[q]] = before[q]]

Finished(q) ==
  /\ Advance(q, "done")
  /\ screen' = [screen EXCEPT ![q] = None]
  /\ edit' = [edit EXCEPT ![q] = None]
  /\ before' = [before EXCEPT ![q] = None]
  /\ entitled' = entitled \ {q}
  /\ UNCHANGED <<accessVars, roomVars, load, fetched, overlapped>>

\* The answer arrives, or a time-out is taken for an error.
Confirm(q) ==
  /\ stage[q] = "ok"
  /\ Finished(q)
  /\ \/ UNCHANGED <<shown, missed>>
     \/ Revert(q) /\ missed' = missed \cup {screen[q]}
  /\ UNCHANGED canEdit

Refuse(q) ==
  /\ stage[q] \in {"failed", "denied"}
  /\ Finished(q)
  /\ Revert(q)
  /\ canEdit' = IF stage[q] = "denied" THEN canEdit \ {screen[q]} ELSE canEdit
  /\ UNCHANGED missed

-----------------------------------------------------------------------------
(* Screens                                                                 *)

\* build, or invalidate after the settings were edited: what is shown stays and
\* takes events until the answer replaces it.
Open(s) ==
  /\ load[s] = "none"
  /\ load' = [load EXCEPT ![s] = "access"]
  /\ Beginning
  /\ UNCHANGED <<accessVars, editVars, roomVars, fetched, shown, canEdit, missed, entitled>>

Loading(s, from, to, read) ==
  /\ load[s] = from
  /\ load' = [load EXCEPT ![s] = to]
  /\ fetched' = [fetched EXCEPT ![s] = read]
  /\ UNCHANGED <<accessVars, editVars, roomVars, shown, canEdit, missed, overlapped, entitled>>

\* Get: GetAccessible, ListTracks, IsInvited.
LoadAccess(s) ==
  \/ ~Accessible(Viewer[s]) /\ Loading(s, "access", "none", None)
  \/ /\ Accessible(Viewer[s])
     /\ Loading(s, "access", "tracks",
          [open |-> playlist.license # 1 \/ Viewer[s] = Owner, tracks |-> <<>>])

LoadTracks(s) == Loading(s, "tracks", "invitation", [fetched[s] EXCEPT !.tracks = list])
LoadInvited(s) ==
  Loading(s, "invitation", "answer", [fetched[s] EXCEPT !.open = @ \/ Viewer[s] \in invited])

LoadDone(s) ==
  /\ load[s] = "answer"
  /\ load' = [load EXCEPT ![s] = "none"]
  /\ fetched' = [fetched EXCEPT ![s] = None]
  /\ shown' = [shown EXCEPT ![s] = fetched[s].tracks]
  /\ canEdit' = IF fetched[s].open THEN canEdit \cup {s} ELSE canEdit \ {s}
  /\ missed' = missed \ {s}
  /\ UNCHANGED <<accessVars, editVars, roomVars, overlapped, entitled>>

\* ServeWS lets in whom Get answers.
Join(s) ==
  /\ s \notin room /\ Accessible(Viewer[s])
  /\ room' = room \cup {s}
  /\ Beginning
  /\ UNCHANGED <<accessVars, editVars, inbox, screenVars, missed, entitled>>

\* The connection breaks, with the events on it.
Leave(s) ==
  /\ s \in room
  /\ room' = room \ {s}
  /\ inbox' = [inbox EXCEPT ![s] = <<>>]
  /\ missed' = IF inbox[s] = <<>> THEN missed ELSE missed \cup {s}
  /\ UNCHANGED <<accessVars, editVars, screenVars, overlapped, entitled>>

\* _onWsMessage: events that come before the list are dropped.
Deliver(s) ==
  /\ inbox[s] # <<>>
  /\ inbox' = [inbox EXCEPT ![s] = Tail(@)]
  /\ shown' = IF shown[s] = None THEN shown
              ELSE [shown EXCEPT ![s] = Applied(@, Head(inbox[s]))]
  /\ UNCHANGED <<accessVars, editVars, room, load, fetched, canEdit, missed, overlapped, entitled>>

-----------------------------------------------------------------------------
(* The owner                                                               *)

Administer ==
  /\ UNCHANGED <<minted, editVars, roomVars, screenVars, missed, overlapped>>
  /\ NoteEntitled

UpdatePlaylist ==
  /\ playlist # None
  /\ playlist' \in Settings
  /\ UNCHANGED <<invited, list>>
  /\ Administer

Invite(u) ==
  /\ playlist # None
  /\ invited' = invited \cup {u}
  /\ UNCHANGED <<playlist, list>>
  /\ Administer

DeletePlaylist ==
  /\ playlist # None
  /\ playlist' = None /\ invited' = {} /\ list' = <<>>
  /\ Administer

-----------------------------------------------------------------------------
Handle(q) ==
  \/ RequireEditAccess(q) \/ RequireInvited(q) \/ Write(q) \/ Publish(q)
  \/ InternalError(q) \/ Confirm(q) \/ Refuse(q)

ScreensNext ==
  \/ \E q \in EditRequests : Handle(q) \/ \E s \in Screens, e \in Edits : BeginEdit(q, s, e)
  \/ \E s \in Screens : \/ Open(s) \/ LoadAccess(s) \/ LoadTracks(s) \/ LoadInvited(s)
                        \/ LoadDone(s) \/ Join(s) \/ Leave(s) \/ Deliver(s)
  \/ UpdatePlaylist \/ DeletePlaylist
  \/ \E u \in Users : Invite(u)

ScreensSpec == ScreensInit /\ [][ScreensNext]_playlistVars

-----------------------------------------------------------------------------
(* Properties                                                              *)

\* An edit takes effect only if its caller could see and edit the playlist at
\* some moment while it was under way, however the settings change meanwhile.
EditsPermitted ==
  [][\A q \in EditRequests : stage'[q] = "publish" => q \in entitled]_playlistVars

\* As long as edits, loads and connections do not overlap, a screen that has not
\* missed an edit shows the list once everything has arrived: edits applied at
\* once and again as echoes, events of others, and edits that are taken back.
ScreensAgree ==
  Quiet /\ ~overlapped /\ playlist # None =>
    \A s \in Screens \ missed : shown[s] \in {list, None}
=============================================================================
