---------------------------- MODULE DeviceScreen ----------------------------
(***************************************************************************)
(* The screen of a device with the player, on its reconnecting socket      *)
(* (WsClient).  A tap posts a command, the server broadcasts it in the     *)
(* room of the device, and every screen applies it when it arrives         *)
(* (DeviceControlNotifier); a screen whose socket was not connected when   *)
(* it was tapped applies its own command when the request is answered.     *)
(* The player is reconciled with each change of the state.  The screen of  *)
(* a delegate is this one without a cast.                                  *)
(*                                                                         *)
(* Who may send is decided in Devices, the room is Room.  Volume and label *)
(* are left out: like play and pause, they overwrite.                      *)
(***************************************************************************)
EXTENDS WsClient, SequencesExt

CONSTANT MaxCommands  \* bound: the commands of this screen and of others

ASSUME DeviceScreenAssumption == MaxCommands \in Nat /\ Nil \notin Nat

Commands == 1..MaxCommands  \* in the order in which they are sent

VARIABLES
  pc, action,  \* the request of a command, and what it commands
  waiting,     \* the command that is inFlight on the screen
  local,       \* its applyLocally
  member,      \* is the socket in the room?
  messages, inbox,     \* in the hub, and on their way to the screen
  playback,    \* PlaybackState
  cast,        \* _castTracks is not empty
  loads,       \* calls of _loadAndPlay under way
  loadedPosition,      \* _loadedPosition
  source, sounding,    \* the player: the track set, as a position, and play or pause
  truth,       \* history: the state after all commands accepted by the server
  slipped,     \* history: the room and the screen disagreed about a command
  disturbed    \* history: the player was disturbed (see PlayerFollows)

requestVars == <<pc, action, waiting, local, truth>>
roomVars == <<member, messages, inbox, slipped>>
playerVars == <<cast, loads, loadedPosition, source, sounding, disturbed>>
vars == <<wsVars, requestVars, roomVars, playback, playerVars>>

Actions == {"play", "pause", "next"}
Positions == Nat \ {0}
Playbacks == [playing : BOOLEAN, position : Positions]
Loads == [position : Positions, track : Positions \cup {Nil}, play : BOOLEAN,
          stage : {"resolve", "set"}]

DeviceTypeOK ==
  /\ pc \in [Commands -> {"idle", "sent", "answered", "refused"}]
  /\ action \in [Commands -> Actions \cup {Nil}]
  /\ waiting \in Commands \cup {Nil}
  /\ messages \in Seq(Actions) /\ inbox \in Seq(Actions)
  /\ inbox # <<>> => member
  /\ {playback, truth} \subseteq Playbacks
  /\ loads \in Seq(Loads) /\ loadedPosition \in Nat /\ source \in Positions \cup {Nil}
  /\ {local, member, slipped, cast, sounding, disturbed} \subseteq BOOLEAN

Fresh == [playing |-> FALSE, position |-> 1]

\* The notifier and the player of a new screen.
DeviceInit ==
  /\ WsInit
  /\ pc = [c \in Commands |-> "idle"] /\ action = [c \in Commands |-> Nil]
  /\ waiting = Nil /\ local = FALSE /\ truth = Fresh
  /\ member = FALSE /\ messages = <<>> /\ inbox = <<>> /\ slipped = FALSE
  /\ playback = Fresh
  /\ cast = FALSE /\ loads = <<>> /\ loadedPosition = 0
  /\ source = Nil /\ sounding = FALSE /\ disturbed = FALSE

-----------------------------------------------------------------------------
(* The player                                                              *)

\* _loadAndPlay up to its first await.
Load(now) ==
  /\ loads' = Append(loads, [position |-> now.position, track |-> now.position,
                             play |-> now.playing, stage |-> "resolve"])
  /\ UNCHANGED <<loadedPosition, source, sounding>>

\* Mutant: play without a look at what is loaded.
ReconcileCarelessly(was, now) ==
  /\ disturbed' = (disturbed \/ (was # now /\ loads # <<>>))
  /\ IF ~cast \/ was = now THEN UNCHANGED <<loads, loadedPosition, source, sounding>>
     ELSE IF was.position # now.position THEN Load(now)
     ELSE sounding' = now.playing /\ UNCHANGED <<loads, loadedPosition, source>>

\* _reconcile, called with every change of the state.
Reconcile(was, now) ==
  /\ disturbed' = (disturbed \/ (was # now /\ loads # <<>>))
  /\ IF ~cast \/ was = now THEN UNCHANGED <<loads, loadedPosition, source, sounding>>
     ELSE IF was.position # now.position \/ (now.playing /\ loadedPosition # now.position)
     THEN Load(now)
     ELSE sounding' = now.playing /\ UNCHANGED <<loads, loadedPosition, source>>

\* A playlist has been picked, perhaps an empty one: what is loaded is of another.
Cast ==
  /\ cast' \in BOOLEAN
  /\ loadedPosition' = 0 /\ source' = Nil
  /\ loads' = [i \in DOMAIN loads |-> [loads[i] EXCEPT !.track = Nil]]
  /\ disturbed' = (disturbed \/ playback.playing \/ loads # <<>>)
  /\ UNCHANGED <<wsVars, requestVars, roomVars, playback, sounding>>

\* getTrack has answered and setUrl is called.
Resolve(i) ==
  /\ loads[i].stage = "resolve"
  /\ source' = loads[i].track
  /\ loads' = Append(RemoveAt(loads, i), [loads[i] EXCEPT !.stage = "set"])
  /\ UNCHANGED <<loadedPosition, sounding, disturbed>>

\* setUrl and setVolume have returned, for a call that was overtaken as well if its
\* setUrl had returned before.
EndLoad(i) ==
  /\ loads[i].stage = "set"
  /\ loads' = RemoveAt(loads, i)
  /\ loadedPosition' = loads[i].position
  /\ sounding' = (sounding \/ loads[i].play)
  /\ UNCHANGED <<source, disturbed>>

\* The last call of setUrl wins.
Latest(i) ==
  /\ loads[i].stage = "set"
  /\ \A j \in DOMAIN loads : loads[j].stage = "set" => j <= i

\* No such track, no preview, no network, or interrupted by another call: "leave the
\* player idle".
FailLoad(i) ==
  /\ loads' = RemoveAt(loads, i)
  /\ source' = IF Latest(i) THEN Nil ELSE source
  /\ disturbed' = TRUE
  /\ UNCHANGED <<loadedPosition, sounding>>

Play(i) ==
  /\ Resolve(i) \/ EndLoad(i) \/ FailLoad(i)
  /\ UNCHANGED <<wsVars, requestVars, roomVars, playback, cast>>

-----------------------------------------------------------------------------
(* Commands                                                                *)

Obey(was, a) ==
  CASE a = "play" -> [was EXCEPT !.playing = TRUE]
    [] a = "pause" -> [was EXCEPT !.playing = FALSE]
    [] a = "next" -> [was EXCEPT !.position = @ + 1]

\* _apply, and the listener that reconciles the player.
Apply(a) ==
  /\ playback' = Obey(playback, a)
  /\ Reconcile(playback, playback')
  /\ UNCHANGED cast

\* The buttons of _controls, which are enabled unless a command is in flight.
Offered == {"next", IF playback.playing THEN "pause" ELSE "play"}

Request(c, a) ==
  /\ pc[c] = "idle" /\ \A d \in 1..(c - 1) : pc[d] # "idle"
  /\ pc' = [pc EXCEPT ![c] = "sent"]
  /\ action' = [action EXCEPT ![c] = a]
  /\ UNCHANGED <<wsVars, roomVars, playback, playerVars, truth>>

\* _send and sendCommand up to the await: socketUp is read here.
Tap(c, a) ==
  /\ waiting = Nil /\ a \in Offered
  /\ waiting' = c /\ local' = (state # "connected")
  /\ Request(c, a)

\* Another screen commands.
OtherTaps(c, a) == Request(c, a) /\ UNCHANGED <<waiting, local>>

\* An answer is there, after which the screen will apply the command itself.
Owed == waiting # Nil /\ local /\ pc[waiting] = "answered"

\* CommandHandler.Send: refused, or broadcast, which is lost on an empty room.
Send(c) ==
  /\ pc[c] = "sent"
  /\ \/ /\ pc' = [pc EXCEPT ![c] = "answered"]
        /\ truth' = Obey(truth, action[c])
        /\ \/ messages' = Append(messages, action[c])
           \/ ~member /\ UNCHANGED messages
        /\ slipped' = (slipped \/ Owed \/ (member <=> (waiting = c /\ local)))
     \/ pc' = [pc EXCEPT ![c] = "refused"] /\ UNCHANGED <<truth, messages, slipped>>
  /\ UNCHANGED <<wsVars, action, waiting, local, member, inbox, playback, playerVars>>

\* Mutant: the sender always applies its command.
FinishLocally ==
  /\ waiting # Nil /\ pc[waiting] = "answered"
  /\ Apply(action[waiting])
  /\ waiting' = Nil /\ local' = FALSE
  /\ UNCHANGED <<wsVars, pc, action, truth, roomVars>>

\* The answer has arrived.
Finish ==
  /\ waiting # Nil /\ pc[waiting] = "answered"
  /\ IF local THEN Apply(action[waiting]) ELSE UNCHANGED <<playback, playerVars>>
  /\ waiting' = Nil /\ local' = FALSE
  /\ UNCHANGED <<wsVars, pc, action, truth, roomVars>>

\* DioException: an error status or no answer in time.
GiveUp ==
  /\ waiting # Nil
  /\ waiting' = Nil /\ local' = FALSE
  /\ slipped' = (slipped \/ Owed)
  /\ UNCHANGED <<wsVars, pc, action, truth, member, messages, inbox, playback, playerVars>>

-----------------------------------------------------------------------------
(* The room                                                                *)

Connected == \E o \in Slots : socket[o] \in {"accepted", "open"}

\* ServeWS registers the connection it has upgraded.
Join ==
  /\ ~member /\ Connected
  /\ member' = TRUE
  /\ slipped' = (slipped \/ messages # <<>>)
  /\ UNCHANGED <<wsVars, requestVars, messages, inbox, playback, playerVars>>

\* Hub.run hands the oldest message to the members.
Deliver ==
  /\ messages # <<>>
  /\ messages' = Tail(messages)
  /\ inbox' = IF member THEN Append(inbox, Head(messages)) ELSE inbox
  /\ UNCHANGED <<wsVars, requestVars, member, slipped, playback, playerVars>>

\* _onWsMessage, applyRemote
Receive ==
  /\ channel # Nil /\ socket[channel] = "open" /\ inbox # <<>>
  /\ inbox' = Tail(inbox)
  /\ Apply(Head(inbox))
  /\ UNCHANGED <<wsVars, requestVars, member, messages, slipped>>

\* dispose() and autoDispose: nothing of the screen is left.
Dispose ==
  /\ pc' = [c \in Commands |-> "idle"] /\ action' = [c \in Commands |-> Nil]
  /\ waiting' = Nil /\ local' = FALSE /\ truth' = Fresh
  /\ member' = FALSE /\ messages' = <<>> /\ inbox' = <<>> /\ slipped' = FALSE
  /\ playback' = Fresh
  /\ cast' = FALSE /\ loads' = <<>> /\ loadedPosition' = 0
  /\ source' = Nil /\ sounding' = FALSE /\ disturbed' = FALSE

\* What the end of a connection loses; the hub that loses its last member stops with
\* what it holds.
Linked ==
  IF intentionalClose' THEN Dispose
  ELSE
    /\ member' = (member /\ Connected')
    /\ inbox' = IF member' THEN inbox ELSE <<>>
    /\ \/ UNCHANGED messages
       \/ member /\ ~member' /\ messages' = <<>>
    /\ slipped' = (slipped \/ (member /\ ~member' /\ messages \o inbox # <<>>))
    /\ UNCHANGED <<requestVars, playback, playerVars>>

-----------------------------------------------------------------------------
\* The screen is there.  (Bound: its commands are followed until it is out of step.)
OnScreen == ~hasButton /\ ~intentionalClose /\ ~slipped

DeviceNext ==
  \/ WsNext /\ Linked
  \/ /\ OnScreen
     /\ \/ \E c \in Commands : Send(c) \/ \E a \in Actions : Tap(c, a) \/ OtherTaps(c, a)
        \/ Finish \/ GiveUp
        \/ Join \/ Deliver \/ Receive
        \/ Cast \/ \E i \in DOMAIN loads : Play(i)

DeviceSpec ==
  DeviceInit /\ [][DeviceNext]_vars /\ \A o \in Slots : WF_vars(Service(o) /\ Linked)

-----------------------------------------------------------------------------
(* Properties                                                              *)

\* The echo of the server is the single source of truth: once nothing is on its way,
\* the screen shows exactly the commands the server has accepted, its own and those
\* of the others, once and in order, through all losses of the connection, unless
\* one was accepted while the socket was not in the room (for its own: while it was,
\* contrary to what the tap had seen), or was lost with a connection.
FollowsInStep ==
  OnScreen /\ ~Owed /\ messages = <<>> /\ inbox = <<>> => playback = truth

\* The player does what the screen says, provided that nothing was cast while
\* playing, no load failed and none was under way when the state changed.
PlayerFollows ==
  cast /\ loads = <<>> /\ ~disturbed =>
    /\ sounding = playback.playing
    /\ sounding => source = playback.position
=============================================================================
