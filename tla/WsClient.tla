------------------------------ MODULE WsClient ------------------------------
(***************************************************************************)
(* The reconnecting WebSocket of a screen (core/api/web_socket_service):   *)
(* WebSocketService and WsNotifier, with the retry button of the screens   *)
(* and a network that refuses and breaks connections at will.              *)
(*                                                                         *)
(* Every call of _openSocket has a slot, from the timer that will make it  *)
(* to the end of the socket it opens; its awaits are steps.  Cancelling    *)
(* the subscription of a socket does not close the socket                  *)
(* (web_socket_channel); no event follows the cancellation.                *)
(***************************************************************************)
EXTENDS Naturals

CONSTANTS
  Slots,       \* bound: calls of _openSocket and sockets at one time
  MaxAttempts, \* _maxAttempts
  Impatient,   \* may the button be tapped again before the screen is redrawn?
  Nil

ASSUME WsClientAssumption ==
  /\ Slots \subseteq Nat /\ Nil \notin Slots
  /\ MaxAttempts \in Nat /\ Impatient \in BOOLEAN

VARIABLES
  socket,            \* the state of each slot
  channel, subscription, retryTimer,  \* the fields, by slot
  intentionalClose, attempt,
  state,             \* WsNotifier.state
  shown,             \* the state a screen with the button was last drawn with
  hasButton,         \* editor and event screens offer a retry, device screens do not
  everConnected,     \* _everConnected of a screen that has the button
  stranded           \* history: reading the token threw

fields == <<channel, subscription, retryTimer, intentionalClose, attempt>>
screen == <<state, shown, hasButton, everConnected, stranded>>
wsVars == <<socket, fields, screen>>

\* "timer" before _openSocket, "token" and "handshake" at its awaits, "accepted":
\* the server has upgraded; then the socket: "open", "broken" with its events to
\* come, "failing" after onError, "closing".
SlotStates == {"free", "timer", "token", "handshake", "accepted", "open", "broken",
               "failing", "closing"}
WsStates == {"connecting", "connected", "error"}

WsTypeOK ==
  /\ socket \in [Slots -> SlotStates]
  /\ {channel, subscription, retryTimer} \subseteq Slots \cup {Nil}
  /\ intentionalClose \in BOOLEAN /\ attempt \in 0..(MaxAttempts + 1)
  /\ state \in WsStates /\ shown \in WsStates
  /\ {hasButton, everConnected, stranded} \subseteq BOOLEAN

\* A call takes the first free slot.
Vacant(slots, o) == slots[o] = "free" /\ \A n \in Slots : slots[n] = "free" => o <= n

\* build() has called connect(), which runs up to the first await.
WsInit ==
  /\ \E o \in Slots :
       /\ \A n \in Slots : o <= n
       /\ socket = [n \in Slots |-> IF n = o THEN "token" ELSE "free"]
  /\ channel = Nil /\ subscription = Nil /\ retryTimer = Nil
  /\ intentionalClose = FALSE /\ attempt = 0
  /\ state = "connecting" /\ shown = "connecting"
  /\ hasButton \in BOOLEAN /\ everConnected = FALSE /\ stranded = FALSE

Become(o, s) == socket' = [socket EXCEPT ![o] = s]

\* onStateChange, which is deaf once the provider is disposed, and the listener of
\* the screen.
Announce(s) ==
  /\ state' = IF intentionalClose THEN state ELSE s
  /\ everConnected' = (everConnected \/ (hasButton /\ state' = "connected"))
  /\ UNCHANGED <<shown, hasButton, stranded>>

\* Slot o, left in state s, and a timer for the next call.
Retime(o, s) ==
  LET freed == [socket EXCEPT ![o] = s] IN
  \E n \in Slots :
    /\ Vacant(freed, n)
    /\ socket' = [freed EXCEPT ![n] = "timer"]
    /\ retryTimer' = n

\* Mutant: the subscription is kept.
ScheduleReconnectKeeping(o, s) ==
  /\ channel' = Nil
  /\ attempt' = attempt + 1
  /\ IF attempt' > MaxAttempts
     THEN Become(o, s) /\ Announce("error") /\ UNCHANGED retryTimer
     ELSE Retime(o, s) /\ Announce("connecting")
  /\ UNCHANGED <<subscription, intentionalClose>>

ScheduleReconnect(o, s) ==
  /\ subscription' = Nil /\ channel' = Nil
  /\ attempt' = attempt + 1
  /\ IF attempt' > MaxAttempts
     THEN Become(o, s) /\ Announce("error") /\ UNCHANGED retryTimer
     ELSE Retime(o, s) /\ Announce("connecting")
  /\ UNCHANGED intentionalClose

-----------------------------------------------------------------------------
(* _openSocket                                                             *)

\* Mutant: every call counts from zero.
TimerFiresAfresh(o) ==
  /\ socket[o] = "timer"
  /\ Become(o, "token")
  /\ attempt' = 0
  /\ Announce("connecting")
  /\ UNCHANGED <<channel, subscription, retryTimer, intentionalClose>>

TimerFires(o) ==
  /\ socket[o] = "timer"
  /\ Become(o, "token")
  /\ Announce("connecting")
  /\ UNCHANGED fields

\* await _getToken(), outside of the try.
TokenRead(o) ==
  /\ socket[o] = "token"
  /\ Become(o, "handshake")
  /\ UNCHANGED <<fields, screen>>

TokenThrows(o) ==
  /\ socket[o] = "token"
  /\ Become(o, "free")
  /\ stranded' = TRUE
  /\ UNCHANGED <<fields, state, shown, hasButton, everConnected>>

Accept(o) ==
  /\ socket[o] = "handshake"
  /\ Become(o, "accepted")
  /\ UNCHANGED <<fields, screen>>

\* catch: refused by the server, or unreachable, or the answer is lost.
HandshakeFails(o) ==
  /\ socket[o] \in {"handshake", "accepted"}
  /\ IF intentionalClose
     THEN Become(o, "free") /\ UNCHANGED <<fields, screen>>
     ELSE ScheduleReconnect(o, "free")

\* await channel.ready returns; the old subscription is cancelled.
Ready(o) ==
  /\ socket[o] = "accepted"
  /\ IF intentionalClose
     THEN Become(o, "closing") /\ UNCHANGED <<fields, screen>>
     ELSE /\ Become(o, "open")
          /\ channel' = o /\ subscription' = o /\ attempt' = 0
          /\ Announce("connected")
          /\ UNCHANGED <<retryTimer, intentionalClose>>

-----------------------------------------------------------------------------
(* The socket                                                              *)

Break(o) ==
  /\ socket[o] = "open"
  /\ Become(o, "broken")
  /\ UNCHANGED <<fields, screen>>

\* onError, after which onDone would follow.  (disconnect has cancelled the
\* subscription when intentionalClose is set.)
OnError(o) ==
  /\ socket[o] = "broken" /\ subscription = o
  /\ ScheduleReconnect(o, "failing")

OnDone(o) ==
  /\ socket[o] \in {"broken", "failing"} /\ subscription = o
  /\ ScheduleReconnect(o, "free")

\* Nobody listens to what is left of a socket, or its close has completed.
Forget(o) ==
  /\ \/ socket[o] \in {"broken", "failing"} /\ subscription # o
     \/ socket[o] = "closing"
  /\ Become(o, "free")
  /\ UNCHANGED <<fields, screen>>

-----------------------------------------------------------------------------
(* The screen                                                              *)

Draw ==
  /\ ~intentionalClose /\ hasButton /\ shown # state
  /\ shown' = state
  /\ UNCHANGED <<socket, fields, state, hasButton, everConnected, stranded>>

\* The button of the banner: reconnect(), that is, connect().
Reconnect ==
  /\ ~intentionalClose /\ shown = "error" /\ everConnected
  /\ Impatient \/ state = "error"
  /\ attempt' = 0
  /\ \E o \in Slots : Vacant(socket, o) /\ Become(o, "token")
  /\ Announce("connecting")
  /\ UNCHANGED <<channel, subscription, retryTimer, intentionalClose>>

\* The last listener is gone: disconnect().
Disconnect ==
  /\ ~intentionalClose
  /\ intentionalClose' = TRUE
  /\ socket' = [o \in Slots |->
                  IF o = retryTimer /\ socket[o] = "timer" THEN "free"
                  ELSE IF o = channel THEN "closing" ELSE socket[o]]
  /\ channel' = Nil /\ subscription' = Nil /\ retryTimer' = Nil
  /\ UNCHANGED <<attempt, screen>>

-----------------------------------------------------------------------------
\* The service goes on by itself; a handshake ends one way or the other.
Service(o) == TimerFires(o) \/ TokenRead(o) \/ HandshakeFails(o) \/ Ready(o)
              \/ OnError(o) \/ OnDone(o) \/ Forget(o)

Closed == intentionalClose /\ (\A o \in Slots : socket[o] = "free") /\ UNCHANGED wsVars

WsNext ==
  \/ \E o \in Slots : Service(o) \/ TokenThrows(o) \/ Accept(o) \/ Break(o)
  \/ Draw \/ Reconnect \/ Disconnect
  \/ Closed

WsSpec == WsInit /\ [][WsNext]_wsVars /\ \A o \in Slots : WF_wsVars(Service(o))

-----------------------------------------------------------------------------
(* Properties                                                              *)

\* What is under way to get a connection, or the connection there is.
Chain == {o \in Slots : socket[o] \in {"timer", "token", "handshake", "accepted"}}
         \cup ({subscription} \ {Nil})

\* Each path has its own connection, torn down when the last listener is gone.
\* While the screen is there, a loss is answered by one retry: whatever order the
\* events of a socket, the timer and the button come in, there are never two of them
\* after a connection, if the screen is redrawn between two taps (~Impatient):
\* reconnect itself does not look whether a socket is being opened.  A closed screen
\* leaves no open socket behind, however late a handshake ends.
OneConnection ==
  IF intentionalClose THEN \A o \in Slots : socket[o] # "open"
  ELSE \A o, p \in Chain : o = p

\* The dot and the banner do not lie: "connecting" while a retry is under way,
\* "connected" while a socket is listened to, "error" when nothing is tried.
StateIsTruthful ==
  ~intentionalClose /\ ~stranded =>
    /\ state = "connected" => channel # Nil /\ channel = subscription
    /\ state = "connecting" => channel = Nil /\ Chain # {}
    /\ state = "error" => Chain = {}

\* A screen does not say "connecting" for ever, however often it is refused.
Settles == state = "connecting" ~> state # "connecting" \/ intentionalClose \/ stranded

\* A screen that is closed starts nothing: no timer survives, and a handshake that
\* fails afterwards is not tried again.
StaysQuiet ==
  [][intentionalClose => \A o \in Slots : socket'[o] \in {"timer", "token"} => socket'[o] = socket[o]]_socket
=============================================================================
