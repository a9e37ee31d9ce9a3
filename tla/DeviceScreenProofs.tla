------------------------- MODULE DeviceScreenProofs -------------------------
(***************************************************************************)
(* Proofs about WsClient and DeviceScreen, which runs on it.               *)
(*                                                                         *)
(* With a screen that is redrawn between two taps, a service never has two *)
(* connections and a closed screen leaves none, for every number of        *)
(* attempts and of slots.  A device screen is in step with the server and  *)
(* its player with the screen, for any number of commands, connections and *)
(* loads.                                                                  *)
(***************************************************************************)
EXTENDS DeviceScreen, TLAPS

Calling == {"timer", "token", "handshake", "accepted"}

\* The fields and the slots agree.  While the screen is there, one slot at most is
\* under way, and it has attempts left; what is open is listened to; the timer that
\* disconnect cancels is the only one.
SInv ==
  /\ socket \in [Slots -> SlotStates]
  /\ {channel, subscription, retryTimer} \subseteq Slots \cup {Nil}
  /\ intentionalClose \in BOOLEAN /\ attempt \in 0..(MaxAttempts + 1)
  /\ state \in WsStates /\ shown \in WsStates
  /\ {hasButton, everConnected, stranded} \subseteq BOOLEAN
  /\ channel = subscription
  /\ subscription # Nil => socket[subscription] \in {"open", "broken"}
  /\ \A o \in Slots : socket[o] = "open" => subscription = o
  /\ \A o \in Slots : socket[o] = "timer" => retryTimer = o
  /\ intentionalClose => subscription = Nil /\ retryTimer = Nil
  /\ ~intentionalClose =>
       /\ \A o \in Slots : socket[o] \in Calling =>
            /\ attempt <= MaxAttempts /\ subscription = Nil /\ state = "connecting"
            /\ \A p \in Slots : socket[p] \in Calling => o = p
       /\ subscription # Nil => attempt <= MaxAttempts
       /\ state = "connected" <=> subscription # Nil
       /\ state = "connecting" /\ ~stranded => \E o \in Slots : socket[o] \in Calling

\* Initially one call is under way.
LEMMA SocketBegins == WsInit => SInv
<1> SUFFICES ASSUME WsInit PROVE SInv
  OBVIOUS
<1>1. PICK o \in Slots : socket = [n \in Slots |-> IF n = o THEN "token" ELSE "free"]
  BY DEF WsInit
<1>2. /\ socket \in [Slots -> SlotStates] /\ socket[o] \in Calling
      /\ \A p \in Slots : socket[p] \in Calling => o = p
      /\ \A p \in Slots : socket[p] \notin {"open", "timer"}
  BY <1>1 DEF SlotStates, Calling
<1>3. attempt \in 0..(MaxAttempts + 1) /\ attempt <= MaxAttempts
  BY WsClientAssumption DEF WsInit
<1> QED BY <1>1, <1>2, <1>3 DEF WsInit, SInv, WsStates

\* The only call, or the only socket, makes room for a timer or for the error state.
LEMMA SchedulesInductive ==
  ASSUME SInv, ~intentionalClose, NEW o \in Slots, NEW s \in {"free", "failing"},
         socket[o] \in {"handshake", "accepted"} \/ subscription = o,
         ScheduleReconnect(o, s)
  PROVE  SInv'
<1>1. attempt <= MaxAttempts /\ attempt \in Nat /\ MaxAttempts \in Nat /\ o # Nil
  BY WsClientAssumption DEF SInv, Calling
<1>2. \A p \in Slots : p # o => socket[p] \notin Calling \cup {"open"}
  <2>1. CASE socket[o] \in {"handshake", "accepted"}
    BY <2>1, WsClientAssumption DEF SInv, Calling
  <2>2. CASE subscription = o
    BY <2>2, <1>1 DEF SInv
  <2> QED BY <2>1, <2>2
<1>3. CASE attempt' > MaxAttempts
  <2>1. socket' = [socket EXCEPT ![o] = s] /\ state' = "error" /\ retryTimer' = retryTimer
    BY <1>3 DEF ScheduleReconnect, Become, Announce
  <2>2. \A p \in Slots : socket'[p] \notin Calling \cup {"open"}
    BY <1>2, <2>1 DEF SInv, Calling
  <2> QED
    BY <1>1, <1>3, <2>1, <2>2
    DEF SInv, ScheduleReconnect, Announce, SlotStates, WsStates, Calling
<1>4. CASE ~(attempt' > MaxAttempts)
  <2>1. PICK n \in Slots :
          /\ [socket EXCEPT ![o] = s][n] = "free"
          /\ socket' = [[socket EXCEPT ![o] = s] EXCEPT ![n] = "timer"]
          /\ retryTimer' = n
    BY <1>4 DEF ScheduleReconnect, Retime, Vacant
  <2>2. socket' \in [Slots -> SlotStates] /\ socket'[n] = "timer"
    BY <2>1 DEF SInv, SlotStates
  <2>3. \A p \in Slots : p # n => socket'[p] \notin Calling \cup {"open"}
    BY <1>2, <2>1 DEF SInv, Calling
  <2>4. /\ state' = "connecting" /\ UNCHANGED <<shown, hasButton, stranded, intentionalClose>>
        /\ everConnected' \in BOOLEAN
        /\ subscription' = Nil /\ channel' = Nil /\ attempt' = attempt + 1
    BY <1>4 DEF ScheduleReconnect, Announce, SInv
  <2> QED
    BY <1>1, <1>4, <2>1, <2>2, <2>3, <2>4 DEF SInv, WsStates, Calling
<1> QED BY <1>3, <1>4

\* Every step keeps it, one case per action.
LEMMA SocketInductive ==
  ASSUME ~Impatient, SInv, [WsNext]_wsVars
  PROVE  SInv'
<1> USE DEF Calling
<1>1. ASSUME NEW o \in Slots, TimerFires(o) PROVE SInv'
  BY <1>1 DEF SInv, TimerFires, Become, Announce, fields, SlotStates, WsStates
<1>2. ASSUME NEW o \in Slots, TokenRead(o) PROVE SInv'
  BY <1>2 DEF SInv, TokenRead, Become, fields, screen, SlotStates
<1>3. ASSUME NEW o \in Slots, TokenThrows(o) PROVE SInv'
  BY <1>3 DEF SInv, TokenThrows, Become, fields, SlotStates
<1>4. ASSUME NEW o \in Slots, Accept(o) PROVE SInv'
  BY <1>4 DEF SInv, Accept, Become, fields, screen, SlotStates
<1>5. ASSUME NEW o \in Slots, HandshakeFails(o) PROVE SInv'
  <2>1. CASE intentionalClose
    BY <1>5, <2>1 DEF SInv, HandshakeFails, Become, fields, screen, SlotStates
  <2>2. CASE ~intentionalClose
    BY <1>5, <2>2, SchedulesInductive DEF HandshakeFails
  <2> QED BY <2>1, <2>2
<1>6. ASSUME NEW o \in Slots, Ready(o) PROVE SInv'
  <2>1. CASE intentionalClose
    BY <1>6, <2>1 DEF SInv, Ready, Become, fields, screen, SlotStates
  <2>2. CASE ~intentionalClose
    BY <1>6, <2>2, WsClientAssumption
    DEF SInv, Ready, Become, Announce, SlotStates, WsStates
  <2> QED BY <2>1, <2>2
<1>7. ASSUME NEW o \in Slots, Break(o) PROVE SInv'
  BY <1>7 DEF SInv, Break, Become, fields, screen, SlotStates
<1>8. ASSUME NEW o \in Slots, OnError(o) PROVE SInv'
  <2>1. ~intentionalClose
    BY <1>8, WsClientAssumption DEF SInv, OnError
  <2> QED BY <1>8, <2>1, SchedulesInductive DEF OnError
<1>9. ASSUME NEW o \in Slots, OnDone(o) PROVE SInv'
  <2>1. ~intentionalClose
    BY <1>9, WsClientAssumption DEF SInv, OnDone
  <2> QED BY <1>9, <2>1, SchedulesInductive DEF OnDone
<1>10. ASSUME NEW o \in Slots, Forget(o) PROVE SInv'
  BY <1>10 DEF SInv, Forget, Become, fields, screen, SlotStates
<1>11. ASSUME Draw PROVE SInv'
  BY <1>11 DEF SInv, Draw, fields
<1>12. ASSUME Reconnect PROVE SInv'
  <2>1. state = "error" /\ ~intentionalClose
    BY <1>12 DEF Reconnect
  <2>2. PICK o \in Slots : socket[o] = "free" /\ Become(o, "token")
    BY <1>12 DEF Reconnect, Vacant
  <2>3. subscription = Nil /\ \A p \in Slots : socket[p] \notin Calling
    BY <2>1 DEF SInv
  <2> QED
    BY <1>12, <2>1, <2>2, <2>3, WsClientAssumption
    DEF SInv, Reconnect, Become, Announce, SlotStates, WsStates
<1>13. ASSUME Disconnect PROVE SInv'
  <2>1. \A o \in Slots : socket'[o] \notin {"open", "timer"}
    BY <1>13, WsClientAssumption DEF SInv, Disconnect
  <2>2. socket' \in [Slots -> SlotStates]
    BY <1>13 DEF SInv, Disconnect, SlotStates
  <2> QED BY <1>13, <2>1, <2>2 DEF SInv, Disconnect, screen
<1>14. CASE UNCHANGED wsVars
  BY <1>14 DEF SInv, wsVars, fields, screen
<1> QED
  BY <1>1, <1>2, <1>3, <1>4, <1>5, <1>6, <1>7, <1>8, <1>9, <1>10, <1>11, <1>12, <1>13, <1>14
  DEF WsNext, Service, Closed

\* The invariant the other theorems rest on.
THEOREM SocketInvariance == ~Impatient /\ WsSpec => []SInv
<1>1. ~Impatient /\ SInv /\ [WsNext]_wsVars => SInv' BY SocketInductive
<1>2. ~Impatient => (WsSpec => []SInv)
  <2> SUFFICES ASSUME ~Impatient PROVE WsSpec => []SInv OBVIOUS
  <2>1. SInv /\ [WsNext]_wsVars => SInv' BY <1>1
  <2> QED BY SocketBegins, <2>1, PTL DEF WsSpec
<1> QED BY <1>2

\* Types, the bound of the attempts among them.
THEOREM SocketTypeCorrect == ~Impatient /\ WsSpec => []WsTypeOK
<1>1. SInv => WsTypeOK BY DEF SInv, WsTypeOK
<1> QED BY <1>1, SocketInvariance, PTL

\* One connection or one attempt at a time while the screen is there, and no open
\* socket afterwards (connect, _openSocket, _scheduleReconnect, disconnect).
THEOREM OneConnectionAlways == ~Impatient /\ WsSpec => []OneConnection
<1>1. SInv => OneConnection
  BY WsClientAssumption DEF SInv, OneConnection, Chain, Calling
<1> QED BY <1>1, SocketInvariance, PTL

\* The connection state shown is the one there is.
THEOREM TruthfulAlways == ~Impatient /\ WsSpec => []StateIsTruthful
<1>1. SInv => StateIsTruthful
  BY WsClientAssumption DEF SInv, StateIsTruthful, Chain, Calling, WsStates
<1> QED BY <1>1, SocketInvariance, PTL

\* Nothing begins after the screen is closed.
THEOREM StaysQuietAlways == ~Impatient /\ WsSpec => StaysQuiet
<1> DEFINE Quiet ==
      intentionalClose => \A o \in Slots : socket'[o] \in {"timer", "token"} => socket'[o] = socket[o]
<1>1. SInv /\ [WsNext]_wsVars => [Quiet]_socket
  <2> SUFFICES ASSUME SInv, WsNext, intentionalClose, NEW p \in Slots,
                      socket'[p] \in {"timer", "token"}
               PROVE  socket'[p] = socket[p]
    BY DEF wsVars
  <2>1. \A o \in Slots : socket[o] # "timer" /\ subscription # o
    BY WsClientAssumption DEF SInv
  <2>2. ASSUME NEW o \in Slots, Service(o) \/ TokenThrows(o) \/ Accept(o) \/ Break(o)
        PROVE  socket'[p] = socket[p]
    BY <2>1, <2>2
    DEF SInv, Service, TimerFires, TokenRead, HandshakeFails, Ready, OnError, OnDone, Forget,
        TokenThrows, Accept, Break, Become
  <2> QED BY <2>2 DEF WsNext, Draw, Reconnect, Disconnect, Closed, wsVars
<1>2. ~Impatient /\ WsSpec => [][Quiet]_socket
  BY <1>1, SocketInvariance, PTL DEF WsSpec
<1> QED BY <1>2 DEF StaysQuiet

-----------------------------------------------------------------------------
(* Device screens                                                          *)
(*                                                                         *)
(* What is on its way to a member of the room leads from what the screen   *)
(* shows to what the server has accepted.  To lead is to have a path of    *)
(* states, one for each command.                                           *)

\* The commands cs, obeyed one after the other, lead from x to y.
Path(h, x, cs, y) ==
  /\ h \in [0..Len(cs) -> Playbacks] /\ h[0] = x /\ h[Len(cs)] = y
  /\ \A i \in 1..Len(cs) : h[i] = Obey(h[i - 1], cs[i])

Leads(x, cs, y) == \E h : Path(h, x, cs, y)

\* What the screen will be told.
Coming == IF member THEN inbox \o messages ELSE <<>>

DevTypes ==
  /\ pc \in [Commands -> {"idle", "sent", "answered", "refused"}]
  /\ action \in [Commands -> Actions \cup {Nil}]
  /\ \A c \in Commands : pc[c] # "idle" => action[c] \in Actions
  /\ waiting \in Commands \cup {Nil}
  /\ local \in BOOLEAN /\ member \in BOOLEAN /\ slipped \in BOOLEAN
  /\ messages \in Seq(Actions) /\ inbox \in Seq(Actions)
  /\ ~member => inbox = <<>>
  /\ playback \in Playbacks /\ truth \in Playbacks

\* The command that the screen still has to apply itself is the last one, and
\* nothing else is on its way.
InStep ==
  ~slipped =>
    IF Owed THEN Coming = <<>> /\ truth = Obey(playback, action[waiting])
    ELSE Leads(playback, Coming, truth)

\* The load the state of the screen asks for.
Wanted(s) == [position |-> playback.position, track |-> playback.position,
              play |-> playback.playing, stage |-> s]

\* The player without a load, and with one.
Steady ==
  /\ sounding = playback.playing
  /\ sounding => source = playback.position
  /\ loadedPosition = playback.position => source = playback.position

Loading ==
  /\ sounding => playback.playing
  /\ \/ loads = <<Wanted("resolve")>>
     \/ loads = <<Wanted("set")>> /\ source = playback.position

PlayerInv ==
  ~disturbed =>
    IF cast THEN (loads = <<>> /\ Steady) \/ Loading ELSE loads = <<>> /\ ~sounding

PlayerTypes == cast \in BOOLEAN /\ sounding \in BOOLEAN /\ disturbed \in BOOLEAN

-----------------------------------------------------------------------------
(* Paths                                                                   *)

\* _apply is total on the commands.
LEMMA ObeyType == ASSUME NEW x \in Playbacks, NEW a \in Actions PROVE Obey(x, a) \in Playbacks
<1>1. CASE a = "play"
  BY <1>1 DEF Obey, Playbacks, Positions
<1>2. CASE a = "pause"
  BY <1>2 DEF Obey, Playbacks, Positions
<1>3. CASE a = "next"
  BY <1>3 DEF Obey, Playbacks, Positions
<1> QED
  BY <1>1, <1>2, <1>3 DEF Actions

\* What a command changes.
LEMMA ObeyEffect ==
  ASSUME NEW x \in Playbacks, NEW a \in Actions
  PROVE  Obey(x, a).position # x.position => Obey(x, a).playing = x.playing
  BY DEF Obey, Playbacks, Positions, Actions

\* Without commands nothing changes.
LEMMA LeadsNowhere ==
  ASSUME NEW x \in Playbacks, NEW y PROVE Leads(x, <<>>, y) <=> x = y
<1>1. ASSUME Leads(x, <<>>, y) PROVE x = y
  BY <1>1 DEF Leads, Path
<1>2. ASSUME x = y PROVE Leads(x, <<>>, y)
  <2>1. Path([i \in 0..0 |-> x], x, <<>>, y)
    BY <1>2 DEF Path
  <2> QED
    BY <2>1 DEF Leads
<1> QED
  BY <1>1, <1>2

\* A command of another screen, or one this screen will hear of, makes the path longer.
LEMMA LeadsOn ==
  ASSUME NEW cs \in Seq(Actions), NEW a \in Actions, NEW x, NEW y \in Playbacks,
         Leads(x, cs, y)
  PROVE  Leads(x, Append(cs, a), Obey(y, a))
<1>1. PICK h : Path(h, x, cs, y)
  BY DEF Leads
<1> DEFINE n == Len(cs)
           g == [i \in 0..(n + 1) |-> IF i <= n THEN h[i] ELSE Obey(y, a)]
<1>2. n \in Nat /\ Len(Append(cs, a)) = n + 1
  OBVIOUS
<1>3. g \in [0..(n + 1) -> Playbacks]
  BY <1>1, <1>2, ObeyType DEF Path
<1>4. g[0] = x /\ g[n + 1] = Obey(y, a)
  BY <1>1, <1>2 DEF Path
<1>5. ASSUME NEW i \in 1..(n + 1) PROVE g[i] = Obey(g[i - 1], Append(cs, a)[i])
  <2>1. CASE i <= n
    <3>1. g[i] = h[i] /\ g[i - 1] = h[i - 1] /\ Append(cs, a)[i] = cs[i] /\ i \in 1..n
      BY <1>2, <1>5, <2>1
    <3> QED
      BY <1>1, <3>1 DEF Path
  <2>2. CASE i = n + 1
    <3>1. g[i] = Obey(y, a) /\ g[i - 1] = h[n] /\ Append(cs, a)[i] = a
      BY <1>2, <2>2
    <3> QED
      BY <1>1, <3>1 DEF Path
  <2> QED
    BY <1>2, <1>5, <2>1, <2>2
<1>6. Path(g, x, Append(cs, a), Obey(y, a))
  BY <1>2, <1>3, <1>4, <1>5 DEF Path
<1> QED
  BY <1>6 DEF Leads

\* The next echo is a step on the path.
LEMMA LeadsFrom ==
  ASSUME NEW cs \in Seq(Actions), cs # <<>>, NEW x, NEW y, Leads(x, cs, y)
  PROVE  Leads(Obey(x, Head(cs)), Tail(cs), y)
<1>1. PICK h : Path(h, x, cs, y)
  BY DEF Leads
<1> DEFINE n == Len(cs)
           g == [i \in 0..(n - 1) |-> h[i + 1]]
<1>2. n \in Nat \ {0} /\ Len(Tail(cs)) = n - 1 /\ Head(cs) = cs[1]
  OBVIOUS
<1>3. g \in [0..(n - 1) -> Playbacks]
  BY <1>1, <1>2 DEF Path
<1>4. g[0] = Obey(x, Head(cs)) /\ g[n - 1] = y
  BY <1>1, <1>2 DEF Path
<1>5. ASSUME NEW i \in 1..(n - 1) PROVE g[i] = Obey(g[i - 1], Tail(cs)[i])
  <2>1. g[i] = h[i + 1] /\ g[i - 1] = h[i] /\ Tail(cs)[i] = cs[i + 1]
    BY <1>2, <1>5
  <2>2. h[i + 1] = Obey(h[i], cs[i + 1])
    BY <1>1, <1>2, <1>5 DEF Path
  <2> QED
    BY <2>1, <2>2
<1>6. Path(g, Obey(x, Head(cs)), Tail(cs), y)
  BY <1>2, <1>3, <1>4, <1>5 DEF Path
<1> QED
  BY <1>6 DEF Leads

\* A command that is sent, one that moves on, and one that arrives.
LEMMA Concatenation ==
  ASSUME NEW s \in Seq(Actions), NEW m \in Seq(Actions)
  PROVE  /\ s \o m \in Seq(Actions)
         /\ \A a \in Actions : s \o Append(m, a) = Append(s \o m, a)
         /\ m # <<>> => Append(s, Head(m)) \o Tail(m) = s \o m
         /\ s # <<>> => /\ s \o m # <<>> /\ Head(s \o m) = Head(s)
                        /\ Tail(s \o m) = Tail(s) \o m
         /\ s = <<>> => s \o m = m
         /\ s \o m = <<>> <=> s = <<>> /\ m = <<>>
<1>1. s \o m \in Seq(Actions)
  OBVIOUS
<1>2. \A a \in Actions : s \o Append(m, a) = Append(s \o m, a)
  OBVIOUS
<1>3. m # <<>> => Append(s, Head(m)) \o Tail(m) = s \o m
  OBVIOUS
<1>4. s # <<>> => s \o m # <<>> /\ Head(s \o m) = Head(s)
  OBVIOUS
<1>5. s # <<>> => Tail(s \o m) = Tail(s) \o m
  OBVIOUS
<1>6. s = <<>> => s \o m = m
  OBVIOUS
<1>7. s \o m = <<>> <=> s = <<>> /\ m = <<>>
  OBVIOUS
<1> QED
  BY <1>1, <1>2, <1>3, <1>4, <1>5, <1>6, <1>7

-----------------------------------------------------------------------------
(* The commands and the room                                               *)

\* A new screen, and what is left of one that is disposed.
LEMMA FreshPlayback == Fresh \in Playbacks /\ Fresh.playing = FALSE /\ Fresh.position = 1
  BY DEF Fresh, Playbacks, Positions

LEMMA BeginsInStep == DeviceInit => DevTypes /\ InStep
<1> SUFFICES ASSUME DeviceInit PROVE DevTypes /\ InStep
  OBVIOUS
<1>1. DevTypes
  <2>1. /\ pc \in [Commands -> {"idle", "sent", "answered", "refused"}]
        /\ action \in [Commands -> Actions \cup {Nil}]
        /\ \A c \in Commands : pc[c] = "idle"
    BY DEF DeviceInit
  <2>2. messages \in Seq(Actions) /\ inbox \in Seq(Actions)
    BY DEF DeviceInit
  <2> QED
    BY <2>1, <2>2, FreshPlayback DEF DeviceInit, DevTypes
<1>2. ~Owed /\ Coming = <<>>
  BY DEF DeviceInit, Owed, Coming
<1>3. Leads(playback, <<>>, truth)
  BY LeadsNowhere, FreshPlayback DEF DeviceInit
<1> QED
  BY <1>1, <1>2, <1>3 DEF InStep

\* A request that leaves: nothing is decided yet.
LEMMA TapInStep ==
  ASSUME DevTypes, InStep, NEW c \in Commands, NEW a \in Actions, Tap(c, a) \/ OtherTaps(c, a)
  PROVE  DevTypes' /\ InStep'
<1>1. /\ pc[c] = "idle" /\ pc' = [pc EXCEPT ![c] = "sent"] /\ action' = [action EXCEPT ![c] = a]
      /\ UNCHANGED <<member, messages, inbox, slipped, playback, truth>>
      /\ \/ waiting = Nil /\ waiting' = c /\ local' = (state # "connected")
         \/ UNCHANGED <<waiting, local>>
  BY DEF Tap, OtherTaps, Request, roomVars
<1>2. DevTypes'
  BY <1>1 DEF DevTypes
<1>3. Owed' = Owed /\ (Owed => action'[waiting'] = action[waiting])
  <2>1. CASE waiting = Nil /\ waiting' = c
    BY <1>1, <2>1 DEF Owed, DevTypes
  <2>2. CASE UNCHANGED <<waiting, local>>
    BY <1>1, <2>2 DEF Owed, DevTypes
  <2> QED
    BY <1>1, <2>1, <2>2
<1> QED
  BY <1>1, <1>2, <1>3 DEF InStep, Coming

\* The server refuses a command, or accepts it: its echo is the last one on its way
\* to a member; a screen that is not one will apply the command itself, or has slipped.
LEMMA SendInStep ==
  ASSUME DevTypes, InStep, ~slipped, NEW c \in Commands, Send(c) PROVE DevTypes' /\ InStep'
<1>1. pc[c] = "sent" /\ UNCHANGED <<action, waiting, local, member, inbox, playback>>
      /\ action[c] \in Actions
  BY DEF Send, DevTypes
<1>2. CASE pc' = [pc EXCEPT ![c] = "refused"] /\ UNCHANGED <<truth, messages, slipped>>
  <2>1. DevTypes'
    BY <1>1, <1>2 DEF DevTypes
  <2>2. Owed' = Owed /\ Coming' = Coming
    BY <1>1, <1>2 DEF Owed, DevTypes, Coming
  <2> QED
    BY <1>1, <1>2, <2>1, <2>2 DEF InStep
<1>3. CASE /\ pc' = [pc EXCEPT ![c] = "answered"]
           /\ truth' = Obey(truth, action[c])
           /\ messages' = Append(messages, action[c]) \/ (~member /\ UNCHANGED messages)
           /\ slipped' = (slipped \/ Owed \/ (member <=> (waiting = c /\ local)))
  <2>1. messages' \in Seq(Actions) /\ truth' \in Playbacks
    BY <1>1, <1>3, ObeyType DEF DevTypes
  <2>2. DevTypes'
    BY <1>1, <1>3, <2>1 DEF DevTypes
  <2>3. ASSUME ~slipped' PROVE InStep'
    <3>1. ~Owed /\ Leads(playback, Coming, truth)
      BY <1>3, <2>3 DEF InStep
    <3>2. CASE member
      <4>1. messages' = Append(messages, action[c]) /\ ~(waiting = c /\ local)
        BY <1>3, <2>3, <3>2
      <4>2. ~Owed'
        BY <1>1, <1>3, <3>1, <4>1 DEF Owed, DevTypes
      <4>3. Coming' = Append(Coming, action[c]) /\ Coming \in Seq(Actions)
        BY <1>1, <3>2, <4>1, Concatenation DEF Coming, DevTypes
      <4>4. Leads(playback, Append(Coming, action[c]), Obey(truth, action[c]))
        BY <1>1, <3>1, <4>3, LeadsOn DEF DevTypes
      <4> QED
        BY <1>1, <1>3, <4>2, <4>3, <4>4 DEF InStep
    <3>3. CASE ~member
      <4>1. waiting = c /\ local
        BY <1>3, <2>3, <3>3
      <4>2. Owed' /\ Coming' = <<>> /\ Coming = <<>>
        <5>1. Nil \notin Commands
          BY DeviceScreenAssumption DEF Commands
        <5> QED
          BY <1>1, <1>3, <3>3, <4>1, <5>1 DEF Owed, Coming, DevTypes
      <4>3. playback = truth
        BY <3>1, <4>2, LeadsNowhere DEF DevTypes
      <4> QED
        BY <1>1, <1>3, <4>1, <4>2, <4>3 DEF InStep
    <3> QED
      BY <3>2, <3>3
  <2> QED
    BY <2>2, <2>3 DEF InStep
<1> QED
  BY <1>2, <1>3 DEF Send

\* The answer: the screen applies what it owes, or has nothing to do.
LEMMA FinishInStep ==
  ASSUME DevTypes, InStep, ~slipped, Finish PROVE DevTypes' /\ InStep'
<1>1. /\ waiting # Nil /\ pc[waiting] = "answered" /\ waiting' = Nil
      /\ local' = FALSE
      /\ UNCHANGED <<pc, action, truth, member, messages, inbox, slipped>>
  BY DEF Finish, roomVars
<1>2. waiting \in Commands /\ action[waiting] \in Actions
  BY <1>1 DEF DevTypes
<1>3. playback' = IF local THEN Obey(playback, action[waiting]) ELSE playback
  BY DEF Finish, Apply
<1>4. DevTypes'
  BY <1>1, <1>2, <1>3, ObeyType DEF DevTypes
<1>5. ~Owed' /\ Coming' = Coming
  BY <1>1 DEF Owed, Coming
<1>6. CASE Owed
  <2>1. Coming = <<>> /\ truth = playback'
    BY <1>3, <1>6 DEF InStep, Owed
  <2>2. Leads(playback', <<>>, truth)
    BY <1>4, <2>1, LeadsNowhere DEF DevTypes
  <2> QED
    BY <1>1, <1>4, <1>5, <2>1, <2>2 DEF InStep
<1>7. CASE ~Owed
  <2>1. playback' = playback
    BY <1>1, <1>3, <1>7 DEF Owed, DevTypes
  <2> QED
    BY <1>1, <1>4, <1>5, <1>7, <2>1 DEF InStep
<1> QED
  BY <1>6, <1>7

\* No answer: a command that is owed is never applied.
LEMMA GiveUpInStep == ASSUME DevTypes, InStep, GiveUp PROVE DevTypes' /\ InStep'
<1>1. /\ waiting' = Nil /\ local' = FALSE /\ slipped' = (slipped \/ Owed)
      /\ UNCHANGED <<pc, action, truth, member, messages, inbox, playback>>
  BY DEF GiveUp
<1>2. DevTypes'
  BY <1>1 DEF DevTypes, Owed
<1>3. ~Owed' /\ Coming' = Coming
  BY <1>1 DEF Owed, Coming
<1> QED
  BY <1>1, <1>2, <1>3 DEF InStep

\* The connection gets into the room: what is in the hub was for others.
LEMMA JoinInStep == ASSUME DevTypes, InStep, Join PROVE DevTypes' /\ InStep'
<1>1. /\ ~member /\ member' = TRUE /\ slipped' = (slipped \/ messages # <<>>)
      /\ UNCHANGED <<pc, action, waiting, local, truth, messages, inbox, playback>>
  BY DEF Join, requestVars
<1>2. DevTypes'
  BY <1>1 DEF DevTypes
<1>3. Owed' = Owed
  BY <1>1 DEF Owed
<1>4. ~slipped' => Coming' = Coming
  BY <1>1, Concatenation DEF Coming, DevTypes
<1> QED
  BY <1>1, <1>2, <1>3, <1>4 DEF InStep

\* The hub hands on the oldest message.
LEMMA DeliverInStep == ASSUME DevTypes, InStep, Deliver PROVE DevTypes' /\ InStep'
<1>1. /\ messages # <<>> /\ messages' = Tail(messages)
      /\ inbox' = IF member THEN Append(inbox, Head(messages)) ELSE inbox
      /\ UNCHANGED <<pc, action, waiting, local, truth, member, slipped, playback>>
  BY DEF Deliver, requestVars
<1>2. messages' \in Seq(Actions) /\ inbox' \in Seq(Actions)
  BY <1>1 DEF DevTypes
<1>3. DevTypes'
  BY <1>1, <1>2 DEF DevTypes
<1>4. Owed' = Owed /\ Coming' = Coming
  BY <1>1, Concatenation DEF Owed, Coming, DevTypes
<1> QED
  BY <1>1, <1>3, <1>4 DEF InStep

\* The screen does what it is told.
LEMMA ReceiveInStep == ASSUME DevTypes, InStep, Receive PROVE DevTypes' /\ InStep'
<1>1. /\ inbox # <<>> /\ inbox' = Tail(inbox) /\ playback' = Obey(playback, Head(inbox))
      /\ UNCHANGED <<pc, action, waiting, local, truth, member, messages, slipped>>
  BY DEF Receive, Apply, requestVars
<1>2. inbox \in Seq(Actions) /\ messages \in Seq(Actions) /\ member
  BY <1>1 DEF DevTypes
<1>3. Head(inbox) \in Actions /\ Tail(inbox) \in Seq(Actions)
  BY <1>1, <1>2
<1>4. DevTypes'
  BY <1>1, <1>2, <1>3, ObeyType DEF DevTypes
<1>5. /\ Coming # <<>> /\ Coming \in Seq(Actions) /\ Head(Coming) = Head(inbox)
      /\ Coming' = Tail(Coming)
  BY <1>1, <1>2, Concatenation DEF Coming
<1>6. ASSUME ~slipped PROVE ~Owed' /\ Leads(playback', Coming', truth)
  <2>1. ~Owed /\ Leads(playback, Coming, truth)
    BY <1>5, <1>6 DEF InStep
  <2>2. ~Owed'
    BY <1>1, <2>1 DEF Owed
  <2> QED
    BY <1>1, <1>5, <2>1, <2>2, LeadsFrom
<1> QED
  BY <1>1, <1>4, <1>6 DEF InStep

\* A connection ends with nothing on its way, or the screen has slipped; a screen
\* that is disposed is as good as new.
LEMMA LinkedInStep == ASSUME DevTypes, InStep, Linked PROVE DevTypes' /\ InStep'
<1>1. CASE intentionalClose'
  <2>1. Dispose
    BY <1>1 DEF Linked
  <2>2. DevTypes'
    <3>1. /\ pc' \in [Commands -> {"idle", "sent", "answered", "refused"}]
          /\ action' \in [Commands -> Actions \cup {Nil}]
          /\ \A c \in Commands : pc'[c] = "idle"
      BY <2>1 DEF Dispose
    <3>2. messages' \in Seq(Actions) /\ inbox' \in Seq(Actions)
      BY <2>1 DEF Dispose
    <3> QED
      BY <2>1, <3>1, <3>2, FreshPlayback DEF Dispose, DevTypes
  <2>3. ~Owed' /\ Coming' = <<>>
    BY <2>1 DEF Dispose, Owed, Coming
  <2>4. Leads(playback', <<>>, truth')
    BY <2>1, LeadsNowhere, FreshPlayback DEF Dispose
  <2> QED
    BY <2>2, <2>3, <2>4 DEF InStep
<1>2. CASE ~intentionalClose'
  <2>1. /\ member' = (member /\ Connected') /\ inbox' = IF member' THEN inbox ELSE <<>>
        /\ UNCHANGED messages \/ (member /\ ~member' /\ messages' = <<>>)
        /\ slipped' = (slipped \/ (member /\ ~member' /\ messages \o inbox # <<>>))
        /\ UNCHANGED <<pc, action, waiting, local, truth, playback>>
    BY <1>2 DEF Linked, requestVars
  <2>2. member' \in BOOLEAN /\ slipped' \in BOOLEAN /\ (member' => member)
    BY <2>1 DEF DevTypes
  <2>3. inbox' \in Seq(Actions) /\ messages' \in Seq(Actions) /\ (~member' => inbox' = <<>>)
    <3>1. inbox \in Seq(Actions) /\ messages \in Seq(Actions) /\ <<>> \in Seq(Actions)
      BY DEF DevTypes
    <3>2. inbox' \in {inbox, <<>>} /\ messages' \in {messages, <<>>}
      BY <2>1
    <3> QED
      BY <2>1, <3>1, <3>2
  <2>4. DevTypes'
    BY <2>1, <2>2, <2>3 DEF DevTypes
  <2>5. Owed' = Owed
    BY <2>1 DEF Owed
  <2>6. ASSUME ~slipped' PROVE Coming' = Coming
    <3>1. CASE member'
      BY <2>1, <2>2, <3>1 DEF Coming
    <3>2. CASE ~member' /\ member
      <4>1. messages \o inbox = <<>>
        BY <2>1, <2>6, <3>2
      <4>2. messages = <<>> /\ inbox = <<>>
        BY <4>1, Concatenation DEF DevTypes
      <4> QED
        BY <3>2, <4>2, Concatenation DEF Coming, DevTypes
    <3>3. CASE ~member' /\ ~member
      BY <3>3 DEF Coming
    <3> QED
      BY <3>1, <3>2, <3>3
  <2> QED
    BY <2>1, <2>4, <2>5, <2>6 DEF InStep
<1> QED
  BY <1>1, <1>2

\* The player is not asked.
LEMMA PlayerInStep ==
  ASSUME DevTypes, InStep, UNCHANGED <<requestVars, roomVars, playback>>
  PROVE  DevTypes' /\ InStep'
<1>1. UNCHANGED <<pc, action, waiting, local, truth, member, messages, inbox, slipped, playback>>
  BY DEF requestVars, roomVars
<1> QED
  BY <1>1 DEF DevTypes, InStep, Owed, Coming

-----------------------------------------------------------------------------
(* The player                                                              *)

PInv == PlayerTypes /\ PlayerInv

\* A step that is about neither the state of the screen nor the player.
LEMMA PlayerFrame ==
  ASSUME PInv, UNCHANGED <<playback, playerVars>> PROVE PInv'
  BY DEF PInv, PlayerTypes, PlayerInv, Steady, Loading, Wanted, playerVars

\* A new player is silent.
LEMMA PlayerFresh ==
  ASSUME cast = FALSE, loads = <<>>, sounding = FALSE, disturbed = FALSE PROVE PInv
  BY DEF PInv, PlayerTypes, PlayerInv

\* The player is told of each change: it is loaded with what the screen asks for, or
\* has it.
LEMMA ApplyPlays ==
  ASSUME DevTypes, PInv, NEW a \in Actions, Apply(a) PROVE PInv'
<1> USE DEF PInv
<1>1. /\ playback \in Playbacks /\ playback' \in Playbacks /\ playback' = Obey(playback, a)
      /\ cast' = cast /\ cast \in BOOLEAN /\ Reconcile(playback, playback')
  BY ObeyType DEF Apply, DevTypes, PlayerTypes
<1>2. disturbed' = (disturbed \/ (playback # playback' /\ loads # <<>>))
  BY <1>1 DEF Reconcile
<1>3. CASE UNCHANGED <<loads, loadedPosition, source, sounding>> /\ (~cast \/ playback = playback')
  <2>1. PlayerTypes'
    BY <1>1, <1>2, <1>3 DEF PlayerTypes
  <2>2. CASE ~cast
    BY <1>1, <1>2, <1>3, <2>1, <2>2 DEF PlayerInv
  <2>3. CASE playback = playback'
    BY <1>1, <1>2, <1>3, <2>1, <2>3 DEF PlayerInv, Steady, Loading, Wanted
  <2> QED
    BY <1>3, <2>2, <2>3
<1>4. CASE cast /\ playback # playback'
  <2>1. playback.playing \in BOOLEAN /\ playback'.playing \in BOOLEAN
    BY <1>1 DEF Playbacks
  <2> DEFINE asks == \/ playback.position # playback'.position
                     \/ playback'.playing /\ loadedPosition # playback'.position
  <2>2. IF asks THEN Load(playback')
        ELSE sounding' = playback'.playing /\ UNCHANGED <<loads, loadedPosition, source>>
    BY <1>1, <1>4 DEF Reconcile
  <2>3. PlayerTypes'
    BY <1>1, <1>2, <2>1, <2>2 DEF PlayerTypes, Load
  <2>4. ASSUME ~disturbed' PROVE ~disturbed /\ loads = <<>> /\ Steady
    <3>1. ~disturbed /\ loads = <<>>
      BY <1>2, <1>4, <2>4
    <3> QED
      BY <1>4, <3>1 DEF PlayerInv, Loading
  <2>5. ASSUME ~disturbed', asks PROVE Loading'
    <3>1. loads' = <<Wanted("resolve")'>> /\ sounding' = sounding
      BY <2>2, <2>4, <2>5 DEF Load, Wanted
    <3>2. sounding => playback'.playing
      BY <1>1, <2>4, <2>5, ObeyEffect DEF Steady
    <3> QED
      BY <3>1, <3>2 DEF Loading
  <2>6. ASSUME ~disturbed', ~asks PROVE loads' = <<>> /\ Steady'
    BY <2>1, <2>2, <2>4, <2>6 DEF Steady
  <2> QED
    BY <1>1, <1>4, <2>3, <2>5, <2>6 DEF PlayerInv
<1> QED
  BY <1>1, <1>3, <1>4 DEF Reconcile

\* Another playlist: the player has nothing, and is not playing.
LEMMA CastPlays == ASSUME DevTypes, PInv, Cast PROVE PInv'
<1> USE DEF PInv
<1>1. /\ cast' \in BOOLEAN /\ loadedPosition' = 0
      /\ loads' = [i \in DOMAIN loads |-> [loads[i] EXCEPT !.track = Nil]]
      /\ disturbed' = (disturbed \/ playback.playing \/ loads # <<>>)
      /\ UNCHANGED <<playback, sounding>>
  BY DEF Cast
<1>2. playback.playing \in BOOLEAN /\ playback.position # 0
  BY DEF DevTypes, Playbacks, Positions
<1>3. PlayerTypes'
  BY <1>1, <1>2 DEF PlayerTypes
<1>4. ASSUME ~disturbed'
      PROVE  loads' = <<>> /\ sounding' = FALSE /\ playback'.playing = FALSE
  <2>1. ~disturbed /\ ~playback.playing /\ loads = <<>>
    BY <1>1, <1>4
  <2>2. sounding = FALSE
    BY <2>1 DEF PlayerInv, PlayerTypes, Steady, Loading
  <2>3. loads' = <<>>
    <3>1. loads' = [i \in {} |-> [loads[i] EXCEPT !.track = Nil]]
      BY <1>1, <2>1
    <3> QED
      BY <3>1
  <2> QED
    BY <1>1, <1>2, <2>1, <2>2, <2>3
<1>5. ASSUME ~disturbed' PROVE Steady'
  BY <1>1, <1>2, <1>4, <1>5 DEF Steady
<1> QED
  BY <1>3, <1>4, <1>5 DEF PlayerInv

\* The only load is taken out.
LEMMA RemoveOnly == ASSUME NEW l PROVE RemoveAt(<<l>>, 1) = <<>>
  BY DEF RemoveAt

\* A load goes on, ends or fails.
LEMMA LoadPlays == ASSUME DevTypes, PInv, NEW i \in DOMAIN loads, Play(i) PROVE PInv'
<1> USE DEF PInv
<1>1. UNCHANGED <<playback, cast>> /\ (Resolve(i) \/ EndLoad(i) \/ FailLoad(i))
  BY DEF Play
<1>2. CASE disturbed
  <2>1. disturbed' = TRUE /\ sounding' \in {sounding, sounding \/ loads[i].play}
    BY <1>1, <1>2 DEF Resolve, EndLoad, FailLoad, PlayerTypes
  <2> QED
    BY <1>1, <2>1 DEF PlayerTypes, PlayerInv
<1>3. CASE ~disturbed
  <2>1. cast /\ Loading
    BY <1>3 DEF PlayerInv, PlayerTypes
  <2>2. i = 1 /\ loads = <<loads[1]>> /\ \E s \in {"resolve", "set"} : loads[1] = Wanted(s)
    BY <2>1 DEF Loading
  <2>3. RemoveAt(loads, i) = <<>>
    BY <2>2, RemoveOnly
  <2>4. CASE Resolve(i)
    <3>1. loads[1] = Wanted("resolve")
      BY <2>2, <2>4 DEF Resolve, Wanted
    <3>2. loads' = <<Wanted("set")>> /\ source' = playback.position
      BY <2>2, <2>3, <2>4, <3>1 DEF Resolve, Wanted
    <3> QED
      BY <1>1, <2>1, <2>4, <3>2 DEF Resolve, PlayerTypes, PlayerInv, Loading, Wanted
  <2>5. CASE EndLoad(i)
    <3>1. loads[1] = Wanted("set") /\ source = playback.position
      <4>1. loads[1].stage = "set"
        BY <2>2, <2>5 DEF EndLoad
      <4> QED
        BY <2>1, <4>1 DEF Loading, Wanted
    <3>2. /\ loads' = <<>> /\ sounding' = (sounding \/ playback.playing)
          /\ UNCHANGED <<source, disturbed>>
      BY <2>2, <2>3, <2>5, <3>1 DEF EndLoad, Wanted
    <3>3. sounding' = playback.playing /\ sounding' \in BOOLEAN
      BY <2>1, <3>2 DEF DevTypes, Playbacks, PlayerTypes, Loading
    <3>4. Steady'
      BY <1>1, <3>1, <3>2, <3>3 DEF Steady
    <3> QED
      BY <1>1, <2>1, <3>2, <3>3, <3>4 DEF PlayerTypes, PlayerInv
  <2>6. CASE FailLoad(i)
    BY <1>1, <2>6 DEF FailLoad, PlayerTypes, PlayerInv
  <2> QED
    BY <1>1, <2>4, <2>5, <2>6
<1> QED
  BY <1>2, <1>3 DEF PlayerTypes

-----------------------------------------------------------------------------
(* The theorems                                                            *)

DevInv == DevTypes /\ InStep /\ PInv

LEMMA DeviceBegins == DeviceInit => DevInv
  BY BeginsInStep, PlayerFresh DEF DeviceInit, DevInv

LEMMA DeviceInductive == DevInv /\ [DeviceNext]_vars => DevInv'
<1> SUFFICES ASSUME DevInv, [DeviceNext]_vars PROVE DevInv'
  OBVIOUS
<1> USE DEF DevInv
<1>1. CASE WsNext /\ Linked
  <2>1. DevTypes' /\ InStep'
    BY <1>1, LinkedInStep
  <2>2. CASE intentionalClose'
    <3>1. cast' = FALSE /\ loads' = <<>> /\ sounding' = FALSE /\ disturbed' = FALSE
      BY <1>1, <2>2 DEF Linked, Dispose
    <3> QED
      BY <2>1, <3>1 DEF PInv, PlayerTypes, PlayerInv
  <2>3. CASE ~intentionalClose'
    BY <1>1, <2>1, <2>3, PlayerFrame DEF Linked
  <2> QED
    BY <2>2, <2>3
<1>2. ASSUME ~slipped, NEW c \in Commands,
             Send(c) \/ \E a \in Actions : Tap(c, a) \/ OtherTaps(c, a)
      PROVE  DevInv'
  <2>1. DevTypes' /\ InStep'
    BY <1>2, SendInStep, TapInStep
  <2>2. UNCHANGED <<playback, playerVars>>
    BY <1>2 DEF Send, Tap, OtherTaps, Request
  <2> QED
    BY <2>1, <2>2, PlayerFrame
<1>3. CASE ~slipped /\ Finish
  <2>1. DevTypes' /\ InStep'
    BY <1>3, FinishInStep
  <2>2. waiting \in Commands /\ action[waiting] \in Actions
    BY <1>3 DEF Finish, DevTypes
  <2>3. CASE local
    BY <1>3, <2>1, <2>2, <2>3, ApplyPlays DEF Finish
  <2>4. CASE ~local
    BY <1>3, <2>1, <2>4, PlayerFrame DEF Finish
  <2> QED
    BY <2>3, <2>4
<1>4. CASE GiveUp
  BY <1>4, GiveUpInStep, PlayerFrame DEF GiveUp
<1>5. CASE Join
  BY <1>5, JoinInStep, PlayerFrame DEF Join
<1>6. CASE Deliver
  BY <1>6, DeliverInStep, PlayerFrame DEF Deliver
<1>7. CASE Receive
  <2>1. Head(inbox) \in Actions /\ Apply(Head(inbox))
    BY <1>7 DEF Receive, DevTypes
  <2> QED
    BY <1>7, <2>1, ReceiveInStep, ApplyPlays
<1>8. CASE Cast
  BY <1>8, PlayerInStep, CastPlays DEF Cast
<1>9. ASSUME NEW i \in DOMAIN loads, Play(i) PROVE DevInv'
  BY <1>9, PlayerInStep, LoadPlays DEF Play
<1>10. CASE UNCHANGED vars
  BY <1>10, PlayerInStep, PlayerFrame DEF vars
<1> QED
  BY <1>1, <1>2, <1>3, <1>4, <1>5, <1>6, <1>7, <1>8, <1>9, <1>10 DEF DeviceNext, OnScreen

LEMMA DeviceInvariance == DeviceSpec => []DevInv
  BY DeviceBegins, DeviceInductive, PTL DEF DeviceSpec

\* The echo is the single source of truth (device_control_provider.dart): when nothing
\* is on its way, a screen that has not slipped shows what the server has accepted,
\* for any number of commands and of connections.
THEOREM ScreenFollowsServer == DeviceSpec => []FollowsInStep
<1>1. DevInv => FollowsInStep
  <2> SUFFICES ASSUME DevInv, OnScreen, ~Owed, messages = <<>>, inbox = <<>>
               PROVE  playback = truth
    BY DEF FollowsInStep
  <2>1. Coming = <<>>
    BY Concatenation DEF Coming, DevInv, DevTypes
  <2> QED
    BY <2>1, LeadsNowhere DEF DevInv, InStep, DevTypes, OnScreen
<1> QED
  BY <1>1, DeviceInvariance, PTL

\* The player does what the screen says (_reconcile, _loadAndPlay), for any number of
\* commands, tracks and loads.
THEOREM PlayerFollowsScreen == DeviceSpec => []PlayerFollows
<1>1. DevInv => PlayerFollows
  BY DEF DevInv, PInv, PlayerInv, PlayerFollows, Loading, Steady
<1> QED
  BY <1>1, DeviceInvariance, PTL

\* The commands, the room and the player do not touch the socket: a device screen has
\* one connection at most and leaves none, as the service of WsClient does.
THEOREM DeviceKeepsOneConnection == ~Impatient /\ DeviceSpec => []OneConnection
<1>1. DeviceInit => SInv
  BY SocketBegins DEF DeviceInit
<1>2. [DeviceNext]_vars => [WsNext]_wsVars
  BY DEF DeviceNext, Send, Tap, OtherTaps, Request, Finish, GiveUp, Join, Deliver, Receive,
         Cast, Play, vars
<1>3. ~Impatient => (DeviceSpec => []SInv)
  <2> SUFFICES ASSUME ~Impatient PROVE DeviceSpec => []SInv
    OBVIOUS
  <2>1. SInv /\ [DeviceNext]_vars => SInv'
    BY <1>2, SocketInductive
  <2> QED
    BY <1>1, <2>1, PTL DEF DeviceSpec
<1>4. SInv => OneConnection
  BY WsClientAssumption DEF SInv, OneConnection, Chain, Calling
<1> QED
  BY <1>3, <1>4, PTL
=============================================================================
