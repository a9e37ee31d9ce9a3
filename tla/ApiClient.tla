----------------------------- MODULE ApiClient -----------------------------
(***************************************************************************)
(* The interceptor of the client (core/api/api_client.dart), the token     *)
(* storage and AuthNotifier, against a server that rotates refresh tokens. *)
(*                                                                         *)
(* A call whose access token is refused leads a refresh or, while another  *)
(* one leads, waits for its completer.  Every await is a step.  Pairs are  *)
(* numbered in the order the server issues them (Sessions models it in     *)
(* full).  The app may be killed at any time; the storage survives.        *)
(***************************************************************************)
EXTENDS Naturals

CONSTANTS
  Calls,     \* requests of the app
  MaxPairs,  \* bound: the token pairs issued after the first
  MaxKills,  \* bound: the times the app is killed
  Nil

Pairs == 0..MaxPairs

ASSUME ApiClientAssumption == MaxPairs \in Nat /\ MaxKills \in Nat /\ Nil \notin Pairs \cup Calls

VARIABLES
  issued,   \* the server: the last pair issued
  revoked,  \* the refresh tokens that are revoked
  stale,    \* the access tokens that are past exp
  access, refresh,  \* TokenStorage
  pc,       \* the next step of a call
  header,   \* its Authorization header
  fresh,    \* the refresh token it presents, then the pair it was given
  leader,   \* the call whose completer it waits for
  settled,  \* the calls whose completer has been completed
  outcome,  \* with what: a pair, or Nil for null
  pending,  \* _pendingRefresh, by the call that created it
  me,       \* the next step of the login or logout under way
  mine,     \* the token or pair it holds
  kills,
  reused,   \* history: the server was shown a revoked refresh token
  excused   \* history: a refresh met a logout, or a kill left a revoked token

server == <<issued, revoked, stale>>
storage == <<access, refresh>>
calls == <<pc, header, fresh, leader, settled, outcome, pending>>
person == <<me, mine>>
history == <<kills, reused, excused>>
vars == <<server, storage, calls, person, history>>

Init ==
  /\ issued = 0 /\ revoked = {} /\ stale = {}
  /\ access = 0 /\ refresh = 0
  /\ pc = [c \in Calls |-> "idle"]
  /\ header = [c \in Calls |-> Nil] /\ fresh = [c \in Calls |-> Nil]
  /\ leader = [c \in Calls |-> Nil] /\ settled = {} /\ outcome = [c \in Calls |-> Nil]
  /\ pending = Nil /\ me = "in" /\ mine = Nil
  /\ kills = 0 /\ reused = FALSE /\ excused = FALSE

Goto(c, label) == pc' = [pc EXCEPT ![c] = label]

\* The caller of the request has its response or exception.
Answered(c) ==
  /\ Goto(c, "answered")
  /\ header' = [header EXCEPT ![c] = Nil]
  /\ fresh' = [fresh EXCEPT ![c] = Nil]
  /\ leader' = [leader EXCEPT ![c] = Nil]
  /\ UNCHANGED <<settled, outcome>>

Refreshing(c) == pc[c] \in {"read", "post", "save access", "save refresh"}
LoggingOut == me \in {"log out", "revoke", "drop access", "drop refresh"}

\* From now on a token may be presented that the server has revoked.
NoteExcuse ==
  excused' = (excused \/ (LoggingOut /\ \E c \in Calls : Refreshing(c))')

-----------------------------------------------------------------------------
(* A call                                                                  *)

\* onRequest
Send(c) ==
  /\ pc[c] = "idle"
  /\ header' = [header EXCEPT ![c] = access]
  /\ Goto(c, "sent")
  /\ UNCHANGED <<server, storage, fresh, leader, settled, outcome, pending, person, history>>

\* The server's answer, whatever it is but 401, or a network error.
Answer(c) ==
  /\ pc[c] = "sent"
  /\ Answered(c)
  /\ UNCHANGED <<server, storage, pending, person, history>>

\* Mutant: every refused call leads a refresh of its own.
RefusedLeading(c) ==
  /\ pc[c] = "sent" /\ header[c] \in stale \cup {Nil}
  /\ Goto(c, "read")
  /\ pending' = c
  /\ settled' = settled \ {c}
  /\ UNCHANGED <<server, storage, header, fresh, leader, outcome, person, kills, reused>>
  /\ NoteExcuse

\* 401, and onError up to its first await.
Refused(c) ==
  /\ pc[c] = "sent" /\ header[c] \in stale \cup {Nil}
  /\ IF pending # Nil
     THEN /\ Goto(c, "waiting")
          /\ leader' = [leader EXCEPT ![c] = pending]
          /\ UNCHANGED <<settled, pending>>
     ELSE /\ Goto(c, "read")
          /\ pending' = c
          /\ settled' = settled \ {c}
          /\ UNCHANGED leader
  /\ UNCHANGED <<server, storage, header, fresh, outcome, person, kills, reused>>
  /\ NoteExcuse

\* The completer of the leader has a value.
Resume(c) ==
  /\ pc[c] = "waiting" /\ leader[c] \in settled
  /\ LET token == outcome[leader[c]] IN
       IF token = Nil
       THEN Answered(c)
       ELSE /\ Goto(c, "retry")
            /\ header' = [header EXCEPT ![c] = token]
            /\ UNCHANGED <<fresh, leader, settled, outcome>>
  /\ UNCHANGED <<server, storage, pending, person, history>>

\* The answer of a waiter's second attempt, good or bad.
RetryWaiter(c) ==
  /\ pc[c] = "retry"
  /\ Answered(c)
  /\ UNCHANGED <<server, storage, pending, person, history>>

-----------------------------------------------------------------------------
(* The refresh                                                             *)

\* Mutant: the waiters are not told.
FailQuietly(c) ==
  /\ Goto(c, "clear access")
  /\ UNCHANGED <<settled, outcome>>

\* catch: completer.complete(null), then await clearTokens().
FailRefresh(c) ==
  /\ Goto(c, "clear access")
  /\ settled' = settled \cup {c}
  /\ outcome' = [outcome EXCEPT ![c] = Nil]

ReadRefresh(c) ==
  /\ pc[c] = "read"
  /\ \/ /\ refresh = Nil
        /\ FailRefresh(c)
        /\ UNCHANGED <<header, fresh, leader, pending>>
     \/ /\ refresh # Nil
        /\ fresh' = [fresh EXCEPT ![c] = refresh]
        /\ Goto(c, "post")
        /\ UNCHANGED <<header, leader, settled, outcome, pending>>
  /\ UNCHANGED <<server, storage, person, history>>

\* POST /auth/refresh: the token is exchanged and the answer arrives or not;
\* or it is revoked and all of them are; or the request never gets there.
PostRefresh(c) ==
  /\ pc[c] = "post"
  /\ \/ /\ fresh[c] \notin revoked /\ issued < MaxPairs
        /\ issued' = issued + 1
        /\ revoked' = revoked \cup {fresh[c]}
        /\ \/ /\ fresh' = [fresh EXCEPT ![c] = issued']
              /\ Goto(c, "save access")
              /\ UNCHANGED <<settled, outcome>>
           \/ FailRefresh(c) /\ UNCHANGED fresh
        /\ UNCHANGED reused
     \/ /\ fresh[c] \in revoked
        /\ revoked' = 0..issued /\ reused' = TRUE
        /\ FailRefresh(c)
        /\ UNCHANGED <<issued, fresh>>
     \/ FailRefresh(c) /\ UNCHANGED <<issued, revoked, fresh, reused>>
  /\ UNCHANGED <<stale, storage, header, leader, pending, person, kills, excused>>

SaveAccess(c) ==
  /\ pc[c] = "save access"
  /\ access' = fresh[c]
  /\ Goto(c, "save refresh")
  /\ UNCHANGED <<server, refresh, header, fresh, leader, settled, outcome, pending, person, history>>

\* ... then completer.complete(newAccess) and the leader's own second attempt.
SaveRefresh(c) ==
  /\ pc[c] = "save refresh"
  /\ refresh' = fresh[c]
  /\ settled' = settled \cup {c}
  /\ outcome' = [outcome EXCEPT ![c] = fresh[c]]
  /\ header' = [header EXCEPT ![c] = fresh[c]]
  /\ fresh' = [fresh EXCEPT ![c] = Nil]
  /\ Goto(c, "retry leading")
  /\ UNCHANGED <<server, access, leader, pending, person, history>>

\* Its answer; an error of any kind completes the completer a second time, which
\* throws, and the caller of the request is never answered.
RetryLeader(c) ==
  /\ pc[c] = "retry leading"
  /\ \/ Answered(c)
     \/ Goto(c, "hung") /\ UNCHANGED <<header, fresh, leader, settled, outcome>>
  /\ pending' = Nil
  /\ UNCHANGED <<server, storage, person, history>>

\* clearTokens by the interceptor and, once more, by forceUnauthenticated.
Clear(c) ==
  /\ \/ /\ pc[c] \in {"clear access", "clear access again"}
        /\ access' = Nil
        /\ Goto(c, IF pc[c] = "clear access" THEN "clear refresh" ELSE "clear refresh again")
        /\ UNCHANGED <<refresh, header, fresh, leader, settled, outcome, pending, me>>
     \/ /\ pc[c] = "clear refresh"
        /\ refresh' = Nil
        /\ Goto(c, "clear access again")
        /\ UNCHANGED <<access, header, fresh, leader, settled, outcome, pending, me>>
     \/ /\ pc[c] = "clear refresh again"
        /\ refresh' = Nil
        /\ Answered(c)
        /\ pending' = Nil
        /\ me' = IF me = "in" THEN "out" ELSE me
        /\ UNCHANGED access
  /\ UNCHANGED <<server, mine, history>>

-----------------------------------------------------------------------------
(* AuthNotifier                                                            *)

Person == UNCHANGED <<stale, calls, kills, reused>> /\ NoteExcuse

\* logout reads the refresh token ...
LogOut ==
  /\ me = "in"
  /\ mine' = refresh
  /\ me' = IF refresh = Nil THEN "drop access" ELSE "revoke"
  /\ UNCHANGED <<issued, revoked, storage>> /\ Person

\* ... has it revoked, if the server can be reached ...
Revoke ==
  /\ me = "revoke"
  /\ me' = "drop access"
  /\ revoked' \in {revoked, revoked \cup {mine}}
  /\ UNCHANGED <<issued, storage, mine>> /\ Person

\* ... and clears the storage.
Drop ==
  /\ \/ me = "drop access" /\ me' = "drop refresh" /\ access' = Nil /\ UNCHANGED refresh
     \/ me = "drop refresh" /\ me' = "out" /\ refresh' = Nil /\ UNCHANGED access
  /\ mine' = Nil
  /\ UNCHANGED <<issued, revoked>> /\ Person

\* login: the server's answer, and the two writes.
LogIn ==
  /\ me = "out" /\ issued < MaxPairs
  /\ issued' = issued + 1
  /\ mine' = issued' /\ me' = "keep access"
  /\ UNCHANGED <<revoked, storage>> /\ Person

Keep ==
  /\ \/ me = "keep access" /\ me' = "keep refresh" /\ access' = mine /\ UNCHANGED <<refresh, mine>>
     \/ me = "keep refresh" /\ me' = "in" /\ refresh' = mine /\ mine' = Nil /\ UNCHANGED access
  /\ UNCHANGED <<issued, revoked>> /\ Person

-----------------------------------------------------------------------------
\* The app dies and is started again: AuthNotifier.build asks hasTokens.
Kill ==
  /\ kills < MaxKills
  /\ kills' = kills + 1
  /\ pc' = [c \in Calls |-> IF pc[c] = "idle" THEN "idle" ELSE "answered"]
  /\ header' = [c \in Calls |-> Nil] /\ fresh' = [c \in Calls |-> Nil]
  /\ leader' = [c \in Calls |-> Nil] /\ settled' = {} /\ outcome' = [c \in Calls |-> Nil]
  /\ pending' = Nil
  /\ me' = IF access = Nil THEN "out" ELSE "in"
  /\ mine' = Nil
  /\ excused' = (excused \/ refresh \in revoked)
  /\ UNCHANGED <<server, storage, reused>>

\* Access tokens live equally long.
Expire ==
  /\ \E p \in 0..issued : p \notin stale /\ stale' = stale \cup 0..p
  /\ UNCHANGED <<issued, revoked, storage, calls, person, history>>

\* Awaits of a call that come to an end by themselves: of the storage, of answers
\* (dio gives up after ten seconds) and of a completer that has a value.
Continue(c) ==
  \/ Answer(c) \/ Refused(c) \/ Resume(c) \/ RetryWaiter(c) \/ ReadRefresh(c)
  \/ PostRefresh(c) \/ SaveAccess(c) \/ SaveRefresh(c) \/ RetryLeader(c) \/ Clear(c)

Next ==
  \/ \E c \in Calls : Send(c) \/ Continue(c)
  \/ LogOut \/ Revoke \/ Drop \/ LogIn \/ Keep \/ Kill \/ Expire

Spec == Init /\ [][Next]_vars
FairSpec == Spec /\ \A c \in Calls : WF_vars(Continue(c))

-----------------------------------------------------------------------------
(* Properties                                                              *)

\* The app never shows the server a refresh token it has already exchanged, so
\* it never trips the reuse detection itself: refreshes are serialised and the
\* new token is stored before the next one may begin.  The exceptions: a logout
\* under way during a refresh, and a kill between the rotation and the storage.
ReuseIsExcused == reused => excused

\* A call that waits for another call's refresh is answered in the end, whatever
\* becomes of that refresh.
WaitersReleased == \A c \in Calls : pc[c] = "waiting" ~> pc[c] = "answered"
=============================================================================
