------------------------------ MODULE Sessions ------------------------------
(***************************************************************************)
(* Token pairs: Login's last step, Refresh, Logout and the middleware of   *)
(* server/internal/auth, each database call a step of its own, by requests *)
(* that run concurrently.                                                  *)
(*                                                                         *)
(* A pair is a row of refresh_tokens and the access token issued with it.  *)
(* The pair a request creates is named after the request.  Access tokens   *)
(* are not stored: they are good until they expire, whatever becomes of    *)
(* the row.  Any client may present any refresh token, several at once.    *)
(***************************************************************************)
EXTENDS Naturals, FiniteSets

CONSTANTS
  Requests,   \* HTTP requests
  OldPairs,   \* pairs issued before
  OldUsers,   \* users who exist from the start
  Nil

Pairs == OldPairs \cup Requests
Users == OldUsers \cup Requests   \* a user too is named after what created it

ASSUME SessionsAssumption ==
  OldPairs \cap Requests = {} /\ OldUsers \cap Requests = {} /\ Nil \notin Pairs \cup Users

VARIABLES
  owner,    \* refresh_tokens.user_id; Nil: no such row
  revoked,  \* the rows with revoked_at
  expired,  \* the rows past expires_at
  stale,    \* the pairs whose access token is past exp
  parent,   \* history: the token that was exchanged for a pair, Nil after a login
  origin,   \* history: the pair of the login that a pair descends from
  pc,       \* the next database call of a request
  token,    \* the row a request has looked up
  user,     \* the user a request acts for
  answer    \* the response

pairVars == <<owner, revoked, expired, stale, parent, origin>>
requestVars == <<pc, token, user, answer>>
sessionVars == <<pairVars, requestVars>>

Issued == {t \in Pairs : owner[t] # Nil}
Usable(t) == t \in Issued /\ t \notin revoked \cup expired

Answers == {"none", "ok", "unauthorized", "reused", "forbidden", "invalid",
            "used", "conflict", "error"}

\* Steps of a request, those of Accounts included.
Labels == {"idle", "rotate", "reuse", "issue", "logout", "send", "verify", "clear",
           "renew", "reset", "match", "create", "connect", "link", "done"}

SessionsTypeOK ==
  /\ owner \in [Pairs -> Users \cup {Nil}]
  /\ revoked \subseteq Issued /\ expired \subseteq stale /\ stale \subseteq Issued
  /\ parent \in [Pairs -> Pairs \cup {Nil}]
  /\ origin \in [Pairs -> Pairs \cup {Nil}]
  /\ pc \in [Requests -> Labels]
  /\ token \in [Requests -> Pairs \cup {Nil}]
  /\ user \in [Requests -> Users \cup {Nil}]
  /\ answer \in [Requests -> Answers]

SessionsInit ==
  /\ owner \in [Pairs -> OldUsers \cup {Nil}]
  /\ \A t \in Pairs : owner[t] # Nil <=> t \in OldPairs
  /\ revoked = {} /\ expired = {} /\ stale = {}
  /\ parent = [t \in Pairs |-> Nil]
  /\ origin = [t \in Pairs |-> IF t \in OldPairs THEN t ELSE Nil]
  /\ pc = [q \in Requests |-> "idle"]
  /\ token = [q \in Requests |-> Nil]
  /\ user = [q \in Requests |-> Nil]
  /\ answer = [q \in Requests |-> "none"]

-----------------------------------------------------------------------------
Goto(q, label) == pc' = [pc EXCEPT ![q] = label]

\* The response is written.
Answer(q, a) ==
  /\ Goto(q, "done")
  /\ answer' = [answer EXCEPT ![q] = a]

\* ... and nothing else changes.
Reply(q, a) == Answer(q, a) /\ UNCHANGED <<pairVars, token, user>>

\* The request acts for u from now on and continues with label.
ActFor(q, u, label) ==
  /\ user' = [user EXCEPT ![q] = u]
  /\ Goto(q, label)
  /\ UNCHANGED <<pairVars, token, answer>>

\* A database call or the mail server fails: 500, and what has been written
\* stays.  The errors of "reuse" and "logout" are ignored.
MidWay(q) == pc[q] \notin {"idle", "reuse", "logout", "done"}
Fail(q) == MidWay(q) /\ Reply(q, "error")

-----------------------------------------------------------------------------
(* Refresh                                                                 *)

\* Mutant: the check of RevokedAt is missing.
RefreshLookupAnyToken(q, t) ==
  /\ pc[q] = "idle"
  /\ \/ ~(t \in Issued /\ t \notin expired) /\ Reply(q, "unauthorized")
     \/ /\ t \in Issued /\ t \notin expired
        /\ token' = [token EXCEPT ![q] = t]
        /\ user' = [user EXCEPT ![q] = owner[t]]
        /\ Goto(q, "rotate")
        /\ UNCHANGED <<pairVars, answer>>

\* GetByHash and the checks of the row it returns.
RefreshLookup(q, t) ==
  /\ pc[q] = "idle"
  /\ \/ /\ t \notin Issued \/ (t \in expired /\ t \notin revoked)
        /\ Reply(q, "unauthorized")
     \/ t \in revoked /\ ActFor(q, owner[t], "reuse")
     \/ /\ Usable(t)
        /\ token' = [token EXCEPT ![q] = t]
        /\ user' = [user EXCEPT ![q] = owner[t]]
        /\ Goto(q, "rotate")
        /\ UNCHANGED <<pairVars, answer>>

OwnedBy(u) == {t \in Issued : owner[t] = u}

\* RevokeAllForUser, whose error is ignored.
RefreshReuse(q) ==
  /\ pc[q] = "reuse"
  /\ revoked' \in {revoked, revoked \cup OwnedBy(user[q])}
  /\ Answer(q, "reused")
  /\ UNCHANGED <<owner, expired, stale, parent, origin, token, user>>

\* Mutant: the token stays valid.
RefreshKeep(q) ==
  /\ pc[q] = "rotate"
  /\ Goto(q, "issue")
  /\ UNCHANGED <<pairVars, token, user, answer>>

\* Revoke: UPDATE ... WHERE id, whether or not it is revoked by now.
RefreshRevoke(q) ==
  /\ pc[q] = "rotate"
  /\ revoked' = revoked \cup {token[q]}
  /\ Goto(q, "issue")
  /\ UNCHANGED <<owner, expired, stale, parent, origin, token, user, answer>>

\* generateTokenPair for the user, after a login or in exchange for token[q].
Issue(q) ==
  /\ pc[q] = "issue"
  /\ owner' = [owner EXCEPT ![q] = user[q]]
  /\ parent' = [parent EXCEPT ![q] = token[q]]
  /\ origin' = [origin EXCEPT ![q] = IF token[q] = Nil THEN q ELSE origin[token[q]]]
  /\ Answer(q, "ok")
  /\ UNCHANGED <<revoked, expired, stale, token, user>>

-----------------------------------------------------------------------------
(* Logout                                                                  *)

LogoutLookup(q, t) ==
  /\ pc[q] = "idle"
  /\ \/ t \notin Issued /\ Reply(q, "ok")
     \/ /\ t \in Issued
        /\ token' = [token EXCEPT ![q] = t]
        /\ Goto(q, "logout")
        /\ UNCHANGED <<pairVars, user, answer>>

\* Revoke, whose error is ignored.
LogoutRevoke(q) ==
  /\ pc[q] = "logout"
  /\ revoked' \in {revoked, revoked \cup {token[q]}}
  /\ Answer(q, "ok")
  /\ UNCHANGED <<owner, expired, stale, parent, origin, token, user>>

-----------------------------------------------------------------------------
(* Expiry and the middleware                                               *)

\* The access token goes first (15 minutes), the refresh token later (7 days).
Expire(t) ==
  /\ \/ /\ t \in Issued \ stale
        /\ stale' = stale \cup {t}
        /\ UNCHANGED expired
     \/ /\ t \in stale \ expired
        /\ expired' = expired \cup {t}
        /\ UNCHANGED stale
  /\ UNCHANGED <<owner, revoked, parent, origin, requestVars>>

\* The access token of pair t passes Authenticate or AuthenticateWS as u's.
Authentic(t, u) == t \in Issued \ stale /\ owner[t] = u


-----------------------------------------------------------------------------
(* Properties                                                              *)

Exchanging(q, t) == token[q] = t /\ pc[q] \in {"rotate", "issue"}
Children(t) == {n \in Issued : parent[n] = t}

\* Each rotation revokes the token that was exchanged (SECURITY.md).
ParentRevoked == \A t \in Pairs : Children(t) # {} => t \in revoked

\* A revoked token that no Refresh has already accepted yields no pair, now or
\* later: neither a second exchange nor one after a logout.
RevokedIsUseless ==
  [][\A t \in revoked : (\A q \in Requests : ~Exchanging(q, t))
       => Children(t)' = Children(t) /\ \A q \in Requests : ~Exchanging(q, t)']_sessionVars

\* Unless two Refreshes of one token overlapped and both succeeded, a login has
\* at most one refresh token that can still be used.
Forked(s) == \E n, m \in Issued : /\ n # m /\ origin[n] = s
                                  /\ parent[n] = parent[m] /\ parent[n] # Nil
OneLivePerLogin ==
  \A t, u \in Pairs : Usable(t) /\ Usable(u) /\ origin[t] = origin[u]
                        => t = u \/ Forked(origin[t])
=============================================================================
