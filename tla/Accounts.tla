------------------------------ MODULE Accounts ------------------------------
(***************************************************************************)
(* Who gets a token pair: registration, email verification, password reset *)
(* and login (service/auth_service.go, auth/handler.go) and Google sign-in *)
(* (auth/google.go), on top of Sessions.                                   *)
(*                                                                         *)
(* A row is named after the request that inserts it: user q, password q,   *)
(* link q.  One mail carries one link.  Rows of users are never deleted.   *)
(***************************************************************************)
EXTENDS Sessions

CONSTANTS
  Addresses,  \* email addresses as clients spell them
  Lower,      \* Lower[a]: the spelling normalizeEmail makes of a
  OldAddress, \* OldAddress[u]: the stored address of an old user
  Googles,    \* Google accounts (the sub of an ID token)
  Mail        \* Mail[g]: the verified address in the ID tokens of g

Links == Users   \* rows of email_verifications and password_reset_tokens

ASSUME AccountsAssumption ==
  /\ Lower \in [Addresses -> Addresses]
  /\ \A a \in Addresses : Lower[Lower[a]] = Lower[a]
  /\ OldAddress \in [OldUsers -> Addresses]
  /\ \A u, v \in OldUsers : OldAddress[u] = OldAddress[v] => u = v
  /\ Mail \in [Googles -> Addresses]
  /\ Nil \notin Addresses \cup Googles
  /\ Googles \cap Users = {}

VARIABLES
  email,      \* users.email; Nil: no such user
  password,   \* who chose users.password_hash; Nil: '' (no password)
  verified,   \* the users with is_verified
  provider,   \* user_providers: the user a Google account is linked to
  verifyLink, \* email_verifications: the user a link verifies; Nil: no row
  resetLink,  \* password_reset_tokens: the user a link is for; Nil: no row
  used,       \* the reset links with used_at
  lapsed,     \* the reset links past expires_at
  mailed,     \* the links that have reached a mailbox
  subject     \* the link or Google account a request presented

userVars == <<email, password, verified, provider>>
linkVars == <<verifyLink, resetLink, used, lapsed, mailed>>
vars == <<sessionVars, userVars, linkVars, subject>>

Exists(u) == email[u] # Nil
UserWith(a) == {u \in Users : email[u] = a}   \* GetByEmail, GetUserByEmail

AccountsTypeOK ==
  /\ SessionsTypeOK
  /\ email \in [Users -> Addresses \cup {Nil}]
  /\ password \in [Users -> Users \cup {Nil}]
  /\ verified \subseteq {u \in Users : Exists(u)}
  /\ provider \in [Googles -> Users \cup {Nil}]
  /\ verifyLink \in [Links -> Users \cup {Nil}]
  /\ resetLink \in [Links -> Users \cup {Nil}]
  /\ used \subseteq Links /\ lapsed \subseteq Links /\ mailed \subseteq Links
  /\ subject \in [Requests -> Links \cup Googles \cup {Nil}]

\* Old users have registered; some have followed their verification link.
Init ==
  /\ SessionsInit
  /\ email = [u \in Users |-> IF u \in OldUsers THEN OldAddress[u] ELSE Nil]
  /\ password = [u \in Users |-> IF u \in OldUsers THEN u ELSE Nil]
  /\ verified \in SUBSET OldUsers
  /\ \A t \in OldPairs : owner[t] \in verified
  /\ provider = [g \in Googles |-> Nil]
  /\ verifyLink = [l \in Links |-> IF l \in OldUsers \ verified THEN l ELSE Nil]
  /\ resetLink = [l \in Links |-> Nil]
  /\ used = {} /\ lapsed = {} /\ mailed = OldUsers
  /\ subject = [q \in Requests |-> Nil]

Idle(q) == pc[q] = "idle"

\* Responses and steps that leave the tables of users and links alone.
Respond(q, a) == Reply(q, a) /\ UNCHANGED <<userVars, linkVars, subject>>
Proceed(q, u, label) == ActFor(q, u, label) /\ UNCHANGED <<userVars, linkVars, subject>>
Done(q, a) == Answer(q, a) /\ UNCHANGED <<pairVars, token, user, subject>>

-----------------------------------------------------------------------------
(* Registration and verification                                           *)

\* POST /auth/register: user and link in one transaction (email is UNIQUE).
Register(q, a) ==
  /\ Idle(q)
  /\ \/ UserWith(Lower[a]) # {} /\ Respond(q, "conflict")
     \/ /\ UserWith(Lower[a]) = {}
        /\ email' = [email EXCEPT ![q] = Lower[a]]
        /\ password' = [password EXCEPT ![q] = q]
        /\ verifyLink' = [verifyLink EXCEPT ![q] = q]
        /\ ActFor(q, q, "send")
        /\ UNCHANGED <<verified, provider, resetLink, used, lapsed, mailed, subject>>

\* EmailService.Send, after everything has been committed.
Send(q) ==
  /\ pc[q] = "send"
  /\ mailed' = mailed \cup {q}
  /\ Done(q, "ok")
  /\ UNCHANGED <<userVars, verifyLink, resetLink, used, lapsed>>

\* GET /auth/verify-email: DELETE ... RETURNING user_id, then UPDATE users.
VerifyEmail(q, l) ==
  /\ Idle(q) /\ l \in mailed
  /\ \/ verifyLink[l] = Nil /\ Respond(q, "invalid")
     \/ /\ verifyLink[l] # Nil
        /\ verifyLink' = [verifyLink EXCEPT ![l] = Nil]
        /\ ActFor(q, verifyLink[l], "verify")
        /\ UNCHANGED <<userVars, resetLink, used, lapsed, mailed, subject>>

VerifyUser(q) ==
  /\ pc[q] = "verify"
  /\ verified' = verified \cup {user[q]}
  /\ Done(q, "ok")
  /\ UNCHANGED <<email, password, provider, linkVars>>

\* POST /auth/resend-verification: the answer is the same whether or not there
\* is an unverified user.
ResendVerification(q, a) ==
  /\ Idle(q)
  /\ \/ UserWith(Lower[a]) \subseteq verified /\ Respond(q, "ok")
     \/ \E u \in UserWith(Lower[a]) \ verified : Proceed(q, u, "clear")

\* Mutant: the old link is sent again, which is no longer there.
ClearAndSend(q) ==
  /\ pc[q] = "clear"
  /\ verifyLink' = [l \in Links |-> IF verifyLink[l] = user[q] THEN Nil ELSE verifyLink[l]]
  /\ Goto(q, "send")
  /\ UNCHANGED <<pairVars, token, user, answer, userVars, resetLink, used, lapsed, mailed, subject>>

\* DeleteEmailVerificationsForUser
ClearLinks(q) ==
  /\ pc[q] = "clear"
  /\ verifyLink' = [l \in Links |-> IF verifyLink[l] = user[q] THEN Nil ELSE verifyLink[l]]
  /\ Goto(q, "renew")
  /\ UNCHANGED <<pairVars, token, user, answer, userVars, resetLink, used, lapsed, mailed, subject>>

\* CreateEmailVerification
RenewLink(q) ==
  /\ pc[q] = "renew"
  /\ verifyLink' = [verifyLink EXCEPT ![q] = user[q]]
  /\ Goto(q, "send")
  /\ UNCHANGED <<pairVars, token, user, answer, userVars, resetLink, used, lapsed, mailed, subject>>

-----------------------------------------------------------------------------
(* Passwords                                                               *)

\* Mutant: !user.IsVerified is not checked.
LoginUnverified(q, a, p) ==
  /\ Idle(q)
  /\ \/ (\A u \in UserWith(a) : password[u] # p) /\ Respond(q, "unauthorized")
     \/ \E u \in UserWith(a) : password[u] = p /\ Proceed(q, u, "issue")

\* POST /auth/login, with the password chosen by p; the address as it is spelled.
Login(q, a, p) ==
  /\ Idle(q)
  /\ \/ (\A u \in UserWith(a) : password[u] # p) /\ Respond(q, "unauthorized")
     \/ \E u \in UserWith(a) :
          /\ password[u] = p
          /\ \/ u \notin verified /\ Respond(q, "forbidden")
             \/ u \in verified /\ Proceed(q, u, "issue")

\* POST /auth/forgot-password: links of earlier requests stay valid.
ForgotPassword(q, a) ==
  /\ Idle(q)
  /\ \/ UserWith(Lower[a]) = {} /\ Respond(q, "ok")
     \/ \E u \in UserWith(Lower[a]) :
          /\ resetLink' = [resetLink EXCEPT ![q] = u]
          /\ ActFor(q, u, "send")
          /\ UNCHANGED <<userVars, verifyLink, used, lapsed, mailed, subject>>

\* Mutant: UsedAt is not checked.
ResetLookupAgain(q, l) ==
  /\ Idle(q) /\ l \in mailed
  /\ resetLink[l] # Nil /\ l \notin lapsed
  /\ subject' = [subject EXCEPT ![q] = l]
  /\ ActFor(q, resetLink[l], "reset")
  /\ UNCHANGED <<userVars, linkVars>>

\* POST /auth/reset-password: the row of the link is checked ...
ResetLookup(q, l) ==
  /\ Idle(q) /\ l \in mailed
  /\ \/ (resetLink[l] = Nil \/ l \in lapsed) /\ Respond(q, "invalid")
     \/ resetLink[l] # Nil /\ l \in used \ lapsed /\ Respond(q, "used")
     \/ /\ resetLink[l] # Nil /\ l \notin used \cup lapsed
        /\ subject' = [subject EXCEPT ![q] = l]
        /\ ActFor(q, resetLink[l], "reset")
        /\ UNCHANGED <<userVars, linkVars>>

\* ... and the transaction sets the password and used_at.
ResetPassword(q) ==
  /\ pc[q] = "reset"
  /\ password' = [password EXCEPT ![user[q]] = q]
  /\ used' = used \cup {subject[q]}
  /\ Done(q, "ok")
  /\ UNCHANGED <<email, verified, provider, verifyLink, resetLink, lapsed, mailed>>

Lapse(l) ==
  /\ resetLink[l] # Nil /\ l \notin lapsed
  /\ lapsed' = lapsed \cup {l}
  /\ UNCHANGED <<sessionVars, userVars, verifyLink, resetLink, used, mailed, subject>>

-----------------------------------------------------------------------------
(* Google                                                                  *)

About(q, g) == subject' = [subject EXCEPT ![q] = g]

\* POST /auth/google with an ID token that verifyGoogleIDToken accepts.
GoogleSignIn(q, g) ==
  /\ Idle(q)
  /\ About(q, g)
  /\ IF provider[g] # Nil THEN ActFor(q, provider[g], "issue")
                          ELSE ActFor(q, Nil, "match")
  /\ UNCHANGED <<userVars, linkVars>>

\* The user with this address; else a new one has to be created.
GoogleMatch(q) ==
  /\ pc[q] = "match"
  /\ \/ UserWith(Mail[subject[q]]) = {} /\ Proceed(q, q, "create")
     \/ \E u \in UserWith(Mail[subject[q]]) : Proceed(q, u, "connect")

\* CreateOAuthUser: no password, verified.  An insertion that would violate a
\* UNIQUE constraint can only Fail, here and below.
GoogleCreate(q) ==
  /\ pc[q] = "create"
  /\ UserWith(Mail[subject[q]]) = {}
  /\ email' = [email EXCEPT ![q] = Mail[subject[q]]]
  /\ verified' = verified \cup {q}
  /\ Goto(q, "connect")
  /\ UNCHANGED <<pairVars, token, user, answer, password, provider, linkVars, subject>>

\* Mutant: an insertion that violates UNIQUE is taken for success.
ConnectAnyway(q) ==
  /\ pc[q] = "connect"
  /\ provider' = [provider EXCEPT ![subject[q]] = IF @ = Nil THEN user[q] ELSE @]
  /\ Goto(q, "issue")
  /\ UNCHANGED <<pairVars, token, user, answer, email, password, verified, linkVars, subject>>

\* CreateProvider
GoogleConnect(q) ==
  /\ pc[q] = "connect"
  /\ provider[subject[q]] = Nil
  /\ provider' = [provider EXCEPT ![subject[q]] = user[q]]
  /\ Goto(q, "issue")
  /\ UNCHANGED <<pairVars, token, user, answer, email, password, verified, linkVars, subject>>

\* POST /auth/link/google by the holder of the access token of pair t.
LinkGoogle(q, g, t) ==
  /\ Idle(q)
  /\ \/ t \notin Issued \ stale /\ Respond(q, "unauthorized")
     \/ Authentic(t, owner[t]) /\ provider[g] # Nil /\ Respond(q, "conflict")
     \/ /\ Authentic(t, owner[t]) /\ provider[g] = Nil
        /\ About(q, g)
        /\ ActFor(q, owner[t], "link")
        /\ UNCHANGED <<userVars, linkVars>>

LinkConnect(q) ==
  /\ pc[q] = "link"
  /\ provider[subject[q]] = Nil
  /\ provider' = [provider EXCEPT ![subject[q]] = user[q]]
  /\ Done(q, "ok")
  /\ UNCHANGED <<email, password, verified, linkVars>>

-----------------------------------------------------------------------------
Session(q) ==
  /\ \/ \E t \in Pairs : RefreshLookup(q, t) \/ LogoutLookup(q, t)
     \/ RefreshReuse(q) \/ RefreshRevoke(q) \/ Issue(q) \/ LogoutRevoke(q) \/ Fail(q)
  /\ UNCHANGED <<userVars, linkVars, subject>>

Begin(q) ==
  \/ \E a \in Addresses : Register(q, a) \/ ResendVerification(q, a) \/ ForgotPassword(q, a)
  \/ \E a \in Addresses, p \in Users : Login(q, a, p)
  \/ \E l \in Links : VerifyEmail(q, l) \/ ResetLookup(q, l)
  \/ \E g \in Googles : GoogleSignIn(q, g) \/ \E t \in Pairs : LinkGoogle(q, g, t)

Continue(q) ==
  \/ Send(q) \/ VerifyUser(q) \/ ClearLinks(q) \/ RenewLink(q) \/ ResetPassword(q)
  \/ GoogleMatch(q) \/ GoogleCreate(q) \/ GoogleConnect(q) \/ LinkConnect(q)

Next ==
  \/ \E q \in Requests : Session(q) \/ Begin(q) \/ Continue(q)
  \/ \E t \in Pairs : Expire(t) /\ UNCHANGED <<userVars, linkVars, subject>>
  \/ \E l \in Links : Lapse(l)
  \/ (\A q \in Requests : pc[q] = "done") /\ UNCHANGED vars

Spec == Init /\ [][Next]_vars

-----------------------------------------------------------------------------
(* Properties                                                              *)

\* Pairs are issued only to users whose address is verified or whom a Google
\* account vouches for, at Login, at Google's SignIn and at every Refresh.
SessionsAreEntitled ==
  \A t \in Issued : owner[t] \in verified \/ \E g \in Googles : provider[g] = owner[t]

\* All successful sign-ins and links with one Google account are for one user,
\* however first sign-ins, links and registrations race.
GoogleAnswersAgree ==
  \A q \in Requests : answer[q] = "ok" /\ subject[q] \in Googles
                        => provider[subject[q]] = user[q]

\* A user who is not verified has a link to become so, unless a request about
\* him is under way or has failed between two statements.
LinkOrFailure ==
  \A u \in Users : Exists(u) /\ u \notin verified =>
    \/ \E l \in Links : verifyLink[l] = u
    \/ \E q \in Requests : user[q] = u /\ (pc[q] \in {"verify", "renew"} \/ answer[q] = "error")

\* A reset link that has been used is accepted by no further request: two can
\* succeed only if both had looked it up before either wrote used_at.
Resetting(q, l) == pc[q] = "reset" /\ subject[q] = l
UsedLinkIsDead ==
  [][\A l \in used : (\A q \in Requests : ~Resetting(q, l))
       => \A q \in Requests : ~Resetting(q, l)']_vars
=============================================================================
