--------------------------- MODULE AccountsProofs ---------------------------
(***************************************************************************)
(* Sessions and accounts, for all sets of requests, users, addresses and   *)
(* Google accounts: proofs that AInv is inductive, that it implies the     *)
(* invariants the runs check, and that revoked refresh tokens and used     *)
(* reset links stay dead.                                                  *)
(***************************************************************************)
EXTENDS Accounts, TLAPS

\* Whoever has a verified address or a Google account may have a session.
Entitled(u) == u # Nil /\ (u \in verified \/ \E g \in Googles : provider[g] = u)

\* What the tables refer to exists.
References ==
  /\ \A t \in Issued : Exists(owner[t])
  /\ \A g \in Googles : provider[g] # Nil => Exists(provider[g])
  /\ \A l \in Links : /\ verifyLink[l] # Nil => Exists(verifyLink[l])
                      /\ resetLink[l] # Nil => Exists(resetLink[l])

\* What a request has created and looked up, by its next step.
Progress(q) ==
  /\ pc[q] # "done" => owner[q] = Nil /\ answer[q] = "none"
  /\ pc[q] = "idle" => token[q] = Nil /\ user[q] = Nil /\ subject[q] = Nil
  /\ pc[q] \in {"idle", "match", "create"} => ~Exists(q)
  /\ verifyLink[q] # Nil => pc[q] \in {"send", "done"}
  /\ pc[q] = "create" => user[q] = q
  /\ pc[q] \in {"rotate", "issue", "reuse", "verify", "clear", "renew", "reset", "connect", "link"}
       => user[q] # Nil /\ Exists(user[q])

\* The row of a Refresh or Logout.
Exchange(q) ==
  /\ token[q] # Nil => token[q] \in Issued /\ pc[q] \in {"rotate", "issue", "logout", "done"}
  /\ pc[q] \in {"rotate", "logout"} => token[q] # Nil
  /\ pc[q] = "rotate" => user[q] = owner[token[q]]
  /\ pc[q] = "issue" /\ token[q] # Nil => token[q] \in revoked

\* The Google account or link of a request.
Subject(q) ==
  /\ subject[q] \in Googles
       => pc[q] \in {"match", "create", "connect", "issue", "link", "done"}
  /\ pc[q] \in {"match", "create", "connect", "link"} => subject[q] \in Googles
  /\ pc[q] = "reset" => subject[q] \in Links
  /\ pc[q] = "issue" /\ subject[q] \in Googles => provider[subject[q]] = user[q]
  /\ answer[q] = "ok" /\ subject[q] \in Googles => user[q] # Nil

RequestInv == \A q \in Requests : Progress(q) /\ Exchange(q) /\ Subject(q)

\* Those who are about to get a pair are entitled to it.
AboutToIssue ==
  \A q \in Requests : pc[q] \in {"rotate", "issue"} => Entitled(user[q])

AInv ==
  /\ AccountsTypeOK
  /\ References
  /\ RequestInv
  /\ AboutToIssue
  /\ SessionsAreEntitled
  /\ ParentRevoked
  /\ GoogleAnswersAgree
  /\ LinkOrFailure

-----------------------------------------------------------------------------
(* Preservation, one lemma per action                                      *)

\* A Refresh looks its token up: only a usable one is exchanged.
LEMMA RefreshLookupStep ==
  ASSUME AInv, NEW q \in Requests, NEW t \in Pairs, RefreshLookup(q, t),
         UNCHANGED <<userVars, linkVars, subject>>
  PROVE  AInv'
<1> USE SessionsAssumption, AccountsAssumption
<1> USE DEF AInv, AccountsTypeOK, SessionsTypeOK, RequestInv, Progress, Exchange, Subject,
            Pairs, Users, Links, Issued, Exists,
            pairVars, requestVars, sessionVars, userVars, linkVars,
            Idle, Goto, Answer, Reply, ActFor, Respond, Proceed, Done, About, RefreshLookup, Usable
<1>1. SessionsTypeOK'
  BY DEF Answers, Labels
<1>2. AccountsTypeOK'
  BY <1>1
<1>3. References'
  BY DEF References
<1>4. RequestInv'
  BY DEF References
<1>5. AboutToIssue' /\ SessionsAreEntitled'
  BY DEF AboutToIssue, SessionsAreEntitled, Entitled, References
<1>6. ParentRevoked'
  BY DEF ParentRevoked, Children
<1>7. GoogleAnswersAgree'
  BY DEF GoogleAnswersAgree
<1>8. LinkOrFailure'
  BY SMTT(60) DEF LinkOrFailure
<1> QED BY <1>1, <1>2, <1>3, <1>4, <1>5, <1>6, <1>7, <1>8

\* A Logout looks its token up.
LEMMA LogoutLookupStep ==
  ASSUME AInv, NEW q \in Requests, NEW t \in Pairs, LogoutLookup(q, t),
         UNCHANGED <<userVars, linkVars, subject>>
  PROVE  AInv'
<1> USE SessionsAssumption, AccountsAssumption
<1> USE DEF AInv, AccountsTypeOK, SessionsTypeOK, RequestInv, Progress, Exchange, Subject,
            Pairs, Users, Links, Issued, Exists,
            pairVars, requestVars, sessionVars, userVars, linkVars,
            Idle, Goto, Answer, Reply, ActFor, Respond, Proceed, Done, About, LogoutLookup
<1>1. SessionsTypeOK'
  BY DEF Answers, Labels
<1>2. AccountsTypeOK'
  BY <1>1
<1>3. References'
  BY DEF References
<1>4. RequestInv'
  BY DEF References
<1>5. AboutToIssue' /\ SessionsAreEntitled'
  BY DEF AboutToIssue, SessionsAreEntitled, Entitled, References
<1>6. ParentRevoked'
  BY DEF ParentRevoked, Children
<1>7. GoogleAnswersAgree'
  BY DEF GoogleAnswersAgree
<1>8. LinkOrFailure'
  BY DEF LinkOrFailure
<1> QED BY <1>1, <1>2, <1>3, <1>4, <1>5, <1>6, <1>7, <1>8

\* A reused token costs its owner all tokens.
LEMMA RefreshReuseStep ==
  ASSUME AInv, NEW q \in Requests, RefreshReuse(q),
         UNCHANGED <<userVars, linkVars, subject>>
  PROVE  AInv'
<1> USE SessionsAssumption, AccountsAssumption
<1> USE DEF AInv, AccountsTypeOK, SessionsTypeOK, RequestInv, Progress, Exchange, Subject,
            Pairs, Users, Links, Issued, Exists,
            pairVars, requestVars, sessionVars, userVars, linkVars,
            Idle, Goto, Answer, Reply, ActFor, Respond, Proceed, Done, About, RefreshReuse, OwnedBy
<1>1. SessionsTypeOK'
  BY DEF Answers, Labels
<1>2. AccountsTypeOK'
  BY <1>1
<1>3. References'
  BY DEF References
<1>4. RequestInv'
  BY DEF References
<1>5. AboutToIssue' /\ SessionsAreEntitled'
  BY DEF AboutToIssue, SessionsAreEntitled, Entitled, References
<1>6. ParentRevoked'
  BY DEF ParentRevoked, Children
<1>7. GoogleAnswersAgree'
  BY DEF GoogleAnswersAgree
<1>8. LinkOrFailure'
  BY DEF LinkOrFailure
<1> QED BY <1>1, <1>2, <1>3, <1>4, <1>5, <1>6, <1>7, <1>8

\* The exchanged token is revoked.
LEMMA RefreshRevokeStep ==
  ASSUME AInv, NEW q \in Requests, RefreshRevoke(q),
         UNCHANGED <<userVars, linkVars, subject>>
  PROVE  AInv'
<1> USE SessionsAssumption, AccountsAssumption
<1> USE DEF AInv, AccountsTypeOK, SessionsTypeOK, RequestInv, Progress, Exchange, Subject,
            Pairs, Users, Links, Issued, Exists,
            pairVars, requestVars, sessionVars, userVars, linkVars,
            Idle, Goto, Answer, Reply, ActFor, Respond, Proceed, Done, About, RefreshRevoke
<1>1. SessionsTypeOK'
  BY DEF Answers, Labels
<1>2. AccountsTypeOK'
  BY <1>1
<1>3. References'
  BY DEF References
<1>4. RequestInv'
  BY DEF References
<1>5. AboutToIssue' /\ SessionsAreEntitled'
  BY DEF AboutToIssue, SessionsAreEntitled, Entitled, References
<1>6. ParentRevoked'
  BY DEF ParentRevoked, Children
<1>7. GoogleAnswersAgree'
  BY DEF GoogleAnswersAgree
<1>8. LinkOrFailure'
  BY DEF LinkOrFailure
<1> QED BY <1>1, <1>2, <1>3, <1>4, <1>5, <1>6, <1>7, <1>8

\* A pair is issued to an entitled user; its parent has been revoked.
LEMMA IssueStep ==
  ASSUME AInv, NEW q \in Requests, Issue(q),
         UNCHANGED <<userVars, linkVars, subject>>
  PROVE  AInv'
<1> USE SessionsAssumption, AccountsAssumption
<1> USE DEF AInv, AccountsTypeOK, SessionsTypeOK, RequestInv, Progress, Exchange, Subject,
            Pairs, Users, Links, Issued, Exists,
            pairVars, requestVars, sessionVars, userVars, linkVars,
            Idle, Goto, Answer, Reply, ActFor, Respond, Proceed, Done, About, Issue
<1>1. SessionsTypeOK'
  BY DEF Answers, Labels
<1>2. AccountsTypeOK'
  BY <1>1
<1>3. References'
  BY DEF References
<1>4. RequestInv'
  BY DEF References
<1>5. AboutToIssue' /\ SessionsAreEntitled'
  BY DEF AboutToIssue, SessionsAreEntitled, Entitled, References
<1>6. ParentRevoked'
  BY DEF ParentRevoked, Children
<1>7. GoogleAnswersAgree'
  BY DEF GoogleAnswersAgree
<1>8. LinkOrFailure'
  BY SMTT(60) DEF LinkOrFailure
<1> QED BY <1>1, <1>2, <1>3, <1>4, <1>5, <1>6, <1>7, <1>8

\* A Logout revokes its token.
LEMMA LogoutRevokeStep ==
  ASSUME AInv, NEW q \in Requests, LogoutRevoke(q),
         UNCHANGED <<userVars, linkVars, subject>>
  PROVE  AInv'
<1> USE SessionsAssumption, AccountsAssumption
<1> USE DEF AInv, AccountsTypeOK, SessionsTypeOK, RequestInv, Progress, Exchange, Subject,
            Pairs, Users, Links, Issued, Exists,
            pairVars, requestVars, sessionVars, userVars, linkVars,
            Idle, Goto, Answer, Reply, ActFor, Respond, Proceed, Done, About, LogoutRevoke
<1>1. SessionsTypeOK'
  BY DEF Answers, Labels
<1>2. AccountsTypeOK'
  BY <1>1
<1>3. References'
  BY DEF References
<1>4. RequestInv'
  BY DEF References
<1>5. AboutToIssue' /\ SessionsAreEntitled'
  BY DEF AboutToIssue, SessionsAreEntitled, Entitled, References
<1>6. ParentRevoked'
  BY DEF ParentRevoked, Children
<1>7. GoogleAnswersAgree'
  BY DEF GoogleAnswersAgree
<1>8. LinkOrFailure'
  BY DEF LinkOrFailure
<1> QED BY <1>1, <1>2, <1>3, <1>4, <1>5, <1>6, <1>7, <1>8

\* A request fails half-way.
LEMMA FailStep ==
  ASSUME AInv, NEW q \in Requests, Fail(q),
         UNCHANGED <<userVars, linkVars, subject>>
  PROVE  AInv'
<1> USE SessionsAssumption, AccountsAssumption
<1> USE DEF AInv, AccountsTypeOK, SessionsTypeOK, RequestInv, Progress, Exchange, Subject,
            Pairs, Users, Links, Issued, Exists,
            pairVars, requestVars, sessionVars, userVars, linkVars,
            Idle, Goto, Answer, Reply, ActFor, Respond, Proceed, Done, About, Fail, MidWay
<1>1. SessionsTypeOK'
  BY DEF Answers, Labels
<1>2. AccountsTypeOK'
  BY <1>1
<1>3. References'
  BY DEF References
<1>4. RequestInv'
  BY DEF References
<1>5. AboutToIssue' /\ SessionsAreEntitled'
  BY DEF AboutToIssue, SessionsAreEntitled, Entitled, References
<1>6. ParentRevoked'
  BY DEF ParentRevoked, Children
<1>7. GoogleAnswersAgree'
  BY DEF GoogleAnswersAgree
<1>8. LinkOrFailure'
  BY DEF LinkOrFailure
<1> QED BY <1>1, <1>2, <1>3, <1>4, <1>5, <1>6, <1>7, <1>8

\* A new user gets a link.
LEMMA RegisterStep ==
  ASSUME AInv, NEW q \in Requests, NEW a \in Addresses, Register(q, a)
  PROVE  AInv'
<1> USE SessionsAssumption, AccountsAssumption
<1> USE DEF AInv, AccountsTypeOK, SessionsTypeOK, RequestInv, Progress, Exchange, Subject,
            Pairs, Users, Links, Issued, Exists,
            pairVars, requestVars, sessionVars, userVars, linkVars,
            Idle, Goto, Answer, Reply, ActFor, Respond, Proceed, Done, About, Register, UserWith
<1>1. SessionsTypeOK'
  <2>1. Respond(q, "conflict") \/ ActFor(q, q, "send")
    OBVIOUS
  <2>2. CASE Respond(q, "conflict")
    BY <2>2 DEF Answers, Labels
  <2>3. CASE ActFor(q, q, "send")
    BY <2>3 DEF Answers, Labels
  <2> QED BY <2>1, <2>2, <2>3
<1>a. \/ UNCHANGED <<userVars, linkVars, subject>>
      \/ /\ Lower[a] \in Addresses /\ Lower[a] # Nil
         /\ email' = [email EXCEPT ![q] = Lower[a]]
         /\ password' = [password EXCEPT ![q] = q]
         /\ verifyLink' = [verifyLink EXCEPT ![q] = q]
         /\ UNCHANGED <<verified, provider, resetLink, used, lapsed, mailed, subject>>
  OBVIOUS
<1>2. AccountsTypeOK'
  <2>1. CASE UNCHANGED <<userVars, linkVars, subject>>
    BY <1>1, <2>1
  <2>2. CASE /\ Lower[a] \in Addresses /\ Lower[a] # Nil
             /\ email' = [email EXCEPT ![q] = Lower[a]]
             /\ password' = [password EXCEPT ![q] = q]
             /\ verifyLink' = [verifyLink EXCEPT ![q] = q]
             /\ UNCHANGED <<verified, provider, resetLink, used, lapsed, mailed, subject>>
    BY <1>1, <2>2
  <2> QED BY <1>a, <2>1, <2>2
<1>b. UNCHANGED owner
  OBVIOUS
<1>3. References'
  <2>1. CASE UNCHANGED <<userVars, linkVars, subject>>
    BY <1>b, <2>1 DEF References
  <2>2. CASE /\ Lower[a] \in Addresses /\ Lower[a] # Nil
             /\ email' = [email EXCEPT ![q] = Lower[a]]
             /\ password' = [password EXCEPT ![q] = q]
             /\ verifyLink' = [verifyLink EXCEPT ![q] = q]
             /\ UNCHANGED <<verified, provider, resetLink, used, lapsed, mailed, subject>>
    BY <1>b, <2>2 DEF References
  <2> QED BY <1>a, <2>1, <2>2
<1>4. RequestInv'
  BY DEF References
<1>5. AboutToIssue' /\ SessionsAreEntitled'
  BY DEF AboutToIssue, SessionsAreEntitled, Entitled, References
<1>6. ParentRevoked'
  BY DEF ParentRevoked, Children
<1>7. GoogleAnswersAgree'
  BY DEF GoogleAnswersAgree
<1>8. LinkOrFailure'
  BY DEF LinkOrFailure
<1> QED BY <1>1, <1>2, <1>3, <1>4, <1>5, <1>6, <1>7, <1>8

\* A new link is asked for.
LEMMA ResendVerificationStep ==
  ASSUME AInv, NEW q \in Requests, NEW a \in Addresses, ResendVerification(q, a)
  PROVE  AInv'
<1> USE SessionsAssumption, AccountsAssumption
<1> USE DEF AInv, AccountsTypeOK, SessionsTypeOK, RequestInv, Progress, Exchange, Subject,
            Pairs, Users, Links, Issued, Exists,
            pairVars, requestVars, sessionVars, userVars, linkVars,
            Idle, Goto, Answer, Reply, ActFor, Respond, Proceed, Done, About, ResendVerification, UserWith
<1>1. SessionsTypeOK'
  <2>1. CASE Respond(q, "ok")
    BY <2>1 DEF Answers, Labels
  <2>2. CASE \E u \in UserWith(Lower[a]) \ verified : Proceed(q, u, "clear")
    <3>1. PICK u \in Users : Proceed(q, u, "clear")
      BY <2>2
    <3> QED BY <3>1 DEF Labels
  <2> QED BY <2>1, <2>2
<1>2. AccountsTypeOK'
  BY <1>1
<1>3. References'
  BY DEF References
<1>4. RequestInv'
  BY DEF References
<1>5. AboutToIssue' /\ SessionsAreEntitled'
  BY DEF AboutToIssue, SessionsAreEntitled, Entitled, References
<1>6. ParentRevoked'
  BY DEF ParentRevoked, Children
<1>7. GoogleAnswersAgree'
  BY DEF GoogleAnswersAgree
<1>8. LinkOrFailure'
  BY DEF LinkOrFailure
<1> QED BY <1>1, <1>2, <1>3, <1>4, <1>5, <1>6, <1>7, <1>8

\* A reset link is created.
LEMMA ForgotPasswordStep ==
  ASSUME AInv, NEW q \in Requests, NEW a \in Addresses, ForgotPassword(q, a)
  PROVE  AInv'
<1> USE SessionsAssumption, AccountsAssumption
<1> USE DEF AInv, AccountsTypeOK, SessionsTypeOK, RequestInv, Progress, Exchange, Subject,
            Pairs, Users, Links, Issued, Exists,
            pairVars, requestVars, sessionVars, userVars, linkVars,
            Idle, Goto, Answer, Reply, ActFor, Respond, Proceed, Done, About, ForgotPassword, UserWith
<1>1. SessionsTypeOK'
  <2>1. CASE Respond(q, "ok")
    BY <2>1 DEF Answers, Labels
  <2>2. CASE \E u \in Users : ActFor(q, u, "send")
    <3>1. PICK u \in Users : ActFor(q, u, "send")
      BY <2>2
    <3> QED BY <3>1 DEF Labels
  <2> QED BY <2>1, <2>2
<1>a. \/ UNCHANGED <<userVars, linkVars, subject>>
      \/ \E u \in Users : /\ Exists(u)
                          /\ resetLink' = [resetLink EXCEPT ![q] = u]
                          /\ UNCHANGED <<userVars, verifyLink, used, lapsed, mailed, subject>>
  OBVIOUS
<1>2. AccountsTypeOK'
  <2>1. CASE UNCHANGED <<userVars, linkVars, subject>>
    BY <1>1, <2>1
  <2>2. CASE \E u \in Users : /\ resetLink' = [resetLink EXCEPT ![q] = u]
                             /\ UNCHANGED <<userVars, verifyLink, used, lapsed, mailed, subject>>
    BY <1>1, <2>2
  <2> QED BY <1>a, <2>1, <2>2
<1>b. UNCHANGED owner
  OBVIOUS
<1>3. References'
  <2>1. CASE UNCHANGED <<userVars, linkVars, subject>>
    BY <2>1, <1>b DEF References
  <2>2. CASE \E u \in Users : /\ Exists(u)
                             /\ resetLink' = [resetLink EXCEPT ![q] = u]
                             /\ UNCHANGED <<userVars, verifyLink, used, lapsed, mailed, subject>>
    BY <2>2, <1>b DEF References
  <2> QED BY <1>a, <2>1, <2>2
<1>4. RequestInv'
  BY DEF References
<1>5. AboutToIssue' /\ SessionsAreEntitled'
  BY DEF AboutToIssue, SessionsAreEntitled, Entitled, References
<1>6. ParentRevoked'
  BY DEF ParentRevoked, Children
<1>7. GoogleAnswersAgree'
  BY DEF GoogleAnswersAgree
<1>8. LinkOrFailure'
  BY DEF LinkOrFailure
<1> QED BY <1>1, <1>2, <1>3, <1>4, <1>5, <1>6, <1>7, <1>8

\* Only verified users log in.
LEMMA LoginStep ==
  ASSUME AInv, NEW q \in Requests, NEW a \in Addresses, NEW p \in Users, Login(q, a, p)
  PROVE  AInv'
<1> USE SessionsAssumption, AccountsAssumption
<1> USE DEF AInv, AccountsTypeOK, SessionsTypeOK, RequestInv, Progress, Exchange, Subject,
            Pairs, Users, Links, Issued, Exists,
            pairVars, requestVars, sessionVars, userVars, linkVars,
            Idle, Goto, Answer, Reply, ActFor, Respond, Proceed, Done, About, Login, UserWith
<1>1. SessionsTypeOK'
  <2>1. \/ \E b \in {"unauthorized", "forbidden"} : Respond(q, b)
        \/ \E u \in Users : ActFor(q, u, "issue")
    OBVIOUS
  <2>2. CASE \E b \in {"unauthorized", "forbidden"} : Respond(q, b)
    BY <2>2 DEF Answers, Labels
  <2>3. CASE \E u \in Users : ActFor(q, u, "issue")
    <3>1. PICK u \in Users : ActFor(q, u, "issue")
      BY <2>3
    <3> QED BY <3>1 DEF Labels
  <2> QED BY <2>1, <2>2, <2>3
<1>2. AccountsTypeOK'
  BY <1>1
<1>3. References'
  BY DEF References
<1>4. RequestInv'
  BY DEF References
<1>5. AboutToIssue' /\ SessionsAreEntitled'
  BY DEF AboutToIssue, SessionsAreEntitled, Entitled, References
<1>6. ParentRevoked'
  BY DEF ParentRevoked, Children
<1>7. GoogleAnswersAgree'
  BY DEF GoogleAnswersAgree
<1>8. LinkOrFailure'
  BY SMTT(60) DEF LinkOrFailure
<1> QED BY <1>1, <1>2, <1>3, <1>4, <1>5, <1>6, <1>7, <1>8

\* A link is taken, for the user it verifies.
LEMMA VerifyEmailStep ==
  ASSUME AInv, NEW q \in Requests, NEW l \in Links, VerifyEmail(q, l)
  PROVE  AInv'
<1> USE SessionsAssumption, AccountsAssumption
<1> USE DEF AInv, AccountsTypeOK, SessionsTypeOK, RequestInv, Progress, Exchange, Subject,
            Pairs, Users, Links, Issued, Exists,
            pairVars, requestVars, sessionVars, userVars, linkVars,
            Idle, Goto, Answer, Reply, ActFor, Respond, Proceed, Done, About, VerifyEmail
<1>1. SessionsTypeOK'
  <2>1. CASE verifyLink[l] = Nil
    BY <2>1 DEF Answers, Labels
  <2>2. CASE verifyLink[l] # Nil
    <3>1. verifyLink[l] \in Users /\ ActFor(q, verifyLink[l], "verify")
      BY <2>2
    <3> QED BY <3>1 DEF Labels
  <2> QED BY <2>1, <2>2
<1>a. \/ UNCHANGED <<userVars, linkVars, subject>>
      \/ /\ verifyLink' = [verifyLink EXCEPT ![l] = Nil]
         /\ UNCHANGED <<userVars, resetLink, used, lapsed, mailed, subject>>
  OBVIOUS
<1>2. AccountsTypeOK'
  BY <1>1, <1>a
<1>b. UNCHANGED owner
  OBVIOUS
<1>3. References'
  <2>1. CASE UNCHANGED <<userVars, linkVars, subject>>
    BY <2>1, <1>b DEF References
  <2>2. CASE /\ verifyLink' = [verifyLink EXCEPT ![l] = Nil]
             /\ UNCHANGED <<userVars, resetLink, used, lapsed, mailed, subject>>
    BY <2>2, <1>b DEF References
  <2> QED BY <1>a, <2>1, <2>2
<1>4. RequestInv'
  BY DEF References
<1>5. AboutToIssue' /\ SessionsAreEntitled'
  BY DEF AboutToIssue, SessionsAreEntitled, Entitled, References
<1>6. ParentRevoked'
  BY DEF ParentRevoked, Children
<1>7. GoogleAnswersAgree'
  BY DEF GoogleAnswersAgree
<1>8. LinkOrFailure'
  BY SMTT(60) DEF LinkOrFailure
<1> QED BY <1>1, <1>2, <1>3, <1>4, <1>5, <1>6, <1>7, <1>8

\* A reset link is looked up.
LEMMA ResetLookupStep ==
  ASSUME AInv, NEW q \in Requests, NEW l \in Links, ResetLookup(q, l)
  PROVE  AInv'
<1> USE SessionsAssumption, AccountsAssumption
<1> USE DEF AInv, AccountsTypeOK, SessionsTypeOK, RequestInv, Progress, Exchange, Subject,
            Pairs, Users, Links, Issued, Exists,
            pairVars, requestVars, sessionVars, userVars, linkVars,
            Idle, Goto, Answer, Reply, ActFor, Respond, Proceed, Done, About, ResetLookup
<1>1. SessionsTypeOK'
  BY SMTT(60) DEF Answers, Labels
<1>2. AccountsTypeOK'
  BY <1>1
<1>3. References'
  BY DEF References
<1>4. RequestInv'
  BY DEF References
<1>5. AboutToIssue' /\ SessionsAreEntitled'
  BY DEF AboutToIssue, SessionsAreEntitled, Entitled, References
<1>6. ParentRevoked'
  BY DEF ParentRevoked, Children
<1>7. GoogleAnswersAgree'
  BY SMTT(60) DEF GoogleAnswersAgree
<1>8. LinkOrFailure'
  BY SMTT(60) DEF LinkOrFailure
<1> QED BY <1>1, <1>2, <1>3, <1>4, <1>5, <1>6, <1>7, <1>8

\* A Google account is linked or not.
LEMMA GoogleSignInStep ==
  ASSUME AInv, NEW q \in Requests, NEW g \in Googles, GoogleSignIn(q, g)
  PROVE  AInv'
<1> USE SessionsAssumption, AccountsAssumption
<1> USE DEF AInv, AccountsTypeOK, SessionsTypeOK, RequestInv, Progress, Exchange, Subject,
            Pairs, Users, Links, Issued, Exists,
            pairVars, requestVars, sessionVars, userVars, linkVars,
            Idle, Goto, Answer, Reply, ActFor, Respond, Proceed, Done, About, GoogleSignIn
<1>1. SessionsTypeOK'
  <2>1. CASE provider[g] = Nil
    <3>1. ActFor(q, Nil, "match")
      BY <2>1
    <3> QED BY <3>1 DEF Labels
  <2>2. CASE provider[g] # Nil
    <3>1. provider[g] \in Users /\ ActFor(q, provider[g], "issue")
      BY <2>2
    <3> QED BY <3>1 DEF Labels
  <2> QED BY <2>1, <2>2
<1>2. AccountsTypeOK'
  BY <1>1
<1>3. References'
  BY DEF References
<1>4. RequestInv'
  BY DEF References
<1>5. AboutToIssue' /\ SessionsAreEntitled'
  BY DEF AboutToIssue, SessionsAreEntitled, Entitled, References
<1>6. ParentRevoked'
  BY DEF ParentRevoked, Children
<1>7. GoogleAnswersAgree'
  BY DEF GoogleAnswersAgree
<1>8. LinkOrFailure'
  BY DEF LinkOrFailure
<1> QED BY <1>1, <1>2, <1>3, <1>4, <1>5, <1>6, <1>7, <1>8

\* A signed-in user asks for a link with a Google account.
LEMMA LinkGoogleStep ==
  ASSUME AInv, NEW q \in Requests, NEW g \in Googles, NEW t \in Pairs, LinkGoogle(q, g, t)
  PROVE  AInv'
<1> USE SessionsAssumption, AccountsAssumption
<1> USE DEF AInv, AccountsTypeOK, SessionsTypeOK, RequestInv, Progress, Exchange, Subject,
            Pairs, Users, Links, Issued, Exists,
            pairVars, requestVars, sessionVars, userVars, linkVars,
            Idle, Goto, Answer, Reply, ActFor, Respond, Proceed, Done, About, LinkGoogle, Authentic
<1>1. SessionsTypeOK'
  <2>1. \/ \E a \in {"unauthorized", "conflict"} : Respond(q, a)
        \/ owner[t] \in Users /\ ActFor(q, owner[t], "link")
    OBVIOUS
  <2>2. CASE \E a \in {"unauthorized", "conflict"} : Respond(q, a)
    BY <2>2 DEF Answers, Labels
  <2>3. CASE owner[t] \in Users /\ ActFor(q, owner[t], "link")
    BY <2>3 DEF Answers, Labels
  <2> QED BY <2>1, <2>2, <2>3
<1>a. UNCHANGED <<userVars, linkVars>> /\ (UNCHANGED subject \/ About(q, g))
  OBVIOUS
<1>2. AccountsTypeOK'
  BY <1>1, <1>a
<1>3. References'
  BY DEF References
<1>4. RequestInv'
  BY DEF References
<1>5. AboutToIssue' /\ SessionsAreEntitled'
  BY DEF AboutToIssue, SessionsAreEntitled, Entitled, References
<1>6. ParentRevoked'
  BY DEF ParentRevoked, Children
<1>7. GoogleAnswersAgree'
  BY DEF GoogleAnswersAgree
<1>8. LinkOrFailure'
  <2>1. /\ \A r \in Requests \ {q} : user'[r] = user[r] /\ pc'[r] = pc[r] /\ answer'[r] = answer[r]
        /\ user[q] = Nil /\ UNCHANGED <<email, verified, verifyLink>>
    OBVIOUS
  <2> QED BY <2>1 DEF LinkOrFailure
<1> QED BY <1>1, <1>2, <1>3, <1>4, <1>5, <1>6, <1>7, <1>8

\* A mail is sent.
LEMMA SendStep ==
  ASSUME AInv, NEW q \in Requests, Send(q)
  PROVE  AInv'
<1> USE SessionsAssumption, AccountsAssumption
<1> USE DEF AInv, AccountsTypeOK, SessionsTypeOK, RequestInv, Progress, Exchange, Subject,
            Pairs, Users, Links, Issued, Exists,
            pairVars, requestVars, sessionVars, userVars, linkVars,
            Idle, Goto, Answer, Reply, ActFor, Respond, Proceed, Done, About, Send
<1>1. SessionsTypeOK'
  BY DEF Answers, Labels
<1>2. AccountsTypeOK'
  BY <1>1
<1>3. References'
  BY DEF References
<1>4. RequestInv'
  BY DEF References
<1>5. AboutToIssue' /\ SessionsAreEntitled'
  BY DEF AboutToIssue, SessionsAreEntitled, Entitled, References
<1>6. ParentRevoked'
  BY DEF ParentRevoked, Children
<1>7. GoogleAnswersAgree'
  BY DEF GoogleAnswersAgree
<1>8. LinkOrFailure'
  BY DEF LinkOrFailure
<1> QED BY <1>1, <1>2, <1>3, <1>4, <1>5, <1>6, <1>7, <1>8

\* A user becomes verified.
LEMMA VerifyUserStep ==
  ASSUME AInv, NEW q \in Requests, VerifyUser(q)
  PROVE  AInv'
<1> USE SessionsAssumption, AccountsAssumption
<1> USE DEF AInv, AccountsTypeOK, SessionsTypeOK, RequestInv, Progress, Exchange, Subject,
            Pairs, Users, Links, Issued, Exists,
            pairVars, requestVars, sessionVars, userVars, linkVars,
            Idle, Goto, Answer, Reply, ActFor, Respond, Proceed, Done, About, VerifyUser
<1>1. SessionsTypeOK'
  BY DEF Answers, Labels
<1>2. AccountsTypeOK'
  BY <1>1
<1>3. References'
  BY DEF References
<1>4. RequestInv'
  BY DEF References
<1>5. AboutToIssue' /\ SessionsAreEntitled'
  BY DEF AboutToIssue, SessionsAreEntitled, Entitled, References
<1>6. ParentRevoked'
  BY DEF ParentRevoked, Children
<1>7. GoogleAnswersAgree'
  BY DEF GoogleAnswersAgree
<1>8. LinkOrFailure'
  BY DEF LinkOrFailure
<1> QED BY <1>1, <1>2, <1>3, <1>4, <1>5, <1>6, <1>7, <1>8

\* The old links of a user go; the request will insert a new one.
LEMMA ClearLinksStep ==
  ASSUME AInv, NEW q \in Requests, ClearLinks(q)
  PROVE  AInv'
<1> USE SessionsAssumption, AccountsAssumption
<1> USE DEF AInv, AccountsTypeOK, SessionsTypeOK, RequestInv, Progress, Exchange, Subject,
            Pairs, Users, Links, Issued, Exists,
            pairVars, requestVars, sessionVars, userVars, linkVars,
            Idle, Goto, Answer, Reply, ActFor, Respond, Proceed, Done, About, ClearLinks
<1>1. SessionsTypeOK'
  BY DEF Answers, Labels
<1>2. AccountsTypeOK'
  BY <1>1
<1>3. References'
  BY DEF References
<1>4. RequestInv'
  BY DEF References
<1>5. AboutToIssue' /\ SessionsAreEntitled'
  BY DEF AboutToIssue, SessionsAreEntitled, Entitled, References
<1>6. ParentRevoked'
  BY DEF ParentRevoked, Children
<1>7. GoogleAnswersAgree'
  BY DEF GoogleAnswersAgree
<1>8. LinkOrFailure'
  <2>a. /\ UNCHANGED <<email, verified>> /\ pc[q] = "clear"
        /\ verifyLink' = [l \in Links |-> IF verifyLink[l] = user[q] THEN Nil ELSE verifyLink[l]]
    OBVIOUS
  <2>b. answer[q] = "none"
    OBVIOUS
  <2>c. \A r \in Requests \ {q} : user'[r] = user[r] /\ pc'[r] = pc[r] /\ answer'[r] = answer[r]
    OBVIOUS
  <2> SUFFICES ASSUME NEW u \in Users, (Exists(u) /\ u \notin verified)'
               PROVE  (\/ \E l \in Links : verifyLink[l] = u
                       \/ \E r \in Requests : /\ user[r] = u
                                              /\ pc[r] \in {"verify", "renew"} \/ answer[r] = "error")'
    BY DEF LinkOrFailure
  <2>1. CASE u = user[q]
    <3>1. user'[q] = u /\ pc'[q] = "renew"
      BY <2>1
    <3> QED BY <3>1
  <2>2. CASE u # user[q]
    <3>1. \A l \in Links : verifyLink[l] = u => verifyLink'[l] = u
      BY <2>2, <2>a
    <3>2. \/ \E l \in Links : verifyLink[l] = u
          \/ \E r \in Requests : user[r] = u /\ (pc[r] \in {"verify", "renew"} \/ answer[r] = "error")
      BY <2>a DEF LinkOrFailure
    <3> QED BY <2>2, <2>b, <2>c, <3>1, <3>2
  <2> QED BY <2>1, <2>2
<1> QED BY <1>1, <1>2, <1>3, <1>4, <1>5, <1>6, <1>7, <1>8

\* The new link is inserted.
LEMMA RenewLinkStep ==
  ASSUME AInv, NEW q \in Requests, RenewLink(q)
  PROVE  AInv'
<1> USE SessionsAssumption, AccountsAssumption
<1> USE DEF AInv, AccountsTypeOK, SessionsTypeOK, RequestInv, Progress, Exchange, Subject,
            Pairs, Users, Links, Issued, Exists,
            pairVars, requestVars, sessionVars, userVars, linkVars,
            Idle, Goto, Answer, Reply, ActFor, Respond, Proceed, Done, About, RenewLink
<1>1. SessionsTypeOK'
  BY DEF Answers, Labels
<1>2. AccountsTypeOK'
  BY <1>1
<1>3. References'
  BY DEF References
<1>4. RequestInv'
  BY DEF References
<1>5. AboutToIssue' /\ SessionsAreEntitled'
  BY DEF AboutToIssue, SessionsAreEntitled, Entitled, References
<1>6. ParentRevoked'
  BY DEF ParentRevoked, Children
<1>7. GoogleAnswersAgree'
  BY DEF GoogleAnswersAgree
<1>8. LinkOrFailure'
  BY DEF LinkOrFailure
<1> QED BY <1>1, <1>2, <1>3, <1>4, <1>5, <1>6, <1>7, <1>8

\* A password is reset.
LEMMA ResetPasswordStep ==
  ASSUME AInv, NEW q \in Requests, ResetPassword(q)
  PROVE  AInv'
<1> USE SessionsAssumption, AccountsAssumption
<1> USE DEF AInv, AccountsTypeOK, SessionsTypeOK, RequestInv, Progress, Exchange, Subject,
            Pairs, Users, Links, Issued, Exists,
            pairVars, requestVars, sessionVars, userVars, linkVars,
            Idle, Goto, Answer, Reply, ActFor, Respond, Proceed, Done, About, ResetPassword
<1>1. SessionsTypeOK'
  BY DEF Answers, Labels
<1>2. AccountsTypeOK'
  BY <1>1
<1>3. References'
  BY DEF References
<1>4. RequestInv'
  BY DEF References
<1>5. AboutToIssue' /\ SessionsAreEntitled'
  BY DEF AboutToIssue, SessionsAreEntitled, Entitled, References
<1>6. ParentRevoked'
  BY DEF ParentRevoked, Children
<1>7. GoogleAnswersAgree'
  BY DEF GoogleAnswersAgree
<1>8. LinkOrFailure'
  BY DEF LinkOrFailure
<1> QED BY <1>1, <1>2, <1>3, <1>4, <1>5, <1>6, <1>7, <1>8

\* A user with the address is looked for.
LEMMA GoogleMatchStep ==
  ASSUME AInv, NEW q \in Requests, GoogleMatch(q)
  PROVE  AInv'
<1> USE SessionsAssumption, AccountsAssumption
<1> USE DEF AInv, AccountsTypeOK, SessionsTypeOK, RequestInv, Progress, Exchange, Subject,
            Pairs, Users, Links, Issued, Exists,
            pairVars, requestVars, sessionVars, userVars, linkVars,
            Idle, Goto, Answer, Reply, ActFor, Respond, Proceed, Done, About, GoogleMatch, UserWith
<1>1. SessionsTypeOK'
  <2>1. CASE Proceed(q, q, "create")
    BY <2>1 DEF Labels
  <2>2. CASE \E u \in UserWith(Mail[subject[q]]) : Proceed(q, u, "connect")
    <3>1. PICK u \in Users : Proceed(q, u, "connect")
      BY <2>2
    <3> QED BY <3>1 DEF Labels
  <2> QED BY <2>1, <2>2
<1>2. AccountsTypeOK'
  BY <1>1
<1>3. References'
  BY DEF References
<1>4. RequestInv'
  BY DEF References
<1>5. AboutToIssue' /\ SessionsAreEntitled'
  BY DEF AboutToIssue, SessionsAreEntitled, Entitled, References
<1>6. ParentRevoked'
  BY DEF ParentRevoked, Children
<1>7. GoogleAnswersAgree'
  BY DEF GoogleAnswersAgree
<1>8. LinkOrFailure'
  BY DEF LinkOrFailure
<1> QED BY <1>1, <1>2, <1>3, <1>4, <1>5, <1>6, <1>7, <1>8

\* A user without password is created.
LEMMA GoogleCreateStep ==
  ASSUME AInv, NEW q \in Requests, GoogleCreate(q)
  PROVE  AInv'
<1> USE SessionsAssumption, AccountsAssumption
<1> USE DEF AInv, AccountsTypeOK, SessionsTypeOK, RequestInv, Progress, Exchange, Subject,
            Pairs, Users, Links, Issued, Exists,
            pairVars, requestVars, sessionVars, userVars, linkVars,
            Idle, Goto, Answer, Reply, ActFor, Respond, Proceed, Done, About, GoogleCreate, UserWith
<1>1. SessionsTypeOK'
  BY DEF Answers, Labels
<1>2. AccountsTypeOK'
  BY <1>1
<1>3. References'
  BY DEF References
<1>4. RequestInv'
  BY DEF References
<1>5. AboutToIssue' /\ SessionsAreEntitled'
  BY DEF AboutToIssue, SessionsAreEntitled, Entitled, References
<1>6. ParentRevoked'
  BY DEF ParentRevoked, Children
<1>7. GoogleAnswersAgree'
  BY DEF GoogleAnswersAgree
<1>8. LinkOrFailure'
  BY DEF LinkOrFailure
<1> QED BY <1>1, <1>2, <1>3, <1>4, <1>5, <1>6, <1>7, <1>8

\* A Google account is linked on its first sign-in.
LEMMA GoogleConnectStep ==
  ASSUME AInv, NEW q \in Requests, GoogleConnect(q)
  PROVE  AInv'
<1> USE SessionsAssumption, AccountsAssumption
<1> USE DEF AInv, AccountsTypeOK, SessionsTypeOK, RequestInv, Progress, Exchange, Subject,
            Pairs, Users, Links, Issued, Exists,
            pairVars, requestVars, sessionVars, userVars, linkVars,
            Idle, Goto, Answer, Reply, ActFor, Respond, Proceed, Done, About, GoogleConnect
<1>1. SessionsTypeOK'
  BY DEF Answers, Labels
<1>2. AccountsTypeOK'
  BY <1>1
<1>3. References'
  BY DEF References
<1>4. RequestInv'
  BY DEF References
<1>5. AboutToIssue' /\ SessionsAreEntitled'
  BY DEF AboutToIssue, SessionsAreEntitled, Entitled, References
<1>6. ParentRevoked'
  BY DEF ParentRevoked, Children
<1>7. GoogleAnswersAgree'
  <2>1. /\ \A r \in Requests \ {q} : user'[r] = user[r] /\ subject'[r] = subject[r] /\ answer'[r] = answer[r]
        /\ user'[q] = user[q] /\ subject'[q] = subject[q]
        /\ provider'[subject[q]] = user[q] /\ provider[subject[q]] = Nil
        /\ \A g \in Googles : provider[g] # Nil => provider'[g] = provider[g]
    OBVIOUS
  <2>2. \A r \in Requests : answer[r] = "ok" /\ subject[r] \in Googles => user[r] # Nil
    BY DEF References
  <2> QED BY <2>1, <2>2 DEF GoogleAnswersAgree
<1>8. LinkOrFailure'
  BY DEF LinkOrFailure
<1> QED BY <1>1, <1>2, <1>3, <1>4, <1>5, <1>6, <1>7, <1>8

\* A Google account is linked on request.
LEMMA LinkConnectStep ==
  ASSUME AInv, NEW q \in Requests, LinkConnect(q)
  PROVE  AInv'
<1> USE SessionsAssumption, AccountsAssumption
<1> USE DEF AInv, AccountsTypeOK, SessionsTypeOK, RequestInv, Progress, Exchange, Subject,
            Pairs, Users, Links, Issued, Exists,
            pairVars, requestVars, sessionVars, userVars, linkVars,
            Idle, Goto, Answer, Reply, ActFor, Respond, Proceed, Done, About, LinkConnect
<1>1. SessionsTypeOK'
  BY DEF Answers, Labels
<1>2. AccountsTypeOK'
  BY <1>1
<1>3. References'
  BY DEF References
<1>4. RequestInv'
  BY DEF References
<1>5. AboutToIssue' /\ SessionsAreEntitled'
  BY DEF AboutToIssue, SessionsAreEntitled, Entitled, References
<1>6. ParentRevoked'
  BY DEF ParentRevoked, Children
<1>7. GoogleAnswersAgree'
  <2>1. /\ \A r \in Requests \ {q} : user'[r] = user[r] /\ subject'[r] = subject[r] /\ answer'[r] = answer[r]
        /\ user'[q] = user[q] /\ subject'[q] = subject[q]
        /\ provider'[subject[q]] = user[q] /\ provider[subject[q]] = Nil
        /\ \A g \in Googles : provider[g] # Nil => provider'[g] = provider[g]
    OBVIOUS
  <2>2. \A r \in Requests : answer[r] = "ok" /\ subject[r] \in Googles => user[r] # Nil
    BY DEF References
  <2> QED BY <2>1, <2>2 DEF GoogleAnswersAgree
<1>8. LinkOrFailure'
  BY DEF LinkOrFailure
<1> QED BY <1>1, <1>2, <1>3, <1>4, <1>5, <1>6, <1>7, <1>8

\* Access and refresh tokens expire.
LEMMA ExpireStep ==
  ASSUME AInv, NEW t \in Pairs, Expire(t), UNCHANGED <<userVars, linkVars, subject>>
  PROVE  AInv'
<1> USE DEF AInv, AccountsTypeOK, SessionsTypeOK, RequestInv, Progress, Exchange, Subject,
            Pairs, Users, Links, Issued, Exists, requestVars, userVars, linkVars, Expire
<1>1. AccountsTypeOK'
  OBVIOUS
<1>2. References' /\ RequestInv'
  BY DEF References
<1>3. AboutToIssue' /\ SessionsAreEntitled'
  BY DEF AboutToIssue, SessionsAreEntitled, Entitled
<1>4. ParentRevoked' /\ GoogleAnswersAgree' /\ LinkOrFailure'
  BY DEF ParentRevoked, Children, GoogleAnswersAgree, LinkOrFailure
<1> QED BY <1>1, <1>2, <1>3, <1>4

\* A reset link expires.
LEMMA LapseStep ==
  ASSUME AInv, NEW l \in Links, Lapse(l)
  PROVE  AInv'
<1> USE DEF AInv, AccountsTypeOK, SessionsTypeOK, RequestInv, Progress, Exchange, Subject,
            Issued, Exists, pairVars, requestVars, sessionVars, userVars, Lapse
<1>1. AccountsTypeOK'
  OBVIOUS
<1>2. References' /\ RequestInv'
  BY DEF References
<1>3. AboutToIssue' /\ SessionsAreEntitled'
  BY DEF AboutToIssue, SessionsAreEntitled, Entitled
<1>4. ParentRevoked' /\ GoogleAnswersAgree' /\ LinkOrFailure'
  BY DEF ParentRevoked, Children, GoogleAnswersAgree, LinkOrFailure
<1> QED BY <1>1, <1>2, <1>3, <1>4

\* Nothing happens.
LEMMA StutterStep ==
  ASSUME AInv, UNCHANGED vars
  PROVE  AInv'
  BY DEF AInv, AccountsTypeOK, SessionsTypeOK, References, RequestInv, Progress, Exchange,
         Subject, AboutToIssue, Entitled, SessionsAreEntitled, ParentRevoked, Children,
         GoogleAnswersAgree, LinkOrFailure, Issued, Exists,
         vars, sessionVars, pairVars, requestVars, userVars, linkVars

-----------------------------------------------------------------------------
(* Theorems                                                                *)

\* The initial states satisfy the invariant.
LEMMA InitEstablishes == Init => AInv
<1> SUFFICES ASSUME Init PROVE AInv
  OBVIOUS
<1> USE SessionsAssumption, AccountsAssumption
<1> USE DEF Init, SessionsInit, Pairs, Users, Links, Issued, Exists
<1>1. SessionsTypeOK
  BY DEF SessionsTypeOK, Answers, Labels
<1>2. AccountsTypeOK
  BY <1>1 DEF AccountsTypeOK
<1>3. References
  BY DEF References
<1>4. RequestInv
  <2> SUFFICES ASSUME NEW q \in Requests PROVE Progress(q) /\ Exchange(q) /\ Subject(q)
    BY DEF RequestInv
  <2>1. Progress(q)
    BY DEF Progress
  <2>2. Exchange(q) /\ Subject(q)
    BY DEF Exchange, Subject
  <2> QED BY <2>1, <2>2
<1>5. AboutToIssue /\ SessionsAreEntitled
  BY DEF AboutToIssue, SessionsAreEntitled
<1>6. ParentRevoked /\ GoogleAnswersAgree
  BY DEF ParentRevoked, Children, GoogleAnswersAgree
<1>7. LinkOrFailure
  BY DEF LinkOrFailure
<1> QED BY <1>2, <1>3, <1>4, <1>5, <1>6, <1>7 DEF AInv

\* Every step preserves it.
LEMMA StepPreserves == AInv /\ [Next]_vars => AInv'
<1> SUFFICES ASSUME AInv, [Next]_vars PROVE AInv'
  OBVIOUS
<1>1. ASSUME NEW q \in Requests, Session(q) PROVE AInv'
  BY <1>1, RefreshLookupStep, LogoutLookupStep, RefreshReuseStep, RefreshRevokeStep,
     IssueStep, LogoutRevokeStep, FailStep DEF Session
<1>2. ASSUME NEW q \in Requests, Begin(q) PROVE AInv'
  BY <1>2, RegisterStep, ResendVerificationStep, ForgotPasswordStep, LoginStep,
     VerifyEmailStep, ResetLookupStep, GoogleSignInStep, LinkGoogleStep DEF Begin
<1>3. ASSUME NEW q \in Requests, Continue(q) PROVE AInv'
  BY <1>3, SendStep, VerifyUserStep, ClearLinksStep, RenewLinkStep, ResetPasswordStep,
     GoogleMatchStep, GoogleCreateStep, GoogleConnectStep, LinkConnectStep DEF Continue
<1>4. ASSUME NEW t \in Pairs, Expire(t), UNCHANGED <<userVars, linkVars, subject>> PROVE AInv'
  BY <1>4, ExpireStep
<1>5. ASSUME NEW l \in Links, Lapse(l) PROVE AInv'
  BY <1>5, LapseStep
<1>6. CASE UNCHANGED vars
  BY <1>6, StutterStep
<1> QED BY <1>1, <1>2, <1>3, <1>4, <1>5, <1>6 DEF Next

\* The inductive invariant holds in every reachable state.
THEOREM Invariance == Spec => []AInv
<1> QED BY InitEstablishes, StepPreserves, PTL DEF Spec

\* Type correctness of sessions and accounts.
THEOREM TypeCorrect == Spec => []AccountsTypeOK
<1>1. AInv => AccountsTypeOK
  BY DEF AInv
<1> QED BY <1>1, Invariance, PTL

\* Only users with a verified address or a Google account have token pairs, at
\* Login, Google's SignIn and every Refresh.
THEOREM EntitledSessions == Spec => []SessionsAreEntitled
<1>1. AInv => SessionsAreEntitled
  BY DEF AInv
<1> QED BY <1>1, Invariance, PTL

\* A token that has been exchanged is revoked.
THEOREM RotationRevokes == Spec => []ParentRevoked
<1>1. AInv => ParentRevoked
  BY DEF AInv
<1> QED BY <1>1, Invariance, PTL

\* Concurrent first sign-ins and links of a Google account agree on its user.
THEOREM OneUserPerGoogle == Spec => []GoogleAnswersAgree
<1>1. AInv => GoogleAnswersAgree
  BY DEF AInv
<1> QED BY <1>1, Invariance, PTL

\* A user who is not verified keeps a link, unless a request failed half-way.
THEOREM LinkSafety == Spec => []LinkOrFailure
<1>1. AInv => LinkOrFailure
  BY DEF AInv
<1> QED BY <1>1, Invariance, PTL

\* A revoked refresh token that no Refresh has accepted before yields nothing.
THEOREM RevokedStaysUseless == Spec => RevokedIsUseless
<1> DEFINE Untaken(t) == \A q \in Requests : ~Exchanging(q, t)
<1>1. AInv /\ [Next]_vars =>
        [\A t \in revoked : (\A q \in Requests : ~Exchanging(q, t))
           => Children(t)' = Children(t) /\ \A q \in Requests : ~Exchanging(q, t)']_sessionVars
  <2> SUFFICES ASSUME AInv, Next, NEW t \in revoked, Untaken(t)
               PROVE  Children(t)' = Children(t) /\ Untaken(t)'
    BY DEF vars
  <2> USE SessionsAssumption
  <2> USE DEF AInv, AccountsTypeOK, SessionsTypeOK, RequestInv, Progress, Exchange, Issued,
              Pairs, Exchanging, Children, Goto, Answer, Reply, ActFor, pairVars, requestVars
  <2>1. ASSUME NEW q \in Requests, Session(q) PROVE Children(t)' = Children(t) /\ Untaken(t)'
    <3>1. CASE Issue(q)
      BY <3>1 DEF Issue
    <3>2. ASSUME NEW u \in Pairs, RefreshLookup(q, u) \/ LogoutLookup(q, u)
          PROVE  Children(t)' = Children(t) /\ Untaken(t)'
      BY <3>2 DEF RefreshLookup, LogoutLookup, Usable
    <3>3. CASE RefreshReuse(q) \/ RefreshRevoke(q) \/ LogoutRevoke(q) \/ Fail(q)
      BY <3>3 DEF RefreshReuse, RefreshRevoke, LogoutRevoke, Fail
    <3> QED BY <2>1, <3>1, <3>2, <3>3 DEF Session
  <2>2. ASSUME NEW q \in Requests, Begin(q) \/ Continue(q)
        PROVE  /\ UNCHANGED <<pairVars, token>>
               /\ \A r \in Requests : pc'[r] = pc[r] \/ (r = q /\ (token[q] = Nil \/ pc'[q] = "done"))
    <3> USE DEF Respond, Proceed, Done, About, Idle
    <3>1. CASE Begin(q)
      BY <3>1 DEF Begin, Register, ResendVerification, ForgotPassword, Login, VerifyEmail,
                  ResetLookup, GoogleSignIn, LinkGoogle
    <3>2. CASE Continue(q)
      BY <3>2 DEF Continue, Send, VerifyUser, ClearLinks, RenewLink, ResetPassword,
                  GoogleMatch, GoogleCreate, GoogleConnect, LinkConnect
    <3> QED BY <2>2, <3>1, <3>2
  <2>3. ASSUME NEW q \in Requests, Begin(q) \/ Continue(q)
        PROVE  Children(t)' = Children(t) /\ Untaken(t)'
    BY <2>2, <2>3
  <2>4. ASSUME UNCHANGED <<owner, parent, requestVars>> PROVE Children(t)' = Children(t) /\ Untaken(t)'
    BY <2>4
  <2>5. ASSUME NEW u \in Pairs, Expire(u) PROVE UNCHANGED <<owner, parent, requestVars>>
    BY <2>5 DEF Expire
  <2>6. ASSUME NEW l \in Links, Lapse(l) PROVE UNCHANGED <<owner, parent, requestVars>>
    BY <2>6 DEF Lapse, sessionVars
  <2>7. ASSUME UNCHANGED vars PROVE UNCHANGED <<owner, parent, requestVars>>
    BY <2>7 DEF vars, sessionVars
  <2> HIDE DEF AInv, Untaken, Children, requestVars
  <2> QED BY <2>1, <2>3, <2>4, <2>5, <2>6, <2>7 DEF Next
<1> QED BY <1>1, Invariance, PTL DEF Spec, RevokedIsUseless

\* A used reset link that no request has looked up before is accepted by none.
THEOREM UsedLinkStaysDead == Spec => UsedLinkIsDead
<1> DEFINE Free(l) == \A q \in Requests : ~Resetting(q, l)
<1>1. AInv /\ [Next]_vars =>
        [\A l \in used : (\A q \in Requests : ~Resetting(q, l))
           => \A q \in Requests : ~Resetting(q, l)']_vars
  <2> SUFFICES ASSUME AInv, Next, NEW l \in used, Free(l) PROVE Free(l)'
    OBVIOUS
  <2> USE DEF AInv, AccountsTypeOK, SessionsTypeOK, Resetting, Goto, Answer, Reply, ActFor,
              Respond, Proceed, Done, About, Idle
  <2>1. ASSUME NEW q \in Requests, Session(q) PROVE Free(l)'
    BY <2>1 DEF Session, RefreshLookup, LogoutLookup, RefreshReuse, RefreshRevoke, Issue,
                LogoutRevoke, Fail
  <2>2. ASSUME NEW q \in Requests, Begin(q) PROVE Free(l)'
    BY <2>2 DEF Begin, Register, ResendVerification, ForgotPassword, Login, VerifyEmail,
                ResetLookup, GoogleSignIn, LinkGoogle
  <2>3. ASSUME NEW q \in Requests, Continue(q) PROVE Free(l)'
    BY <2>3 DEF Continue, Send, VerifyUser, ClearLinks, RenewLink, ResetPassword,
                GoogleMatch, GoogleCreate, GoogleConnect, LinkConnect
  <2>4. ASSUME UNCHANGED <<pc, subject>> PROVE Free(l)'
    BY <2>4
  <2>5. ASSUME NEW u \in Pairs, Expire(u), UNCHANGED <<userVars, linkVars, subject>>
        PROVE  UNCHANGED <<pc, subject>>
    BY <2>5 DEF Expire, requestVars
  <2>6. ASSUME NEW m \in Links, Lapse(m) PROVE UNCHANGED <<pc, subject>>
    BY <2>6 DEF Lapse, sessionVars, requestVars
  <2>7. ASSUME UNCHANGED vars PROVE UNCHANGED <<pc, subject>>
    BY <2>7 DEF vars, sessionVars, requestVars
  <2> HIDE DEF AInv, Free
  <2> QED BY <2>1, <2>2, <2>3, <2>4, <2>5, <2>6, <2>7 DEF Next
<1> QED BY <1>1, Invariance, PTL DEF Spec, UsedLinkIsDead
-----------------------------------------------------------------------------
(* One live token per login                                                *)

\* The pairs of a login are a tree of exchanges.
Lineage ==
  \A t \in Issued :
    /\ origin[t] \in Issued
    /\ parent[t] # Nil => parent[t] \in Issued /\ origin[parent[t]] = origin[t]

\* A tree that never forks has one end.
OneEnd ==
  \A t, u \in Issued :
    origin[t] = origin[u] /\ Children(t) = {} /\ Children(u) = {}
      => t = u \/ Forked(origin[t])

FamilyInv == Lineage /\ OneEnd

\* Only a new pair changes the tree.
LEMMA FamilyFrame == FamilyInv /\ UNCHANGED <<owner, parent, origin>> => FamilyInv'
  BY DEF FamilyInv, Lineage, OneEnd, Forked, Children, Issued

\* The new pair of a login is a tree of its own; the one of a Refresh takes the place
\* of the pair it was exchanged for, or forks the tree.
LEMMA FamilyIssue == AInv /\ FamilyInv /\ (\E q \in Requests : Issue(q)) => FamilyInv'
<1> SUFFICES ASSUME AInv, FamilyInv, NEW q \in Requests, Issue(q) PROVE FamilyInv'
  OBVIOUS
<1> USE DEF FamilyInv
<1>1. /\ owner \in [Pairs -> Users \cup {Nil}] /\ parent \in [Pairs -> Pairs \cup {Nil}]
      /\ origin \in [Pairs -> Pairs \cup {Nil}] /\ q \in Pairs /\ Nil \notin Pairs
  BY SessionsAssumption DEF AInv, AccountsTypeOK, SessionsTypeOK, Pairs
<1>2. /\ owner' = [owner EXCEPT ![q] = user[q]] /\ parent' = [parent EXCEPT ![q] = token[q]]
      /\ origin' = [origin EXCEPT ![q] = IF token[q] = Nil THEN q ELSE origin[token[q]]]
      /\ pc[q] = "issue"
  BY DEF Issue
<1>3. owner[q] = Nil /\ user[q] # Nil /\ (token[q] # Nil => token[q] \in Issued)
  BY <1>2 DEF AInv, RequestInv, Progress, Exchange
<1>4. q \notin Issued /\ Issued' = Issued \cup {q} /\ Issued \subseteq Pairs
  BY <1>1, <1>2, <1>3 DEF Issued
<1>5. /\ parent'[q] = token[q]
      /\ origin'[q] = IF token[q] = Nil THEN q ELSE origin[token[q]]
      /\ \A t \in Issued : parent'[t] = parent[t] /\ origin'[t] = origin[t]
  BY <1>1, <1>2, <1>4
<1>6. Lineage'
  BY <1>3, <1>4, <1>5 DEF Lineage
<1>7. \A s : Forked(s) => Forked(s)'
  BY <1>4, <1>5 DEF Forked
<1>8. \A t \in Issued : Children(t)' = IF t = token[q] THEN Children(t) \cup {q} ELSE Children(t)
  BY <1>4, <1>5 DEF Children
<1>9. ASSUME NEW t \in Issued, origin'[t] = origin'[q], Children(t)' = {}
      PROVE  Forked(origin[q])'
  <2>1. token[q] # Nil
    BY <1>3, <1>4, <1>5, <1>9 DEF Lineage
  <2>2. origin[t] = origin[token[q]] /\ token[q] \in Issued
    BY <1>3, <1>5, <1>9, <2>1
  <2>3. Children(t) = {} /\ t # token[q]
    BY <1>8, <1>9
  <2>4. CASE Children(token[q]) = {}
    <3>1. Forked(origin[t])
      BY <2>2, <2>3, <2>4 DEF OneEnd
    <3> QED
      BY <1>5, <1>7, <1>9, <3>1
  <2>5. CASE Children(token[q]) # {}
    <3>1. PICK n \in Issued : parent[n] = token[q]
      BY <2>5 DEF Children
    <3>2. n # q /\ parent'[n] = token[q] /\ origin'[n] = origin'[q]
      BY <1>4, <1>5, <2>1, <3>1 DEF Lineage
    <3> QED
      BY <1>4, <1>5, <2>1, <3>2 DEF Forked
  <2> QED
    BY <2>4, <2>5
<1>10. ASSUME NEW t \in Issued, NEW u \in Issued, origin'[t] = origin'[u],
              Children(t)' = {}, Children(u)' = {}
       PROVE  t = u \/ Forked(origin[t])'
  <2>1. Children(t) = {} /\ Children(u) = {} /\ origin[t] = origin[u]
    BY <1>5, <1>8, <1>10
  <2> QED
    BY <1>5, <1>7, <2>1 DEF OneEnd
<1>11. OneEnd'
  BY <1>4, <1>9, <1>10 DEF OneEnd
<1> QED
  BY <1>6, <1>11

\* The pairs of before are the first of their logins.
LEMMA FamilyInit == Init => FamilyInv
  BY SessionsAssumption DEF Init, SessionsInit, FamilyInv, Lineage, OneEnd, Children, Issued, Pairs

LEMMA FamilyStep == AInv /\ FamilyInv /\ [Next]_vars => FamilyInv'
<1> SUFFICES ASSUME AInv, FamilyInv, [Next]_vars PROVE FamilyInv'
  OBVIOUS
<1>1. ASSUME NEW q \in Requests, Session(q) PROVE FamilyInv'
  <2>1. Issue(q) \/ UNCHANGED <<owner, parent, origin>>
    BY <1>1 DEF Session, RefreshLookup, LogoutLookup, RefreshReuse, RefreshRevoke, LogoutRevoke,
                Fail, Reply, ActFor, pairVars
  <2> QED
    BY <2>1, FamilyFrame, FamilyIssue
<1>2. ASSUME NEW q \in Requests, Begin(q) PROVE UNCHANGED <<owner, parent, origin>>
  BY <1>2 DEF Begin, Register, ResendVerification, ForgotPassword, Login, VerifyEmail, ResetLookup,
              GoogleSignIn, LinkGoogle, Respond, Proceed, Reply, ActFor, pairVars
<1>3. ASSUME NEW q \in Requests, Continue(q) PROVE UNCHANGED <<owner, parent, origin>>
  BY <1>3 DEF Continue, Send, VerifyUser, ClearLinks, RenewLink, ResetPassword, GoogleMatch,
              GoogleCreate, GoogleConnect, LinkConnect, Done, Proceed, ActFor, pairVars
<1>4. ASSUME NEW t \in Pairs, Expire(t) PROVE UNCHANGED <<owner, parent, origin>>
  BY <1>4 DEF Expire
<1>5. ASSUME NEW l \in Links, Lapse(l) PROVE UNCHANGED <<owner, parent, origin>>
  BY <1>5 DEF Lapse, sessionVars, pairVars
<1>6. CASE UNCHANGED vars
  BY <1>6, FamilyFrame DEF vars, sessionVars, pairVars
<1> QED
  BY <1>1, <1>2, <1>3, <1>4, <1>5, <1>6, FamilyFrame DEF Next

\* Unless two Refreshes of one token overlapped and both succeeded, a login has at most
\* one refresh token that can be used (auth/handler.go), for any number of logins,
\* exchanges and reuses.
THEOREM OneLiveToken == Spec => []OneLivePerLogin
<1>1. AInv /\ FamilyInv => OneLivePerLogin
  BY DEF AInv, ParentRevoked, FamilyInv, OneEnd, OneLivePerLogin, Usable, Issued
<1>2. Spec => []FamilyInv
  BY FamilyInit, FamilyStep, Invariance, PTL DEF Spec
<1> QED
  BY <1>1, <1>2, Invariance, PTL
=============================================================================
