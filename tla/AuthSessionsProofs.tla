-------------------------- MODULE AuthSessionsProofs -------------------------
(***************************************************************************)
(* Safety of AuthSessions for any number of accounts, tokens, handlers and *)
(* faults. Two arguments carry it. Administrators: those there are and the *)
(* registrations that counted an empty table share the request slots, for  *)
(* once there is an account no further one counts none. Sessions: a        *)
(* password change leaves a pending revocation behind, which kills every   *)
(* session of the old password that has a row, and passes by only those    *)
(* that a handler has yet to insert.                                       *)
(***************************************************************************)
EXTENDS AuthSessions, FiniteSetTheorems, TLAPS

Busy == {"count", "create", "issue", "revoke", "set_hash", "revoke_all"}

LEMMA HandlerType ==
    ASSUME NEW label \in Busy \union {"idle"}, NEW e \in Emails \union {None},
           NEW w \in Passwords \union {None}, NEW t \in Tokens \union {None}
    PROVE  Handler(label, e, w, t) \in Request
BY DEF Busy, Handler, Request

LEMMA IdleType == Idle \in Request
BY HandlerType DEF Idle

\* The request table keeps its type when a handler starts, moves on or ends.
LEMMA StartType ==
    ASSUME TypeOK, NEW r \in Requests, NEW h \in Request, req' = [req EXCEPT ![r] = h]
    PROVE  /\ req' \in [Requests -> Request]
           /\ req'[r] = h /\ \A x \in Requests : x # r => req'[x] = req[x]
BY DEF TypeOK

LEMMA FinishType ==
    ASSUME TypeOK, NEW r \in Requests, Finish(r)
    PROVE  /\ req' \in [Requests -> Request]
           /\ req'[r] = Idle /\ \A x \in Requests : x # r => req'[x] = req[x]
BY IdleType DEF TypeOK, Finish

LEMMA GotoType ==
    ASSUME TypeOK, NEW r \in Requests, NEW label \in Busy, Goto(r, label)
    PROVE  /\ req' \in [Requests -> Request]
           /\ req'[r].pc = label /\ req'[r].email = req[r].email /\ req'[r].secret = req[r].secret
           /\ req'[r].token = req[r].token /\ req'[r].overtaken = req[r].overtaken
           /\ req'[r].first = req[r].first
           /\ \A x \in Requests : x # r => req'[x] = req[x]
BY DEF TypeOK, Busy, Goto, Request

\* The parts of the invariant, by what a step can disturb.
Accounts == OneAccountPerEmail /\ AlwaysAnAdmin /\ AdminBudget
              /\ \A r \in Requests : SecondSawFirst(r)

Rotation == PredecessorIsRevoked /\ \A r \in Requests : RevokedBeforeIssue(r)

Staleness == StaleSessionHasCause /\ \A r \in Requests : StaleIssueHasCause(r)

LEMMA IInvParts == IInv <=> TypeOK /\ (\A r \in Requests : CarriesData(r)) /\ Accounts
                               /\ Rotation /\ Staleness
BY DEF IInv, HandlersSound, Accounts, Rotation, Staleness

\* A step that writes no account and starts no insert of one leaves the accounts in order.
LEMMA QuietAccounts ==
    ASSUME Accounts, UNCHANGED users,
           \A x \in Requests : req'[x].pc = "create" =>
               req[x].pc = "create" /\ req'[x].first = req[x].first
    PROVE  Accounts'
<1>1. Admins' = Admins
  BY DEF Admins
<1>2. Firsts' \subseteq Firsts
  BY DEF Firsts, At
<1>3. /\ IsFiniteSet(Firsts) /\ IsFiniteSet(Firsts')
      /\ Cardinality(Firsts') <= Cardinality(Firsts)
      /\ Cardinality(Firsts) \in Nat /\ Cardinality(Firsts') \in Nat
      /\ Cardinality(Requests) \in Nat
  <2>1. Firsts \subseteq Requests
    BY DEF Firsts
  <2> QED
    BY <1>2, <2>1, ConstantsAssumption, FS_Subset, FS_CardinalityType
<1>4. AdminBudget'
  <2>1. Cardinality(Admins) \in Nat
    BY FS_CardinalityType DEF Accounts, AdminBudget
  <2> QED
    BY <1>1, <1>3, <2>1 DEF Accounts, AdminBudget
<1>5. \A r \in Requests : SecondSawFirst(r)'
  BY DEF Accounts, SecondSawFirst, At
<1> QED
  BY <1>1, <1>4, <1>5 DEF Accounts, OneAccountPerEmail, AlwaysAnAdmin

\* The two causes of a stale session.
Excused(overtaken, e) == overtaken \/ ChangePending(e)

\* A step of a handler that is not revoking, and takes no password away, gives rise
\* to no stale session without a cause.
LEMMA QuietStaleness ==
    ASSUME Staleness, NEW r \in Requests, ~ At(r, "revoke_all"),
           \A x \in Requests : x # r => req'[x] = req[x],
           UNCHANGED faults,
           \A e, w : Accepts(e, w) => Accepts(e, w)',
           faults = 0 => \A t \in Live' :
               t \in Live \/ Accepts(t.email, t.secret) \/ Excused(t.overtaken, t.email),
           faults = 0 /\ req'[r].pc \in {"revoke", "issue"} =>
               \/ \A e, w : e = req'[r].email /\ w = req'[r].secret => Accepts(e, w)'
               \/ Excused(req'[r].overtaken, req'[r].email)
    PROVE  Staleness'
<1>1. ASSUME NEW e, ChangePending(e) PROVE ChangePending(e)'
  BY <1>1 DEF ChangePending, At
<1>2. StaleSessionHasCause'
  BY <1>1 DEF Staleness, StaleSessionHasCause, Excused
<1>3. \A x \in Requests : StaleIssueHasCause(x)'
  BY <1>1 DEF Staleness, StaleIssueHasCause, Excused
<1> QED
  BY <1>2, <1>3 DEF Staleness

-----------------------------------------------------------------------------
LEMMA InitIInv == Init => IInv
<1> SUFFICES ASSUME Init PROVE IInv
  OBVIOUS
<1> USE DEF Init
<1>1. TypeOK
  <2>1. users \subseteq User
    <3>1. SUFFICES ASSUME NEW e \in Emails, NEW w \in Passwords,
                          users = {[email |-> e, password |-> w, admin |-> TRUE]}
                   PROVE  users \subseteq User
      BY SMT
    <3> QED
      BY <3>1 DEF User
  <2>2. req \in [Requests -> Request]
    BY IdleType
  <2>3. faults \in 0 .. MaxFaults
    BY ConstantsAssumption
  <2> QED
    BY <2>1, <2>2, <2>3 DEF TypeOK
<1>2. \A r \in Requests : req[r].pc = "idle"
  BY DEF Idle, Handler
<1>3. Firsts = {} /\ Cardinality(Firsts) = 0
  BY <1>2, FS_EmptySet DEF Firsts, At
<1>4. IsFiniteSet(Admins) /\ Cardinality(Admins) \in {0, 1}
  <2>1. CASE users = {}
    <3>1. Admins = {}
      BY <2>1 DEF Admins
    <3> QED
      BY <3>1, FS_EmptySet
  <2>2. CASE users # {}
    <3>1. PICK e \in Emails, w \in Passwords :
              users = {[email |-> e, password |-> w, admin |-> TRUE]}
      BY <2>2
    <3>2. /\ \A u \in users : u.email = e /\ u.admin = TRUE
          /\ \E u \in users : u.email = e /\ u.admin = TRUE
      BY <3>1
    <3>3. Admins = {e}
      BY <3>2 DEF Admins
    <3> QED
      BY <3>3, FS_Singleton
  <2> QED
    BY <2>1, <2>2
<1>5. Cardinality(Requests) \in Nat \ {0}
  BY ConstantsAssumption, FS_CardinalityType, FS_EmptySet
<1>6. AdminBudget
  BY <1>3, <1>4, <1>5 DEF AdminBudget
<1>7. AlwaysAnAdmin /\ OneAccountPerEmail
  <2>1. \A u \in users : u.email \in Admins
    BY DEF Admins
  <2> QED
    BY <2>1 DEF AlwaysAnAdmin, OneAccountPerEmail
<1> QED
  BY <1>1, <1>2, <1>6, <1>7 DEF IInv, HandlersSound, CarriesData, SecondSawFirst,
     RevokedBeforeIssue, StaleIssueHasCause, At, PredecessorIsRevoked, StaleSessionHasCause, Live

-----------------------------------------------------------------------------
\* A slot takes up a handler that has written nothing yet.
LEMMA StartIInv ==
    ASSUME IInv, NEW r \in Requests, NEW h \in Request, At(r, "idle"),
           req' = [req EXCEPT ![r] = h],
           UNCHANGED <<users, tokens, revoked, expired, faults>>,
           h.pc \in {"count", "issue", "revoke", "set_hash"},
           h.email \in Emails, h.secret \in Passwords,
           IF h.pc = "revoke" THEN h.token \in Tokens ELSE h.token = None,
           faults = 0 /\ h.pc \in {"revoke", "issue"} =>
               Accepts(h.email, h.secret) \/ Excused(h.overtaken, h.email)
    PROVE  IInv'
<1> USE DEF At
<1>1. /\ req' \in [Requests -> Request]
      /\ req'[r] = h /\ \A x \in Requests : x # r => req'[x] = req[x]
  BY StartType DEF IInv
<1>2. TypeOK'
  BY <1>1 DEF IInv, TypeOK
<1>3. \A x \in Requests : CarriesData(x)'
  BY <1>1, IInvParts DEF CarriesData
<1>4. Accounts'
  BY <1>1, IInvParts, QuietAccounts
<1>5. Rotation'
  BY <1>1, IInvParts DEF Rotation, PredecessorIsRevoked, RevokedBeforeIssue
<1>6. Staleness'
  <2>1. \A e, w : Accepts(e, w) => Accepts(e, w)'
    BY DEF Accepts
  <2>2. Live' = Live
    BY DEF Live, Dead
  <2> QED
    BY <1>1, <2>1, <2>2, IInvParts, QuietStaleness
<1> QED
  BY <1>2, <1>3, <1>4, <1>5, <1>6 DEF IInv, HandlersSound, Accounts, Rotation, Staleness

LEMMA StartRegisterIInv ==
    ASSUME IInv, NEW r \in Requests, NEW e \in Emails, NEW w \in Passwords,
           StartRegister(r, e, w)
    PROVE  IInv'
<1>1. Handler("count", e, w, None) \in Request
  BY HandlerType DEF Busy
<1> QED
  BY <1>1, StartIInv DEF StartRegister, Handler

LEMMA StartLoginIInv ==
    ASSUME IInv, NEW r \in Requests, NEW e \in Emails, NEW w \in Passwords,
           StartLogin(r, e, w)
    PROVE  IInv'
<1>1. Handler("issue", e, w, None) \in Request
  BY HandlerType DEF Busy
<1> QED
  BY <1>1, StartIInv DEF StartLogin, Handler

LEMMA StartChangePasswordIInv ==
    ASSUME IInv, NEW r \in Requests, NEW e \in Emails, NEW w \in Passwords,
           NEW new \in Passwords, StartChangePassword(r, e, w, new)
    PROVE  IInv'
<1>1. Handler("set_hash", e, new, None) \in Request
  BY HandlerType DEF Busy
<1> QED
  BY <1>1, StartIInv DEF StartChangePassword, Handler

LEMMA StartRefreshIInv ==
    ASSUME IInv, NEW r \in Requests, NEW t \in tokens, StartRefresh(r, t)
    PROVE  IInv'
<1> DEFINE h == [pc |-> "revoke", email |-> t.email, secret |-> t.secret,
                 token |-> t.id, first |-> FALSE, overtaken |-> t.overtaken]
<1>1. t \in Token /\ t \in Live
  BY DEF IInv, TypeOK, StartRefresh, Refreshable
<1>2. /\ h \in Request /\ h.pc = "revoke" /\ h.email = t.email /\ h.secret = t.secret
      /\ h.token = t.id /\ h.overtaken = t.overtaken
  BY <1>1 DEF Token, Request
<1>3. /\ At(r, "idle") /\ req' = [req EXCEPT ![r] = h]
      /\ UNCHANGED <<users, tokens, revoked, expired, faults>>
  BY DEF StartRefresh
<1>4. t.email \in Emails /\ t.secret \in Passwords /\ t.id \in Tokens
  BY <1>1 DEF Token
<1>5. faults = 0 => Accepts(t.email, t.secret) \/ Excused(t.overtaken, t.email)
  BY <1>1, IInvParts DEF Staleness, StaleSessionHasCause, Excused
<1> HIDE DEF h
<1> QED
  BY <1>2, <1>3, <1>4, <1>5, StartIInv

LEMMA CountUsersIInv ==
    ASSUME IInv, NEW r \in Requests, CountUsers(r)
    PROVE  IInv'
<1> DEFINE h == [req[r] EXCEPT !.pc = "create", !.first = (users = {})]
<1>a. req' = [req EXCEPT ![r] = h] /\ UNCHANGED <<users, tokens, revoked, expired, faults>>
      /\ At(r, "count")
  BY DEF CountUsers
<1>b. /\ h \in Request /\ h.pc = "create" /\ h.first = (users = {}) /\ h.token = req[r].token
      /\ h.email = req[r].email /\ h.secret = req[r].secret
  BY DEF IInv, TypeOK, Request
<1> HIDE DEF h
<1>1. /\ req' \in [Requests -> Request]
      /\ req'[r] = h /\ \A x \in Requests : x # r => req'[x] = req[x]
  BY <1>a, <1>b, StartType DEF IInv
<1> USE <1>a DEF At
<1>2. TypeOK'
  BY <1>1 DEF IInv, TypeOK
<1>3. req'[r].pc = "create" /\ req'[r].first = (users = {})
      /\ req'[r].email = req[r].email /\ req'[r].secret = req[r].secret
      /\ req'[r].token = req[r].token
  BY <1>1, <1>b
<1>4. \A x \in Requests : CarriesData(x)'
  BY <1>1, <1>3, IInvParts DEF CarriesData
<1>5. Accounts'
  <2>1. Admins' = Admins
    BY DEF Admins
  <2>2. users # {} => Firsts' = Firsts
    BY <1>1, <1>3 DEF Firsts
  <2>3. \A x \in Requests : SecondSawFirst(x)'
    BY <1>1, <1>3, IInvParts DEF Accounts, SecondSawFirst
  <2> QED
    BY <2>1, <2>2, <2>3, IInvParts DEF Accounts, AdminBudget, AlwaysAnAdmin, OneAccountPerEmail
<1>6. Rotation'
  BY <1>1, <1>3, IInvParts DEF Rotation, PredecessorIsRevoked, RevokedBeforeIssue
<1>7. Staleness'
  BY <1>1, <1>3, IInvParts, QuietStaleness DEF Accepts, Live, Dead
<1> QED
  BY <1>2, <1>4, <1>5, <1>6, <1>7 DEF IInv, HandlersSound, Accounts, Rotation, Staleness

LEMMA CreateUserIInv ==
    ASSUME IInv, NEW r \in Requests, CreateUser(r)
    PROVE  IInv'
<1> USE DEF CreateUser, At
<1>1. CASE Taken(req[r].email)
  <2>1. Finish(r) /\ users' = users
    BY <1>1
  <2>2. /\ req' \in [Requests -> Request]
        /\ req'[r] = Idle /\ \A x \in Requests : x # r => req'[x] = req[x]
    BY <2>1, FinishType DEF IInv
  <2>3. req'[r].pc = "idle"
    BY <2>2 DEF Idle, Handler
  <2>4. TypeOK'
    BY <2>1, <2>2 DEF IInv, TypeOK
  <2>5. \A x \in Requests : CarriesData(x)'
    BY <2>2, <2>3, IInvParts DEF CarriesData
  <2>6. Accounts'
    BY <2>1, <2>2, <2>3, IInvParts, QuietAccounts
  <2>7. Rotation'
    BY <2>2, <2>3, IInvParts DEF Rotation, PredecessorIsRevoked, RevokedBeforeIssue
  <2>8. Staleness'
    BY <2>1, <2>2, <2>3, IInvParts, QuietStaleness DEF Accepts, Live, Dead
  <2> QED
    BY <2>4, <2>5, <2>6, <2>7, <2>8 DEF IInv, HandlersSound, Accounts, Rotation, Staleness
<1>2. CASE ~ Taken(req[r].email)
  <2> DEFINE u == [email |-> req[r].email, password |-> req[r].secret, admin |-> req[r].first]
  <2>1. users' = users \union {u} /\ Goto(r, "issue")
    BY <1>2
  <2>2. /\ req' \in [Requests -> Request]
        /\ req'[r].pc = "issue" /\ req'[r].email = req[r].email
        /\ req'[r].secret = req[r].secret /\ req'[r].token = req[r].token
        /\ \A x \in Requests : x # r => req'[x] = req[x]
    BY <2>1, GotoType DEF IInv, Busy
  <2>3. req[r].email \in Emails /\ req[r].secret \in Passwords /\ req[r].first \in BOOLEAN
    BY IInvParts DEF IInv, TypeOK, Request, CarriesData
  <2>4. TypeOK'
    BY <2>1, <2>2, <2>3 DEF IInv, TypeOK, User
  <2>5. \A x \in Requests : CarriesData(x)'
    BY <2>2, IInvParts DEF CarriesData
  <2>6. Accounts'
    <3>1. \A u1 \in users : u1.email # u.email
      BY <1>2 DEF Taken, Registered
    <3>2. Firsts' = Firsts \ {r}
      BY <2>2 DEF Firsts
    <3>3. Firsts \subseteq Requests
      BY DEF Firsts
    <3>4. IsFiniteSet(Firsts) /\ Cardinality(Firsts) \in Nat /\ Cardinality(Requests) \in Nat
          /\ Cardinality(Firsts) <= Cardinality(Requests)
      BY <3>3, ConstantsAssumption, FS_Subset, FS_CardinalityType
    <3>5. IsFiniteSet(Admins) /\ Cardinality(Admins) \in Nat
      BY IInvParts, FS_CardinalityType DEF Accounts, AdminBudget
    <3>6. CASE req[r].first
      <4>1. r \in Firsts
        BY <3>6 DEF Firsts, CreateUser
      <4>2. Cardinality(Firsts') = Cardinality(Firsts) - 1
        BY <3>2, <3>4, <4>1, FS_RemoveElement
      <4>3. Admins' = Admins \union {u.email}
        BY <2>1, <2>3, <3>6 DEF Admins
      <4>4. IsFiniteSet(Admins') /\ Cardinality(Admins') <= Cardinality(Admins) + 1
            /\ Cardinality(Admins') \in Nat
        <5>1. PICK a : a = u.email
          OBVIOUS
        <5>2. IsFiniteSet(Admins \union {a})
              /\ Cardinality(Admins \union {a}) \in {Cardinality(Admins), Cardinality(Admins) + 1}
          BY <3>5, FS_AddElement
        <5> QED
          BY <3>5, <4>3, <5>1, <5>2
      <4>5. users = {} => Cardinality(Admins) = 0
        BY FS_EmptySet DEF Admins
      <4>6. AdminBudget'
        BY <3>4, <3>5, <4>2, <4>4, <4>5, IInvParts DEF Accounts, AdminBudget
      <4> QED
        BY <2>1, <2>2, <3>1, <4>3, <4>6, IInvParts
           DEF Accounts, OneAccountPerEmail, AlwaysAnAdmin, SecondSawFirst
    <3>7. CASE ~ req[r].first
      <4>1. Firsts' = Firsts
        BY <3>2, <3>7 DEF Firsts
      <4>2. Admins' = Admins
        BY <2>1, <2>3, <3>7 DEF Admins
      <4>3. users # {}
        BY <3>7, IInvParts DEF Accounts, SecondSawFirst
      <4> QED
        BY <2>1, <2>2, <3>1, <4>1, <4>2, <4>3, IInvParts
           DEF Accounts, AdminBudget, OneAccountPerEmail, AlwaysAnAdmin, SecondSawFirst
    <3> QED
      BY <3>6, <3>7
  <2>7. Rotation'
    <3>1. req[r].token = None
      BY IInvParts DEF CarriesData
    <3> QED
      BY <2>2, <3>1, IInvParts DEF Rotation, PredecessorIsRevoked, RevokedBeforeIssue
  <2>8. Staleness'
    <3>1. \A e, w : Accepts(e, w) => Accepts(e, w)'
      BY <2>1 DEF Accepts
    <3>2. u \in users' /\ u.email = req'[r].email /\ u.password = req'[r].secret
      BY <2>1, <2>2
    <3>3. \A e, w : e = req'[r].email /\ w = req'[r].secret => Accepts(e, w)'
      BY <3>2 DEF Accepts
    <3> QED
      BY <2>2, <3>1, <3>3, IInvParts, QuietStaleness DEF Live, Dead
  <2> QED
    BY <2>4, <2>5, <2>6, <2>7, <2>8 DEF IInv, HandlersSound, Accounts, Rotation, Staleness
<1> QED
  BY <1>1, <1>2

\* A refresh that has revoked the token presented to it.
LEMMA RevokePresentedIInv ==
    ASSUME IInv, NEW r \in Requests, RevokePresented(r)
    PROVE  IInv'
<1>1. /\ At(r, "revoke") /\ Goto(r, "issue") /\ revoked' = revoked \union {req[r].token}
      /\ UNCHANGED <<users, tokens, expired, faults>>
  BY DEF RevokePresented
<1>2. /\ req' \in [Requests -> Request]
      /\ req'[r].pc = "issue" /\ req'[r].email = req[r].email
      /\ req'[r].secret = req[r].secret /\ req'[r].token = req[r].token
      /\ req'[r].overtaken = req[r].overtaken
      /\ \A x \in Requests : x # r => req'[x] = req[x]
  BY <1>1, GotoType DEF IInv, Busy
<1>3. CarriesData(r)
  BY IInvParts
<1> USE DEF At
<1>4. TypeOK'
  BY <1>1, <1>2, <1>3 DEF IInv, TypeOK, CarriesData
<1>5. \A x \in Requests : CarriesData(x)'
  BY <1>1, <1>2, IInvParts DEF CarriesData
<1>6. Accounts'
  BY <1>1, <1>2, IInvParts, QuietAccounts
<1>7. Rotation'
  BY <1>1, <1>2, IInvParts DEF Rotation, PredecessorIsRevoked, RevokedBeforeIssue
<1>8. Staleness'
  <2>1. \A e, w : Accepts(e, w) <=> Accepts(e, w)'
    BY <1>1 DEF Accepts
  <2>2. Live' \subseteq Live
    BY <1>1 DEF Live, Dead
  <2>3. faults = 0 => Accepts(req[r].email, req[r].secret) \/ Excused(req[r].overtaken, req[r].email)
    BY <1>1, IInvParts DEF Staleness, StaleIssueHasCause, Excused
  <2> QED
    BY <1>1, <1>2, <2>1, <2>2, <2>3, IInvParts, QuietStaleness
<1> QED
  BY <1>4, <1>5, <1>6, <1>7, <1>8 DEF IInv, HandlersSound, Accounts, Rotation, Staleness

LEMMA IssueSessionIInv ==
    ASSUME IInv, NEW r \in Requests, NEW id \in Tokens, IssueSession(r, id)
    PROVE  IInv'
<1> DEFINE n == [id |-> id, email |-> req[r].email, parent |-> req[r].token,
                 secret |-> req[r].secret, overtaken |-> req[r].overtaken]
<1>1. /\ At(r, "issue") /\ Finish(r) /\ tokens' = tokens \union {n}
      /\ UNCHANGED <<users, revoked, expired, faults>>
  BY DEF IssueSession
<1>2. /\ req' \in [Requests -> Request]
      /\ req'[r] = Idle /\ \A x \in Requests : x # r => req'[x] = req[x]
  BY <1>1, FinishType DEF IInv
<1>3. req'[r].pc = "idle"
  BY <1>2 DEF Idle, Handler
<1>4. req[r] \in Request /\ req[r].email \in Emails /\ req[r].secret \in Passwords
  BY <1>1, IInvParts DEF TypeOK, CarriesData, At
<1>5. /\ n \in Token /\ n.email = req[r].email /\ n.secret = req[r].secret
      /\ n.parent = req[r].token /\ n.overtaken = req[r].overtaken
  BY <1>4 DEF Request, Token
<1> HIDE DEF n
<1> USE DEF At
<1>6. TypeOK'
  BY <1>1, <1>2, <1>5 DEF IInv, TypeOK
<1>7. \A x \in Requests : CarriesData(x)'
  BY <1>2, <1>3, IInvParts DEF CarriesData
<1>8. Accounts'
  BY <1>1, <1>2, <1>3, IInvParts, QuietAccounts
<1>9. Rotation'
  <2>1. n.parent # None => n.parent \in revoked
    BY <1>1, <1>5, IInvParts DEF Rotation, RevokedBeforeIssue
  <2> QED
    BY <1>1, <1>2, <1>3, <2>1, IInvParts DEF Rotation, PredecessorIsRevoked, RevokedBeforeIssue
<1>10. Staleness'
  <2>1. \A e, w : Accepts(e, w) => Accepts(e, w)'
    BY <1>1 DEF Accepts
  <2>2. \A t \in Live' : t \in Live \/ t = n
    BY <1>1 DEF Live, Dead
  <2>3. faults = 0 => Accepts(n.email, n.secret) \/ Excused(n.overtaken, n.email)
    BY <1>1, <1>5, IInvParts DEF Staleness, StaleIssueHasCause, Excused
  <2> QED
    BY <1>1, <1>2, <1>3, <2>1, <2>2, <2>3, IInvParts, QuietStaleness
<1> QED
  BY <1>6, <1>7, <1>8, <1>9, <1>10 DEF IInv, HandlersSound, Accounts, Rotation, Staleness

LEMMA TokensDieIInv ==
    ASSUME IInv, NEW t \in tokens, Logout(t) \/ Expire(t)
    PROVE  IInv'
<1>1. /\ UNCHANGED <<users, tokens, req, faults>>
      /\ revoked \subseteq revoked' /\ expired \subseteq expired'
  BY DEF Logout, Expire
<1>2. TypeOK'
  <2>1. t.id \in Tokens
    BY DEF IInv, TypeOK, Token
  <2> QED
    BY <2>1 DEF IInv, TypeOK, Logout, Expire
<1>3. \A x \in Requests : CarriesData(x)'
  BY <1>1, IInvParts DEF CarriesData, At
<1>4. Accounts'
  BY <1>1, IInvParts, QuietAccounts
<1>5. Rotation'
  BY <1>1, IInvParts DEF Rotation, PredecessorIsRevoked, RevokedBeforeIssue, At
<1>6. Staleness'
  <2>1. Live' \subseteq Live
    BY <1>1 DEF Live, Dead
  <2>2. \A e : ChangePending(e)' <=> ChangePending(e)
    BY <1>1 DEF ChangePending, At
  <2>3. \A e, w : Accepts(e, w)' <=> Accepts(e, w)
    BY <1>1 DEF Accepts
  <2>4. StaleSessionHasCause'
    BY <1>1, <2>1, <2>2, <2>3, IInvParts DEF Staleness, StaleSessionHasCause
  <2>5. \A x \in Requests : StaleIssueHasCause(x)'
    BY <1>1, <2>2, <2>3, IInvParts DEF Staleness, StaleIssueHasCause
  <2> QED
    BY <2>4, <2>5 DEF Staleness
<1> QED
  BY <1>2, <1>3, <1>4, <1>5, <1>6 DEF IInv, HandlersSound, Accounts, Rotation, Staleness

-----------------------------------------------------------------------------
\* A hash written: whatever was of the old password is now due to be revoked.
LEMMA SetHashIInv ==
    ASSUME IInv, NEW r \in Requests, SetHash(r)
    PROVE  IInv'
<1>1. PICK a, w : a = req[r].email /\ w = req[r].secret
  OBVIOUS
<1>2. /\ At(r, "set_hash") /\ Goto(r, "revoke_all")
      /\ users' = {WithPassword(u, a, w) : u \in users}
      /\ UNCHANGED <<tokens, revoked, expired, faults>>
  BY <1>1 DEF SetHash
<1>3. /\ req' \in [Requests -> Request]
      /\ req'[r].pc = "revoke_all" /\ req'[r].email = a /\ req'[r].secret = w
      /\ \A x \in Requests : x # r => req'[x] = req[x]
  BY <1>1, <1>2, GotoType DEF IInv, Busy
<1>4. a \in Emails /\ w \in Passwords
  BY <1>1, <1>2, IInvParts DEF CarriesData, At
<1>5. \A u \in users : /\ WithPassword(u, a, w) \in User
                       /\ WithPassword(u, a, w).email = u.email
                       /\ WithPassword(u, a, w).admin = u.admin
                       /\ u.email # a => WithPassword(u, a, w) = u
  BY <1>4 DEF WithPassword, IInv, TypeOK, User
<1> USE DEF At
<1>6. TypeOK'
  BY <1>2, <1>3, <1>5 DEF IInv, TypeOK
<1>7. \A x \in Requests : CarriesData(x)'
  BY <1>2, <1>3, <1>4, IInvParts DEF CarriesData
<1>8. Accounts'
  <2>1. Admins' = Admins
    BY <1>2, <1>5 DEF Admins
  <2>2. Firsts' = Firsts
    BY <1>2, <1>3 DEF Firsts
  <2>3. users' # {} <=> users # {}
    BY <1>2
  <2>4. OneAccountPerEmail'
    BY <1>2, <1>5, IInvParts DEF Accounts, OneAccountPerEmail
  <2>5. \A x \in Requests : SecondSawFirst(x)'
    BY <1>2, <1>3, <2>3, IInvParts DEF Accounts, SecondSawFirst
  <2> QED
    BY <2>1, <2>2, <2>3, <2>4, <2>5, IInvParts DEF Accounts, AdminBudget, AlwaysAnAdmin
<1>9. Rotation'
  BY <1>2, <1>3, IInvParts DEF Rotation, PredecessorIsRevoked, RevokedBeforeIssue
<1>10. Staleness'
  <2>1. ChangePending(a)' /\ \A e : ChangePending(e) => ChangePending(e)'
    BY <1>2, <1>3 DEF ChangePending
  <2>2. \A e, v : e # a /\ Accepts(e, v) => Accepts(e, v)'
    BY <1>2, <1>5 DEF Accepts
  <2>3. Live' = Live
    BY <1>2 DEF Live, Dead
  <2>4. StaleSessionHasCause'
    BY <1>2, <2>1, <2>2, <2>3, IInvParts DEF Staleness, StaleSessionHasCause
  <2>5. \A x \in Requests : StaleIssueHasCause(x)'
    BY <1>2, <1>3, <2>1, <2>2, IInvParts DEF Staleness, StaleIssueHasCause
  <2> QED
    BY <2>4, <2>5 DEF Staleness
<1> QED
  BY <1>6, <1>7, <1>8, <1>9, <1>10 DEF IInv, HandlersSound, Accounts, Rotation, Staleness

\* The revocation itself: rows die, handlers that have none yet are overtaken.
LEMMA RevokeAllIInv ==
    ASSUME IInv, NEW r \in Requests, RevokeAll(r)
    PROVE  IInv'
<1>1. PICK a : a = req[r].email
  OBVIOUS
<1>2. /\ At(r, "revoke_all") /\ req' = [Overtaken(a) EXCEPT ![r] = Idle]
      /\ revoked' = revoked \union {t.id : t \in {t \in tokens : t.email = a}}
      /\ UNCHANGED <<users, tokens, expired, faults>>
  BY <1>1 DEF RevokeAll
<1>3. /\ req'[r] = Idle
      /\ \A x \in Requests : x # r => req'[x] =
            IF Issuing(x, a) THEN [req[x] EXCEPT !.overtaken = TRUE] ELSE req[x]
      /\ DOMAIN req' = Requests /\ req' = [x \in Requests |-> req'[x]]
  BY <1>2 DEF Overtaken
<1>4. req'[r].pc = "idle"
  BY <1>3 DEF Idle, Handler
<1>5. \A x \in Requests : x # r =>
          /\ req'[x] \in Request
          /\ req'[x].pc = req[x].pc /\ req'[x].email = req[x].email
          /\ req'[x].secret = req[x].secret /\ req'[x].token = req[x].token
          /\ req'[x].first = req[x].first
          /\ req[x].overtaken => req'[x].overtaken
          /\ Issuing(x, a) => req'[x].overtaken
  <2> SUFFICES ASSUME NEW x \in Requests, x # r
               PROVE  /\ req'[x] \in Request
                      /\ req'[x].pc = req[x].pc /\ req'[x].email = req[x].email
                      /\ req'[x].secret = req[x].secret /\ req'[x].token = req[x].token
                      /\ req'[x].first = req[x].first
                      /\ req[x].overtaken => req'[x].overtaken
                      /\ Issuing(x, a) => req'[x].overtaken
    OBVIOUS
  <2>1. req[x] \in Request
    BY DEF IInv, TypeOK
  <2>2. CASE Issuing(x, a)
    <3>1. req'[x] = [req[x] EXCEPT !.overtaken = TRUE]
      BY <1>3, <2>2
    <3> QED
      BY <2>1, <3>1 DEF Request
  <2>3. CASE ~ Issuing(x, a)
    BY <1>3, <2>1, <2>3
  <2> QED
    BY <2>2, <2>3
<1>6. req' \in [Requests -> Request]
  BY <1>3, <1>5, IdleType
<1> USE DEF At
<1>7. TypeOK'
  <2>1. \A t \in tokens : t.id \in Tokens
    BY DEF IInv, TypeOK, Token
  <2> QED
    BY <1>2, <1>6, <2>1 DEF IInv, TypeOK
<1>8. \A x \in Requests : CarriesData(x)'
  BY <1>4, <1>5, IInvParts DEF CarriesData
<1>9. Accounts'
  BY <1>2, <1>4, <1>5, IInvParts, QuietAccounts
<1>10. Rotation'
  BY <1>2, <1>4, <1>5, IInvParts DEF Rotation, PredecessorIsRevoked, RevokedBeforeIssue
<1>11. Staleness'
  <2>1. \A e : e # a /\ ChangePending(e) => ChangePending(e)'
    BY <1>1, <1>5 DEF ChangePending
  <2>2. \A e, w : Accepts(e, w) <=> Accepts(e, w)'
    BY <1>2 DEF Accepts
  <2>3. \A t \in Live' : t \in Live /\ t.email # a
    BY <1>2 DEF Live, Dead
  <2>4. StaleSessionHasCause'
    BY <1>2, <2>1, <2>2, <2>3, IInvParts DEF Staleness, StaleSessionHasCause
  <2>5. \A x \in Requests : StaleIssueHasCause(x)'
    <3> SUFFICES ASSUME NEW x \in Requests, x # r, faults = 0,
                        req[x].pc \in {"revoke", "issue"},
                        ~ Accepts(req[x].email, req[x].secret)
                 PROVE  req'[x].overtaken \/ ChangePending(req[x].email)'
      BY <1>2, <1>4, <1>5, <2>2 DEF StaleIssueHasCause
    <3>1. req[x].overtaken \/ ChangePending(req[x].email)
      BY IInvParts DEF Staleness, StaleIssueHasCause
    <3>2. CASE req[x].email = a
      BY <1>5, <3>2 DEF Issuing
    <3>3. CASE req[x].email # a
      BY <1>5, <2>1, <3>1, <3>3
    <3> QED
      BY <3>2, <3>3
  <2> QED
    BY <2>4, <2>5 DEF Staleness
<1> QED
  BY <1>7, <1>8, <1>9, <1>10, <1>11 DEF IInv, HandlersSound, Accounts, Rotation, Staleness

\* With a fault on record no session is claimed to have a cause.
LEMMA AbortIInv ==
    ASSUME IInv, NEW r \in Requests, Abort(r)
    PROVE  IInv'
<1>1. /\ Finish(r) /\ faults < MaxFaults /\ faults' = faults + 1
      /\ UNCHANGED <<users, tokens, revoked, expired>>
  BY DEF Abort
<1>2. /\ req' \in [Requests -> Request]
      /\ req'[r] = Idle /\ \A x \in Requests : x # r => req'[x] = req[x]
  BY <1>1, FinishType DEF IInv
<1>3. req'[r].pc = "idle"
  BY <1>2 DEF Idle, Handler
<1>4. faults' # 0 /\ faults' \in 0 .. MaxFaults
  BY <1>1, ConstantsAssumption DEF IInv, TypeOK
<1> USE DEF At
<1>5. TypeOK'
  BY <1>1, <1>2, <1>4 DEF IInv, TypeOK
<1>6. \A x \in Requests : CarriesData(x)'
  BY <1>2, <1>3, IInvParts DEF CarriesData
<1>7. Accounts'
  BY <1>1, <1>2, <1>3, IInvParts, QuietAccounts
<1>8. Rotation'
  BY <1>1, <1>2, <1>3, IInvParts DEF Rotation, PredecessorIsRevoked, RevokedBeforeIssue
<1>9. Staleness'
  BY <1>4 DEF Staleness, StaleSessionHasCause, StaleIssueHasCause
<1> QED
  BY <1>5, <1>6, <1>7, <1>8, <1>9 DEF IInv, HandlersSound, Accounts, Rotation, Staleness

LEMMA RestartIInv ==
    ASSUME IInv, Restart
    PROVE  IInv'
<1>1. /\ req' = [r \in Requests |-> Idle] /\ faults < MaxFaults /\ faults' = faults + 1
      /\ UNCHANGED <<users, tokens, revoked, expired>>
  BY DEF Restart
<1>2. \A x \in Requests : req'[x] = Idle /\ req'[x].pc = "idle"
  BY <1>1 DEF Idle, Handler
<1>3. faults' # 0 /\ faults' \in 0 .. MaxFaults
  BY <1>1, ConstantsAssumption DEF IInv, TypeOK
<1> USE DEF At
<1>4. TypeOK'
  BY <1>1, <1>3, IdleType DEF IInv, TypeOK
<1>5. \A x \in Requests : CarriesData(x)'
  BY <1>2, IInvParts DEF CarriesData
<1>6. Accounts'
  BY <1>1, <1>2, IInvParts, QuietAccounts
<1>7. Rotation'
  BY <1>1, <1>2, IInvParts DEF Rotation, PredecessorIsRevoked, RevokedBeforeIssue
<1>8. Staleness'
  BY <1>3 DEF Staleness, StaleSessionHasCause, StaleIssueHasCause
<1> QED
  BY <1>4, <1>5, <1>6, <1>7, <1>8 DEF IInv, HandlersSound, Accounts, Rotation, Staleness

LEMMA StutterIInv == ASSUME IInv, UNCHANGED vars PROVE IInv'
<1>1. UNCHANGED <<users, tokens, revoked, expired, req, faults>>
  BY DEF vars
<1> QED
  BY <1>1 DEF IInv, TypeOK, HandlersSound, CarriesData, SecondSawFirst, RevokedBeforeIssue,
     StaleIssueHasCause, OneAccountPerEmail, AlwaysAnAdmin, AdminBudget, Admins, Firsts,
     PredecessorIsRevoked, StaleSessionHasCause, Live, Dead, Accepts, ChangePending, At

LEMMA NextIInv == IInv /\ [Next]_vars => IInv'
<1> SUFFICES ASSUME IInv, [Next]_vars PROVE IInv'
  OBVIOUS
<1>1. ASSUME NEW r \in Requests, AccountStep(r) PROVE IInv'
  BY <1>1, StartRegisterIInv, CountUsersIInv, CreateUserIInv, StartChangePasswordIInv,
     SetHashIInv, RevokeAllIInv DEF AccountStep
<1>2. ASSUME NEW r \in Requests, SessionStep(r) PROVE IInv'
  BY <1>2, StartLoginIInv, StartRefreshIInv, RevokePresentedIInv, IssueSessionIInv
     DEF SessionStep
<1>3. CASE Environment
  BY <1>3, TokensDieIInv, RestartIInv DEF Environment
<1>4. CASE UNCHANGED vars
  BY <1>4, StutterIInv
<1> QED
  BY <1>1, <1>2, <1>3, <1>4, AbortIInv DEF Next

-----------------------------------------------------------------------------
\* The inductive invariant holds in every reachable state.
THEOREM Invariant == Spec => []IInv
BY InitIInv, NextIInv, PTL DEF Spec

\* Every row and every handler keeps its type.
THEOREM TypeCorrect == Spec => []TypeOK
<1>1. IInv => TypeOK
  BY DEF IInv
<1> QED
  BY <1>1, Invariant, PTL

\* Racing registrations of one address leave one account.
THEOREM NoDoubleAccount == Spec => []OneAccountPerEmail
<1>1. IInv => OneAccountPerEmail
  BY DEF IInv
<1> QED
  BY <1>1, Invariant, PTL

\* An install with accounts has an administrator.
THEOREM SomeAdmin == Spec => []AlwaysAnAdmin
<1>1. IInv => AlwaysAnAdmin
  BY DEF IInv
<1> QED
  BY <1>1, Invariant, PTL

\* The race for the first account makes no more administrators than there are
\* requests at a time.
THEOREM FewAdmins == Spec => []AdminsBounded
<1>1. IInv => AdminsBounded
  <2> SUFFICES ASSUME IInv PROVE AdminsBounded
    OBVIOUS
  <2>1. Firsts \subseteq Requests
    BY DEF Firsts
  <2>2. /\ Cardinality(Firsts) \in Nat /\ Cardinality(Requests) \in Nat
        /\ Cardinality(Admins) \in Nat
    BY <2>1, ConstantsAssumption, FS_Subset, FS_CardinalityType DEF IInv, AdminBudget
  <2>3. CASE users = {}
    <3>1. Cardinality(Admins) = 0
      BY <2>3, FS_EmptySet DEF Admins
    <3> QED
      BY <2>2, <3>1 DEF AdminsBounded
  <2>4. CASE users # {}
    BY <2>2, <2>4 DEF IInv, AdminBudget, AdminsBounded
  <2> QED
    BY <2>3, <2>4
<1> QED
  BY <1>1, Invariant, PTL

\* The predecessor of every rotated token is revoked.
THEOREM RotationRevokes == Spec => []PredecessorIsRevoked
<1>1. IInv => PredecessorIsRevoked
  BY DEF IInv
<1> QED
  BY <1>1, Invariant, PTL

\* A session of an old password is pending revocation or was overtaken.
THEOREM StaleSessionsExplained == Spec => []StaleSessionHasCause
<1>1. IInv => StaleSessionHasCause
  BY DEF IInv
<1> QED
  BY <1>1, Invariant, PTL

\* A dead token is accepted by no one, and yields a session only to a refresh that
\* had read it alive.
LEMMA StepRefusesReplay ==
    ASSUME IInv, [Next]_vars, NEW p \in Dead
    PROVE  /\ \A r \in Requests : req'[r].token = p => r \in Holders(p)
           /\ \A t \in tokens' \ tokens : t.parent = p => Holders(p) # {}
<1> USE DEF Holders
<1>1. p \in Tokens /\ p # None
  BY ConstantsAssumption DEF IInv, TypeOK, Dead
<1>2. CASE UNCHANGED vars
  BY <1>2 DEF vars
<1>3. ASSUME NEW r \in Requests,
             AccountStep(r) \/ SessionStep(r) \/ Abort(r)
      PROVE  /\ \A x \in Requests : req'[x].token = p => req[x].token = p
             /\ \A t \in tokens' \ tokens : t.parent = p => \E x \in Requests : req[x].token = p
  <2>1. ASSUME NEW h, h.token = None \/ h.token = req[r].token, req' = [req EXCEPT ![r] = h],
               UNCHANGED tokens
        PROVE  /\ \A x \in Requests : req'[x].token = p => req[x].token = p
               /\ tokens' \ tokens = {}
    BY <1>1, <2>1 DEF IInv, TypeOK
  <2>2. Idle.token = None
    BY DEF Idle, Handler
  <2>3. ASSUME NEW label, Goto(r, label), UNCHANGED tokens
        PROVE  /\ \A x \in Requests : req'[x].token = p => req[x].token = p
               /\ tokens' \ tokens = {}
    BY <1>1, <2>3 DEF IInv, TypeOK, Request, Goto
  <2>4. ASSUME Finish(r), UNCHANGED tokens
        PROVE  /\ \A x \in Requests : req'[x].token = p => req[x].token = p
               /\ tokens' \ tokens = {}
    BY <2>1, <2>2, <2>4 DEF Finish
  <2>5. CASE \E e \in Emails, w \in Passwords : StartRegister(r, e, w) \/ StartLogin(r, e, w)
    BY <2>1, <2>5 DEF StartRegister, StartLogin, Handler
  <2>6. CASE \E e \in Emails, w, new \in Passwords : StartChangePassword(r, e, w, new)
    BY <2>1, <2>6 DEF StartChangePassword, Handler
  <2>7. CASE CountUsers(r)
    <3>1. \A x \in Requests : req'[x].token = req[x].token
      BY <2>7 DEF CountUsers, IInv, TypeOK, Request
    <3> QED
      BY <2>7, <3>1 DEF CountUsers
  <2>8. CASE CreateUser(r) \/ SetHash(r) \/ RevokePresented(r) \/ Abort(r)
    BY <2>3, <2>4, <2>8 DEF CreateUser, SetHash, RevokePresented, Abort
  <2>9. CASE RevokeAll(r)
    <3>1. \A x \in Requests : req'[x].token \in {req[x].token, None}
      BY <2>2, <2>9 DEF RevokeAll, Overtaken, IInv, TypeOK, Request
    <3> QED
      BY <1>1, <2>9, <3>1 DEF RevokeAll
  <2>10. CASE \E t \in tokens : StartRefresh(r, t)
    <3>1. PICK t \in tokens : StartRefresh(r, t)
      BY <2>10
    <3>2. t.id # p
      BY <3>1 DEF StartRefresh, Refreshable, Live
    <3>3. req'[r].token = t.id /\ \A x \in Requests : x # r => req'[x] = req[x]
      BY <3>1 DEF StartRefresh, IInv, TypeOK
    <3> QED
      BY <3>1, <3>2, <3>3 DEF StartRefresh
  <2>11. CASE \E id \in Tokens : IssueSession(r, id)
    <3>1. \A x \in Requests : req'[x].token \in {req[x].token, None}
      BY <2>2, <2>11 DEF IssueSession, Finish, IInv, TypeOK
    <3>2. \A t \in tokens' \ tokens : t.parent = req[r].token
      BY <2>11 DEF IssueSession
    <3> QED
      BY <1>1, <3>1, <3>2
  <2> QED
    BY <1>3, <2>5, <2>6, <2>7, <2>8, <2>9, <2>10, <2>11 DEF AccountStep, SessionStep
<1>4. CASE Environment
  <2>1. CASE \E t \in tokens : Logout(t) \/ Expire(t)
    BY <2>1 DEF Logout, Expire
  <2>2. CASE Restart
    BY <1>1, <2>2 DEF Restart, Idle, Handler
  <2> QED
    BY <1>4, <2>1, <2>2 DEF Environment
<1> QED
  BY <1>2, <1>3, <1>4 DEF Next

\* No replay of a rotated, revoked or expired token succeeds.
THEOREM NoReplay == Spec => ReplayIsRefused
<1>1. IInv /\ [Next]_vars => [\A p \in Dead :
          /\ \A r \in Requests : req'[r].token = p => r \in Holders(p)
          /\ \A t \in tokens' \ tokens : t.parent = p => Holders(p) # {}]_vars
  BY StepRefusesReplay
<1> QED
  BY <1>1, Invariant, PTL DEF Spec, ReplayIsRefused
=============================================================================
