----------------------------- MODULE AuthSessions ----------------------------
(***************************************************************************)
(* Accounts and refresh tokens: AuthService over one database. No          *)
(* operation runs in a transaction, so register, refresh and               *)
(* changePassword are each a chain of separate statements, and other       *)
(* handlers run between any two of them. An action is the code from one    *)
(* await on a row other handlers write to the next; bcrypt and the signing *)
(* of the access token await too, and touch nothing shared.                *)
(***************************************************************************)
EXTENDS Naturals, FiniteSets

CONSTANTS
    Emails,     \* addresses, after normalizeEmail
    Passwords,  \* passwords, standing for their hashes
    Tokens,     \* refresh tokens, standing for their hashes
    Requests,   \* slots for concurrent HTTP handlers
    MaxFaults,  \* bound: failed calls and restarts considered
    None        \* absence of a value

ASSUME ConstantsAssumption ==
    /\ MaxFaults \in Nat
    /\ None \notin Tokens
    /\ IsFiniteSet(Requests) /\ Requests # {}

VARIABLES
    users,    \* User rows
    tokens,   \* RefreshToken rows
    revoked,  \* RefreshToken.revokedAt is set
    expired,  \* RefreshToken.expiresAt has passed
    req,      \* the handler each slot runs, and its local variables
    faults    \* failed calls and restarts so far

vars == <<users, tokens, revoked, expired, req, faults>>

\* `parent`, `secret` and `overtaken` are history, not columns: the token whose
\* refresh issued this one, the password its chain was opened with, and whether a
\* password change ran to its end while a token of the chain was being issued.
User    == [email : Emails, password : Passwords, admin : BOOLEAN]
Token   == [id : Tokens, email : Emails, parent : Tokens \union {None},
            secret : Passwords, overtaken : BOOLEAN]
Request == [pc : {"idle", "count", "create", "issue", "revoke", "set_hash", "revoke_all"},
            email : Emails \union {None}, secret : Passwords \union {None},
            token : Tokens \union {None}, first : BOOLEAN, overtaken : BOOLEAN]

Handler(label, e, w, t) == [pc |-> label, email |-> e, secret |-> w, token |-> t,
                            first |-> FALSE, overtaken |-> FALSE]

Idle == Handler("idle", None, None, None)

At(r, label)   == req[r].pc = label
Goto(r, label) == req' = [req EXCEPT ![r].pc = label]
Finish(r)      == req' = [req EXCEPT ![r] = Idle]

Registered(e)     == \E u \in users : u.email = e
Accepts(e, w)     == \E u \in users : u.email = e /\ u.password = w
Admins            == {u.email : u \in {u \in users : u.admin}}
Dead              == revoked \union expired
Live              == {t \in tokens : t.id \notin Dead}

\* Fresh installs start empty; the platform seed creates an administrator.
Init ==
    /\ \/ users = {}
       \/ \E e \in Emails, w \in Passwords :
             users = {[email |-> e, password |-> w, admin |-> TRUE]}
    /\ tokens = {}
    /\ revoked = {}
    /\ expired = {}
    /\ req = [r \in Requests |-> Idle]
    /\ faults = 0

-----------------------------------------------------------------------------
(* AuthService.register *)

\* findUnique has found no account; a taken address is answered with 409.
StartRegister(r, e, w) ==
    /\ At(r, "idle")
    /\ ~ Registered(e)
    /\ req' = [req EXCEPT ![r] = Handler("count", e, w, None)]
    /\ UNCHANGED <<users, tokens, revoked, expired, faults>>

CountUsersOfEmail(r) ==
    /\ At(r, "count")
    /\ req' = [req EXCEPT ![r].pc = "create", ![r].first = ~ Registered(req[r].email)]
    /\ UNCHANGED <<users, tokens, revoked, expired, faults>>

CountUsersInverted(r) ==
    /\ At(r, "count")
    /\ req' = [req EXCEPT ![r].pc = "create", ![r].first = (users # {})]
    /\ UNCHANGED <<users, tokens, revoked, expired, faults>>

CountUsers(r) ==
    /\ At(r, "count")
    /\ req' = [req EXCEPT ![r].pc = "create", ![r].first = (users = {})]
    /\ UNCHANGED <<users, tokens, revoked, expired, faults>>

\* The unique index User.email.
Taken(e) == Registered(e)

\* The role was decided by the count. The unique index is not caught here: the
\* loser of two registrations gets a 500.
CreateUser(r) ==
    /\ At(r, "create")
    /\ IF Taken(req[r].email)
       THEN users' = users /\ Finish(r)
       ELSE /\ users' = users \union
                  {[email |-> req[r].email, password |-> req[r].secret, admin |-> req[r].first]}
            /\ Goto(r, "issue")
    /\ UNCHANGED <<tokens, revoked, expired, faults>>

-----------------------------------------------------------------------------
(* AuthService.login *)

\* The hash compared is the one findUnique returned.
StartLogin(r, e, w) ==
    /\ At(r, "idle")
    /\ Accepts(e, w)
    /\ req' = [req EXCEPT ![r] = Handler("issue", e, w, None)]
    /\ UNCHANGED <<users, tokens, revoked, expired, faults>>

-----------------------------------------------------------------------------
(* AuthService.refresh *)

Presentable(t) == t \in tokens

\* The row presented is neither revoked nor expired.
Refreshable(t) == t \in Live

StartRefresh(r, t) ==
    /\ At(r, "idle")
    /\ Refreshable(t)
    /\ req' = [req EXCEPT ![r] = [pc |-> "revoke", email |-> t.email, secret |-> t.secret,
                                  token |-> t.id, first |-> FALSE, overtaken |-> t.overtaken]]
    /\ UNCHANGED <<users, tokens, revoked, expired, faults>>

\* update by id, whether or not the row was revoked meanwhile.
RevokePresented(r) ==
    /\ At(r, "revoke")
    /\ revoked' = revoked \union {req[r].token}
    /\ Goto(r, "issue")
    /\ UNCHANGED <<users, tokens, expired, faults>>

-----------------------------------------------------------------------------
(* AuthService.issueSession, shared by register, login and refresh *)

IssueSession(r, id) ==
    /\ At(r, "issue")
    /\ \A t \in tokens : t.id # id
    /\ tokens' = tokens \union
          {[id |-> id, email |-> req[r].email, parent |-> req[r].token,
            secret |-> req[r].secret, overtaken |-> req[r].overtaken]}
    /\ Finish(r)
    /\ UNCHANGED <<users, revoked, expired, faults>>

-----------------------------------------------------------------------------
(* AuthService.logout and the passing of time *)

\* updateMany: any token presented is revoked, live or not.
Logout(t) ==
    /\ revoked' = revoked \union {t.id}
    /\ UNCHANGED <<users, tokens, expired, req, faults>>

\* A revoked token's expiry makes no difference to anything.
Expire(t) ==
    /\ t \in Live
    /\ expired' = expired \union {t.id}
    /\ UNCHANGED <<users, tokens, revoked, req, faults>>

-----------------------------------------------------------------------------
(* AuthService.changePassword *)

\* The current password w matched the row read; `new` is about to be written.
StartChangePassword(r, e, w, new) ==
    /\ At(r, "idle")
    /\ Accepts(e, w)
    /\ req' = [req EXCEPT ![r] = Handler("set_hash", e, new, None)]
    /\ UNCHANGED <<users, tokens, revoked, expired, faults>>

WithPassword(u, e, w) == IF u.email = e THEN [u EXCEPT !.password = w] ELSE u

SetHashOnly(r) ==
    /\ At(r, "set_hash")
    /\ users' = {WithPassword(u, req[r].email, req[r].secret) : u \in users}
    /\ Finish(r)
    /\ UNCHANGED <<tokens, revoked, expired, faults>>

SetHash(r) ==
    /\ At(r, "set_hash")
    /\ users' = {WithPassword(u, req[r].email, req[r].secret) : u \in users}
    /\ Goto(r, "revoke_all")
    /\ UNCHANGED <<tokens, revoked, expired, faults>>

\* A session of e is on its way to its row.
Issuing(x, e) == req[x].pc \in {"revoke", "issue"} /\ req[x].email = e

Overtaken(e) == [x \in Requests |->
    IF Issuing(x, e) THEN [req[x] EXCEPT !.overtaken = TRUE] ELSE req[x]]

\* One updateMany over the rows that exist now, the caller's own included.
RevokeAll(r) ==
    /\ At(r, "revoke_all")
    /\ revoked' = revoked \union {t.id : t \in {t \in tokens : t.email = req[r].email}}
    /\ req' = [Overtaken(req[r].email) EXCEPT ![r] = Idle]
    /\ UNCHANGED <<users, tokens, expired, faults>>

-----------------------------------------------------------------------------
(* Failures *)

\* A database call is rejected: the handler ends, what it wrote stays.
Abort(r) ==
    /\ ~ At(r, "idle")
    /\ faults < MaxFaults
    /\ faults' = faults + 1
    /\ Finish(r)
    /\ UNCHANGED <<users, tokens, revoked, expired>>

Restart ==
    /\ \E r \in Requests : ~ At(r, "idle")
    /\ faults < MaxFaults
    /\ faults' = faults + 1
    /\ req' = [r \in Requests |-> Idle]
    /\ UNCHANGED <<users, tokens, revoked, expired>>

-----------------------------------------------------------------------------
AccountStep(r) ==
    \/ \E e \in Emails, w \in Passwords : StartRegister(r, e, w)
    \/ CountUsers(r) \/ CreateUser(r)
    \/ \E e \in Emails, w, new \in Passwords : StartChangePassword(r, e, w, new)
    \/ SetHash(r) \/ RevokeAll(r)

SessionStep(r) ==
    \/ \E e \in Emails, w \in Passwords : StartLogin(r, e, w)
    \/ \E t \in tokens : StartRefresh(r, t)
    \/ RevokePresented(r)
    \/ \E id \in Tokens : IssueSession(r, id)

Environment ==
    \/ \E t \in tokens : Logout(t) \/ Expire(t)
    \/ Restart

Next ==
    \/ \E r \in Requests : AccountStep(r) \/ SessionStep(r) \/ Abort(r)
    \/ Environment

Spec == Init /\ [][Next]_vars

-----------------------------------------------------------------------------
(* Properties *)

\* Every row and every handler has its type.
TypeOK ==
    /\ users \subseteq User
    /\ tokens \subseteq Token
    /\ revoked \subseteq Tokens
    /\ expired \subseteq Tokens
    /\ req \in [Requests -> Request]
    /\ faults \in 0 .. MaxFaults

\* Registrations of one address that all found it free leave one account.
OneAccountPerEmail == \A u1, u2 \in users : u1.email = u2.email => u1 = u2

\* An install that has accounts has an administrator among them, however many
\* first registrations race and wherever one of them is cut off.
AlwaysAnAdmin == users # {} => Admins # {}

\* "First account created on an empty user table becomes ADMIN": registrations can
\* race past the count, but only as many as run at the same time, and none later.
AdminsBounded == Cardinality(Admins) <= Cardinality(Requests)

\* A rotated token's predecessor is revoked, whatever a logout, a password change
\* or a crash does between the two statements of the rotation.
PredecessorIsRevoked == \A t \in tokens : t.parent # None => t.parent \in revoked

\* A token that is revoked or expired is never accepted again: the only refreshes
\* that can still turn it into a session are those that had read it before.
Holders(p) == {r \in Requests : req[r].token = p}

ReplayIsRefused == [][\A p \in Dead :
    /\ \A r \in Requests : req'[r].token = p => r \in Holders(p)
    /\ \A t \in tokens' \ tokens : t.parent = p => Holders(p) # {}]_vars

\* The password change of an account has set the hash and not yet revoked.
ChangePending(e) == \E r \in Requests : At(r, "revoke_all") /\ req[r].email = e

\* If no call fails, a live session opened with a password that is no longer the
\* account's has one of two causes: the change is about to revoke it, or it was
\* being issued when a change went past it.
StaleSessionHasCause ==
    faults = 0 => \A t \in Live :
        ~ Accepts(t.email, t.secret) => t.overtaken \/ ChangePending(t.email)

-----------------------------------------------------------------------------
(* The inductive invariant *)

\* What a handler in flight needs for its next step.
CarriesData(r) ==
    /\ ~ At(r, "idle") => req[r].email \in Emails /\ req[r].secret \in Passwords
    /\ At(r, "revoke") => req[r].token \in Tokens
    /\ req[r].pc \in {"count", "create"} => req[r].token = None

\* A registration that is not to make an administrator has seen an account.
SecondSawFirst(r) == At(r, "create") /\ ~ req[r].first => users # {}

\* A refresh past its revocation has revoked.
RevokedBeforeIssue(r) == At(r, "issue") /\ req[r].token # None => req[r].token \in revoked

\* A session in the making goes stale in the same two ways as one that is made.
StaleIssueHasCause(r) ==
    faults = 0 /\ req[r].pc \in {"revoke", "issue"} /\ ~ Accepts(req[r].email, req[r].secret)
        => req[r].overtaken \/ ChangePending(req[r].email)

\* The administrators there are and those that may still be made share the slots.
Firsts == {r \in Requests : At(r, "create") /\ req[r].first}

AdminBudget ==
    /\ IsFiniteSet(Admins)
    /\ users # {} => Cardinality(Admins) + Cardinality(Firsts) <= Cardinality(Requests)

HandlersSound == \A r \in Requests :
    CarriesData(r) /\ SecondSawFirst(r) /\ RevokedBeforeIssue(r) /\ StaleIssueHasCause(r)

IInv == TypeOK /\ HandlersSound /\ OneAccountPerEmail /\ AlwaysAnAdmin
          /\ AdminBudget /\ PredecessorIsRevoked /\ StaleSessionHasCause

-----------------------------------------------------------------------------
(* What the repository says and the code does not do *)

\* "exactly one live token remains per rotated chain": no token has two live
\* successors.
OneLiveSuccessor ==
    \A t1, t2 \in Live : t1.parent = t2.parent /\ t1.parent # None => t1 = t2

\* "Every other session for this user is invalidated by the password change":
\* with every handler done and none failed, no live session is of an old password.
PasswordChangeEndsSessions ==
    faults = 0 /\ (\A r \in Requests : At(r, "idle")) =>
        \A t \in Live : Accepts(t.email, t.secret)
=============================================================================
