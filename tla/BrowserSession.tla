--------------------------- MODULE BrowserSession ---------------------------
(***************************************************************************)
(* One browser signed in to the shop: tabs that share a refresh cookie and *)
(* a "session hint" in localStorage, and each keep an access token, a user *)
(* and a single refresh in flight. SessionRefresher, authInterceptor,      *)
(* TokenStore, the client's AuthService and its guards, over the token     *)
(* rotation of module AuthSessions: its check, and then one step that      *)
(* revokes the presented token and issues the next.                        *)
(*                                                                         *)
(* Every answer is handled in one step: what a tab does synchronously when *)
(* it arrives, and the cookie the browser stores with it. A definition     *)
(* that no action uses is a mutated form of the one after it.              *)
(***************************************************************************)
EXTENDS Naturals, FiniteSets

CONSTANTS
    Tabs,       \* tabs of one browser
    Calls,      \* API calls a tab may have in flight, GET /auth/me among them
    Me,         \* that call
    Tokens,     \* refresh tokens; one is used again when nobody holds it any more,
                \* and their number bounds how many are held at once
    Expired,    \* the token of a returning visitor that ran out of time
    MaxFaults,  \* bound: lost answers, failing calls and reloads considered
    None        \* absence of a tab or token

ASSUME ConstantsAssumption ==
    /\ Me \in Calls
    /\ MaxFaults \in Nat
    /\ None \notin Tabs
    /\ None \notin Tokens /\ Expired \notin Tokens \union {None}

VARIABLES
    cookie,   \* the refresh cookie
    hint,     \* localStorage: a session existed on this browser
    live,     \* server: the tokens held by somebody, neither revoked nor expired
    posts,    \* POSTs to /auth/refresh and /auth/logout under way
    user,     \* by tab: somebody is signed in
    token,    \* by tab: the access token in memory
    boot,     \* by tab: how far restore() has got; "done" is ready()
    route,    \* by tab: the screen
    call,     \* by tab and call: what the interceptor is doing with it
    faults    \* lost answers, failing calls and reloads so far

page == <<user, token, boot, route, call>>
vars == <<cookie, hint, live, posts, page, faults>>

Cookies == Tokens \union {Expired, None}
Kinds   == {"refresh", "logout"}

\* The token of a POST is the one it carries: presented until the server has worked
\* it off, new in the answer. A refusal brings none, nor does the answer to a logout.
PostsOf(kind, stage, carried) ==
    [tab : Tabs \union {None}, kind : {kind}, stage : {stage}, token : carried]
Post ==
    UNION {PostsOf("refresh", "accepted", Tokens),  PostsOf("refresh", "granted", Tokens),
           PostsOf("refresh", "refused", {None}),
           PostsOf("logout",  "accepted", Cookies), PostsOf("logout",  "granted", {None})}
Call    == [pc : {"idle", "sent", "waiting", "replayed"}, fresh : BOOLEAN]

Quiet == [pc |-> "idle", fresh |-> FALSE]

Own(t)            == {p \in posts : p.tab = t}
Underway(t, kind) == \E p \in Own(t) : p.kind = kind
InFlight(t)       == Underway(t, "refresh")
Waiting(t)        == {c \in Calls : call[<<t, c>>].pc = "waiting"}

\* A random token: one nobody holds.
Held     == {cookie} \union {p.token : p \in posts}
Unissued == Tokens \ Held

\* A token that nobody holds any more can never be presented: it is as good as dead.
Forget == live' = live \intersect Held'

\* The server has worked off a POST; what it answers carries this token.
Answer(p, reply) ==
    posts' = (posts \ {p})
                \union {[tab |-> p.tab, kind |-> p.kind, stage |-> "granted", token |-> reply]}

Init ==
    /\ \/ cookie = None /\ live = {} /\ hint = FALSE
       \/ cookie = Expired /\ live = {} /\ hint = TRUE
       \/ cookie \in Tokens /\ live = {cookie} /\ hint = TRUE
    /\ posts = {}
    /\ user = [t \in Tabs |-> FALSE]
    /\ token = [t \in Tabs |-> "none"]
    /\ boot = [t \in Tabs |-> "start"]
    /\ route = [t \in Tabs |-> "loading"]
    /\ call = [tc \in Tabs \X Calls |-> Quiet]
    /\ faults = 0

-----------------------------------------------------------------------------
(* What several handlers have in common *)

\* A refresh as the server's check leaves it. The check is taken together with the
\* sending: a check that comes later can only see what a sending that comes later
\* would see, as long as the cookie is the same.
Sent(t) == IF cookie \in live
           THEN [tab |-> t, kind |-> "refresh", token |-> cookie, stage |-> "accepted"]
           ELSE [tab |-> t, kind |-> "refresh", token |-> None, stage |-> "refused"]

RefreshAlways(t) == posts' = posts \union {Sent(t)}

\* SessionRefresher.refresh: the refresh in flight is shared.
Refresh(t) == posts' = IF InFlight(t) THEN posts ELSE posts \union {Sent(t)}

\* The calls of tab t after `step` was taken with each of them.
CallsOf(t, step(_)) == [tc \in Tabs \X Calls |-> IF tc[1] = t THEN step(call[tc]) ELSE call[tc]]

Rejected(c) == IF c.pc = "waiting" THEN Quiet ELSE c
Replayed(c) == IF c.pc = "waiting" THEN [pc |-> "replayed", fresh |-> TRUE] ELSE c
Aged(c)     == [c EXCEPT !.fresh = FALSE]

\* No user and no access token in memory any more.
SignOut(t) ==
    /\ user' = [user EXCEPT ![t] = FALSE]
    /\ token' = [token EXCEPT ![t] = "none"]

LeaveHoldingToken(t) ==
    /\ user' = [user EXCEPT ![t] = FALSE]
    /\ hint' = FALSE
    /\ route' = [route EXCEPT ![t] = "login"]
    /\ UNCHANGED token

\* SignOut, the shared hint and the navigation to /login.
LeaveSession(t) ==
    /\ route' = [route EXCEPT ![t] = "login"]
    /\ hint' = FALSE
    /\ SignOut(t)

-----------------------------------------------------------------------------
(* AuthService.restore and the guards *)

Boot(t) ==
    /\ boot[t] = "start"
    /\ IF hint THEN boot' = [boot EXCEPT ![t] = "refresh"] /\ Refresh(t)
               ELSE boot' = [boot EXCEPT ![t] = "done"] /\ UNCHANGED posts
    /\ UNCHANGED <<cookie, hint, live, user, token, route, call, faults>>

\* sessionSettled: when the session is ready, or after five seconds. The guard has
\* injected AuthService, whose constructor has begun to restore the session.
Guard(t) ==
    /\ route[t] = "loading" /\ boot[t] # "start"
    /\ route' = [route EXCEPT ![t] = IF user[t] THEN "app" ELSE "login"]
    /\ UNCHANGED <<cookie, hint, live, posts, user, token, boot, call, faults>>

\* Going to another screen passes the guards again: authGuard, guestGuard.
Navigate(t) ==
    /\ route[t] = IF user[t] THEN "login" ELSE "app"
    /\ route' = [route EXCEPT ![t] = IF user[t] THEN "app" ELSE "login"]
    /\ UNCHANGED <<cookie, hint, live, posts, user, token, boot, call, faults>>

-----------------------------------------------------------------------------
(* authInterceptor *)

SendCall(t, c) ==
    /\ route[t] = "app" /\ c # Me
    /\ call[<<t, c>>].pc = "idle"
    /\ call' = [call EXCEPT ![<<t, c>>] = [pc |-> "sent", fresh |-> token[t] = "fresh"]]
    /\ UNCHANGED <<cookie, hint, live, posts, user, token, boot, route, faults>>

\* 401: the call waits for the refresh, its own or the one in flight.
Unauthorized(t, c) ==
    /\ call[<<t, c>>].pc = "sent" /\ call[<<t, c>>].fresh = FALSE
    /\ call' = [call EXCEPT ![<<t, c>>].pc = "waiting"]
    /\ Refresh(t)
    /\ UNCHANGED <<cookie, hint, live, user, token, boot, route, faults>>

\* The answer goes to the caller. That of GET /auth/me signs the user in.
Answered(t, c) ==
    /\ call[<<t, c>>].pc \in {"sent", "replayed"} /\ call[<<t, c>>].fresh
    /\ call' = [call EXCEPT ![<<t, c>>] = Quiet]
    /\ IF c = Me
       THEN user' = [user EXCEPT ![t] = TRUE] /\ boot' = [boot EXCEPT ![t] = "done"]
       ELSE UNCHANGED <<user, boot>>
    /\ UNCHANGED <<cookie, hint, live, posts, token, route, faults>>

\* The caller gets an error. If it is restore(), it ends signed out.
Fail(t, c) ==
    /\ call' = [call EXCEPT ![<<t, c>>] = Quiet]
    /\ IF c = Me
       THEN SignOut(t) /\ boot' = [boot EXCEPT ![t] = "done"]
       ELSE UNCHANGED <<user, token, boot>>
    /\ UNCHANGED <<cookie, hint, live, posts, route>>

ReplayThroughInterceptor(t, c) ==
    /\ call[<<t, c>>].pc = "replayed" /\ call[<<t, c>>].fresh = FALSE
    /\ call' = [call EXCEPT ![<<t, c>>].pc = "waiting"]
    /\ Refresh(t)
    /\ UNCHANGED <<cookie, hint, live, user, token, boot, route, faults>>

\* A second 401 is final: the replay does not pass through the interceptor.
ReplayRefused(t, c) ==
    /\ call[<<t, c>>].pc = "replayed" /\ call[<<t, c>>].fresh = FALSE
    /\ Fail(t, c)
    /\ UNCHANGED faults

\* No answer, or one that is neither a success nor a 401.
CallFails(t, c) ==
    /\ call[<<t, c>>].pc \in {"sent", "replayed"}
    /\ faults < MaxFaults
    /\ faults' = faults + 1
    /\ Fail(t, c)

\* Fifteen minutes have passed; the tab's calls carry the same token.
AccessExpires(t) ==
    /\ token[t] = "fresh"
    /\ token' = [token EXCEPT ![t] = "stale"]
    /\ call' = CallsOf(t, Aged)
    /\ UNCHANGED <<cookie, hint, live, posts, user, boot, route, faults>>

-----------------------------------------------------------------------------
(* The server's half of a refresh that has passed the check, and of a logout. *)

Rotate(p) ==
    /\ p.kind = "refresh" /\ p.stage = "accepted"
    /\ \E n \in Unissued :
          /\ live' = (live \ {p.token}) \union {n}
          /\ Answer(p, n)
    /\ UNCHANGED <<cookie, hint, page, faults>>

RevokeOnLogout(p) ==
    /\ p.kind = "logout" /\ p.stage = "accepted"
    /\ live' = live \ {p.token}
    /\ Answer(p, None)
    /\ UNCHANGED <<cookie, hint, page, faults>>

-----------------------------------------------------------------------------
(* The tab's half *)

\* Whoever waited goes on: calls are replayed, and restore() asks who the user is.
Resume(t) ==
    /\ call' = IF boot[t] = "refresh"
               THEN [CallsOf(t, Replayed) EXCEPT ![<<t, Me>>] = [pc |-> "sent", fresh |-> TRUE]]
               ELSE CallsOf(t, Replayed)
    /\ boot' = [boot EXCEPT ![t] = IF @ = "refresh" THEN "me" ELSE @]

GrantedWithoutCookie(p) ==
    /\ p.tab # None /\ p.kind = "refresh" /\ p.stage = "granted"
    /\ posts' = posts \ {p}
    /\ UNCHANGED <<cookie, user, route, faults>>
    /\ hint' = TRUE
    /\ token' = [token EXCEPT ![p.tab] = "fresh"]
    /\ Resume(p.tab)
    /\ Forget

\* The new token is set before anybody waiting goes on.
RefreshGranted(p) ==
    /\ p.tab # None /\ p.kind = "refresh" /\ p.stage = "granted"
    /\ posts' = posts \ {p}
    /\ cookie' = p.token
    /\ hint' = TRUE
    /\ token' = [token EXCEPT ![p.tab] = "fresh"]
    /\ Resume(p.tab)
    /\ Forget
    /\ UNCHANGED <<user, route, faults>>

\* catchError does the same for a 401 and for a network failure: everybody waiting
\* is rejected and the tab leaves the session, hint included.
Lose(p) ==
    /\ call' = CallsOf(p.tab, Rejected)
    /\ LeaveSession(p.tab)
    /\ boot' = [boot EXCEPT ![p.tab] =
                   IF @ = "refresh" \/ Me \in Waiting(p.tab) THEN "done" ELSE @]

RefusedKeepingWaiters(p) ==
    /\ p.tab # None /\ p.kind = "refresh" /\ p.stage = "refused"
    /\ posts' = posts \ {p}
    /\ UNCHANGED <<cookie, call, faults>>
    /\ LeaveSession(p.tab)
    /\ boot' = [boot EXCEPT ![p.tab] = IF @ = "refresh" THEN "done" ELSE @]
    /\ Forget

RefreshRefused(p) ==
    /\ p.tab # None /\ p.kind = "refresh" /\ p.stage = "refused"
    /\ posts' = posts \ {p}
    /\ UNCHANGED <<cookie, faults>>
    /\ Lose(p)
    /\ Forget

\* login and register, from the form to applySession: nobody can present the new
\* token before its answer is there, and a refusal changes nothing.
Login(t) ==
    /\ route[t] = "login"
    /\ cookie' \in Unissued
    /\ hint' = TRUE
    /\ user' = [user EXCEPT ![t] = TRUE]
    /\ token' = [token EXCEPT ![t] = "fresh"]
    /\ route' = [route EXCEPT ![t] = "app"]
    /\ UNCHANGED <<posts, boot, call, faults>>
    /\ live' = (live \union {cookie'}) \intersect Held'

\* One logout of a tab at a time.
StartLogout(t) ==
    /\ route[t] = "app" /\ user[t] /\ ~ Underway(t, "logout")
    /\ posts' = posts \union {[tab |-> t, kind |-> "logout", token |-> cookie,
                               stage |-> "accepted"]}
    /\ UNCHANGED <<cookie, hint, live, page, faults>>

LogoutAnswered(p) ==
    /\ p.tab # None /\ p.kind = "logout" /\ p.stage = "granted"
    /\ posts' = posts \ {p}
    /\ cookie' = None
    /\ UNCHANGED <<boot, call, faults>>
    /\ LeaveSession(p.tab)
    /\ Forget

-----------------------------------------------------------------------------
(* Failures *)

\* The server goes on with a request whose answer nobody waits for any more.
Orphaned(p) == IF p.stage = "accepted" THEN {[p EXCEPT !.tab = None]} ELSE {}

\* A POST gets no answer: the tab is signed out all the same.
AnswerLost(p) ==
    /\ p.tab # None
    /\ faults < MaxFaults
    /\ faults' = faults + 1
    /\ posts' = (posts \ {p}) \union Orphaned(p)
    /\ UNCHANGED cookie
    /\ Forget
    /\ IF p.kind = "refresh" THEN Lose(p)
                             ELSE call' = call /\ LeaveSession(p.tab) /\ UNCHANGED boot

\* The tab is reloaded: its memory is gone. The browser may have stored the cookie
\* of an answer the page did not get to see.
Reload(t) ==
    /\ boot[t] = "done"
    /\ faults < MaxFaults
    /\ faults' = faults + 1
    /\ cookie' \in {cookie} \union {p.token : p \in {q \in Own(t) : q.stage = "granted"}}
    /\ posts' = (posts \ Own(t)) \union UNION {Orphaned(p) : p \in Own(t)}
    /\ Forget
    /\ user' = [user EXCEPT ![t] = FALSE]
    /\ token' = [token EXCEPT ![t] = "none"]
    /\ boot' = [boot EXCEPT ![t] = "start"]
    /\ route' = [route EXCEPT ![t] = "loading"]
    /\ call' = [tc \in Tabs \X Calls |-> IF tc[1] = t THEN Quiet ELSE call[tc]]
    /\ UNCHANGED hint

DropAnswer(p) ==
    /\ p.tab = None /\ p.stage \in {"granted", "refused"}
    /\ posts' = posts \ {p}
    /\ UNCHANGED <<cookie, hint, page, faults>>
    /\ Forget

-----------------------------------------------------------------------------
CallStep(t, c) == Unauthorized(t, c) \/ Answered(t, c) \/ ReplayRefused(t, c)

ServerStep(p) == Rotate(p) \/ RevokeOnLogout(p)

AnswerStep(p) == RefreshGranted(p) \/ RefreshRefused(p) \/ LogoutAnswered(p) \/ DropAnswer(p)

Visitor(t) ==
    \/ Navigate(t) \/ Login(t) \/ StartLogout(t) \/ Reload(t) \/ AccessExpires(t)
    \/ \E c \in Calls : SendCall(t, c) \/ CallFails(t, c)

Next ==
    \/ \E t \in Tabs : Boot(t) \/ Guard(t) \/ Visitor(t) \/ \E c \in Calls : CallStep(t, c)
    \/ \E p \in posts : ServerStep(p) \/ AnswerStep(p) \/ AnswerLost(p)

Spec == Init /\ [][Next]_vars

\* A tab that is open runs its constructor and its guard, a call that was sent is
\* answered, and a POST is worked off by the server and then by its tab.
PostStep(t, kind) == \E p \in posts : p.tab = t /\ p.kind = kind /\ (ServerStep(p) \/ AnswerStep(p))

FairSpec ==
    /\ Spec
    /\ \A t \in Tabs : WF_vars(Boot(t)) /\ WF_vars(Guard(t))
    /\ \A t \in Tabs, c \in Calls : WF_vars(CallStep(t, c))
    /\ \A t \in Tabs \union {None}, kind \in Kinds : WF_vars(PostStep(t, kind))

-----------------------------------------------------------------------------
(* Properties *)

\* Everything shared and everything a tab keeps has its type.
TypeOK ==
    /\ cookie \in Cookies
    /\ hint \in BOOLEAN
    /\ live \subseteq Tokens
    /\ posts \subseteq Post
    /\ user \in [Tabs -> BOOLEAN]
    /\ token \in [Tabs -> {"none", "fresh", "stale"}]
    /\ boot \in [Tabs -> {"start", "refresh", "me", "done"}]
    /\ route \in [Tabs -> {"loading", "login", "app"}]
    /\ call \in [Tabs \X Calls -> Call]
    /\ faults \in 0 .. MaxFaults

\* "ONE call to /api/auth/refresh": however many calls of a tab come back with 401
\* and whenever, at most one refresh of the tab is under way.
OneRefreshPerTab == \A p1, p2 \in posts :
    p1.tab # None /\ p1.tab = p2.tab /\ p1.kind = "refresh" /\ p2.kind = "refresh" => p1 = p2

\* Nobody waits for a refresh that is not under way: a call or a restore() that
\* joined one is always taken along by its end.
NoLostWakeup == \A t \in Tabs :
    Waiting(t) # {} \/ boot[t] = "refresh" => InFlight(t)

\* What the single flight is for: if no answer is lost, a refresh is refused only to
\* a visitor whose session is over, or because another tab or a logout has just used
\* the token up. A tab never gets in its own way.
RefusalHasCause == [][faults = 0 => \A p \in posts' \ posts : p.stage = "refused" =>
    \/ cookie \in {None, Expired}
    \/ \E o \in posts : o.stage = "granted" /\ <<o.tab, o.kind>> # <<p.tab, "refresh">>]_vars

\* If no answer is lost, the cookie is a live token as soon as the answer that replaces
\* it has come in (every answer that is not a refusal does), however many tabs refresh
\* and log out at once.
CookieIsLive ==
    faults = 0 /\ cookie \in Tokens \ live =>
        \E p \in posts : p.stage = "granted"

\* A tab that is ready has a user exactly if it has an access token, and loses that
\* only one way: it was signed out while a refresh or a GET /auth/me of its own was
\* under way, and the late answer brings half of the session back.
Whole(t) == boot[t] = "done" => (user[t] <=> token[t] # "none")

HalfSessionIsALateAnswer == [][\A t \in Tabs : Whole(t) /\ ~ Whole(t)' =>
    ~ user[t] /\ (InFlight(t) \/ call[<<t, Me>>].pc # "idle")]_vars

\* A tab gets ready and every call ends, refreshed and replayed or not: nobody is
\* left in front of an undecided guard or behind a refresh that never comes back.
EverythingSettles == \A t \in Tabs :
    /\ boot[t] # "done" ~> boot[t] = "done"
    /\ \A c \in Calls : call[<<t, c>>].pc # "idle" ~> call[<<t, c>>].pc = "idle"
=============================================================================
