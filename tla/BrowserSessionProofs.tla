------------------------- MODULE BrowserSessionProofs -------------------------
(***************************************************************************)
(* Theorems about BrowserSession, for any tabs, calls and tokens and any   *)
(* number of faults: the single flight, the waiting calls, the cookie that *)
(* stays alive, the refusals and the half sessions.                        *)
(***************************************************************************)
EXTENDS BrowserSession, TLAPS

-----------------------------------------------------------------------------
(* The inductive invariant *)

\* Only a fault leaves a request behind that no tab waits for.
NoOrphans == faults = 0 => \A p \in posts : p.tab # None

\* The answer to a refresh brings a token that is alive and that nobody else holds.
FreshAnswers ==
    faults = 0 =>
        \A p \in posts : p.kind = "refresh" /\ p.stage = "granted" =>
            /\ p.token \in live /\ p.token # cookie
            /\ \A q \in posts : q.token = p.token => q = p

\* A tab has done nothing before its constructor runs.
AtStart ==
    \A t \in Tabs : boot[t] = "start" =>
        /\ route[t] = "loading" /\ ~ user[t] /\ token[t] = "none"
        /\ Own(t) = {}
        /\ \A c \in Calls : call[<<t, c>>].pc = "idle"

\* GET /auth/me is under way exactly while restore() waits for it.
MeIsBooting == \A t \in Tabs : call[<<t, Me>>].pc # "idle" <=> boot[t] = "me"

\* Until restore() has ended, a user has come with a token.
UserHasToken == \A t \in Tabs : boot[t] \in {"refresh", "me"} /\ user[t] => token[t] # "none"

IInv ==
    /\ TypeOK
    /\ OneRefreshPerTab
    /\ NoLostWakeup
    /\ NoOrphans
    /\ FreshAnswers
    /\ CookieIsLive
    /\ AtStart
    /\ MeIsBooting
    /\ UserHasToken

-----------------------------------------------------------------------------
(* Requests under way *)

\* What a request is made of.
LEMMA PostFields ==
  ASSUME NEW p \in Post
  PROVE  /\ p = [tab |-> p.tab, kind |-> p.kind, stage |-> p.stage, token |-> p.token]
         /\ p.tab \in Tabs \union {None}
         /\ p.kind \in Kinds
         /\ p.stage \in {"accepted", "granted", "refused"}
         /\ p.token \in Cookies
         /\ p.kind = "refresh" /\ p.stage # "refused" => p.token \in Tokens
         /\ p.kind = "logout" => p.stage \in {"accepted", "granted"}
         /\ p.stage = "refused" => p.token = None
BY DEF Post, PostsOf, Kinds, Cookies

LEMMA RefreshPost ==
  ASSUME NEW t \in Tabs \union {None}, NEW n \in Tokens
  PROVE  /\ [tab |-> t, kind |-> "refresh", stage |-> "accepted", token |-> n] \in Post
         /\ [tab |-> t, kind |-> "refresh", stage |-> "granted", token |-> n] \in Post
         /\ [tab |-> t, kind |-> "refresh", stage |-> "refused", token |-> None] \in Post
BY DEF Post, PostsOf

LEMMA LogoutPost ==
  ASSUME NEW t \in Tabs \union {None}, NEW n \in Cookies
  PROVE  /\ [tab |-> t, kind |-> "logout", stage |-> "accepted", token |-> n] \in Post
         /\ [tab |-> t, kind |-> "logout", stage |-> "granted", token |-> None] \in Post
BY DEF Post, PostsOf

\* A refresh as it is sent.
LEMMA SentFields ==
  ASSUME TypeOK, NEW t \in Tabs
  PROVE  /\ Sent(t) \in Post
         /\ Sent(t).tab = t /\ Sent(t).kind = "refresh"
         /\ \/ Sent(t).stage = "accepted" /\ Sent(t).token = cookie /\ cookie \in live
            \/ Sent(t).stage = "refused" /\ Sent(t).token = None /\ cookie \notin live
<1>1. CASE cookie \in live
  <2>1. cookie \in Tokens
    BY <1>1 DEF TypeOK
  <2>2. Sent(t) = [tab |-> t, kind |-> "refresh", stage |-> "accepted", token |-> cookie]
    BY <1>1 DEF Sent
  <2>3. Sent(t) \in Post
    BY <2>1, <2>2 DEF Post, PostsOf
  <2> QED BY <1>1, <2>2, <2>3
<1>2. CASE cookie \notin live
  <2>1. Sent(t) = [tab |-> t, kind |-> "refresh", stage |-> "refused", token |-> None]
    BY <1>2 DEF Sent
  <2>2. Sent(t) \in Post
    BY <2>1 DEF Post, PostsOf
  <2> QED BY <1>2, <2>1, <2>2
<1> QED BY <1>1, <1>2

\* The orphans of a request.
LEMMA OrphanFields ==
  ASSUME NEW p \in Post, NEW q \in Orphaned(p)
  PROVE  /\ q \in Post
         /\ q.tab = None /\ q.kind = p.kind /\ q.stage = "accepted" /\ q.token = p.token
<1>1. p.stage = "accepted" /\ q = [p EXCEPT !.tab = None]
  BY DEF Orphaned
<1>2. q = [tab |-> None, kind |-> p.kind, stage |-> "accepted", token |-> p.token]
  BY <1>1, PostFields
<1>3. CASE p.kind = "refresh"
  <2>1. p.token \in Tokens
    BY <1>1, <1>3, PostFields
  <2> QED BY <1>2, <1>3, <2>1, RefreshPost
<1>4. CASE p.kind = "logout"
  <2>1. p.token \in Cookies
    BY PostFields
  <2> QED BY <1>2, <1>4, <2>1, LogoutPost
<1> QED BY <1>3, <1>4, PostFields DEF Kinds

-----------------------------------------------------------------------------
(* What steps have in common *)

\* One call goes on, the others stay.
LEMMA CallUpdate ==
  ASSUME TypeOK, NEW t \in Tabs, NEW c \in Calls, NEW new \in Call,
         call' = [call EXCEPT ![<<t, c>>] = new]
  PROVE  /\ call' \in [Tabs \X Calls -> Call]
         /\ \A u \in Tabs, d \in Calls :
               call'[<<u, d>>] = IF u = t /\ d = c THEN new ELSE call[<<u, d>>]
BY DEF TypeOK

LEMMA CallType ==
  ASSUME TypeOK, NEW t \in Tabs, NEW c \in Calls
  PROVE  /\ call[<<t, c>>] \in Call
         /\ call[<<t, c>>].pc \in {"idle", "sent", "waiting", "replayed"}
         /\ call[<<t, c>>].fresh \in BOOLEAN
<1>1. call[<<t, c>>] \in Call
  BY DEF TypeOK
<1> QED BY <1>1 DEF Call

\* All calls of a tab go on at once.
LEMMA CallsOfRejected ==
  ASSUME TypeOK, NEW t \in Tabs
  PROVE  /\ CallsOf(t, Rejected) \in [Tabs \X Calls -> Call]
         /\ \A u \in Tabs, d \in Calls : CallsOf(t, Rejected)[<<u, d>>] =
               IF u = t /\ call[<<u, d>>].pc = "waiting" THEN Quiet ELSE call[<<u, d>>]
BY DEF TypeOK, CallsOf, Rejected, Quiet, Call

LEMMA CallsOfReplayed ==
  ASSUME TypeOK, NEW t \in Tabs
  PROVE  /\ CallsOf(t, Replayed) \in [Tabs \X Calls -> Call]
         /\ \A u \in Tabs, d \in Calls : CallsOf(t, Replayed)[<<u, d>>] =
               IF u = t /\ call[<<u, d>>].pc = "waiting" THEN [pc |-> "replayed", fresh |-> TRUE]
                                                     ELSE call[<<u, d>>]
BY DEF TypeOK, CallsOf, Replayed, Call

LEMMA CallsOfAged ==
  ASSUME TypeOK, NEW t \in Tabs
  PROVE  /\ CallsOf(t, Aged) \in [Tabs \X Calls -> Call]
         /\ \A u \in Tabs, d \in Calls : CallsOf(t, Aged)[<<u, d>>].pc = call[<<u, d>>].pc
<1>1. ASSUME NEW c \in Call PROVE Aged(c) \in Call /\ Aged(c).pc = c.pc
  BY <1>1 DEF Aged, Call
<1> QED BY <1>1 DEF TypeOK, CallsOf

\* Requests, cookie and tokens that stay as they are.
LEMMA SessionUnchanged ==
  ASSUME OneRefreshPerTab, NoOrphans, FreshAnswers, CookieIsLive,
         UNCHANGED <<cookie, live, posts>>, faults' = faults \/ faults' # 0
  PROVE  OneRefreshPerTab' /\ NoOrphans' /\ FreshAnswers' /\ CookieIsLive'
BY DEF OneRefreshPerTab, NoOrphans, FreshAnswers, CookieIsLive

\* A refresh is joined or sent.
LEMMA RefreshStep ==
  ASSUME IInv, NEW t \in Tabs, Refresh(t), UNCHANGED <<cookie, live, faults>>
  PROVE  /\ posts' \subseteq Post
         /\ OneRefreshPerTab' /\ NoOrphans' /\ FreshAnswers' /\ CookieIsLive'
         /\ InFlight(t)'
         /\ \A u \in Tabs : InFlight(u) => InFlight(u)'
         /\ \A u \in Tabs \ {t} : Own(u)' = Own(u)
         /\ \A p \in posts' \ posts : p = Sent(t) /\ ~ InFlight(t)
<1>1. CASE InFlight(t)
  <2>1. posts' = posts
    BY <1>1 DEF Refresh
  <2>2. OneRefreshPerTab' /\ NoOrphans' /\ FreshAnswers' /\ CookieIsLive'
    BY <2>1, SessionUnchanged DEF IInv
  <2> QED
    BY <1>1, <2>1, <2>2 DEF IInv, TypeOK, InFlight, Underway, Own
<1>2. CASE ~ InFlight(t)
  <2>1. posts' = posts \union {Sent(t)}
    BY <1>2 DEF Refresh
  <2>2. /\ Sent(t) \in Post
        /\ Sent(t).tab = t /\ Sent(t).kind = "refresh"
        /\ \/ Sent(t).stage = "accepted" /\ Sent(t).token = cookie /\ cookie \in live
           \/ Sent(t).stage = "refused" /\ Sent(t).token = None /\ cookie \notin live
    BY SentFields DEF IInv
  <2> HIDE DEF Sent
  <2>3. OneRefreshPerTab'
    BY <1>2, <2>1, <2>2 DEF IInv, OneRefreshPerTab, InFlight, Underway, Own
  <2>4. NoOrphans'
    BY <2>1, <2>2, ConstantsAssumption DEF IInv, NoOrphans
  <2>5. FreshAnswers'
    <3> SUFFICES ASSUME faults = 0, NEW p \in posts', p.kind = "refresh", p.stage = "granted"
                 PROVE  /\ p.token \in live' /\ p.token # cookie'
                        /\ \A q \in posts' : q.token = p.token => q = p
      BY DEF FreshAnswers
    <3>1. p \in posts /\ p \in Post
      BY <2>1, <2>2 DEF IInv, TypeOK
    <3>2. p.token \in Tokens
      BY <3>1, PostFields
    <3>3. p.token \in live /\ p.token # cookie /\ \A q \in posts : q.token = p.token => q = p
      BY <3>1 DEF IInv, FreshAnswers
    <3> QED
      BY <2>1, <2>2, <3>2, <3>3, ConstantsAssumption
  <2>6. CookieIsLive'
    BY <2>1 DEF IInv, CookieIsLive
  <2> QED
    BY <1>2, <2>1, <2>2, <2>3, <2>4, <2>5, <2>6
    DEF IInv, TypeOK, InFlight, Underway, Own
<1> QED BY <1>1, <1>2

\* An answer that leaves the cookie as it is has come in.
LEMMA Removal ==
  ASSUME IInv, NEW p \in posts, posts' = posts \ {p}, UNCHANGED <<cookie, faults>>, Forget,
         faults = 0 => p.stage # "granted"
  PROVE  /\ posts' \subseteq Post /\ live' \subseteq Tokens
         /\ OneRefreshPerTab' /\ NoOrphans' /\ FreshAnswers' /\ CookieIsLive'
<1>1. posts' \subseteq Post /\ live' \subseteq Tokens
  BY DEF IInv, TypeOK, Forget
<1>2. OneRefreshPerTab' /\ NoOrphans'
  BY DEF IInv, OneRefreshPerTab, NoOrphans
<1>3. FreshAnswers'
  BY DEF IInv, FreshAnswers, Forget, Held
<1>4. CookieIsLive'
  BY DEF IInv, CookieIsLive, Forget, Held
<1> QED BY <1>1, <1>2, <1>3, <1>4

-----------------------------------------------------------------------------
(* The steps of a tab *)

LEMMA BootStep ==
  ASSUME IInv, NEW t \in Tabs, Boot(t)
  PROVE  IInv'
<1>1. /\ boot[t] = "start" /\ UNCHANGED <<cookie, hint, live, user, token, route, call, faults>>
      /\ \A u \in Tabs \ {t} : boot'[u] = boot[u]
      /\ boot' \in [Tabs -> {"start", "refresh", "me", "done"}]
  BY DEF Boot, IInv, TypeOK
<1>2. /\ ~ user[t] /\ \A c \in Calls : call[<<t, c>>].pc = "idle"
  BY <1>1 DEF IInv, AtStart
<1>3. CASE hint
  <2>1. boot'[t] = "refresh" /\ Refresh(t)
    BY <1>3 DEF Boot, IInv, TypeOK
  <2>2. /\ posts' \subseteq Post
        /\ OneRefreshPerTab' /\ NoOrphans' /\ FreshAnswers' /\ CookieIsLive'
        /\ InFlight(t)'
        /\ \A u \in Tabs : InFlight(u) => InFlight(u)'
        /\ \A u \in Tabs \ {t} : Own(u)' = Own(u)
    BY <1>1, <2>1, RefreshStep
  <2>3. TypeOK'
    BY <1>1, <2>2 DEF IInv, TypeOK
  <2>4. NoLostWakeup'
    BY <1>1, <2>2 DEF IInv, NoLostWakeup, Waiting
  <2>5. AtStart'
    BY <1>1, <2>1, <2>2 DEF IInv, AtStart
  <2>6. MeIsBooting' /\ UserHasToken'
    BY <1>1, <1>2, <2>1, ConstantsAssumption DEF IInv, MeIsBooting, UserHasToken
  <2> QED BY <2>2, <2>3, <2>4, <2>5, <2>6 DEF IInv
<1>4. CASE ~ hint
  <2>1. boot'[t] = "done" /\ posts' = posts
    BY <1>4 DEF Boot, IInv, TypeOK
  <2>2. OneRefreshPerTab' /\ NoOrphans' /\ FreshAnswers' /\ CookieIsLive'
    BY <1>1, <2>1, SessionUnchanged DEF IInv
  <2>3. TypeOK'
    BY <1>1, <2>1 DEF IInv, TypeOK
  <2>4. NoLostWakeup'
    BY <1>1, <2>1 DEF IInv, NoLostWakeup, Waiting, InFlight, Underway, Own
  <2>5. AtStart'
    BY <1>1, <2>1 DEF IInv, AtStart, Own
  <2>6. MeIsBooting' /\ UserHasToken'
    BY <1>1, <1>2, <2>1, ConstantsAssumption DEF IInv, MeIsBooting, UserHasToken
  <2> QED BY <2>2, <2>3, <2>4, <2>5, <2>6 DEF IInv
<1> QED BY <1>3, <1>4

\* Only the screen changes, of a tab whose constructor has run.
LEMMA RouteStep ==
  ASSUME IInv, NEW t \in Tabs, boot[t] # "start",
         route' \in [Tabs -> {"loading", "login", "app"}],
         \A u \in Tabs \ {t} : route'[u] = route[u],
         UNCHANGED <<cookie, hint, live, posts, user, token, boot, call, faults>>
  PROVE  IInv'
<1>1. OneRefreshPerTab' /\ NoOrphans' /\ FreshAnswers' /\ CookieIsLive'
  BY SessionUnchanged DEF IInv
<1>2. TypeOK'
  BY DEF IInv, TypeOK
<1>3. NoLostWakeup' /\ MeIsBooting' /\ UserHasToken'
  BY DEF IInv, NoLostWakeup, MeIsBooting, UserHasToken, Waiting, InFlight, Underway, Own
<1>4. AtStart'
  BY DEF IInv, AtStart, Own
<1> QED BY <1>1, <1>2, <1>3, <1>4 DEF IInv

LEMMA GuardStep ==
  ASSUME IInv, NEW t \in Tabs, Guard(t) \/ Navigate(t)
  PROVE  IInv'
<1>1. boot[t] # "start"
  BY DEF Guard, Navigate, IInv, AtStart, TypeOK
<1>2. /\ route' \in [Tabs -> {"loading", "login", "app"}]
      /\ \A u \in Tabs \ {t} : route'[u] = route[u]
      /\ UNCHANGED <<cookie, hint, live, posts, user, token, boot, call, faults>>
  BY DEF Guard, Navigate, IInv, TypeOK
<1> QED BY <1>1, <1>2, RouteStep

\* A call goes on and nothing else changes.
LEMMA SendCallStep ==
  ASSUME IInv, NEW t \in Tabs, NEW c \in Calls, SendCall(t, c)
  PROVE  IInv'
<1> DEFINE new == [pc |-> "sent", fresh |-> token[t] = "fresh"]
<1>1. /\ route[t] = "app" /\ c # Me /\ call[<<t, c>>].pc = "idle"
      /\ call' = [call EXCEPT ![<<t, c>>] = new]
      /\ UNCHANGED <<cookie, hint, live, posts, user, token, boot, route, faults>>
  BY DEF SendCall
<1>2. new \in Call /\ new.pc = "sent"
  BY DEF Call
<1> HIDE DEF new
<1>3. /\ call' \in [Tabs \X Calls -> Call]
      /\ \A u \in Tabs, d \in Calls :
            call'[<<u, d>>] = IF u = t /\ d = c THEN new ELSE call[<<u, d>>]
  BY <1>1, <1>2, CallUpdate DEF IInv
<1>4. OneRefreshPerTab' /\ NoOrphans' /\ FreshAnswers' /\ CookieIsLive'
  BY <1>1, SessionUnchanged DEF IInv
<1>5. TypeOK'
  BY <1>1, <1>3 DEF IInv, TypeOK
<1>6. NoLostWakeup'
  <2> SUFFICES ASSUME NEW u \in Tabs, Waiting(u)' # {} \/ boot'[u] = "refresh"
               PROVE  InFlight(u)'
    BY DEF NoLostWakeup
  <2>1. InFlight(u)' = InFlight(u)
    BY <1>1 DEF InFlight, Underway, Own
  <2>2. Waiting(u)' \subseteq Waiting(u) /\ (boot'[u] = "refresh" => boot[u] = "refresh")
    BY <1>1, <1>2, <1>3 DEF Waiting
  <2> QED BY <2>1, <2>2 DEF IInv, NoLostWakeup
<1>7. boot[t] # "start"
  BY <1>1 DEF IInv, AtStart
<1>8. AtStart'
  BY <1>1, <1>3, <1>7 DEF IInv, AtStart, Own
<1>9. MeIsBooting' /\ UserHasToken'
  BY <1>1, <1>3, ConstantsAssumption DEF IInv, MeIsBooting, UserHasToken
<1> QED BY <1>4, <1>5, <1>6, <1>8, <1>9 DEF IInv

LEMMA UnauthorizedStep ==
  ASSUME IInv, NEW t \in Tabs, NEW c \in Calls, Unauthorized(t, c)
  PROVE  IInv'
<1> DEFINE new == [pc |-> "waiting", fresh |-> call[<<t, c>>].fresh]
<1>1. /\ call[<<t, c>>].pc = "sent" /\ Refresh(t)
      /\ call' = [call EXCEPT ![<<t, c>>].pc = "waiting"]
      /\ UNCHANGED <<cookie, hint, live, user, token, boot, route, faults>>
  BY DEF Unauthorized
<1>2. new \in Call /\ new.pc = "waiting"
  BY CallType DEF IInv, Call
<1>3. call' = [call EXCEPT ![<<t, c>>] = new]
  <2>1. [call[<<t, c>>] EXCEPT !.pc = "waiting"] = new
    BY CallType DEF IInv, Call
  <2> QED BY <1>1, <2>1
<1> HIDE DEF new
<1>4. /\ call' \in [Tabs \X Calls -> Call]
      /\ \A u \in Tabs, d \in Calls :
            call'[<<u, d>>] = IF u = t /\ d = c THEN new ELSE call[<<u, d>>]
  BY <1>2, <1>3, CallUpdate DEF IInv
<1>5. /\ posts' \subseteq Post
      /\ OneRefreshPerTab' /\ NoOrphans' /\ FreshAnswers' /\ CookieIsLive'
      /\ InFlight(t)'
      /\ \A u \in Tabs : InFlight(u) => InFlight(u)'
      /\ \A u \in Tabs \ {t} : Own(u)' = Own(u)
  BY <1>1, RefreshStep
<1>6. TypeOK'
  BY <1>1, <1>4, <1>5 DEF IInv, TypeOK
<1>7. NoLostWakeup'
  BY <1>1, <1>2, <1>4, <1>5 DEF IInv, NoLostWakeup, Waiting
<1>8. boot[t] # "start"
  BY <1>1 DEF IInv, AtStart
<1>9. AtStart'
  BY <1>1, <1>4, <1>5, <1>8 DEF IInv, AtStart
<1>10. MeIsBooting' /\ UserHasToken'
  BY <1>1, <1>2, <1>4, ConstantsAssumption DEF IInv, MeIsBooting, UserHasToken
<1> QED BY <1>5, <1>6, <1>7, <1>9, <1>10 DEF IInv

LEMMA AnsweredStep ==
  ASSUME IInv, NEW t \in Tabs, NEW c \in Calls, Answered(t, c)
  PROVE  IInv'
<1>1. /\ call[<<t, c>>].pc \in {"sent", "replayed"}
      /\ call' = [call EXCEPT ![<<t, c>>] = Quiet]
      /\ UNCHANGED <<cookie, hint, live, posts, token, route, faults>>
  BY DEF Answered
<1>2. Quiet \in Call /\ Quiet.pc = "idle"
  BY DEF Call, Quiet
<1>3. /\ call' \in [Tabs \X Calls -> Call]
      /\ \A u \in Tabs, d \in Calls :
            call'[<<u, d>>] = IF u = t /\ d = c THEN Quiet ELSE call[<<u, d>>]
  BY <1>1, <1>2, CallUpdate DEF IInv
<1>4. /\ user' \in [Tabs -> BOOLEAN] /\ boot' \in [Tabs -> {"start", "refresh", "me", "done"}]
      /\ \A u \in Tabs \ {t} : user'[u] = user[u] /\ boot'[u] = boot[u]
      /\ c = Me => boot'[t] = "done"
      /\ c # Me => user'[t] = user[t] /\ boot'[t] = boot[t]
  BY DEF Answered, IInv, TypeOK
<1>5. OneRefreshPerTab' /\ NoOrphans' /\ FreshAnswers' /\ CookieIsLive'
  BY <1>1, SessionUnchanged DEF IInv
<1>6. TypeOK'
  BY <1>1, <1>3, <1>4 DEF IInv, TypeOK
<1>7. NoLostWakeup'
  <2> SUFFICES ASSUME NEW u \in Tabs, Waiting(u)' # {} \/ boot'[u] = "refresh"
               PROVE  InFlight(u)'
    BY DEF NoLostWakeup
  <2>1. InFlight(u)' = InFlight(u)
    BY <1>1 DEF InFlight, Underway, Own
  <2>2. Waiting(u)' \subseteq Waiting(u) /\ (boot'[u] = "refresh" => boot[u] = "refresh")
    BY <1>2, <1>3, <1>4 DEF Waiting
  <2> QED BY <2>1, <2>2 DEF IInv, NoLostWakeup
<1>8. boot[t] # "start"
  BY <1>1 DEF IInv, AtStart
<1>9. AtStart'
  BY <1>1, <1>3, <1>4, <1>8 DEF IInv, AtStart, Own
<1>10. MeIsBooting' /\ UserHasToken'
  BY <1>1, <1>2, <1>3, <1>4, ConstantsAssumption DEF IInv, MeIsBooting, UserHasToken
<1> QED BY <1>5, <1>6, <1>7, <1>9, <1>10 DEF IInv

\* A call ends with an error; restore() then ends signed out.
LEMMA FailStep ==
  ASSUME IInv, NEW t \in Tabs, NEW c \in Calls, Fail(t, c),
         call[<<t, c>>].pc \in {"sent", "replayed"},
         faults' \in 0 .. MaxFaults, faults' = faults \/ faults' # 0
  PROVE  IInv'
<1>1. /\ call' = [call EXCEPT ![<<t, c>>] = Quiet]
      /\ UNCHANGED <<cookie, hint, live, posts, route>>
  BY DEF Fail
<1>2. Quiet \in Call /\ Quiet.pc = "idle"
  BY DEF Call, Quiet
<1>3. /\ call' \in [Tabs \X Calls -> Call]
      /\ \A u \in Tabs, d \in Calls :
            call'[<<u, d>>] = IF u = t /\ d = c THEN Quiet ELSE call[<<u, d>>]
  BY <1>1, <1>2, CallUpdate DEF IInv
<1>4. /\ user' \in [Tabs -> BOOLEAN] /\ boot' \in [Tabs -> {"start", "refresh", "me", "done"}]
      /\ token' \in [Tabs -> {"none", "fresh", "stale"}]
      /\ \A u \in Tabs \ {t} : user'[u] = user[u] /\ boot'[u] = boot[u] /\ token'[u] = token[u]
      /\ c = Me => boot'[t] = "done"
      /\ c # Me => user'[t] = user[t] /\ boot'[t] = boot[t] /\ token'[t] = token[t]
  BY DEF Fail, SignOut, IInv, TypeOK
<1>5. OneRefreshPerTab' /\ NoOrphans' /\ FreshAnswers' /\ CookieIsLive'
  BY <1>1, SessionUnchanged DEF IInv
<1>6. TypeOK'
  BY <1>1, <1>3, <1>4 DEF IInv, TypeOK
<1>7. NoLostWakeup'
  <2> SUFFICES ASSUME NEW u \in Tabs, Waiting(u)' # {} \/ boot'[u] = "refresh"
               PROVE  InFlight(u)'
    BY DEF NoLostWakeup
  <2>1. InFlight(u)' = InFlight(u)
    BY <1>1 DEF InFlight, Underway, Own
  <2>2. Waiting(u)' \subseteq Waiting(u) /\ (boot'[u] = "refresh" => boot[u] = "refresh")
    BY <1>2, <1>3, <1>4 DEF Waiting
  <2> QED BY <2>1, <2>2 DEF IInv, NoLostWakeup
<1>8. boot[t] # "start"
  BY DEF IInv, AtStart
<1>9. AtStart'
  BY <1>1, <1>3, <1>4, <1>8 DEF IInv, AtStart, Own
<1>10. MeIsBooting' /\ UserHasToken'
  BY <1>1, <1>2, <1>3, <1>4, ConstantsAssumption DEF IInv, MeIsBooting, UserHasToken
<1> QED BY <1>5, <1>6, <1>7, <1>9, <1>10 DEF IInv

LEMMA ReplayRefusedStep ==
  ASSUME IInv, NEW t \in Tabs, NEW c \in Calls, ReplayRefused(t, c)
  PROVE  IInv'
BY FailStep DEF ReplayRefused, IInv, TypeOK

LEMMA CallFailsStep ==
  ASSUME IInv, NEW t \in Tabs, NEW c \in Calls, CallFails(t, c)
  PROVE  IInv'
<1>1. faults' \in 0 .. MaxFaults /\ faults' # 0
  BY ConstantsAssumption DEF CallFails, IInv, TypeOK
<1> QED BY <1>1, FailStep DEF CallFails

LEMMA AccessExpiresStep ==
  ASSUME IInv, NEW t \in Tabs, AccessExpires(t)
  PROVE  IInv'
<1>1. /\ call' \in [Tabs \X Calls -> Call]
      /\ \A u \in Tabs, d \in Calls : call'[<<u, d>>].pc = call[<<u, d>>].pc
  BY CallsOfAged DEF IInv, AccessExpires
<1>2. /\ token[t] = "fresh" /\ token' = [token EXCEPT ![t] = "stale"]
      /\ UNCHANGED <<cookie, hint, live, posts, user, boot, route, faults>>
  BY DEF AccessExpires
<1>3. OneRefreshPerTab' /\ NoOrphans' /\ FreshAnswers' /\ CookieIsLive'
  BY <1>2, SessionUnchanged DEF IInv
<1>4. TypeOK'
  BY <1>1, <1>2 DEF IInv, TypeOK
<1>5. NoLostWakeup'
  <2> SUFFICES ASSUME NEW u \in Tabs, Waiting(u)' # {} \/ boot'[u] = "refresh"
               PROVE  InFlight(u)'
    BY DEF NoLostWakeup
  <2>1. InFlight(u)' = InFlight(u)
    BY <1>2 DEF InFlight, Underway, Own
  <2>2. Waiting(u)' = Waiting(u)
    BY <1>1 DEF Waiting
  <2> QED BY <1>2, <2>1, <2>2 DEF IInv, NoLostWakeup
<1>6. AtStart'
  BY <1>1, <1>2 DEF IInv, AtStart, Own, TypeOK
<1>7. MeIsBooting' /\ UserHasToken'
  BY <1>1, <1>2, ConstantsAssumption DEF IInv, MeIsBooting, UserHasToken, TypeOK
<1> QED BY <1>3, <1>4, <1>5, <1>6, <1>7 DEF IInv

LEMMA LoginStep ==
  ASSUME IInv, NEW t \in Tabs, Login(t)
  PROVE  IInv'
<1>1. /\ route[t] = "login" /\ hint' = TRUE
      /\ user' = [user EXCEPT ![t] = TRUE] /\ token' = [token EXCEPT ![t] = "fresh"]
      /\ route' = [route EXCEPT ![t] = "app"]
      /\ UNCHANGED <<posts, boot, call, faults>>
  BY DEF Login
<1>2. /\ cookie' \in Tokens /\ cookie' # cookie /\ \A p \in posts : p.token # cookie'
      /\ live' = (live \union {cookie'}) \intersect Held'
  BY DEF Login, Unissued, Held
<1>3. live' \subseteq Tokens /\ cookie' \in live' /\ \A p \in posts : p.token \in live => p.token \in live'
  BY <1>1, <1>2 DEF IInv, TypeOK, Held
<1>4. TypeOK'
  BY <1>1, <1>2, <1>3 DEF IInv, TypeOK, Cookies
<1>5. OneRefreshPerTab' /\ NoOrphans'
  BY <1>1 DEF IInv, OneRefreshPerTab, NoOrphans
<1>6. FreshAnswers' /\ CookieIsLive'
  BY <1>1, <1>2, <1>3 DEF IInv, FreshAnswers, CookieIsLive
<1>7. boot[t] # "start"
  BY <1>1 DEF IInv, AtStart
<1>8. NoLostWakeup' /\ MeIsBooting'
  BY <1>1 DEF IInv, NoLostWakeup, MeIsBooting, Waiting, InFlight, Underway, Own
<1>9. AtStart' /\ UserHasToken'
  BY <1>1, <1>7 DEF IInv, TypeOK, AtStart, UserHasToken, Own
<1> QED BY <1>4, <1>5, <1>6, <1>8, <1>9 DEF IInv

LEMMA StartLogoutStep ==
  ASSUME IInv, NEW t \in Tabs, StartLogout(t)
  PROVE  IInv'
<1> DEFINE new == [tab |-> t, kind |-> "logout", token |-> cookie, stage |-> "accepted"]
<1>1. /\ route[t] = "app" /\ posts' = posts \union {new}
      /\ UNCHANGED <<cookie, hint, live, user, token, boot, route, call, faults>>
  BY DEF StartLogout, page
<1>2. new \in Post /\ new.tab = t /\ new.kind = "logout" /\ new.token = cookie /\ new.stage = "accepted"
  BY DEF Post, PostsOf, IInv, TypeOK
<1> HIDE DEF new
<1>3. TypeOK'
  BY <1>1, <1>2 DEF IInv, TypeOK
<1>4. OneRefreshPerTab' /\ NoOrphans'
  BY <1>1, <1>2, ConstantsAssumption DEF IInv, OneRefreshPerTab, NoOrphans
<1>5. FreshAnswers' /\ CookieIsLive'
  BY <1>1, <1>2 DEF IInv, FreshAnswers, CookieIsLive
<1>6. boot[t] # "start"
  BY <1>1 DEF IInv, AtStart
<1>7. /\ \A u \in Tabs : InFlight(u) => InFlight(u)'
      /\ \A u \in Tabs \ {t} : Own(u)' = Own(u)
  BY <1>1, <1>2 DEF InFlight, Underway, Own
<1>8. NoLostWakeup' /\ AtStart' /\ MeIsBooting' /\ UserHasToken'
  BY <1>1, <1>6, <1>7 DEF IInv, NoLostWakeup, AtStart, MeIsBooting, UserHasToken, Waiting
<1> QED BY <1>3, <1>4, <1>5, <1>8 DEF IInv

LEMMA ReloadStep ==
  ASSUME IInv, NEW t \in Tabs, Reload(t)
  PROVE  IInv'
<1>1. /\ boot[t] = "done" /\ Forget /\ hint' = hint
      /\ user' = [user EXCEPT ![t] = FALSE] /\ token' = [token EXCEPT ![t] = "none"]
      /\ boot' = [boot EXCEPT ![t] = "start"] /\ route' = [route EXCEPT ![t] = "loading"]
      /\ call' = [tc \in Tabs \X Calls |-> IF tc[1] = t THEN Quiet ELSE call[tc]]
      /\ cookie' \in {cookie} \union {p.token : p \in {q \in Own(t) : q.stage = "granted"}}
      /\ posts' = (posts \ Own(t)) \union UNION {Orphaned(p) : p \in Own(t)}
  BY DEF Reload
<1>2. faults' \in 0 .. MaxFaults /\ faults' # 0
  BY ConstantsAssumption DEF Reload, IInv, TypeOK
<1>3. \A q \in posts' \ posts : q \in Post /\ q.tab = None
  BY <1>1, OrphanFields DEF Own, IInv, TypeOK
<1>4. posts' \subseteq Post /\ Own(t)' = {} /\ \A u \in Tabs \ {t} : Own(u)' = Own(u)
  <2>1. \A q \in posts' : q \in (posts \ Own(t)) \/ (q \in Post /\ q.tab = None)
    BY <1>1, OrphanFields DEF Own, IInv, TypeOK
  <2>2. \A q \in posts : q \notin Own(t) => q \in posts'
    BY <1>1
  <2> QED BY <2>1, <2>2, ConstantsAssumption DEF Own, IInv, TypeOK
<1>5. cookie' \in Cookies /\ live' \subseteq Tokens
  BY <1>1, PostFields DEF Own, Forget, IInv, TypeOK
<1>6. Quiet \in Call /\ Quiet.pc = "idle"
  BY DEF Call, Quiet
<1>7. /\ call' \in [Tabs \X Calls -> Call]
      /\ \A u \in Tabs, d \in Calls : call'[<<u, d>>] = IF u = t THEN Quiet ELSE call[<<u, d>>]
  BY <1>1, <1>6 DEF IInv, TypeOK
<1>8. TypeOK'
  BY <1>1, <1>2, <1>4, <1>5, <1>7 DEF IInv, TypeOK
<1>9. OneRefreshPerTab'
  <2>1. \A q \in posts' : q.tab # None => q \in posts
    BY <1>3
  <2> QED BY <2>1 DEF IInv, OneRefreshPerTab
<1>10. NoOrphans' /\ FreshAnswers' /\ CookieIsLive'
  BY <1>2 DEF NoOrphans, FreshAnswers, CookieIsLive
<1>11. NoLostWakeup'
  <2> SUFFICES ASSUME NEW u \in Tabs, Waiting(u)' # {} \/ boot'[u] = "refresh"
               PROVE  InFlight(u)'
    BY DEF NoLostWakeup
  <2>1. u # t
    BY <1>1, <1>6, <1>7 DEF Waiting, IInv, TypeOK
  <2>2. Waiting(u)' = Waiting(u) /\ boot'[u] = boot[u] /\ Own(u)' = Own(u)
    BY <1>1, <1>4, <1>7, <2>1 DEF Waiting, IInv, TypeOK
  <2> QED BY <2>2 DEF IInv, NoLostWakeup, InFlight, Underway
<1>12. AtStart'
  BY <1>1, <1>4, <1>6, <1>7 DEF IInv, AtStart, TypeOK
<1>13. MeIsBooting' /\ UserHasToken'
  BY <1>1, <1>6, <1>7, ConstantsAssumption DEF IInv, MeIsBooting, UserHasToken, TypeOK
<1> QED BY <1>8, <1>9, <1>10, <1>11, <1>12, <1>13 DEF IInv

-----------------------------------------------------------------------------
(* The steps of the server *)

\* A request is answered: its tab and its kind stay, nothing in a tab changes.
LEMMA GrantedStep ==
  ASSUME IInv, NEW p \in posts, NEW q \in Post, p.stage = "accepted",
         q.tab = p.tab, q.kind = p.kind, q.stage = "granted",
         posts' = (posts \ {p}) \union {q},
         UNCHANGED <<cookie, hint, user, token, boot, route, call, faults>>
  PROVE  /\ posts' \subseteq Post /\ OneRefreshPerTab' /\ NoOrphans' /\ NoLostWakeup'
         /\ CookieIsLive' /\ AtStart' /\ MeIsBooting' /\ UserHasToken'
<1>1. posts' \subseteq Post
  BY DEF IInv, TypeOK
<1>2. OneRefreshPerTab' /\ NoOrphans'
  BY DEF IInv, OneRefreshPerTab, NoOrphans
<1>3. \A u \in Tabs : /\ InFlight(u) => InFlight(u)'
                      /\ Own(u) = {} => Own(u)' = {}
  BY DEF InFlight, Underway, Own
<1>4. NoLostWakeup'
  BY <1>3 DEF IInv, NoLostWakeup, Waiting
<1>5. CookieIsLive'
  BY DEF CookieIsLive
<1>6. AtStart' /\ MeIsBooting' /\ UserHasToken'
  BY <1>3 DEF IInv, AtStart, MeIsBooting, UserHasToken
<1> QED BY <1>1, <1>2, <1>4, <1>5, <1>6

LEMMA RotateStep ==
  ASSUME IInv, NEW p \in posts, Rotate(p)
  PROVE  IInv'
<1>1. PICK n \in Unissued : live' = (live \ {p.token}) \union {n} /\ Answer(p, n)
  BY DEF Rotate
<1>2. /\ p.kind = "refresh" /\ p.stage = "accepted"
      /\ UNCHANGED <<cookie, hint, user, token, boot, route, call, faults>>
  BY DEF Rotate, page
<1> DEFINE q == [tab |-> p.tab, kind |-> p.kind, stage |-> "granted", token |-> n]
<1>3. p \in Post
  BY DEF IInv, TypeOK
<1>4. n \in Tokens /\ n # cookie /\ \A r \in posts : r.token # n
  BY <1>1 DEF Unissued, Held
<1>5. q = [tab |-> p.tab, kind |-> "refresh", stage |-> "granted", token |-> n]
  BY <1>2
<1>6. q \in Post /\ q.tab = p.tab /\ q.kind = p.kind /\ q.stage = "granted" /\ q.token = n
  <2>1. p.tab \in Tabs \union {None}
    BY <1>3, PostFields
  <2> QED BY <1>2, <1>4, <1>5, <2>1 DEF Post, PostsOf
<1>7. posts' = (posts \ {p}) \union {q}
  BY <1>1 DEF Answer
<1> HIDE DEF q
<1>8. /\ posts' \subseteq Post /\ OneRefreshPerTab' /\ NoOrphans' /\ NoLostWakeup'
      /\ CookieIsLive' /\ AtStart' /\ MeIsBooting' /\ UserHasToken'
  BY <1>2, <1>6, <1>7, GrantedStep
<1>9. TypeOK'
  BY <1>1, <1>2, <1>4, <1>8 DEF IInv, TypeOK
<1>10. FreshAnswers'
  <2> SUFFICES ASSUME faults = 0, NEW r \in posts', r.kind = "refresh", r.stage = "granted"
               PROVE  /\ r.token \in live' /\ r.token # cookie'
                      /\ \A s \in posts' : s.token = r.token => s = r
    BY <1>2 DEF FreshAnswers
  <2>1. CASE r = q
    BY <1>1, <1>2, <1>4, <1>6, <1>7, <2>1
  <2>2. CASE r # q
    <3>1. r \in posts /\ r # p
      BY <1>7, <2>2
    <3>2. r.token \in live /\ r.token # cookie /\ \A s \in posts : s.token = r.token => s = r
      BY <3>1 DEF IInv, FreshAnswers
    <3> QED BY <1>1, <1>2, <1>4, <1>6, <1>7, <3>1, <3>2
  <2> QED BY <2>1, <2>2
<1> QED BY <1>8, <1>9, <1>10 DEF IInv

LEMMA RevokeOnLogoutStep ==
  ASSUME IInv, NEW p \in posts, RevokeOnLogout(p)
  PROVE  IInv'
<1>1. /\ p.kind = "logout" /\ p.stage = "accepted"
      /\ live' = live \ {p.token} /\ Answer(p, None)
      /\ UNCHANGED <<cookie, hint, user, token, boot, route, call, faults>>
  BY DEF RevokeOnLogout, page
<1> DEFINE q == [tab |-> p.tab, kind |-> p.kind, stage |-> "granted", token |-> None]
<1>2. p \in Post
  BY DEF IInv, TypeOK
<1>3. q = [tab |-> p.tab, kind |-> "logout", stage |-> "granted", token |-> None]
  BY <1>1
<1>4. q \in Post /\ q.tab = p.tab /\ q.kind = p.kind /\ q.stage = "granted" /\ q.token = None
  <2>1. p.tab \in Tabs \union {None}
    BY <1>2, PostFields
  <2> QED BY <1>1, <1>3, <2>1 DEF Post, PostsOf
<1>5. posts' = (posts \ {p}) \union {q}
  BY <1>1 DEF Answer
<1> HIDE DEF q
<1>6. /\ posts' \subseteq Post /\ OneRefreshPerTab' /\ NoOrphans' /\ NoLostWakeup'
      /\ CookieIsLive' /\ AtStart' /\ MeIsBooting' /\ UserHasToken'
  BY <1>1, <1>4, <1>5, GrantedStep
<1>7. TypeOK'
  BY <1>1, <1>6 DEF IInv, TypeOK
<1>8. FreshAnswers'
  <2> SUFFICES ASSUME faults = 0, NEW r \in posts', r.kind = "refresh", r.stage = "granted"
               PROVE  /\ r.token \in live' /\ r.token # cookie'
                      /\ \A s \in posts' : s.token = r.token => s = r
    BY <1>1 DEF FreshAnswers
  <2>1. r \in posts /\ r # p /\ r \in Post
    BY <1>1, <1>4, <1>5 DEF IInv, TypeOK
  <2>2. r.token \in live /\ r.token # cookie /\ \A s \in posts : s.token = r.token => s = r
    BY <2>1 DEF IInv, FreshAnswers
  <2>3. r.token # None
    BY <2>1, PostFields, ConstantsAssumption
  <2> QED BY <1>1, <1>4, <1>5, <2>1, <2>2, <2>3
<1> QED BY <1>6, <1>7, <1>8 DEF IInv

-----------------------------------------------------------------------------
(* The answers *)

\* A tab with a request under way is a tab whose constructor has run.
LEMMA Started ==
  ASSUME IInv, NEW p \in posts, p.tab # None
  PROVE  p \in Post /\ p.tab \in Tabs /\ boot[p.tab] # "start"
<1>1. p \in Post
  BY DEF IInv, TypeOK
<1>2. p.tab \in Tabs
  BY <1>1, PostFields
<1>3. p \in Own(p.tab)
  BY DEF Own
<1> QED BY <1>1, <1>2, <1>3 DEF IInv, AtStart

LEMMA RefreshGrantedStep ==
  ASSUME IInv, NEW p \in posts, RefreshGranted(p)
  PROVE  IInv'
<1> DEFINE t == p.tab
<1>1. /\ t # None /\ p.kind = "refresh" /\ p.stage = "granted"
      /\ posts' = posts \ {p} /\ cookie' = p.token /\ hint' = TRUE
      /\ token' = [token EXCEPT ![t] = "fresh"] /\ Resume(t) /\ Forget
      /\ UNCHANGED <<user, route, faults>>
  BY DEF RefreshGranted
<1>2. p \in Post /\ t \in Tabs /\ boot[t] # "start"
  BY <1>1, Started
<1>3. p.token \in Tokens
  BY <1>1, <1>2, PostFields
<1> HIDE DEF t
<1>4. /\ boot' \in [Tabs -> {"start", "refresh", "me", "done"}]
      /\ \A u \in Tabs \ {t} : boot'[u] = boot[u]
      /\ boot'[t] = IF boot[t] = "refresh" THEN "me" ELSE boot[t]
  BY <1>1, <1>2 DEF Resume, IInv, TypeOK
<1>5. /\ call' \in [Tabs \X Calls -> Call]
      /\ \A u \in Tabs \ {t}, d \in Calls : call'[<<u, d>>] = call[<<u, d>>]
      /\ \A d \in Calls : call'[<<t, d>>].pc # "waiting"
      /\ call'[<<t, Me>>].pc # "idle" <=> boot[t] = "refresh" \/ call[<<t, Me>>].pc # "idle"
  <2> DEFINE resumed == CallsOf(t, Replayed)
  <2>1. /\ resumed \in [Tabs \X Calls -> Call]
        /\ \A u \in Tabs, d \in Calls : resumed[<<u, d>>] =
              IF u = t /\ call[<<u, d>>].pc = "waiting" THEN [pc |-> "replayed", fresh |-> TRUE]
                                                        ELSE call[<<u, d>>]
    BY <1>2, CallsOfReplayed DEF IInv
  <2>2. call' = IF boot[t] = "refresh"
                THEN [resumed EXCEPT ![<<t, Me>>] = [pc |-> "sent", fresh |-> TRUE]]
                ELSE resumed
    BY <1>1 DEF Resume
  <2> HIDE DEF resumed
  <2>3. [pc |-> "sent", fresh |-> TRUE] \in Call
    BY DEF Call
  <2>4. CASE boot[t] = "refresh"
    BY <1>2, <2>1, <2>2, <2>3, <2>4, ConstantsAssumption
  <2>5. CASE boot[t] # "refresh"
    BY <1>2, <2>1, <2>2, <2>5, ConstantsAssumption
  <2> QED BY <2>4, <2>5
<1>6. live' \subseteq Tokens /\ posts' \subseteq Post
  BY <1>1 DEF IInv, TypeOK, Forget
<1>7. TypeOK'
  BY <1>1, <1>2, <1>3, <1>4, <1>5, <1>6 DEF IInv, TypeOK, Cookies
<1>8. OneRefreshPerTab' /\ NoOrphans'
  BY <1>1 DEF IInv, OneRefreshPerTab, NoOrphans
<1>9. FreshAnswers'
  BY <1>1 DEF IInv, FreshAnswers, Forget, Held
<1>10. CookieIsLive'
  BY <1>1 DEF IInv, CookieIsLive, FreshAnswers, Forget, Held
<1>11. \A u \in Tabs \ {t} : Own(u)' = Own(u)
  BY <1>1 DEF Own, t
<1>12. NoLostWakeup'
  <2> SUFFICES ASSUME NEW u \in Tabs, Waiting(u)' # {} \/ boot'[u] = "refresh"
               PROVE  InFlight(u)'
    BY DEF NoLostWakeup
  <2>1. u # t
    BY <1>2, <1>4, <1>5 DEF Waiting
  <2>2. Waiting(u)' = Waiting(u) /\ boot'[u] = boot[u]
    BY <1>4, <1>5, <2>1 DEF Waiting
  <2> QED BY <1>11, <2>1, <2>2 DEF IInv, NoLostWakeup, InFlight, Underway
<1>13. AtStart'
  BY <1>1, <1>2, <1>4, <1>5, <1>11 DEF IInv, AtStart, TypeOK
<1>14. MeIsBooting' /\ UserHasToken'
  BY <1>1, <1>2, <1>4, <1>5, ConstantsAssumption DEF IInv, MeIsBooting, UserHasToken, TypeOK
<1> QED BY <1>7, <1>8, <1>9, <1>10, <1>12, <1>13, <1>14 DEF IInv

\* A tab that leaves its session takes along whoever waited.
LEMMA LoseStep ==
  ASSUME IInv, NEW p \in posts, p.tab # None, Lose(p),
         \A u \in Tabs \ {p.tab} : Own(u)' = Own(u)
  PROVE  /\ hint' \in BOOLEAN /\ user' \in [Tabs -> BOOLEAN]
         /\ token' \in [Tabs -> {"none", "fresh", "stale"}]
         /\ boot' \in [Tabs -> {"start", "refresh", "me", "done"}]
         /\ route' \in [Tabs -> {"loading", "login", "app"}]
         /\ call' \in [Tabs \X Calls -> Call]
         /\ NoLostWakeup' /\ AtStart' /\ MeIsBooting' /\ UserHasToken'
<1> DEFINE t == p.tab
<1>1. p \in Post /\ t \in Tabs /\ boot[t] # "start"
  BY Started
<1>2. /\ call' = CallsOf(t, Rejected) /\ hint' = FALSE
      /\ user' = [user EXCEPT ![t] = FALSE] /\ token' = [token EXCEPT ![t] = "none"]
      /\ route' = [route EXCEPT ![t] = "login"]
      /\ boot' = [boot EXCEPT ![t] = IF @ = "refresh" \/ Me \in Waiting(t) THEN "done" ELSE @]
  BY DEF Lose, LeaveSession, SignOut
<1>3. \A u \in Tabs \ {t} : Own(u)' = Own(u)
  OBVIOUS
<1> HIDE DEF t
<1>4. /\ call' \in [Tabs \X Calls -> Call]
      /\ \A u \in Tabs, d \in Calls : call'[<<u, d>>] =
            IF u = t /\ call[<<u, d>>].pc = "waiting" THEN Quiet ELSE call[<<u, d>>]
  BY <1>1, <1>2, CallsOfRejected DEF IInv
<1>5. Quiet.pc = "idle"
  BY DEF Quiet
<1>6. /\ boot' \in [Tabs -> {"start", "refresh", "me", "done"}]
      /\ \A u \in Tabs \ {t} : boot'[u] = boot[u]
      /\ boot'[t] = IF boot[t] = "refresh" \/ call[<<t, Me>>].pc = "waiting" THEN "done" ELSE boot[t]
  BY <1>1, <1>2, ConstantsAssumption DEF IInv, TypeOK, Waiting
<1>7. /\ hint' \in BOOLEAN /\ user' \in [Tabs -> BOOLEAN]
      /\ token' \in [Tabs -> {"none", "fresh", "stale"}]
      /\ route' \in [Tabs -> {"loading", "login", "app"}]
  BY <1>2 DEF IInv, TypeOK
<1>8. NoLostWakeup'
  <2> SUFFICES ASSUME NEW u \in Tabs, Waiting(u)' # {} \/ boot'[u] = "refresh"
               PROVE  InFlight(u)'
    BY DEF NoLostWakeup
  <2>1. u # t
    BY <1>1, <1>4, <1>5, <1>6 DEF Waiting
  <2>2. Waiting(u)' = Waiting(u) /\ boot'[u] = boot[u]
    BY <1>4, <1>6, <2>1 DEF Waiting
  <2> QED BY <1>3, <2>1, <2>2 DEF IInv, NoLostWakeup, InFlight, Underway
<1>9. AtStart'
  BY <1>1, <1>2, <1>3, <1>4, <1>5, <1>6 DEF IInv, AtStart, TypeOK
<1>10. MeIsBooting'
  <2> SUFFICES ASSUME NEW u \in Tabs PROVE call'[<<u, Me>>].pc # "idle" <=> boot'[u] = "me"
    BY DEF MeIsBooting
  <2>1. call[<<u, Me>>].pc # "idle" <=> boot[u] = "me"
    BY DEF IInv, MeIsBooting
  <2>2. CASE u = t
    BY <1>4, <1>5, <1>6, <2>1, <2>2, ConstantsAssumption
  <2>3. CASE u # t
    BY <1>4, <1>6, <2>1, <2>3, ConstantsAssumption
  <2> QED BY <2>2, <2>3
<1>11. UserHasToken'
  <2> SUFFICES ASSUME NEW u \in Tabs, boot'[u] \in {"refresh", "me"}, user'[u]
               PROVE  token'[u] # "none"
    BY DEF UserHasToken
  <2>1. u # t
    BY <1>1, <1>2 DEF IInv, TypeOK
  <2> QED BY <1>2, <1>6, <2>1 DEF IInv, UserHasToken, TypeOK
<1> QED BY <1>4, <1>6, <1>7, <1>8, <1>9, <1>10, <1>11

LEMMA RefreshRefusedStep ==
  ASSUME IInv, NEW p \in posts, RefreshRefused(p)
  PROVE  IInv'
<1>1. /\ p.tab # None /\ p.stage = "refused" /\ posts' = posts \ {p}
      /\ UNCHANGED <<cookie, faults>> /\ Lose(p) /\ Forget
  BY DEF RefreshRefused
<1>2. /\ posts' \subseteq Post /\ live' \subseteq Tokens
      /\ OneRefreshPerTab' /\ NoOrphans' /\ FreshAnswers' /\ CookieIsLive'
  BY <1>1, Removal
<1>3. \A u \in Tabs \ {p.tab} : Own(u)' = Own(u)
  BY <1>1 DEF Own
<1> QED BY <1>1, <1>2, <1>3, LoseStep DEF IInv, TypeOK

\* A tab leaves its session at the end of a logout, and nobody waited for that.
LEMMA LeaveStep ==
  ASSUME IInv, NEW p \in posts, p.tab # None, p.kind = "logout", LeaveSession(p.tab),
         UNCHANGED <<boot, call>>,
         \A u \in Tabs : {q \in Own(u)' : q # p} = {q \in Own(u) : q # p}
  PROVE  /\ hint' \in BOOLEAN /\ user' \in [Tabs -> BOOLEAN]
         /\ token' \in [Tabs -> {"none", "fresh", "stale"}]
         /\ route' \in [Tabs -> {"loading", "login", "app"}]
         /\ NoLostWakeup' /\ AtStart' /\ MeIsBooting' /\ UserHasToken'
<1> DEFINE t == p.tab
<1>1. p \in Post /\ t \in Tabs /\ boot[t] # "start"
  BY Started
<1>2. /\ hint' = FALSE
      /\ user' = [user EXCEPT ![t] = FALSE] /\ token' = [token EXCEPT ![t] = "none"]
      /\ route' = [route EXCEPT ![t] = "login"]
  BY DEF LeaveSession, SignOut
<1>3. \A u \in Tabs : InFlight(u) => InFlight(u)'
  <2> SUFFICES ASSUME NEW u \in Tabs, NEW q \in Own(u), q.kind = "refresh"
               PROVE  InFlight(u)'
    BY DEF InFlight, Underway
  <2>1. q \in Own(u)'
    OBVIOUS
  <2> QED BY <2>1 DEF InFlight, Underway
<1>4. \A u \in Tabs \ {t} : Own(u) = {} => Own(u)' = {}
  <2> SUFFICES ASSUME NEW u \in Tabs \ {t}, NEW q \in Own(u)' PROVE Own(u) # {}
    OBVIOUS
  <2>1. q # p
    BY DEF Own
  <2> QED BY <2>1
<1> HIDE DEF t
<1>5. NoLostWakeup' /\ MeIsBooting'
  BY <1>3 DEF IInv, NoLostWakeup, MeIsBooting, Waiting
<1>6. AtStart' /\ UserHasToken'
  BY <1>1, <1>2, <1>4 DEF IInv, AtStart, UserHasToken, TypeOK
<1> QED BY <1>2, <1>5, <1>6 DEF IInv, TypeOK

LEMMA LogoutAnsweredStep ==
  ASSUME IInv, NEW p \in posts, LogoutAnswered(p)
  PROVE  IInv'
<1>1. /\ p.tab # None /\ p.kind = "logout" /\ posts' = posts \ {p} /\ cookie' = None
      /\ UNCHANGED <<boot, call, faults>> /\ LeaveSession(p.tab) /\ Forget
  BY DEF LogoutAnswered
<1>2. \A u \in Tabs : {q \in Own(u)' : q # p} = {q \in Own(u) : q # p}
  BY <1>1 DEF Own
<1>3. /\ hint' \in BOOLEAN /\ user' \in [Tabs -> BOOLEAN]
      /\ token' \in [Tabs -> {"none", "fresh", "stale"}]
      /\ route' \in [Tabs -> {"loading", "login", "app"}]
      /\ NoLostWakeup' /\ AtStart' /\ MeIsBooting' /\ UserHasToken'
  BY <1>1, <1>2, LeaveStep
<1>4. TypeOK'
  BY <1>1, <1>3 DEF IInv, TypeOK, Forget, Cookies
<1>5. OneRefreshPerTab' /\ NoOrphans' /\ CookieIsLive'
  BY <1>1, ConstantsAssumption DEF IInv, OneRefreshPerTab, NoOrphans, CookieIsLive
<1>6. FreshAnswers'
  <2> SUFFICES ASSUME faults = 0, NEW r \in posts', r.kind = "refresh", r.stage = "granted"
               PROVE  /\ r.token \in live' /\ r.token # cookie'
                      /\ \A s \in posts' : s.token = r.token => s = r
    BY <1>1 DEF FreshAnswers
  <2>1. r \in posts /\ r \in Post
    BY <1>1 DEF IInv, TypeOK
  <2>2. r.token # None
    BY <2>1, PostFields, ConstantsAssumption
  <2> QED BY <1>1, <2>1, <2>2 DEF IInv, FreshAnswers, Forget, Held
<1> QED BY <1>3, <1>4, <1>5, <1>6 DEF IInv

LEMMA DropAnswerStep ==
  ASSUME IInv, NEW p \in posts, DropAnswer(p)
  PROVE  IInv'
<1>1. /\ p.tab = None /\ posts' = posts \ {p} /\ Forget
      /\ UNCHANGED <<cookie, hint, user, token, boot, route, call, faults>>
  BY DEF DropAnswer, page
<1>2. faults # 0
  BY <1>1 DEF IInv, NoOrphans
<1>3. /\ posts' \subseteq Post /\ live' \subseteq Tokens
      /\ OneRefreshPerTab' /\ NoOrphans' /\ FreshAnswers' /\ CookieIsLive'
  BY <1>1, <1>2, Removal
<1>4. TypeOK'
  BY <1>1, <1>3 DEF IInv, TypeOK
<1>5. \A u \in Tabs : Own(u)' = Own(u)
  BY <1>1, ConstantsAssumption DEF Own
<1>6. NoLostWakeup' /\ AtStart' /\ MeIsBooting' /\ UserHasToken'
  BY <1>1, <1>5
  DEF IInv, NoLostWakeup, AtStart, MeIsBooting, UserHasToken, Waiting, InFlight, Underway
<1> QED BY <1>3, <1>4, <1>6 DEF IInv

LEMMA AnswerLostStep ==
  ASSUME IInv, NEW p \in posts, AnswerLost(p)
  PROVE  IInv'
<1>1. /\ p.tab # None /\ posts' = (posts \ {p}) \union Orphaned(p)
      /\ cookie' = cookie /\ Forget
  BY DEF AnswerLost
<1>2. faults' \in 0 .. MaxFaults /\ faults' # 0
  BY ConstantsAssumption DEF AnswerLost, IInv, TypeOK
<1>3. p \in Post
  BY DEF IInv, TypeOK
<1>4. \A q \in posts' : q \in (posts \ {p}) \/ (q \in Post /\ q.tab = None)
  BY <1>1, <1>3, OrphanFields
<1>5. posts' \subseteq Post /\ live' \subseteq Tokens
  BY <1>1, <1>4 DEF IInv, TypeOK, Forget
<1>6. OneRefreshPerTab' /\ NoOrphans' /\ FreshAnswers' /\ CookieIsLive'
  <2>1. OneRefreshPerTab'
    BY <1>4 DEF IInv, OneRefreshPerTab
  <2> QED BY <1>2, <2>1 DEF NoOrphans, FreshAnswers, CookieIsLive
<1>7. \A u \in Tabs : {q \in Own(u)' : q # p} = {q \in Own(u) : q # p}
  BY <1>1, <1>4, ConstantsAssumption DEF Own
<1>8. CASE p.kind = "refresh"
  <2>1. Lose(p)
    BY <1>8 DEF AnswerLost
  <2>2. \A u \in Tabs \ {p.tab} : Own(u)' = Own(u)
    BY <1>1, <1>4, ConstantsAssumption DEF Own
  <2>3. /\ hint' \in BOOLEAN /\ user' \in [Tabs -> BOOLEAN]
        /\ token' \in [Tabs -> {"none", "fresh", "stale"}]
        /\ boot' \in [Tabs -> {"start", "refresh", "me", "done"}]
        /\ route' \in [Tabs -> {"loading", "login", "app"}]
        /\ call' \in [Tabs \X Calls -> Call]
        /\ NoLostWakeup' /\ AtStart' /\ MeIsBooting' /\ UserHasToken'
    BY <1>1, <2>1, <2>2, LoseStep
  <2>4. TypeOK'
    BY <1>1, <1>2, <1>5, <2>3 DEF IInv, TypeOK
  <2> QED BY <1>6, <2>3, <2>4 DEF IInv
<1>9. CASE p.kind = "logout"
  <2>1. LeaveSession(p.tab) /\ UNCHANGED <<boot, call>>
    BY <1>9 DEF AnswerLost
  <2>2. /\ hint' \in BOOLEAN /\ user' \in [Tabs -> BOOLEAN]
        /\ token' \in [Tabs -> {"none", "fresh", "stale"}]
        /\ route' \in [Tabs -> {"loading", "login", "app"}]
        /\ NoLostWakeup' /\ AtStart' /\ MeIsBooting' /\ UserHasToken'
    BY <1>1, <1>7, <1>9, <2>1, LeaveStep
  <2>3. TypeOK'
    BY <1>1, <1>2, <1>5, <2>1, <2>2 DEF IInv, TypeOK
  <2> QED BY <1>6, <2>2, <2>3 DEF IInv
<1> QED BY <1>3, <1>8, <1>9, PostFields DEF Kinds

-----------------------------------------------------------------------------
(* The invariant *)

LEMMA InitIInv == Init => IInv
<1> SUFFICES ASSUME Init PROVE IInv
  OBVIOUS
<1>1. Quiet \in Call /\ Quiet.pc = "idle"
  BY DEF Quiet, Call
<1>2. TypeOK
  <2>1. cookie \in Cookies /\ hint \in BOOLEAN /\ live \subseteq Tokens /\ posts \subseteq Post
    BY DEF Init, Cookies
  <2>2. /\ user \in [Tabs -> BOOLEAN] /\ token \in [Tabs -> {"none", "fresh", "stale"}]
        /\ boot \in [Tabs -> {"start", "refresh", "me", "done"}]
        /\ route \in [Tabs -> {"loading", "login", "app"}]
    BY DEF Init
  <2>3. call \in [Tabs \X Calls -> Call]
    BY <1>1 DEF Init
  <2>4. faults \in 0 .. MaxFaults
    BY ConstantsAssumption DEF Init
  <2> QED BY <2>1, <2>2, <2>3, <2>4 DEF TypeOK
<1>3. /\ OneRefreshPerTab /\ NoOrphans /\ FreshAnswers /\ UserHasToken
  BY DEF Init, OneRefreshPerTab, NoOrphans, FreshAnswers, UserHasToken
<1>4. CookieIsLive
  BY ConstantsAssumption DEF Init, CookieIsLive
<1>5. NoLostWakeup /\ AtStart /\ MeIsBooting
  BY <1>1, ConstantsAssumption DEF Init, NoLostWakeup, AtStart, MeIsBooting, Waiting, Own
<1> QED BY <1>2, <1>3, <1>4, <1>5 DEF IInv

LEMMA StutterStep ==
  ASSUME IInv, UNCHANGED vars
  PROVE  IInv'
<1>1. UNCHANGED <<cookie, hint, live, posts, user, token, boot, route, call, faults>>
  BY DEF vars, page
<1>2. OneRefreshPerTab' /\ NoOrphans' /\ FreshAnswers' /\ CookieIsLive'
  BY <1>1, SessionUnchanged DEF IInv
<1>3. TypeOK'
  BY <1>1 DEF IInv, TypeOK
<1>4. \A u \in Tabs : Own(u)' = Own(u) /\ Waiting(u)' = Waiting(u)
  BY <1>1 DEF Own, Waiting
<1>5. NoLostWakeup' /\ MeIsBooting' /\ UserHasToken'
  BY <1>1, <1>4 DEF IInv, NoLostWakeup, MeIsBooting, UserHasToken, InFlight, Underway
<1>6. AtStart'
  BY <1>1, <1>4 DEF IInv, AtStart
<1> QED BY <1>2, <1>3, <1>5, <1>6 DEF IInv

LEMMA NextIInv == IInv /\ [Next]_vars => IInv'
<1> SUFFICES ASSUME IInv, [Next]_vars PROVE IInv'
  OBVIOUS
<1>1. ASSUME NEW t \in Tabs, Boot(t) \/ Guard(t) PROVE IInv'
  BY <1>1, BootStep, GuardStep
<1>2. ASSUME NEW t \in Tabs, Visitor(t) PROVE IInv'
  BY <1>2, GuardStep, LoginStep, StartLogoutStep, ReloadStep, AccessExpiresStep,
     SendCallStep, CallFailsStep DEF Visitor
<1>3. ASSUME NEW t \in Tabs, NEW c \in Calls, CallStep(t, c) PROVE IInv'
  BY <1>3, UnauthorizedStep, AnsweredStep, ReplayRefusedStep DEF CallStep
<1>4. ASSUME NEW p \in posts, ServerStep(p) PROVE IInv'
  BY <1>4, RotateStep, RevokeOnLogoutStep DEF ServerStep
<1>5. ASSUME NEW p \in posts, AnswerStep(p) PROVE IInv'
  BY <1>5, RefreshGrantedStep, RefreshRefusedStep, LogoutAnsweredStep, DropAnswerStep
  DEF AnswerStep
<1>6. ASSUME NEW p \in posts, AnswerLost(p) PROVE IInv'
  BY <1>6, AnswerLostStep
<1>7. CASE UNCHANGED vars
  BY <1>7, StutterStep
<1> QED BY <1>1, <1>2, <1>3, <1>4, <1>5, <1>6, <1>7 DEF Next

\* Every reachable state of the browser satisfies the invariant; TypeOK is a part of it.
THEOREM BrowserInvariant == Spec => []IInv
BY InitIInv, NextIInv, PTL DEF Spec

\* SessionRefresher.refresh: whatever comes back with 401 and whenever, a tab has at
\* most one POST to /auth/refresh under way.
THEOREM SingleFlight == Spec => []OneRefreshPerTab
<1>1. IInv => OneRefreshPerTab
  BY DEF IInv
<1> QED BY <1>1, BrowserInvariant, PTL

\* authInterceptor and restore(): whoever waits for a refresh waits for one that is
\* under way, through reloads, lost answers and logouts.
THEOREM WaitersAreServed == Spec => []NoLostWakeup
<1>1. IInv => NoLostWakeup
  BY DEF IInv
<1> QED BY <1>1, BrowserInvariant, PTL

\* As long as no answer is lost, the cookie is a token the server still accepts, or
\* the answer that replaces it has been sent.
THEOREM CookieStaysAlive == Spec => []CookieIsLive
<1>1. IInv => CookieIsLive
  BY DEF IInv
<1> QED BY <1>1, BrowserInvariant, PTL

-----------------------------------------------------------------------------
(* Refusals *)

\* A refusal is decided when the refresh is sent: no other step brings a refused request.
LEMMA RefusalsAreSent ==
  ASSUME IInv, Next, faults = 0, NEW p \in posts' \ posts, p.stage = "refused"
  PROVE  /\ cookie \notin live
         /\ \E t \in Tabs : p = Sent(t) /\ ~ InFlight(t)
<1>1. ASSUME NEW t \in Tabs, Refresh(t), UNCHANGED <<cookie, live, faults>>
      PROVE  cookie \notin live /\ p = Sent(t) /\ ~ InFlight(t)
  <2>1. p = Sent(t) /\ ~ InFlight(t)
    BY <1>1, RefreshStep
  <2> QED BY <2>1, SentFields DEF IInv
<1>2. ASSUME NEW t \in Tabs, Boot(t)
      PROVE  cookie \notin live /\ p = Sent(t) /\ ~ InFlight(t)
  BY <1>1, <1>2 DEF Boot
<1>3. ASSUME NEW t \in Tabs, NEW c \in Calls, CallStep(t, c)
      PROVE  cookie \notin live /\ p = Sent(t) /\ ~ InFlight(t)
  BY <1>1, <1>3 DEF CallStep, Unauthorized, Answered, ReplayRefused, Fail
<1>4. ASSUME NEW q \in posts, q.stage = "accepted" PROVE p \notin Orphaned(q)
  BY OrphanFields DEF IInv, TypeOK
<1>5. ASSUME NEW t \in Tabs, Guard(t) \/ Visitor(t) PROVE FALSE
  <2>1. CASE Guard(t) \/ Navigate(t) \/ Login(t) \/ AccessExpires(t)
    BY <2>1 DEF Guard, Navigate, Login, AccessExpires
  <2>2. CASE StartLogout(t)
    BY <2>2 DEF StartLogout
  <2>3. CASE Reload(t)
    <3>1. PICK q \in posts : p \in Orphaned(q)
      BY <2>3 DEF Reload, Own
    <3> QED BY <1>4, <3>1 DEF Orphaned
  <2>4. CASE \E c \in Calls : SendCall(t, c) \/ CallFails(t, c)
    BY <2>4 DEF SendCall, CallFails, Fail
  <2> QED BY <1>5, <2>1, <2>2, <2>3, <2>4 DEF Visitor
<1>6. ASSUME NEW q \in posts, ServerStep(q) PROVE FALSE
  BY <1>6 DEF ServerStep, Rotate, RevokeOnLogout, Answer
<1>7. ASSUME NEW q \in posts, AnswerStep(q) PROVE FALSE
  BY <1>7 DEF AnswerStep, RefreshGranted, RefreshRefused, LogoutAnswered, DropAnswer
<1>8. ASSUME NEW q \in posts, AnswerLost(q) PROVE FALSE
  BY <1>4, <1>8 DEF AnswerLost, Orphaned
<1> QED BY <1>2, <1>3, <1>5, <1>6, <1>7, <1>8 DEF Next

\* The single flight keeps a tab out of its own way: a refresh is refused only to a
\* visitor without a session, or because a rotation or a logout of somebody else has
\* just used the token up.
THEOREM RefusalsHaveACause == Spec => RefusalHasCause
<1> DEFINE Cause == faults = 0 => \A p \in posts' \ posts : p.stage = "refused" =>
                       \/ cookie \in {None, Expired}
                       \/ \E o \in posts : o.stage = "granted"
                                         /\ <<o.tab, o.kind>> # <<p.tab, "refresh">>
<1>1. IInv /\ [Next]_vars => [Cause]_vars
  <2> SUFFICES ASSUME IInv, Next, faults = 0, NEW p \in posts' \ posts, p.stage = "refused",
                      cookie \notin {None, Expired}
               PROVE  \E o \in posts : o.stage = "granted"
                                      /\ <<o.tab, o.kind>> # <<p.tab, "refresh">>
    BY DEF vars
  <2>1. cookie \notin live
    BY RefusalsAreSent
  <2>2. PICK t \in Tabs : p = Sent(t) /\ ~ InFlight(t)
    BY RefusalsAreSent
  <2>3. p.tab = t
    BY <2>2, SentFields DEF IInv
  <2>4. cookie \in Tokens \ live
    BY <2>1 DEF IInv, TypeOK, Cookies
  <2>5. PICK o \in posts : o.stage = "granted"
    BY <2>4 DEF IInv, CookieIsLive
  <2>6. ~ (o.tab = t /\ o.kind = "refresh")
    BY <2>2 DEF InFlight, Underway, Own
  <2> QED BY <2>3, <2>5, <2>6
<1>2. [][Cause]_vars => RefusalHasCause
  BY DEF RefusalHasCause
<1> HIDE DEF Cause
<1> QED BY <1>1, <1>2, BrowserInvariant, PTL DEF Spec

-----------------------------------------------------------------------------
(* Half sessions *)

\* A tab that is signed out has no half of a session.
LEMMA SignedOutIsWhole ==
  ASSUME TypeOK, NEW t \in Tabs, NEW u \in Tabs, SignOut(u), boot'[t] = boot[t] \/ t = u,
         Whole(t)
  PROVE  Whole(t)'
<1>1. user' = [user EXCEPT ![u] = FALSE] /\ token' = [token EXCEPT ![u] = "none"]
  BY DEF SignOut
<1>2. CASE t = u
  BY <1>1, <1>2 DEF TypeOK, Whole
<1>3. CASE t # u
  BY <1>1, <1>3 DEF TypeOK, Whole
<1> QED BY <1>2, <1>3

\* The steps of tab u itself.
LEMMA TabKeepsHalves ==
  ASSUME IInv, NEW t \in Tabs, NEW u \in Tabs, Whole(t), ~ Whole(t)',
         Boot(u) \/ Guard(u) \/ Visitor(u) \/ \E c \in Calls : CallStep(u, c)
  PROVE  ~ user[t] /\ call[<<t, Me>>].pc # "idle"
<1>1. ~ UNCHANGED <<user, token, boot>>
  BY DEF Whole
<1>2. ~ Boot(u)
  <2> SUFFICES ASSUME Boot(u) PROVE FALSE
    OBVIOUS
  <2>1. boot[u] = "start" /\ UNCHANGED <<user, token>>
    BY DEF Boot
  <2>2. ~ user[u] /\ token[u] = "none"
    BY <2>1 DEF IInv, AtStart
  <2>3. \A v \in Tabs \ {u} : boot'[v] = boot[v]
    BY DEF Boot, IInv, TypeOK
  <2> QED BY <2>1, <2>2, <2>3 DEF Whole
<1>3. ~ Login(u)
  BY DEF Login, Whole, IInv, TypeOK
<1>4. ~ Reload(u)
  BY DEF Reload, Whole, IInv, TypeOK
<1>5. ~ AccessExpires(u)
  BY DEF AccessExpires, Whole, IInv, TypeOK
<1>6. ASSUME NEW c \in Calls, Fail(u, c) PROVE FALSE
  <2>1. c = Me /\ SignOut(u) /\ boot' = [boot EXCEPT ![u] = "done"]
    BY <1>1, <1>6 DEF Fail
  <2>2. boot'[t] = boot[t] \/ t = u
    BY <2>1 DEF IInv, TypeOK
  <2> QED BY <2>1, <2>2, SignedOutIsWhole DEF IInv
<1>7. ASSUME NEW c \in Calls, Answered(u, c)
      PROVE  ~ user[t] /\ call[<<t, Me>>].pc # "idle"
  <2>1. /\ c = Me /\ call[<<u, Me>>].pc # "idle" /\ token' = token
        /\ user' = [user EXCEPT ![u] = TRUE] /\ boot' = [boot EXCEPT ![u] = "done"]
    BY <1>1, <1>7 DEF Answered
  <2>2. t = u
    BY <2>1 DEF Whole, IInv, TypeOK
  <2>3. boot[u] = "me"
    BY <2>1 DEF IInv, MeIsBooting
  <2>4. token[u] = "none"
    BY <2>1, <2>2 DEF Whole, IInv, TypeOK
  <2>5. ~ user[u]
    BY <2>3, <2>4 DEF IInv, UserHasToken
  <2> QED BY <2>1, <2>2, <2>5
<1>8. ~ Guard(u) /\ ~ Navigate(u) /\ ~ StartLogout(u)
  BY <1>1 DEF Guard, Navigate, StartLogout, page
<1>9. ASSUME NEW c \in Calls PROVE ~ SendCall(u, c) /\ ~ Unauthorized(u, c)
  BY <1>1 DEF SendCall, Unauthorized
<1> QED
  BY <1>2, <1>3, <1>4, <1>5, <1>6, <1>7, <1>8, <1>9
  DEF Visitor, CallStep, CallFails, ReplayRefused

\* The steps of a request: only the granted refresh of a tab without a user can make
\* a half.
LEMMA PostKeepsHalves ==
  ASSUME IInv, NEW t \in Tabs, NEW p \in posts, Whole(t), ~ Whole(t)',
         ServerStep(p) \/ AnswerStep(p) \/ AnswerLost(p)
  PROVE  ~ user[t] /\ InFlight(t)
<1>1. ~ UNCHANGED <<user, token, boot>>
  BY DEF Whole
<1>2. ~ Rotate(p) /\ ~ RevokeOnLogout(p) /\ ~ DropAnswer(p)
  BY <1>1 DEF Rotate, RevokeOnLogout, DropAnswer, page
<1>3. p \in Post
  BY DEF IInv, TypeOK
<1>4. ASSUME p.tab # None, LeaveSession(p.tab), boot'[t] = boot[t] \/ t = p.tab PROVE FALSE
  BY <1>3, <1>4, PostFields, SignedOutIsWhole DEF LeaveSession, IInv
<1>5. ASSUME p.tab # None, Lose(p) PROVE FALSE
  BY <1>4, <1>5 DEF Lose, IInv, TypeOK
<1>6. ~ RefreshRefused(p) /\ ~ LogoutAnswered(p) /\ ~ AnswerLost(p)
  BY <1>4, <1>5 DEF RefreshRefused, LogoutAnswered, AnswerLost
<1>7. CASE RefreshGranted(p)
  <2>1. /\ p.tab # None /\ p.kind = "refresh" /\ user' = user
        /\ token' = [token EXCEPT ![p.tab] = "fresh"]
        /\ boot' = [boot EXCEPT ![p.tab] = IF @ = "refresh" THEN "me" ELSE @]
    BY <1>7 DEF RefreshGranted, Resume
  <2>2. t = p.tab
    BY <2>1 DEF Whole, IInv, TypeOK
  <2>3. ~ user[t]
    BY <2>1, <2>2 DEF Whole, IInv, TypeOK
  <2> QED BY <2>1, <2>2, <2>3 DEF InFlight, Underway, Own
<1> QED BY <1>2, <1>6, <1>7 DEF ServerStep, AnswerStep

\* A tab that is ready loses half of its session only to the late answer of its own
\* refresh or GET /auth/me, after it was signed out.
THEOREM HalvesAreLateAnswers == Spec => HalfSessionIsALateAnswer
<1> DEFINE Late == \A t \in Tabs : Whole(t) /\ ~ Whole(t)' =>
                      ~ user[t] /\ (InFlight(t) \/ call[<<t, Me>>].pc # "idle")
<1>1. IInv /\ [Next]_vars => [Late]_vars
  <2> SUFFICES ASSUME IInv, Next, NEW t \in Tabs, Whole(t), ~ Whole(t)'
               PROVE  ~ user[t] /\ (InFlight(t) \/ call[<<t, Me>>].pc # "idle")
    OBVIOUS
  <2> QED BY TabKeepsHalves, PostKeepsHalves DEF Next
<1>2. [][Late]_vars => HalfSessionIsALateAnswer
  BY DEF HalfSessionIsALateAnswer
<1> HIDE DEF Late
<1> QED BY <1>1, <1>2, BrowserInvariant, PTL DEF Spec
=============================================================================
