----------------------------- MODULE PagesProofs -----------------------------
(***************************************************************************)
(* The pages of the browser beside the wizard and the checkout: what each  *)
(* of them promises holds for any number of users' steps, calls and rows.  *)
(* Each part gives the invariant of its module, strengthened until it is   *)
(* inductive, a lemma per action and the theorem.                          *)
(***************************************************************************)
EXTENDS Navigation, AdminForms, Listings, Catalogue, FiniteSetTheorems, TLAPS

(* Pages, routes and their guards: module Navigation *)

\* Who may be signed in.
Users == {None, "CUSTOMER", "ADMIN"}

\* Types of the router.
NavTypeOK ==
    /\ user \in Users
    /\ ready \in BOOLEAN /\ late \in BOOLEAN /\ strayed \in BOOLEAN
    /\ page \in Somewhere
    /\ returnTo \in Somewhere
    /\ nav \in Navigation \union {None}
    /\ turns \in Nat

\* A page that the user may see.
Open(p) ==
    /\ p \in DOMAIN AuthPages => user \in {"CUSTOMER", "ADMIN"}
    /\ p \in DOMAIN AdminPages => user = "ADMIN"

\* Until the session is restored, only pages that nothing guards are loaded.
NothingYet ==
    ~ready /\ ~late =>
        /\ user = None
        /\ page \in OpenPages \union {None}
        /\ nav # None /\ nav.stage = "load" => nav.to \in OpenPages

\* What a guard has let pass is open to the user as long as it loads.
PassedIsOpen ==
    nav # None /\ nav.stage = "load" /\ ~late /\ (~strayed \/ ~Unguarded) => Open(nav.to)

\* A page that is no longer open to the user is on its way out, to the login page.
ShownIsOpen ==
    ~late /\ ~strayed =>
        \/ Open(page)
        \/ nav # None /\ nav.to = "login" /\ ~IsAuthenticated

\* A navigation strays from a page.
StrayedFrom == strayed => page # None

\* A sign-in goes on to the address a guard kept from a page for guests.
GuestsSignIn == nav # None /\ nav.after # None => page \in DOMAIN GuestPages

\* The second redirect of a navigation is the last: its guard lets it pass.
FewHops ==
    nav # None =>
        /\ nav.hops <= 1 + nav.turns
        /\ nav.stage = "guard" /\ nav.hops = 1 + nav.turns => Verdict(nav.to) = Allow

\* The inductive invariant of the router.
NavInv ==
    /\ NavTypeOK
    /\ NothingYet
    /\ PassedIsOpen
    /\ ShownIsOpen
    /\ StrayedFrom
    /\ GuestsSignIn
    /\ FewHops
-----------------------------------------------------------------------------
(* The route table *)

\* The four kinds of page have no page in common, and None is no page.
LEMMA PageKinds ==
    /\ DOMAIN GuestPages = {"login", "signup"}
    /\ DOMAIN AuthPages = {"quoteList", "quoteUpload", "quoteDetail", "checkoutReview",
                           "checkoutPayment", "orderList", "orderDetail", "account"}
    /\ DOMAIN AdminPages = {"adminMaterials", "adminBranding", "adminOrders"}
BY DEF GuestPages, AuthPages, AdminPages

\* The route a guard is on tells what kind of page it guards.
LEMMA RouteTellsKind ==
    \A p \in Pages :
        /\ p \in DOMAIN AuthPages <=> GuardedRoute(p) \in {"quotes", "checkout", "orders", "account"}
        /\ p \in DOMAIN AdminPages <=> GuardedRoute(p) = "admin"
        /\ p \in OpenPages <=> GuardedRoute(p) \in OpenPages
<1> SUFFICES ASSUME NEW p \in Pages
             PROVE  /\ p \in DOMAIN AuthPages
                         <=> GuardedRoute(p) \in {"quotes", "checkout", "orders", "account"}
                    /\ p \in DOMAIN AdminPages <=> GuardedRoute(p) = "admin"
                    /\ p \in OpenPages <=> GuardedRoute(p) \in OpenPages
    OBVIOUS
<1>1. CASE p \in DOMAIN GuestPages
    BY <1>1, PageKinds DEF GuardedRoute, GuestPages, OpenPages
<1>2. CASE p \in DOMAIN AuthPages
    BY <1>2, PageKinds DEF GuardedRoute, AuthPages, OpenPages
<1>3. CASE p \in DOMAIN AdminPages
    BY <1>3, PageKinds DEF GuardedRoute, AdminPages, OpenPages
<1>4. CASE p \in OpenPages
    BY <1>4, PageKinds DEF GuardedRoute, OpenPages
<1> QED BY <1>1, <1>2, <1>3, <1>4 DEF Pages

\* Pages of one route are open to the same users; a page that nothing guards is alone.
LEMMA SameRoute ==
    ASSUME NEW p \in Pages, NEW q \in Pages, GuardedRoute(p) = GuardedRoute(q)
    PROVE  /\ Open(q) => Open(p)
           /\ q \in OpenPages => p \in OpenPages
<1>1. /\ p \in DOMAIN AuthPages <=> q \in DOMAIN AuthPages
      /\ p \in DOMAIN AdminPages <=> q \in DOMAIN AdminPages
      /\ p \in OpenPages <=> q \in OpenPages
    BY RouteTellsKind
<1> QED BY <1>1 DEF Open

\* A guard that lets a page pass has seen a user it is open to.
LEMMA AllowedIsOpen ==
    ASSUME NEW p \in Pages, user \in Users, Verdict(p) = Allow
    PROVE  Open(p)
<1>0. None \notin {"CUSTOMER", "ADMIN"}
    BY NavigationConstants
<1>1. CASE p \in DOMAIN AuthPages
    <2>1. AuthGuard = Allow
        BY <1>1, PageKinds DEF Verdict
    <2> QED BY <1>1, <2>1, PageKinds DEF AuthGuard, Allow, IsAuthenticated, Open, Users
<1>2. CASE p \in DOMAIN AdminPages
    <2>1. AdminGuard = Allow
        BY <1>2, PageKinds DEF Verdict
    <2> QED BY <1>2, <2>1, PageKinds DEF AdminGuard, Allow, IsAdmin, Open
<1>3. CASE p \notin DOMAIN AuthPages /\ p \notin DOMAIN AdminPages
    BY <1>3 DEF Open
<1> QED BY <1>1, <1>2, <1>3

\* Where a guard redirects to is a page whose own guard lets the same user pass.
LEMMA RedirectIsAllowed ==
    ASSUME NEW p \in Pages, user \in Users, Verdict(p) # Allow
    PROVE  /\ Verdict(p) \in Pages
           /\ Verdict(Verdict(p)) = Allow
           /\ p \notin OpenPages
<1>0. None \notin {"CUSTOMER", "ADMIN"}
    BY NavigationConstants
<1>1. \/ Verdict(p) = "login" /\ ~IsAuthenticated
      \/ Verdict(p) = "quoteList" /\ IsAuthenticated
      \/ Verdict(p) = "forbidden"
    BY <1>0 DEF Verdict, AuthGuard, AdminGuard, GuestGuard, IsAuthenticated, IsAdmin, Users
<1>2. /\ "login" \in DOMAIN GuestPages
      /\ "login" \notin DOMAIN AuthPages \union DOMAIN AdminPages
      /\ "quoteList" \in DOMAIN AuthPages
      /\ "quoteList" \notin DOMAIN GuestPages \union DOMAIN AdminPages
      /\ "forbidden" \in OpenPages
      /\ \A q \in OpenPages : q \notin DOMAIN GuestPages \union DOMAIN AuthPages \union DOMAIN AdminPages
    BY PageKinds DEF OpenPages
<1>3. ~IsAuthenticated => Verdict("login") = Allow
    BY <1>2 DEF Verdict, GuestGuard
<1>4. IsAuthenticated => Verdict("quoteList") = Allow
    BY <1>2 DEF Verdict, AuthGuard
<1>5. \A q \in OpenPages : Verdict(q) = Allow
    BY <1>2 DEF Verdict
<1> QED BY <1>1, <1>2, <1>3, <1>4, <1>5 DEF Pages

-----------------------------------------------------------------------------
(* The invariant is inductive *)

\* A navigation that begins.
LEMMA GoingIsNavigation ==
    \A p \in Pages :
        /\ Going(p) \in Navigation /\ Going(p) # None
        /\ Going(p).to = p /\ Going(p).stage = "guard" /\ Going(p).hops = 0 /\ Going(p).turns = 0
        /\ Going(p).after = None
BY NavigationConstants DEF Going, Navigation, Somewhere

\* It goes where it is asked to, unless it cuts in on a sign-in, which is on a page for guests.
LEMMA HeadingIs ==
    ASSUME NavInv, NEW p \in Pages
    PROVE  /\ Heading(p) \in Navigation /\ Heading(p) # None
           /\ Heading(p).stage = "guard" /\ Heading(p).hops = 0 /\ Heading(p).turns = 0
           /\ Heading(p).after = None
           /\ Heading(p).to = p \/ page \in DOMAIN GuestPages
<1>1. PICK q \in Pages : Heading(p) = Going(q) /\ (q = p \/ page \in DOMAIN GuestPages)
    BY DEF NavInv, NavTypeOK, Navigation, Somewhere, Heading, GuestsSignIn
<1> QED BY <1>1, GoingIsNavigation

\* A page for guests is open to everybody, and is none of those that nothing guards.
LEMMA GuestPagesAreOpen ==
    \A p \in DOMAIN GuestPages : p \notin OpenPages \union {None} \union DOMAIN AuthPages \union DOMAIN AdminPages
BY PageKinds, NavigationConstants DEF OpenPages, Pages

\* At the start nobody is signed in and no page is shown.
LEMMA InitInv == NavigationInit => NavInv
<1> SUFFICES ASSUME NavigationInit PROVE NavInv
    OBVIOUS
<1>1. PICK p \in Pages : nav = Going(p)
    BY DEF NavigationInit
<1>2. nav \in Navigation /\ nav.stage = "guard" /\ nav.hops = 0 /\ nav.turns = 0 /\ nav.after = None
    BY <1>1, GoingIsNavigation
<1>3. None \notin DOMAIN AuthPages \union DOMAIN AdminPages
    BY NavigationConstants DEF Pages
<1>4. NavTypeOK
    BY <1>2 DEF NavTypeOK, NavigationInit, Users, Somewhere
<1>5. NothingYet /\ PassedIsOpen /\ StrayedFrom /\ GuestsSignIn /\ FewHops
    BY <1>2 DEF NothingYet, PassedIsOpen, StrayedFrom, GuestsSignIn, FewHops, NavigationInit
<1>6. ShownIsOpen
    BY <1>3 DEF ShownIsOpen, Open, NavigationInit
<1> QED BY <1>4, <1>5, <1>6 DEF NavInv

\* A link: nothing but the navigation changes, and it starts with its guard.
LEMMA GoInv ==
    ASSUME NavInv, NEW p \in Pages, Go(p)
    PROVE  NavInv'
<1>1. /\ nav' = Heading(p) /\ page # None
      /\ UNCHANGED <<user, ready, page, returnTo, late, turns>>
      /\ strayed' = (strayed \/ (nav # None /\ nav.to = "login" /\ ~IsAuthenticated))
    BY DEF Go
<1>2. /\ nav' \in Navigation /\ nav' # None /\ nav'.after = None
      /\ nav'.stage = "guard" /\ nav'.hops = 0 /\ nav'.turns = 0
    BY <1>1, HeadingIs
<1>3. NavTypeOK'
    BY <1>1, <1>2 DEF NavInv, NavTypeOK
<1>4. NothingYet' /\ PassedIsOpen' /\ StrayedFrom' /\ GuestsSignIn' /\ FewHops'
    BY <1>1, <1>2 DEF NavInv, NothingYet, PassedIsOpen, StrayedFrom, GuestsSignIn, FewHops
<1>5. ShownIsOpen'
    BY <1>1 DEF NavInv, ShownIsOpen, Open, IsAuthenticated
<1> QED BY <1>3, <1>4, <1>5 DEF NavInv

\* Children of an open route are as open as the page that is shown.
LEMMA PassWithinInv ==
    ASSUME NavInv, PassWithin
    PROVE  NavInv'
<1> USE DEF PassWithin
<1>1. /\ nav \in Navigation /\ nav.to \in Pages /\ page \in Pages
      /\ GuardedRoute(nav.to) = GuardedRoute(page)
    BY DEF NavInv, NavTypeOK, Navigation, Somewhere, Unguarded
<1>2. /\ nav' \in Navigation /\ nav' # None
      /\ nav'.to = nav.to /\ nav'.stage = "load" /\ nav'.hops = nav.hops /\ nav'.turns = nav.turns
      /\ nav'.after = nav.after
    BY <1>1, NavigationConstants DEF Navigation
<1>3. NavTypeOK'
    BY <1>2 DEF NavInv, NavTypeOK
<1>4. NothingYet'
    BY <1>1, <1>2, SameRoute DEF NavInv, NothingYet, Unguarded
<1>5. Unguarded'
    BY <1>1, <1>2, NavigationConstants DEF Unguarded
<1>6. PassedIsOpen'
    <2> SUFFICES ASSUME ~late, ~strayed PROVE Open(nav.to)'
        BY <1>5 DEF PassedIsOpen
    <2>1. CASE Open(page)
        BY <2>1, <1>1, <1>2, SameRoute DEF Open
    <2>2. CASE nav.to = "login"
        BY <2>2, <1>2, PageKinds DEF Open
    <2> QED BY <2>1, <2>2 DEF NavInv, ShownIsOpen
<1>7. ShownIsOpen'
    BY <1>2 DEF NavInv, ShownIsOpen, Open, IsAuthenticated
<1>8. StrayedFrom' /\ GuestsSignIn' /\ FewHops'
    BY <1>2 DEF NavInv, StrayedFrom, GuestsSignIn, FewHops
<1> QED BY <1>3, <1>4, <1>6, <1>7, <1>8 DEF NavInv

\* What a guard decides, whether it has waited or not.
LEMMA DecideInv ==
    ASSUME NavInv, nav # None, nav.stage = "guard", Decide,
           UNCHANGED <<user, ready, page, returnTo, strayed, turns>>,
           late' \in BOOLEAN, late => late',
           ready \/ nav.to \in OpenPages \/ late'
    PROVE  NavInv'
<1>1. nav \in Navigation /\ nav.to \in Pages /\ nav.hops \in Nat /\ nav.turns \in Nat
    BY DEF NavInv, NavTypeOK, Navigation
<1>2. user \in Users
    BY DEF NavInv, NavTypeOK
<1>3. CASE Verdict(nav.to) = Allow
    <2>1. nav' = [nav EXCEPT !.stage = "load"]
        BY <1>3 DEF Decide
    <2>2. /\ nav' \in Navigation /\ nav' # None /\ nav'.to = nav.to
          /\ nav'.stage = "load" /\ nav'.hops = nav.hops /\ nav'.turns = nav.turns
          /\ nav'.after = nav.after
        BY <2>1, <1>1, NavigationConstants DEF Navigation
    <2>3. Open(nav.to)'
        BY <2>2, <1>1, <1>2, <1>3, AllowedIsOpen DEF Open
    <2>4. NavTypeOK'
        BY <2>2 DEF NavInv, NavTypeOK
    <2>5. NothingYet'
        BY <2>2 DEF NavInv, NothingYet
    <2>6. PassedIsOpen' /\ StrayedFrom' /\ GuestsSignIn' /\ FewHops'
        BY <2>2, <2>3 DEF NavInv, PassedIsOpen, StrayedFrom, GuestsSignIn, FewHops
    <2>7. ShownIsOpen'
        BY <2>2 DEF NavInv, ShownIsOpen, Open, IsAuthenticated
    <2> QED BY <2>4, <2>5, <2>6, <2>7 DEF NavInv
<1>4. CASE Verdict(nav.to) # Allow
    <2>1. /\ Verdict(nav.to) \in Pages
          /\ Verdict(Verdict(nav.to)) = Allow
          /\ nav.to \notin OpenPages
        BY <1>1, <1>2, <1>4, RedirectIsAllowed
    <2>2. /\ nav' \in Navigation /\ nav' # None /\ nav'.to = Verdict(nav.to)
          /\ nav'.stage = "guard" /\ nav'.hops = nav.hops + 1 /\ nav'.turns = nav.turns
          /\ nav'.after = nav.after
        <3> DEFINE target == Verdict(nav.to)
                   kept   == IF target = "login" THEN nav.to ELSE nav.back
        <3>1. nav' = [nav EXCEPT !.to = target, !.hops = nav.hops + 1, !.back = kept]
            BY <1>4 DEF Decide
        <3>2. target \in Pages /\ kept \in Somewhere /\ nav.hops + 1 \in Nat
            BY <1>1, <2>1 DEF Navigation, Somewhere
        <3> HIDE DEF target, kept
        <3>3. nav' = [to |-> target, stage |-> nav.stage, back |-> kept, after |-> nav.after,
                      hops |-> nav.hops + 1, turns |-> nav.turns]
            BY <1>1, <3>1 DEF Navigation
        <3>4. nav' \in Navigation
            BY <1>1, <3>2, <3>3 DEF Navigation
        <3> QED BY <3>3, <3>4, NavigationConstants DEF target
    <2>3. Verdict(nav.to)' = Allow
        <3>1. Verdict(nav.to)' = Verdict(Verdict(nav.to))
            BY <2>2 DEF Verdict, AuthGuard, AdminGuard, GuestGuard, IsAuthenticated, IsAdmin
        <3> QED BY <2>1, <3>1
    <2>4. nav.hops <= nav.turns
        BY <1>1, <1>4 DEF NavInv, FewHops
    <2>5. NavTypeOK'
        BY <2>2 DEF NavInv, NavTypeOK
    <2>6. NothingYet' /\ PassedIsOpen' /\ StrayedFrom' /\ GuestsSignIn'
        BY <2>1, <2>2 DEF NavInv, NothingYet, PassedIsOpen, StrayedFrom, GuestsSignIn
    <2>7. FewHops'
        BY <1>1, <2>2, <2>3, <2>4 DEF FewHops
    <2>8. nav.to # "login" \/ IsAuthenticated
        BY <1>4, PageKinds DEF Verdict, GuestGuard
    <2>9. ShownIsOpen'
        BY <2>8 DEF NavInv, ShownIsOpen, Open
    <2> QED BY <2>5, <2>6, <2>7, <2>9 DEF NavInv
<1> QED BY <1>3, <1>4

\* The guard lets pass, sends on, or gives up waiting for the session.
LEMMA GuardInv ==
    ASSUME NavInv, Guard \/ GuardTimesOut
    PROVE  NavInv'
<1>1. CASE Guard
    BY <1>1, DecideInv DEF Guard, NavInv, NavTypeOK
<1>2. CASE GuardTimesOut
    BY <1>2, DecideInv DEF GuardTimesOut
<1> QED BY <1>1, <1>2

\* What is shown was let pass, or is within the route of what was shown.
LEMMA LoadInv ==
    ASSUME NavInv, Load
    PROVE  NavInv'
<1> USE DEF Load
<1>1. nav \in Navigation /\ nav.to \in Pages /\ nav.back \in Somewhere /\ nav.after \in Somewhere
    BY DEF NavInv, NavTypeOK, Navigation
<1>2. nav' = None \/ \E p \in Pages : nav' = Going(p)
    BY <1>1 DEF Somewhere
<1>3. /\ nav' \in Navigation \union {None}
      /\ nav' # None => nav'.stage = "guard" /\ nav'.hops = 0 /\ nav'.turns = 0
                     /\ nav'.after = None
    BY <1>2, GoingIsNavigation
<1>4. NavTypeOK'
    BY <1>1, <1>3 DEF NavInv, NavTypeOK, Somewhere
<1>5. NothingYet'
    BY <1>3 DEF NavInv, NothingYet
<1>6. PassedIsOpen' /\ GuestsSignIn' /\ FewHops'
    BY <1>3 DEF PassedIsOpen, GuestsSignIn, FewHops
<1>7. StrayedFrom'
    BY <1>1, NavigationConstants DEF StrayedFrom
<1>8. ShownIsOpen'
    <2> SUFFICES ASSUME ~late, ~strayed' PROVE Open(page)'
        BY DEF ShownIsOpen
    <2>1. ~strayed \/ ~Unguarded
        BY DEF NavInv, NavTypeOK, Unguarded
    <2>2. Open(nav.to)
        BY <2>1 DEF NavInv, PassedIsOpen
    <2> QED BY <2>2 DEF Open
<1> QED BY <1>4, <1>5, <1>6, <1>7, <1>8 DEF NavInv

\* Nothing that needs the session has been loaded before it is restored.
LEMMA RestoredInv ==
    ASSUME NavInv, NEW u \in Users, SessionRestored(u)
    PROVE  NavInv'
<1> USE DEF SessionRestored
<1>1. nav \in Navigation => /\ nav.hops \in Nat /\ nav.turns \in Nat /\ nav.to \in Pages
    BY DEF Navigation
<1>2. /\ nav = None => nav' = None
      /\ nav # None => /\ nav' \in Navigation /\ nav'.to = nav.to /\ nav'.stage = nav.stage
                       /\ nav'.hops = nav.hops /\ nav'.turns = nav.turns + 1
                       /\ nav'.after = nav.after
    BY <1>1 DEF NavInv, NavTypeOK, Navigation
<1>3. \A p \in OpenPages \union {None} : p \notin DOMAIN AuthPages \union DOMAIN AdminPages
    BY PageKinds, NavigationConstants DEF OpenPages, Pages
<1>4. NavTypeOK'
    BY <1>2 DEF NavInv, NavTypeOK
<1>5. NothingYet' /\ StrayedFrom' /\ GuestsSignIn'
    BY <1>2 DEF NavInv, NothingYet, StrayedFrom, GuestsSignIn
<1>6. PassedIsOpen'
    BY <1>2, <1>3 DEF NavInv, NothingYet, PassedIsOpen, Open
<1>7. ShownIsOpen'
    BY <1>3 DEF NavInv, NothingYet, ShownIsOpen, Open
<1>8. FewHops'
    BY <1>1, <1>2 DEF NavInv, NavTypeOK, FewHops
<1> QED BY <1>4, <1>5, <1>6, <1>7, <1>8 DEF NavInv

\* A user signs in.
LEMMA SignInInv ==
    ASSUME NavInv, NEW u \in {"CUSTOMER", "ADMIN"}, SignIn(u)
    PROVE  NavInv'
<1> USE DEF SignIn
<1>1. "quoteList" \in Pages
    BY PageKinds DEF Pages
<1>2. /\ nav' \in Navigation /\ nav'.stage = "guard" /\ nav'.hops = 0 /\ nav'.turns = 0
    BY <1>1 DEF NavInv, NavTypeOK, Going, Navigation, Somewhere
<1>3. page \notin OpenPages \union {None} \union DOMAIN AuthPages \union DOMAIN AdminPages
    BY PageKinds, NavigationConstants DEF OpenPages, Pages
<1>4. NavTypeOK'
    BY <1>2 DEF NavInv, NavTypeOK, Users
<1>5. NothingYet' /\ StrayedFrom' /\ GuestsSignIn'
    BY <1>3 DEF NavInv, NothingYet, StrayedFrom, GuestsSignIn
<1>6. PassedIsOpen' /\ FewHops'
    BY <1>2 DEF PassedIsOpen, FewHops
<1>7. ShownIsOpen'
    BY <1>3 DEF ShownIsOpen, Open
<1> QED BY <1>4, <1>5, <1>6, <1>7 DEF NavInv

\* The session ends, or there was none: the way to the login page begins, or a sign-in that it cuts
\* in on goes on.
LEMMA SessionLostInv ==
    ASSUME NavInv, user' = None, nav' = Heading("login"), ready' \in BOOLEAN, turns' \in Nat,
           UNCHANGED <<page, returnTo, late, strayed>>, ready => ready'
    PROVE  NavInv'
<1>1. "login" \in Pages
    BY PageKinds DEF Pages
<1>2. /\ nav' \in Navigation /\ nav' # None /\ nav'.after = None
      /\ nav'.stage = "guard" /\ nav'.hops = 0 /\ nav'.turns = 0
      /\ nav'.to = "login" \/ page \in DOMAIN GuestPages
    BY <1>1, HeadingIs
<1>3. NavTypeOK'
    BY <1>2 DEF NavInv, NavTypeOK, Users
<1>4. NothingYet' /\ StrayedFrom' /\ GuestsSignIn'
    BY <1>2 DEF NavInv, NothingYet, StrayedFrom, GuestsSignIn
<1>5. PassedIsOpen' /\ FewHops'
    BY <1>2 DEF PassedIsOpen, FewHops
<1>6. ShownIsOpen'
    BY <1>2, GuestPagesAreOpen DEF ShownIsOpen, Open, IsAuthenticated
<1> QED BY <1>3, <1>4, <1>5, <1>6 DEF NavInv

LEMMA SignedOutInv ==
    ASSUME NavInv, SignedOut \/ RestoreRefused
    PROVE  NavInv'
<1>1. CASE SignedOut
    <2>1. turns' \in Nat /\ ready' \in BOOLEAN
        BY <1>1 DEF NavInv, NavTypeOK, SignedOut
    <2> QED BY <1>1, <2>1, SessionLostInv DEF SignedOut
<1>2. CASE RestoreRefused
    <2>1. turns' \in Nat /\ ready' \in BOOLEAN
        BY <1>2 DEF NavInv, NavTypeOK, RestoreRefused
    <2> QED BY <1>2, <2>1, SessionLostInv DEF RestoreRefused
<1> QED BY <1>1, <1>2

\* A step of something else.
LEMMA StutterInv ==
    ASSUME NavInv, UNCHANGED navigationVars
    PROVE  NavInv'
BY DEF NavInv, NavTypeOK, NothingYet, PassedIsOpen, ShownIsOpen, StrayedFrom, GuestsSignIn, FewHops, Open, Unguarded,
       Verdict, AuthGuard, AdminGuard, GuestGuard, IsAuthenticated, IsAdmin, navigationVars

\* Every step keeps the invariant.
LEMMA NextInv == NavInv /\ [NavigationNext]_navigationVars => NavInv'
<1> SUFFICES ASSUME NavInv, [NavigationNext]_navigationVars PROVE NavInv'
    OBVIOUS
<1>1. ASSUME NEW p \in Pages, Go(p) PROVE NavInv'
    BY <1>1, GoInv
<1>2. CASE PassWithin
    BY <1>2, PassWithinInv
<1>3. CASE Guard \/ GuardTimesOut
    BY <1>3, GuardInv
<1>4. CASE Load
    BY <1>4, LoadInv
<1>5. ASSUME NEW u \in {None, "CUSTOMER", "ADMIN"}, SessionRestored(u) PROVE NavInv'
    BY <1>5, RestoredInv DEF Users
<1>6. ASSUME NEW u \in {"CUSTOMER", "ADMIN"}, SignIn(u) PROVE NavInv'
    BY <1>6, SignInInv
<1>7. CASE SignedOut \/ RestoreRefused
    BY <1>7, SignedOutInv
<1>8. CASE UNCHANGED navigationVars
    BY <1>8, StutterInv
<1> QED BY <1>1, <1>2, <1>3, <1>4, <1>5, <1>6, <1>7, <1>8 DEF NavigationNext

\* What the invariant says of the guards.
LEMMA InvGivesGuardsHold == NavInv => GuardsHold
BY DEF NavInv, ShownIsOpen, FewHops, Open, GuardsHold

-----------------------------------------------------------------------------
(* Theorems *)

\* NavInv holds in every reachable state of the router, the guards and AuthService.
THEOREM NavigationInvariant == NavigationSpec => []NavInv
<1>1. NavigationInit => NavInv
    BY InitInv
<1>2. NavInv /\ [NavigationNext]_navigationVars => NavInv'
    BY NextInv
<1> QED BY <1>1, <1>2, PTL DEF NavigationSpec

\* Once the router rests, a guarded page is shown to the users it is for only, with the exceptions
\* GuardsHold names, and no navigation is redirected more often than once for the guard and once for
\* each session restored under way.
THEOREM PagesAreGuarded == NavigationSpec => []GuardsHold
<1>1. NavInv => GuardsHold
    BY InvGivesGuardsHold
<1> QED BY <1>1, NavigationInvariant, PTL

-----------------------------------------------------------------------------
(* Settings forms: module AdminForms *)

\* A value, or nothing.
SomeValue == Values \union {None}
\* Every state of a call.
RequestRecords ==
    [what: {"none", "load", "save", "logo"}, kind: Kinds \union {None}, value: SomeValue, secret: SomeValue,
     file: BOOLEAN, here: BOOLEAN, phase: {"none", "sent", "probed", "answered", "failed"},
     config: {None} \union [Business -> Values]]

\* Types of the settings forms.
FormsTypeOK ==
    /\ row \in [Parts -> SomeValue]
    /\ \A p \in Kinds : row[p] \in Values
    /\ brand \in [Business -> Values]
    /\ form \in [kind: Kinds \union {"away"}, value: Values, original: Values, secret: SomeValue,
                 file: BOOLEAN, dirty: BOOLEAN, saved: BOOLEAN, checking: BOOLEAN]
    /\ requests \in [Slots -> RequestRecords]
    /\ typed \in SomeValue
    /\ excused \in BOOLEAN

\* What a call is about, and how far it can have got: a key that Stripe refused is not probed.
CallOK(s) ==
    /\ requests[s].what = "none" => ~Mine(s) /\ requests[s].phase = "none"
    /\ requests[s].what # "none" => requests[s].kind \in Kinds
    /\ requests[s].what \in {"save", "logo"} \/ requests[s].phase = "answered" => requests[s].value \in Values
    /\ requests[s].what = "logo" => requests[s].kind = "branding"
    /\ requests[s].phase = "probed" =>
         requests[s].what = "save" /\ requests[s].kind \in Business /\ requests[s].secret \notin Refused
    /\ Mine(s) => requests[s].kind = form.kind
    /\ requests[s].what \in {"save", "logo"} /\ requests[s].phase = "answered" /\ requests[s].kind \in Business =>
         requests[s].config \in [Business -> Values]

\* A call of the open form, while nothing excuses the form: it is the form's only call, what
\* it carries is what was typed, and once it is answered the server holds it.
PendingOK(s) ==
    /\ ~form.saved
    /\ \A t \in Slots : Mine(t) => t = s
    /\ IF requests[s].what = "load"
       THEN typed = None
       ELSE /\ typed # None => requests[s].value = typed
            /\ form.kind \in {"payments", "branding"} => requests[s].value = form.value
            /\ requests[s].phase = "answered" \/ requests[s].what = "logo" =>
                 row[form.kind] = requests[s].value

\* The inductive invariant of the forms.
FormsCore ==
    /\ FormsTypeOK
    /\ form.dirty \/ form.saved => form.kind # "away"
    /\ form.dirty => ~form.saved
    /\ \A s \in Slots : CallOK(s)
    /\ ~excused => \A s \in Slots : Mine(s) => PendingOK(s)
    /\ FormsAreHonest

\* A free slot holds no call.
LEMMA NoRequestIs ==
    /\ NoRequest \in RequestRecords /\ ~NoRequest.here
    /\ NoRequest.what = "none" /\ NoRequest.phase = "none"
BY DEF NoRequest, Request, RequestRecords, SomeValue

\* A form that has just been opened, with any value in it.
LEMMA BlankIs ==
    ASSUME FormConstants, NEW kind \in Kinds \union {"away"}, NEW v \in Values
    PROVE  /\ [Blank(kind) EXCEPT !.value = v].kind = kind
           /\ [Blank(kind) EXCEPT !.value = v].value = v
           /\ [Blank(kind) EXCEPT !.value = v].dirty = FALSE
           /\ [Blank(kind) EXCEPT !.value = v].saved = FALSE
           /\ [Blank(kind) EXCEPT !.value = v] \in
                [kind: Kinds \union {"away"}, value: Values, original: Values, secret: SomeValue,
                 file: BOOLEAN, dirty: BOOLEAN, saved: BOOLEAN, checking: BOOLEAN]
BY DEF Blank, FormConstants, SomeValue

\* At the start no form is open and no call is under way.
LEMMA InitForms == FormConstants /\ FormsInit => FormsCore
<1> SUFFICES ASSUME FormConstants, FormsInit PROVE FormsCore
  OBVIOUS
<1>1. form.kind = "away" /\ form.dirty = FALSE /\ form.saved = FALSE
  BY DEF FormsInit, Blank
<1>2. \A s \in Slots : requests[s] = NoRequest
  BY DEF FormsInit
<1>3. FormsTypeOK
  <2>1. form \in [kind: Kinds \union {"away"}, value: Values, original: Values, secret: SomeValue,
                  file: BOOLEAN, dirty: BOOLEAN, saved: BOOLEAN, checking: BOOLEAN]
    BY DEF FormsInit, Blank, FormConstants, SomeValue
  <2>2. row \in [Parts -> SomeValue] /\ (\A p \in Kinds : row[p] \in Values)
    BY DEF FormsInit, FormConstants, SomeValue, Parts, Kinds, Business
  <2> QED BY <2>1, <2>2, NoRequestIs DEF FormsInit, FormsTypeOK, FormConstants, SomeValue
<1>4. \A s \in Slots : CallOK(s) /\ ~Mine(s)
  BY <1>2, NoRequestIs DEF CallOK, Mine
<1>5. FormsAreHonest
  BY <1>1 DEF FormsInit, FormsAreHonest, Parts, FormConstants
<1> QED BY <1>1, <1>3, <1>4, <1>5 DEF FormsCore

\* Opening a form drops the calls of the form that was open.
LEMMA OpenFormKeeps ==
    FormConstants /\ FormsCore /\ (\E s \in Slots, kind \in Kinds : OpenForm(s, kind)) => FormsCore'
<1> SUFFICES ASSUME FormConstants, FormsCore, NEW s \in Slots, NEW kind \in Kinds, OpenForm(s, kind)
             PROVE  FormsCore'
  OBVIOUS
<1> DEFINE v == IF kind \in Business THEN brand[kind] ELSE Defaults
<1>1. v \in Values /\ Defaults \in Values
  BY DEF FormsCore, FormsTypeOK, FormConstants
<1>2. form' = [Blank(kind) EXCEPT !.value = v] /\ typed' = None /\ excused' = FALSE /\ UNCHANGED <<row, brand>>
  BY DEF OpenForm
<1> HIDE DEF v
<1>3. form'.kind = kind /\ form'.dirty = FALSE /\ form'.saved = FALSE
  BY <1>1, <1>2, BlankIs
<1>c. ~Mine(s)
  BY NoRequestIs DEF OpenForm, FreeSlot, Mine
<1> DEFINE After(o) == CASE o = s -> Request("load", kind, None, None)
                       [] Mine(o) -> [requests[o] EXCEPT !.here = FALSE, !.file = form.file]
                       [] OTHER -> requests[o]
<1>d. requests' = [o \in Slots |-> After(o)]
  BY DEF OpenForm
<1>e. After(s) = Request("load", kind, None, None)
  BY <1>c
<1>f. \A t \in Slots \ {s} :
        After(t) = IF Mine(t) THEN [requests[t] EXCEPT !.here = FALSE, !.file = form.file] ELSE requests[t]
  OBVIOUS
<1> HIDE DEF After
<1>4. requests'[s] = Request("load", kind, None, None)
  BY <1>d, <1>e
<1>5. \A t \in Slots \ {s} :
        /\ requests'[t].here = FALSE
        /\ requests'[t].what = requests[t].what /\ requests'[t].kind = requests[t].kind
        /\ requests'[t].value = requests[t].value /\ requests'[t].secret = requests[t].secret
        /\ requests'[t].phase = requests[t].phase /\ requests'[t].config = requests[t].config
        /\ requests'[t] \in RequestRecords
  <2> TAKE t \in Slots \ {s}
  <2>1. requests[t] \in RequestRecords /\ form.file \in BOOLEAN
    BY DEF FormsCore, FormsTypeOK
  <2>2. requests'[t] = IF Mine(t) THEN [requests[t] EXCEPT !.here = FALSE, !.file = form.file] ELSE requests[t]
    BY <1>d, <1>f
  <2>3. CASE Mine(t)
    BY <2>1, <2>2, <2>3 DEF RequestRecords
  <2>4. CASE ~Mine(t)
    BY <2>1, <2>2, <2>4 DEF RequestRecords, Mine
  <2> QED BY <2>3, <2>4
<1>6. FormsTypeOK'
  <2>1. requests' \in [Slots -> RequestRecords]
    <3>1. None \in SomeValue
      BY DEF SomeValue
    <3>2. requests'[s] \in RequestRecords
      BY <1>4, <3>1 DEF Request, RequestRecords
    <3> QED BY <1>d, <3>2, <1>5
  <2>2. form' \in [kind: Kinds \union {"away"}, value: Values, original: Values, secret: SomeValue,
                   file: BOOLEAN, dirty: BOOLEAN, saved: BOOLEAN, checking: BOOLEAN]
    BY <1>1, <1>2, BlankIs
  <2> QED BY <1>2, <2>1, <2>2 DEF FormsCore, FormsTypeOK, SomeValue
<1>7. /\ requests'[s].what = "load" /\ requests'[s].kind = kind /\ requests'[s].phase = "sent"
      /\ requests'[s].here = TRUE
  <2>1. None \in SomeValue
    BY DEF SomeValue
  <2> QED BY <1>4, <2>1 DEF Request, RequestRecords
<1>8. \A t \in Slots : CallOK(t)'
  BY <1>3, <1>5, <1>7 DEF FormsCore, CallOK, Mine
<1>9. \A t \in Slots : Mine(t)' => PendingOK(t)'
  <2>1. \A t \in Slots : Mine(t)' => t = s
    BY <1>5 DEF Mine
  <2> QED BY <1>2, <1>3, <1>7, <2>1 DEF PendingOK
<1>10. FormsAreHonest'
  BY <1>2, <1>3 DEF FormsCore, FormsAreHonest
<1> QED BY <1>3, <1>6, <1>8, <1>9, <1>10 DEF FormsCore

\* Typing makes the form dirty, and excuses it while one of its calls is under way.
LEMMA EditKeeps == FormsCore /\ (\E v \in Values : Edit(v)) => FormsCore'
<1> SUFFICES ASSUME FormsCore, NEW v \in Values, Edit(v) PROVE FormsCore'
  OBVIOUS
<1>1. /\ form'.kind = form.kind /\ form'.value = v /\ form'.dirty = TRUE /\ form'.saved = FALSE
      /\ form.kind # "away" /\ typed' = v /\ UNCHANGED <<row, brand, requests>>
      /\ excused' = (excused \/ Waiting # {})
  BY DEF FormsCore, FormsTypeOK, Edit
<1>2. FormsTypeOK'
  BY <1>1 DEF FormsCore, FormsTypeOK, Edit, SomeValue
<1>3. \A t \in Slots : CallOK(t)'
  BY <1>1 DEF FormsCore, CallOK, Mine
<1>4. ~excused' => \A t \in Slots : ~Mine(t)'
  BY <1>1 DEF Waiting, Mine
<1>5. FormsAreHonest'
  BY <1>1 DEF FormsCore, FormsAreHonest
<1> QED BY <1>1, <1>2, <1>3, <1>4, <1>5 DEF FormsCore

\* A typed secret and a chosen logo are not part of the value.
LEMMA OtherFieldsKeep == FormsCore /\ ((\E k \in Values : TypeSecret(k)) \/ ChooseLogo) => FormsCore'
<1> SUFFICES ASSUME FormsCore, (\E k \in Values : TypeSecret(k)) \/ ChooseLogo PROVE FormsCore'
  OBVIOUS
<1>1. /\ form'.kind = form.kind /\ form'.value = form.value /\ form'.dirty = TRUE /\ form'.saved = FALSE
      /\ form.kind # "away" /\ UNCHANGED <<row, brand, requests, typed, excused>>
  BY DEF FormsCore, FormsTypeOK, TypeSecret, ChooseLogo
<1>2. FormsTypeOK'
  BY <1>1 DEF FormsCore, FormsTypeOK, TypeSecret, ChooseLogo, SomeValue
<1>3. \A t \in Slots : CallOK(t)'
  BY <1>1 DEF FormsCore, CallOK, Mine
<1>4. ~excused' => \A t \in Slots : Mine(t)' => PendingOK(t)'
  BY <1>1 DEF FormsCore, PendingOK, Mine
<1>5. FormsAreHonest'
  BY <1>1 DEF FormsCore, FormsAreHonest
<1> QED BY <1>1, <1>2, <1>3, <1>4, <1>5 DEF FormsCore

\* Discarding brings back what was loaded last.
LEMMA ResetKeeps == FormsCore /\ Reset => FormsCore'
<1> SUFFICES ASSUME FormsCore, Reset PROVE FormsCore'
  OBVIOUS
<1>1. /\ form'.kind = form.kind /\ form'.dirty = FALSE /\ form'.saved = FALSE
      /\ form.kind \in {"machine", "pricing"} /\ typed' = None /\ UNCHANGED <<row, brand, requests, excused>>
  BY DEF FormsCore, FormsTypeOK, Reset
<1>2. FormsTypeOK'
  BY <1>1 DEF FormsCore, FormsTypeOK, Reset, SomeValue
<1>3. \A t \in Slots : CallOK(t)'
  BY <1>1 DEF FormsCore, CallOK, Mine
<1>4. ~excused' => \A t \in Slots : Mine(t)' => PendingOK(t)'
  BY <1>1 DEF FormsCore, PendingOK, Mine
<1>5. FormsAreHonest'
  BY <1>1 DEF FormsCore, FormsAreHonest
<1> QED BY <1>1, <1>2, <1>3, <1>4, <1>5 DEF FormsCore

\* A save carries what the form shows, and is its only call or excuses it.
LEMMA SaveKeeps == FormsCore /\ (\E s \in Slots : Save(s)) => FormsCore'
<1> SUFFICES ASSUME FormsCore, NEW s \in Slots, Save(s) PROVE FormsCore'
  OBVIOUS
<1>1. /\ form'.kind = form.kind /\ form'.value = form.value /\ form'.dirty = form.dirty
      /\ form'.saved = form.saved /\ form.dirty /\ form.kind \in Kinds /\ ~form.saved
      /\ form.value \in Values /\ form.secret \in SomeValue
      /\ UNCHANGED <<row, brand, typed>>
      /\ excused' = (excused \/ Waiting # {})
  BY DEF FormsCore, FormsTypeOK, Save
<1>2. /\ requests'[s] = Request("save", form.kind, form.value, form.secret)
      /\ \A t \in Slots \ {s} : requests'[t] = requests[t]
      /\ requests' = [requests EXCEPT ![s] = Request("save", form.kind, form.value, form.secret)]
  BY DEF FormsCore, FormsTypeOK, Save, Sent
<1>3. /\ requests'[s] \in RequestRecords /\ requests'[s].what = "save" /\ requests'[s].kind = form.kind
      /\ requests'[s].value = form.value /\ requests'[s].secret = form.secret
      /\ requests'[s].here = TRUE /\ requests'[s].phase = "sent"
  <2>1. form.value \in SomeValue
    BY <1>1 DEF SomeValue
  <2> DEFINE r == Request("save", form.kind, form.value, form.secret)
  <2>2. /\ r \in RequestRecords /\ r.what = "save" /\ r.kind = form.kind /\ r.value = form.value
        /\ r.secret = form.secret /\ r.here = TRUE /\ r.phase = "sent"
    BY <1>1, <2>1 DEF Request, RequestRecords
  <2> QED BY <1>2, <2>2
<1>4. FormsTypeOK'
  <2>1. requests' \in [Slots -> RequestRecords]
    BY <1>2, <1>3 DEF FormsCore, FormsTypeOK
  <2>2. form' \in [kind: Kinds \union {"away"}, value: Values, original: Values, secret: SomeValue,
                   file: BOOLEAN, dirty: BOOLEAN, saved: BOOLEAN, checking: BOOLEAN]
    BY DEF FormsCore, FormsTypeOK, Save
  <2> QED BY <1>1, <2>1, <2>2 DEF FormsCore, FormsTypeOK
<1>5. \A t \in Slots : CallOK(t)'
  BY <1>1, <1>2, <1>3 DEF FormsCore, CallOK, Mine
<1>6. FormsAreHonest'
  BY <1>1 DEF FormsCore, FormsAreHonest
<1>7. ~excused' => \A t \in Slots : Mine(t)' => PendingOK(t)'
  <2> SUFFICES ASSUME ~excused' PROVE \A t \in Slots : Mine(t)' => PendingOK(t)'
    OBVIOUS
  <2>1. \A t \in Slots : Mine(t)' => t = s
    BY <1>1, <1>2 DEF Waiting, Mine
  <2>2. typed # None => form.value = typed
    BY <1>1 DEF FormsCore, FormsAreHonest
  <2> QED BY <1>1, <1>3, <2>1, <2>2 DEF PendingOK
<1> QED BY <1>1, <1>4, <1>5, <1>6, <1>7 DEF FormsCore

\* A load is answered with the row as it is.
LEMMA LoadServed == FormsCore /\ (\E s \in Slots : ServeLoad(s)) => FormsCore'
<1> SUFFICES ASSUME FormsCore, NEW s \in Slots, ServeLoad(s) PROVE FormsCore'
  OBVIOUS
<1>1. UNCHANGED <<row, brand, form, typed, excused>>
  BY DEF ServeLoad
<1>2. requests[s].kind \in Kinds /\ row[requests[s].kind] \in Values /\ requests[s] \in RequestRecords
  BY DEF FormsCore, FormsTypeOK, CallOK, ServeLoad
<1>3. /\ requests' \in [Slots -> RequestRecords]
      /\ requests'[s].what = requests[s].what /\ requests'[s].kind = requests[s].kind
      /\ requests'[s].here = requests[s].here /\ requests'[s].phase = "answered"
      /\ requests'[s].value = row[requests[s].kind] /\ requests[s].what = "load"
      /\ \A t \in Slots \ {s} : requests'[t] = requests[t]
  BY <1>2 DEF FormsCore, FormsTypeOK, ServeLoad, RequestRecords, SomeValue
<1>4. FormsTypeOK'
  BY <1>1, <1>3 DEF FormsCore, FormsTypeOK
<1>5. \A t \in Slots : CallOK(t)'
  BY <1>1, <1>2, <1>3 DEF FormsCore, CallOK, Mine
<1>6. ~excused' => \A t \in Slots : Mine(t)' => PendingOK(t)'
  <2> SUFFICES ASSUME ~excused', NEW t \in Slots, Mine(t)' PROVE PendingOK(t)'
    OBVIOUS
  <2>1. \A u \in Slots : Mine(u)' = Mine(u)
    BY <1>3 DEF Mine
  <2>2. PendingOK(t)
    BY <1>1, <2>1 DEF FormsCore
  <2> QED BY <1>1, <1>3, <2>1, <2>2 DEF PendingOK
<1>7. FormsAreHonest'
  BY <1>1 DEF FormsCore, FormsAreHonest
<1> QED BY <1>1, <1>4, <1>5, <1>6, <1>7 DEF FormsCore

\* A call gets to another phase, and changes in nothing else but the rows it brings along.
Moves(s, phase) ==
    /\ requests' \in [Slots -> RequestRecords]
    /\ requests'[s].what = requests[s].what /\ requests'[s].kind = requests[s].kind
    /\ requests'[s].here = requests[s].here /\ requests'[s].phase = phase
    /\ requests'[s].value = requests[s].value /\ requests'[s].secret = requests[s].secret
    /\ phase = "answered" /\ requests[s].kind \in Business => requests'[s].config \in [Business -> Values]
    /\ \A t \in Slots \ {s} : requests'[t] = requests[t]

\* An answer that brings no rows, or a failure.
LEMMA RespondMoves ==
    ASSUME FormsCore, NEW s \in Slots, NEW phase \in {"probed", "failed", "answered"}, Respond(s, phase),
           phase = "answered" => requests[s].kind \notin Business
    PROVE  Moves(s, phase)
BY DEF FormsCore, FormsTypeOK, Respond, RequestRecords, Moves

\* An answer that brings the whole business row.
LEMMA ConfigMoves ==
    ASSUME FormsCore, NEW s \in Slots, RespondConfig(s), \A p \in Business : row'[p] \in Values
    PROVE  Moves(s, "answered")
<1> DEFINE c == [p \in Business |-> row'[p]]
<1>1. c \in [Business -> Values]
  OBVIOUS
<1>2. requests' = [requests EXCEPT ![s].phase = "answered", ![s].config = c]
  BY DEF RespondConfig
<1> HIDE DEF c
<1>3. requests'[s] = [requests[s] EXCEPT !.phase = "answered", !.config = c]
      /\ \A t \in Slots \ {s} : requests'[t] = requests[t]
  BY <1>2 DEF FormsCore, FormsTypeOK
<1>4. requests[s] \in RequestRecords
  BY DEF FormsCore, FormsTypeOK
<1>5. /\ requests'[s] \in RequestRecords
      /\ requests'[s].what = requests[s].what /\ requests'[s].kind = requests[s].kind
      /\ requests'[s].here = requests[s].here /\ requests'[s].phase = "answered"
      /\ requests'[s].value = requests[s].value /\ requests'[s].secret = requests[s].secret
      /\ requests'[s].config = c
  BY <1>1, <1>3, <1>4 DEF RequestRecords
<1>6. requests' \in [Slots -> RequestRecords]
  BY <1>2, <1>3, <1>5 DEF FormsCore, FormsTypeOK
<1> QED BY <1>1, <1>3, <1>5, <1>6 DEF Moves

\* A call gets further on the server, and no row changes but by the logo that was uploaded.
LEMMA PhaseKeeps ==
    ASSUME FormsCore, NEW s \in Slots, NEW phase \in {"probed", "failed", "answered"}, Moves(s, phase),
           requests[s].what # "none",
           phase = "probed" =>
             requests[s].what = "save" /\ requests[s].kind \in Business /\ requests[s].secret \notin Refused,
           phase = "answered" => requests[s].what = "logo",
           UNCHANGED <<brand, form, typed, excused>>,
           row' \in [Parts -> SomeValue], row'["secret"] = row["secret"],
           \A p \in Kinds : row'[p] = row[p]
    PROVE  FormsCore'
<1>1. /\ requests' \in [Slots -> RequestRecords]
      /\ requests'[s].what = requests[s].what /\ requests'[s].kind = requests[s].kind
      /\ requests'[s].here = requests[s].here /\ requests'[s].phase = phase
      /\ requests'[s].value = requests[s].value /\ requests'[s].secret = requests[s].secret
      /\ phase = "answered" /\ requests[s].kind \in Business => requests'[s].config \in [Business -> Values]
      /\ \A t \in Slots \ {s} : requests'[t] = requests[t]
  BY DEF Moves
<1>2. FormsTypeOK'
  BY <1>1 DEF FormsCore, FormsTypeOK
<1>3. \A t \in Slots : CallOK(t)'
  BY <1>1 DEF FormsCore, CallOK, Mine
<1>4. ~excused' => \A t \in Slots : Mine(t)' => PendingOK(t)'
  <2> SUFFICES ASSUME ~excused', NEW t \in Slots, Mine(t)' PROVE PendingOK(t)'
    OBVIOUS
  <2>1. \A u \in Slots : Mine(u)' = Mine(u)
    BY <1>1 DEF Mine
  <2>2. PendingOK(t) /\ form.kind \in Kinds
    BY <2>1 DEF FormsCore, CallOK, FormsTypeOK
  <2> QED BY <1>1, <2>1, <2>2 DEF PendingOK
<1>5. FormsAreHonest'
  <2>1. form.saved /\ ~form.dirty /\ ~excused => row'[form.kind] = form.value
    <3>1. CASE form.kind \in Kinds
      BY <3>1 DEF FormsCore, FormsAreHonest
    <3>2. CASE form.kind = "away"
      BY <3>2 DEF FormsCore, FormsAreHonest
    <3> QED BY <3>1, <3>2 DEF FormsCore, FormsTypeOK
  <2> QED BY <2>1 DEF FormsCore, FormsAreHonest
<1> QED BY <1>2, <1>3, <1>4, <1>5 DEF FormsCore

\* The probe of a key, the upload of a logo, and a call that is lost.
LEMMA ServerKeeps ==
    FormConstants /\ FormsCore /\ (\E s \in Slots : ProbeCredentials(s) \/ UploadLogo(s) \/ Lost(s))
          => FormsCore'
<1> SUFFICES ASSUME FormConstants, FormsCore, NEW s \in Slots, ProbeCredentials(s) \/ UploadLogo(s) \/ Lost(s)
             PROVE  FormsCore'
  OBVIOUS
<1>1. CASE ProbeCredentials(s)
  <2>1. row' \in [Parts -> SomeValue] /\ row'["secret"] = row["secret"] /\ \A p \in Kinds : row'[p] = row[p]
    BY <1>1 DEF ProbeCredentials, FormsCore, FormsTypeOK
  <2>2. CASE requests[s].secret \in Refused
    <3>1. Moves(s, "failed")
      BY <1>1, <2>2, RespondMoves DEF ProbeCredentials
    <3> QED BY <1>1, <2>1, <3>1, PhaseKeeps DEF ProbeCredentials
  <2>3. CASE requests[s].secret \notin Refused
    <3>1. Moves(s, "probed")
      BY <1>1, <2>3, RespondMoves DEF ProbeCredentials
    <3> QED BY <1>1, <2>1, <2>3, <3>1, PhaseKeeps DEF ProbeCredentials
  <2> QED BY <2>2, <2>3
<1>2. CASE UploadLogo(s)
  <2>1. row' \in [Parts -> SomeValue] /\ row'["secret"] = row["secret"] /\ \A p \in Kinds : row'[p] = row[p]
    BY <1>2 DEF UploadLogo, FormsCore, FormsTypeOK, SomeValue, Parts, Kinds, Business, FormConstants
  <2>2. \A p \in Business : row'[p] \in Values
    BY <2>1 DEF FormsCore, FormsTypeOK, Kinds
  <2>3. Moves(s, "answered")
    BY <1>2, <2>2, ConfigMoves DEF UploadLogo
  <2> QED BY <1>2, <2>1, <2>3, PhaseKeeps DEF UploadLogo
<1>3. CASE Lost(s)
  <2>1. row' \in [Parts -> SomeValue] /\ row'["secret"] = row["secret"] /\ \A p \in Kinds : row'[p] = row[p]
    BY <1>3 DEF Lost, FormsCore, FormsTypeOK
  <2>2. requests[s].what # "none"
    BY <1>3 DEF Lost, FormsCore, CallOK
  <2>3. Moves(s, "failed")
    BY <1>3, RespondMoves DEF Lost
  <2> QED BY <1>3, <2>1, <2>2, <2>3, PhaseKeeps DEF Lost
<1> QED BY <1>1, <1>2, <1>3

\* A save writes its part of the configuration, and no other.
LEMMA PutKeeps ==
    ASSUME FormsCore, NEW s \in Slots, requests[s].what = "save", Moves(s, "answered"), Reached(s),
           UNCHANGED <<brand, form, typed>>,
           row' \in [Parts -> SomeValue], row'["secret"] \notin Refused,
           row'[requests[s].kind] = requests[s].value,
           \A p \in Kinds \ {requests[s].kind} : row'[p] = row[p]
    PROVE  FormsCore'
<1>1. /\ requests' \in [Slots -> RequestRecords]
      /\ requests'[s].what = requests[s].what /\ requests'[s].kind = requests[s].kind
      /\ requests'[s].here = requests[s].here /\ requests'[s].phase = "answered"
      /\ requests'[s].value = requests[s].value
      /\ requests[s].kind \in Business => requests'[s].config \in [Business -> Values]
      /\ \A t \in Slots \ {s} : requests'[t] = requests[t]
  BY DEF Moves
<1>2. requests[s].kind \in Kinds /\ requests[s].value \in Values
  BY DEF FormsCore, CallOK
<1>3. FormsTypeOK'
  BY <1>1, <1>2 DEF FormsCore, FormsTypeOK, Reached
<1>4. \A t \in Slots : CallOK(t)'
  BY <1>1, <1>2 DEF FormsCore, CallOK, Mine
<1>5. ~excused' => ~excused /\ (Mine(s) \/ requests[s].kind # form.kind)
  BY DEF Reached
<1>6. ~excused' => \A t \in Slots : Mine(t)' => PendingOK(t)'
  <2> SUFFICES ASSUME ~excused', NEW t \in Slots, Mine(t)' PROVE PendingOK(t)'
    OBVIOUS
  <2>1. \A u \in Slots : Mine(u)' = Mine(u)
    BY <1>1 DEF Mine
  <2>2. PendingOK(t) /\ requests[t].kind = form.kind
    BY <1>5, <2>1 DEF FormsCore, CallOK
  <2>3. CASE t = s
    BY <1>1, <2>1, <2>2, <2>3 DEF PendingOK
  <2>4. CASE t # s
    <3>1. requests[s].kind # form.kind
      BY <1>5, <2>1, <2>2, <2>4 DEF PendingOK
    <3>2. row'[form.kind] = row[form.kind]
      BY <2>1, <2>2, <3>1 DEF FormsCore, FormsTypeOK, CallOK
    <3> QED BY <1>1, <2>1, <2>2, <2>4, <3>2 DEF PendingOK
  <2> QED BY <2>3, <2>4
<1>7. FormsAreHonest'
  <2>1. ASSUME form.saved, ~form.dirty, ~excused' PROVE row'[form.kind] = form.value
    <3>1. ~Mine(s)
      BY <1>5, <2>1 DEF FormsCore, PendingOK
    <3>2. form.kind \in Kinds
      BY <2>1 DEF FormsCore, FormsTypeOK
    <3> QED BY <1>5, <2>1, <3>1, <3>2 DEF FormsCore, FormsAreHonest
  <2> QED BY <1>5, <2>1 DEF FormsCore, FormsAreHonest
<1> QED BY <1>3, <1>4, <1>6, <1>7 DEF FormsCore

\* The three handlers that write a part.
LEMMA SavesKeep ==
    FormConstants /\ FormsCore /\ (\E s \in Slots : PutPricing(s) \/ PutMachine(s) \/ UpdateBusiness(s))
          => FormsCore'
<1> SUFFICES ASSUME FormConstants, FormsCore, NEW s \in Slots,
                    PutPricing(s) \/ PutMachine(s) \/ UpdateBusiness(s)
             PROVE  FormsCore'
  OBVIOUS
<1>1. "pricing" \in Kinds /\ "machine" \in Kinds /\ Kinds \subseteq Parts /\ "secret" \notin Kinds
        /\ "secret" \in Parts /\ Business \subseteq Kinds /\ "pricing" \notin Business /\ "machine" \notin Business
  BY DEF Kinds, Parts, Business
<1>2. requests[s].what = "save" => requests[s].kind \in Kinds /\ requests[s].value \in Values
        /\ requests[s].value \in SomeValue
  BY DEF FormsCore, CallOK, SomeValue
<1>3. row["secret"] \notin Refused
  BY DEF FormsCore, FormsAreHonest
<1>4. CASE PutPricing(s)
  <2>1. /\ row' \in [Parts -> SomeValue] /\ row'["secret"] = row["secret"]
        /\ row'["pricing"] = requests[s].value /\ \A p \in Kinds \ {"pricing"} : row'[p] = row[p]
    BY <1>1, <1>2, <1>4 DEF PutPricing, FormsCore, FormsTypeOK
  <2>2. Moves(s, "answered")
    BY <1>1, <1>4, RespondMoves DEF PutPricing
  <2> QED BY <1>3, <1>4, <2>1, <2>2, PutKeeps DEF PutPricing
<1>5. CASE PutMachine(s) /\ requests[s].value \notin Invalid
  <2>1. /\ row' \in [Parts -> SomeValue] /\ row'["secret"] = row["secret"]
        /\ row'["machine"] = requests[s].value /\ \A p \in Kinds \ {"machine"} : row'[p] = row[p]
    BY <1>1, <1>2, <1>5 DEF PutMachine, FormsCore, FormsTypeOK
  <2>2. Moves(s, "answered")
    BY <1>1, <1>5, RespondMoves DEF PutMachine
  <2> QED BY <1>3, <1>5, <2>1, <2>2, PutKeeps DEF PutMachine
<1>6. CASE PutMachine(s) /\ requests[s].value \in Invalid
  <2>1. UNCHANGED <<row, brand, form, typed>> /\ Respond(s, "failed") /\ Reached(s) /\ requests[s].what = "save"
    BY <1>6 DEF PutMachine
  <2>2. CASE excused' = excused
    <3>1. row' \in [Parts -> SomeValue] /\ row'["secret"] = row["secret"] /\ \A p \in Kinds : row'[p] = row[p]
      BY <2>1 DEF FormsCore, FormsTypeOK
    <3>2. Moves(s, "failed")
      BY <2>1, RespondMoves
    <3> QED BY <2>1, <2>2, <3>1, <3>2, PhaseKeeps
  <2>3. CASE excused' # excused
    <3>1. excused' = TRUE
      BY <2>1, <2>3 DEF Reached, FormsCore, FormsTypeOK
    <3>2. /\ requests' \in [Slots -> RequestRecords]
          /\ requests'[s].what = requests[s].what /\ requests'[s].kind = requests[s].kind
          /\ requests'[s].here = requests[s].here /\ requests'[s].phase = "failed"
          /\ requests'[s].value = requests[s].value
          /\ \A t \in Slots \ {s} : requests'[t] = requests[t]
      BY <2>1 DEF FormsCore, FormsTypeOK, Respond, RequestRecords
    <3>3. \A t \in Slots : CallOK(t)'
      BY <2>1, <3>2 DEF FormsCore, CallOK, Mine
    <3> QED BY <2>1, <3>1, <3>2, <3>3 DEF FormsCore, FormsTypeOK, FormsAreHonest
  <2> QED BY <2>2, <2>3
<1>7. CASE UpdateBusiness(s)
  <2>1. requests[s].what = "save" /\ requests[s].secret \notin Refused /\ requests[s].secret \in SomeValue
    BY <1>7 DEF UpdateBusiness, FormsCore, CallOK, FormsTypeOK, RequestRecords
  <2> DEFINE parts == [row EXCEPT ![requests[s].kind] = requests[s].value]
  <2>2. /\ parts \in [Parts -> SomeValue] /\ parts["secret"] = row["secret"]
        /\ parts[requests[s].kind] = requests[s].value
             /\ \A p \in Kinds \ {requests[s].kind} : parts[p] = row[p]
    BY <1>1, <1>2, <2>1 DEF FormsCore, FormsTypeOK
  <2>3. row' = IF requests[s].secret = None THEN parts ELSE [parts EXCEPT !["secret"] = requests[s].secret]
    BY <1>7 DEF UpdateBusiness, WithSecret
  <2> HIDE DEF parts
  <2>4. /\ row' \in [Parts -> SomeValue] /\ row'["secret"] \notin Refused
        /\ row'[requests[s].kind] = requests[s].value /\ \A p \in Kinds \ {requests[s].kind} : row'[p] = row[p]
    BY <1>1, <1>2, <1>3, <2>1, <2>2, <2>3
  <2>5. \A p \in Business : row'[p] \in Values
    BY <1>1, <1>2, <2>1, <2>4 DEF FormsCore, FormsTypeOK
  <2>6. Moves(s, "answered")
    BY <1>7, <2>5, ConfigMoves DEF UpdateBusiness
  <2> QED BY <1>7, <2>1, <2>4, <2>6, PutKeeps DEF UpdateBusiness
<1> QED BY <1>4, <1>5, <1>6, <1>7

\* Somebody else saves a part: it excuses the form of that part.
LEMMA ElsewhereKeeps ==
    FormsCore /\ (\E v \in Values, p \in Kinds : Elsewhere(p, v)) => FormsCore'
<1> SUFFICES ASSUME FormsCore, NEW v \in Values, NEW p \in Kinds, Elsewhere(p, v) PROVE FormsCore'
  OBVIOUS
<1>1. /\ row' \in [Parts -> SomeValue] /\ row'["secret"] = row["secret"]
      /\ \A q \in Kinds : row'[q] \in Values
      /\ excused' = TRUE /\ UNCHANGED <<brand, form, requests, typed>>
  BY DEF Elsewhere, FormsCore, FormsTypeOK, SomeValue, Kinds, Parts, Business
<1>2. FormsTypeOK'
  BY <1>1 DEF FormsCore, FormsTypeOK
<1>3. \A t \in Slots : CallOK(t)'
  BY <1>1 DEF FormsCore, CallOK, Mine
<1> QED BY <1>1, <1>2, <1>3 DEF FormsCore, FormsAreHonest

\* An answer frees its slot. It changes the form only if the form has asked, and then the
\* form shows what the server holds.
LEMMA AnswerKeeps ==
    ASSUME FormsCore, NEW s \in Slots, requests[s].what # "none", Finished(s),
           UNCHANGED <<row, typed, excused>>, brand' \in [Business -> Values],
           form' \in [kind: Kinds \union {"away"}, value: Values, original: Values, secret: SomeValue,
                      file: BOOLEAN, dirty: BOOLEAN, saved: BOOLEAN, checking: BOOLEAN],
           form'.kind = form.kind, ~Mine(s) => form' = form, form'.dirty => ~form'.saved,
           Mine(s) /\ ~excused =>
             /\ form'.saved /\ ~form'.dirty => row[form.kind] = form'.value
             /\ typed # None => form'.value = typed
    PROVE  FormsCore'
<1>1. /\ requests' \in [Slots -> RequestRecords] /\ requests'[s] = NoRequest
      /\ \A t \in Slots \ {s} : requests'[t] = requests[t]
  BY NoRequestIs DEF Finished, FormsCore, FormsTypeOK
<1>2. FormsTypeOK'
  BY <1>1 DEF FormsCore, FormsTypeOK
<1>3. \A t \in Slots : CallOK(t)'
  <2> TAKE t \in Slots
  <2>1. CASE t = s
    BY <1>1, <2>1, NoRequestIs DEF CallOK, Mine
  <2>2. CASE t # s
    BY <1>1, <2>2 DEF FormsCore, CallOK, Mine
  <2> QED BY <2>1, <2>2
<1>4. ~Mine(s)' /\ \A t \in Slots \ {s} : Mine(t)' = Mine(t)
  BY <1>1, NoRequestIs DEF Mine
<1>5. ~excused' => \A t \in Slots : Mine(t)' => PendingOK(t)'
  <2> SUFFICES ASSUME ~excused', NEW t \in Slots, Mine(t)' PROVE PendingOK(t)'
    OBVIOUS
  <2>1. t # s /\ Mine(t) /\ PendingOK(t)
    BY <1>4 DEF FormsCore
  <2>2. form' = form
    BY <2>1 DEF PendingOK
  <2> QED BY <1>1, <1>4, <2>1, <2>2 DEF PendingOK
<1>6. form'.dirty \/ form'.saved => form'.kind # "away"
  <2>1. CASE Mine(s)
    BY <2>1 DEF FormsCore, CallOK, Kinds, Business
  <2>2. CASE ~Mine(s)
    BY <2>2 DEF FormsCore
  <2> QED BY <2>1, <2>2
<1>7. FormsAreHonest'
  <2>1. CASE Mine(s)
    BY <2>1 DEF FormsCore, FormsAreHonest
  <2>2. CASE ~Mine(s)
    BY <2>2 DEF FormsCore, FormsAreHonest
  <2> QED BY <2>1, <2>2
<1> QED BY <1>2, <1>3, <1>5, <1>6, <1>7 DEF FormsCore

\* The row that the shell shows stays one of values.
LEMMA BrandedIs ==
    ASSUME FormsCore, NEW s \in Slots, requests[s].what \in {"save", "logo"}, requests[s].phase = "answered"
    PROVE  Branded(s) \in [Business -> Values]
BY DEF Branded, FormsCore, FormsTypeOK, CallOK

\* Resetting the form for clean keeps its value.
LEMMA CleanIs ==
    ASSUME FormsCore, NEW v \in Values
    PROVE  /\ Clean \in [kind: Kinds \union {"away"}, value: Values, original: Values, secret: SomeValue,
                         file: BOOLEAN, dirty: BOOLEAN, saved: BOOLEAN, checking: BOOLEAN]
           /\ Clean.kind = form.kind /\ Clean.value = form.value /\ Clean.dirty = FALSE
BY DEF Clean, FormsCore, FormsTypeOK

\* The answers of a load, of a save and of a logo, and a failure.
LEMMA AnswersKeep ==
    FormConstants /\ FormsCore /\
    (\E s \in Slots : LoadArrives(s) \/ SaveArrives(s) \/ PaymentsSaved(s) \/ LogoSaved(s) \/ Fails(s))
          => FormsCore'
<1> SUFFICES ASSUME FormConstants, FormsCore, NEW s \in Slots,
                    LoadArrives(s) \/ SaveArrives(s) \/ PaymentsSaved(s) \/ LogoSaved(s) \/ Fails(s)
             PROVE  FormsCore'
  OBVIOUS
<1> DEFINE Forms == [kind: Kinds \union {"away"}, value: Values, original: Values, secret: SomeValue,
                     file: BOOLEAN, dirty: BOOLEAN, saved: BOOLEAN, checking: BOOLEAN]
<1>1. form \in Forms /\ brand \in [Business -> Values] /\ None \in SomeValue
  BY DEF FormsCore, FormsTypeOK, SomeValue
<1>2. requests[s].what # "none"
  BY DEF LoadArrives, SaveArrives, PaymentsSaved, LogoSaved, Fails, FormsCore, CallOK
<1>3. Mine(s) /\ ~excused => PendingOK(s)
  BY DEF FormsCore
<1>4. typed # None /\ ~excused => form.value = typed
  BY DEF FormsCore, FormsAreHonest
<1>5. requests[s].kind = form.kind \/ ~Mine(s)
  BY DEF FormsCore, CallOK
<1>6. Clean \in Forms /\ Clean.kind = form.kind /\ Clean.value = form.value /\ Clean.dirty = FALSE
  BY <1>1 DEF Clean
<1>7. CASE LoadArrives(s)
  <2>1. requests[s].value \in Values /\ requests[s].what = "load"
    BY <1>7 DEF LoadArrives, FormsCore, CallOK
  <2>2. /\ form' \in Forms /\ form'.kind = form.kind /\ form'.dirty = form.dirty /\ form'.saved = form.saved
        /\ ~Mine(s) => form' = form
    BY <1>1, <1>7, <2>1 DEF LoadArrives
  <2>3. form'.dirty => ~form'.saved
    BY <2>2 DEF FormsCore
  <2>4. UNCHANGED <<row, brand, typed, excused>> /\ Finished(s)
    BY <1>7 DEF LoadArrives
  <2>5. Mine(s) /\ ~excused => ~form'.saved /\ typed = None
    BY <1>3, <2>1, <2>2 DEF PendingOK
  <2> HIDE DEF Forms
  <2> QED BY <1>1, <1>2, <2>2, <2>3, <2>4, <2>5, AnswerKeeps DEF Forms
<1>8. CASE SaveArrives(s)
  <2>1. requests[s].value \in Values /\ requests[s].what = "save" /\ requests[s].phase = "answered"
    BY <1>8 DEF SaveArrives, FormsCore, CallOK
  <2>2. /\ Adopted(s) \in Forms /\ Adopted(s).kind = form.kind /\ Adopted(s).dirty = FALSE
        /\ Adopted(s).value = requests[s].value
    BY <1>6, <2>1 DEF Adopted
  <2>3. brand' \in [Business -> Values]
    BY <1>8, <2>1, BrandedIs DEF SaveArrives
  <2>4. UNCHANGED <<row, typed, excused>> /\ Finished(s) /\ form' = IF Mine(s) THEN Adopted(s) ELSE form
    BY <1>8 DEF SaveArrives
  <2>5. form'.dirty => ~form'.saved
    BY <2>2, <2>4 DEF FormsCore
  <2>6. Mine(s) /\ ~excused => row[form.kind] = requests[s].value /\ (typed # None => requests[s].value = typed)
    BY <1>3, <2>1 DEF PendingOK
  <2> HIDE DEF Forms
  <2>7. form' \in Forms /\ form'.kind = form.kind
    BY <1>1, <2>2, <2>4
  <2> QED BY <1>2, <2>2, <2>3, <2>4, <2>5, <2>6, <2>7, AnswerKeeps DEF Forms
<1>9. CASE PaymentsSaved(s)
  <2> DEFINE Kept == [Clean EXCEPT !.secret = None]
  <2>1. requests[s].what = "save" /\ requests[s].phase = "answered" /\ requests[s].kind = "payments"
    BY <1>9 DEF PaymentsSaved
  <2>2. Kept \in Forms /\ Kept.kind = form.kind /\ Kept.dirty = FALSE /\ Kept.value = form.value
    BY <1>1, <1>6
  <2>7. brand' \in [Business -> Values]
    BY <1>9, <2>1, BrandedIs DEF PaymentsSaved
  <2>3. UNCHANGED <<row, typed, excused>> /\ Finished(s) /\ form' = IF Mine(s) THEN Kept ELSE form
    BY <1>9 DEF PaymentsSaved
  <2> HIDE DEF Forms, Kept
  <2>4. form'.dirty => ~form'.saved
    BY <2>2, <2>3 DEF FormsCore
  <2>5. Mine(s) /\ ~excused => row[form.kind] = form.value
    BY <1>3, <1>5, <2>1 DEF PendingOK
  <2>6. form' \in Forms /\ form'.kind = form.kind
    BY <1>1, <2>2, <2>3
  <2> QED BY <1>1, <1>2, <1>4, <2>2, <2>3, <2>4, <2>5, <2>6, <2>7, AnswerKeeps DEF Forms
<1>10. CASE LogoSaved(s)
  <2> DEFINE Kept == [Clean EXCEPT !.file = FALSE]
  <2>1. requests[s].what = "logo" /\ requests[s].value \in Values /\ requests[s].phase = "answered"
    BY <1>10 DEF LogoSaved, FormsCore, CallOK
  <2>2. Kept \in Forms /\ Kept.kind = form.kind /\ Kept.dirty = FALSE /\ Kept.value = form.value
    BY <1>1, <1>6
  <2>3. brand' \in [Business -> Values]
    BY <1>10, <2>1, BrandedIs DEF LogoSaved
  <2>4. UNCHANGED <<row, typed, excused>> /\ Finished(s) /\ form' = IF Mine(s) THEN Kept ELSE form
    BY <1>10 DEF LogoSaved
  <2> HIDE DEF Forms, Kept
  <2>5. form'.dirty => ~form'.saved
    BY <2>2, <2>4 DEF FormsCore
  <2>8. requests[s].kind = "branding"
    BY <2>1 DEF FormsCore, CallOK
  <2>6. Mine(s) /\ ~excused => row[form.kind] = form.value
    BY <1>3, <1>5, <2>1, <2>8 DEF PendingOK
  <2>7. form' \in Forms /\ form'.kind = form.kind
    BY <1>1, <2>2, <2>4
  <2> QED BY <1>2, <1>4, <2>2, <2>3, <2>4, <2>5, <2>6, <2>7, AnswerKeeps DEF Forms
<1>11. CASE Fails(s)
  <2> DEFINE Kept == [form EXCEPT !.checking = FALSE]
  <2>1. Kept \in Forms /\ Kept.kind = form.kind /\ Kept.dirty = form.dirty /\ Kept.saved = form.saved
        /\ Kept.value = form.value
    BY <1>1
  <2>2. UNCHANGED <<row, brand, typed, excused>> /\ Finished(s) /\ form' = IF Mine(s) THEN Kept ELSE form
    BY <1>11 DEF Fails
  <2> HIDE DEF Forms, Kept
  <2>3. form'.dirty => ~form'.saved
    BY <2>1, <2>2 DEF FormsCore
  <2>4. Mine(s) /\ ~excused => ~form.saved
    BY <1>3 DEF PendingOK
  <2>5. form' \in Forms /\ form'.kind = form.kind
    BY <1>1, <2>1, <2>2
  <2> QED BY <1>1, <1>2, <1>4, <2>1, <2>2, <2>3, <2>4, <2>5, AnswerKeeps DEF Forms
<1> QED BY <1>7, <1>8, <1>9, <1>10, <1>11

\* The answer of the branding form: the logo follows where one was chosen.
LEMMA BrandingKeeps == FormConstants /\ FormsCore /\ (\E s \in Slots : BrandingSaved(s)) => FormsCore'
<1> SUFFICES ASSUME FormConstants, FormsCore, NEW s \in Slots, BrandingSaved(s) PROVE FormsCore'
  OBVIOUS
<1>1. /\ requests[s].what = "save" /\ requests[s].phase = "answered" /\ requests[s].kind = "branding"
      /\ UNCHANGED <<row, typed, excused>>
  BY DEF BrandingSaved
<1>2. requests[s].value \in Values
  BY <1>1 DEF FormsCore, CallOK
<1>3. CASE (Mine(s) /\ form.file) \/ requests[s].file
  <2>1. /\ requests' \in [Slots -> RequestRecords]
        /\ requests'[s].what = "logo" /\ requests'[s].kind = requests[s].kind
        /\ requests'[s].here = requests[s].here /\ requests'[s].phase = "sent"
        /\ requests'[s].value = requests[s].value
        /\ \A t \in Slots \ {s} : requests'[t] = requests[t]
        /\ UNCHANGED <<form, brand>>
    BY <1>3 DEF FormsCore, FormsTypeOK, BrandingSaved, RequestRecords
  <2>2. FormsTypeOK'
    BY <1>1, <2>1 DEF FormsCore, FormsTypeOK
  <2>3. \A t \in Slots : CallOK(t)'
    BY <1>1, <1>2, <2>1 DEF FormsCore, CallOK, Mine
  <2>4. ~excused' => \A t \in Slots : Mine(t)' => PendingOK(t)'
    <3> SUFFICES ASSUME ~excused', NEW t \in Slots, Mine(t)' PROVE PendingOK(t)'
      OBVIOUS
    <3>1. \A u \in Slots : Mine(u)' = Mine(u)
      BY <2>1 DEF Mine
    <3>2. PendingOK(t)
      BY <1>1, <3>1 DEF FormsCore
    <3> QED BY <1>1, <2>1, <3>1, <3>2 DEF PendingOK
  <2> QED BY <1>1, <2>1, <2>2, <2>3, <2>4 DEF FormsCore, FormsAreHonest
<1>4. CASE ~((Mine(s) /\ form.file) \/ requests[s].file)
  <2>1. Finished(s) /\ brand' = Branded(s) /\ form' = IF Mine(s) THEN Clean ELSE form
    BY <1>4 DEF BrandingSaved
  <2>2. brand' \in [Business -> Values]
    BY <1>1, <2>1, BrandedIs
  <2>3. /\ Clean \in [kind: Kinds \union {"away"}, value: Values, original: Values, secret: SomeValue,
                      file: BOOLEAN, dirty: BOOLEAN, saved: BOOLEAN, checking: BOOLEAN]
        /\ Clean.kind = form.kind /\ Clean.value = form.value /\ Clean.dirty = FALSE
    BY <1>2, CleanIs
  <2>4. form' \in [kind: Kinds \union {"away"}, value: Values, original: Values, secret: SomeValue,
                   file: BOOLEAN, dirty: BOOLEAN, saved: BOOLEAN, checking: BOOLEAN]
        /\ form'.kind = form.kind /\ form'.value = form.value
    BY <2>1, <2>3 DEF FormsCore, FormsTypeOK
  <2>5. form'.dirty => ~form'.saved
    BY <2>1, <2>3 DEF FormsCore
  <2>6. Mine(s) /\ ~excused => row[form.kind] = form.value /\ (typed # None => form.value = typed)
    BY <1>1 DEF FormsCore, CallOK, PendingOK
  <2> QED BY <1>1, <2>1, <2>2, <2>4, <2>5, <2>6, AnswerKeeps
<1> QED BY <1>3, <1>4

\* The invariant of the settings forms: a call of the open form carries what was typed, and
\* what it has written is what the server holds.
THEOREM FormsInvariant == FormsSpec => []FormsCore
<1>1. FormsInit => FormsCore
  BY FormConstants, InitForms
<1>2. FormsCore /\ [FormsNext]_formVars => FormsCore'
  <2> SUFFICES ASSUME FormsCore, [FormsNext]_formVars PROVE FormsCore'
    OBVIOUS
  <2> USE FormConstants
  <2>1. CASE UNCHANGED formVars
    BY <2>1 DEF formVars, FormsCore, FormsTypeOK, CallOK, PendingOK, Mine, FormsAreHonest
  <2> QED
    BY <2>1, OpenFormKeeps, EditKeeps, OtherFieldsKeep, ResetKeeps, SaveKeeps, LoadServed, ServerKeeps,
       SavesKeep,
       ElsewhereKeeps, AnswersKeep, BrandingKeeps
    DEF FormsNext
<1> QED BY <1>1, <1>2, PTL DEF FormsSpec

\* FormsAreHonest for any number of slots, values and moves: saved forms show the server's
\* row, typed text stays, and no refused key is stored.
THEOREM HonestForms == FormsSpec => []FormsAreHonest
BY FormsInvariant, PTL DEF FormsCore

-----------------------------------------------------------------------------
(* Lists of quotes and orders: module Listings *)

\* Addresses of a list.
Queries == [status : Statuses, sort : Sorts, page : 1 .. MaxPages]
\* Every state of a call.
Lookups == [slot : 1 .. MaxAsked, query : Queries, items : {None} \union SUBSET Nat, pages : {None} \union Nat]

\* Types of the lists.
ListingTypeOK ==
    /\ listing \in {"quotes", "orders", "adminOrders"}
    /\ table \in Seq(RowRecords)
    /\ query \in Queries
    /\ view \in [items : SUBSET Nat, pages : Nat, loading : BOOLEAN, error : BOOLEAN]
    /\ lookups \subseteq Lookups /\ IsFiniteSet(lookups)
    /\ walk \in [due : SUBSET Nat, seen : SUBSET Nat, excused : BOOLEAN]

\* Rows that sort before row i.
RowsBefore(i, tie) == {j \in Matching(query) : Precedes(j, i, query.sort, tie)}
\* At least n rows sort before row i.
Behind(i, n) == \E tie \in BOOLEAN : Cardinality(RowsBefore(i, tie)) >= n
\* Rows of the walk that no page has shown yet.
Unseen == walk.due \ walk.seen

\* Before the rows of an answer are read: the unseen rows sort behind the pages before, and
\* the pages it has counted are those there are.
Unread(a) ==
    /\ \A i \in Unseen, tie \in BOOLEAN : Cardinality(RowsBefore(i, tie)) >= Skipped(query)
    /\ a.pages # None => a.pages = TotalPages(Cardinality(Matching(query)))
\* Every unseen row is either among these or behind the page of the address.
ReadTo(items) == \A i \in Unseen \ items : Behind(i, query.page * PageSize)
\* After its rows are read: where a row is still unseen, the pages it has counted go on.
Read(a) == ReadTo(a.items) /\ (a.pages # None /\ Unseen \ a.items # {} => a.pages > query.page)

\* A walk that nothing excuses: its rows are still there, its only call is for the address,
\* and what is unseen lies ahead.
WalkOK ==
    ~walk.excused =>
        /\ walk.due \subseteq Matching(query)
        /\ \A a \in lookups : lookups = {a} /\ a.query = query
        /\ \A a \in lookups : IF a.items = None THEN Unread(a) ELSE Read(a)
        /\ lookups = {} => ReadTo({}) /\ (Unseen # {} => view.pages > query.page)

\* The inductive invariant of the lists.
ListingCore == ListingTypeOK /\ WalkOK

\* Whole quotients.
LEMMA DivIs ==
    ASSUME NEW S \in Nat \ {0}, NEW m \in Nat
    PROVE  (m \div S) \in Nat /\ S * (m \div S) <= m /\ m < S * (m \div S) + S
OBVIOUS

\* A smaller product has a smaller factor.
LEMMA FewerTurns == ASSUME NEW S \in Nat \ {0}, NEW p \in Nat, NEW q \in Nat, S * p < S * q PROVE p < q
<1>1. q <= p => S * q <= S * p
  OBVIOUS
<1> QED BY <1>1

\* The last page holds what is over.
LEMMA PagesSuffice ==
    ASSUME ListingConstants, NEW n \in Nat
    PROVE  TotalPages(n) \in Nat /\ \A p \in Nat : n > p * PageSize => TotalPages(n) > p
<1> DEFINE q == (n + PageSize - 1) \div PageSize
<1>1. PageSize \in Nat \ {0} /\ n + PageSize - 1 \in Nat
  BY DEF ListingConstants
<1>2. q \in Nat /\ n + PageSize - 1 < PageSize * q + PageSize
  BY <1>1, DivIs
<1> HIDE DEF q
<1>3. ASSUME NEW p \in Nat, n > p * PageSize PROVE q > p /\ n # 0
  <2>1. PageSize * q + PageSize = PageSize * (q + 1) /\ p * PageSize + PageSize = PageSize * (p + 1)
          /\ p * PageSize \in Nat
    BY <1>1, <1>2
  <2>2. PageSize * (p + 1) < PageSize * (q + 1)
    BY <1>1, <1>2, <1>3, <2>1
  <2>3. p + 1 < q + 1
    BY <1>1, <1>2, <2>2, FewerTurns
  <2> QED BY <1>2, <1>3, <2>1, <2>3
<1> QED BY <1>2, <1>3 DEF TotalPages, q

\* A page on, a page size more is skipped.
LEMMA NextSkip ==
    ASSUME ListingConstants, NEW p \in Nat \ {0}
    PROVE  (p - 1) * PageSize + PageSize = p * PageSize /\ (p - 1) * PageSize \in Nat /\ p * PageSize \in Nat
BY DEF ListingConstants

\* Later pages skip more.
LEMMA SkipsGrow ==
    ASSUME ListingConstants, NEW p \in Nat, NEW q \in Nat, p <= q
    PROVE  p * PageSize <= q * PageSize /\ p * PageSize \in Nat /\ q * PageSize \in Nat
BY DEF ListingConstants

\* Cardinality of subsets of an interval.
LEMMA CountGrows ==
    ASSUME NEW n \in Nat, NEW T \in SUBSET (1 .. n), NEW S \in SUBSET T
    PROVE  /\ Cardinality(S) \in Nat /\ Cardinality(T) \in Nat /\ Cardinality(S) <= Cardinality(T)
           /\ S # T => Cardinality(S) < Cardinality(T)
<1>1. IsFiniteSet(T)
  <2>1. IsFiniteSet(1 .. n)
    BY FS_Interval
  <2> QED BY <2>1, FS_Subset
<1>2. IsFiniteSet(S) /\ Cardinality(S) <= Cardinality(T) /\ (Cardinality(S) = Cardinality(T) => S = T)
  BY <1>1, FS_Subset
<1> QED BY <1>1, <1>2, FS_CardinalityType

\* Rows are numbered from 1, and a row has fewer rows before it than there are.
LEMMA RowsAreFew ==
    ASSUME ListingTypeOK
    PROVE  /\ Len(table) \in Nat
           /\ \A q : Matching(q) \in SUBSET (1 .. Len(table))
           /\ \A i, tie : RowsBefore(i, tie) \in SUBSET Matching(query)
           /\ \A q : Cardinality(Matching(q)) \in Nat
           /\ \A i, tie : Cardinality(RowsBefore(i, tie)) \in Nat
           /\ \A i \in Matching(query), tie \in BOOLEAN : Cardinality(RowsBefore(i, tie)) < Cardinality(Matching(query))
<1>1. Len(table) \in Nat /\ DOMAIN table = 1 .. Len(table) /\ \A i \in 1 .. Len(table) : table[i] \in RowRecords
  BY DEF ListingTypeOK
<1>2. \A q : Matching(q) \in SUBSET (1 .. Len(table))
  BY <1>1 DEF Matching, Rows
<1>3. \A i, tie : RowsBefore(i, tie) \in SUBSET Matching(query)
  BY DEF RowsBefore
<1>4. \A i \in Matching(query), tie \in BOOLEAN : i \notin RowsBefore(i, tie)
  <2> SUFFICES ASSUME NEW i \in Matching(query), NEW tie \in BOOLEAN, i \in RowsBefore(i, tie) PROVE FALSE
    OBVIOUS
  <2>1. i \in 1 .. Len(table) /\ table[i].worth \in Nat /\ query.sort \in {"newest", "oldest", "total"}
    BY <1>1, <1>2 DEF RowRecords, ListingTypeOK, Queries, Sorts
  <2>2. Precedes(i, i, query.sort, tie)
    BY DEF RowsBefore
  <2>3. CASE query.sort = "total"
    BY <1>1, <2>1, <2>2, <2>3 DEF Precedes
  <2>4. CASE query.sort = "newest"
    BY <1>1, <2>1, <2>2, <2>4 DEF Precedes
  <2>5. CASE query.sort = "oldest"
    BY <1>1, <2>1, <2>2, <2>5 DEF Precedes
  <2> QED BY <2>1, <2>3, <2>4, <2>5
<1> QED BY <1>1, <1>2, <1>3, <1>4, CountGrows

\* Where no two rows tie, the order does not depend on how ties are broken.
LEMMA NoTies ==
    ASSUME ListingTypeOK, ~Ties(query), NEW i \in Matching(query), NEW s \in BOOLEAN, NEW t \in BOOLEAN
    PROVE  RowsBefore(i, s) = RowsBefore(i, t)
<1>1. query.sort \in {"newest", "oldest", "total"} /\ Matching(query) \in SUBSET (1 .. Len(table))
  BY RowsAreFew DEF ListingTypeOK, Queries, Sorts
<1>2. \A j \in Matching(query) : j \in 1 .. Len(table) /\ table[j].worth \in Nat
  <2> TAKE j \in Matching(query)
  <2>1. j \in 1 .. Len(table)
    BY <1>1
  <2>2. table[j] \in RowRecords
    BY <2>1 DEF ListingTypeOK
  <2> QED BY <2>1, <2>2 DEF RowRecords
<1>3. \A j \in Matching(query) : Precedes(j, i, query.sort, s) <=> Precedes(j, i, query.sort, t)
  <2> TAKE j \in Matching(query)
  <2>1. CASE query.sort = "total"
    BY <1>2, <2>1 DEF Ties, Precedes
  <2>2. CASE query.sort = "oldest"
    BY <2>2 DEF Precedes
  <2>3. CASE query.sort = "newest"
    BY <2>3 DEF Precedes
  <2> QED BY <1>1, <2>1, <2>2, <2>3
<1> QED BY <1>3 DEF RowsBefore

\* There is a free slot for the next call.
LEMMA FreshSlot ==
    ASSUME ListingConstants, ListingTypeOK, Cardinality(lookups) < MaxAsked, NEW q
    PROVE  Question(q).slot \in 1 .. MaxAsked
<1> DEFINE slots == {a.slot : a \in lookups}
           f == [a \in lookups |-> a.slot]
<1>1. f \in Surjection(lookups, slots)
  BY DEF Surjection
<1>2. IsFiniteSet(slots) /\ Cardinality(slots) <= Cardinality(lookups)
  BY <1>1, FS_Surjection DEF ListingTypeOK
<1>3. Cardinality(lookups) \in Nat /\ Cardinality(slots) \in Nat /\ MaxAsked \in Nat
  BY <1>2, FS_CardinalityType DEF ListingTypeOK, ListingConstants
<1>4. \E n \in 1 .. MaxAsked : n \notin slots
  <2> SUFFICES ASSUME 1 .. MaxAsked \subseteq slots PROVE FALSE
    OBVIOUS
  <2>1. Cardinality(1 .. MaxAsked) = MaxAsked
    BY <1>3, FS_Interval
  <2>2. Cardinality(1 .. MaxAsked) <= Cardinality(slots)
    BY <1>2, FS_Subset
  <2> QED BY <1>2, <1>3, <2>1, <2>2
<1> QED BY <1>4 DEF Question

\* No walk is excused for good.
LEMMA NoWalkIs == NoWalk \in [due : SUBSET Nat, seen : SUBSET Nat, excused : BOOLEAN] /\ NoWalk.excused = TRUE
BY DEF NoWalk

\* A walk begins on the first page, with all rows unseen.
LEMMA WalkIs ==
    ASSUME ListingTypeOK, NEW q
    PROVE  /\ Walk(q) \in [due : SUBSET Nat, seen : SUBSET Nat, excused : BOOLEAN]
           /\ ~Walk(q).excused => ~Ties(q) /\ q.page = 1 /\ Walk(q).due = Matching(q) /\ Walk(q).seen = {}
<1>1. Matching(q) \in SUBSET Nat
  BY RowsAreFew
<1> QED BY <1>1, NoWalkIs DEF Walk

\* The first page skips nothing.
LEMMA FirstPage ==
    ASSUME ListingConstants, ListingTypeOK, query.page = 1
    PROVE  Skipped(query) = 0 /\ \A i, tie : Cardinality(RowsBefore(i, tie)) >= Skipped(query)
<1>1. Skipped(query) = 0
  BY DEF Skipped, ListingConstants
<1> QED BY <1>1, RowsAreFew

\* At the start the first page of a list is asked for.
LEMMA InitListing == ListingConstants /\ ListingInit => ListingCore
<1> SUFFICES ASSUME ListingConstants, ListingInit PROVE ListingCore
  OBVIOUS
<1> DEFINE a == [slot |-> 1, query |-> query, items |-> None, pages |-> None]
<1>1. lookups = {a} /\ a.query = query /\ a.items = None /\ a.pages = None /\ IsFiniteSet({a})
  BY FS_Singleton DEF ListingInit
<1>2. table \in Seq(RowRecords) /\ query \in Queries
  BY DEF ListingInit, ListingConstants, Queries
<1>3. Matching(query) \in SUBSET Nat
  BY <1>2 DEF Matching, Rows
<1>4. walk \in [due : SUBSET Nat, seen : SUBSET Nat, excused : BOOLEAN]
  BY <1>3, NoWalkIs DEF ListingInit, Walk
<1>5. ListingTypeOK
  BY <1>1, <1>2, <1>4 DEF ListingInit, ListingTypeOK, Lookups, ListingConstants
<1>6. WalkOK
  <2> SUFFICES ASSUME ~walk.excused PROVE WalkOK
    BY DEF WalkOK
  <2>1. query.page = 1 /\ walk.due = Matching(query)
    BY <1>5, WalkIs DEF ListingInit
  <2>2. Unread(a)
    BY <1>1, <1>5, <2>1, FirstPage DEF Unread, Unseen
  <2> HIDE DEF a
  <2> QED BY <1>1, <2>1, <2>2 DEF WalkOK
<1> QED BY <1>5, <1>6 DEF ListingCore

\* A new row sorts in anywhere: it moves rows back over a page break, never forward.
LEMMA CreateRowKeeps ==
    ListingConstants /\ ListingCore /\ (\E w \in Worths, mine \in BOOLEAN : CreateRow(w, mine)) => ListingCore'
<1> SUFFICES ASSUME ListingConstants, ListingCore, NEW w \in Worths, NEW mine \in BOOLEAN, CreateRow(w, mine)
             PROVE  ListingCore'
  OBVIOUS
<1> DEFINE n == Len(table)
           r == [mine |-> mine, worth |-> w, status |-> "first"]
<1>1. ListingTypeOK /\ table \in Seq(RowRecords) /\ n \in Nat /\ r \in RowRecords
  BY DEF ListingCore, ListingTypeOK, RowRecords, ListingConstants
<1>2. /\ table' \in Seq(RowRecords) /\ Len(table') = n + 1 /\ \A i \in 1 .. n : table'[i] = table[i]
      /\ UNCHANGED <<listing, query, view, lookups>>
  BY <1>1 DEF CreateRow
<1>3. ListingTypeOK'
  BY <1>2, NoWalkIs DEF ListingCore, ListingTypeOK, CreateRow, WalkUnless, Lookups, Queries, Statuses, Sorts
<1>4. SUFFICES ASSUME ~walk'.excused PROVE WalkOK'
  BY <1>3 DEF ListingCore, WalkOK
<1>5. walk' = walk /\ \A a \in lookups : a.items = None => a.pages = None
  BY <1>4, NoWalkIs DEF CreateRow, WalkUnless
<1>6. WalkOK /\ ~walk.excused
  BY <1>4, <1>5 DEF ListingCore
<1>7. Matching(query) \in SUBSET (1 .. n) /\ Matching(query)' \in SUBSET (1 .. n + 1)
      /\ Matching(query) \subseteq Matching(query)'
  BY <1>1, <1>2 DEF Matching, Rows
<1>8. \A i \in Matching(query), tie \in BOOLEAN :
        /\ Cardinality(RowsBefore(i, tie)) <= Cardinality(RowsBefore(i, tie)')
        /\ Cardinality(RowsBefore(i, tie)) \in Nat /\ Cardinality(RowsBefore(i, tie)') \in Nat
  <2> TAKE i \in Matching(query), tie \in BOOLEAN
  <2>1. RowsBefore(i, tie) \subseteq RowsBefore(i, tie)'
    <3> SUFFICES ASSUME NEW j \in RowsBefore(i, tie) PROVE j \in RowsBefore(i, tie)'
      OBVIOUS
    <3>1. j \in Matching(query) /\ i \in 1 .. n /\ j \in 1 .. n /\ Precedes(j, i, query.sort, tie)
      BY <1>7 DEF RowsBefore
    <3>2. table'[i] = table[i] /\ table'[j] = table[j]
      BY <1>2, <3>1
    <3>3. Precedes(j, i, query.sort, tie)'
      BY <1>2, <3>1, <3>2 DEF Precedes
    <3> QED BY <1>7, <3>1, <3>3 DEF RowsBefore
  <2>2. RowsBefore(i, tie)' \in SUBSET (1 .. n + 1)
    BY <1>7 DEF RowsBefore
  <2> DEFINE m == n + 1
  <2>3. m \in Nat /\ RowsBefore(i, tie)' \in SUBSET (1 .. m)
    BY <1>1, <2>2
  <2> HIDE DEF m
  <2> QED BY <2>1, <2>3, CountGrows
<1>9. Unseen' = Unseen /\ Unseen \subseteq Matching(query) /\ query.page \in Nat
  BY <1>2, <1>5, <1>6 DEF Unseen, WalkOK, ListingCore, ListingTypeOK, Queries
<1>10. \A i \in Unseen, m \in Nat : Behind(i, m) => Behind(i, m)'
  BY <1>8, <1>9 DEF Behind
<1>11. Skipped(query) \in Nat /\ query.page * PageSize \in Nat /\ Skipped(query)' = Skipped(query)
  BY <1>1, <1>2, NextSkip DEF Skipped, ListingTypeOK, Queries
<1>12. ASSUME NEW a \in lookups PROVE IF a.items = None THEN Unread(a)' ELSE Read(a)'
  <2>1. CASE a.items = None
    <3>1. Unread(a) /\ a.pages = None
      BY <1>5, <1>6, <2>1 DEF WalkOK
    <3>2. \A i \in Unseen', tie \in BOOLEAN : Cardinality(RowsBefore(i, tie)') >= Skipped(query)'
      BY <1>8, <1>9, <1>11, <3>1 DEF Unread
    <3> QED BY <2>1, <3>1, <3>2 DEF Unread
  <2>2. CASE a.items # None
    <3>1. Read(a)
      BY <1>6, <2>2 DEF WalkOK
    <3> QED BY <1>2, <1>9, <1>10, <1>11, <2>2, <3>1 DEF Read, ReadTo
  <2> QED BY <2>1, <2>2
<1>13. lookups = {} => (ReadTo({}) /\ (Unseen # {} => view.pages > query.page))'
  BY <1>2, <1>6, <1>9, <1>10, <1>11 DEF WalkOK, ReadTo
<1> QED BY <1>2, <1>5, <1>6, <1>7, <1>12, <1>13 DEF WalkOK

\* A row that leaves the filter excuses the walk, unless it is not of the walk.
LEMMA LeaveFilterKeeps == ListingConstants /\ ListingCore /\ (\E i \in Rows : LeaveFilter(i)) => ListingCore'
<1> SUFFICES ASSUME ListingConstants, ListingCore, NEW r \in Rows, LeaveFilter(r) PROVE ListingCore'
  OBVIOUS
<1>1. /\ Len(table) \in Nat /\ DOMAIN table = 1 .. Len(table) /\ r \in 1 .. Len(table)
      /\ \A i \in 1 .. Len(table) : table[i] \in RowRecords
      /\ table' = [table EXCEPT ![r].status = "later"] /\ UNCHANGED <<listing, query, view, lookups>>
  BY DEF LeaveFilter, ListingCore, ListingTypeOK, Rows
<1>2. [table[r] EXCEPT !.status = "later"] \in RowRecords
  BY <1>1 DEF RowRecords
<1>3. table' \in Seq(RowRecords) /\ Len(table') = Len(table) /\ DOMAIN table' = DOMAIN table
  BY <1>1, <1>2 DEF ListingCore, ListingTypeOK
<1>4. \A i \in DOMAIN table : table'[i].mine = table[i].mine /\ table'[i].worth = table[i].worth
  BY <1>1 DEF RowRecords
<1>5. ListingTypeOK'
  BY <1>1, <1>3, NoWalkIs DEF ListingCore, ListingTypeOK, LeaveFilter, WalkUnless, Lookups, Queries,
     Statuses, Sorts
<1>6. SUFFICES ASSUME ~walk'.excused PROVE WalkOK'
  BY <1>5 DEF ListingCore, WalkOK
<1>7. walk' = walk /\ query.status = "all"
  BY <1>6, NoWalkIs DEF LeaveFilter, WalkUnless, ListingCore, ListingTypeOK, Queries, Statuses
<1>8. Matching(query)' = Matching(query)
  BY <1>1, <1>3, <1>4, <1>7 DEF Matching, Rows
<1>9. \A i \in Matching(query), tie \in BOOLEAN : RowsBefore(i, tie)' = RowsBefore(i, tie)
  <2> TAKE i \in Matching(query), tie \in BOOLEAN
  <2>1. \A j \in Matching(query) : Precedes(j, i, query.sort, tie)' <=> Precedes(j, i, query.sort, tie)
    <3> TAKE j \in Matching(query)
    <3>1. table'[i].worth = table[i].worth /\ table'[j].worth = table[j].worth
      BY <1>4 DEF Matching, Rows
    <3> QED BY <1>1, <3>1 DEF Precedes
  <2> QED BY <1>1, <1>8, <2>1 DEF RowsBefore
<1>10. WalkOK /\ ~walk.excused /\ Unseen' = Unseen /\ Unseen \subseteq Matching(query)
  BY <1>6, <1>7 DEF ListingCore, WalkOK, Unseen
<1>11. \A i \in Unseen : \A m : Behind(i, m)' <=> Behind(i, m)
  BY <1>9, <1>10 DEF Behind
<1>12. \A items : ReadTo(items) => ReadTo(items)'
  BY <1>1, <1>10, <1>11 DEF ReadTo
<1>13. \A a \in lookups : Unread(a) => Unread(a)'
  BY <1>1, <1>8, <1>9, <1>10 DEF Unread, Skipped
<1>14. \A a \in lookups : Read(a) => Read(a)'
  BY <1>1, <1>10, <1>12 DEF Read
<1> QED BY <1>1, <1>6, <1>7, <1>8, <1>10, <1>12, <1>13, <1>14 DEF WalkOK

\* The count comes first: the pages it finds are enough for what is unseen.
LEMMA CountRowsKeeps == ListingConstants /\ ListingCore /\ (\E a \in lookups : CountRows(a)) => ListingCore'
<1> SUFFICES ASSUME ListingConstants, ListingCore, NEW a \in lookups, CountRows(a) PROVE ListingCore'
  OBVIOUS
<1> DEFINE n == Cardinality(Matching(query))
<1>b. PICK b : b = [a EXCEPT !.pages = TotalPages(Cardinality(Matching(a.query)))]
  OBVIOUS
<1>1. ListingTypeOK /\ a \in Lookups /\ a.pages = None /\ UNCHANGED <<listing, table, query, view, walk>>
  BY DEF CountRows, ListingCore, ListingTypeOK
<1>2. Cardinality(Matching(a.query)) \in Nat
  BY <1>1, RowsAreFew
<1>3. b \in Lookups /\ b.items = a.items /\ b.query = a.query
        /\ b.pages = TotalPages(Cardinality(Matching(a.query)))
  BY <1>1, <1>2, <1>b, PagesSuffice DEF Lookups
<1>4. lookups' = (lookups \ {a}) \union {b}
  BY <1>b DEF CountRows
<1>5. IsFiniteSet(lookups')
  BY <1>1, <1>4, FS_RemoveElement, FS_AddElement DEF ListingTypeOK
<1>6. ListingTypeOK'
  BY <1>1, <1>3, <1>4, <1>5 DEF ListingTypeOK, Lookups, Queries, Statuses, Sorts
<1>7. SUFFICES ASSUME ~walk.excused PROVE WalkOK'
  BY <1>1, <1>6 DEF ListingCore, WalkOK
<1>8. /\ walk.due \subseteq Matching(query) /\ lookups = {a} /\ a.query = query
      /\ IF a.items = None THEN Unread(a) ELSE Read(a)
  BY <1>7 DEF ListingCore, WalkOK
<1>9. lookups' = {b} /\ b.pages = TotalPages(n) /\ n \in Nat
  BY <1>2, <1>3, <1>4, <1>8
<1>10. Matching(query)' = Matching(query) /\ Unseen' = Unseen
         /\ \A i, tie : RowsBefore(i, tie)' = RowsBefore(i, tie)
  BY <1>1 DEF Matching, Rows, Unseen, RowsBefore, Precedes
<1>11. IF b.items = None THEN Unread(b)' ELSE Read(b)'
  <2>1. CASE a.items = None
    BY <1>1, <1>3, <1>8, <1>9, <1>10, <2>1 DEF Unread, Skipped
  <2>2. CASE a.items # None
    <3>1. ReadTo(a.items)
      BY <1>8, <2>2 DEF Read
    <3>2. ReadTo(a.items)'
      BY <1>1, <1>10, <3>1 DEF ReadTo, Behind
    <3>3. ASSUME NEW i \in Unseen \ a.items PROVE b.pages > query.page
      <4>1. PICK tie \in BOOLEAN : Cardinality(RowsBefore(i, tie)) >= query.page * PageSize
        BY <3>1, <3>3 DEF ReadTo, Behind
      <4>2. i \in Matching(query)
        BY <1>8, <3>3 DEF Unseen
      <4>3. Cardinality(RowsBefore(i, tie)) < n /\ Cardinality(RowsBefore(i, tie)) \in Nat
        BY <1>1, <4>2, RowsAreFew
      <4>4. query.page \in Nat \ {0}
        BY <1>1 DEF ListingTypeOK, Queries
      <4>5. query.page * PageSize \in Nat
        BY <4>4, NextSkip
      <4>6. n > query.page * PageSize
        BY <1>9, <4>1, <4>3, <4>5
      <4> QED BY <1>9, <4>4, <4>6, PagesSuffice
    <3> QED BY <1>1, <1>3, <1>10, <2>2, <3>2, <3>3 DEF Read
  <2> QED BY <2>1, <2>2
<1> QED BY <1>1, <1>3, <1>8, <1>9, <1>10, <1>11 DEF WalkOK

\* The rows that are read: what is unseen is among them, or behind the page.
LEMMA FindRowsKeeps ==
    ListingConstants /\ ListingCore /\ (\E a \in lookups, tie \in BOOLEAN : FindRows(a, tie)) => ListingCore'
<1> SUFFICES ASSUME ListingConstants, ListingCore, NEW a \in lookups, NEW tie \in BOOLEAN, FindRows(a, tie)
             PROVE  ListingCore'
  OBVIOUS
<1> DEFINE n == Cardinality(Matching(query))
<1>b. PICK b : b = [a EXCEPT !.items = PageOf(a.query, tie)]
  OBVIOUS
<1>1. ListingTypeOK /\ a \in Lookups /\ a.items = None /\ UNCHANGED <<listing, table, query, view, walk>>
  BY DEF FindRows, ListingCore, ListingTypeOK
<1>2. PageOf(a.query, tie) \in SUBSET Nat
  <2>1. Matching(a.query) \in SUBSET Nat
    BY <1>1, RowsAreFew
  <2> QED BY <2>1 DEF PageOf
<1>3. b \in Lookups /\ b.pages = a.pages /\ b.query = a.query /\ b.items = PageOf(a.query, tie)
  BY <1>1, <1>2, <1>b DEF Lookups
<1>4. lookups' = (lookups \ {a}) \union {b}
  BY <1>b DEF FindRows
<1>5. IsFiniteSet(lookups')
  BY <1>1, <1>4, FS_RemoveElement, FS_AddElement DEF ListingTypeOK
<1>6. ListingTypeOK'
  BY <1>1, <1>3, <1>4, <1>5 DEF ListingTypeOK, Lookups, Queries, Statuses, Sorts
<1>7. SUFFICES ASSUME ~walk.excused PROVE WalkOK'
  BY <1>1, <1>6 DEF ListingCore, WalkOK
<1>8. walk.due \subseteq Matching(query) /\ lookups = {a} /\ a.query = query /\ Unread(a)
  BY <1>1, <1>7 DEF ListingCore, WalkOK
<1>9. lookups' = {b}
  BY <1>4, <1>8
<1>10. Matching(query)' = Matching(query) /\ Unseen' = Unseen /\ \A i, t : RowsBefore(i, t)' = RowsBefore(i, t)
  BY <1>1 DEF Matching, Rows, Unseen, RowsBefore, Precedes
<1>11. query.page \in Nat \ {0} /\ query.page * PageSize \in Nat /\ Skipped(query) \in Nat
       /\ Skipped(query) + PageSize = query.page * PageSize
  BY <1>1, NextSkip DEF ListingTypeOK, Queries, Skipped
<1>12. ASSUME NEW i \in Unseen \ PageOf(query, tie)
       PROVE  /\ Behind(i, query.page * PageSize)
              /\ a.pages # None => a.pages > query.page
  <2>1. i \in Matching(query) /\ Cardinality(RowsBefore(i, tie)) \in Nat
          /\ Cardinality(RowsBefore(i, tie)) < n /\ n \in Nat
    BY <1>1, <1>8, <1>12, RowsAreFew DEF Unseen
  <2>2. Cardinality(RowsBefore(i, tie)) >= Skipped(query)
    BY <1>8, <1>12 DEF Unread
  <2>3. ~(Cardinality(RowsBefore(i, tie)) < Skipped(query) + PageSize)
    BY <1>12, <2>1, <2>2 DEF PageOf, RowsBefore
  <2>4. Cardinality(RowsBefore(i, tie)) >= query.page * PageSize
    BY <1>11, <2>1, <2>3
  <2>5. a.pages # None => a.pages > query.page
    <3>1. n > query.page * PageSize
      BY <1>11, <2>1, <2>4
    <3>2. TotalPages(n) > query.page
      BY <1>11, <2>1, <3>1, PagesSuffice
    <3> QED BY <1>8, <3>2 DEF Unread
  <2> QED BY <2>4, <2>5 DEF Behind
<1>13. IF b.items = None THEN Unread(b)' ELSE Read(b)'
  <2>1. CASE b.items = None
    BY <1>1, <1>3, <1>8, <1>10, <2>1 DEF Unread, Skipped
  <2>2. CASE b.items # None
    BY <1>1, <1>3, <1>8, <1>10, <1>12, <2>2 DEF Read, ReadTo, Behind
  <2> QED BY <2>1, <2>2
<1> QED BY <1>1, <1>3, <1>8, <1>9, <1>10, <1>13 DEF WalkOK

\* The answer is shown, and its rows are seen.
LEMMA ArrivesKeeps == ListingConstants /\ ListingCore /\ (\E a \in lookups : Arrives(a)) => ListingCore'
<1> SUFFICES ASSUME ListingConstants, ListingCore, NEW a \in lookups, Arrives(a) PROVE ListingCore'
  OBVIOUS
<1>1. /\ ListingTypeOK /\ a \in Lookups /\ a.items # None /\ a.pages # None
        /\ UNCHANGED <<listing, table, query>>
      /\ lookups' = lookups \ {a}
  BY DEF Arrives, ListingCore, ListingTypeOK
<1>2. a.items \in SUBSET Nat /\ a.pages \in Nat
  BY <1>1 DEF Lookups
<1>3. /\ view' \in [items : SUBSET Nat, pages : Nat, loading : BOOLEAN, error : BOOLEAN]
      /\ view'.pages = a.pages
  BY <1>1, <1>2 DEF Arrives, ListingTypeOK
<1>4. walk' \in [due : SUBSET Nat, seen : SUBSET Nat, excused : BOOLEAN] /\ walk'.excused = walk.excused
      /\ walk'.due = walk.due /\ (~walk.excused => walk'.seen = walk.seen \union a.items)
  BY <1>1, <1>2 DEF Arrives, ListingTypeOK
<1>5. ListingTypeOK'
  BY <1>1, <1>3, <1>4, FS_RemoveElement DEF ListingTypeOK, Lookups, Queries, Statuses, Sorts
<1>6. SUFFICES ASSUME ~walk.excused PROVE WalkOK'
  BY <1>4, <1>5 DEF ListingCore, WalkOK
<1>7. walk.due \subseteq Matching(query) /\ lookups = {a} /\ a.query = query /\ Read(a)
  BY <1>1, <1>6 DEF ListingCore, WalkOK
<1>8. Matching(query)' = Matching(query) /\ \A i, t : RowsBefore(i, t)' = RowsBefore(i, t)
  BY <1>1 DEF Matching, Rows, RowsBefore, Precedes
<1>9. Unseen' = Unseen \ a.items
  BY <1>4, <1>6 DEF Unseen
<1>10. lookups' = {} /\ ReadTo({})' /\ (Unseen' # {} => view'.pages > query'.page)
  BY <1>1, <1>3, <1>7, <1>8, <1>9 DEF Read, ReadTo, Behind
<1> QED BY <1>4, <1>7, <1>8, <1>10 DEF WalkOK

\* A call that fails excuses the walk.
LEMMA LookupFailsKeeps == ListingConstants /\ ListingCore /\ (\E a \in lookups : LookupFails(a)) => ListingCore'
<1> SUFFICES ASSUME ListingConstants, ListingCore, NEW a \in lookups, LookupFails(a) PROVE ListingCore'
  OBVIOUS
<1>1. ListingTypeOK'
  BY NoWalkIs, FS_RemoveElement DEF ListingCore, ListingTypeOK, LookupFails, Lookups, Queries, Statuses, Sorts
<1> QED BY <1>1, NoWalkIs DEF ListingCore, WalkOK, LookupFails

\* A new address asks for its page: the first one, or one that is at most one page on.
LEMMA NavigateKeeps ==
    ASSUME ListingConstants, ListingCore, NEW q \in Queries, Navigate(q),
           \/ q.page = 1
           \/ q.status = query.status /\ q.page - 1 <= query.page
    PROVE  ListingCore'
<1>a. PICK a : a = Question(q)
  OBVIOUS
<1>1. /\ ListingTypeOK /\ UNCHANGED <<listing, table>> /\ query' = q /\ lookups' = lookups \union {a}
      /\ Cardinality(lookups) < MaxAsked
  BY <1>a DEF Navigate, ListingCore
<1>2. a \in Lookups /\ a.query = q /\ a.items = None /\ a.pages = None
  <2>1. a.slot \in 1 .. MaxAsked
    BY <1>1, <1>a, FreshSlot
  <2> QED BY <1>a, <2>1 DEF Question, Lookups
<1>3. walk' \in [due : SUBSET Nat, seen : SUBSET Nat, excused : BOOLEAN]
  BY <1>1, WalkIs, NoWalkIs DEF Navigate, WalkUnless, ListingTypeOK
<1>4. view' \in [items : SUBSET Nat, pages : Nat, loading : BOOLEAN, error : BOOLEAN]
  BY <1>1 DEF Navigate, ListingTypeOK
<1>5. ListingTypeOK'
  BY <1>1, <1>2, <1>3, <1>4, FS_AddElement DEF ListingTypeOK, Lookups, Queries, Statuses, Sorts
<1>6. SUFFICES ASSUME ~walk'.excused PROVE WalkOK'
  BY <1>5 DEF ListingCore, WalkOK
<1>7. \A p : Matching(p)' = Matching(p)
  BY <1>1 DEF Matching, Rows
<1>8. CASE q.page = 1 /\ lookups = {}
  <2>1. walk' = Walk(q)
    BY <1>8 DEF Navigate
  <2>2. walk'.due = Matching(q)
    BY <1>1, <1>6, <2>1, WalkIs
  <2>3. (Skipped(query) = 0 /\ \A i, tie : Cardinality(RowsBefore(i, tie)) >= Skipped(query))'
    <3>1. Skipped(q) = 0
      BY <1>8 DEF Skipped, ListingConstants
    <3>2. ASSUME NEW i, NEW tie PROVE Cardinality(RowsBefore(i, tie)') \in Nat
      <4>1. RowsBefore(i, tie)' \in SUBSET Matching(q) /\ Matching(q) \in SUBSET (1 .. Len(table))
              /\ Len(table) \in Nat
        BY <1>1, <1>7, RowsAreFew DEF RowsBefore
      <4> QED BY <4>1, CountGrows
    <3> QED BY <1>1, <3>1, <3>2 DEF Skipped
  <2>4. Unread(a)'
    BY <1>2, <2>3 DEF Unread
  <2> QED BY <1>1, <1>2, <1>7, <1>8, <2>2, <2>4 DEF WalkOK
<1>9. CASE ~(q.page = 1 /\ lookups = {})
  <2>1. walk' = walk /\ ~Ties(q) /\ lookups = {} /\ q.sort = query.sort
    BY <1>6, <1>9, NoWalkIs DEF Navigate, WalkUnless
  <2>2. q.status = query.status /\ q.page - 1 <= query.page /\ q.page \in Nat \ {0} /\ query.page \in Nat \ {0}
    BY <1>1, <1>9, <2>1 DEF ListingTypeOK, Queries
  <2>3. walk.due \subseteq Matching(query) /\ ReadTo({})
    BY <1>6, <2>1 DEF ListingCore, WalkOK
  <2>4. Matching(q) = Matching(query) /\ Unseen' = Unseen
    BY <2>1, <2>2 DEF Matching, Unseen
  <2>5. ~Ties(query)
    BY <2>1, <2>4 DEF Ties
  <2>6. Skipped(q) <= query.page * PageSize /\ Skipped(q) \in Nat /\ query.page * PageSize \in Nat
    <3> DEFINE k == q.page - 1
    <3>1. k \in Nat /\ k <= query.page
      BY <2>2
    <3>2. k * PageSize <= query.page * PageSize /\ k * PageSize \in Nat /\ query.page * PageSize \in Nat
      BY <2>2, <3>1, SkipsGrow
    <3> QED BY <3>2 DEF Skipped
  <2>7. \A i, tie : RowsBefore(i, tie)' = RowsBefore(i, tie)
    BY <1>1, <1>7, <2>1, <2>4 DEF RowsBefore, Precedes
  <2>8. ASSUME NEW i \in Unseen, NEW tie \in BOOLEAN PROVE Cardinality(RowsBefore(i, tie)) >= Skipped(q)
    <3>1. PICK t \in BOOLEAN : Cardinality(RowsBefore(i, t)) >= query.page * PageSize
      BY <2>3 DEF ReadTo, Behind
    <3>2. RowsBefore(i, tie) = RowsBefore(i, t)
      BY <1>1, <2>3, <2>5, NoTies DEF Unseen
    <3>3. Cardinality(RowsBefore(i, t)) \in Nat
      BY <1>1, RowsAreFew
    <3> QED BY <2>6, <3>1, <3>2, <3>3
  <2>9. Unread(a)'
    BY <1>1, <1>2, <2>4, <2>7, <2>8 DEF Unread, Skipped
  <2> QED BY <1>1, <1>2, <1>7, <2>1, <2>3, <2>4, <2>9 DEF WalkOK
<1> QED BY <1>8, <1>9

\* The filter, the order and the pager.
LEMMA PagerKeeps ==
    ListingConstants /\ ListingCore
    /\ ((\E s \in Statuses : SetFilter(s)) \/ (\E s \in Sorts : SetSort(s)) \/ NextPage \/ PreviousPage)
         => ListingCore'
<1> SUFFICES ASSUME ListingConstants, ListingCore PROVE
      (\E s \in Statuses : SetFilter(s)) \/ (\E s \in Sorts : SetSort(s)) \/ NextPage \/ PreviousPage
            => ListingCore'
  OBVIOUS
<1>1. query \in Queries /\ query.page \in Nat \ {0} /\ MaxPages \in Nat
  BY DEF ListingCore, ListingTypeOK, Queries, ListingConstants
<1>2. ASSUME NEW s \in Statuses, SetFilter(s) PROVE ListingCore'
  <2> DEFINE q == [query EXCEPT !.status = s, !.page = 1]
  <2>1. q.page = 1
    BY <1>1 DEF Queries
  <2>2. q \in Queries
    <3>1. 1 \in 1 .. MaxPages
      BY <1>1 DEF Queries
    <3> QED BY <1>1, <3>1 DEF Queries
  <2>3. Navigate(q)
    BY <1>2 DEF SetFilter
  <2> HIDE DEF q
  <2> QED BY <2>1, <2>2, <2>3, NavigateKeeps
<1>3. ASSUME NEW s \in Sorts, SetSort(s) PROVE ListingCore'
  <2> DEFINE q == [query EXCEPT !.sort = s]
  <2>1. q \in Queries /\ q.status = query.status /\ q.page - 1 <= query.page
    BY <1>1 DEF Queries
  <2>2. Navigate(q)
    BY <1>3 DEF SetSort
  <2> HIDE DEF q
  <2> QED BY <2>1, <2>2, NavigateKeeps
<1>4. ASSUME NextPage PROVE ListingCore'
  <2> DEFINE q == [query EXCEPT !.page = @ + 1]
  <2>1. q \in Queries /\ q.status = query.status /\ q.page - 1 <= query.page
    BY <1>1, <1>4 DEF Queries, NextPage
  <2>2. Navigate(q)
    BY <1>4 DEF NextPage
  <2> HIDE DEF q
  <2> QED BY <2>1, <2>2, NavigateKeeps
<1>5. ASSUME PreviousPage PROVE ListingCore'
  <2> DEFINE q == [query EXCEPT !.page = @ - 1]
  <2>1. q \in Queries /\ q.status = query.status /\ q.page - 1 <= query.page
    BY <1>1, <1>5 DEF Queries, PreviousPage
  <2>2. Navigate(q)
    BY <1>5 DEF PreviousPage
  <2> HIDE DEF q
  <2> QED BY <2>1, <2>2, NavigateKeeps
<1> QED BY <1>2, <1>3, <1>4, <1>5

\* The invariant of the lists: the rows of a walk that are unseen lie ahead of the page.
THEOREM ListingInvariant == ListingSpec => []ListingCore
<1>1. ListingInit => ListingCore
  BY ListingConstants, InitListing
<1>2. ListingCore /\ [ListingNext]_listingVars => ListingCore'
  <2> SUFFICES ASSUME ListingCore, [ListingNext]_listingVars PROVE ListingCore'
    OBVIOUS
  <2> USE ListingConstants
  <2>1. CASE UNCHANGED listingVars
    <3>1. Matching(query)' = Matching(query) /\ Unseen' = Unseen
            /\ \A i, t : RowsBefore(i, t)' = RowsBefore(i, t)
      BY <2>1 DEF listingVars, Matching, Rows, Unseen, RowsBefore, Precedes
    <3>2. ListingTypeOK'
      BY <2>1 DEF listingVars, ListingCore, ListingTypeOK, Lookups, Queries, Statuses, Sorts
    <3>3. \A a : (Unread(a)' <=> Unread(a)) /\ (Read(a)' <=> Read(a)) /\ (ReadTo({})' <=> ReadTo({}))
      BY <2>1, <3>1 DEF listingVars, Unread, Read, ReadTo, Behind, Skipped
    <3> QED BY <2>1, <3>1, <3>2, <3>3 DEF listingVars, ListingCore, WalkOK
  <2> QED
    BY <2>1, CreateRowKeeps, LeaveFilterKeeps, CountRowsKeeps, FindRowsKeeps, ArrivesKeeps,
       LookupFailsKeeps, PagerKeeps
    DEF ListingNext
<1> QED BY <1>1, <1>2, PTL DEF ListingSpec

\* WalkSeesEveryRow for any page size, any number of rows and any order: who reaches the last
\* page has seen every row.
THEOREM WalksAreComplete == ListingSpec => []WalkSeesEveryRow
<1>1. ListingCore => WalkSeesEveryRow
  <2> SUFFICES ASSUME ListingCore, lookups = {}, query.page >= view.pages, ~walk.excused
               PROVE  walk.due \subseteq walk.seen
    BY DEF WalkSeesEveryRow
  <2>1. query.page \in Nat /\ view.pages \in Nat
    BY DEF ListingCore, ListingTypeOK, Queries
  <2> QED BY <2>1 DEF ListingCore, WalkOK, Unseen
<1> QED BY <1>1, ListingInvariant, PTL

-----------------------------------------------------------------------------
(* Catalogue tables: module Catalogue *)

\* Row ids, or none.
Ids == Items \union {None}
\* Every state of a call.
JobRecords == [what: Writes \union {"none", "load"}, id: Ids, row: RowValues, touched: SUBSET Fields,
               phase: {"idle", "sent", "answered", "failed"}, table: RowTables]

\* Types of the tables.
CatalogueTypeOK ==
    /\ {stock, meant, listed} \subseteq RowTables
    /\ editor \in [open: BOOLEAN, id: Ids, row: RowValues, for: Ids, touched: SUBSET Fields]
    /\ jobs \in [Jobs -> JobRecords]
    /\ adrift \in BOOLEAN

\* The draft of a row holds what the table shows, but for the fields that were typed into.
DraftFollows ==
    editor.for # None =>
        /\ editor.for \in DOMAIN listed
        /\ \A f \in Fields \ editor.touched : editor.row[f] = listed[editor.for][f]

\* No row is ever removed: what the table, a call or an answer speaks of is on the server.
RowsStay ==
    /\ DOMAIN listed \subseteq DOMAIN stock
    /\ \A j \in Jobs :
        /\ DOMAIN jobs[j].table \subseteq DOMAIN stock
        /\ jobs[j].what \in {"update", "toggle"} => jobs[j].id \in DOMAIN stock
        /\ jobs[j].what \in Writes /\ jobs[j].phase = "answered" => jobs[j].id \in DOMAIN jobs[j].table

\* The load is the only call under way.
LoadFirst ==
    \A j \in Busy({"load"}) :
        /\ Busy({"load"}) = {j} /\ Busy(Writes) = {}
        /\ listed = <<>>
        /\ jobs[j].phase = "sent" \/ (jobs[j].phase = "answered" /\ jobs[j].table = stock)

\* No two writes are about one row.
OneCallPerRow ==
    \A j, k \in Busy(Writes) : jobs[j].id = jobs[k].id /\ jobs[j].id # None => j = k

\* A create whose answer is under way has made its row, which the table does not show yet.
CreateOK(j) ==
    IF jobs[j].phase = "answered"
    THEN /\ jobs[j].id \in DOMAIN stock \ DOMAIN listed
         /\ jobs[j].table[jobs[j].id] = stock[jobs[j].id]
    ELSE jobs[j].id = None

\* A change of a row: before it is served, it differs from the row in the fields that were
\* touched only; its answer holds the row as it is.
ChangeOK(j) ==
    /\ jobs[j].id \in DOMAIN listed
    /\ jobs[j].what = "toggle" => jobs[j].touched = {"isActive"}
    /\ IF jobs[j].phase = "answered"
       THEN jobs[j].table[jobs[j].id] = stock[jobs[j].id]
       ELSE /\ listed[jobs[j].id] = stock[jobs[j].id]
            /\ \A f \in FieldsOf(j) \ jobs[j].touched : jobs[j].row[f] = stock[jobs[j].id][f]

\* The two kinds of write.
WritesOK ==
    \A j \in Busy(Writes) : IF jobs[j].what = "create" THEN CreateOK(j) ELSE ChangeOK(j)

\* The table shows every row as it is, but for those whose answer is under way.
TableFollows ==
    Busy({"load"}) = {} => \A id \in DOMAIN stock :
        \/ id \in DOMAIN listed /\ listed[id] = stock[id]
        \/ \E j \in About(id) : jobs[j].phase = "answered"

\* The inductive invariant of the tables.
CatalogueCore ==
    /\ CatalogueTypeOK
    /\ DraftFollows
    /\ RowsStay
    /\ ~adrift => /\ LoadFirst /\ OneCallPerRow /\ WritesOK /\ TableFollows
                  /\ stock = meant

\* The empty table.
LEMMA EmptyTable == <<>> \in RowTables /\ DOMAIN <<>> = {}
<1>1. <<>> \in [{} -> RowValues]
  OBVIOUS
<1> QED BY <1>1 DEF RowTables

\* A call that is sent.
LEMMA NewJob ==
    ASSUME CatalogueConstants, NEW what \in Writes \union {"load"}, NEW id \in Ids,
          NEW cells \in RowValues, NEW fields \in SUBSET Fields
    PROVE  /\ Job(what, id, cells, fields) \in JobRecords
           /\ Job(what, id, cells, fields).what = what /\ Job(what, id, cells, fields).id = id
           /\ Job(what, id, cells, fields).row = cells /\ Job(what, id, cells, fields).touched = fields
           /\ Job(what, id, cells, fields).phase = "sent" /\ DOMAIN Job(what, id, cells, fields).table = {}
BY EmptyTable DEF Job, JobRecords, Writes

\* The blank draft is a row.
LEMMA BlankIsRow == CatalogueConstants => BlankRow \in RowValues
BY DEF CatalogueConstants, BlankRow, RowValues

\* A free slot holds no call.
LEMMA IdleJob == CatalogueConstants => NoJob \in JobRecords /\ NoJob.what = "none" /\ DOMAIN NoJob.table = {}
BY BlankIsRow, EmptyTable DEF NoJob, Job, JobRecords, Ids

\* A draft is blank, or a copy of the row it is for.
LEMMA DraftOK ==
    ASSUME CatalogueConstants, NEW open \in BOOLEAN, NEW id \in Ids, NEW rows \in RowTables
    PROVE  /\ Draft(open, id, rows) \in [open: BOOLEAN, id: Ids, row: RowValues, for: Ids, touched: SUBSET Fields]
           /\ Draft(open, id, rows).for # None =>
                /\ Draft(open, id, rows).for \in DOMAIN rows
                /\ Draft(open, id, rows).row = rows[Draft(open, id, rows).for]
<1>1. CASE id \in DOMAIN rows
  <2>1. rows[id] \in RowValues
    BY <1>1 DEF RowTables
  <2> QED BY <1>1, <2>1 DEF Draft
<1>2. CASE id \notin DOMAIN rows
  BY <1>2, BlankIsRow DEF Draft, Ids
<1> QED BY <1>1, <1>2

\* A call that is answered stays what it is.
LEMMA AnsweredJob ==
    ASSUME CatalogueTypeOK, NEW j \in Jobs, NEW id \in Ids, NEW rows \in RowTables, Answered(j, id, rows),
           jobs[j].what # "none"
    PROVE  /\ jobs' \in [Jobs -> JobRecords]
           /\ jobs'[j].what = jobs[j].what /\ jobs'[j].phase = "answered" /\ jobs'[j].id = id
           /\ jobs'[j].table = rows /\ jobs'[j].touched = jobs[j].touched
           /\ \A k \in Jobs \ {j} : jobs'[k] = jobs[k]
           /\ Busy({"load"})' = Busy({"load"}) /\ Busy(Writes)' = Busy(Writes)
<1>1. /\ jobs' \in [Jobs -> JobRecords]
      /\ jobs'[j].what = jobs[j].what /\ jobs'[j].phase = "answered" /\ jobs'[j].id = id
      /\ jobs'[j].table = rows /\ jobs'[j].touched = jobs[j].touched
      /\ \A k \in Jobs \ {j} : jobs'[k] = jobs[k]
  BY DEF Answered, CatalogueTypeOK, JobRecords
<1> QED BY <1>1 DEF Busy, Writes

\* A call whose answer is dealt with is no longer under way.
LEMMA DoneJob ==
    ASSUME CatalogueConstants, CatalogueTypeOK, NEW j \in Jobs, Done(j)
    PROVE  /\ jobs' \in [Jobs -> JobRecords]
           /\ jobs'[j].what = "none"
           /\ \A k \in Jobs \ {j} : jobs'[k] = jobs[k]
           /\ Busy({"load"})' = Busy({"load"}) \ {j} /\ Busy(Writes)' = Busy(Writes) \ {j}
<1>1. /\ jobs' \in [Jobs -> JobRecords]
      /\ jobs'[j].what = "none"
      /\ \A k \in Jobs \ {j} : jobs'[k] = jobs[k]
  BY IdleJob DEF Done, CatalogueTypeOK
<1> QED BY <1>1 DEF Busy, Writes

\* A write that is sent is one write more under way.
LEMMA SentJob ==
    ASSUME CatalogueConstants, CatalogueTypeOK, NEW j \in Jobs, FreeJob(j), NEW new \in JobRecords,
           new.what \in Writes, jobs' = [jobs EXCEPT ![j] = new]
    PROVE  /\ jobs' \in [Jobs -> JobRecords]
           /\ jobs'[j] = new /\ jobs[j].what = "none"
           /\ \A k \in Jobs \ {j} : jobs'[k] = jobs[k]
           /\ Busy({"load"})' = Busy({"load"}) /\ Busy(Writes)' = Busy(Writes) \union {j}
<1>1. /\ jobs' \in [Jobs -> JobRecords]
      /\ jobs'[j] = new /\ jobs[j].what = "none"
      /\ \A k \in Jobs \ {j} : jobs'[k] = jobs[k]
  BY IdleJob DEF FreeJob, CatalogueTypeOK
<1> QED BY <1>1 DEF Busy, Writes

\* At the start the table is being loaded.
LEMMA InitCatalogue == CatalogueConstants /\ CatalogueInit => CatalogueCore
<1> SUFFICES ASSUME CatalogueConstants, CatalogueInit PROVE CatalogueCore
  OBVIOUS
<1> DEFINE first == CHOOSE first \in Jobs : TRUE
<1>1. first \in Jobs
  BY DEF CatalogueConstants
<1> HIDE DEF first
<1>2. /\ \A j \in Jobs : jobs[j] = IF j = first THEN Job("load", None, BlankRow, {}) ELSE NoJob
      /\ jobs \in [Jobs -> JobRecords]
  <2>1. Job("load", None, BlankRow, {}) \in JobRecords
    BY NewJob, BlankIsRow DEF Ids
  <2> QED BY <2>1, IdleJob DEF CatalogueInit, first
<1>3. editor \in [open: BOOLEAN, id: Ids, row: RowValues, for: Ids, touched: SUBSET Fields] /\ editor.for = None
  <2>1. \A id : Draft(TRUE, id, <<>>).for = None /\ Draft(FALSE, id, <<>>).for = None
    BY EmptyTable DEF Draft
  <2>2. stock \in RowTables
    BY DEF CatalogueInit, CatalogueConstants
  <2>3. DOMAIN stock \subseteq Items
    BY <2>2 DEF RowTables
  <2>4. PICK open \in BOOLEAN, id \in Ids : editor = Draft(open, id, <<>>)
    BY <2>3 DEF CatalogueInit, Ids
  <2> QED BY <2>1, <2>4, DraftOK, EmptyTable
<1>4. CatalogueTypeOK
  BY <1>2, <1>3, EmptyTable DEF CatalogueInit, CatalogueConstants, CatalogueTypeOK
<1>5. Busy({"load"}) = {first} /\ Busy(Writes) = {} /\ jobs[first].phase = "sent"
  BY <1>1, <1>2, NewJob, IdleJob, BlankIsRow DEF Busy, Writes, Ids
<1>6. RowsStay
  BY <1>2, NewJob, IdleJob, BlankIsRow, EmptyTable DEF RowsStay, CatalogueInit, Ids, Writes
<1> QED
  BY <1>3, <1>4, <1>5, <1>6, EmptyTable
  DEF CatalogueInit, CatalogueCore, DraftFollows, LoadFirst, OneCallPerRow, WritesOK, TableFollows

-----------------------------------------------------------------------------
\* A step of the form alone.
LEMMA EditorStep ==
    ASSUME CatalogueCore, UNCHANGED <<stock, listed, jobs, meant, adrift>>,
           editor' \in [open: BOOLEAN, id: Ids, row: RowValues, for: Ids, touched: SUBSET Fields],
           DraftFollows'
    PROVE  CatalogueCore'
BY DEF CatalogueCore, CatalogueTypeOK, RowsStay, LoadFirst, OneCallPerRow, WritesOK, CreateOK, ChangeOK,
   TableFollows,
       Busy, About, FieldsOf

\* Opening a row, typing, and leaving the form.
LEMMA FormKeeps ==
    CatalogueConstants /\ CatalogueCore
    /\ ((\E id \in Items \union {None} : EditRow(id)) \/ (\E v \in Names : PatchName(v)) \/ PatchActive
         \/ Cancel)
    => CatalogueCore'
<1> SUFFICES ASSUME CatalogueConstants, CatalogueCore,
                    (\E id \in Items \union {None} : EditRow(id)) \/ (\E v \in Names : PatchName(v))
                          \/ PatchActive \/ Cancel
             PROVE  CatalogueCore'
  OBVIOUS
<1>1. listed \in RowTables
  BY DEF CatalogueCore, CatalogueTypeOK
<1>2. ASSUME NEW id \in Items \union {None}, EditRow(id) PROVE CatalogueCore'
  BY <1>1, <1>2, EditorStep, DraftOK DEF EditRow, DraftFollows, Ids
<1>3. CASE Cancel
  BY <1>1, <1>3, EditorStep, DraftOK DEF Cancel, DraftFollows, Ids
<1>4. ASSUME NEW v \in Names, PatchName(v) PROVE CatalogueCore'
  <2>1. /\ editor' \in [open: BOOLEAN, id: Ids, row: RowValues, for: Ids, touched: SUBSET Fields]
        /\ editor'.for = editor.for /\ editor'.touched = editor.touched \union {"name"}
        /\ editor'.row.isActive = editor.row.isActive
    BY <1>4 DEF PatchName, CatalogueCore, CatalogueTypeOK, RowValues, Fields
  <2>2. DraftFollows'
    BY <1>4, <2>1 DEF PatchName, CatalogueCore, DraftFollows, Fields
  <2> QED BY <1>4, <2>1, <2>2, EditorStep DEF PatchName
<1>5. CASE PatchActive
  <2>1. /\ editor' \in [open: BOOLEAN, id: Ids, row: RowValues, for: Ids, touched: SUBSET Fields]
        /\ editor'.for = editor.for /\ editor'.touched = editor.touched \union {"isActive"}
        /\ editor'.row.name = editor.row.name
    BY <1>5 DEF PatchActive, CatalogueCore, CatalogueTypeOK, RowValues, Fields
  <2>2. DraftFollows'
    BY <1>5, <2>1 DEF PatchActive, CatalogueCore, DraftFollows, Fields
  <2> QED BY <1>5, <2>1, <2>2, EditorStep DEF PatchActive
<1> QED BY <1>2, <1>3, <1>4, <1>5

\* A call for a row of the table whose row has no call under way.
LEMMA SendKeeps ==
    ASSUME CatalogueConstants, CatalogueCore, NEW j \in Jobs, FreeJob(j),
           NEW what \in Writes, NEW id \in Ids, NEW cells \in RowValues, NEW fields \in SUBSET Fields,
           jobs' = [jobs EXCEPT ![j] = Job(what, id, cells, fields)],
           UNCHANGED <<stock, listed, meant>>,
           editor' \in [open: BOOLEAN, id: Ids, row: RowValues, for: Ids, touched: SUBSET Fields],
           DraftFollows', adrift' \in BOOLEAN, what # "create" => id \in DOMAIN listed,
           ~adrift' => /\ ~adrift /\ Busy({"load"}) = {}
                       /\ IF what = "create" THEN id = None
                          ELSE /\ About(id) = {}
                               /\ \A f \in (IF what = "update" THEN Fields ELSE {"isActive"}) \ fields :
                                      cells[f] = listed[id][f]
                               /\ what = "toggle" => fields = {"isActive"}
    PROVE  CatalogueCore'
<1> DEFINE new == Job(what, id, cells, fields)
<1>1. /\ new \in JobRecords /\ new.what = what /\ new.id = id /\ new.row = cells /\ new.touched = fields
      /\ new.phase = "sent" /\ DOMAIN new.table = {}
  BY NewJob
<1> HIDE DEF new
<1>2. /\ jobs' \in [Jobs -> JobRecords]
      /\ jobs'[j] = new /\ jobs[j].what = "none"
      /\ \A k \in Jobs \ {j} : jobs'[k] = jobs[k]
      /\ Busy(Writes)' = Busy(Writes) \union {j}
      /\ Busy({"load"})' = Busy({"load"})
  <2>1. CatalogueTypeOK /\ jobs' = [jobs EXCEPT ![j] = new]
    BY DEF CatalogueCore, new
  <2> QED BY <1>1, <2>1, SentJob
<1>3. CatalogueTypeOK' /\ RowsStay'
  BY <1>1, <1>2 DEF CatalogueCore, CatalogueTypeOK, RowsStay, Writes
<1>4. SUFFICES ASSUME ~adrift' PROVE LoadFirst' /\ OneCallPerRow' /\ WritesOK' /\ TableFollows'
        /\ stock' = meant'
  BY <1>3 DEF CatalogueCore
<1>5. LoadFirst /\ OneCallPerRow /\ WritesOK /\ TableFollows /\ stock = meant /\ Busy({"load"}) = {}
  BY <1>4 DEF CatalogueCore
<1>6. LoadFirst'
  BY <1>2, <1>5 DEF LoadFirst
<1>7. OneCallPerRow'
  BY <1>1, <1>2, <1>4, <1>5 DEF OneCallPerRow, About, Busy
<1>8. \A k \in Busy(Writes) : k # j /\ jobs'[k] = jobs[k]
  BY <1>2 DEF Busy, Writes
<1>9. what # "create" => listed[id] = stock[id]
  BY <1>4, <1>5 DEF TableFollows, CatalogueCore, RowsStay
<1>10. WritesOK'
  <2>1. ASSUME NEW k \in Busy(Writes)
        PROVE  (IF jobs[k].what = "create" THEN CreateOK(k) ELSE ChangeOK(k))'
    BY <1>5, <1>8 DEF WritesOK, CreateOK, ChangeOK, FieldsOf
  <2>2. (IF jobs[j].what = "create" THEN CreateOK(j) ELSE ChangeOK(j))'
    BY <1>1, <1>2, <1>4, <1>9 DEF CreateOK, ChangeOK, FieldsOf, Writes
  <2> QED BY <1>2, <2>1, <2>2 DEF WritesOK
<1>11. TableFollows'
  <2>1. \A i : About(i) \subseteq About(i)'
    BY <1>2, <1>8 DEF About
  <2>2. \A i : \A k \in About(i) : jobs'[k] = jobs[k]
    BY <1>8 DEF About
  <2> QED BY <1>5, <2>1, <2>2 DEF TableFollows
<1> QED BY <1>5, <1>6, <1>7, <1>10, <1>11

\* A save sends every field of the draft.
LEMMA SaveRowKeeps == CatalogueConstants /\ CatalogueCore /\ (\E j \in Jobs : SaveRow(j)) => CatalogueCore'
<1> SUFFICES ASSUME CatalogueConstants, CatalogueCore, NEW j \in Jobs, SaveRow(j) PROVE CatalogueCore'
  OBVIOUS
<1>1. /\ editor' \in [open: BOOLEAN, id: Ids, row: RowValues, for: Ids, touched: SUBSET Fields]
      /\ DraftFollows'
  BY DraftOK DEF SaveRow, CatalogueCore, CatalogueTypeOK, DraftFollows, Ids
<1>2. editor.row \in RowValues /\ editor.for \in Ids /\ editor.touched \in SUBSET Fields /\ adrift' \in BOOLEAN
  BY DEF CatalogueCore, CatalogueTypeOK, SaveRow
<1>3. CASE editor.for = None
  BY <1>1, <1>2, <1>3, SendKeeps DEF SaveRow, Writes
<1>4. CASE editor.for # None
  BY <1>1, <1>2, <1>4, SendKeeps DEF SaveRow, Writes, CatalogueCore, DraftFollows
<1> QED BY <1>3, <1>4

\* A switch sends the one field.
LEMMA ToggleKeeps ==
    CatalogueConstants /\ CatalogueCore /\ (\E j \in Jobs, id \in Items : ToggleActive(j, id)) => CatalogueCore'
<1> SUFFICES ASSUME CatalogueConstants, CatalogueCore, NEW j \in Jobs, NEW id \in Items, ToggleActive(j, id)
             PROVE  CatalogueCore'
  OBVIOUS
<1>1. listed[id] \in RowValues
  BY DEF ToggleActive, CatalogueCore, CatalogueTypeOK, RowTables
<1>2. [listed[id] EXCEPT !.isActive = ~@] \in RowValues
  BY <1>1 DEF RowValues
<1>3. ~adrift' => Busy({"load"}) = {}
  BY EmptyTable DEF ToggleActive, CatalogueCore, LoadFirst
<1>4. /\ editor' \in [open: BOOLEAN, id: Ids, row: RowValues, for: Ids, touched: SUBSET Fields]
      /\ DraftFollows' /\ adrift' \in BOOLEAN
  BY DEF ToggleActive, CatalogueCore, CatalogueTypeOK, DraftFollows
<1>5. /\ "toggle" \in Writes /\ id \in Ids /\ {"isActive"} \in SUBSET Fields
      /\ UNCHANGED <<stock, listed, meant>> /\ FreeJob(j)
      /\ jobs' = [jobs EXCEPT ![j] = Job("toggle", id, [listed[id] EXCEPT !.isActive = ~@], {"isActive"})]
      /\ ~adrift' => ~adrift /\ id \in DOMAIN listed /\ About(id) = {}
  BY DEF ToggleActive, Writes, Fields, Ids
<1>6. id \in DOMAIN listed
        /\ \A f \in {"isActive"} \ {"isActive"} : [listed[id] EXCEPT !.isActive = ~@][f] = listed[id][f]
  BY <1>5 DEF ToggleActive
<1>7. "toggle" # "create" /\ "toggle" # "update"
  OBVIOUS
<1> HIDE DEF ToggleActive
<1> QED BY <1>2, <1>3, <1>4, <1>5, <1>6, <1>7, SendKeeps

-----------------------------------------------------------------------------
\* The load is answered with all rows.
LEMMA ServeListKeeps == CatalogueConstants /\ CatalogueCore /\ (\E j \in Jobs : ServeList(j)) => CatalogueCore'
<1> SUFFICES ASSUME CatalogueConstants, CatalogueCore, NEW j \in Jobs, ServeList(j) PROVE CatalogueCore'
  OBVIOUS
<1>1. /\ jobs' \in [Jobs -> JobRecords]
      /\ jobs'[j].what = jobs[j].what /\ jobs'[j].phase = "answered" /\ jobs'[j].table = stock
      /\ \A k \in Jobs \ {j} : jobs'[k] = jobs[k]
      /\ Busy({"load"})' = Busy({"load"}) /\ Busy(Writes)' = Busy(Writes)
  BY AnsweredJob DEF ServeList, CatalogueCore, CatalogueTypeOK, Ids
<1>2. CatalogueTypeOK' /\ DraftFollows' /\ RowsStay'
  BY <1>1 DEF ServeList, CatalogueCore, CatalogueTypeOK, DraftFollows, RowsStay, Writes
<1>3. SUFFICES ASSUME ~adrift PROVE LoadFirst' /\ OneCallPerRow' /\ WritesOK' /\ TableFollows'
        /\ stock' = meant'
  BY <1>2 DEF CatalogueCore, ServeList
<1>4. Busy({"load"}) = {j} /\ Busy(Writes) = {}
  BY <1>3 DEF CatalogueCore, LoadFirst, ServeList, Busy
<1>5. LoadFirst'
  BY <1>1, <1>3, <1>4 DEF CatalogueCore, LoadFirst, ServeList
<1>6. OneCallPerRow' /\ WritesOK'
  BY <1>1, <1>4 DEF OneCallPerRow, WritesOK
<1>7. TableFollows' /\ stock' = meant'
  BY <1>1, <1>3, <1>4 DEF CatalogueCore, TableFollows, ServeList
<1> QED BY <1>5, <1>6, <1>7

\* The answer of a write holds its row.
LEMMA OneRowTable == \A id \in Items, cells \in RowValues :
    [i \in {id} |-> cells] \in RowTables /\ id \in DOMAIN [i \in {id} |-> cells]
          /\ [i \in {id} |-> cells][id] = cells
<1> SUFFICES ASSUME NEW id \in Items, NEW cells \in RowValues
             PROVE  [i \in {id} |-> cells] \in RowTables
  OBVIOUS
<1>1. [i \in {id} |-> cells] \in [{id} -> RowValues] /\ {id} \in SUBSET Items
  OBVIOUS
<1> QED BY <1>1 DEF RowTables

\* What a table holds.
LEMMA TableOf == \A t \in RowTables : DOMAIN t \subseteq Items /\ \A id \in DOMAIN t : t[id] \in RowValues
BY DEF RowTables

\* What is a table.
LEMMA IsTable == \A D \in SUBSET Items : \A t : t \in [D -> RowValues] => t \in RowTables
BY DEF RowTables

\* A row is created under an id that is new.
LEMMA ServeInsertKeeps ==
    CatalogueConstants /\ CatalogueCore /\ (\E j \in Jobs, id \in Items : ServeInsert(j, id)) => CatalogueCore'
<1> SUFFICES ASSUME CatalogueConstants, CatalogueCore, NEW j \in Jobs, NEW id \in Items, ServeInsert(j, id)
             PROVE  CatalogueCore'
  OBVIOUS
<1> DEFINE cells == jobs[j].row
           with == [i \in {id} |-> cells]
<1>1. cells \in RowValues
  BY DEF CatalogueCore, CatalogueTypeOK, JobRecords
<1>2. with \in RowTables /\ id \in DOMAIN with /\ with[id] = cells
  BY <1>1, OneRowTable
<1>3. /\ jobs' \in [Jobs -> JobRecords]
      /\ jobs'[j].what = "create" /\ jobs'[j].phase = "answered" /\ jobs'[j].id = id /\ jobs'[j].table = with
      /\ \A k \in Jobs \ {j} : jobs'[k] = jobs[k]
      /\ Busy({"load"})' = Busy({"load"}) /\ Busy(Writes)' = Busy(Writes)
  BY <1>2, AnsweredJob DEF ServeInsert, CatalogueCore, Ids
<1> HIDE DEF with, cells
<1>4. /\ DOMAIN stock' = DOMAIN stock \union {id} /\ stock'[id] = cells
      /\ \A i \in DOMAIN stock : stock'[i] = stock[i]
      /\ stock' = [i \in DOMAIN stock \union {id} |-> IF i = id THEN cells ELSE stock[i]]
      /\ meant' = [i \in DOMAIN meant \union {id} |-> IF i = id THEN cells ELSE meant[i]]
  BY DEF ServeInsert, cells
<1>5. CatalogueTypeOK' /\ DraftFollows' /\ RowsStay'
  <2>1. stock \in RowTables /\ meant \in RowTables
    BY DEF CatalogueCore, CatalogueTypeOK
  <2>2. stock' \in [DOMAIN stock \union {id} -> RowValues]
    BY <1>1, <1>4, <2>1, TableOf
  <2>3. meant' \in [DOMAIN meant \union {id} -> RowValues]
    BY <1>1, <1>4, <2>1, TableOf
  <2>4. stock' \in RowTables /\ meant' \in RowTables
    BY <2>1, <2>2, <2>3, TableOf, IsTable
  <2> QED BY <1>2, <1>3, <1>4, <2>4 DEF ServeInsert, CatalogueCore, CatalogueTypeOK, DraftFollows, RowsStay, with
<1>6. SUFFICES ASSUME ~adrift PROVE LoadFirst' /\ OneCallPerRow' /\ WritesOK' /\ TableFollows'
        /\ stock' = meant'
  BY <1>5 DEF CatalogueCore, ServeInsert
<1>7. LoadFirst /\ OneCallPerRow /\ WritesOK /\ TableFollows /\ stock = meant
  BY <1>6 DEF CatalogueCore
<1>8. j \in Busy(Writes) /\ id \notin DOMAIN stock /\ id \notin DOMAIN listed
  BY <1>7 DEF ServeInsert, Busy, Writes, CatalogueCore, RowsStay
<1>9. LoadFirst'
  BY <1>3, <1>7, <1>8 DEF LoadFirst
<1>10. \A k \in Busy(Writes) : k # j => jobs'[k] = jobs[k] /\ jobs[k].id # id
  <2> SUFFICES ASSUME NEW k \in Busy(Writes), k # j PROVE jobs'[k] = jobs[k] /\ jobs[k].id # id
    OBVIOUS
  <2>1. IF jobs[k].what = "create" THEN CreateOK(k) ELSE ChangeOK(k)
    BY <1>7 DEF WritesOK
  <2>2. None # id
    BY DEF CatalogueConstants
  <2> QED BY <1>3, <1>8, <2>1, <2>2 DEF CreateOK, ChangeOK, Busy, CatalogueCore, RowsStay
<1>11. OneCallPerRow'
  BY <1>3, <1>7, <1>10 DEF OneCallPerRow
<1>12. WritesOK'
  <2>1. ASSUME NEW k \in Busy(Writes), k # j
        PROVE  (IF jobs[k].what = "create" THEN CreateOK(k) ELSE ChangeOK(k))'
    <3>1. IF jobs[k].what = "create" THEN CreateOK(k) ELSE ChangeOK(k)
      BY <1>7 DEF WritesOK
    <3>2. listed' = listed /\ jobs'[k] = jobs[k]
      BY <1>10, <2>1 DEF ServeInsert
    <3> QED BY <1>4, <1>7, <3>1, <3>2 DEF CreateOK, ChangeOK, FieldsOf, CatalogueCore, RowsStay
  <2>2. (IF jobs[j].what = "create" THEN CreateOK(j) ELSE ChangeOK(j))'
    BY <1>2, <1>3, <1>4, <1>8 DEF CreateOK, ServeInsert
  <2> QED BY <1>3, <2>1, <2>2 DEF WritesOK
<1>13. TableFollows'
  <2>1. j \in About(id)'
    BY <1>3, <1>8 DEF About
  <2>2. \A i \in DOMAIN stock : \A k \in About(i) : jobs[k].phase = "answered"
          => k \in About(i)' /\ jobs'[k] = jobs[k]
    BY <1>3, <1>10 DEF About, ServeInsert
  <2> QED BY <1>3, <1>4, <1>7, <2>1, <2>2 DEF TableFollows, ServeInsert
<1>14. stock' = meant'
  BY <1>4, <1>7
<1> QED BY <1>9, <1>11, <1>12, <1>13, <1>14

\* A cells that is written over another is a cells.
LEMMA OverlaidIsRow ==
    ASSUME NEW old \in RowValues, NEW new \in RowValues, NEW fields
    PROVE  Overlaid(old, new, fields) \in RowValues
<1>1. Overlaid(old, new, fields) = [name |-> IF "name" \in fields THEN new.name ELSE old.name,
                                    isActive |-> IF "isActive" \in fields THEN new.isActive ELSE old.isActive]
  BY DEF Overlaid, Fields
<1> QED BY <1>1 DEF RowValues

\* What is known of the calls when one of them changes its row: nothing else was about it.
LEMMA ServeChangeKeeps == CatalogueConstants /\ CatalogueCore /\ (\E j \in Jobs : ServeChange(j))
      => CatalogueCore'
<1> SUFFICES ASSUME CatalogueConstants, CatalogueCore, NEW j \in Jobs, ServeChange(j)
             PROVE  CatalogueCore'
  OBVIOUS
<1> DEFINE id  == jobs[j].id
           cells == Overlaid(stock[id], jobs[j].row, FieldsOf(j))
           own == Overlaid(meant[id], jobs[j].row, jobs[j].touched)
           with == [i \in {id} |-> cells]
<1>0. /\ id \in Ids /\ jobs[j].row \in RowValues /\ jobs[j].what \in {"update", "toggle"}
        /\ jobs[j].phase = "sent"
      /\ stock \in RowTables /\ meant \in RowTables /\ listed \in RowTables
  BY DEF ServeChange, CatalogueCore, CatalogueTypeOK, JobRecords
<1>1. /\ id \in DOMAIN stock /\ id \in Items
      /\ stock[id] \in RowValues
  BY <1>0, TableOf DEF CatalogueCore, RowsStay
<1>2. cells \in RowValues
  BY <1>0, <1>1, OverlaidIsRow
<1>3. with \in RowTables /\ id \in DOMAIN with /\ with[id] = cells /\ DOMAIN with = {id}
  BY <1>1, <1>2, OneRowTable
<1>4. /\ jobs' \in [Jobs -> JobRecords]
      /\ jobs'[j].what = jobs[j].what /\ jobs'[j].phase = "answered" /\ jobs'[j].id = id
           /\ jobs'[j].table = with
      /\ jobs'[j].touched = jobs[j].touched
      /\ \A k \in Jobs \ {j} : jobs'[k] = jobs[k]
      /\ Busy({"load"})' = Busy({"load"}) /\ Busy(Writes)' = Busy(Writes)
  BY <1>0, <1>3, AnsweredJob DEF ServeChange, CatalogueCore
<1>5. id \in DOMAIN meant => own \in RowValues
  BY <1>0, TableOf, OverlaidIsRow
<1>6. /\ stock' = [stock EXCEPT ![id] = cells] /\ meant' = [meant EXCEPT ![id] = own]
      /\ listed' = listed /\ editor' = editor /\ adrift' = adrift
  BY DEF ServeChange
<1> HIDE DEF with, cells, own
<1>7. stock' \in RowTables /\ meant' \in RowTables
  <2>1. stock \in [DOMAIN stock -> RowValues] /\ meant \in [DOMAIN meant -> RowValues]
    BY <1>0, TableOf DEF RowTables
  <2>2. stock' \in [DOMAIN stock -> RowValues] /\ meant' \in [DOMAIN meant -> RowValues]
    BY <1>2, <1>5, <1>6, <2>1
  <2> QED BY <1>0, <2>2, TableOf, IsTable
<1>8. CatalogueTypeOK' /\ DraftFollows' /\ RowsStay'
  BY <1>1, <1>3, <1>4, <1>6, <1>7 DEF CatalogueCore, CatalogueTypeOK, DraftFollows, RowsStay
<1>9. SUFFICES ASSUME ~adrift PROVE LoadFirst' /\ OneCallPerRow' /\ WritesOK' /\ TableFollows'
        /\ stock' = meant'
  BY <1>6, <1>8 DEF CatalogueCore
<1>10. LoadFirst /\ OneCallPerRow /\ WritesOK /\ TableFollows /\ stock = meant
  BY <1>9 DEF CatalogueCore
<1>11. j \in Busy(Writes) /\ ChangeOK(j)
  BY <1>0, <1>10 DEF Busy, Writes, WritesOK
<1>12. LoadFirst'
  BY <1>4, <1>10, <1>11 DEF LoadFirst
<1>13. \A k \in Busy(Writes) : k # j => jobs'[k] = jobs[k] /\ jobs[k].id # id
  <2>1. id # None
    BY <1>1 DEF CatalogueConstants
  <2> QED BY <1>4, <1>10, <1>11, <2>1 DEF OneCallPerRow, Busy
<1>14. OneCallPerRow'
  BY <1>4, <1>10, <1>13 DEF OneCallPerRow
<1>15. WritesOK'
  <2>1. ASSUME NEW k \in Busy(Writes), k # j
        PROVE  (IF jobs[k].what = "create" THEN CreateOK(k) ELSE ChangeOK(k))'
    <3>1. IF jobs[k].what = "create" THEN CreateOK(k) ELSE ChangeOK(k)
      BY <1>10 DEF WritesOK
    <3>2. jobs'[k] = jobs[k] /\ stock'[jobs[k].id] = stock[jobs[k].id] /\ DOMAIN stock' = DOMAIN stock
      BY <1>6, <1>13, <2>1
    <3> QED BY <1>6, <3>1, <3>2 DEF CreateOK, ChangeOK, FieldsOf
  <2>2. (IF jobs[j].what = "create" THEN CreateOK(j) ELSE ChangeOK(j))'
    BY <1>0, <1>1, <1>3, <1>4, <1>6, <1>11 DEF ChangeOK
  <2> QED BY <1>4, <2>1, <2>2 DEF WritesOK
<1>16. TableFollows'
  <2>1. j \in About(id)'
    BY <1>4, <1>11 DEF About
  <2>2. \A i \in DOMAIN stock : \A k \in About(i) : jobs[k].phase = "answered"
          => k \in About(i)' /\ jobs'[k] = jobs[k]
    BY <1>0, <1>4, <1>13 DEF About
  <2> QED BY <1>4, <1>6, <1>10, <2>1, <2>2 DEF TableFollows
<1>17. stock' = meant'
  <2>1. \A f \in Fields : f \in FieldsOf(j) \ jobs[j].touched => jobs[j].row[f] = stock[id][f]
    BY <1>0, <1>11 DEF ChangeOK
  <2>2. jobs[j].touched \subseteq FieldsOf(j)
    BY <1>0, <1>11 DEF ChangeOK, FieldsOf, CatalogueCore, CatalogueTypeOK, JobRecords
  <2>3. cells = own
    BY <1>10, <2>1, <2>2 DEF cells, own, Overlaid
  <2> QED BY <1>6, <1>10, <2>3
<1> QED BY <1>12, <1>14, <1>15, <1>16, <1>17

-----------------------------------------------------------------------------
\* The form that starts again from a rows.
LEMMA SyncKeeps ==
    ASSUME CatalogueConstants, CatalogueCore, listed' \in RowTables, SyncDraft
    PROVE  /\ editor' \in [open: BOOLEAN, id: Ids, row: RowValues, for: Ids, touched: SUBSET Fields]
           /\ DraftFollows'
<1>1. editor.open \in BOOLEAN /\ editor.id \in Ids
  BY DEF CatalogueCore, CatalogueTypeOK
<1> QED BY <1>1, DraftOK DEF SyncDraft, Resynced, DraftFollows

\* The rows that were loaded are shown.
LEMMA TableLoadedKeeps == CatalogueConstants /\ CatalogueCore /\ (\E j \in Jobs : TableLoaded(j))
      => CatalogueCore'
<1> SUFFICES ASSUME CatalogueConstants, CatalogueCore, NEW j \in Jobs, TableLoaded(j) PROVE CatalogueCore'
  OBVIOUS
<1>1. /\ jobs' \in [Jobs -> JobRecords] /\ jobs'[j].what = "none"
      /\ \A k \in Jobs \ {j} : jobs'[k] = jobs[k]
      /\ Busy({"load"})' = Busy({"load"}) \ {j} /\ Busy(Writes)' = Busy(Writes) \ {j}
  BY DoneJob DEF TableLoaded, CatalogueCore
<1>2. jobs[j].table \in RowTables /\ DOMAIN jobs[j].table \subseteq DOMAIN stock
  BY DEF CatalogueCore, CatalogueTypeOK, JobRecords, RowsStay
<1>3. listed' = jobs[j].table /\ UNCHANGED <<stock, meant, adrift>> /\ jobs' = [jobs EXCEPT ![j] = NoJob]
  BY DEF TableLoaded, Done
<1>4. CatalogueTypeOK' /\ DraftFollows' /\ RowsStay'
  <2>1. \A k \in Jobs : jobs'[k] = IF k = j THEN NoJob ELSE jobs[k]
    BY <1>3 DEF CatalogueCore, CatalogueTypeOK
  <2> QED
    BY <1>1, <1>2, <1>3, <2>1, SyncKeeps, IdleJob
    DEF TableLoaded, CatalogueCore, CatalogueTypeOK, RowsStay, Writes
<1>5. SUFFICES ASSUME ~adrift PROVE LoadFirst' /\ OneCallPerRow' /\ WritesOK' /\ TableFollows'
        /\ stock' = meant'
  BY <1>3, <1>4 DEF CatalogueCore
<1>6. Busy({"load"}) = {j} /\ Busy(Writes) = {} /\ jobs[j].table = stock /\ stock = meant
  BY <1>5 DEF CatalogueCore, LoadFirst, TableLoaded, Busy
<1> QED
  BY <1>1, <1>3, <1>6 DEF LoadFirst, OneCallPerRow, WritesOK, TableFollows

\* The answer of a write: the rows takes over the cells, which is the server's.
LEMMA WriteAnswerKeeps ==
    ASSUME CatalogueConstants, CatalogueCore,
          NEW j \in Jobs, jobs[j].what \in Writes, jobs[j].phase = "answered",
           Done(j), SyncDraft, UNCHANGED <<stock, meant, adrift>>, listed' \in RowTables,
           DOMAIN listed \subseteq DOMAIN listed', DOMAIN listed' \subseteq DOMAIN stock,
           \A i \in DOMAIN listed' :
               IF i = jobs[j].id THEN listed'[i] = jobs[j].table[i] ELSE i \in DOMAIN listed
                     /\ listed'[i] = listed[i],
           ~adrift => jobs[j].id \in DOMAIN listed'
    PROVE  CatalogueCore'
<1>1. /\ jobs' \in [Jobs -> JobRecords] /\ jobs'[j].what = "none"
      /\ \A k \in Jobs \ {j} : jobs'[k] = jobs[k]
      /\ Busy({"load"})' = Busy({"load"}) \ {j} /\ Busy(Writes)' = Busy(Writes) \ {j}
  BY DoneJob DEF CatalogueCore
<1>2. CatalogueTypeOK' /\ DraftFollows' /\ RowsStay'
  <2>1. \A k \in Jobs : jobs'[k] = IF k = j THEN NoJob ELSE jobs[k]
    BY DEF CatalogueCore, CatalogueTypeOK, Done
  <2> QED
    BY <1>1, <2>1, SyncKeeps, IdleJob
    DEF CatalogueCore, CatalogueTypeOK, RowsStay, Writes
<1>3. SUFFICES ASSUME ~adrift PROVE LoadFirst' /\ OneCallPerRow' /\ WritesOK' /\ TableFollows'
        /\ stock' = meant'
  BY <1>2 DEF CatalogueCore
<1>4. LoadFirst /\ OneCallPerRow /\ WritesOK /\ TableFollows /\ stock = meant /\ j \in Busy(Writes)
  BY <1>3 DEF CatalogueCore, Busy
<1>5. Busy({"load"}) = {}
  BY <1>4 DEF LoadFirst
<1>6. LoadFirst' /\ OneCallPerRow'
  BY <1>1, <1>4, <1>5 DEF LoadFirst, OneCallPerRow, Busy
<1>7. jobs[j].table[jobs[j].id] = stock[jobs[j].id] /\ jobs[j].id # None
  <2>1. jobs[j].id \in Items
    BY TableOf DEF CatalogueCore, RowsStay, CatalogueTypeOK, JobRecords
  <2> QED BY <1>4, <2>1 DEF WritesOK, CreateOK, ChangeOK, CatalogueConstants
<1>8. \A k \in Busy(Writes)' : k # j /\ jobs'[k] = jobs[k] /\ k \in Busy(Writes) /\ jobs[k].id # jobs[j].id
  BY <1>1, <1>4, <1>7 DEF OneCallPerRow, Busy
<1>9. WritesOK'
  <2> SUFFICES ASSUME NEW k \in Busy(Writes)'
               PROVE  (IF jobs[k].what = "create" THEN CreateOK(k) ELSE ChangeOK(k))'
    BY DEF WritesOK
  <2>1. IF jobs[k].what = "create" THEN CreateOK(k) ELSE ChangeOK(k)
    BY <1>4, <1>8 DEF WritesOK
  <2>2. jobs'[k] = jobs[k] /\ jobs[k].id # jobs[j].id
    BY <1>8
  <2> QED BY <2>1, <2>2 DEF CreateOK, ChangeOK, FieldsOf
<1>10. TableFollows'
  <2> SUFFICES ASSUME NEW id \in DOMAIN stock
               PROVE  \/ id \in DOMAIN listed' /\ listed'[id] = stock[id]
                      \/ \E k \in About(id)' : jobs'[k].phase = "answered"
    BY DEF TableFollows
  <2>1. CASE id = jobs[j].id
    BY <1>3, <1>7, <2>1
  <2>2. CASE id # jobs[j].id /\ id \in DOMAIN listed /\ listed[id] = stock[id]
    BY <2>2
  <2>3. ASSUME NEW k \in About(id), jobs[k].phase = "answered", id # jobs[j].id
        PROVE  \E o \in About(id)' : jobs'[o].phase = "answered"
    <3>1. k # j /\ k \in Busy(Writes)' /\ jobs'[k] = jobs[k]
      BY <1>1, <2>3 DEF About, Busy
    <3> QED BY <2>3, <3>1 DEF About
  <2> QED BY <1>4, <1>5, <2>1, <2>2, <2>3 DEF TableFollows
<1> QED BY <1>4, <1>6, <1>9, <1>10

\* A row that was created is put in front.
LEMMA RowCreatedKeeps == CatalogueConstants /\ CatalogueCore /\ (\E j \in Jobs : RowCreated(j))
      => CatalogueCore'
<1> SUFFICES ASSUME CatalogueConstants, CatalogueCore, NEW j \in Jobs, RowCreated(j) PROVE CatalogueCore'
  OBVIOUS
<1>1. /\ jobs[j].what \in Writes /\ jobs[j].phase = "answered"
      /\ jobs[j].id \in DOMAIN jobs[j].table /\ DOMAIN jobs[j].table \subseteq DOMAIN stock
      /\ jobs[j].table \in RowTables /\ listed \in RowTables /\ DOMAIN listed \subseteq DOMAIN stock
  BY DEF RowCreated, Writes, CatalogueCore, CatalogueTypeOK, JobRecords, RowsStay
<1>2. /\ DOMAIN listed' = DOMAIN listed \union {jobs[j].id}
      /\ \A i \in DOMAIN listed' : listed'[i] = IF i = jobs[j].id THEN jobs[j].table[i] ELSE listed[i]
      /\ listed' = [i \in DOMAIN listed \union {jobs[j].id} |-> IF i = jobs[j].id THEN jobs[j].table[i] ELSE listed[i]]
  BY DEF RowCreated
<1>3. listed' \in RowTables
  <2>1. listed' \in [DOMAIN listed' -> RowValues]
    BY <1>1, <1>2, TableOf
  <2> QED BY <1>1, <1>2, <2>1, TableOf, IsTable
<1> QED BY <1>1, <1>2, <1>3, WriteAnswerKeeps DEF RowCreated

\* A row that was changed is replaced.
LEMMA RowUpdatedKeeps == CatalogueConstants /\ CatalogueCore /\ (\E j \in Jobs : RowUpdated(j))
      => CatalogueCore'
<1> SUFFICES ASSUME CatalogueConstants, CatalogueCore, NEW j \in Jobs, RowUpdated(j) PROVE CatalogueCore'
  OBVIOUS
<1>1. /\ jobs[j].what \in Writes /\ jobs[j].phase = "answered"
      /\ jobs[j].id \in DOMAIN jobs[j].table /\ DOMAIN jobs[j].table \subseteq DOMAIN stock
      /\ jobs[j].table \in RowTables /\ listed \in RowTables /\ DOMAIN listed \subseteq DOMAIN stock
      /\ jobs[j].what # "create"
  BY DEF RowUpdated, Writes, CatalogueCore, CatalogueTypeOK, JobRecords, RowsStay
<1>2. /\ DOMAIN listed' = DOMAIN listed
      /\ \A i \in DOMAIN listed' : listed'[i] = IF i = jobs[j].id THEN jobs[j].table[i] ELSE listed[i]
      /\ listed' = [i \in DOMAIN listed |-> IF i = jobs[j].id THEN jobs[j].table[i] ELSE listed[i]]
  BY DEF RowUpdated
<1>3. listed' \in RowTables
  <2>1. listed' \in [DOMAIN listed' -> RowValues]
    BY <1>1, <1>2, TableOf
  <2> QED BY <1>1, <1>2, <2>1, TableOf, IsTable
<1>4. ~adrift => jobs[j].id \in DOMAIN listed
  BY <1>1 DEF CatalogueCore, WritesOK, ChangeOK, Busy
<1> QED BY <1>1, <1>2, <1>3, <1>4, WriteAnswerKeeps DEF RowUpdated

\* A call that has failed has changed nothing.
LEMMA JobFailsKeeps == CatalogueConstants /\ CatalogueCore /\ (\E j \in Jobs : JobFails(j)) => CatalogueCore'
<1> SUFFICES ASSUME CatalogueConstants, CatalogueCore, NEW j \in Jobs, JobFails(j) PROVE CatalogueCore'
  OBVIOUS
<1>1. /\ jobs' \in [Jobs -> JobRecords] /\ jobs'[j].what = "none"
      /\ \A k \in Jobs \ {j} : jobs'[k] = jobs[k]
      /\ Busy({"load"})' = Busy({"load"}) \ {j} /\ Busy(Writes)' = Busy(Writes) \ {j}
  BY DoneJob DEF JobFails, CatalogueCore
<1>2. CatalogueTypeOK' /\ DraftFollows' /\ RowsStay'
  <2>1. \A k \in Jobs : jobs'[k] = IF k = j THEN NoJob ELSE jobs[k]
    BY DEF CatalogueCore, CatalogueTypeOK, JobFails, Done
  <2> QED
    BY <1>1, <2>1, IdleJob
    DEF JobFails, CatalogueCore, CatalogueTypeOK, RowsStay, DraftFollows, Writes
<1>3. SUFFICES ASSUME ~adrift PROVE LoadFirst' /\ OneCallPerRow' /\ WritesOK' /\ TableFollows'
        /\ stock' = meant'
  BY <1>2 DEF CatalogueCore, JobFails
<1>4. LoadFirst /\ OneCallPerRow /\ WritesOK /\ TableFollows /\ stock = meant
  BY <1>3 DEF CatalogueCore
<1>5. j \notin Busy({"load"}) /\ UNCHANGED <<stock, listed, meant>> /\ jobs[j].phase # "answered"
  BY <1>4 DEF LoadFirst, JobFails
<1>6. \A k \in Busy(Writes) : k # j => jobs'[k] = jobs[k]
  BY <1>1 DEF Busy
<1>7. LoadFirst'
  BY <1>1, <1>4, <1>5 DEF LoadFirst, Busy
<1>8. OneCallPerRow'
  BY <1>1, <1>4, <1>6 DEF OneCallPerRow
<1>9. WritesOK'
  <2> SUFFICES ASSUME NEW k \in Busy(Writes)'
               PROVE  (IF jobs[k].what = "create" THEN CreateOK(k) ELSE ChangeOK(k))'
    BY DEF WritesOK
  <2>1. (IF jobs[k].what = "create" THEN CreateOK(k) ELSE ChangeOK(k)) /\ jobs'[k] = jobs[k]
    BY <1>1, <1>4, <1>6 DEF WritesOK
  <2> QED BY <1>5, <2>1 DEF CreateOK, ChangeOK, FieldsOf
<1>10. TableFollows'
  <2>1. \A id : \A k \in About(id) : jobs[k].phase = "answered" => k \in About(id)' /\ jobs'[k] = jobs[k]
    BY <1>1, <1>5, <1>6 DEF About
  <2>2. Busy({"load"})' = {} => Busy({"load"}) = {}
    BY <1>1, <1>5
  <2> QED BY <1>4, <1>5, <2>1, <2>2 DEF TableFollows
<1> QED BY <1>4, <1>5, <1>7, <1>8, <1>9, <1>10

\* An answer that is lost.
LEMMA JobIsLostKeeps == CatalogueConstants /\ CatalogueCore /\ (\E j \in Jobs : JobIsLost(j)) => CatalogueCore'
<1> SUFFICES ASSUME CatalogueConstants, CatalogueCore, NEW j \in Jobs, JobIsLost(j) PROVE CatalogueCore'
  OBVIOUS
<1>1. /\ jobs' \in [Jobs -> JobRecords]
      /\ jobs'[j].what = jobs[j].what /\ jobs'[j].phase = "failed" /\ jobs'[j].id = jobs[j].id
      /\ jobs'[j].table = jobs[j].table /\ jobs'[j].row = jobs[j].row /\ jobs'[j].touched = jobs[j].touched
      /\ \A k \in Jobs \ {j} : jobs'[k] = jobs[k]
  BY DEF JobIsLost, CatalogueCore, CatalogueTypeOK, JobRecords
<1>2. Busy({"load"})' = Busy({"load"}) /\ Busy(Writes)' = Busy(Writes)
  BY <1>1 DEF Busy, Writes
<1>3. CatalogueTypeOK' /\ DraftFollows' /\ RowsStay'
  BY <1>1 DEF JobIsLost, CatalogueCore, CatalogueTypeOK, RowsStay, DraftFollows
<1>4. SUFFICES ASSUME ~adrift' PROVE LoadFirst' /\ OneCallPerRow' /\ WritesOK' /\ TableFollows'
        /\ stock' = meant'
  BY <1>3 DEF CatalogueCore
<1>5. LoadFirst /\ OneCallPerRow /\ WritesOK /\ TableFollows /\ stock = meant
  BY <1>4 DEF CatalogueCore, JobIsLost
<1>6. j \notin Busy({"load"}) /\ UNCHANGED <<stock, listed, meant>> /\ jobs[j].phase = "sent"
  BY <1>4 DEF JobIsLost, Busy
<1>7. LoadFirst'
  <2>1. \A k \in Busy({"load"}) : jobs'[k] = jobs[k] /\ k \in Jobs
    BY <1>1, <1>6 DEF Busy
  <2> QED BY <1>1, <1>2, <1>5, <1>6, <2>1 DEF LoadFirst
<1>8. OneCallPerRow'
  BY <1>1, <1>2, <1>5 DEF OneCallPerRow, Busy
<1>9. WritesOK'
  <2> SUFFICES ASSUME NEW k \in Busy(Writes)
               PROVE  (IF jobs[k].what = "create" THEN CreateOK(k) ELSE ChangeOK(k))'
    BY <1>2 DEF WritesOK
  <2>1. IF jobs[k].what = "create" THEN CreateOK(k) ELSE ChangeOK(k)
    BY <1>5 DEF WritesOK
  <2>2. CASE k # j
    <3>1. jobs'[k] = jobs[k]
      BY <1>1, <2>2 DEF Busy
    <3> QED BY <1>6, <2>1, <3>1 DEF CreateOK, ChangeOK, FieldsOf
  <2>3. CASE k = j
    BY <1>1, <1>6, <2>1, <2>3 DEF CreateOK, ChangeOK, FieldsOf
  <2> QED BY <2>2, <2>3
<1>10. TableFollows'
  <2>1. \A id : \A k \in About(id) : jobs[k].phase = "answered" => k \in About(id)' /\ jobs'[k] = jobs[k]
    BY <1>1, <1>2, <1>6 DEF About, Busy
  <2> QED BY <1>2, <1>5, <1>6, <2>1 DEF TableFollows
<1> QED BY <1>5, <1>6, <1>7, <1>8, <1>9, <1>10

\* CatalogueCore is inductive.
THEOREM CatalogueInvariant == CatalogueSpec => []CatalogueCore
<1>1. CatalogueInit => CatalogueCore
  BY CatalogueConstants, InitCatalogue
<1>2. CatalogueCore /\ [CatalogueNext]_catalogueVars => CatalogueCore'
  <2> SUFFICES ASSUME CatalogueCore, [CatalogueNext]_catalogueVars PROVE CatalogueCore'
    OBVIOUS
  <2> USE CatalogueConstants
  <2>1. CASE UNCHANGED catalogueVars
    BY <2>1, EditorStep DEF catalogueVars, CatalogueCore, CatalogueTypeOK, DraftFollows
  <2> QED
    BY <2>1, FormKeeps, SaveRowKeeps, ToggleKeeps, ServeListKeeps, ServeInsertKeeps, ServeChangeKeeps,
       TableLoadedKeeps, RowCreatedKeeps, RowUpdatedKeeps, JobFailsKeeps, JobIsLostKeeps
    DEF CatalogueNext
<1> QED BY <1>1, <1>2, PTL DEF CatalogueSpec

\* EditsAreKept for any rows, names and calls: the server holds what the administrator typed
\* and switched, and the table shows it once all answers are in.
THEOREM EditsStay == CatalogueSpec => []EditsAreKept
<1>1. CatalogueCore => EditsAreKept
  <2> SUFFICES ASSUME CatalogueCore, ~adrift, Busy(Writes \union {"load"}) = {} PROVE listed = stock
    BY DEF EditsAreKept, CatalogueCore
  <2>1. Busy(Writes) = {} /\ Busy({"load"}) = {}
    BY DEF Busy
  <2>2. \A id \in DOMAIN stock : id \in DOMAIN listed /\ listed[id] = stock[id]
    BY <2>1 DEF CatalogueCore, TableFollows, About
  <2>3. DOMAIN listed = DOMAIN stock
    BY <2>2 DEF CatalogueCore, RowsStay
  <2>4. listed \in [DOMAIN listed -> RowValues] /\ stock \in [DOMAIN stock -> RowValues]
    BY DEF CatalogueCore, CatalogueTypeOK, RowTables
  <2> QED BY <2>2, <2>3, <2>4
<1> QED BY <1>1, CatalogueInvariant, PTL
=============================================================================
