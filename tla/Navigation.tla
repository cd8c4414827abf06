------------------------------- MODULE Navigation -----------------------------
(***************************************************************************)
(* Where a visitor gets to: the route table, its guards and the calls of   *)
(* AuthService that navigate, over Angular's router. A guard first waits   *)
(* for the session of an earlier visit, for five seconds at most; pages    *)
(* are loaded after their guard has passed; a navigation that begins ends  *)
(* the one before; and a guard on a parent route runs when the parent is   *)
(* entered, not when its children change. How the session is restored and  *)
(* lost is BrowserSession's business. The preview build is left out.       *)
(*                                                                         *)
(* Definitions no action refers to are mutated forms of their neighbours.  *)
(***************************************************************************)
EXTENDS Naturals, Absence

CONSTANTS
    MaxTurns   \* bound: sessions that begin, end or are restored

VARIABLES
    user,    \* AuthService.user: None, "CUSTOMER" or "ADMIN"
    ready,   \* AuthService.ready
    page,    \* the page that is shown
    nav,     \* the navigation under way: [to, stage, back: the address the guard kept,
             \*   after: where sign-in goes on to, hops: redirects, turns: changes of the user]
    returnTo, \* returnUrl in the address of the login page
    late,    \* history: a guard gave up before the session was restored
    strayed, \* history: a navigation took the place of the way out to the login page
    turns    \* sessions that began or ended so far

navigationVars == <<user, ready, page, nav, returnTo, late, strayed, turns>>

-----------------------------------------------------------------------------
(* The route table: what guards a page, and the route the guard is on *)

GuestPages == [login |-> "login", signup |-> "signup"]

AuthPages ==
    [quoteList |-> "quotes", quoteUpload |-> "quotes", quoteDetail |-> "quotes",
     checkoutReview |-> "checkout", checkoutPayment |-> "checkout",
     orderList |-> "orders", orderDetail |-> "orders", account |-> "account"]

AdminPages == [adminMaterials |-> "admin", adminBranding |-> "admin", adminOrders |-> "admin"]

OpenPages == {"forbidden", "notFound"}

Pages == DOMAIN GuestPages \union DOMAIN AuthPages \union DOMAIN AdminPages \union OpenPages

GuardedRoute(p) ==
    CASE p \in DOMAIN GuestPages -> GuestPages[p]
      [] p \in DOMAIN AuthPages  -> AuthPages[p]
      [] p \in DOMAIN AdminPages -> AdminPages[p]
      [] OTHER -> p

-----------------------------------------------------------------------------
(* Guards *)

IsAuthenticated == user # None
IsAdmin == user = "ADMIN"

Allow == "allow"

AuthGuard == IF IsAuthenticated THEN Allow ELSE "login"

AdminGuardForAnyone == IF IsAuthenticated THEN Allow ELSE "login"

AdminGuard == IF IsAdmin THEN Allow ELSE IF ~IsAuthenticated THEN "login" ELSE "forbidden"

GuestGuard == IF ~IsAuthenticated THEN Allow ELSE "quoteList"

Verdict(p) ==
    CASE p \in DOMAIN GuestPages -> GuestGuard
      [] p \in DOMAIN AuthPages  -> AuthGuard
      [] p \in DOMAIN AdminPages -> AdminGuard
      [] OTHER -> Allow

-----------------------------------------------------------------------------
(* The router *)

Going(to) == [to |-> to, stage |-> "guard", back |-> None, after |-> None, hops |-> 0, turns |-> 0]

Somewhere == Pages \union {None}

Navigation == [to : Pages, stage : {"guard", "load"}, back : Somewhere, after : Somewhere,
               hops : Nat, turns : Nat]

ASSUME NavigationConstants ==
    /\ MaxTurns \in Nat
    /\ None \notin Pages \union {"CUSTOMER", "ADMIN"}
    /\ None \notin Navigation

NavigationInit ==
    /\ user = None
    /\ ready = FALSE
    /\ page = None
    /\ nav \in {Going(p) : p \in Pages}
    /\ returnTo = None
    /\ late = FALSE /\ strayed = FALSE
    /\ turns = 0

\* A navigation to p begins. One that cuts in on a sign-in is cut off itself: the sign-in goes on
\* to the address the guard kept.
Heading(p) == IF nav # None /\ nav.after # None THEN Going(nav.after) ELSE Going(p)

\* A link or an address that is typed.
Go(p) ==
    /\ page # None /\ p # page
    /\ nav' = Heading(p)
    /\ strayed' = (strayed \/ (nav # None /\ nav.to = "login" /\ ~IsAuthenticated))
    /\ UNCHANGED <<user, ready, page, returnTo, late, turns>>

\* The children of a route that is open are entered without its guard.
Unguarded == page # None /\ GuardedRoute(nav.to) = GuardedRoute(page)

PassWithin ==
    /\ nav # None /\ nav.stage = "guard"
    /\ Unguarded
    /\ nav' = [nav EXCEPT !.stage = "load"]
    /\ UNCHANGED <<user, ready, page, returnTo, late, strayed, turns>>

Decide ==
    LET verdict == Verdict(nav.to) IN
    nav' = IF verdict = Allow THEN [nav EXCEPT !.stage = "load"]
           ELSE [nav EXCEPT !.to = verdict, !.hops = @ + 1,
                            !.back = IF verdict = "login" THEN nav.to ELSE @]

\* Pages that nothing guards do not wait.
Guard ==
    /\ nav # None /\ nav.stage = "guard"
    /\ ~Unguarded
    /\ ready \/ nav.to \in OpenPages
    /\ Decide
    /\ UNCHANGED <<user, ready, page, returnTo, late, strayed, turns>>

\* A guard that has waited for five seconds decides without the session.
GuardTimesOut ==
    /\ nav # None /\ nav.stage = "guard"
    /\ ~Unguarded
    /\ ~ready /\ nav.to \notin OpenPages
    /\ Decide
    /\ late' = TRUE
    /\ UNCHANGED <<user, ready, page, returnTo, strayed, turns>>

Load ==
    /\ nav # None /\ nav.stage = "load"
    /\ page' = nav.to
    /\ returnTo' = IF nav.to = "login" THEN nav.back ELSE None
    /\ nav' = IF nav.after # None THEN Going(nav.after) ELSE None
    /\ strayed' = (strayed /\ GuardedRoute(nav.to) = GuardedRoute(page))
    /\ UNCHANGED <<user, ready, late, turns>>

-----------------------------------------------------------------------------
(* AuthService *)

\* restore() settles, with the user of the session or, when nothing hints at one or its user cannot
\* be read, with none, whoever signed in meanwhile.
SessionRestored(u) ==
    /\ ~ready
    /\ ready' = TRUE
    /\ user' = u
    /\ nav' = IF nav = None THEN None ELSE [nav EXCEPT !.turns = @ + 1]
    /\ UNCHANGED <<page, returnTo, late, strayed, turns>>

\* The login and the signup page; login goes on to the address the guard kept.
SignIn(u) ==
    /\ page \in DOMAIN GuestPages
    /\ turns < MaxTurns
    /\ turns' = turns + 1
    /\ user' = u
    /\ nav' = [Going("quoteList") EXCEPT !.after = returnTo]
    /\ UNCHANGED <<ready, page, returnTo, late, strayed>>

\* The refresh of restore() is refused: beside the user being cleared, as above, the handler of a
\* lost session ends whatever navigation is under way and sets out for the login page.
RestoreRefused ==
    /\ ~ready
    /\ ready' = TRUE
    /\ user' = None
    /\ nav' = Heading("login")
    /\ UNCHANGED <<page, returnTo, late, strayed, turns>>

\* A refresh that is refused, whoever is signed in by then, or a logout that is done, ends on the
\* login page.
SignedOut ==
    /\ turns < MaxTurns
    /\ turns' = turns + 1
    /\ user' = None
    /\ nav' = Heading("login")
    /\ UNCHANGED <<ready, page, returnTo, late, strayed>>

NavigationNext ==
    \/ \E p \in Pages : Go(p)
    \/ PassWithin \/ Guard \/ GuardTimesOut \/ Load
    \/ \E u \in {None, "CUSTOMER", "ADMIN"} : SessionRestored(u)
    \/ \E u \in {"CUSTOMER", "ADMIN"} : SignIn(u)
    \/ RestoreRefused \/ SignedOut

NavigationSpec == NavigationInit /\ [][NavigationNext]_navigationVars

-----------------------------------------------------------------------------
(* Properties *)

\* A page that needs a session or the administrator's role is shown to nobody else once
\* the router has come to rest, and a navigation is redirected once at most, so that no
\* order of links, sign-ins, sign-outs and late answers ends in a loop. The exceptions: a
\* guard gave up before the session was restored, a link within the route was followed while the
\* login page was loading, and a session that was restored between two guards, which
\* costs one more redirect.
GuardsHold ==
    /\ nav = None /\ ~late /\ ~strayed =>
          /\ page \in DOMAIN AuthPages => user \in {"CUSTOMER", "ADMIN"}
          /\ page \in DOMAIN AdminPages => user = "ADMIN"
    /\ nav # None => nav.hops <= 1 + nav.turns
=============================================================================
