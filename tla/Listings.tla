------------------------------- MODULE Listings -------------------------------
(***************************************************************************)
(* The pages that list quotes and orders, and the queries behind them. The *)
(* address holds the filter, the order and the number of the page; each    *)
(* change of it asks again, and nothing cancels the question before. The   *)
(* server counts the rows and reads one page of them in two queries of no  *)
(* transaction, by offset, while rows are created and leave the filter.    *)
(*                                                                         *)
(* A row is known by its place in the order of creation. A status is the   *)
(* one a row is created with, or a later one.                              *)
(*                                                                         *)
(* Definitions no action refers to are mutated forms of their neighbours.  *)
(***************************************************************************)
EXTENDS Naturals, Sequences, FiniteSets, Absence

CONSTANTS
    Tables,     \* rows to begin with: sequences of [mine, worth, status]
    Worths,     \* totals of a row
    PageSize,   \* PAGE_SIZE
    MaxRows,    \* bound: rows
    MaxAsked,   \* bound: calls under way at once
    MaxPages    \* bound: page numbers

RowRecords == [mine : BOOLEAN, worth : Nat, status : {"first", "later"}]

ASSUME ListingConstants ==
    /\ PageSize \in Nat \ {0} /\ {MaxRows, MaxAsked, MaxPages} \subseteq Nat /\ MaxAsked > 0
    /\ Worths \subseteq Nat /\ \A t \in Tables : t \in Seq(RowRecords)

VARIABLES
    listing,  \* the page that is open: "quotes", "orders" or "adminOrders"
    table,    \* rows of the server, oldest first
    query,    \* the address: [status, sort, page]
    view,     \* what is shown: [items, pages, loading, error]
    lookups,  \* calls under way: [slot, query, items, pages]
    walk      \* history of the walk from page to page: [due, seen, excused]

listingVars == <<listing, table, query, view, lookups, walk>>

-----------------------------------------------------------------------------
(* The server *)

\* What an excused walk had to see is forgotten.
NoWalk == [due |-> {}, seen |-> {}, excused |-> TRUE]
WalkUnless(cause) == IF cause THEN NoWalk ELSE walk

Rows == DOMAIN table

\* Quotes and "my orders" are the caller's; the administrator sees everybody's.
Matching(q) ==
    {i \in Rows : /\ table[i].mine \/ listing = "adminOrders"
                  /\ q.status \in {"all", table[i].status}}

\* Quotes of the same total come in either order.
Precedes(i, j, sort, tie) ==
    CASE sort = "oldest" -> i < j
      [] sort = "newest" -> i > j
      [] sort = "total"  -> \/ table[i].worth > table[j].worth
                            \/ table[i].worth = table[j].worth /\ (IF tie THEN i < j ELSE i > j)

Skipped(q) == (q.page - 1) * PageSize

PageOf(q, tie) ==
    {i \in Matching(q) :
        LET before == Cardinality({j \in Matching(q) : Precedes(j, i, q.sort, tie)}) IN
        before >= Skipped(q) /\ before < Skipped(q) + PageSize}

TotalPagesRoundedDown(total) == IF total < PageSize THEN 1 ELSE total \div PageSize

TotalPages(total) == IF total = 0 THEN 1 ELSE (total + PageSize - 1) \div PageSize

CountRows(a) ==
    /\ a.pages = None
    /\ lookups' = (lookups \ {a}) \union {[a EXCEPT !.pages = TotalPages(Cardinality(Matching(a.query)))]}
    /\ UNCHANGED <<listing, table, query, view, walk>>

FindRows(a, tie) ==
    /\ a.items = None
    /\ lookups' = (lookups \ {a}) \union {[a EXCEPT !.items = PageOf(a.query, tie)]}
    /\ UNCHANGED <<listing, table, query, view, walk>>

\* A row that is created between the count and the rows of one answer has been left out
\* of the count.
CreateRow(w, mine) ==
    /\ Len(table) < MaxRows
    /\ table' = Append(table, [mine |-> mine, worth |-> w, status |-> "first"])
    /\ walk' = WalkUnless(\E a \in lookups : a.pages # None /\ a.items = None)
    /\ UNCHANGED <<listing, query, view, lookups>>

\* A draft is ordered, or expires. No order changes its status.
LeaveFilter(i) ==
    /\ listing = "quotes"
    /\ table[i].status = "first"
    /\ table' = [table EXCEPT ![i].status = "later"]
    /\ walk' = WalkUnless(query.status = "first")
    /\ UNCHANGED <<listing, query, view, lookups>>

-----------------------------------------------------------------------------
(* The pages *)

\* The orders of a customer are neither filtered nor sorted, the administrator's not sorted.
Statuses == IF listing = "orders" THEN {"all"} ELSE {"all", "first"}
Sorts == IF listing = "quotes" THEN {"newest", "oldest", "total"} ELSE {"newest"}

Question(q) ==
    [slot |-> CHOOSE n \in 1 .. MaxAsked : n \notin {a.slot : a \in lookups},
     query |-> q, items |-> None, pages |-> None]

Ties(q) == q.sort = "total" /\ \E i, j \in Matching(q) : i # j /\ table[i].worth = table[j].worth

Walk(q) == IF Ties(q) \/ q.page # 1 THEN NoWalk
           ELSE [due |-> Matching(q), seen |-> {}, excused |-> FALSE]

\* The address may ask for any page.
ListingInit ==
    /\ listing \in {"quotes", "orders", "adminOrders"}
    /\ table \in Tables
    /\ query \in [status : Statuses, sort : Sorts, page : 1 .. MaxPages]
    /\ view = [items |-> {}, pages |-> 1, loading |-> TRUE, error |-> FALSE]
    /\ lookups = {[slot |-> 1, query |-> query, items |-> None, pages |-> None]}
    /\ walk = Walk(query)

\* The address changes, and the effect that watches it asks. A walk begins on a first page
\* and goes on from page to page.
Navigate(q) ==
    /\ Cardinality(lookups) < MaxAsked
    /\ query' = q
    /\ view' = [view EXCEPT !.loading = TRUE, !.error = FALSE]
    /\ lookups' = lookups \union {Question(q)}
    /\ walk' = IF q.page = 1 /\ lookups = {} THEN Walk(q)
               ELSE WalkUnless(Ties(q) \/ lookups # {} \/ q.sort # query.sort)
    /\ UNCHANGED <<listing, table>>

SetFilter(s) ==
    /\ s # query.status
    /\ Navigate([query EXCEPT !.status = s, !.page = 1])

\* The number of the page is kept.
SetSort(s) ==
    /\ s # query.sort
    /\ Navigate([query EXCEPT !.sort = s])

\* The pager is there when rows are.
Pager == ~view.loading /\ ~view.error /\ view.items # {} /\ view.pages > 1

NextPage ==
    /\ Pager /\ query.page < view.pages
    /\ query.page < MaxPages
    /\ Navigate([query EXCEPT !.page = @ + 1])

PreviousPage ==
    /\ Pager /\ query.page > 1
    /\ Navigate([query EXCEPT !.page = @ - 1])

Arrives(a) ==
    /\ a.items # None /\ a.pages # None
    /\ lookups' = lookups \ {a}
    /\ view' = [view EXCEPT !.items = a.items, !.pages = a.pages, !.loading = FALSE]
    /\ walk' = IF walk.excused THEN walk ELSE [walk EXCEPT !.seen = @ \union a.items]
    /\ UNCHANGED <<listing, table, query>>

LookupFails(a) ==
    /\ lookups' = lookups \ {a}
    /\ view' = [view EXCEPT !.items = {}, !.pages = 1, !.loading = FALSE, !.error = TRUE]
    /\ walk' = NoWalk
    /\ UNCHANGED <<listing, table, query>>

ListingNext ==
    \/ \E a \in lookups : CountRows(a) \/ (\E tie \in BOOLEAN : FindRows(a, tie)) \/ Arrives(a) \/ LookupFails(a)
    \/ \E w \in Worths, mine \in BOOLEAN : CreateRow(w, mine)
    \/ \E i \in Rows : LeaveFilter(i)
    \/ (\E s \in Statuses : SetFilter(s)) \/ (\E s \in Sorts : SetSort(s))
    \/ NextPage \/ PreviousPage

ListingSpec == ListingInit /\ [][ListingNext]_listingVars

-----------------------------------------------------------------------------
(* Properties *)

\* Who walks from the first page to the last has seen every row that was there when the
\* walk began, whatever rows are created on the way and wherever they sort in. The
\* exceptions: a row that leaves the filter moves those behind it over the page break;
\* rows of the same total have no order; a row created between the count and the rows of
\* one answer; answers that crossed or failed; and a change of the order in mid-walk.
WalkSeesEveryRow ==
    lookups = {} /\ query.page >= view.pages /\ ~walk.excused => walk.due \subseteq walk.seen
=============================================================================
