----------------------------- MODULE PagedLists -----------------------------
(***************************************************************************)
(* The reads of the API: a client that walks through the pages of a list   *)
(* while rows are added and change their status. A page takes two queries, *)
(* side by side and outside of a transaction (Promise.all).                *)
(***************************************************************************)
EXTENDS Naturals, Sequences, FiniteSets

CONSTANTS ListStatuses, MaxRows, PageSize,
          NoFilter,      \* a filter that is not given
          NoWalk

ASSUME PagedListsAssumption == MaxRows \in Nat /\ PageSize \in Nat \ {0}

VARIABLES rows,          \* a table in creation order: the status of each row
          walk,          \* the client's walk through its pages
          shifted        \* history: a row stopped matching during the walk, or began to
                         \* match between two queries of a page, ahead of others

listVars == <<rows, walk, shifted>>

PagedListsInit ==
    /\ rows = <<>> /\ walk = NoWalk /\ shifted = FALSE

-----------------------------------------------------------------------------
(* Lists in pages: credits, marketplace listings, bridge records.           *)

\* where: every filter that is given has to match. Listings take the status
\* ACTIVE for one that is not given.
credits_where(status, f) == f = NoFilter \/ status = f
listings_where(status, f) == status = IF f = NoFilter THEN "ACTIVE" ELSE f
records_where(status, f) == f = NoFilter \/ status = f

\* The statuses a list shows under a filter; the credits take either order.
shown_statuses(list, f) ==
    {s \in ListStatuses :
        CASE list = "credits" -> credits_where(s, f)
          [] list = "listings" -> listings_where(s, f)
          [] list = "records" -> records_where(s, f)}

\* The numbers of the rows that match.
matching(statuses) == {i \in DOMAIN rows : rows[i] \in statuses}

\* orderBy: credits are sorted either way by their creation, the other lists
\* newest first. (Sorted by vintage, equal vintages come in any order, so that
\* pages promise nothing.)
sorts(list) == IF list = "credits" THEN {"created_asc", "created_desc"} ELSE {"created_desc"}

ahead(found, sort, i) == {j \in found : IF sort = "created_asc" THEN j < i ELSE j > i}

\* skip and take.
findMany(statuses, sort, page_no) ==
    LET found == matching(statuses)
        skip == (page_no - 1) * PageSize
    IN  {i \in found : Cardinality(ahead(found, sort, i)) \in skip .. skip + PageSize - 1}

count(statuses) == Cardinality(matching(statuses))

totalPages_Floor(total) == total \div PageSize

totalPages(total) == (total + PageSize - 1) \div PageSize

start_walk(list, f, sort) ==
    /\ walk = NoWalk
    /\ LET statuses == shown_statuses(list, f) IN
       walk' = [where |-> statuses, sort |-> sort, page |-> 1,
                todo |-> {"find", "count"}, total |-> 0, seen |-> {},
                due |-> matching(statuses), done |-> FALSE]
    /\ UNCHANGED <<rows, shifted>>

\* One of the two queries of a page is executed.
query_page ==
    /\ walk # NoWalk
    /\ \E q \in walk.todo :
       walk' = [walk EXCEPT
           !.todo = @ \ {q},
           !.seen = IF q = "find"
                    THEN @ \cup findMany(walk.where, walk.sort, walk.page) ELSE @,
           !.total = IF q = "count" THEN count(walk.where) ELSE @]
    /\ UNCHANGED <<rows, shifted>>

\* The client turns to the next page while the answer says that there is one.
next_page ==
    /\ walk # NoWalk /\ walk.todo = {} /\ ~walk.done
    /\ walk' = IF walk.page < totalPages(walk.total)
               THEN [walk EXCEPT !.page = @ + 1, !.todo = {"find", "count"}]
               ELSE [walk EXCEPT !.done = TRUE]
    /\ UNCHANGED <<rows, shifted>>

end_walk ==
    /\ walk # NoWalk /\ walk.done
    /\ walk' = NoWalk /\ shifted' = FALSE
    /\ UNCHANGED rows

between_queries == walk # NoWalk /\ Cardinality(walk.todo) = 1

add_row(status) ==
    /\ Len(rows) < MaxRows
    /\ rows' = Append(rows, status)
    /\ shifted' = (shifted \/ (between_queries /\ walk.sort = "created_desc"))
    /\ UNCHANGED walk

change_row(i, status) ==
    /\ i \in DOMAIN rows /\ rows[i] # status
    /\ rows' = [rows EXCEPT ![i] = status]
    /\ shifted' = \/ shifted
                  \/ walk # NoWalk /\ rows[i] \in walk.where /\ status \notin walk.where
                  \/ between_queries /\ status \in walk.where
    /\ UNCHANGED walk

-----------------------------------------------------------------------------
PagedListsNext ==
    \/ \E list \in {"credits", "listings", "records"}, f \in ListStatuses \cup {NoFilter} :
           \E sort \in sorts(list) : start_walk(list, f, sort)
    \/ query_page \/ next_page \/ end_walk
    \/ \E s \in ListStatuses : add_row(s) \/ \E i \in DOMAIN rows : change_row(i, s)

PagedListsSpec == PagedListsInit /\ [][PagedListsNext]_listVars

-----------------------------------------------------------------------------
\* A client that turns the pages to the end has seen every row that matched
\* when it began, although rows are added meanwhile: oldest first always,
\* newest first unless one began to match between the two queries of a page.
\* Rows that stop matching shift the others to pages already read, and are
\* left out (getCredits, getListings, getRecords).
PagesMissNothing ==
    walk # NoWalk /\ walk.done /\ ~shifted => walk.due \subseteq walk.seen

=============================================================================
