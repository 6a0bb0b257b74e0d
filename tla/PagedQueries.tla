----------------------------- MODULE PagedQueries -----------------------------
(***************************************************************************)
(* Queries answered in pages: IndexerResultSet (nodeclient/                *)
(* indexer_client.go) and ValidatorsAll (nodeclient/http_api_client.go).   *)
(* The node answers with a page and the cursor of the next one; requests   *)
(* fail at any time and the caller of Next goes on as it likes.            *)
(***************************************************************************)
EXTENDS Integers, Sequences, FiniteSetsExt

CONSTANTS
    Results,        \* numbers of results to explore
    PageSize,
    MaxPages,       \* values of maxPages to explore
    MaxNext         \* bound on the calls of Next

ASSUME PagingAssumption ==
    /\ Results \subseteq Nat /\ MaxPages \subseteq Nat
    /\ PageSize \in Nat \ {0} /\ MaxNext \in Nat

VARIABLES
    results,        \* the number of results the node has
    resultSet,      \* IndexerResultSet, with what its query's offset points to
    collected,      \* the results that the caller of Next got
    nexts,
    pages           \* ValidatorsAll: its local variables and what it returned

pagingVars == <<results, resultSet, collected, nexts, pages>>

End == 0                            \* the empty cursor
Empty == [items |-> <<>>, cursor |-> End]

(* The node: results from a cursor on, and the cursor after them. *)
Page(c) ==
    LET last == Min({c + PageSize, results})
    IN  [items |-> [i \in 1..(last - c) |-> c + i], cursor |-> IF last = results THEN End ELSE last]

-----------------------------------------------------------------------------

(* nextFunc: a new response is filled from the query's offset, which still *)
(* points into the response before.                                        *)
nextFunc(ok) ==
    [resultSet EXCEPT !.response = IF ok THEN Page(resultSet.offset) ELSE Empty]

Exhausted == resultSet.firstQueryDone /\ resultSet.response.cursor = End

(* Mutant: a failed request is taken for the end. *)
NextForgetsError(ok) ==
    /\ nexts < MaxNext /\ nexts' = nexts + 1
    /\ LET r == IF Exhausted THEN resultSet ELSE nextFunc(ok)
       IN  /\ resultSet' = [r EXCEPT !.offset = r.response.cursor, !.firstQueryDone = TRUE,
                                     !.more = r.response.items # <<>> /\ ~Exhausted]
           /\ collected' = IF Exhausted THEN collected ELSE collected \o r.response.items
    /\ UNCHANGED <<results, pages>>

(* Next, and the caller takes the items if it returns true. *)
NextPage(ok) ==
    /\ nexts < MaxNext /\ nexts' = nexts + 1
    /\ LET r == nextFunc(ok)
       IN  IF Exhausted
           THEN resultSet' = [resultSet EXCEPT !.more = FALSE] /\ UNCHANGED collected
           ELSE IF ~ok
           THEN resultSet' = [r EXCEPT !.error = TRUE, !.more = FALSE] /\ UNCHANGED collected
           ELSE /\ resultSet' = [r EXCEPT !.offset = r.response.cursor, !.firstQueryDone = TRUE,
                                          !.more = r.response.items # <<>>]
                /\ collected' = collected \o r.response.items
    /\ UNCHANGED <<results, pages>>

-----------------------------------------------------------------------------
Paging == pages.returned = "no"

PageLimitReached == pages.count >= pages.max

(* ValidatorsAll: the first page, and a page of its loop. *)
ValidatorsPage(ok) ==
    /\ Paging /\ (pages.count > 0 => pages.cursor # End /\ ~PageLimitReached)
    /\ pages' = IF ~ok THEN [pages EXCEPT !.returned = "error"]
                ELSE [pages EXCEPT !.validators = @ \o Page(pages.cursor).items,
                                   !.cursor = Page(pages.cursor).cursor,
                                   !.count = @ + 1]
    /\ UNCHANGED <<results, resultSet, collected, nexts>>

(* The loop ends; the second result tells whether it got everything. *)
ValidatorsReturn ==
    /\ Paging /\ pages.count > 0 /\ (pages.cursor # End => PageLimitReached)
    /\ pages' = [pages EXCEPT !.returned = IF pages.cursor = End THEN "all" ELSE "some"]
    /\ UNCHANGED <<results, resultSet, collected, nexts>>

-----------------------------------------------------------------------------
PagingInit ==
    /\ results \in Results
    /\ resultSet = [firstQueryDone |-> FALSE, response |-> Empty, offset |-> End, error |-> FALSE, more |-> TRUE]
    /\ collected = <<>> /\ nexts = 0
    /\ \E m \in MaxPages :
          pages = [max |-> m, count |-> 0, cursor |-> End, validators |-> <<>>, returned |-> "no"]

PagingStep ==
    \/ \E ok \in BOOLEAN : NextPage(ok) \/ ValidatorsPage(ok)
    \/ ValidatorsReturn

-----------------------------------------------------------------------------
FirstResults(n) == [i \in 1..n |-> i]

(* Whatever requests fail and however the caller goes on after a failure,  *)
(* the pages of an indexer query come in order and none of them twice.     *)
PagesComeInOrder == collected = FirstResults(Len(collected))

(* When Next has no more results and the result set has no error, the      *)
(* caller has all of them.                                                 *)
NoSilentTruncation ==
    ~resultSet.more /\ ~resultSet.error => Len(collected) = results

(* ValidatorsAll returns all validators, or says that it did not, and      *)
(* makes no more requests than the caller allowed, but at least one.       *)
AllRetrievedIsAll ==
    /\ pages.returned = "all" => pages.validators = FirstResults(results)
    /\ pages.returned = "some" => pages.validators = FirstResults(Len(pages.validators)) /\ Len(pages.validators) < results
    /\ pages.count <= Max({1, pages.max})

(* Queries in pages are complete or say that they are not. *)
QueriesAreComplete == PagesComeInOrder /\ NoSilentTruncation /\ AllRetrievedIsAll
=============================================================================
