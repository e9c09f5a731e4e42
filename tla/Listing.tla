------------------------------- MODULE Listing -------------------------------
(***************************************************************************)
(* GET /v1/characters and character.list, page after page: a walk along    *)
(* cursors through rows that are ordered by (updated_at, id), the latest   *)
(* first, while transactions of others change the rows.                    *)
(*                                                                         *)
(* updated_at is the NOW() of a trigger, and in PostgreSQL that is when    *)
(* the transaction began: whatever commits now may have begun at any time, *)
(* so it may write an earlier time than the row already has.  An id is a   *)
(* number, for its place in the order of the uuids.                        *)
(***************************************************************************)
EXTENDS Naturals, FiniteSets

CONSTANTS Ids,      \* characters that pass the filters, or may
          MaxLimit, \* greatest limit of a request
          MaxTime,  \* bound of the clock
          MaxPages  \* bound of the walk

ASSUME ListingAssumption ==
  /\ Ids \subseteq Nat /\ IsFiniteSet(Ids)
  /\ MaxLimit \in Nat \ {0} /\ MaxTime \in Nat /\ MaxPages \in Nat

VARIABLES updated,   \* [Ids -> updated_at]
          listed,    \* rows that are not deleted and pass the filters
          clock,     \* the time
          walk,      \* "none", "going" along a cursor, "ended" with a page that was not full
          cursor,    \* the key that the client has for the next page, or nothing
          pages,     \* pages of the walk
          returned,  \* what they contained: key and page
          untouched, \* rows listed all the time since the walk began, unchanged (history)
          movedBack  \* rows whose updated_at went back since (history)

listVars == <<updated, listed, clock, walk, cursor, pages, returned, untouched, movedBack>>

\* What a row is ordered by.
RowKeys == [at : 0..MaxTime, id : Ids]

ListTypeOK ==
  /\ updated \in [Ids -> 0..MaxTime] /\ listed \subseteq Ids /\ clock \in 0..MaxTime
  /\ walk \in {"none", "going", "ended"} /\ cursor \subseteq RowKeys /\ pages \in 0..MaxPages
  /\ returned \subseteq [key : RowKeys, page : 1..MaxPages]
  /\ untouched \subseteq Ids /\ movedBack \subseteq Ids

ListInit ==
  /\ updated = [i \in Ids |-> 0] /\ listed = {} /\ clock = 0
  /\ walk = "none" /\ cursor = {} /\ pages = 0 /\ returned = {}
  /\ untouched = {} /\ movedBack = {}

-----------------------------------------------------------------------------
RowKey(i) == [at |-> updated[i], id |-> i]

\* Variant: the comparison is not strict.
FromOn(k, l) == k.at < l.at \/ (k.at = l.at /\ k.id <= l.id)

\* k comes after l in the list: updated_at DESC, id DESC.
After(k, l) == k.at < l.at \/ (k.at = l.at /\ k.id < l.id)

\* Variant: rows of the time of the cursor are all taken for shown.
Earlier(from) == {i \in listed : \A k \in from : updated[i] < k.at}

\* What a page may show: the rows after the cursor.
Remaining(from) == {i \in listed : \A k \in from : After(RowKey(i), k)}

\* ORDER BY ... LIMIT n: the first n of the rows, or all there are.
IsPage(shown, remaining, n) ==
  /\ shown \subseteq remaining
  /\ IF Cardinality(remaining) <= n
     THEN shown = remaining
     ELSE /\ Cardinality(shown) = n
          /\ \A i \in shown, j \in remaining \ shown : After(RowKey(j), RowKey(i))

LastOf(shown) == {i \in shown : \A j \in shown \ {i} : After(RowKey(i), RowKey(j))}

\* The cursor after a page: the key of its last row, when the page is full.
GoesOn(shown, n) ==
  IF Cardinality(shown) = n
  THEN walk' = "going" /\ cursor' = {RowKey(i) : i \in LastOf(shown)}
  ELSE walk' = "ended" /\ cursor' = {}

PageOf(shown, page) == [key : {RowKey(i) : i \in shown}, page : {page}]

KeepRows == UNCHANGED <<updated, listed, clock>>

\* A request without a cursor, or with one that cannot be decoded, starts the walk over.
FirstPage(n) ==
  /\ MaxPages > 0 /\ pages' = 1
  /\ \E shown \in SUBSET listed :
       IsPage(shown, Remaining({}), n) /\ GoesOn(shown, n) /\ returned' = PageOf(shown, 1)
  /\ untouched' = listed /\ movedBack' = {}
  /\ KeepRows

NextPage(n) ==
  /\ cursor # {} /\ pages < MaxPages
  /\ pages' = pages + 1
  /\ \E shown \in SUBSET listed :
       /\ IsPage(shown, Remaining(cursor), n) /\ GoesOn(shown, n)
       /\ returned' = returned \cup PageOf(shown, pages + 1)
  /\ UNCHANGED <<untouched, movedBack>> /\ KeepRows

-----------------------------------------------------------------------------
KeepWalk == UNCHANGED <<walk, cursor, pages, returned>>

Tick ==
  /\ clock < MaxTime /\ clock' = clock + 1
  /\ UNCHANGED <<updated, listed, untouched, movedBack>> /\ KeepWalk

\* A transaction that began at t, with the query that looks up the user, changes a row and
\* commits; others that change the row have waited.  The row may enter the list or leave it:
\* created, restored, deleted, or renamed and no longer matched.
Commit(i, t) ==
  /\ updated' = [updated EXCEPT ![i] = t]
  /\ listed' \in {listed \cup {i}, listed \ {i}}
  /\ untouched' = untouched \ {i}
  /\ movedBack' = IF t < updated[i] THEN movedBack \cup {i} ELSE movedBack
  /\ UNCHANGED clock /\ KeepWalk

ListNext ==
  \/ Tick
  \/ \E n \in 1..MaxLimit : FirstPage(n) \/ NextPage(n)
  \/ \E i \in Ids, t \in 0..clock : Commit(i, t)

-----------------------------------------------------------------------------
\* A walk shows a character twice only when its updated_at went back in between, which takes
\* a transaction older than another that changed it.
ShownOnce ==
  \A p, q \in returned : p.key.id = q.key.id /\ p # q => p.key.id \in movedBack

\* A walk that has come to its end has shown every character that was there all the time and
\* that nobody changed, whatever limits its pages had and however the others moved.
WalkComplete ==
  walk = "ended" => \A i \in untouched : \E p \in returned : p.key.id = i
=============================================================================
