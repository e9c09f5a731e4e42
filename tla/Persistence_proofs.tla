-------------------------- MODULE Persistence_proofs --------------------------
(***************************************************************************)
(* Proofs about Persistence, for any number of requests, calls, files and  *)
(* characters: why two checkpoints can only be promised the same number    *)
(* for one of the causes the module names, why the file store is as good   *)
(* as one whose calls take effect at an instant, why a walk along the list *)
(* misses nobody and why a request tells nothing of what is hidden.        *)
(***************************************************************************)
EXTENDS Persistence, TLAPS

-----------------------------------------------------------------------------
(* Sequence numbers.                                                       *)

LEMMA SequenceInitType == SequenceInit => SequenceTypeOK
  BY SequenceAssumption DEF SequenceInit, SequenceTypeOK

LEMMA BaseType ==
  ASSUME SequenceTypeOK, NEW r \in Requests, NEW b \in Nat, NEW S \in SUBSET Requests,
         RaiseBase(r, b, S)
  PROVE  base' \in [Requests -> Nat]
  BY DEF SequenceTypeOK, RaiseBase

LEMMA BlameType ==
  ASSUME causes \subseteq AllCauses, NEW cause \in AllCauses, NEW when, Blame(cause, when)
  PROVE  causes' \subseteq AllCauses
  <1>1. CASE when
    BY <1>1 DEF Blame
  <1>2. CASE ~when
    BY <1>2 DEF Blame
  <1>3. QED
    BY <1>1, <1>2

LEMMA SequenceStepType == SequenceTypeOK /\ [SequenceNext]_sequenceVars => SequenceTypeOK'
  <1> SUFFICES ASSUME SequenceTypeOK, [SequenceNext]_sequenceVars PROVE SequenceTypeOK'
    OBVIOUS
  <1> USE SequenceAssumption DEF SequenceTypeOK, Reserving, Goto
  <1>1. CASE UNCHANGED sequenceVars
    BY <1>1 DEF sequenceVars
  <1>2. CASE SeedKey
    <2>1. causes' \subseteq AllCauses
      BY <1>2, BlameType DEF SeedKey, AllCauses
    <2>2. QED
      BY <1>2, <2>1 DEF SeedKey
  <1>3. CASE LoseKey
    <2>1. causes' \subseteq AllCauses
      <3>1. "window" \in AllCauses /\ "gap" \in AllCauses
        BY DEF AllCauses
      <3>2. QED
        BY <1>3, <3>1 DEF LoseKey
    <2>2. losses' \in 0..MaxLosses
      BY <1>3 DEF LoseKey
    <2>3. QED
      BY <1>3, <2>1, <2>2 DEF LoseKey
  <1>4. ASSUME NEW r \in Requests, ReadPersisted(r)
        PROVE  SequenceTypeOK'
    BY <1>4, BaseType DEF ReadPersisted
  <1>5. ASSUME NEW r \in Requests, ReadInFlight(r)
        PROVE  SequenceTypeOK'
    <2>1. base' \in [Requests -> Nat]
      <3>1. base[r] \in Nat /\ InFlight \in SUBSET Requests
        BY DEF InFlight
      <3>2. CASE RaiseBase(r, base[r], InFlight)
        BY <3>1, <3>2, BaseType
      <3>3. CASE UNCHANGED base
        BY <3>3
      <3>4. QED
        BY <1>5, <3>2, <3>3 DEF ReadInFlight
    <2>2. causes' \subseteq AllCauses
      BY <1>5, BlameType DEF ReadInFlight, AllCauses
    <2>3. QED
      BY <1>5, <2>1, <2>2 DEF ReadInFlight
  <1>6. ASSUME NEW r \in Requests, CheckKey(r) \/ PlantBaseline(r) \/ Increment(r)
        PROVE  SequenceTypeOK'
    BY <1>6 DEF CheckKey, PlantBaseline, Increment
  <1>7. ASSUME NEW r \in Requests,
               InsertTask(r) \/ RequestFails(r) \/ CommitCheckpoint(r)
        PROVE  SequenceTypeOK'
    BY <1>7 DEF InsertTask, RequestFails, CommitCheckpoint
  <1>8. ASSUME NEW r \in Requests, FinishTask(r)
        PROVE  SequenceTypeOK'
    <2>1. causes' \subseteq AllCauses
      BY <1>8, BlameType DEF FinishTask, AllCauses
    <2>2. QED
      BY <1>8, <2>1 DEF FinishTask
  <1>9. QED
    BY <1>1, <1>2, <1>3, <1>4, <1>5, <1>6, <1>7, <1>8 DEF SequenceNext

-----------------------------------------------------------------------------
(* What a request knows of the numbers in use, step by step, as long as    *)
(* nothing went wrong: between its two queries it is above every finished  *)
(* checkpoint; with both, and the key still missing, above every number in *)
(* use; and once it is about to INCR the cursor is.                        *)

RequestKnows(r) ==
  /\ step[r] \in {"incr", "insert"} => key # Missing
  /\ step[r] = "inflight" => \A u \in rows : step[u] = "over" => seq[u] <= base[r]
  /\ step[r] = "setnx" /\ key = Missing => \A u \in Holders : seq[u] <= base[r]
  /\ r \in rows => step[r] \in {"written", "over"}

NumbersAgree ==
  /\ \A r \in Requests : RequestKnows(r)
  /\ \A r, u \in Holders : r # u => seq[r] # seq[u]
  /\ key # Missing => \A r \in Holders : seq[r] <= key

NumbersInv == SequenceTypeOK /\ (causes = {} => NumbersAgree)

LEMMA NumbersInit == SequenceInit => NumbersInv
  BY SequenceInitType DEF SequenceInit, NumbersInv, NumbersAgree, RequestKnows, Holders

\* A cause, once noted, stays.
LEMMA CausesStay == SequenceTypeOK /\ [SequenceNext]_sequenceVars /\ causes' = {} => causes = {}
  BY DEF SequenceNext, sequenceVars, SeedKey, LoseKey, CheckKey, ReadPersisted, ReadInFlight, PlantBaseline,
         Increment, InsertTask, RequestFails, CommitCheckpoint, FinishTask, Blame

LEMMA StepAgrees ==
  ASSUME SequenceTypeOK, NumbersAgree, [SequenceNext]_sequenceVars, causes' = {}
  PROVE  NumbersAgree'
  <1> USE SequenceAssumption DEF SequenceTypeOK, Reserving, Goto, Blame, NumbersAgree, RequestKnows,
              Holders
  <1>1. CASE UNCHANGED sequenceVars
    BY <1>1 DEF sequenceVars
  <1>2. CASE SeedKey
    BY <1>2 DEF SeedKey, Someone
  <1>3. CASE LoseKey
    <2>1. \A r \in Requests : step[r] \notin {"insert", "setnx", "incr"}
      <3>1. ~Someone({"insert"}) /\ ~Someone({"setnx", "incr"})
        BY <1>3 DEF LoseKey
      <3>2. QED
        BY <3>1 DEF Someone
    <2>2. key' = Missing /\ UNCHANGED <<step, base, seq, rows>>
      BY <1>3 DEF LoseKey
    <2>3. QED
      BY <2>1, <2>2
  <1>4. ASSUME NEW r \in Requests, CheckKey(r)
        PROVE  NumbersAgree'
    BY <1>4 DEF CheckKey
  <1>5. ASSUME NEW r \in Requests, ReadPersisted(r)
        PROVE  NumbersAgree'
    BY <1>5 DEF ReadPersisted, RaiseBase
  <1>6. ASSUME NEW r \in Requests, ReadInFlight(r)
        PROVE  NumbersAgree'
    BY <1>6 DEF ReadInFlight, RaiseBase, InFlight
  <1>7. ASSUME NEW r \in Requests, PlantBaseline(r)
        PROVE  NumbersAgree'
    BY <1>7 DEF PlantBaseline
  <1>8. ASSUME NEW r \in Requests, Increment(r)
        PROVE  NumbersAgree'
    BY <1>8 DEF Increment
  <1>9. ASSUME NEW r \in Requests, InsertTask(r) \/ RequestFails(r)
        PROVE  NumbersAgree'
    BY <1>9 DEF InsertTask, RequestFails
  <1>10. ASSUME NEW r \in Requests, CommitCheckpoint(r)
         PROVE  NumbersAgree'
    BY <1>10 DEF CommitCheckpoint
  <1>11. ASSUME NEW r \in Requests, FinishTask(r)
         PROVE  NumbersAgree'
    BY <1>11 DEF FinishTask
  <1>12. QED
    BY <1>1, <1>2, <1>3, <1>4, <1>5, <1>6, <1>7, <1>8, <1>9, <1>10, <1>11 DEF SequenceNext

LEMMA NumbersStep == NumbersInv /\ [SequenceNext]_sequenceVars => NumbersInv'
  <1>1. SequenceTypeOK /\ [SequenceNext]_sequenceVars => SequenceTypeOK'
    BY SequenceStepType
  <1>2. NumbersInv /\ [SequenceNext]_sequenceVars /\ causes' = {} => NumbersAgree'
    BY CausesStay, StepAgrees DEF NumbersInv
  <1>3. QED
    BY <1>1, <1>2 DEF NumbersInv

-----------------------------------------------------------------------------
(* The list.                                                               *)

LEMMA ListInitType == ListInit => ListTypeOK
  BY ListingAssumption DEF ListInit, ListTypeOK

LEMMA KeyType ==
  ASSUME NEW k \in RowKeys
  PROVE  k.at \in Nat /\ k.id \in Nat /\ k.id \in Ids
  <1>1. k.at \in 0..MaxTime /\ k.id \in Ids
    BY DEF RowKeys
  <1>2. MaxTime \in Nat /\ Ids \subseteq Nat
    BY ListingAssumption
  <1>3. k.at \in Nat
    BY <1>1, <1>2
  <1>4. k.id \in Nat
    BY <1>1, <1>2
  <1>5. QED
    BY <1>1, <1>3, <1>4

\* A page has the key of each row that it shows.
LEMMA PageShows ==
  ASSUME NEW shown, NEW page, NEW i \in shown
  PROVE  \E p \in PageOf(shown, page) : p.key = RowKey(i)
  <1>1. [key |-> RowKey(i), page |-> page] \in PageOf(shown, page)
    BY DEF PageOf
  <1>2. QED
    BY <1>1

\* The order of the list is transitive.
LEMMA AfterTransitive ==
  ASSUME NEW k \in RowKeys, NEW l \in RowKeys, NEW m \in RowKeys, After(k, l), After(l, m)
  PROVE  After(k, m)
  <1>1. k.at \in Nat /\ k.id \in Nat /\ l.at \in Nat /\ l.id \in Nat
          /\ m.at \in Nat /\ m.id \in Nat
    BY KeyType
  <1>2. QED
    BY <1>1 DEF After

\* What a page adds to the walk, whichever page it is.
LEMMA PageStep ==
  ASSUME ListTypeOK, NEW n \in 1..MaxLimit, NEW shown \in SUBSET listed, GoesOn(shown, n),
         NEW page \in 1..MaxPages
  PROVE  /\ walk' \in {"going", "ended"} /\ cursor' \subseteq RowKeys
         /\ \A i \in shown : RowKey(i) \in RowKeys
         /\ PageOf(shown, page) \subseteq [key : RowKeys, page : 1..MaxPages]
  <1>1. \A i \in shown : RowKey(i) \in RowKeys
    BY DEF ListTypeOK, RowKey, RowKeys
  <1>2. QED
    BY <1>1 DEF GoesOn, LastOf, PageOf

LEMMA ListStepType == ListTypeOK /\ [ListNext]_listVars => ListTypeOK'
  <1> SUFFICES ASSUME ListTypeOK, [ListNext]_listVars PROVE ListTypeOK'
    OBVIOUS
  <1> USE ListingAssumption DEF RowKeys
  <1>1. CASE UNCHANGED listVars
    BY <1>1 DEF listVars, ListTypeOK
  <1>2. CASE Tick
    BY <1>2 DEF Tick, KeepWalk, ListTypeOK
  <1>3. ASSUME NEW n \in 1..MaxLimit, FirstPage(n)
        PROVE  ListTypeOK'
    <2>1. 1 \in 1..MaxPages /\ 1 \in 0..MaxPages
      BY <1>3 DEF FirstPage
    <2>2. PICK shown \in SUBSET listed : GoesOn(shown, n) /\ returned' = PageOf(shown, 1)
      BY <1>3 DEF FirstPage
    <2>3. QED
      BY <1>3, <2>1, <2>2, PageStep DEF FirstPage, KeepRows, ListTypeOK
  <1>4. ASSUME NEW n \in 1..MaxLimit, NextPage(n)
        PROVE  ListTypeOK'
    <2>1. pages + 1 \in 1..MaxPages
      BY <1>4 DEF NextPage, ListTypeOK
    <2>2. PICK shown \in SUBSET listed :
            GoesOn(shown, n) /\ returned' = returned \cup PageOf(shown, pages + 1)
      BY <1>4 DEF NextPage
    <2>3. PageOf(shown, pages + 1) \subseteq [key : RowKeys, page : 1..MaxPages]
            /\ walk' \in {"going", "ended"} /\ cursor' \subseteq RowKeys
      BY <2>1, <2>2, PageStep
    <2>4. QED
      BY <1>4, <2>1, <2>2, <2>3 DEF NextPage, KeepRows, ListTypeOK
  <1>5. ASSUME NEW i \in Ids, NEW t \in 0..clock, Commit(i, t)
        PROVE  ListTypeOK'
    <2>1. t \in 0..MaxTime
      BY DEF ListTypeOK
    <2>2. QED
      BY <1>5, <2>1 DEF Commit, KeepWalk, ListTypeOK
  <1>6. QED
    BY <1>1, <1>2, <1>3, <1>4, <1>5 DEF ListNext

\* The cursor is at or after everything shown; a row is where it was shown, or earlier in the
\* list, unless its time went back; and a row that nobody touched was shown or lies ahead.
ListInv ==
  /\ ListTypeOK
  /\ \A k \in cursor, p \in returned : k = p.key \/ After(k, p.key)
  /\ \A p \in returned : p.key.id \in movedBack \/ p.key.at <= updated[p.key.id]
  /\ ShownOnce
  /\ cursor # {} => walk = "going"
  /\ walk # "none" => \A i \in untouched :
       /\ i \in listed
       /\ \/ \E p \in returned : p.key.id = i
          \/ walk = "going" /\ \A k \in cursor : After(RowKey(i), k)

LEMMA ListInvInit == ListInit => ListInv
  BY ListInitType DEF ListInit, ListInv, ShownOnce

\* Of the rows after the cursor, a page shows each or stays before it.
LEMMA PageCovers ==
  ASSUME ListTypeOK, NEW n \in 1..MaxLimit, NEW remaining, NEW shown \in SUBSET listed,
         IsPage(shown, remaining, n), GoesOn(shown, n), NEW i \in remaining, i \notin shown
  PROVE  walk' = "going" /\ \A k \in cursor' : After(RowKey(i), k)
  <1>1. Cardinality(shown) = n /\ \A j \in shown : After(RowKey(i), RowKey(j))
    BY DEF IsPage
  <1>2. QED
    BY <1>1 DEF GoesOn, LastOf

\* The cursor after a page is at or after every row of it.
LEMMA CursorEndsPage ==
  ASSUME ListTypeOK, NEW n \in 1..MaxLimit, NEW shown \in SUBSET listed, GoesOn(shown, n),
         NEW k \in cursor', NEW i \in shown
  PROVE  \E j \in shown : k = RowKey(j) /\ (k = RowKey(i) \/ After(k, RowKey(i)))
  <1>1. PICK j \in LastOf(shown) : k = RowKey(j)
    BY DEF GoesOn
  <1>2. QED
    BY <1>1 DEF LastOf

LEMMA ListStep == ListInv /\ [ListNext]_listVars => ListInv'
  <1> SUFFICES ASSUME ListInv, [ListNext]_listVars PROVE ListInv'
    OBVIOUS
  <1> USE ListingAssumption
  <1>0. ListTypeOK /\ ListTypeOK'
    BY ListStepType DEF ListInv
  <1>1. CASE UNCHANGED listVars
    BY <1>0, <1>1 DEF listVars, ListInv, ShownOnce, RowKey
  <1>2. CASE Tick
    BY <1>0, <1>2 DEF Tick, KeepWalk, ListInv, ShownOnce, RowKey
  <1>3. ASSUME NEW n \in 1..MaxLimit, FirstPage(n)
        PROVE  ListInv'
    <2>1. PICK shown \in SUBSET listed :
            IsPage(shown, Remaining({}), n) /\ GoesOn(shown, n) /\ returned' = PageOf(shown, 1)
      BY <1>3 DEF FirstPage
    <2>2. UNCHANGED <<updated, listed>> /\ untouched' = listed /\ movedBack' = {}
      BY <1>3 DEF FirstPage, KeepRows
    <2>3. \A p \in returned' : \E i \in shown : p.key = RowKey(i) /\ p.page = 1
      BY <2>1 DEF PageOf
    <2>4. \A i \in shown : \E p \in returned' : p.key = RowKey(i)
      BY <2>1, PageShows
    <2>5. \A i \in Ids : RowKey(i)' = RowKey(i) /\ RowKey(i).id = i /\ RowKey(i).at = updated[i]
      BY <2>2 DEF RowKey
    <2>6. \A k \in cursor', p \in returned' : k = p.key \/ After(k, p.key)
      BY <1>0, <2>1, <2>3, CursorEndsPage
    <2>7. ASSUME NEW p \in returned'
          PROVE  p.key.at <= updated'[p.key.id]
      <3>1. PICK i \in shown : p.key = RowKey(i)
        BY <2>3
      <3>2. i \in Ids /\ updated[i] \in Nat
        BY <1>0 DEF ListTypeOK
      <3>3. p.key.id = i /\ p.key.at = updated[i] /\ updated' = updated
        BY <2>2, <2>5, <3>1, <3>2
      <3>4. updated[i] <= updated[i]
        BY <3>2
      <3>5. QED
        BY <3>3, <3>4
    <2>8. ShownOnce'
      <3>1. \A p, q \in returned' : p.key.id = q.key.id => p = q
        BY <1>0, <2>1, <2>5 DEF PageOf, ListTypeOK
      <3>2. QED
        BY <3>1 DEF ShownOnce
    <2>9. ASSUME NEW i \in untouched'
          PROVE  /\ i \in listed'
                 /\ \/ \E p \in returned' : p.key.id = i
                    \/ walk' = "going" /\ \A k \in cursor' : After(RowKey(i)', k)
      <3>1. i \in Ids /\ i \in listed /\ i \in Remaining({})
        BY <1>0, <2>2 DEF Remaining, ListTypeOK
      <3>2. CASE i \in shown
        <4>1. PICK p \in returned' : p.key = RowKey(i)
          BY <2>4, <3>2
        <4>2. p.key.id = i
          BY <2>5, <3>1, <4>1
        <4>3. i \in listed'
          BY <2>2, <3>1
        <4>4. QED
          BY <4>1, <4>2, <4>3
      <3>3. CASE i \notin shown
        BY <1>0, <2>1, <2>2, <2>5, <3>1, <3>3, PageCovers
      <3>4. QED
        BY <3>2, <3>3
    <2>10. QED
      BY <1>0, <2>1, <2>6, <2>7, <2>8, <2>9 DEF ListInv, GoesOn
  <1>4. ASSUME NEW n \in 1..MaxLimit, NextPage(n)
        PROVE  ListInv'
    <2>1. PICK shown \in SUBSET listed :
            /\ IsPage(shown, Remaining(cursor), n) /\ GoesOn(shown, n)
            /\ returned' = returned \cup PageOf(shown, pages + 1)
      BY <1>4 DEF NextPage
    <2>2. UNCHANGED <<updated, listed, untouched, movedBack>>
      BY <1>4 DEF NextPage, KeepRows
    <2>3. PICK last \in cursor : \A p \in returned : last = p.key \/ After(last, p.key)
      BY <1>4 DEF NextPage, ListInv
    <2>4. \A p \in PageOf(shown, pages + 1) : \E i \in shown : p.key = RowKey(i)
      BY DEF PageOf
    <2>5. \A i \in shown : \E p \in returned' : p.key = RowKey(i)
      BY <2>1, PageShows
    <2>6. \A i \in Ids : RowKey(i)' = RowKey(i) /\ RowKey(i).id = i /\ RowKey(i).at = updated[i]
                           /\ RowKey(i) \in RowKeys
      BY <1>0, <2>2 DEF RowKey, RowKeys, ListTypeOK
    <2>7. shown \subseteq Ids /\ last \in RowKeys /\ \A p \in returned : p.key \in RowKeys
      BY <1>0 DEF ListTypeOK
    \* What is new lies after all that was shown before.
    <2>8. ASSUME NEW i \in shown, NEW p \in returned
          PROVE  After(RowKey(i), p.key)
      <3>1. After(RowKey(i), last)
        BY <2>1 DEF IsPage, Remaining
      <3>2. QED
        BY <2>3, <2>6, <2>7, <3>1, AfterTransitive
    <2>9. ASSUME NEW k \in cursor', NEW p \in returned'
          PROVE  k = p.key \/ After(k, p.key)
      <3>1. CASE p \in returned
        <4>1. PICK j \in shown : k = RowKey(j)
          BY <2>1 DEF GoesOn, LastOf
        <4>2. QED
          BY <2>8, <3>1, <4>1
      <3>2. CASE p \in PageOf(shown, pages + 1)
        BY <1>0, <2>1, <2>4, <3>2, CursorEndsPage
      <3>3. QED
        BY <2>1, <3>1, <3>2
    <2>10. ASSUME NEW p \in returned'
           PROVE  p.key.id \in movedBack' \/ p.key.at <= updated'[p.key.id]
      <3>1. CASE p \in returned
        BY <2>2, <3>1 DEF ListInv
      <3>2. CASE p \in PageOf(shown, pages + 1)
        <4>1. \A i \in shown : updated[i] \in Nat
          BY <1>0 DEF ListTypeOK
        <4>2. QED
          BY <2>2, <2>4, <2>6, <2>7, <3>2, <4>1
      <3>3. QED
        BY <2>1, <3>1, <3>2
    \* A row shown again has an earlier time than when it was shown.
    <2>11. ASSUME NEW p \in returned, NEW q \in PageOf(shown, pages + 1), p.key.id = q.key.id
           PROVE  p.key.id \in movedBack
      <3>1. PICK i \in shown : q.key = RowKey(i)
        BY <2>4
      <3>2. After(RowKey(i), p.key)
        BY <2>8
      <3>3. updated[i] \in Nat /\ p.key.at \in Nat /\ p.key.id \in Nat /\ p.key.id = i
        <4>1. updated[i] \in Nat
          BY <1>0 DEF ListTypeOK
        <4>2. p.key.id = i
          BY <2>6, <2>7, <2>11, <3>1
        <4>3. QED
          BY <2>7, <4>1, <4>2, KeyType
      <3>4. ~ (p.key.at <= updated[p.key.id])
        BY <2>6, <2>7, <3>2, <3>3 DEF After
      <3>5. QED
        BY <3>4 DEF ListInv
    <2>12. \A p, q \in PageOf(shown, pages + 1) : p.key.id = q.key.id => p = q
      BY <2>6, <2>7 DEF PageOf
    <2>13. ShownOnce'
      BY <2>1, <2>2, <2>11, <2>12 DEF ShownOnce, ListInv
    <2>14. ASSUME NEW i \in untouched'
           PROVE  /\ i \in listed'
                  /\ \/ \E p \in returned' : p.key.id = i
                     \/ walk' = "going" /\ \A k \in cursor' : After(RowKey(i)', k)
      <3>1. i \in listed /\ i \in Ids
        BY <1>0, <1>4, <2>2 DEF NextPage, ListInv, ListTypeOK
      <3>2. CASE \E p \in returned : p.key.id = i
        BY <2>1, <2>2, <3>1, <3>2
      <3>3. CASE \A k \in cursor : After(RowKey(i), k)
        <4>1. i \in Remaining(cursor)
          BY <3>1, <3>3 DEF Remaining
        <4>2. CASE i \in shown
          BY <2>2, <2>5, <2>6, <3>1, <4>2
        <4>3. CASE i \notin shown
          BY <1>0, <2>1, <2>2, <2>6, <3>1, <4>1, <4>3, PageCovers
        <4>4. QED
          BY <4>2, <4>3
      <3>4. QED
        BY <1>4, <2>2, <3>2, <3>3 DEF NextPage, ListInv
    <2>15. QED
      BY <1>0, <2>1, <2>9, <2>10, <2>13, <2>14 DEF ListInv, GoesOn
  <1>5. ASSUME NEW i \in Ids, NEW t \in 0..clock, Commit(i, t)
        PROVE  ListInv'
    <2>1. \A p \in returned : p.key.id \in Ids /\ p.key.at \in Nat
      BY <1>0 DEF ListTypeOK, RowKeys
    <2>2. \A j \in Ids : j # i => RowKey(j)' = RowKey(j) /\ updated'[j] = updated[j]
      BY <1>0, <1>5 DEF Commit, ListTypeOK, RowKey
    <2>3. UNCHANGED <<walk, cursor, returned>> /\ movedBack \subseteq movedBack'
      BY <1>5 DEF Commit, KeepWalk
    <2>4. ASSUME NEW p \in returned', p.key.id \notin movedBack'
          PROVE  p.key.at <= updated'[p.key.id]
      <3>1. CASE p.key.id = i
        <4>1. updated'[i] = t /\ updated[i] \in Nat /\ t \in Nat /\ ~(t < updated[i])
          BY <1>0, <1>5, <2>4, <3>1 DEF Commit, ListTypeOK
        <4>2. QED
          BY <2>1, <2>3, <2>4, <3>1, <4>1 DEF ListInv
      <3>2. CASE p.key.id # i
        BY <2>1, <2>2, <2>3, <2>4, <3>2 DEF ListInv
      <3>3. QED
        BY <3>1, <3>2
    <2>5. \A j \in untouched' : j \in untouched /\ j # i /\ j \in Ids /\ (j \in listed => j \in listed')
      BY <1>0, <1>5 DEF Commit, ListTypeOK
    <2>6. ShownOnce'
      BY <2>3 DEF ShownOnce, ListInv
    <2>7. QED
      BY <1>0, <2>2, <2>3, <2>4, <2>5, <2>6 DEF ListInv
  <1>6. QED
    BY <1>1, <1>2, <1>3, <1>4, <1>5 DEF ListNext

-----------------------------------------------------------------------------
(* Requests for one resource.                                              *)

Checks == {"none", "team", "owner", "initiator", "sibling"}

\* The last look-up of a path checks the caller, and up to the first that does all call the
\* same thing missing.
Shape(p) ==
  /\ Len(p) \in 1..3
  /\ \A j \in 1..Len(p) :
       /\ p[j].row \in Resources /\ p[j].check \in Checks /\ p[j].missing \in Unfound
       /\ (\A l \in 1..j : l < j => p[l].check = "none") => p[j].missing = p[1].missing
  /\ p[Len(p)].check # "none"

\* Whoever is checked was led there through every row that the first belongs to.
Covers(p) ==
  \A j \in 1..Len(p) :
    p[j].check # "none" => Lineage(p[1].row) \subseteq {p[l].row : l \in 1..j}

\* Nothing on the path is for teammates.
ForInitiator(p) == \A j \in 1..Len(p) : p[j].check \in {"none", "initiator", "sibling"}

LEMMA OneLook ==
  ASSUME NEW check \in Checks \ {"none"}
  PROVE  Shape(CharacterPath(check)) /\ Covers(CharacterPath(check))
  BY DEF CharacterPath, Shape, Covers, Look, Checks, Resources, Unfound, Lineage

LEMMA TwoLooks ==
  ASSUME NEW check \in Checks \ {"none"}
  PROVE  /\ Shape(SessionPath(check)) /\ Covers(SessionPath(check))
         /\ Shape(AliasPath(check)) /\ Covers(AliasPath(check))
         /\ Shape(OfBasePath(check)) /\ Covers(OfBasePath(check))
  BY DEF SessionPath, AliasPath, OfBasePath, Shape, Covers, Look, Checks, Resources, Unfound, Lineage

LEMMA MismatchLooks ==
  ASSUME NEW r \in {"alias", "base"}, NEW missing \in Unfound
  PROVE  /\ Shape(MismatchPath(r, missing)) /\ Covers(MismatchPath(r, missing))
         /\ ForInitiator(MismatchPath(r, missing))
  BY DEF MismatchPath, Shape, Covers, ForInitiator, Look, Checks, Resources, Unfound, Lineage

LEMMA MotionLooks ==
  ASSUME NEW check \in Checks \ {"none"}
  PROVE  /\ Shape(MotionPath("base_motion", "base", check))
         /\ Covers(MotionPath("base_motion", "base", check))
         /\ Shape(MotionPath("alias_motion", "alias", check))
         /\ Covers(MotionPath("alias_motion", "alias", check))
  BY DEF MotionPath, Shape, Covers, Look, Checks, Resources, Unfound, Lineage

LEMMA OtherLooks ==
  /\ Shape(CheckpointPath) /\ Covers(CheckpointPath) /\ ForInitiator(CheckpointPath)
  /\ Shape(RemixPath) /\ ForInitiator(RemixPath)
  /\ Shape(AliasPreviewPath) /\ Covers(AliasPreviewPath)
  <1>1. Shape(CheckpointPath) /\ Covers(CheckpointPath) /\ ForInitiator(CheckpointPath)
    BY DEF CheckpointPath, Shape, Covers, ForInitiator, Look, Checks, Resources, Unfound, Lineage
  <1>2. Shape(RemixPath) /\ ForInitiator(RemixPath)
    BY DEF RemixPath, Shape, ForInitiator, Look, Checks, Resources, Unfound
  <1>3. Shape(AliasPreviewPath)
    <2> DEFINE p == AliasPreviewPath
    <2>1. Len(p) = 3
      BY DEF AliasPreviewPath
    <2>2. p[1].missing = "alias" /\ p[2].missing = "alias" /\ p[3].missing = "character"
            /\ p[2].check # "none" /\ p[3].check # "none"
      BY DEF AliasPreviewPath, Look
    <2>3. \A j \in 1..3 : p[j].row \in Resources /\ p[j].check \in Checks
      BY DEF AliasPreviewPath, Look, Checks, Resources
    <2>4. QED
      <3> HIDE DEF p
      <3>1. \A j \in 1..3 : p[j].missing \in Unfound
        BY <2>2 DEF Unfound
      <3>2. \A j \in 1..3 : (\A l \in 1..j : l < j => p[l].check = "none")
                             => p[j].missing = p[1].missing
        BY <2>2
      <3>3. QED
        BY <2>1, <2>2, <2>3, <3>1, <3>2 DEF Shape, p
  <1>4. Covers(AliasPreviewPath)
    <2> DEFINE p == AliasPreviewPath
    <2>1. Len(p) = 3 /\ p[1].row = "alias" /\ p[2].row = "character" /\ p[1].check = "none"
      BY DEF AliasPreviewPath, Look
    <2>2. ASSUME NEW j \in 1..3, j # 1
          PROVE  p[1].row \in {p[l].row : l \in 1..j} /\ p[2].row \in {p[l].row : l \in 1..j}
      <3>1. 1 \in 1..j /\ 2 \in 1..j
        BY <2>2
      <3>2. QED
        BY <3>1
    <2>3. Lineage(p[1].row) = {p[1].row, p[2].row}
      BY <2>1 DEF Lineage
    <2>4. QED
      BY <2>1, <2>2, <2>3 DEF Covers
  <1>5. QED
    BY <1>1, <1>2, <1>3, <1>4

\* The kinds whose answers are for the initiator.
Private == {"checkpoint", "remix", "alias_as_base", "base_as_alias"}

LEMMA PathSound ==
  ASSUME NEW k \in Kinds
  PROVE  /\ Shape(Path(k))
         /\ k # "remix" => Covers(Path(k))
         /\ k \in Private => ForInitiator(Path(k))
  <1> USE OneLook, TwoLooks, MismatchLooks, MotionLooks, OtherLooks
  <1>1. CASE k \in DOMAIN CharacterRequests
    <2>1. \/ k = "character" /\ Path(k) = CharacterPath("team")
          \/ k \in {"character_write", "restore"} /\ Path(k) = CharacterPath("owner")
          \/ k = "session" /\ Path(k) = SessionPath("team")
          \/ k = "session_write" /\ Path(k) = SessionPath("owner")
          \/ k = "checkpoint" /\ Path(k) = CheckpointPath
          \/ k = "remix" /\ Path(k) = RemixPath
      BY <1>1 DEF Path, CharacterRequests
    <2>2. QED
      BY <2>1 DEF Checks, Private
  <1>2. CASE k \in DOMAIN AliasRequests
    <2>1. \/ k = "alias" /\ Path(k) = AliasPath("team")
          \/ k = "alias_write" /\ Path(k) = AliasPath("owner")
          \/ k = "aliases" /\ Path(k) = CharacterPath("team")
          \/ k = "alias_new" /\ Path(k) = CharacterPath("owner")
      BY <1>2 DEF Path, CharacterRequests, AliasRequests
    <2>2. QED
      BY <2>1 DEF Checks, Private
  <1>3. CASE k \in DOMAIN MotionRequests
    <2>1. \/ k = "base_motion" /\ Path(k) = MotionPath("base_motion", "base", "team")
          \/ k = "base_motion_write" /\ Path(k) = MotionPath("base_motion", "base", "owner")
          \/ k = "alias_motion" /\ Path(k) = MotionPath("alias_motion", "alias", "team")
          \/ k = "alias_motion_write" /\ Path(k) = MotionPath("alias_motion", "alias", "owner")
          \/ k = "motions_of_base" /\ Path(k) = OfBasePath("team")
          \/ k = "motions_of_alias" /\ Path(k) = AliasPath("team")
          \/ k = "motion_for_base" /\ Path(k) = OfBasePath("owner")
          \/ k = "motion_for_alias" /\ Path(k) = AliasPath("owner")
      BY <1>3 DEF Path, CharacterRequests, AliasRequests, MotionRequests
    <2>2. QED
      BY <2>1 DEF Checks, Private
  <1>4. CASE k \in DOMAIN PreviewRequests
    <2>1. \/ k = "base_preview" /\ Path(k) = OfBasePath("owner")
          \/ k = "alias_preview" /\ Path(k) = AliasPreviewPath
          \/ k = "alias_as_base" /\ Path(k) = MismatchPath("alias", "character")
          \/ k = "base_as_alias" /\ Path(k) = MismatchPath("base", "alias")
      BY <1>4 DEF Path, CharacterRequests, AliasRequests, MotionRequests, PreviewRequests
    <2>2. "character" \in Unfound /\ "alias" \in Unfound
      BY DEF Unfound
    <2>3. QED
      BY <2>1, <2>2 DEF Checks, Private
  <1>5. QED
    BY <1>1, <1>2, <1>3, <1>4 DEF Kinds

-----------------------------------------------------------------------------
LEMMA AccessInitType == AccessInit => AccessTypeOK
  <1> SUFFICES ASSUME AccessInit PROVE AccessTypeOK
    OBVIOUS
  <1>1. row \in [Resources -> {"absent", "live", "deleted"}]
    BY DEF AccessInit, Resources
  <1>2. had_base \in BOOLEAN /\ selected \in BOOLEAN
    BY Zenon DEF AccessInit
  <1>3. QED
    BY <1>1, <1>2 DEF AccessInit, AccessTypeOK

LEMMA VerdictType ==
  ASSUME AccessTypeOK, NEW look, look.missing \in Unfound, look.check \in Checks
  PROVE  Verdict(look) \in Unfound \cup {"granted", "forbidden", "mismatch"}
  BY DEF Verdict, AccessTypeOK, Checks

\* A request is nowhere before it comes, and then somewhere on its path.
Underway ==
  /\ asked = "none" => position = 0 /\ answer = "none"
  /\ asked # "none" => position \in 0..Len(Path(asked))

\* A transaction of somebody else.
Writes ==
  \E rs \in SUBSET Resources, s \in {"live", "deleted"} :
    /\ Commits(rs, s)
    /\ outcome' \in {"in_progress", "completed", "abandoned"} /\ selected' \in BOOLEAN
    /\ "base" \in rs => s = "live" /\ outcome' = "completed" /\ selected'
    /\ outcome' = "completed" => outcome = "completed" \/ ("base" \in rs /\ selected')
    /\ selected => selected'
    /\ outcome = "completed" => outcome' = "completed"

LEMMA WritesOnly ==
  AccessTypeOK /\ AccessNext => Ask \/ LookUp \/ ReadCheckpoints \/ ReadDetail \/ Writes
  <1> SUFFICES ASSUME AccessTypeOK, AccessNext,
                      ~Ask, ~LookUp, ~ReadCheckpoints, ~ReadDetail
               PROVE  Writes
    OBVIOUS
  <1> USE DEF AccessTypeOK, Resources
  <1>1. CASE DeleteCharacter
    BY <1>1 DEF DeleteCharacter, Writes
  <1>2. CASE RestoreCharacter
    BY <1>2 DEF RestoreCharacter, Writes
  <1>3. CASE WriteCheckpoint
    BY <1>3 DEF WriteCheckpoint, Writes
  <1>4. CASE SelectBase
    BY <1>4 DEF SelectBase, Writes
  <1>5. CASE AbandonSession
    BY <1>5 DEF AbandonSession, Writes
  <1>6. CASE WriteAlias
    BY <1>6 DEF WriteAlias, Writes
  <1>7. CASE WriteMotion("base_motion", "base") \/ WriteMotion("alias_motion", "alias")
    BY <1>7 DEF WriteMotion, Writes
  <1>8. CASE DeleteMotion("base_motion") \/ DeleteMotion("alias_motion")
    BY <1>8 DEF DeleteMotion, Writes
  <1>9. CASE DeleteAlias
    <2>1. {"alias"} \cup {r \in {"alias_motion"} : row[r] = "live"} \in SUBSET Resources
      OBVIOUS
    <2>2. "base" \notin {"alias"} \cup {r \in {"alias_motion"} : row[r] = "live"}
      OBVIOUS
    <2>3. QED
      BY <1>9, <2>1, <2>2 DEF DeleteAlias, Writes
  <1>10. QED
    BY <1>1, <1>2, <1>3, <1>4, <1>5, <1>6, <1>7, <1>8, <1>9 DEF AccessNext

LEMMA AccessStepType == AccessTypeOK /\ Underway /\ [AccessNext]_accessVars => AccessTypeOK' /\ Underway'
  <1> SUFFICES ASSUME AccessTypeOK, Underway, [AccessNext]_accessVars
               PROVE  AccessTypeOK' /\ Underway'
    OBVIOUS
  <1>0. "none" \notin Kinds
    BY DEF Kinds, CharacterRequests, AliasRequests, MotionRequests, PreviewRequests
  <1>1. CASE UNCHANGED accessVars
    BY <1>1 DEF accessVars, AccessTypeOK, Underway
  <1>2. CASE Ask
    <2>1. Len(Path(asked')) \in 1..3 /\ asked' # "none"
      BY <1>0, <1>2, PathSound DEF Ask, Shape
    <2>2. AccessTypeOK'
      BY <1>2 DEF Ask, AccessTypeOK
    <2>3. QED
      BY <1>2, <2>1, <2>2 DEF Ask, Underway
  <1>3. CASE LookUp
    <2>1. asked \in Kinds /\ position \in 0..2 /\ position < Len(Path(asked)) /\ answer = "none"
      BY <1>3, PathSound DEF LookUp, AccessTypeOK, Shape
    <2> DEFINE look == Path(asked)[position + 1]
    <2>2. position + 1 \in 1..Len(Path(asked)) /\ position + 1 \in 0..3
      BY <2>1, PathSound DEF Shape
    <2>3. look.missing \in Unfound /\ look.check \in Checks
      BY <2>1, <2>2, PathSound DEF Shape
    <2>4. Verdict(look) \in Unfound \cup {"granted", "forbidden", "mismatch"}
      BY <2>3, VerdictType
    <2>5. answer' \in Unfound \cup {"none", "granted", "forbidden", "mismatch"}
      BY <1>3, <2>3, <2>4 DEF LookUp
    <2>6. position' = position + 1 /\ position' \in 0..3 /\ position' \in 0..Len(Path(asked))
      BY <1>3, <2>1, <2>2 DEF LookUp
    <2>7. UNCHANGED <<row, outcome, selected, asked, caller, detail, seen>> /\ had_base' \in BOOLEAN
      BY <1>3 DEF LookUp, KeepData
    <2>8. asked # "none"
      BY <1>3 DEF LookUp
    <2>9. AccessTypeOK'
      BY <2>5, <2>6, <2>7 DEF AccessTypeOK
    <2>10. QED
      BY <2>6, <2>7, <2>8, <2>9 DEF Underway
  <1>4. CASE ReadCheckpoints \/ ReadDetail
    BY <1>4 DEF ReadCheckpoints, ReadDetail, KeepData, AccessTypeOK, Underway
  <1>5. CASE Writes
    <2>1. PICK rs \in SUBSET Resources, s \in {"live", "deleted"} : Commits(rs, s)
      BY <1>5 DEF Writes
    <2>2. row' \in [Resources -> {"absent", "live", "deleted"}]
      BY <2>1 DEF Commits, AccessTypeOK
    <2>3. seen' \subseteq Resources
      BY <2>1 DEF Commits, AccessTypeOK
    <2>4. QED
      BY <1>5, <2>1, <2>2, <2>3 DEF Writes, Commits, KeepRequest, AccessTypeOK, Underway
  <1>6. QED
    BY <1>1, <1>2, <1>3, <1>4, <1>5, WritesOnly

-----------------------------------------------------------------------------
\* Callers who may not learn that the row of the id is there.
Apart ==
  asked # "none" /\ (caller = "outsider" \/ (caller = "teammate" /\ asked \in Private))

\* Rows that the request can find, and those it has found, were seen.
SeenInv ==
  asked # "none" =>
    /\ \A r \in Resources : Finds(asked, row[r]) => r \in seen
    /\ answer \notin Unfound => \A j \in 1..position : Path(asked)[j].row \in seen

\* Somebody apart gets past the look-ups that check nobody, and no further.
ApartInv ==
  Apart =>
    /\ answer = "none" => \A j \in 1..position : Path(asked)[j].check = "none"
    /\ answer # "none" => answer = Path(asked)[1].missing

\* A session is completed with its base.
BaseInv ==
  /\ outcome = "completed" => row["base"] = "live"
  /\ asked = "character" /\ position > 0 /\ ~had_base /\ outcome = "completed" => selected

AccessInv ==
  /\ AccessTypeOK /\ Underway
  /\ asked = "none" \/ Apart => detail = "none"
  /\ SeenInv /\ ApartInv /\ BaseInv /\ DeletedStaysHidden /\ DetailCoherent

LEMMA AccessInvInit == AccessInit => AccessInv
  BY AccessInitType DEF AccessInit, AccessInv, Underway, Apart, SeenInv, ApartInv, BaseInv,
       DeletedStaysHidden, DetailCoherent

\* Nobody apart is granted anything where somebody is checked.
LEMMA ApartRefused ==
  ASSUME AccessTypeOK, Apart, NEW look, look.check \in Checks \ {"none"},
         asked \in Private => look.check \in {"none", "initiator", "sibling"}
  PROVE  Verdict(look) = look.missing
  BY DEF AccessTypeOK, Apart, Verdict, Checks

\* At the end of a path, or where a check decides, all that the first row belongs to was seen.
LEMMA LineageSeen ==
  ASSUME asked \in Kinds, asked # "remix", NEW n \in 1..Len(Path(asked)),
         Path(asked)[n].check # "none", \A j \in 1..n : Path(asked)[j].row \in seen
  PROVE  Lineage(Subject(asked)) \subseteq seen
  <1>1. Lineage(Path(asked)[1].row) \subseteq {Path(asked)[j].row : j \in 1..n}
    BY PathSound DEF Covers
  <1>2. QED
    BY <1>1 DEF Subject

\* The decision on one look-up.
LEMMA LookUpDecides ==
  ASSUME AccessInv, LookUp
  PROVE  /\ asked \in Kinds /\ answer = "none" /\ position' = position + 1
         /\ position + 1 \in 1..Len(Path(asked))
         /\ Path(asked)[position + 1].missing \in Unfound
         /\ Path(asked)[position + 1].check \in Checks
         /\ answer' \notin Unfound =>
              /\ Finds(asked, row[Path(asked)[position + 1].row])
              /\ answer' # "none" => Path(asked)[position + 1].check # "none"
         /\ Path(asked)[position + 1].check = "none" =>
              answer' \in {"none", Path(asked)[position + 1].missing}
         /\ Verdict(Path(asked)[position + 1]) = Path(asked)[position + 1].missing =>
              answer' = Path(asked)[position + 1].missing
  <1> DEFINE look == Path(asked)[position + 1]
             verdict == IF Finds(asked, row[look.row]) THEN Verdict(look) ELSE look.missing
  <1>1. AccessTypeOK /\ asked \in Kinds /\ answer = "none" /\ position' = position + 1
          /\ position \in 0..3 /\ position < Len(Path(asked))
    BY DEF LookUp, AccessInv, AccessTypeOK
  <1>2. Shape(Path(asked))
    BY <1>1, PathSound
  <1>3. position + 1 \in 1..Len(Path(asked))
    BY <1>1, <1>2 DEF Shape
  <1>4. look.missing \in Unfound /\ look.check \in Checks
          /\ (position + 1 >= Len(Path(asked)) => look.check # "none")
    BY <1>2, <1>3 DEF Shape
  <1>5. answer' = IF verdict = "granted" /\ (position + 1 < Len(Path(asked)) \/ ~Plain)
                  THEN "none" ELSE verdict
    BY DEF LookUp
  <1>6. "none" \notin Unfound /\ "granted" \notin Unfound
    BY DEF Unfound
  <1>7. look.check = "none" => Verdict(look) = "granted"
    BY DEF Verdict
  <1> HIDE DEF look
  <1>8. answer' \notin Unfound => Finds(asked, row[look.row])
    BY <1>4, <1>5, <1>6
  <1>9. ASSUME answer' \notin Unfound, answer' # "none", look.check = "none"
        PROVE  FALSE
    BY <1>1, <1>2, <1>3, <1>4, <1>5, <1>6, <1>7, <1>8, <1>9 DEF Shape
  <1>10. look.check = "none" => answer' \in {"none", look.missing}
    BY <1>1, <1>2, <1>3, <1>4, <1>5, <1>6, <1>7 DEF Shape
  <1>11. Verdict(look) = look.missing => answer' = look.missing
    BY <1>4, <1>5, <1>6
  <1>12. QED
    BY <1>1, <1>3, <1>4, <1>8, <1>9, <1>10, <1>11 DEF look

LEMMA AccessStep == AccessInv /\ [AccessNext]_accessVars => AccessInv'
  <1> SUFFICES ASSUME AccessInv, [AccessNext]_accessVars PROVE AccessInv'
    OBVIOUS
  <1>0. AccessTypeOK /\ Underway /\ AccessTypeOK' /\ Underway'
    BY AccessStepType DEF AccessInv
  <1>1. CASE UNCHANGED accessVars
    BY <1>0, <1>1 DEF accessVars, AccessInv, Apart, SeenInv, ApartInv, BaseInv,
         DeletedStaysHidden, DetailCoherent
  <1>2. CASE Ask
    <2>1. asked = "none" /\ position' = 0 /\ answer' = "none" /\ detail' = "none"
            /\ UNCHANGED <<row, outcome>>
      BY <1>0, <1>2 DEF Ask, AccessInv, Underway
    <2>2. SeenInv'
      BY <1>2, <2>1 DEF Ask, SeenInv
    <2>3. ApartInv'
      BY <2>1 DEF ApartInv
    <2>4. BaseInv'
      BY <2>1 DEF BaseInv, AccessInv
    <2>5. QED
      BY <1>0, <2>1, <2>2, <2>3, <2>4 DEF AccessInv, DeletedStaysHidden, DetailCoherent
  <1>3. CASE LookUp
    <2> DEFINE n == position + 1
               look == Path(asked)[n]
    <2>1. /\ asked \in Kinds /\ answer = "none" /\ position' = n /\ n \in 1..Len(Path(asked))
          /\ position \in Nat
          /\ look.missing \in Unfound /\ look.check \in Checks
      BY <1>0, <1>3, LookUpDecides DEF AccessTypeOK
    <2>2. UNCHANGED <<row, outcome, selected, asked, caller, detail, seen>> /\ asked # "none"
            /\ (had_base' <=> row["base"] = "live")
      BY <1>3 DEF LookUp, KeepData
    <2>3. Shape(Path(asked)) /\ look.row \in Resources
      BY <2>1, PathSound DEF Shape
    <2>4. "none" \notin Unfound /\ "granted" \notin Unfound /\ "forbidden" \notin Unfound
            /\ "mismatch" \notin Unfound
      BY DEF Unfound
    <2>5. \A j \in 1..n : j = n \/ j \in 1..position
      BY <2>1
    <2>6. answer' \notin Unfound => \A j \in 1..n : Path(asked)[j].row \in seen
      <3>1. \A j \in 1..position : Path(asked)[j].row \in seen
        BY <2>1, <2>2, <2>4 DEF AccessInv, SeenInv
      <3>2. answer' \notin Unfound => look.row \in seen
        BY <1>3, <2>2, <2>3, LookUpDecides DEF AccessInv, SeenInv
      <3>3. QED
        BY <2>5, <3>1, <3>2
    <2>7. SeenInv'
      BY <2>1, <2>2, <2>6 DEF SeenInv, AccessInv
    <2>8. DeletedStaysHidden'
      <3> SUFFICES ASSUME answer' \in {"granted", "forbidden", "mismatch"}, asked # "remix"
                   PROVE  Lineage(Subject(asked)) \subseteq seen
        BY <2>2 DEF DeletedStaysHidden
      <3>1. look.check # "none"
        BY <1>3, <2>4, LookUpDecides
      <3>2. QED
        BY <2>1, <2>4, <2>6, <3>1, LineageSeen
    <2>9. ApartInv'
      <3> SUFFICES ASSUME Apart
                   PROVE  /\ answer' = "none" => \A j \in 1..n : Path(asked)[j].check = "none"
                          /\ answer' # "none" => answer' = Path(asked)[1].missing
        BY <2>1, <2>2 DEF ApartInv, Apart
      <3>1. \A j \in 1..position : Path(asked)[j].check = "none"
        BY <2>1 DEF AccessInv, ApartInv
      <3>2. look.missing = Path(asked)[1].missing
        <4>1. \A j \in 1..n : j < n => Path(asked)[j].check = "none"
          BY <2>5, <3>1
        <4>2. QED
          BY <2>1, <2>3, <4>1 DEF Shape
      <3>3. CASE look.check = "none"
        <4>1. answer' \in {"none", look.missing}
          BY <1>3, <3>3, LookUpDecides
        <4>2. QED
          BY <2>5, <3>1, <3>2, <3>3, <4>1
      <3>4. CASE look.check # "none"
        <4>1. asked \in Private => look.check \in {"none", "initiator", "sibling"}
          BY <2>1, PathSound DEF ForInitiator
        <4>2. Verdict(look) = look.missing
          BY <1>0, <2>1, <3>4, <4>1, ApartRefused
        <4>3. answer' = look.missing
          BY <1>3, <4>2, LookUpDecides
        <4>4. QED
          BY <2>1, <2>4, <3>2, <4>3
      <3>5. QED
        BY <3>3, <3>4
    <2>10. BaseInv'
      BY <2>2 DEF BaseInv, AccessInv
    <2>11. QED
      BY <1>0, <2>2, <2>7, <2>8, <2>9, <2>10 DEF AccessInv, Apart, DetailCoherent
  <1>4. CASE ReadCheckpoints \/ ReadDetail
    <2>1. /\ asked \in {"session", "character"} /\ answer = "none" /\ answer' = "granted"
          /\ position = Len(Path(asked))
          /\ UNCHANGED <<row, outcome, selected, asked, caller, position, had_base, seen>>
      BY <1>4 DEF ReadCheckpoints, ReadDetail, KeepData
    <2>2. asked \in Kinds /\ asked # "none" /\ asked # "remix"
      BY <1>0, <2>1 DEF AccessTypeOK
    <2>3. position \in 1..Len(Path(asked)) /\ Path(asked)[position].check # "none"
      BY <2>1, <2>2, PathSound DEF Shape
    <2>4. "none" \notin Unfound
      BY DEF Unfound
    <2>5. \A j \in 1..position : Path(asked)[j].row \in seen
      BY <2>1, <2>2, <2>4 DEF AccessInv, SeenInv
    <2>6. ~Apart
      BY <2>1, <2>3 DEF AccessInv, ApartInv
    <2>7. Lineage(Subject(asked)) \subseteq seen
      BY <2>2, <2>3, <2>5, LineageSeen
    <2>8. ~Apart'
      BY <2>1, <2>6 DEF Apart
    <2>9. DetailCoherent'
      <3>1. CASE ReadCheckpoints
        BY <3>1 DEF ReadCheckpoints, DetailCoherent
      <3>2. CASE ReadDetail
        <4>1. position > 0
          BY <2>3
        <4>2. QED
          BY <2>1, <3>2, <4>1 DEF ReadDetail, DetailCoherent, AccessInv, BaseInv
      <3>3. QED
        BY <1>4, <3>1, <3>2
    <2>10. QED
      BY <1>0, <2>1, <2>2, <2>5, <2>7, <2>8, <2>9
         DEF AccessInv, SeenInv, ApartInv, BaseInv, DeletedStaysHidden
  <1>5. CASE Writes
    <2>1. PICK rs \in SUBSET Resources, s \in {"live", "deleted"} :
            /\ Commits(rs, s)
            /\ "base" \in rs => s = "live" /\ outcome' = "completed" /\ selected'
            /\ outcome' = "completed" => outcome = "completed" \/ ("base" \in rs /\ selected')
            /\ selected => selected'
            /\ outcome = "completed" => outcome' = "completed"
      BY <1>5 DEF Writes
    <2>2. UNCHANGED <<asked, caller, position, answer, had_base, detail>>
      BY <2>1 DEF Commits, KeepRequest
    <2>3. asked # "none" => seen \subseteq seen'
            /\ \A r \in Resources : Finds(asked, row'[r]) => r \in seen'
      BY <2>1 DEF Commits
    <2>4. SeenInv'
      BY <2>2, <2>3 DEF AccessInv, SeenInv
    <2>5. ApartInv' /\ (Apart' => Apart)
      BY <2>2 DEF AccessInv, ApartInv, Apart
    <2>6. DeletedStaysHidden'
      BY <1>0, <2>2, <2>3 DEF AccessInv, DeletedStaysHidden, Underway
    <2>7. "base" \in Resources /\ row'["base"] = IF "base" \in rs THEN s ELSE row["base"]
      BY <2>1 DEF Commits, Resources
    <2>8. BaseInv'
      BY <2>1, <2>2, <2>7 DEF AccessInv, BaseInv
    <2>9. DetailCoherent'
      BY <2>1, <2>2 DEF AccessInv, DetailCoherent
    <2>10. QED
      BY <1>0, <2>2, <2>4, <2>5, <2>6, <2>8, <2>9 DEF AccessInv
  <1>6. QED
    BY <1>0, <1>1, <1>2, <1>3, <1>4, <1>5, WritesOnly

LEMMA AccessInvShows == AccessInv => OutsidersLearnNothing
  BY DEF AccessInv, ApartInv, Apart, Underway, OutsidersLearnNothing, Private

-----------------------------------------------------------------------------
(* The file store.  A file that is whole never changes again, and every    *)
(* name that is not the temporary one of its writer refers to a whole one. *)

Early == {"idle", "check", "create", "link", "source", "unlink", "open", "read"}

\* The operations of a call that is there.
OpAt(c) ==
  /\ at[c] = "idle" => order[c] = NoOrder
  /\ at[c] # "idle" => order[c] \in Orders
  /\ at[c] = "check" => order[c].op \in {"delete", "get", "copy"}
  /\ at[c] = "create" => order[c].op = "put"
  /\ at[c] \in {"write", "rename"} => order[c].op \in {"put", "copy"}
  /\ at[c] \in {"link", "source", "stat_source", "stat"} => order[c].op = "copy"
  /\ at[c] = "unlink" => order[c].op = "delete"
  /\ at[c] \in {"open", "read"} => order[c].op = "get"

\* What a call has written, and under which name.
TempAt(c) ==
  /\ at[c] \in Early => filled[c] = 0 /\ temp[c] = "none" /\ content[c] = c
  /\ at[c] = "write" => temp[c] = c /\ filled[c] < Chunks
  /\ at[c] = "write" /\ order[c].op = "put" => open[c] = "none"
  /\ at[c] = "write" /\ order[c].op = "copy" => open[c] # "none"
  /\ at[c] = "stat_source" => temp[c] = c /\ Whole(c)
  /\ at[c] = "rename" => temp[c] # "none" /\ Whole(temp[c])
  /\ at[c] = "rename" /\ order[c].op = "put" => temp[c] = c
  /\ order[c].op = "put" => content[c] = c
  /\ at[c] = "stat" /\ temp[c] # "none" => temp[c] # c /\ Whole(temp[c])
  /\ temp[c] # "none" => temp[c] = c \/ Whole(temp[c])

\* What a call reads.
ReadAt(c) ==
  /\ open[c] # "none" => Whole(open[c])
  /\ at[c] \in Early \ {"read"} => open[c] = "none" /\ got[c] = 0
  /\ at[c] = "read" => open[c] # "none"
  /\ at[c] = "over" /\ gives[c] = "ok" /\ order[c].op = "get" => got[c] = Chunks /\ open[c] # "none"
  /\ at[c] = "over" <=> gives[c] # "none"

\* While a call has its file under its temporary name, nobody else has a name for it.
Unshared ==
  /\ \A k \in Keys : dir[k] # "none" => Whole(dir[k])
  /\ \A k \in Keys, c \in Calls : dir[k] = c => temp[c] # c
  /\ \A c, d \in Calls : c # d /\ temp[d] = c => temp[c] # c

FileInv ==
  /\ FileTypeOK
  /\ \A c \in Calls : OpAt(c) /\ TempAt(c) /\ ReadAt(c)
  /\ Unshared /\ LeftoversExplained

LEMMA FileInitType == FileInit => FileTypeOK
  BY LocalStoreAssumption DEF FileInit, FileTypeOK, Inodes

LEMMA FileInvInit == FileInit => FileInv
  <1> SUFFICES ASSUME FileInit PROVE FileInv
    OBVIOUS
  <1> USE LocalStoreAssumption DEF FileInit
  <1>1. FileTypeOK
    BY FileInitType
  <1>2. ASSUME NEW c \in Calls
        PROVE  OpAt(c) /\ TempAt(c) /\ ReadAt(c)
    <2>1. c \in Inodes /\ c \notin Seeds /\ c # "none"
      BY DEF Inodes
    <2>2. QED
      BY <2>1 DEF OpAt, TempAt, ReadAt, NoOrder, Whole
  <1>3. Unshared
    <2>1. \A k \in Keys : dir[k] \in Seeds \cup {"none"}
      OBVIOUS
    <2>2. \A i \in Seeds : i \in Inodes /\ Whole(i) /\ i \notin Calls
      BY DEF Inodes, Whole
    <2>3. \A c \in Calls : temp[c] = "none" /\ c # "none"
      BY DEF Inodes
    <2>4. QED
      BY <2>1, <2>2, <2>3 DEF Unshared
  <1>4. LeftoversExplained
    BY DEF LeftoversExplained
  <1>5. QED
    BY <1>1, <1>2, <1>3, <1>4 DEF FileInv

-----------------------------------------------------------------------------
\* A step of one call.
FileStep(c) ==
  \/ Call(c) \/ CheckFile(c) \/ CreateTemp(c) \/ WriteChunk(c) \/ Link(c) \/ OpenSource(c)
  \/ StatSource(c) \/ Replace(c) \/ StatTarget(c) \/ WriteFails(c) \/ Unlink(c)
  \/ OpenFile(c) \/ ReadChunk(c) \/ Crash(c)

\* It leaves the other calls alone, and whole files.
LEMMA OthersKeep ==
  ASSUME FileInv, NEW c \in Calls, FileStep(c)
  PROVE  /\ \A d \in Calls : d # c =>
              /\ at'[d] = at[d] /\ temp'[d] = temp[d] /\ order'[d] = order[d]
              /\ open'[d] = open[d] /\ got'[d] = got[d] /\ gives'[d] = gives[d]
         /\ \A i \in Inodes : i # c => filled'[i] = filled[i] /\ content'[i] = content[i]
         /\ \A i \in Inodes : Whole(i) => filled'[i] = filled[i] /\ content'[i] = content[i]
  <1> USE DEF FileInv, FileTypeOK
  <1>1. CASE Call(c) \/ CheckFile(c) \/ CreateTemp(c) \/ Link(c) \/ StatSource(c) \/ Replace(c)
    BY <1>1 DEF Call, CheckFile, CreateTemp, Link, StatSource, Replace, KeepFiles, KeepReader,
         Moves, Answers, SetTemp
  <1>2. CASE StatTarget(c) \/ WriteFails(c) \/ Unlink(c) \/ OpenFile(c) \/ ReadChunk(c) \/ Crash(c)
    BY <1>2 DEF StatTarget, WriteFails, Unlink, OpenFile, ReadChunk, Crash, KeepFiles, KeepReader,
         Moves, Answers, SetTemp, RollBack
  <1>3. CASE WriteChunk(c)
    <2>1. filled[c] < Chunks /\ filled[c] \in 0..Chunks
      BY <1>3 DEF WriteChunk, TempAt, Inodes
    <2>2. ~Whole(c)
      BY <2>1, LocalStoreAssumption DEF Whole
    <2>3. QED
      BY <1>3, <2>2 DEF WriteChunk, KeepReader, Moves, Answers
  <1>4. CASE OpenSource(c)
    <2>1. ~Whole(c)
      BY <1>4, LocalStoreAssumption DEF OpenSource, TempAt, Early, Whole
    <2>2. QED
      BY <1>4, <2>1 DEF OpenSource, Moves, Answers, SetTemp
  <1>5. QED
    BY <1>1, <1>2, <1>3, <1>4 DEF FileStep

\* Keys of an operation, and what they hold.
LEMMA SourceType ==
  ASSUME FileTypeOK, NEW c \in Calls, order[c] \in Orders, order[c].op \in {"get", "copy"}
  PROVE  order[c].from \in Keys /\ Source(c) \in Inodes \cup {"none"}
  <1>1. order[c].from \in Keys
    BY DEF Orders
  <1>2. QED
    BY <1>1 DEF Source, FileTypeOK

LEMMA TargetType ==
  ASSUME FileTypeOK, NEW c \in Calls, order[c] \in Orders, order[c].op \in {"put", "delete", "copy"}
  PROVE  order[c].to \in Keys /\ Target(c) \in Inodes \cup {"none"}
  <1>1. order[c].to \in Keys
    BY DEF Orders
  <1>2. QED
    BY <1>1 DEF Target, FileTypeOK

LEMMA FileStepType == FileInv /\ [FileNext]_fileVars => FileTypeOK'
  <1> SUFFICES ASSUME FileInv, [FileNext]_fileVars PROVE FileTypeOK'
    OBVIOUS
  <1> USE LocalStoreAssumption DEF FileInv, FileTypeOK, Moves, Answers, SetTemp, KeepFiles, KeepReader
  <1>1. CASE UNCHANGED fileVars
    BY <1>1 DEF fileVars
  <1>2. ASSUME NEW c \in Calls, Call(c) \/ Unlink(c) \/ StatTarget(c) \/ Crash(c)
        PROVE  FileTypeOK'
    <2>1. CASE Call(c)
      BY <2>1 DEF Call
    <2>2. CASE Unlink(c)
      BY <2>2 DEF Unlink
    <2>3. CASE StatTarget(c)
      BY <2>3 DEF StatTarget
    <2>4. CASE Crash(c)
      BY <2>4 DEF Crash
    <2>5. QED
      BY <1>2, <2>1, <2>2, <2>3, <2>4
  <1>3. ASSUME NEW c \in Calls, CheckFile(c) \/ CreateTemp(c) \/ WriteFails(c)
        PROVE  FileTypeOK'
    <2>1. c \in Inodes
      BY DEF Inodes
    <2>2. CASE CheckFile(c)
      BY <2>2 DEF CheckFile
    <2>3. CASE CreateTemp(c)
      BY <2>1, <2>3 DEF CreateTemp
    <2>4. CASE WriteFails(c)
      BY <2>4 DEF WriteFails, RollBack
    <2>5. QED
      BY <1>3, <2>2, <2>3, <2>4
  <1>4. ASSUME NEW c \in Calls, WriteChunk(c)
        PROVE  FileTypeOK'
    <2>1. filled[c] \in Nat /\ filled[c] < Chunks
      BY <1>4 DEF WriteChunk, TempAt, Inodes
    <2>2. filled[c] + 1 \in 0..Chunks
      BY <2>1
    <2>3. filled' \in [Inodes -> 0..Chunks]
      BY <1>4, <2>2 DEF WriteChunk
    <2>4. QED
      BY <1>4, <2>3 DEF WriteChunk
  <1>5. ASSUME NEW c \in Calls, Link(c) \/ OpenSource(c) \/ StatSource(c) \/ OpenFile(c)
        PROVE  FileTypeOK'
    <2>1. Source(c) \in Inodes \cup {"none"} /\ c \in Inodes
      BY <1>5, SourceType DEF Link, OpenSource, StatSource, OpenFile, OpAt, Inodes
    <2>2. CASE Link(c)
      BY <2>1, <2>2 DEF Link
    <2>3. CASE OpenSource(c)
      BY <2>1, <2>3 DEF OpenSource
    <2>4. CASE StatSource(c)
      BY <2>4 DEF StatSource
    <2>5. CASE OpenFile(c)
      BY <2>1, <2>5 DEF OpenFile
    <2>6. QED
      BY <1>5, <2>2, <2>3, <2>4, <2>5
  <1>6. ASSUME NEW c \in Calls, Replace(c)
        PROVE  FileTypeOK'
    BY <1>6 DEF Replace
  <1>7. ASSUME NEW c \in Calls, ReadChunk(c)
        PROVE  FileTypeOK'
    <2>1. open[c] \in Inodes
      BY <1>7 DEF ReadChunk, ReadAt
    <2>2. got[c] < filled[open[c]] => got[c] + 1 \in 0..Chunks
      BY <2>1
    <2>3. got' \in [Calls -> 0..Chunks]
      BY <1>7, <2>2 DEF ReadChunk
    <2>4. QED
      BY <1>7, <2>3 DEF ReadChunk
  <1>8. QED
    BY <1>1, <1>2, <1>3, <1>4, <1>5, <1>6, <1>7 DEF FileNext

Leftover(c) == temp[c] # "none" /\ at[c] = "over" => order[c].op = "copy" /\ temp[c] # c /\ Whole(temp[c])

CallInv(c) == OpAt(c) /\ TempAt(c) /\ ReadAt(c) /\ Leftover(c)

\* What holds of the other calls still holds of them.
LEMMA OtherCalls ==
  ASSUME FileInv, NEW c \in Calls, FileStep(c), NEW d \in Calls, d # c
  PROVE  CallInv(d)'
  <1>1. /\ at'[d] = at[d] /\ temp'[d] = temp[d] /\ order'[d] = order[d]
        /\ open'[d] = open[d] /\ got'[d] = got[d] /\ gives'[d] = gives[d]
        /\ filled'[d] = filled[d] /\ content'[d] = content[d]
    BY OthersKeep DEF Inodes
  <1>2. \A i \in Inodes : Whole(i) => Whole(i)'
    BY OthersKeep DEF Whole
  <1>3. temp[d] \in Inodes \cup {"none"} /\ open[d] \in Inodes \cup {"none"} /\ d \in Inodes
    BY DEF FileInv, FileTypeOK, Inodes
  <1>4. CallInv(d)
    BY DEF FileInv, CallInv, Leftover, LeftoversExplained
  <1>5. OpAt(d)'
    BY <1>1, <1>4 DEF CallInv, OpAt
  <1>6. TempAt(d)'
    BY <1>1, <1>2, <1>3, <1>4 DEF CallInv, TempAt
  <1>7. ReadAt(d)'
    BY <1>1, <1>2, <1>3, <1>4 DEF CallInv, ReadAt
  <1>8. Leftover(d)'
    BY <1>1, <1>2, <1>3, <1>4 DEF CallInv, Leftover
  <1>9. QED
    BY <1>5, <1>6, <1>7, <1>8 DEF CallInv

\* Names that go, and names that stay, share nothing.
LEMMA FewerNames ==
  ASSUME FileInv, NEW c \in Calls, FileStep(c),
         \A k \in Keys : dir'[k] \in {dir[k], "none"},
         \A d \in Calls : temp'[d] \in {temp[d], "none"}
  PROVE  Unshared'
  <1>1. \A i \in Inodes : Whole(i) => Whole(i)'
    BY OthersKeep DEF Whole
  <1>2. \A d \in Calls : d # "none"
    BY LocalStoreAssumption DEF Inodes
  <1>3. \A k \in Keys : dir[k] \in Inodes \cup {"none"}
    BY DEF FileInv, FileTypeOK
  <1>4. QED
    BY <1>1, <1>2, <1>3 DEF FileInv, Unshared

LEMMA CallsKeep ==
  ASSUME FileInv, NEW c \in Calls, FileStep(c), FileTypeOK', CallInv(c)', Unshared'
  PROVE  FileInv'
  <1>1. \A d \in Calls : CallInv(d)'
    BY OtherCalls
  <1>2. QED
    BY <1>1 DEF FileInv, CallInv, Leftover, LeftoversExplained

\* An inode that a key names, or that another call linked, is not the one a call is to write.
LEMMA NotYetNamed ==
  ASSUME FileInv, NEW c \in Calls, filled[c] = 0
  PROVE  /\ ~Whole(c) /\ \A k \in Keys : dir[k] # c
         /\ \A d \in Calls : d # c => temp[d] # c
  <1>1. c \in Inodes /\ c # "none"
    BY LocalStoreAssumption DEF Inodes
  <1>2. ~Whole(c)
    BY LocalStoreAssumption DEF Whole
  <1>3. \A k \in Keys : dir[k] # c
    BY <1>1, <1>2 DEF FileInv, Unshared
  <1>4. \A d \in Calls : d # c => temp[d] # c
    BY <1>1, <1>2 DEF FileInv, TempAt
  <1>5. QED
    BY <1>2, <1>3, <1>4

LEMMA AtTheEnd ==
  ASSUME NEW n \in Nat, NEW m \in 0..n, ~(m < n)
  PROVE  m = n
  OBVIOUS

\* The steps that give no name to an inode.
LEMMA PlainSteps ==
  ASSUME FileInv, NEW c \in Calls, FileTypeOK',
         \/ Call(c) \/ CheckFile(c) \/ WriteChunk(c) \/ StatSource(c) \/ StatTarget(c)
         \/ WriteFails(c) \/ Unlink(c) \/ OpenFile(c) \/ ReadChunk(c) \/ Crash(c)
  PROVE  CallInv(c)' /\ Unshared'
  <1> USE DEF FileInv, FileTypeOK, Moves, Answers, SetTemp, KeepFiles, KeepReader
  <1>0. CallInv(c) /\ c \in Inodes /\ FileStep(c) /\ c # "none"
    BY LocalStoreAssumption DEF CallInv, Leftover, LeftoversExplained, Inodes, FileStep
  <1>1. Unshared'
    <2>1. \A k \in Keys : dir'[k] \in {dir[k], "none"}
      BY DEF Call, CheckFile, WriteChunk, StatSource, StatTarget, WriteFails, Unlink, OpenFile,
             ReadChunk, Crash
    <2>2. \A d \in Calls : temp'[d] \in {temp[d], "none"}
      BY DEF Call, CheckFile, WriteChunk, StatSource, StatTarget, WriteFails, Unlink, OpenFile,
             ReadChunk, Crash, RollBack
    <2>3. QED
      BY <1>0, <2>1, <2>2, FewerNames
  <1> USE <1>0 DEF CallInv, OpAt, TempAt, ReadAt, Leftover
  <1>2. CASE Call(c)
    <2>1. order'[c] \in Orders /\ order'[c].op \in {"put", "delete", "get", "copy"}
            /\ at'[c] = IF order'[c].op = "put" THEN "create" ELSE "check"
      BY <1>2 DEF Call, Orders
    <2>2. filled'[c] = 0 /\ temp'[c] = "none" /\ content'[c] = c /\ open'[c] = "none" /\ got'[c] = 0
            /\ gives'[c] = "none"
      BY <1>2 DEF Call, Early
    <2>3. QED
      BY <1>1, <2>1, <2>2 DEF Early
  <1>3. CASE CheckFile(c)
    <2>1. /\ UNCHANGED <<order, temp, filled, content, open, got>> /\ at[c] = "check"
          /\ \/ at'[c] = "over" /\ gives'[c] \in {"ok", "missing"}
                /\ (gives'[c] = "ok" => order[c].op = "delete")
             \/ at'[c] = "unlink" /\ order[c].op = "delete" /\ gives'[c] = gives[c]
             \/ at'[c] = "open" /\ order[c].op = "get" /\ gives'[c] = gives[c]
             \/ at'[c] \in {"stat", "link"} /\ order[c].op = "copy" /\ gives'[c] = gives[c]
      BY <1>3 DEF CheckFile
    <2>2. filled[c] = 0 /\ temp[c] = "none" /\ content[c] = c /\ open[c] = "none" /\ got[c] = 0
            /\ gives[c] = "none" /\ order[c] \in Orders
      BY <2>1 DEF Early
    <2>3. QED
      BY <1>1, <2>1, <2>2 DEF Early
  <1>4. CASE WriteChunk(c)
    <2>1. /\ at[c] = "write" /\ UNCHANGED <<order, temp, content, open, got, gives>>
          /\ filled'[c] = filled[c] + 1 /\ filled[c] < Chunks /\ filled[c] \in Nat
          /\ temp[c] = c /\ order[c].op \in {"put", "copy"}
      BY <1>4 DEF WriteChunk
    <2>2. (IF open[c] = "none" THEN Chunks ELSE filled[open[c]]) = Chunks
      BY DEF Whole
    <2>3. \/ filled[c] + 1 < Chunks /\ at'[c] = "write"
          \/ filled[c] + 1 = Chunks
             /\ at'[c] = IF order[c].op = "put" THEN "rename" ELSE "stat_source"
      BY <1>4, <2>1, <2>2, LocalStoreAssumption DEF WriteChunk
    <2>4. open[c] # "none" => Whole(open[c])'
      <3>1. \A i \in Inodes : Whole(i) => filled'[i] = Chunks
        BY <1>0, OthersKeep DEF Whole
      <3>2. open[c] # "none" => open[c] \in Inodes /\ Whole(open[c])
        OBVIOUS
      <3>3. QED
        BY <2>1, <3>1, <3>2 DEF Whole
    <2>5. gives[c] = "none" /\ order[c] \in Orders
      BY <2>1
    <2>6. QED
      BY <1>1, <2>1, <2>3, <2>4, <2>5 DEF Early, Whole
  <1>5. CASE StatSource(c) \/ StatTarget(c) \/ WriteFails(c)
    <2>1. UNCHANGED <<order, filled, content, open, got>>
            /\ at[c] \in {"stat_source", "stat", "create", "write", "link", "source", "rename"}
            /\ order[c].op \in {"put", "copy"}
      BY <1>5 DEF StatSource, StatTarget, WriteFails
    <2>2. /\ at'[c] \in {"over", "rename"} /\ gives'[c] \in {"none", "ok", "missing", "error"}
          /\ at'[c] = "over" <=> gives'[c] # "none"
          /\ at'[c] = "rename" => at[c] = "stat_source" /\ temp'[c] = temp[c]
          /\ at'[c] = "over" => temp'[c] = "none" \/ (at[c] = "stat" /\ temp'[c] = temp[c])
      BY <1>5 DEF StatSource, StatTarget, WriteFails, RollBack
    <2>3. QED
      BY <1>1, <2>1, <2>2 DEF Early, Whole
  <1>6. CASE Unlink(c) \/ OpenFile(c)
    <2>1. /\ UNCHANGED <<order, temp, filled, content, got>> /\ at[c] \in {"unlink", "open"}
          /\ \/ at'[c] = "over" /\ gives'[c] \in {"ok", "missing"} /\ open'[c] = open[c]
                /\ (gives'[c] = "ok" => order[c].op = "delete")
             \/ at'[c] = "read" /\ gives'[c] = gives[c] /\ at[c] = "open"
                /\ Source(c) # "none" /\ open'[c] = Source(c)
      BY <1>6 DEF Unlink, OpenFile
    <2>2. at[c] = "open" /\ Source(c) # "none" => Whole(Source(c))
      BY SourceType DEF Unshared, Source
    <2>3. filled[c] = 0 /\ temp[c] = "none" /\ content[c] = c /\ open[c] = "none" /\ got[c] = 0
            /\ gives[c] = "none" /\ order[c] \in Orders
      BY <2>1 DEF Early
    <2>4. QED
      BY <1>1, <2>1, <2>2, <2>3 DEF Early, Whole
  <1>7. CASE ReadChunk(c)
    <2>1. /\ UNCHANGED <<order, temp, filled, content, open>> /\ at[c] = "read"
          /\ open[c] \in Inodes /\ filled[open[c]] = Chunks
      BY <1>7 DEF ReadChunk, Whole
    <2>2. \/ at'[c] = "read" /\ gives'[c] = gives[c]
          \/ at'[c] = "over" /\ gives'[c] = "ok" /\ got'[c] = got[c] /\ ~(got[c] < Chunks)
      BY <1>7, <2>1 DEF ReadChunk
    <2>3. got[c] \in 0..Chunks /\ Chunks \in Nat
      BY LocalStoreAssumption
    <2>4. at'[c] = "over" => got'[c] = Chunks
      BY <2>2, <2>3, AtTheEnd
    <2>5. filled[c] = 0 /\ temp[c] = "none" /\ content[c] = c /\ gives[c] = "none"
            /\ order[c] \in Orders /\ order[c].op = "get"
      BY <2>1 DEF Early
    <2>6. QED
      BY <1>1, <2>1, <2>2, <2>4, <2>5 DEF Early, Whole
  <1>8. CASE Crash(c)
    <2>1. at'[c] = "dead" /\ at[c] \notin {"idle", "over"} /\ UNCHANGED <<order, temp, filled, content, open, got, gives>>
      BY <1>8 DEF Crash
    <2>2. QED
      BY <1>1, <2>1 DEF Early, Whole
  <1>9. QED
    BY <1>2, <1>3, <1>4, <1>5, <1>6, <1>7, <1>8

\* The steps that do.
LEMMA NamingSteps ==
  ASSUME FileInv, NEW c \in Calls, FileTypeOK',
         CreateTemp(c) \/ Link(c) \/ OpenSource(c) \/ Replace(c)
  PROVE  CallInv(c)' /\ Unshared'
  <1> USE DEF FileInv, FileTypeOK, Moves, Answers, SetTemp, KeepFiles, KeepReader
  <1>0. CallInv(c) /\ c \in Inodes /\ FileStep(c) /\ c # "none"
    BY LocalStoreAssumption DEF CallInv, Leftover, LeftoversExplained, Inodes, FileStep
  <1>1. \A i \in Inodes : Whole(i) => Whole(i)'
    BY <1>0, OthersKeep DEF Whole
  <1>2. \A k \in Keys : dir[k] \in Inodes \cup {"none"} /\ (dir[k] # "none" => Whole(dir[k]))
    BY DEF Unshared
  <1> USE <1>0 DEF CallInv, OpAt, TempAt, ReadAt, Leftover
  <1>3. CASE CreateTemp(c)
    <2>1. at[c] = "create" /\ at'[c] = "write" /\ temp' = [temp EXCEPT ![c] = c]
            /\ UNCHANGED <<dir, order, filled, content, open, got, gives>>
      BY <1>3 DEF CreateTemp
    <2>2. filled[c] = 0 /\ order[c].op = "put" /\ order[c] \in Orders /\ gives[c] = "none"
            /\ open[c] = "none" /\ content[c] = c
      BY <2>1 DEF Early
    <2>3. Unshared'
      BY <1>1, <1>2, <2>1, <2>2, NotYetNamed DEF Unshared
    <2>4. QED
      BY <2>1, <2>2, <2>3, LocalStoreAssumption DEF Early
  <1>4. CASE Link(c)
    <2>1. filled[c] = 0 /\ order[c].op = "copy" /\ order[c] \in Orders /\ gives[c] = "none"
            /\ open[c] = "none" /\ content[c] = c /\ temp[c] = "none" /\ at[c] = "link" /\ got[c] = 0
      BY <1>4 DEF Link, Early
    <2>2. UNCHANGED <<dir, order, filled, content, open, got>>
      BY <1>4 DEF Link
    <2>3. CASE Source(c) = "none" /\ Answers(c, "missing") /\ UNCHANGED temp
      <3>1. Unshared'
        BY <1>0, <2>2, <2>3, FewerNames
      <3>2. QED
        BY <2>1, <2>2, <2>3, <3>1 DEF Early
    <2>4. CASE Source(c) # "none" /\ Moves(c, "source") /\ UNCHANGED temp
      <3>1. Unshared'
        BY <1>0, <2>2, <2>4, FewerNames
      <3>2. QED
        BY <2>1, <2>2, <2>4, <3>1 DEF Early
    <2>5. CASE Source(c) # "none" /\ SetTemp(c, Source(c)) /\ Moves(c, "rename")
      <3>1. PICK k \in Keys : Source(c) = dir[k]
        BY <2>1, SourceType DEF Source
      <3>2. Whole(dir[k]) /\ dir[k] # c /\ dir[k] # "none" /\ dir[k] \in Inodes
        BY <1>2, <2>1, <2>5, <3>1, NotYetNamed
      <3>3. temp' = [temp EXCEPT ![c] = dir[k]] /\ at'[c] = "rename" /\ gives'[c] = "none"
        BY <2>1, <2>5, <3>1
      <3>4. Unshared'
        <4>1. \A d \in Calls : temp'[d] = d => d # c /\ temp[d] = d
          BY <3>2, <3>3
        <4>2. \A l \in Keys, d \in Calls : dir[l] = d => temp'[d] # d
          BY <4>1 DEF Unshared
        <4>3. \A d \in Calls, e \in Calls : d # e /\ temp'[e] = d => temp'[d] # d
          BY <3>3, <4>1, <4>2 DEF Unshared
        <4>4. QED
          BY <1>1, <1>2, <2>2, <4>2, <4>3 DEF Unshared
      <3>5. QED
        BY <1>1, <2>1, <2>2, <3>2, <3>3, <3>4 DEF Early
    <2>6. QED
      BY <1>4, <2>3, <2>4, <2>5 DEF Link
  <1>5. CASE OpenSource(c)
    <2>1. filled[c] = 0 /\ order[c].op = "copy" /\ order[c] \in Orders /\ gives[c] = "none"
            /\ open[c] = "none" /\ content[c] = c /\ temp[c] = "none" /\ at[c] = "source" /\ got[c] = 0
      BY <1>5 DEF OpenSource, Early
    <2>2. UNCHANGED <<dir, order, filled, got>>
      BY <1>5 DEF OpenSource
    <2>3. CASE Source(c) = "none"
      <3>1. UNCHANGED <<temp, open, content>> /\ at'[c] = "over" /\ gives'[c] = "missing"
        BY <1>5, <2>3 DEF OpenSource
      <3>2. Unshared'
        BY <1>0, <2>2, <3>1, FewerNames
      <3>3. QED
        BY <2>1, <2>2, <3>1, <3>2 DEF Early
    <2>4. CASE Source(c) # "none"
      <3>1. PICK k \in Keys : Source(c) = dir[k]
        BY <2>1, SourceType DEF Source
      <3>2. temp' = [temp EXCEPT ![c] = c] /\ open'[c] = dir[k] /\ at'[c] = "write"
              /\ gives'[c] = "none"
        BY <1>5, <2>1, <2>4, <3>1 DEF OpenSource
      <3>3. Whole(dir[k]) /\ Whole(dir[k])' /\ dir[k] # "none"
        BY <1>1, <1>2, <2>2, <2>4, <3>1
      <3>4. Unshared'
        BY <1>1, <1>2, <2>1, <2>2, <3>2, NotYetNamed DEF Unshared
      <3>5. QED
        BY <2>1, <2>2, <3>2, <3>3, <3>4, LocalStoreAssumption DEF Early
    <2>5. QED
      BY <2>3, <2>4
  <1>6. CASE Replace(c)
    <2>1. at[c] = "rename" /\ order[c].op \in {"put", "copy"} /\ order[c] \in Orders
            /\ gives[c] = "none" /\ Whole(temp[c]) /\ temp[c] # "none" /\ temp[c] \in Inodes
            /\ UNCHANGED <<order, filled, content, open, got>>
      BY <1>6 DEF Replace
    <2>2. \/ order[c].op = "put" /\ at'[c] = "over" /\ gives'[c] = "ok"
          \/ order[c].op = "copy" /\ at'[c] = "stat" /\ gives'[c] = "none"
      BY <1>6, <2>1 DEF Replace
    <2>3. PICK k \in Keys : k = order[c].to /\ Target(c) = dir[k]
      BY <2>1, TargetType DEF Target
    <2>4. CASE dir[k] = temp[c]
      <3>1. UNCHANGED <<dir, temp>>
        BY <1>6, <2>3, <2>4 DEF Replace
      <3>2. temp[c] # c
        BY <2>4 DEF Unshared
      <3>3. Unshared'
        BY <1>0, <3>1, FewerNames
      <3>4. order[c].op = "copy"
        BY <2>1, <3>2
      <3>5. QED
        BY <2>1, <2>2, <3>1, <3>2, <3>3, <3>4 DEF Early, Whole
    <2>5. CASE dir[k] # temp[c]
      <3>1. dir' = [dir EXCEPT ![k] = temp[c]] /\ temp' = [temp EXCEPT ![c] = "none"]
        BY <1>6, <2>3, <2>5 DEF Replace
      <3>2. \A d \in Calls : temp'[d] = d => d # c /\ temp[d] = d /\ temp[c] # d
        BY <1>0, <3>1 DEF Unshared
      <3>3. Unshared'
        <4>1. \A l \in Keys, d \in Calls : dir'[l] = d => temp'[d] # d
          BY <3>1, <3>2 DEF Unshared
        <4>2. \A d \in Calls, e \in Calls : d # e /\ temp'[e] = d => temp'[d] # d
          <5>1. \A d \in Calls, e \in Calls : temp'[e] = d => temp[e] = d
            <6>1. \A e \in Calls : temp'[e] = IF e = c THEN "none" ELSE temp[e]
              BY <3>1
            <6>2. \A d \in Calls : d # "none"
              BY LocalStoreAssumption DEF Inodes
            <6>3. QED
              BY <6>1, <6>2
          <5>2. QED
            BY <3>2, <5>1 DEF Unshared
        <4>3. \A l \in Keys : dir'[l] # "none" => Whole(dir'[l])
          BY <1>2, <2>1, <3>1
        <4>4. \A i \in Inodes : Whole(i)' = Whole(i)
          BY <2>1 DEF Whole
        <4>5. QED
          BY <2>1, <4>1, <4>2, <4>3, <4>4 DEF Unshared, Whole
      <3>4. QED
        BY <2>1, <2>2, <3>1, <3>3 DEF Early, Whole
    <2>6. QED
      BY <2>4, <2>5
  <1>7. QED
    BY <1>3, <1>4, <1>5, <1>6

LEMMA FileStepInv == FileInv /\ [FileNext]_fileVars => FileInv'
  <1> SUFFICES ASSUME FileInv, [FileNext]_fileVars PROVE FileInv'
    OBVIOUS
  <1>1. FileTypeOK'
    BY FileStepType
  <1>2. CASE UNCHANGED fileVars
    BY <1>2, <1>1 DEF fileVars, FileInv, OpAt, TempAt, ReadAt, Unshared, LeftoversExplained, Whole
  <1>3. ASSUME NEW c \in Calls, FileStep(c)
        PROVE  FileInv'
    <2>1. CallInv(c)' /\ Unshared'
      BY <1>1, <1>3, PlainSteps, NamingSteps DEF FileStep
    <2>2. QED
      BY <1>1, <1>3, <2>1, CallsKeep
  <1>4. QED
    BY <1>2, <1>3 DEF FileNext, FileStep

-----------------------------------------------------------------------------
(* The file store implements the abstract one.                             *)

\* What is seen of a whole file.
LEMMA SeenWhole ==
  ASSUME FileTypeOK, NEW i \in Inodes, Whole(i)
  PROVE  Seen(i) = content[i] /\ Seen(i) # "none" /\ Seen(i) \in Inodes
  BY LocalStoreAssumption DEF Seen, FileTypeOK, Inodes

LEMMA ObjectType ==
  ASSUME FileInv, NEW k \in Keys
  PROVE  Objects[k] \in Inodes \cup {"none"} /\ (Objects[k] = "none" <=> dir[k] = "none")
  <1>1. dir[k] \in Inodes \cup {"none"} /\ (dir[k] # "none" => Whole(dir[k])) /\ FileTypeOK
    BY DEF FileInv, FileTypeOK, Unshared
  <1>2. CASE dir[k] = "none"
    BY <1>2 DEF Objects, Seen
  <1>3. CASE dir[k] # "none"
    BY <1>1, <1>3, SeenWhole DEF Objects
  <1>4. QED
    BY <1>2, <1>3

\* A step of a call changes what the abstract store knows of this call only, and of keys that
\* refer to another file.
LEMMA StepMaps ==
  ASSUME FileInv, NEW c \in Calls, FileStep(c)
  PROVE  /\ \A d \in Calls : d # c => StageOf(d)' = StageOf(d) /\ CarriedBy(d)' = CarriedBy(d)
         /\ \A i \in Inodes : Whole(i) => Seen(i)' = Seen(i)
  <1>1. \A i \in Inodes : Whole(i) => Whole(i)' /\ content'[i] = content[i]
    BY OthersKeep DEF Whole
  <1>2. \A i \in Inodes : Whole(i) => Seen(i)' = Seen(i)
    BY <1>1 DEF Seen
  <1>3. ASSUME NEW d \in Calls, d # c
        PROVE  StageOf(d)' = StageOf(d) /\ CarriedBy(d)' = CarriedBy(d)
    <2>1. /\ at'[d] = at[d] /\ temp'[d] = temp[d] /\ order'[d] = order[d]
          /\ open'[d] = open[d] /\ got'[d] = got[d] /\ gives'[d] = gives[d]
          /\ content'[d] = content[d]
      BY <1>3, OthersKeep DEF Inodes
    <2>2. CallInv(d) /\ temp[d] \in Inodes \cup {"none"} /\ open[d] \in Inodes \cup {"none"}
            /\ d \in Inodes
      BY DEF FileInv, FileTypeOK, CallInv, Leftover, LeftoversExplained, Inodes
    <2>3. Carrying(d)' <=> Carrying(d)
      BY <2>1 DEF Carrying
    <2>4. StageOf(d)' = StageOf(d)
      BY <2>1, <2>3 DEF StageOf
    <2>5. open[d] # "none" => Seen(open[d])' = Seen(open[d])
      BY <1>2, <2>1, <2>2 DEF CallInv, ReadAt, Seen, Whole
    <2>6. Carrying(d) => content'[temp'[d]] = content[temp[d]]
      BY <1>1, <2>1, <2>2 DEF CallInv, TempAt, Carrying
    <2>7. CarriedBy(d)' = CarriedBy(d)
      BY <2>1, <2>2, <2>3, <2>5, <2>6 DEF CarriedBy, CallInv, ReadAt
    <2>8. QED
      BY <2>4, <2>7
  <1>4. QED
    BY <1>2, <1>3

\* So such a step maps to one of the abstract store, or to none.
LEMMA StoreMaps ==
  ASSUME FileInv, NEW c \in Calls, FileStep(c)
  PROVE  /\ Stages' = [Stages EXCEPT ![c] = StageOf(c)']
         /\ Carrieds' = [Carrieds EXCEPT ![c] = CarriedBy(c)']
         /\ \A k \in Keys : dir'[k] = dir[k] => Objects'[k] = Objects[k]
  <1>1. \A k \in Keys : dir[k] \in Inodes \cup {"none"} /\ (dir[k] # "none" => Whole(dir[k]))
    BY DEF FileInv, FileTypeOK, Unshared
  <1>2. ASSUME NEW k \in Keys, dir'[k] = dir[k]
        PROVE  Objects'[k] = Objects[k]
    <2>1. CASE dir[k] = "none"
      BY <1>2, <2>1 DEF Objects, Seen
    <2>2. CASE dir[k] # "none"
      <3>1. Seen(dir[k])' = Seen(dir[k])
        BY <1>1, <1>2, <2>2, StepMaps DEF Seen, Whole
      <3>2. QED
        BY <3>1 DEF Objects
    <2>3. QED
      BY <2>1, <2>2
  <1>3. QED
    BY <1>2, StepMaps DEF Stages, Carrieds

LEMMA StoreStutters ==
  ASSUME FileInv, NEW c \in Calls, FileStep(c), UNCHANGED <<dir, order>>,
         StageOf(c)' = StageOf(c), CarriedBy(c)' = CarriedBy(c)
  PROVE  UNCHANGED Store!storeVars
  <1>1. Objects' = Objects
    BY StoreMaps DEF Objects
  <1>2. Stages' = Stages /\ Carrieds' = Carrieds
    BY StoreMaps DEF Stages, Carrieds
  <1>3. QED
    BY <1>1, <1>2 DEF Store!storeVars

\* What a step does to one call and its key, in the terms of the abstract store.
StoreStep(c, s, v, k, o) ==
  /\ Stages' = [Stages EXCEPT ![c] = s] /\ Carrieds' = [Carrieds EXCEPT ![c] = v]
  /\ Objects' = IF k \in Keys THEN [Objects EXCEPT ![k] = o] ELSE Objects

LEMMA StoreMoves ==
  ASSUME FileInv, NEW c \in Calls, FileStep(c), NEW k, NEW i,
         IF k \in Keys THEN dir' = [dir EXCEPT ![k] = i] ELSE dir' = dir
  PROVE  StoreStep(c, StageOf(c)', CarriedBy(c)', k, Seen(i)')
  <1>1. Stages' = [Stages EXCEPT ![c] = StageOf(c)'] /\ Carrieds' = [Carrieds EXCEPT ![c] = CarriedBy(c)']
    BY StoreMaps
  <1>2. CASE k \notin Keys
    <2>1. Objects' = Objects
      BY <1>2, StoreMaps DEF Objects
    <2>2. QED
      BY <1>1, <1>2, <2>1 DEF StoreStep
  <1>3. CASE k \in Keys
    <2>1. \A l \in Keys : l # k => Objects'[l] = Objects[l]
      BY <1>3, StoreMaps DEF FileInv, FileTypeOK
    <2>2. Objects'[k] = Seen(i)'
      <3>1. dir'[k] = i
        BY <1>3 DEF FileInv, FileTypeOK
      <3>2. QED
        BY <1>3, <3>1 DEF Objects, Seen, Whole
    <2>3. Objects' = [Objects EXCEPT ![k] = Seen(i)']
      BY <2>1, <2>2 DEF Objects
    <2>4. QED
      BY <1>1, <1>3, <2>3 DEF StoreStep
  <1>4. QED
    BY <1>2, <1>3

Implements == Store!StoreNext \/ UNCHANGED Store!storeVars

\* Steps that nobody sees.
LEMMA HiddenSteps ==
  ASSUME FileInv, NEW c \in Calls, CreateTemp(c) \/ WriteChunk(c)
  PROVE  Implements
  <1>1. FileStep(c) /\ UNCHANGED <<dir, order>> /\ at[c] \in {"create", "write"}
          /\ at'[c] \in {"write", "rename", "stat_source"}
          /\ order[c].op \in {"put", "copy"} /\ (at[c] = "create" => order[c].op = "put")
    BY DEF CreateTemp, WriteChunk, FileStep, FileInv, FileTypeOK, OpAt, Moves
  <1>2. order[c].op = "put" => at'[c] # "stat_source"
    BY <1>1 DEF CreateTemp, WriteChunk, FileInv, FileTypeOK, Moves
  <1>3. at[c] = "write" => temp'[c] = temp[c] /\ content' = content
    BY DEF CreateTemp, WriteChunk
  <1>4. StageOf(c)' = StageOf(c) /\ CarriedBy(c)' = CarriedBy(c)
    BY <1>1, <1>2, <1>3 DEF StageOf, CarriedBy, Carrying
  <1>5. QED
    BY <1>1, <1>4, StoreStutters DEF Implements

LEMMA CallImplements ==
  ASSUME FileInv, NEW c \in Calls, Call(c)
  PROVE  Implements
  <1>1. PICK o \in Orders : order' = [order EXCEPT ![c] = o]
                            /\ Moves(c, IF o.op = "put" THEN "create" ELSE "check")
    BY DEF Call
  <1>2. at[c] = "idle" /\ dir' = dir /\ at'[c] \in {"create", "check"} /\ FileStep(c)
    BY <1>1 DEF Call, FileStep, Moves, FileInv, FileTypeOK
  <1>3. StageOf(c) = "idle" /\ StageOf(c)' = "asked" /\ CarriedBy(c) = "none" /\ CarriedBy(c)' = "none"
    BY <1>2 DEF StageOf, CarriedBy, Carrying
  <1>4. StoreStep(c, "asked", "none", "none", Seen("none")')
    BY <1>2, <1>3, StoreMoves, LocalStoreAssumption
  <1>5. o.op \in {"put", "copy", "get", "delete"} /\ o.from \in Keys \cup {"none"}
          /\ o.to \in Keys \cup {"none"} /\ o = [op |-> o.op, from |-> o.from, to |-> o.to]
    BY DEF Orders
  <1>6. Store!Request(c)
    BY <1>1, <1>3, <1>4, <1>5, LocalStoreAssumption
       DEF Store!Request, Store!To, StoreStep, Stages, Carrieds
  <1>7. QED
    BY <1>6 DEF Implements, Store!StoreNext

\* The source was missing.
LEMMA MissImplements ==
  ASSUME FileInv, NEW c \in Calls, FileStep(c), UNCHANGED <<dir, order>>,
         order[c] \in Orders, order[c].op \in {"get", "copy"}, Source(c) = "none",
         at[c] \in {"check", "link", "source", "stat_source", "open"},
         at[c] = "stat_source" => order[c].op = "copy",
         at'[c] = "over", gives'[c] = "missing"
  PROVE  Implements
  <1>1. order[c].from \in Keys /\ Objects[order[c].from] = "none"
    BY SourceType DEF FileInv, Source, Objects, Seen, Whole
  <1>2. StageOf(c)' = "missing" /\ CarriedBy(c)' = "none"
    BY DEF StageOf, CarriedBy, Carrying
  <1>3. StageOf(c) = "asked" \/ (StageOf(c) = "taken" /\ order[c].op = "copy")
    BY DEF StageOf, Carrying
  <1>4. StoreStep(c, "missing", "none", "none", Seen("none")')
    BY <1>2, StoreMoves, LocalStoreAssumption
  <1>5. Store!Miss(c)
    BY <1>1, <1>3, <1>4, LocalStoreAssumption
       DEF Store!Miss, Store!Asks, Store!To, StoreStep, Stages, Carrieds
  <1>6. QED
    BY <1>5 DEF Implements, Store!StoreNext

\* The call takes what the source holds.
LEMMA TakeImplements ==
  ASSUME FileInv, NEW c \in Calls, FileStep(c), UNCHANGED <<dir, order>>,
         order[c] \in Orders, order[c].op \in {"get", "copy"}, Source(c) # "none",
         at[c] \in {"link", "source", "open"},
         StageOf(c)' = "taken", CarriedBy(c)' = content[Source(c)]
  PROVE  Implements
  <1>1. order[c].from \in Keys /\ Source(c) \in Inodes /\ Whole(Source(c))
    BY SourceType DEF FileInv, Unshared, Source
  <1>2. Objects[order[c].from] # "none" /\ Objects[order[c].from] = content[Source(c)]
    BY <1>1, SeenWhole DEF FileInv, Source, Objects
  <1>3. StageOf(c) = "asked"
    BY DEF StageOf, Carrying
  <1>4. StoreStep(c, "taken", content[Source(c)], "none", Seen("none")')
    BY StoreMoves, LocalStoreAssumption
  <1>5. Store!Take(c)
    BY <1>2, <1>3, <1>4, LocalStoreAssumption
       DEF Store!Take, Store!Asks, Store!To, StoreStep, Stages
  <1>6. QED
    BY <1>5 DEF Implements, Store!StoreNext

LEMMA CheckImplements ==
  ASSUME FileInv, NEW c \in Calls, CheckFile(c)
  PROVE  Implements
  <1> USE DEF Moves, Answers
  <1>1. FileStep(c) /\ UNCHANGED <<dir, order, temp, content, filled, open, got>> /\ at[c] = "check"
          /\ order[c] \in Orders /\ order[c].op \in {"delete", "get", "copy"}
    BY DEF CheckFile, FileStep, FileInv, OpAt, KeepFiles, KeepReader
  <1>2. DOMAIN at = Calls /\ DOMAIN gives = Calls
    BY DEF FileInv, FileTypeOK
  <1>3. StageOf(c) = "asked" /\ CarriedBy(c) = "none"
    BY <1>1 DEF StageOf, CarriedBy, Carrying
  <1>4. CASE at'[c] \in {"unlink", "open", "link"}
    <2>1. StageOf(c)' = "asked" /\ CarriedBy(c)' = "none"
      BY <1>4 DEF StageOf, CarriedBy, Carrying
    <2>2. QED
      BY <1>1, <1>3, <2>1, StoreStutters DEF Implements
  <1>5. CASE order[c].op = "delete" /\ Target(c) = "none"
    <2>1. at'[c] = "over" /\ gives'[c] = "ok"
      BY <1>2, <1>5 DEF CheckFile
    <2>2. order[c].to \in Keys /\ dir' = [dir EXCEPT ![order[c].to] = "none"]
      BY <1>1, <1>5, TargetType DEF Target, FileInv, FileTypeOK
    <2>3. StageOf(c)' = "ok" /\ CarriedBy(c)' = "none"
      BY <1>1, <1>5, <2>1 DEF StageOf, CarriedBy, Carrying
    <2>4. StoreStep(c, "ok", "none", order[c].to, "none")
      <3>1. StoreStep(c, StageOf(c)', CarriedBy(c)', order[c].to, Seen("none")')
        BY <1>1, <2>2, StoreMoves
      <3>2. QED
        BY <2>3, <3>1 DEF Seen, Whole
    <2>5. Store!Delete(c)
      BY <1>1, <1>3, <1>5, <2>2, <2>4
         DEF Store!Delete, Store!Asks, Store!To, StoreStep, Stages, Carrieds
    <2>6. QED
      BY <2>5 DEF Implements, Store!StoreNext
  <1>6. CASE order[c].op # "delete" /\ Source(c) = "none"
    <2>1. at'[c] = "over" /\ gives'[c] = "missing"
      BY <1>2, <1>6 DEF CheckFile
    <2>2. QED
      BY <1>1, <1>6, <2>1, MissImplements
  <1>7. CASE order[c].op = "copy" /\ Source(c) # "none" /\ order[c].from = order[c].to
    <2>1. at'[c] = "stat"
      BY <1>2, <1>7 DEF CheckFile
    <2>2. StageOf(c)' = "installed" /\ CarriedBy(c)' = "none"
      BY <2>1 DEF StageOf, CarriedBy, Carrying
    <2>3. StoreStep(c, "installed", "none", "none", Seen("none")')
      BY <1>1, <2>2, StoreMoves, LocalStoreAssumption
    <2>4. Objects[order[c].from] # "none"
      BY <1>1, <1>7, SourceType, ObjectType DEF Source, FileInv
    <2>5. Store!Same(c)
      BY <1>1, <1>3, <1>7, <2>3, <2>4, LocalStoreAssumption
         DEF Store!Same, Store!Asks, Store!To, StoreStep, Stages, Carrieds
    <2>6. QED
      BY <2>5 DEF Implements, Store!StoreNext
  <1>8. QED
    <2>1. ASSUME ~ (order[c].op = "delete" /\ Target(c) = "none"),
                 ~ (order[c].op # "delete" /\ Source(c) = "none"),
                 ~ (order[c].op = "copy" /\ Source(c) # "none" /\ order[c].from = order[c].to)
          PROVE  at'[c] \in {"unlink", "open", "link"}
      BY <1>1, <1>2, <2>1 DEF CheckFile
    <2>2. QED
      BY <1>4, <1>5, <1>6, <1>7, <2>1

LEMMA SourceImplements ==
  ASSUME FileInv, NEW c \in Calls, Link(c) \/ OpenSource(c) \/ StatSource(c)
  PROVE  Implements
  <1> USE DEF Moves, Answers, SetTemp
  <1>1. FileStep(c) /\ UNCHANGED <<dir, order>> /\ at[c] \in {"link", "source", "stat_source"}
          /\ order[c] \in Orders /\ order[c].op = "copy"
    BY DEF Link, OpenSource, StatSource, FileStep, FileInv, OpAt
  <1>2. DOMAIN at = Calls /\ DOMAIN gives = Calls /\ temp \in [Calls -> Inodes \cup {"none"}]
          /\ content \in [Inodes -> Inodes] /\ c \in Inodes
    BY DEF FileInv, FileTypeOK, Inodes
  <1>3. CASE Source(c) = "none"
    <2>1. at'[c] = "over" /\ gives'[c] = "missing"
      BY <1>2, <1>3 DEF Link, OpenSource, StatSource
    <2>2. QED
      BY <1>1, <1>3, <2>1, MissImplements
  <1>4. CASE Link(c) /\ Source(c) # "none"
    <2>1. CASE temp' = [temp EXCEPT ![c] = Source(c)] /\ at' = [at EXCEPT ![c] = "rename"]
      <3>1. StageOf(c)' = "taken" /\ CarriedBy(c)' = content[Source(c)]
        BY <1>1, <1>2, <1>4, <2>1 DEF StageOf, CarriedBy, Carrying, Link, KeepFiles
      <3>2. QED
        BY <1>1, <1>4, <3>1, TakeImplements DEF Link
    <2>2. CASE at' = [at EXCEPT ![c] = "source"]
      <3>1. at'[c] = "source" /\ at[c] = "link"
        BY <1>2, <1>4, <2>2 DEF Link
      <3>2. StageOf(c)' = StageOf(c) /\ CarriedBy(c)' = CarriedBy(c)
        BY <1>1, <3>1 DEF StageOf, CarriedBy, Carrying
      <3>3. QED
        BY <1>1, <3>2, StoreStutters DEF Implements
    <2>3. QED
      BY <1>4, <2>1, <2>2 DEF Link
  <1>5. CASE OpenSource(c) /\ Source(c) # "none"
    <2>1. at'[c] = "write" /\ temp'[c] = c /\ content'[c] = content[Source(c)] /\ at[c] = "source"
      BY <1>2, <1>5 DEF OpenSource
    <2>2. StageOf(c)' = "taken" /\ CarriedBy(c)' = content[Source(c)]
      BY <1>1, <2>1 DEF StageOf, CarriedBy, Carrying
    <2>3. QED
      BY <1>1, <1>5, <2>1, <2>2, TakeImplements
  <1>6. CASE StatSource(c) /\ Source(c) # "none"
    <2>1. at'[c] = "rename" /\ temp' = temp /\ content' = content /\ at[c] = "stat_source"
      BY <1>2, <1>6 DEF StatSource, KeepFiles
    <2>2. StageOf(c)' = StageOf(c) /\ CarriedBy(c)' = CarriedBy(c)
      BY <1>1, <2>1 DEF StageOf, CarriedBy, Carrying
    <2>3. QED
      BY <1>1, <2>2, StoreStutters DEF Implements
  <1>7. QED
    BY <1>3, <1>4, <1>5, <1>6

LEMMA ReplaceImplements ==
  ASSUME FileInv, NEW c \in Calls, Replace(c)
  PROVE  Implements
  <1> USE DEF Moves, Answers, SetTemp
  <1>1. FileStep(c) /\ UNCHANGED <<order, content, filled>> /\ at[c] = "rename" /\ order[c] \in Orders
          /\ order[c].op \in {"put", "copy"} /\ Whole(temp[c]) /\ temp[c] \in Inodes
    BY DEF Replace, FileStep, FileInv, FileTypeOK, OpAt, TempAt, KeepFiles
  <1>2. order[c].to \in Keys /\ dir' = [dir EXCEPT ![order[c].to] = temp[c]]
    <2>1. order[c].to \in Keys /\ Target(c) = dir[order[c].to]
      BY <1>1, TargetType DEF Target, FileInv
    <2>2. QED
      BY <2>1 DEF Replace, FileInv, FileTypeOK
  <1>3. Seen(temp[c]) = content[temp[c]]
    BY <1>1, SeenWhole DEF FileInv
  <1>4. StoreStep(c, StageOf(c)', CarriedBy(c)', order[c].to, content[temp[c]])
    <2>1. PICK i \in Inodes : i = temp[c]
      BY <1>1
    <2>2. Seen(i)' = content[temp[c]]
      BY <1>1, <1>3, <2>1 DEF Seen, Whole
    <2>3. StoreStep(c, StageOf(c)', CarriedBy(c)', order[c].to, Seen(i)')
      BY <1>1, <1>2, <2>1, StoreMoves
    <2>4. QED
      BY <2>2, <2>3
  <1>5. CASE order[c].op = "put"
    <2>1. at'[c] = "over" /\ gives'[c] = "ok" /\ content[temp[c]] = c
      BY <1>1, <1>5 DEF Replace, FileInv, FileTypeOK, TempAt
    <2>2. StageOf(c) = "asked" /\ CarriedBy(c) = "none" /\ StageOf(c)' = "ok" /\ CarriedBy(c)' = "none"
      BY <1>1, <1>5, <2>1 DEF StageOf, CarriedBy, Carrying
    <2>3. StoreStep(c, "ok", "none", order[c].to, c)
      BY <1>4, <2>1, <2>2
    <2>4. Store!Put(c)
      BY <1>1, <1>2, <1>5, <2>2, <2>3
         DEF Store!Put, Store!Asks, Store!To, StoreStep, Stages, Carrieds
    <2>5. QED
      BY <2>4 DEF Implements, Store!StoreNext
  <1>6. CASE order[c].op = "copy"
    <2>1. at'[c] = "stat"
      BY <1>6 DEF Replace, FileInv, FileTypeOK
    <2>2. StageOf(c) = "taken" /\ CarriedBy(c) = content[temp[c]] /\ StageOf(c)' = "installed"
            /\ CarriedBy(c)' = "none"
      BY <1>1, <1>6, <2>1 DEF StageOf, CarriedBy, Carrying
    <2>3. Store!Install(c)
      BY <1>1, <1>2, <1>4, <1>6, <2>2
         DEF Store!Install, Store!To, StoreStep, Stages, Carrieds
    <2>4. QED
      BY <2>3 DEF Implements, Store!StoreNext
  <1>7. QED
    BY <1>1, <1>5, <1>6

LEMMA UnlinkImplements ==
  ASSUME FileInv, NEW c \in Calls, Unlink(c)
  PROVE  Implements
  <1>1. FileStep(c) /\ order' = order /\ at[c] = "unlink" /\ order[c] \in Orders
          /\ order[c].op = "delete" /\ at'[c] = "over" /\ gives'[c] = "ok"
    BY DEF Unlink, FileStep, FileInv, FileTypeOK, OpAt, Answers
  <1>2. order[c].to \in Keys /\ dir' = [dir EXCEPT ![order[c].to] = "none"]
    BY <1>1, TargetType DEF Unlink, FileInv
  <1>3. StageOf(c) = "asked" /\ CarriedBy(c) = "none" /\ StageOf(c)' = "ok" /\ CarriedBy(c)' = "none"
    BY <1>1 DEF StageOf, CarriedBy, Carrying
  <1>4. StoreStep(c, "ok", "none", order[c].to, "none")
    <2>1. StoreStep(c, StageOf(c)', CarriedBy(c)', order[c].to, Seen("none")')
      BY <1>1, <1>2, StoreMoves
    <2>2. QED
      BY <1>3, <2>1 DEF Seen, Whole
  <1>5. Store!Delete(c)
    BY <1>1, <1>2, <1>3, <1>4
       DEF Store!Delete, Store!Asks, Store!To, StoreStep, Stages, Carrieds
  <1>6. QED
    BY <1>5 DEF Implements, Store!StoreNext

\* Steps that only move the call on.
LEMMA AnswerImplements ==
  ASSUME FileInv, NEW c \in Calls, StatTarget(c) \/ WriteFails(c) \/ Crash(c)
  PROVE  Implements
  <1> USE DEF Moves, Answers
  <1>1. FileStep(c) /\ UNCHANGED <<dir, order, content, filled, open, got>> /\ order[c] \in Orders
    BY DEF StatTarget, WriteFails, Crash, FileStep, FileInv, OpAt, KeepFiles, KeepReader
  <1>2. DOMAIN at = Calls /\ DOMAIN gives = Calls
    BY DEF FileInv, FileTypeOK
  <1>3. CASE StatTarget(c)
    <2>1. at[c] = "stat" /\ order[c].op = "copy" /\ at'[c] = "over"
            /\ gives'[c] = IF Target(c) = "none" THEN "error" ELSE "ok"
      BY <1>2, <1>3 DEF StatTarget, FileInv, OpAt
    <2>2. order[c].to \in Keys /\ (Target(c) = "none" <=> Objects[order[c].to] = "none")
      BY <1>1, <2>1, TargetType, ObjectType DEF Target, FileInv
    <2>3. StageOf(c) = "installed" /\ CarriedBy(c) = "none" /\ CarriedBy(c)' = "none"
            /\ StageOf(c)' = IF Target(c) = "none" THEN "error" ELSE "ok"
      BY <1>1, <2>1 DEF StageOf, CarriedBy, Carrying
    <2>4. StoreStep(c, IF Target(c) = "none" THEN "error" ELSE "ok", "none", "none", Seen("none")')
      BY <1>1, <2>3, StoreMoves, LocalStoreAssumption
    <2>5. Store!Describe(c)
      BY <1>1, <2>2, <2>3, <2>4, LocalStoreAssumption
         DEF Store!Describe, Store!To, StoreStep, Stages, Carrieds
    <2>6. QED
      BY <2>5 DEF Implements, Store!StoreNext
  <1>4. CASE WriteFails(c)
    <2>1. at[c] \in {"create", "write", "link", "source", "stat_source", "rename"}
            /\ at'[c] = "over" /\ gives'[c] = "error" /\ order[c].op \in {"put", "copy"}
      BY <1>2, <1>4 DEF WriteFails, FileInv, OpAt
    <2>2. StageOf(c) \in {"asked", "taken"} /\ StageOf(c)' = "error" /\ CarriedBy(c)' = "none"
      BY <1>1, <2>1 DEF StageOf, CarriedBy, Carrying
    <2>3. StoreStep(c, "error", "none", "none", Seen("none")')
      BY <1>1, <2>2, StoreMoves, LocalStoreAssumption
    <2>4. Store!Fail(c)
      BY <1>1, <2>1, <2>2, <2>3, LocalStoreAssumption DEF Store!Fail, Store!To, StoreStep, Stages
    <2>5. QED
      BY <2>4 DEF Implements, Store!StoreNext
  <1>5. CASE Crash(c)
    <2>1. at[c] \notin {"idle", "over", "dead"} /\ at'[c] = "dead"
      BY <1>2, <1>5 DEF Crash
    <2>2. StageOf(c) \in {"asked", "taken", "installed"} /\ StageOf(c)' = "lost" /\ CarriedBy(c)' = "none"
      BY <1>1, <2>1 DEF StageOf, CarriedBy, Carrying
    <2>3. StoreStep(c, "lost", "none", "none", Seen("none")')
      BY <1>1, <2>2, StoreMoves, LocalStoreAssumption
    <2>4. Store!Lose(c)
      BY <1>1, <2>2, <2>3, LocalStoreAssumption DEF Store!Lose, Store!To, StoreStep, Stages
    <2>5. QED
      BY <2>4 DEF Implements, Store!StoreNext
  <1>6. QED
    BY <1>3, <1>4, <1>5

LEMMA ReadImplements ==
  ASSUME FileInv, NEW c \in Calls, OpenFile(c) \/ ReadChunk(c)
  PROVE  Implements
  <1> USE DEF Moves, Answers
  <1>1. FileStep(c) /\ UNCHANGED <<dir, order, content, filled>> /\ order[c] \in Orders
          /\ order[c].op = "get"
    BY DEF OpenFile, ReadChunk, FileStep, FileInv, OpAt, KeepFiles
  <1>2. DOMAIN at = Calls /\ DOMAIN gives = Calls
          /\ open \in [Calls -> Inodes \cup {"none"}] /\ got \in [Calls -> 0..Chunks]
    BY DEF FileInv, FileTypeOK
  <1>3. CASE OpenFile(c) /\ Source(c) = "none"
    <2>1. at'[c] = "over" /\ gives'[c] = "missing" /\ at[c] = "open"
      BY <1>2, <1>3 DEF OpenFile
    <2>2. QED
      BY <1>1, <1>3, <2>1, MissImplements
  <1>4. CASE OpenFile(c) /\ Source(c) # "none"
    <2>1. at'[c] = "read" /\ open'[c] = Source(c) /\ at[c] = "open"
      BY <1>2, <1>4 DEF OpenFile
    <2>2. Source(c) \in Inodes /\ Whole(Source(c)) /\ Seen(Source(c)) = content[Source(c)]
      BY <1>1, <1>4, SourceType, SeenWhole DEF FileInv, Unshared, Source
    <2>3. StageOf(c)' = "taken" /\ CarriedBy(c)' = content[Source(c)]
      BY <1>1, <2>1, <2>2 DEF StageOf, CarriedBy, Carrying, Seen, Whole
    <2>4. QED
      BY <1>1, <1>4, <2>1, <2>3, TakeImplements
  <1>5. CASE ReadChunk(c)
    <2>1. at[c] = "read" /\ open[c] \in Inodes /\ Whole(open[c]) /\ open' = open
      BY <1>2, <1>5 DEF ReadChunk, FileInv, ReadAt
    <2>2. StageOf(c) = "taken" /\ CarriedBy(c) = Seen(open[c]) /\ Seen(open[c])' = Seen(open[c])
      BY <1>1, <2>1 DEF StageOf, CarriedBy, Carrying, Seen, Whole
    <2>3. CASE got[c] < filled[open[c]]
      <3>1. at'[c] = "read"
        BY <1>2, <1>5, <2>3 DEF ReadChunk
      <3>2. StageOf(c)' = "taken" /\ CarriedBy(c)' = Seen(open[c])
        BY <2>2, <3>1 DEF StageOf, CarriedBy, Carrying
      <3>3. QED
        BY <1>1, <2>2, <3>2, StoreStutters DEF Implements
    <2>4. CASE ~(got[c] < filled[open[c]])
      <3>1. at'[c] = "over" /\ gives'[c] = "ok" /\ got'[c] = got[c] /\ got[c] = Chunks
        <4>1. got[c] \in 0..Chunks /\ Chunks \in Nat /\ ~(got[c] < Chunks)
          BY <1>2, <2>1, <2>4, LocalStoreAssumption DEF Whole
        <4>2. QED
          BY <1>2, <1>5, <2>4, <4>1, AtTheEnd DEF ReadChunk
      <3>2. StageOf(c)' = "ok" /\ CarriedBy(c)' = Seen(open[c])
        BY <1>1, <2>2, <3>1 DEF StageOf, CarriedBy, Carrying
      <3>3. StoreStep(c, "ok", CarriedBy(c), "none", Seen("none")')
        BY <1>1, <2>2, <3>2, StoreMoves, LocalStoreAssumption
      <3>4. Store!Return(c)
        BY <1>1, <2>2, <3>3, LocalStoreAssumption
           DEF Store!Return, Store!To, StoreStep, Stages, Carrieds
      <3>5. QED
        BY <3>4 DEF Implements, Store!StoreNext
    <2>5. QED
      BY <2>3, <2>4
  <1>6. QED
    BY <1>3, <1>4, <1>5

LEMMA FilesImplement == FileInv /\ [FileNext]_fileVars => [Store!StoreNext]_(Store!storeVars)
  <1> SUFFICES ASSUME FileInv, [FileNext]_fileVars PROVE Implements
    BY DEF Implements
  <1>1. CASE UNCHANGED fileVars
    BY <1>1 DEF fileVars, Implements, Store!storeVars, Objects, Stages, Carrieds, Seen, Whole,
         StageOf, CarriedBy, Carrying
  <1>2. ASSUME NEW c \in Calls, FileStep(c)
        PROVE  Implements
    BY <1>2, HiddenSteps, CallImplements, CheckImplements, SourceImplements, ReplaceImplements,
         UnlinkImplements, AnswerImplements, ReadImplements DEF FileStep
  <1>3. QED
    BY <1>1, <1>2 DEF FileNext, FileStep

LEMMA FilesStart == FileInit => Store!StoreInit
  <1> SUFFICES ASSUME FileInit PROVE Store!StoreInit
    OBVIOUS
  <1>1. FileInv
    BY FileInvInit
  <1>2. Objects \in [Keys -> Inodes \cup {"none"}]
    BY <1>1, ObjectType DEF Objects
  <1>3. \A c \in Calls : StageOf(c) = "idle" /\ CarriedBy(c) = "none"
    BY DEF FileInit, StageOf, CarriedBy, Carrying
  <1>4. QED
    BY <1>2, <1>3 DEF FileInit, Store!StoreInit, Stages, Carrieds, NoOrder

-----------------------------------------------------------------------------
(* The parts together.                                                     *)

LEMMA PartStep ==
  [Next]_vars =>
    /\ [SequenceNext]_sequenceVars /\ [FileNext]_fileVars
    /\ [ListNext]_listVars /\ [AccessNext]_accessVars /\ scene' = scene
  <1> SUFFICES ASSUME [Next]_vars
               PROVE  /\ [SequenceNext]_sequenceVars /\ [FileNext]_fileVars
                      /\ [ListNext]_listVars /\ [AccessNext]_accessVars /\ scene' = scene
    OBVIOUS
  <1>1. CASE UNCHANGED vars
    BY <1>1 DEF vars
  <1>2. CASE Next
    BY <1>2 DEF Next, Numbering, Storing, ListingRows, Accessing
  <1>3. QED
    BY <1>1, <1>2

LEMMA NumbersHold == Spec => []NumbersInv
  <1>1. Init => NumbersInv
    BY NumbersInit DEF Init
  <1>2. NumbersInv /\ [Next]_vars => NumbersInv'
    BY NumbersStep, PartStep
  <1>3. QED
    BY <1>1, <1>2, PTL DEF Spec

LEMMA FilesHold == Spec => []FileInv
  <1>1. Init => FileInv
    BY FileInvInit DEF Init
  <1>2. FileInv /\ [Next]_vars => FileInv'
    BY FileStepInv, PartStep
  <1>3. QED
    BY <1>1, <1>2, PTL DEF Spec

LEMMA ListHolds == Spec => []ListInv
  <1>1. Init => ListInv
    BY ListInvInit DEF Init
  <1>2. ListInv /\ [Next]_vars => ListInv'
    BY ListStep, PartStep
  <1>3. QED
    BY <1>1, <1>2, PTL DEF Spec

LEMMA AccessHolds == Spec => []AccessInv
  <1>1. Init => AccessInv
    BY AccessInvInit DEF Init
  <1>2. AccessInv /\ [Next]_vars => AccessInv'
    BY AccessStep, PartStep
  <1>3. QED
    BY <1>1, <1>2, PTL DEF Spec

\* Rows, keys, files and requests are what the code makes of them.
THEOREM TypeCorrect == Spec => []TypeOK
  <1> DEFINE SceneOK == scene \in {"sequence", "files", "list", "access"}
  <1>1. Init => SceneOK
    BY DEF Init
  <1>2. SceneOK /\ [Next]_vars => SceneOK'
    BY PartStep
  <1>3. SceneOK /\ NumbersInv /\ FileInv /\ ListInv /\ AccessInv => TypeOK
    BY DEF TypeOK, NumbersInv, FileInv, ListInv, AccessInv
  <1> HIDE DEF SceneOK
  <1>4. Spec => []SceneOK
    BY <1>1, <1>2, PTL DEF Spec
  <1>5. QED
    BY <1>3, <1>4, NumbersHold, FilesHold, ListHolds, AccessHolds, PTL

\* Two checkpoints are promised the same number only for a cause the module names
\* (reserve_next_sequence and its Redis key).
THEOREM SharingIsExplained == Spec => []SharingExplained
  <1>1. NumbersInv => SharingExplained
    BY DEF NumbersInv, NumbersAgree, SharingExplained, SharedNumber
  <1>2. QED
    BY <1>1, NumbersHold, PTL

\* The cursor covers every number in use until such a cause occurs.
THEOREM NumbersAreCovered == Spec => []CursorCovers
  <1>1. NumbersInv => CursorCovers
    BY DEF NumbersInv, NumbersAgree, CursorCovers
  <1>2. QED
    BY <1>1, NumbersHold, PTL

\* However many calls of the file store overlap or die, what their callers see is what calls
\* show that take effect at an instant: LocalFilesystemBackend implements the store that
\* StorageBackend describes.
THEOREM ImplementsStore == Spec => AtomicStore
  <1>1. Init => Store!StoreInit
    BY FilesStart DEF Init
  <1>2. FileInv /\ [Next]_vars => [Store!StoreNext]_(Store!storeVars)
    BY FilesImplement, PartStep
  <1>3. QED
    BY <1>1, <1>2, FilesHold, PTL DEF Spec, AtomicStore, Store!StoreSpec

\* A temporary file is left by a crash only; a temporary name, by a copy onto itself too (put
\* and copy of LocalFilesystemBackend).
THEOREM LeftoversAreExplained == Spec => []LeftoversExplained
  <1>1. FileInv => LeftoversExplained
    BY DEF FileInv
  <1>2. QED
    BY <1>1, FilesHold, PTL

\* A walk along the cursors of list_characters shows nobody twice whose time did not go back.
THEOREM NobodyShownTwice == Spec => []ShownOnce
  <1>1. ListInv => ShownOnce
    BY DEF ListInv
  <1>2. QED
    BY <1>1, ListHolds, PTL

\* And at its end it has shown everybody who was there and untouched, whatever the limits.
THEOREM NobodyMissed == Spec => []WalkComplete
  <1>1. ListInv => WalkComplete
    BY DEF ListInv, WalkComplete
  <1>2. QED
    BY <1>1, ListHolds, PTL

\* Nobody outside the team learns of an id more than from one that is nowhere, at whatever
\* point of the look-ups rows are committed or deleted (the authorization of the services).
THEOREM NothingLeaks == Spec => []OutsidersLearnNothing
  <1>1. QED
    BY AccessHolds, AccessInvShows, PTL

\* A request that is let on, or refused as forbidden, was about rows that were all there.
THEOREM DeletedAreHidden == Spec => []DeletedStaysHidden
  <1>1. AccessInv => DeletedStaysHidden
    BY DEF AccessInv
  <1>2. QED
    BY <1>1, AccessHolds, PTL

\* A character that is shown without base and session had its base selected meanwhile.
THEOREM DetailsCohere == Spec => []DetailCoherent
  <1>1. AccessInv => DetailCoherent
    BY DEF AccessInv
  <1>2. QED
    BY <1>1, AccessHolds, PTL
===============================================================================
