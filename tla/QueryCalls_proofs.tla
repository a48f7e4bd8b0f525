-------------------------- MODULE QueryCalls_proofs --------------------------
(***************************************************************************)
(* The safety properties of QueryCalls, for any queries, any lists, any     *)
(* sizes of a page, any number of pages and of changes by others.           *)
(*                                                                         *)
(* The inductive invariant says how far a walk that is under way has come   *)
(* (Reached), and what that means for the rows that were there when it      *)
(* began (Kept, Covered, Exact).  It is not about how a walk ends: that is  *)
(* the lemma LastPageIsTheLast, the heart of the argument.  That it does    *)
(* end needs only the types (QueryGoesOn).  A search by two keys needs one   *)
(* invariant more (SecondKeyIsLeft), and what an answer misses another       *)
(* (SilentAboutNothing).                                                    *)
(***************************************************************************)
EXTENDS QueryCalls, FunctionTheorems, FiniteSetTheorems, SequenceTheorems, TLAPS

\* The rows a walk has asked for and the platform had to give.
Sent == pages * Served

Reached ==
    pages > 0 /\ manner # "first_page_only" => came <= Sent

Kept ==
    /\ NoRowTwice(list)
    /\ gone = {} => RangeOf(begun) \subseteq RangeOf(list) /\ Len(begun) <= Len(list)
    /\ pages > 0 /\ gone = {} => shown \subseteq RangeOf(list)

Covered ==
    pages > 0 /\ gone = {} /\ manner # "first_page_only" =>
        \A k \in 1..Len(list) :
            k <= Sent => list[k] \in shown \/ list[k] \notin RangeOf(begun)

Upto(n) == IF n < Len(list) THEN n ELSE Len(list)

Exact ==
    pages > 0 /\ gone = {} /\ list = begun /\ manner # "first_page_only" =>
        shown = {list[k] : k \in 1..Upto(Sent)} /\ came = Upto(Sent)

Inv == TypeOK /\ Reached /\ Kept /\ Covered /\ Exact

USE SizesAssumption

-----------------------------------------------------------------------------
(* Lists.                                                                   *)

\* A function on 1..n is a sequence of length n.
LEMMA FunctionIsSequence ==
    ASSUME NEW S, NEW n \in Nat, NEW f \in [1..n -> S]
    PROVE  f \in Seq(S) /\ Len(f) = n
<1>1. f \in Seq(S)
  BY SeqDef
<1>2. DOMAIN f = 1..Len(f) /\ Len(f) \in Nat
  BY <1>1, LenProperties
<1>3. QED
  BY <1>1, <1>2

\* A row that is not on the list goes in at any place, and takes no other off.
LEMMA InsertionInserts ==
    ASSUME list \in Seq(Rows), NEW p \in 1..Len(list) + 1,
           NEW r \in Rows \ RangeOf(list)
    PROVE  /\ Inserted(p, r) \in Seq(Rows)
           /\ Len(Inserted(p, r)) = Len(list) + 1
           /\ \A k \in 1..Len(list) + 1 :
                Inserted(p, r)[k] =
                    IF k < p THEN list[k] ELSE IF k = p THEN r ELSE list[k - 1]
           /\ RangeOf(list) \subseteq RangeOf(Inserted(p, r))
           /\ NoRowTwice(list) => NoRowTwice(Inserted(p, r))
<1> DEFINE new == Inserted(p, r)
<1>1. /\ Len(list) \in Nat
      /\ \A k \in 1..Len(list) : list[k] \in Rows
  BY LenProperties, ElementOfSeq
<1>2. new \in [1..Len(list) + 1 -> Rows]
  BY <1>1 DEF Inserted
<1>3. new \in Seq(Rows) /\ Len(new) = Len(list) + 1
  BY <1>1, <1>2, FunctionIsSequence
<1>4. \A k \in 1..Len(list) + 1 :
          new[k] = IF k < p THEN list[k] ELSE IF k = p THEN r ELSE list[k - 1]
  BY <1>1 DEF Inserted
<1> HIDE DEF new
<1>5. RangeOf(list) \subseteq RangeOf(new)
  <2> SUFFICES ASSUME NEW k \in 1..Len(list)
               PROVE  list[k] \in RangeOf(new)
    BY DEF RangeOf
  <2>1. CASE k < p
    BY <1>1, <1>3, <1>4, <2>1 DEF RangeOf
  <2>2. CASE k >= p
    <3>1. k + 1 \in 1..Len(new) /\ new[k + 1] = list[k]
      BY <1>1, <1>3, <1>4, <2>2
    <3>2. QED
      BY <3>1 DEF RangeOf
  <2>3. QED
    BY <1>1, <2>1, <2>2
<1>6. ASSUME NoRowTwice(list)
      PROVE  NoRowTwice(new)
  <2>1. \A k \in 1..Len(list) : list[k] # r
    BY DEF RangeOf
  <2>2. ASSUME NEW j \in 1..Len(new), NEW k \in 1..Len(new), j < k
        PROVE  new[j] # new[k]
    <3>1. \A i, l \in 1..Len(list) : list[i] = list[l] => i = l
      BY <1>6 DEF NoRowTwice
    <3>2. CASE k < p
      <4>1. /\ new[j] = list[j] /\ j \in 1..Len(list)
            /\ new[k] = list[k] /\ k \in 1..Len(list)
        BY <1>1, <1>3, <1>4, <2>2, <3>2
      <4>2. QED
        BY <2>2, <3>1, <4>1
    <3>3. CASE k = p
      BY <1>1, <1>3, <1>4, <2>1, <2>2, <3>3
    <3>4. CASE k > p
      <4>1. new[k] = list[k - 1] /\ k - 1 \in 1..Len(list)
        BY <1>1, <1>3, <1>4, <3>4
      <4>2. CASE j < p
        <5>1. new[j] = list[j] /\ j \in 1..Len(list) /\ j < k - 1
          BY <1>1, <1>3, <1>4, <2>2, <3>4, <4>2
        <5>2. QED
          BY <3>1, <4>1, <5>1
      <4>3. CASE j = p
        BY <1>3, <1>4, <2>1, <4>1, <4>3
      <4>4. CASE j > p
        BY <1>1, <1>3, <1>4, <2>2, <3>1, <4>1, <4>4
      <4>5. QED
        BY <1>1, <1>3, <4>2, <4>3, <4>4
    <3>5. QED
      BY <1>1, <1>3, <3>2, <3>3, <3>4
  <2>3. QED
    BY <1>1, <1>3, <2>2 DEF NoRowTwice
<1>7. QED
  BY <1>3, <1>4, <1>5, <1>6 DEF new

\* A row is taken off, and no other.
LEMMA RemovalRemoves ==
    ASSUME list \in Seq(Rows), NEW p \in 1..Len(list)
    PROVE  /\ Without(p) \in Seq(Rows)
           /\ NoRowTwice(list) => NoRowTwice(Without(p))
<1>1. /\ Len(list) \in Nat
      /\ \A k \in 1..Len(list) : list[k] \in Rows
  BY LenProperties, ElementOfSeq
<1>2. Without(p) \in [1..Len(list) - 1 -> Rows]
  BY <1>1 DEF Without
<1>3. Without(p) \in Seq(Rows) /\ Len(Without(p)) = Len(list) - 1
  BY <1>1, <1>2, FunctionIsSequence
<1>4. \A k \in 1..Len(list) - 1 :
          Without(p)[k] = IF k < p THEN list[k] ELSE list[k + 1]
  BY <1>1 DEF Without
<1>5. QED
  BY <1>1, <1>3, <1>4 DEF NoRowTwice

\* A list without repetitions has as many rows as places.
LEMMA RowsAreCounted ==
    ASSUME list \in Seq(Rows), NoRowTwice(list)
    PROVE  IsFiniteSet(RangeOf(list)) /\ Cardinality(RangeOf(list)) = Len(list)
<1>1. Len(list) \in Nat /\ list \in [1..Len(list) -> Rows] /\ DOMAIN list = 1..Len(list)
  BY LenProperties
<1>2. list \in [1..Len(list) -> RangeOf(list)]
  BY <1>1 DEF RangeOf
<1>3. list \in Bijection(1..Len(list), RangeOf(list))
  <2>1. \A j, k \in 1..Len(list) : list[j] = list[k] => j = k
    BY DEF NoRowTwice
  <2>2. \A r \in RangeOf(list) : \E k \in 1..Len(list) : list[k] = r
    BY DEF RangeOf
  <2>3. QED
    BY <1>2, <2>1, <2>2, Fun_IsBij
<1>4. ExistsBijection(1..Len(list), RangeOf(list))
  BY <1>3 DEF ExistsBijection
<1>5. QED
  BY <1>1, <1>4, FS_NatBijection, FS_CountingElements

\* As many different rows of the list as the list has are all of them.
LEMMA AllWhenAsMany ==
    ASSUME list \in Seq(Rows), NoRowTwice(list),
           NEW S \in SUBSET RangeOf(list), Cardinality(S) >= Len(list)
    PROVE  S = RangeOf(list)
<1>1. Cardinality(S) <= Len(list) /\ IsFiniteSet(S)
  BY RowsAreCounted, FS_Subset
<1>2. Cardinality(S) \in Nat /\ Len(list) \in Nat
  BY <1>1, FS_CardinalityType, LenProperties
<1>3. QED
  BY <1>1, <1>2, RowsAreCounted, FS_Subset

-----------------------------------------------------------------------------
(* A page.                                                                  *)

\* A query is made of reads, and the one that is next is one of them.
LEMMA ReadIsTyped ==
    ASSUME TypeOK
    PROVE  Read \in ReadsOf /\ query \in Queries /\ at \in 1..Len(query) /\ Len(query) \in Nat
<1>1. query \in Queries /\ at \in 1..Len(query)
  BY DEF TypeOK
<1>2. Read \in ReadsOf
  BY <1>1, QueriesAssumption DEF WellBuilt, TypedReads, Read
<1>3. QED
  BY <1>1, <1>2

\* A page is a piece of the list, of no more rows than are served.
LEMMA PageOfTheList ==
    ASSUME TypeOK
    PROVE  /\ Len(list) \in Nat /\ list \in Seq(Rows) /\ RangeOf(list) \subseteq Rows
           /\ Served \in Nat /\ Served >= 1 /\ Served <= Size /\ Sent \in Nat
           /\ First \in Nat /\ First >= 1 /\ Last \in Nat /\ Last <= Len(list)
           /\ Last = Upto(First + Served - 1)
           /\ PageLen \in Nat /\ PageLen <= Served
           /\ PageRows \subseteq RangeOf(list)
           /\ manner # "first_page_only" => First = Sent + 1
<1>1. list \in Seq(Rows) /\ Len(list) \in Nat /\ RangeOf(list) \subseteq Rows
  BY LenProperties, ElementOfSeq DEF TypeOK, RangeOf
<1>2. pages \in Nat
  BY DEF TypeOK
<1>3. Served \in Nat /\ Served >= 1 /\ Served <= Size
  BY DEF Served
<1>4. Sent \in Nat
  BY <1>2, <1>3 DEF Sent
<1>5. /\ First \in Nat /\ First >= 1
      /\ manner # "first_page_only" => First = Sent + 1
  BY <1>4 DEF First, Sent
<1> HIDE DEF Served, Sent
<1>6. Last \in Nat /\ Last <= Len(list) /\ Last = Upto(First + Served - 1)
  BY <1>1, <1>3, <1>5 DEF Last, Upto
<1>7. PageLen \in Nat /\ PageLen <= Served
  BY <1>1, <1>3, <1>5, <1>6 DEF PageLen, Upto
<1>8. PageRows \subseteq RangeOf(list)
  BY <1>1, <1>5, <1>6 DEF PageRows, RangeOf
<1>9. QED
  BY <1>1, <1>3, <1>4, <1>5, <1>6, <1>7, <1>8

\* After a page the rows seen are still rows of the list, the list at the
\* beginning is part of the list now, and what came is not more than was sent.
LEMMA PageKeeps ==
    ASSUME Inv, PageComes
    PROVE  /\ shown' \subseteq Rows /\ came' \in Nat /\ walk' = at
           /\ begun' \in Seq(Rows) /\ gone' \subseteq Rows
           /\ list' = list /\ keys' = keys /\ query' = query
           /\ manner' = manner /\ counts' = counts
           /\ gone' = {} => /\ RangeOf(begun') \subseteq RangeOf(list)
                            /\ Len(begun') <= Len(list)
                            /\ shown' \subseteq RangeOf(list)
           /\ manner # "first_page_only" => came' <= Sent + Served
<1>1. /\ shown' = After /\ came' = Came /\ walk' = at
      /\ \/ begun' = list /\ gone' = {}
         \/ begun' = begun /\ gone' = gone
      /\ pages > 0 => begun' = begun /\ gone' = gone
      /\ list' = list /\ keys' = keys /\ query' = query
      /\ manner' = manner /\ counts' = counts
  BY DEF PageComes, Since, others, platform, Inv, TypeOK
<1>2. /\ PageRows \subseteq RangeOf(list) /\ RangeOf(list) \subseteq Rows
      /\ PageLen \in Nat /\ PageLen <= Served
      /\ Sent \in Nat /\ Served \in Nat /\ Len(list) \in Nat /\ list \in Seq(Rows)
  BY PageOfTheList DEF Inv
<1>3. /\ shown \subseteq Rows /\ came \in Nat /\ gone \subseteq Rows
      /\ begun \in Seq(Rows) /\ pages \in Nat
  BY DEF Inv, TypeOK
<1>4. shown' \subseteq Rows
  BY <1>1, <1>2, <1>3 DEF After, Before
<1>5. came' \in Nat
  BY <1>1, <1>2, <1>3 DEF Came
<1>6. begun' \in Seq(Rows) /\ gone' \subseteq Rows
  BY <1>1, <1>2, <1>3
<1>7. ASSUME gone' = {}
      PROVE  /\ RangeOf(begun') \subseteq RangeOf(list) /\ Len(begun') <= Len(list)
             /\ shown' \subseteq RangeOf(list)
  BY <1>1, <1>2, <1>3, <1>7 DEF Inv, Kept, After, Before
<1>8. ASSUME manner # "first_page_only"
      PROVE  came' <= Sent + Served
  <2>1. CASE pages = 0
    BY <1>1, <1>2, <2>1 DEF Came
  <2>2. CASE pages > 0
    BY <1>1, <1>2, <1>3, <1>8, <2>2 DEF Came, Inv, Reached
  <2>3. QED
    BY <1>3, <2>1, <2>2
<1>9. QED
  BY <1>1, <1>4, <1>5, <1>6, <1>7, <1>8

\* The page carries the cover of the list on by the rows that are served.
LEMMA PageCovers ==
    ASSUME Inv, PageComes, gone' = {}, manner # "first_page_only",
           NEW k \in 1..Len(list), k <= Sent + Served
    PROVE  list[k] \in shown' \/ list[k] \notin RangeOf(begun')
<1>1. /\ shown' = After
      /\ pages > 0 => begun' = begun /\ gone' = gone
  BY DEF PageComes, Inv, TypeOK
<1>2. /\ Len(list) \in Nat /\ Served \in Nat /\ Sent \in Nat /\ First = Sent + 1
      /\ Last = Upto(First + Served - 1)
  BY PageOfTheList DEF Inv
<1>3. pages \in Nat /\ (pages = 0 => Sent = 0)
  BY <1>2 DEF Inv, TypeOK, Sent, Served
<1>4. CASE k <= Sent
  BY <1>1, <1>2, <1>3, <1>4 DEF Inv, Covered, After, Before
<1>5. CASE k > Sent
  <2>1. k \in First..Last
    BY <1>2, <1>5 DEF Upto
  <2>2. list[k] \in PageRows
    BY <2>1 DEF PageRows
  <2>3. QED
    BY <1>1, <2>2 DEF After
<1>6. QED
  BY <1>2, <1>4, <1>5

\* While nobody changes the list the rows that came are a beginning of it.
LEMMA PageIsExact ==
    ASSUME Inv, PageComes, gone' = {}, list = begun', manner # "first_page_only"
    PROVE  /\ shown' = {list[k] : k \in 1..Upto(Sent + Served)}
           /\ came' = Upto(Sent + Served)
<1>1. /\ shown' = After /\ came' = Came
      /\ pages > 0 => begun' = begun /\ gone' = gone
  BY DEF PageComes, Inv, TypeOK
<1>2. /\ Len(list) \in Nat /\ Served \in Nat /\ Served >= 1 /\ Sent \in Nat
      /\ First = Sent + 1 /\ Last = Upto(Sent + Served)
  BY PageOfTheList DEF Inv
<1>3. pages \in Nat /\ (pages = 0 => Sent = 0)
  BY <1>2 DEF Inv, TypeOK, Sent, Served
<1>4. Before = {list[k] : k \in 1..Upto(Sent)}
  BY <1>1, <1>2, <1>3 DEF Inv, Exact, Before, Upto
<1>5. PageRows = {list[k] : k \in Sent + 1..Upto(Sent + Served)}
  BY <1>2 DEF PageRows
<1>6. shown' = {list[k] : k \in 1..Upto(Sent + Served)}
  <2>1. 1..Upto(Sent + Served) = 1..Upto(Sent) \union Sent + 1..Upto(Sent + Served)
    BY <1>2 DEF Upto
  <2>2. QED
    BY <1>1, <1>4, <1>5, <2>1 DEF After
<1>7. came' = Upto(Sent + Served)
  <2>1. /\ Upto(Sent) \in Nat /\ Upto(Sent + Served) \in Nat
        /\ Upto(Sent) = IF Sent < Len(list) THEN Sent ELSE Len(list)
    BY <1>2 DEF Upto
  <2>2. PageLen = Upto(Sent + Served) - Upto(Sent)
    <3>1. CASE Sent < Len(list)
      <4>1. Upto(Sent + Served) >= Sent + 1
        BY <1>2, <3>1 DEF Upto
      <4>2. QED
        BY <1>2, <2>1, <3>1, <4>1 DEF PageLen
    <3>2. CASE Sent >= Len(list)
      <4>1. Upto(Sent + Served) = Len(list)
        BY <1>2, <3>2 DEF Upto
      <4>2. QED
        BY <1>2, <2>1, <3>2, <4>1 DEF PageLen
    <3>3. QED
      BY <1>2, <3>1, <3>2
  <2>3. pages = 0 => Upto(Sent) = 0
    BY <1>2, <1>3, <2>1
  <2>4. pages > 0 => came = Upto(Sent)
    BY <1>1, <1>3 DEF Inv, Exact
  <2>5. QED
    BY <1>1, <1>3, <2>1, <2>2, <2>3, <2>4 DEF Came
<1>8. QED
  BY <1>6, <1>7

-----------------------------------------------------------------------------
(* The last page.                                                           *)

\* A walk takes a page for the last one, on a platform it is made for, only
\* where no row of the list is left.
LEMMA LastPageIsTheLast ==
    ASSUME Inv, PageComes, NEW t \in BOOLEAN, TokenMayEnd(t), IsLast(t),
           ~FallsShort, Trusted(Read), gone' = {}
    PROVE  RangeOf(begun') \subseteq shown'
<1> USE DEF Manners
<1>1. /\ shown' = After /\ shown' \subseteq RangeOf(list)
      /\ RangeOf(begun') \subseteq RangeOf(list)
  BY PageKeeps DEF PageComes
<1>2. /\ Len(list) \in Nat /\ list \in Seq(Rows) /\ NoRowTwice(list)
      /\ Served \in Nat /\ Served >= 1 /\ Sent \in Nat /\ PageLen \in Nat
      /\ Last \in Nat /\ First \in Nat
      /\ manner # "first_page_only" => First = Sent + 1 /\ Last = Upto(Sent + Served)
  BY PageOfTheList DEF Inv, Kept
<1>3. Cardinality(After) \in Nat
  BY <1>1, <1>2, RowsAreCounted, FS_Subset, FS_CardinalityType
<1>4. manner \in Manners /\ counts \in BOOLEAN /\ pages \in Nat
  BY DEF Inv, TypeOK
<1>5. ASSUME Cardinality(After) >= Len(list)
      PROVE  RangeOf(list) \subseteq shown'
  BY <1>1, <1>2, <1>5, AllWhenAsMany
<1>6. CASE Read.compares /\ counts
  BY <1>1, <1>2, <1>3, <1>5, <1>6 DEF FallsShort
<1>7. CASE ~(Read.compares /\ counts)
  <2>1. /\ manner # "first_page_only" /\ "nothing_new" \notin Read.ends
        /\ "uncounted" \in Read.ends => counts
        /\ manner = "fewer_rows" => counts /\ ~Read.asked /\ "short" \notin Read.ends
    BY <1>4, <1>7 DEF Trusted
  <2>2. First = Sent + 1 /\ Last = Upto(Sent + Served)
    BY <1>2, <2>1
  <2>3. manner = "as_asked" => Served = Size
    BY DEF Served
  <2>4. SUFFICES Sent + Served >= Len(list) \/ Cardinality(After) >= Len(list)
    <3>1. CASE Cardinality(After) >= Len(list)
      BY <1>1, <1>5, <3>1
    <3>2. CASE Sent + Served >= Len(list)
      <4>1. ASSUME NEW k \in 1..Len(list), list[k] \in RangeOf(begun')
            PROVE  list[k] \in shown'
        BY <1>2, <2>1, <3>2, <4>1, PageCovers
      <4>2. QED
        BY <1>1, <4>1 DEF RangeOf
    <3>3. QED
      BY <2>4, <3>1, <3>2
  <2>5. CASE PageLen = 0 \/ (PageLen < Size /\ manner = "as_asked")
    BY <1>2, <2>2, <2>3, <2>5 DEF PageLen, Upto
  <2>6. CASE t
    BY <1>2, <2>1, <2>2, <2>6 DEF TokenMayEnd, Upto
  <2>7. CASE SoFar >= Len(list)
    <3>1. CASE Read.asked
      <4>1. manner = "as_asked" /\ SoFar = Sent + PageLen
        BY <1>4, <2>1, <3>1 DEF SoFar, Sent, Served
      <4>2. QED
        BY <1>2, <2>2, <2>7, <4>1 DEF PageLen, Upto
    <3>2. CASE ~Read.asked /\ Read.distinct
      BY <2>7, <3>2 DEF SoFar
    <3>3. CASE ~Read.asked /\ ~Read.distinct
      <4>1. SoFar = came' /\ came' \in Nat /\ came' <= Sent + Served
        BY <2>1, <3>3, PageKeeps DEF SoFar, PageComes
      <4>2. QED
        BY <1>2, <2>7, <4>1
    <3>4. QED
      BY <3>1, <3>2, <3>3
  <2>8. QED
    BY <1>4, <2>1, <2>5, <2>6, <2>7
       DEF IsLast, EndsEmpty, EndsShort, ShortOfTotal, TotalReached, Uncounted, NothingNew,
           NoNextToken
<1>8. QED
  BY <1>6, <1>7

-----------------------------------------------------------------------------
(* The answer.                                                              *)

\* The next read is one of the query.
LEMMA WayIsTyped ==
    ASSUME TypeOK, NEW note \in BOOLEAN, NEW k \in {at + 1, at + 2}, GoTo(k, note)
    PROVE  at' \in 1..Len(query) /\ remark' \in BOOLEAN /\ verdict' \in Verdicts
<1>1. at \in 1..Len(query) /\ Len(query) \in Nat
  BY ReadIsTyped
<1>2. remark \in BOOLEAN
  BY DEF TypeOK
<1>3. at' \in 1..Len(query)
  <2>1. (k <= Len(query) /\ at' = k) \/ at' = at
    BY Zenon DEF GoTo
  <2>2. QED
    BY <1>1, <2>1
<1>4. verdict' \in Verdicts
  <2>1. verdict' = "none" \/ verdict' = "answer"
    BY Zenon DEF GoTo
  <2>2. QED
    BY <2>1 DEF Verdicts
<1>5. remark' \in {remark \/ note, TRUE}
  BY Zenon DEF GoTo
<1>6. (remark \/ note) \in BOOLEAN
  OBVIOUS
<1>7. remark' \in BOOLEAN
  BY <1>5, <1>6
<1>8. QED
  BY <1>3, <1>4, <1>7

\* Whatever a step says, it is on a read of the query, or has an answer.
LEMMA AnswerIsTyped ==
    ASSUME TypeOK, NEW note \in BOOLEAN, NEW rows,
           \/ GoTo(at + 1, note) \/ GoTo(at + 2, note) \/ GoesOn(rows, note) \/ Found(note)
           \/ \E v \in Verdicts : Said(v)
    PROVE  at' \in 1..Len(query) /\ remark' \in BOOLEAN /\ verdict' \in Verdicts
<1>1. at \in 1..Len(query) /\ remark \in BOOLEAN
  BY DEF TypeOK
<1>2. Read.absent \in Absences
  BY ReadIsTyped DEF ReadsOf
<1>3. ASSUME NEW v \in Verdicts, Said(v)
      PROVE  at' \in 1..Len(query) /\ remark' \in BOOLEAN /\ verdict' \in Verdicts
  BY <1>1, <1>3 DEF Said
<1>4. Found(note) => GoTo(at + 1, note) \/ GoTo(at + 2, note)
  BY DEF Found
<1>5. NotFound(note) => Said("no_such") \/ GoTo(at + 1, note) \/ GoTo(at + 1, TRUE)
  BY <1>2 DEF NotFound, Absences
<1>6. GoesOn(rows, note) => GoTo(at + 1, note) \/ Found(note) \/ NotFound(note)
  BY DEF GoesOn
<1>7. "no_such" \in Verdicts
  BY DEF Verdicts
<1>8. QED
  BY <1>3, <1>4, <1>5, <1>6, <1>7, WayIsTyped

\* What an answer misses is told by the weights of the reads.
LEMMA MissingIsTyped ==
    ASSUME TypeOK, NEW gap
    PROVE  Missing(gap) \subseteq Weights
<1>1. owed \subseteq Weights /\ Read.weight \in Weights
  BY ReadIsTyped DEF TypeOK, ReadsOf
<1>2. QED
  BY <1>1 DEF Missing

\* A page that ends the walk leaves the rest of the state in place.
LEMMA WalkEndIsTyped ==
    ASSUME Inv, PageComes, NEW how \in Endings, WalkEnds(how) \/ WalkStops(how),
           at' \in 1..Len(query), remark' \in BOOLEAN, verdict' \in Verdicts
    PROVE  Inv'
<1>0. owed' \subseteq Weights
  BY MissingIsTyped DEF Inv, TypeOK, WalkEnds, WalkStops
<1>1. TypeOK'
  BY <1>0, PageKeeps, ReadIsTyped
     DEF Inv, TypeOK, WalkEnds, WalkStops, PageComes, others, platform
<1>2. pages' = 0
  BY DEF WalkEnds, WalkStops
<1>3. Reached' /\ Covered' /\ Exact'
  BY <1>2 DEF Reached, Covered, Exact
<1>4. Kept'
  <2>1. NoRowTwice(list)'
    BY PageKeeps DEF Inv, Kept
  <2>2. gone' = {} => RangeOf(begun)' \subseteq RangeOf(list)' /\ Len(begun)' <= Len(list)'
    BY PageKeeps DEF RangeOf
  <2>3. QED
    BY <1>2, <2>1, <2>2 DEF Kept
<1>5. QED
  BY <1>1, <1>3, <1>4 DEF Inv

-----------------------------------------------------------------------------
(* The invariant.                                                           *)

\* What the steps that read no page leave of it.
LEMMA NoPageNoHarm ==
    ASSUME Inv, verdict' \in Verdicts, remark' \in BOOLEAN, at' \in 1..Len(query),
           platform' = platform, others' = others, walk' \in 1..Len(query),
           ended' \in Endings, owed' \subseteq Weights, shown' \subseteq Rows, came' \in Nat,
           pages' = 0,
           (begun' = begun /\ gone' = gone) \/ (begun' = list /\ gone' = {})
    PROVE  Inv'
<1>1. Len(list) \in Nat /\ list \in Seq(Rows) /\ list' = list
  BY PageOfTheList DEF Inv, others
<1>2. TypeOK'
  BY <1>1 DEF Inv, TypeOK, platform, others
<1>3. Reached' /\ Covered' /\ Exact'
  BY DEF Reached, Covered, Exact
<1>4. Kept'
  <2>1. NoRowTwice(list)'
    BY <1>1 DEF Inv, Kept
  <2>2. gone' = {} => RangeOf(begun)' \subseteq RangeOf(list)' /\ Len(begun)' <= Len(list)'
    BY <1>1 DEF Inv, Kept, RangeOf
  <2>3. QED
    BY <2>1, <2>2 DEF Kept
<1>5. QED
  BY <1>2, <1>3, <1>4 DEF Inv

\* Nor do the steps that end a walk with a page.
LEMMA ClosingPage ==
    ASSUME Inv, MatchingPage \/ LastPage \/ OpenPage \/ StopsShort
    PROVE  Inv'
<1>1. FallsShort \in BOOLEAN
  BY DEF FallsShort
<1>2. CASE MatchingPage
  <2>1. at' \in 1..Len(query) /\ remark' \in BOOLEAN /\ verdict' \in Verdicts
    BY <1>2, AnswerIsTyped DEF MatchingPage, Inv
  <2>2. QED
    BY <1>2, <2>1, WalkEndIsTyped DEF MatchingPage, Endings
<1>3. CASE LastPage
  <2>1. at' \in 1..Len(query) /\ remark' \in BOOLEAN /\ verdict' \in Verdicts
    BY <1>1, <1>3, AnswerIsTyped DEF LastPage, Inv
  <2>2. QED
    BY <1>1, <1>3, <2>1, WalkEndIsTyped DEF LastPage, Endings
<1>4. CASE OpenPage
  <2>1. at' \in 1..Len(query) /\ remark' \in BOOLEAN /\ verdict' \in Verdicts
    BY <1>4, AnswerIsTyped DEF OpenPage, Inv
  <2>2. QED
    BY <1>4, <2>1, WalkEndIsTyped DEF OpenPage, Endings
<1>5. CASE StopsShort
  <2>1. "error" \in Verdicts
    BY DEF Verdicts
  <2>2. at' \in 1..Len(query) /\ remark' \in BOOLEAN /\ verdict' \in Verdicts
    BY <1>5, <2>1, AnswerIsTyped DEF StopsShort, Inv
  <2>3. QED
    BY <1>5, <2>2, WalkEndIsTyped DEF StopsShort, Endings
<1>6. QED
  BY <1>2, <1>3, <1>4, <1>5

\* A page that is not the last one takes the walk on by what is served.
LEMMA AnotherPage ==
    ASSUME Inv, NextPage
    PROVE  Inv'
<1>1. /\ PageComes /\ pages' = pages + 1 /\ pages + 1 < MaxPages
      /\ ended' = "open" /\ owed' = owed /\ UNCHANGED caller
  BY DEF NextPage, MayAsk
<1>2. pages \in Nat
  BY DEF Inv, TypeOK
<1>3. /\ Served \in Nat /\ Sent \in Nat /\ Served' = Served
  BY <1>1, PageOfTheList, PageKeeps DEF Inv, Served
<1>4. Sent' = Sent + Served
  BY <1>1, <1>2, <1>3 DEF Sent
<1>5. TypeOK'
  BY <1>1, <1>2, PageKeeps, ReadIsTyped
     DEF Inv, TypeOK, PageComes, others, platform, caller, Endings
<1>6. Reached'
  BY <1>1, <1>4, PageKeeps DEF Reached
<1>7. Kept'
  <2>1. NoRowTwice(list)'
    BY <1>1, PageKeeps DEF Inv, Kept
  <2>2. gone' = {} => /\ RangeOf(begun)' \subseteq RangeOf(list)' /\ Len(begun)' <= Len(list)'
                      /\ shown' \subseteq RangeOf(list)'
    BY <1>1, PageKeeps DEF RangeOf
  <2>3. QED
    BY <2>1, <2>2 DEF Kept
<1>8. Covered'
  <2> SUFFICES ASSUME gone' = {}, manner # "first_page_only",
                      NEW k \in 1..Len(list), k <= Sent + Served
               PROVE  list[k] \in shown' \/ list[k] \notin RangeOf(begun')
    BY <1>1, <1>4, PageKeeps DEF Covered, RangeOf
  <2> QED
    BY <1>1, PageCovers
<1>9. Exact'
  <2> SUFFICES ASSUME gone' = {}, list = begun', manner # "first_page_only"
               PROVE  /\ shown' = {list[k] : k \in 1..Upto(Sent + Served)}
                      /\ came' = Upto(Sent + Served)
    BY <1>1, <1>4, PageKeeps DEF Exact, Upto
  <2> QED
    BY <1>1, PageIsExact
<1>10. QED
  BY <1>5, <1>6, <1>7, <1>8, <1>9 DEF Inv

\* The requests that are answered at once, or fail.
LEMMA OneRequest ==
    ASSUME Inv, ArgumentsRefused \/ AnswerOne \/ ReadFails
    PROVE  Inv'
<1>1. TypeOK
  BY DEF Inv
<1>2. /\ at \in 1..Len(query) /\ walk \in 1..Len(query) /\ ended \in Endings
      /\ owed \subseteq Weights /\ shown \subseteq Rows /\ came \in Nat
  BY <1>1 DEF TypeOK
<1>3. CASE ArgumentsRefused
  <2>1. /\ Said("refused") /\ "refused" \in Verdicts
        /\ pages' = 0 /\ walk' = walk /\ ended' = ended /\ owed' = owed
        /\ shown' = shown /\ came' = came /\ begun' = begun /\ gone' = gone
        /\ platform' = platform /\ others' = others
    BY <1>3 DEF ArgumentsRefused, Verdicts, walked
  <2>2. at' \in 1..Len(query) /\ remark' \in BOOLEAN /\ verdict' \in Verdicts
    BY <1>1, <2>1, AnswerIsTyped
  <2>3. QED
    BY <1>2, <2>1, <2>2, NoPageNoHarm
<1>4. CASE AnswerOne
  <2>1. /\ GoesOn(RangeOf(list), FALSE) /\ pages' = 0 /\ shown' = {} /\ came' = 0
        /\ walk' = at /\ ended' = "one" /\ owed' = owed
        /\ \/ begun' = list /\ gone' = {}
           \/ begun' = begun /\ gone' = gone
        /\ platform' = platform /\ others' = others
    BY <1>4 DEF AnswerOne, Since
  <2>2. at' \in 1..Len(query) /\ remark' \in BOOLEAN /\ verdict' \in Verdicts
    BY <1>1, <2>1, AnswerIsTyped
  <2>3. "one" \in Endings
    BY DEF Endings
  <2>4. QED
    BY <1>2, <2>1, <2>2, <2>3, NoPageNoHarm
<1>5. CASE ReadFails
  <2>1. /\ pages' = 0 /\ shown' = {} /\ came' = 0
        /\ walk' = at /\ ended' = "failed" /\ begun' = begun /\ gone' = gone
        /\ platform' = platform /\ others' = others
    BY <1>5 DEF ReadFails
  <2>2. owed' \subseteq Weights
    BY <1>1, <1>5, MissingIsTyped DEF ReadFails
  <2>3. Said("error") \/ GoTo(at + 1, TRUE) \/ GoTo(at + 1, FALSE)
    BY <1>5 DEF ReadFails
  <2>4. "error" \in Verdicts /\ "failed" \in Endings
    BY DEF Verdicts, Endings
  <2>5. at' \in 1..Len(query) /\ remark' \in BOOLEAN /\ verdict' \in Verdicts
    BY <1>1, <2>3, <2>4, AnswerIsTyped
  <2>6. QED
    BY <1>2, <2>1, <2>2, <2>4, <2>5, NoPageNoHarm
<1>6. QED
  BY <1>3, <1>4, <1>5

\* Others add a row: at the place it takes and before it nothing of the old
\* list is lost, and behind it everything moves away from the walk.
LEMMA OthersAddARow ==
    ASSUME Inv, OthersAdd
    PROVE  Inv'
<1>1. PICK p \in 1..Len(list) + 1, r \in Rows \ RangeOf(list) : list' = Inserted(p, r)
  BY DEF OthersAdd
<1>2. /\ gone' = gone /\ foreign' = foreign + 1 /\ foreign < MaxForeign /\ keys' = keys
      /\ UNCHANGED <<caller, walked, begun, platform>>
  BY DEF OthersAdd, Foreign
<1>3. Len(list) \in Nat /\ list \in Seq(Rows) /\ Sent \in Nat /\ Sent' = Sent
  BY <1>2, PageOfTheList DEF Inv, Sent, Served, walked, platform
<1>4. /\ list' \in Seq(Rows) /\ Len(list') = Len(list) + 1
      /\ \A k \in 1..Len(list) + 1 :
           list'[k] = IF k < p THEN list[k] ELSE IF k = p THEN r ELSE list[k - 1]
      /\ RangeOf(list) \subseteq RangeOf(list') /\ NoRowTwice(list')
  BY <1>1, <1>3, InsertionInserts DEF Inv, Kept
<1>5. TypeOK'
  BY <1>2, <1>4 DEF Inv, TypeOK, caller, walked, platform
<1>6. Reached'
  BY <1>2, <1>3 DEF Inv, Reached, walked, platform
<1>7. Kept'
  <2>1. gone = {} => RangeOf(begun) \subseteq RangeOf(list') /\ Len(begun) <= Len(list')
    <3>1. Len(begun) \in Nat
      BY LenProperties DEF Inv, TypeOK
    <3>2. QED
      BY <1>3, <1>4, <3>1 DEF Inv, Kept
  <2>2. pages > 0 /\ gone = {} => shown \subseteq RangeOf(list')
    BY <1>4 DEF Inv, Kept
  <2>3. QED
    BY <1>2, <1>4, <2>1, <2>2 DEF Kept, walked, NoRowTwice, RangeOf
<1>8. Covered'
  <2> SUFFICES ASSUME pages > 0, gone = {}, manner # "first_page_only",
                      NEW k \in 1..Len(list) + 1, k <= Sent
               PROVE  list'[k] \in shown \/ list'[k] \notin RangeOf(begun)
    BY <1>2, <1>3, <1>4 DEF Covered, RangeOf, walked, platform
  <2>1. \A i \in 1..Len(list) :
            i <= Sent => list[i] \in shown \/ list[i] \notin RangeOf(begun)
    BY DEF Inv, Covered
  <2>2. CASE k < p
    BY <1>3, <1>4, <2>1, <2>2
  <2>3. CASE k = p
    BY <1>4, <2>3 DEF Inv, Kept
  <2>4. CASE k > p
    BY <1>3, <1>4, <2>1, <2>4
  <2>5. QED
    BY <1>3, <2>2, <2>3, <2>4
<1>9. Exact'
  <2>1. gone = {} => list' # begun
    BY <1>3, <1>4 DEF Inv, Kept
  <2>2. QED
    BY <1>2, <2>1 DEF Exact
<1>10. QED
  BY <1>5, <1>6, <1>7, <1>8, <1>9 DEF Inv

\* Others take a row: from then on nothing is said of the walk.
LEMMA OthersRemoveARow ==
    ASSUME Inv, OthersRemove
    PROVE  Inv'
<1>1. PICK p \in 1..Len(list) : list' = Without(p) /\ gone' = gone \union {list[p]}
  BY DEF OthersRemove
<1>2. /\ foreign' = foreign + 1 /\ foreign < MaxForeign /\ keys' = keys
      /\ UNCHANGED <<caller, walked, begun, platform>>
  BY DEF OthersRemove, Foreign
<1>3. /\ list' \in Seq(Rows) /\ NoRowTwice(list')
      /\ list[p] \in Rows /\ gone' # {}
  BY <1>1, RemovalRemoves, ElementOfSeq DEF Inv, TypeOK, Kept
<1>4. TypeOK'
  BY <1>1, <1>2, <1>3 DEF Inv, TypeOK, caller, walked, platform
<1>5. Reached'
  BY <1>2 DEF Inv, Reached, Sent, Served, walked, platform
<1>6. Kept' /\ Covered' /\ Exact'
  BY <1>3 DEF Kept, Covered, Exact, NoRowTwice
<1>7. QED
  BY <1>4, <1>5, <1>6 DEF Inv

\* Nor does it matter to a walk by which key the thing is found.
LEMMA OthersKeyTheRow ==
    ASSUME Inv, OthersRekey
    PROVE  Inv'
<1>1. /\ foreign' = foreign + 1 /\ foreign < MaxForeign
      /\ keys' \in Keyings(query) /\ list' = list
      /\ gone' = gone \union (IF keys \subseteq keys' THEN {} ELSE {Wanted})
      /\ UNCHANGED <<caller, walked, begun, platform>>
  BY DEF OthersRekey, Foreign
<1>2. gone' \subseteq Rows /\ (gone' = {} => gone = {})
  BY <1>1, ListsAssumption DEF Inv, TypeOK
<1>3. TypeOK'
  BY <1>1, <1>2 DEF Inv, TypeOK, caller, walked, platform
<1>4. Reached' /\ Kept' /\ Covered' /\ Exact'
  <2>1. /\ pages' = pages /\ shown' = shown /\ came' = came /\ begun' = begun
        /\ manner' = manner /\ Sent' = Sent
    BY <1>1 DEF walked, platform, Sent, Served
  <2>2. Reached'
    BY <2>1 DEF Inv, Reached
  <2>3. Kept'
    BY <1>1, <1>2, <2>1 DEF Inv, Kept, NoRowTwice, RangeOf
  <2>4. Covered'
    BY <1>1, <1>2, <2>1 DEF Inv, Covered, RangeOf
  <2>5. Exact'
    BY <1>1, <1>2, <2>1 DEF Inv, Exact, Upto
  <2>6. QED
    BY <2>2, <2>3, <2>4, <2>5
<1>5. QED
  BY <1>3, <1>4 DEF Inv

\* The invariant holds at the start, and every step keeps it.
THEOREM Invariance == Spec => []Inv
<1>1. ASSUME Init
      PROVE  Inv
  <2>1. /\ query \in Queries /\ Len(query) \in Nat /\ 1 \in 1..Len(query)
    BY <1>1, QueriesAssumption, LenProperties DEF Init, WellBuilt, TypedReads
  <2>2. list \in Seq(Rows) /\ NoRowTwice(list) /\ Len(list) \in Nat
    BY <1>1, ListsAssumption, LenProperties DEF Init
  <2>3. /\ at = 1 /\ walk = 1 /\ pages = 0 /\ came = 0 /\ shown = {} /\ gone = {}
        /\ begun = list /\ foreign = 0 /\ manner \in Manners /\ counts \in BOOLEAN
        /\ ended = "open" /\ verdict = "none" /\ keys \in Keyings(query)
    BY <1>1 DEF Init
  <2>4. owed \subseteq Weights /\ remark \in BOOLEAN
    BY <1>1 DEF Init
  <2>5. TypeOK
    BY <2>1, <2>2, <2>3, <2>4 DEF TypeOK, Endings, Verdicts
  <2>6. QED
    BY <2>2, <2>3, <2>5 DEF Inv, Reached, Kept, Covered, Exact
<1>2. ASSUME Inv, [Next]_vars
      PROVE  Inv'
  <2>1. CASE ArgumentsRefused \/ AnswerOne \/ ReadFails
    BY <1>2, <2>1, OneRequest
  <2>2. CASE MatchingPage \/ LastPage \/ OpenPage \/ StopsShort
    BY <1>2, <2>2, ClosingPage
  <2>3. CASE NextPage
    BY <1>2, <2>3, AnotherPage
  <2>4. CASE OthersAdd
    BY <1>2, <2>4, OthersAddARow
  <2>5. CASE OthersRemove
    BY <1>2, <2>5, OthersRemoveARow
  <2>8. CASE OthersRekey
    BY <1>2, <2>8, OthersKeyTheRow
  <2>6. CASE UNCHANGED vars
    <3>1. /\ UNCHANGED <<query, at, pages, shown, came, walk, ended, owed, remark>>
          /\ UNCHANGED <<verdict, list, keys, begun, gone, foreign, manner, counts>>
      BY <2>6 DEF vars, caller, walked, others, platform
    <3>2. TypeOK'
      BY <1>2, <3>1 DEF Inv, TypeOK
    <3>3. Sent' = Sent
      BY <3>1 DEF Sent, Served
    <3>4. Reached' /\ Kept' /\ Covered'
      BY <1>2, <3>1, <3>3 DEF Inv, Reached, Kept, Covered, RangeOf, NoRowTwice
    <3>5. Exact'
      BY <1>2, <3>1, <3>3 DEF Inv, Exact, Upto
    <3>6. QED
      BY <3>2, <3>4, <3>5 DEF Inv
  <2>7. QED
    BY <1>2, <2>1, <2>2, <2>3, <2>4, <2>5, <2>6, <2>8 DEF Next, Answering
<1>3. QED
  BY <1>1, <1>2, PTL DEF Spec

\* Every state has its types: the answer, the read that is next and the pages
\* had so far stay within the query and the cap on pages (the loops of the
\* tools and formatting.finalize).
THEOREM TypeCorrect == Spec => []TypeOK
<1>1. Inv => TypeOK
  BY DEF Inv
<1>2. QED
  BY <1>1, Invariance, PTL

-----------------------------------------------------------------------------
(* Lists that are given as whole.                                           *)

\* The last page leaves nothing out that was there when the walk began.
LEMMA WholeIsWhole ==
    ASSUME Inv, LastPage, ended' = "whole", gone' = {}, Trusted(query[walk])'
    PROVE  RangeOf(begun') \subseteq shown'
<1>1. PageComes /\ ~FallsShort
  BY DEF LastPage, WalkEnds
<1>2. PICK t \in BOOLEAN : TokenMayEnd(t) /\ IsLast(t)
  BY DEF LastPage
<1>3. Trusted(Read)
  BY <1>1, PageKeeps DEF Trusted, Read
<1>4. QED
  BY <1>1, <1>2, <1>3, LastPageIsTheLast

\* Only the last page makes a list whole.
LEMMA OthersEndOtherwise ==
    ASSUME Inv, AnswerOne \/ ReadFails \/ MatchingPage \/ OpenPage \/ NextPage \/ StopsShort
    PROVE  ended' # "whole"
BY DEF AnswerOne, ReadFails, MatchingPage, OpenPage, NextPage, StopsShort, WalkEnds, WalkStops

\* A list given as whole holds every row that was there when its walk began,
\* whatever others add meanwhile (perf_rows, device_names_for,
\* fetch_deployment and the lists a caller pages through).
THEOREM WalksAreComplete == Spec => []NothingMissed
<1>1. Init => NothingMissed
  BY DEF Init, NothingMissed
<1>2. ASSUME Inv, NothingMissed, [Next]_vars
      PROVE  NothingMissed'
  <2> SUFFICES ASSUME ended' = "whole", gone' = {}, Trusted(query[walk])'
               PROVE  RangeOf(begun)' \subseteq shown'
    BY DEF NothingMissed
  <2>1. CASE LastPage
    BY <1>2, <2>1, WholeIsWhole DEF RangeOf
  <2>2. CASE \/ ArgumentsRefused \/ OthersAdd \/ OthersRekey \/ UNCHANGED vars
    <3>1. /\ UNCHANGED <<ended, shown, begun, query, walk, manner, counts>>
          /\ gone' = {} => gone = {}
      BY <2>2 DEF ArgumentsRefused, OthersAdd, OthersRekey, Foreign, vars, walked, platform
    <3>2. QED
      BY <1>2, <3>1 DEF NothingMissed, RangeOf, Trusted
  <2>3. CASE OthersRemove
    BY <2>3 DEF OthersRemove
  <2>4. QED
    BY <1>2, <2>1, <2>2, <2>3, OthersEndOtherwise DEF Next, Answering
<1>3. QED
  BY <1>1, <1>2, Invariance, PTL DEF Spec

\* Where nothing changed it is the list itself, each row once (First and Last
\* of a page: the offsets the tools send).
THEOREM WalksAreExact == Spec => []AsItStands
<1>1. Init => AsItStands
  BY DEF Init, AsItStands
<1>2. ASSUME Inv, AsItStands, [Next]_vars
      PROVE  AsItStands'
  <2> SUFFICES ASSUME ended' = "whole", gone' = {}, list' = begun',
                      Trusted(query[walk])', manner' # "first_page_only"
               PROVE  shown' = RangeOf(list)' /\ came' = Len(list)'
    BY DEF AsItStands
  <2>1. CASE LastPage
    <3>1. PageComes /\ list' = list /\ manner' = manner
      BY <1>2, <2>1, PageKeeps DEF LastPage
    <3>2. /\ shown' = {list[k] : k \in 1..Upto(Sent + Served)}
          /\ came' = Upto(Sent + Served)
      BY <1>2, <3>1, PageIsExact
    <3>3. RangeOf(list) \subseteq shown'
      BY <1>2, <2>1, <3>1, WholeIsWhole
    <3>4. /\ Len(list) \in Nat /\ Sent \in Nat /\ Served \in Nat
          /\ \A j, k \in 1..Len(list) : list[j] = list[k] => j = k
      BY <1>2, PageOfTheList DEF Inv, Kept, NoRowTwice
    <3>5. Upto(Sent + Served) = Len(list)
      <4> SUFFICES ASSUME Sent + Served < Len(list)
                   PROVE  FALSE
        BY <3>4 DEF Upto
      <4>1. Len(list) \in 1..Len(list) /\ Upto(Sent + Served) = Sent + Served
        BY <3>4 DEF Upto
      <4>2. list[Len(list)] \in shown'
        BY <3>3, <4>1 DEF RangeOf
      <4>3. PICK k \in 1..(Sent + Served) : list[k] = list[Len(list)]
        BY <3>2, <4>1, <4>2
      <4>4. QED
        BY <3>4, <4>1, <4>3
    <3>6. QED
      BY <3>1, <3>2, <3>5 DEF RangeOf
  <2>2. CASE ArgumentsRefused \/ OthersRekey \/ UNCHANGED vars
    <3>1. /\ UNCHANGED <<ended, shown, came, list, begun, query, walk, manner, counts>>
          /\ gone' = {} => gone = {}
      BY <2>2
         DEF ArgumentsRefused, OthersRekey, Foreign, vars, walked, others, platform
    <3>2. QED
      BY <1>2, <3>1 DEF AsItStands, RangeOf, Trusted
  <2>3. CASE OthersAdd
    <3>1. PICK p \in 1..Len(list) + 1, r \in Rows \ RangeOf(list) : list' = Inserted(p, r)
      BY <2>3 DEF OthersAdd
    <3>2. begun' = begun /\ gone = {} /\ Len(list') = Len(list) + 1
      BY <1>2, <2>3, <3>1, InsertionInserts DEF Inv, TypeOK, OthersAdd, Foreign
    <3>3. Len(begun) <= Len(list) /\ Len(list) \in Nat
      BY <1>2, <3>2, PageOfTheList DEF Inv, Kept
    <3>4. QED
      BY <3>2, <3>3
  <2>4. CASE OthersRemove
    BY <2>4 DEF OthersRemove
  <2>5. QED
    BY <1>2, <2>1, <2>2, <2>3, <2>4, OthersEndOtherwise DEF Next, Answering
<1>3. QED
  BY <1>1, <1>2, Invariance, PTL DEF Spec

-----------------------------------------------------------------------------
(* Things that are not there.                                               *)

\* A step is on its way, or says something at once.
LEMMA WayHasNoSuch ==
    ASSUME NEW k, NEW word, GoTo(k, word)
    PROVE  verdict' # "no_such"
<1>1. verdict' = "none" \/ verdict' = "answer"
  BY Zenon DEF GoTo
<1>2. QED
  BY <1>1

\* "No such ..." is said of what was looked for and is not found.
LEMMA NoSuchIsSaidOf ==
    ASSUME TypeOK, NEW rows, NEW note, GoesOn(rows, note), verdict' = "no_such"
    PROVE  Read.seeks # "nothing" /\ Read.absent = "no_such" /\ ~Finds(rows)
<1>1. ~Found(note)
  BY WayHasNoSuch DEF Found
<1>2. Read.seeks # "nothing" /\ NotFound(note) /\ ~Finds(rows)
  BY <1>1, WayHasNoSuch DEF GoesOn
<1>3. Read.absent = "no_such"
  <2>1. Read.absent \in Absences
    BY ReadIsTyped DEF ReadsOf
  <2>2. QED
    BY <1>2, <2>1, WayHasNoSuch DEF NotFound, Absences
<1>4. QED
  BY <1>2, <1>3

\* While the second key of a search is tried, a thing that has been there since
\* the search began is kept under that key: under the first one it would have
\* been found.
SecondKeyIsLeft ==
    SecondTry /\ verdict = "none" /\ gone = {} /\ Wanted \in RangeOf(begun) => 2 \in keys

\* A first try that is not found by leads to the second; it was not made in a
\* resource the second holds as well.
LEMMA FirstTryFails ==
    ASSUME Inv, Answering, FirstTry, ~Wider(query), at' = at + 1,
           Wanted \in RangeOf(begun')
    PROVE  2 \in keys
<1>1. /\ at \in 1..Len(query) /\ query \in Queries /\ CanEnd(query)
      /\ Len(query) \in Nat /\ keys \in Keyings(query)
  BY ReadIsTyped, QueriesAssumption DEF Inv, TypeOK, WellBuilt
<1>2. Read.kind = "one" /\ Read.fails = "error" /\ Read.seeks # "nothing"
  BY <1>1 DEF Wider, FirstTry, Read, CanEnd
<1>3. ~SecondTry
  <2> SUFFICES ASSUME at > 1, query[at - 1].absent = "next_try"
               PROVE  FALSE
    BY DEF SecondTry
  <2>1. at - 1 \in 1..Len(query) /\ (at - 1) + 1 = at
    BY <1>1
  <2>2. query[at].absent # "next_try"
    BY <1>1, <2>1 DEF CanEnd
  <2>3. QED
    BY <2>2 DEF FirstTry, Read
<1>4. AnswerOne
  <2>1. ~PageComes
    BY <1>2 DEF PageComes
  <2>2. ~ArgumentsRefused /\ ~ReadFails
    BY <1>1, <1>2 DEF ArgumentsRefused, ReadFails, Said
  <2>3. QED
    BY <2>1, <2>2 DEF Answering, MatchingPage, LastPage, OpenPage, NextPage, StopsShort
<1>5. begun' = list /\ GoesOn(RangeOf(list), FALSE)
  BY <1>3, <1>4 DEF AnswerOne, Since
<1>6. ~Found(FALSE)
  <2> SUFFICES ASSUME GoTo(at + 2, FALSE)
               PROVE  FALSE
    BY DEF Found, FirstTry
  <2>1. at' = at + 2 \/ at' = at
    BY Zenon DEF GoTo
  <2>2. QED
    BY <1>1, <2>1
<1>7. ~Finds(RangeOf(list))
  BY <1>2, <1>5, <1>6 DEF GoesOn
<1>8. 1 \notin keys
  BY <1>3, <1>5, <1>7 DEF Finds, RangeOf
<1>9. QED
  BY <1>1, <1>8 DEF Keyings

THEOREM SecondKeyTheorem == Spec => []SecondKeyIsLeft
<1>1. Init => SecondKeyIsLeft
  BY DEF Init, SecondKeyIsLeft, SecondTry
<1>2. ASSUME Inv, Inv', SecondKeyIsLeft, [Next]_vars
      PROVE  SecondKeyIsLeft'
  <2> SUFFICES ASSUME SecondTry', verdict' = "none", gone' = {},
                      Wanted \in RangeOf(begun')
               PROVE  2 \in keys'
    BY DEF SecondKeyIsLeft, RangeOf
  <2>1. /\ query' = query /\ at \in 1..Len(query) /\ Len(query) \in Nat
        /\ CanEnd(query) /\ keys' \in Keyings(query)
    <3>1. query' = query
      BY <1>2 DEF Next, Answering, ArgumentsRefused, AnswerOne, ReadFails, MatchingPage,
                  LastPage, OpenPage, NextPage, StopsShort, PageComes, OthersAdd,
                  OthersRemove, OthersRekey, Foreign, vars, platform
    <3>2. QED
      BY <1>2, <3>1, ReadIsTyped, QueriesAssumption DEF Inv, TypeOK, WellBuilt
  <2>2. CASE Wider(query)
    BY <2>1, <2>2 DEF Keyings
  <2>3. CASE OthersAdd \/ OthersRemove \/ OthersRekey \/ UNCHANGED vars
    <3>1. /\ at' = at /\ verdict' = verdict /\ begun' = begun
          /\ gone = {} /\ keys \subseteq keys'
      <4>1. CASE OthersAdd
        BY <4>1 DEF OthersAdd, Foreign, caller
      <4>2. CASE OthersRemove
        BY <4>2 DEF OthersRemove
      <4>3. CASE OthersRekey
        BY <4>3 DEF OthersRekey, Foreign, caller
      <4>4. CASE UNCHANGED vars
        BY <4>4 DEF vars, caller, others
      <4>5. QED
        BY <2>3, <4>1, <4>2, <4>3, <4>4
    <3>2. SecondTry
      BY <2>1, <3>1 DEF SecondTry
    <3>3. QED
      BY <1>2, <3>1, <3>2 DEF SecondKeyIsLeft
  <2>4. CASE NextPage
    <3>1. at' = at /\ verdict = "none" /\ PageComes
      BY <2>4 DEF NextPage, PageComes, caller
    <3>2. SecondTry
      BY <2>1, <3>1 DEF SecondTry
    <3>3. begun' = begun /\ gone' = gone /\ keys' = keys
      BY <3>1, <3>2 DEF PageComes, Since, others
    <3>4. QED
      BY <1>2, <3>1, <3>2, <3>3 DEF SecondKeyIsLeft
  <2>5. CASE Answering /\ ~NextPage /\ ~Wider(query)
    <3>1. \E note \in BOOLEAN : GoTo(at + 1, note) \/ (FirstTry /\ GoTo(at + 2, note))
      <4>1. ASSUME NEW v \in {"refused", "error", "no_such"}, Said(v)
            PROVE  FALSE
        BY <4>1 DEF Said
      <4>2. ASSUME NEW note \in BOOLEAN, Found(note)
            PROVE  \E word \in BOOLEAN : GoTo(at + 1, word) \/ (FirstTry /\ GoTo(at + 2, word))
        BY <4>2 DEF Found
      <4>3. ASSUME NEW note \in BOOLEAN, NEW rows, GoesOn(rows, note)
            PROVE  \E word \in BOOLEAN : GoTo(at + 1, word) \/ (FirstTry /\ GoTo(at + 2, word))
        <5>1. Read.absent \in Absences
          BY <1>2, ReadIsTyped DEF Inv, ReadsOf
        <5>2. NotFound(note) => GoTo(at + 1, note) \/ GoTo(at + 1, TRUE)
          BY <4>1, <5>1 DEF NotFound, Absences
        <5>3. QED
          BY <4>2, <4>3, <5>2 DEF GoesOn
      <4>4. FallsShort \in BOOLEAN
        BY DEF FallsShort
      <4>5. CASE ArgumentsRefused \/ ReadFails
        BY <4>1, <4>5 DEF ArgumentsRefused, ReadFails
      <4>6. CASE AnswerOne \/ MatchingPage
        BY <4>2, <4>3, <4>6 DEF AnswerOne, MatchingPage
      <4>7. CASE LastPage
        BY <4>3, <4>4, <4>7 DEF LastPage
      <4>8. CASE OpenPage \/ StopsShort
        BY <4>1, <4>3, <4>8 DEF OpenPage, StopsShort
      <4>9. QED
        BY <2>5, <4>5, <4>6, <4>7, <4>8 DEF Answering
    <3>2. at' = at + 1 \/ (FirstTry /\ at' = at + 2 /\ at + 2 <= Len(query))
      <4>1. ASSUME NEW k, NEW note, GoTo(k, note)
            PROVE  at' = k /\ k <= Len(query)
        BY <4>1, Zenon DEF GoTo
      <4>2. QED
        BY <3>1, <4>1
    <3>3. query[at' - 1].absent = "next_try"
      BY <2>1 DEF SecondTry
    <3>4. CASE at' = at + 1
      <4>1. FirstTry
        BY <2>1, <3>3, <3>4 DEF FirstTry, Read
      <4>2. 2 \in keys
        BY <1>2, <2>5, <3>4, <4>1, FirstTryFails
      <4>3. keys' = keys
        BY <2>5 DEF Answering, ArgumentsRefused, AnswerOne, ReadFails, MatchingPage,
                    LastPage, OpenPage, StopsShort, PageComes, others
      <4>4. QED
        BY <4>2, <4>3
    <3>5. CASE FirstTry /\ at' = at + 2 /\ at + 2 <= Len(query)
      <4>1. query[at + 1].absent # "next_try"
        BY <2>1, <3>5 DEF CanEnd, FirstTry, Read
      <4>2. QED
        BY <2>1, <3>3, <3>5, <4>1
    <3>6. QED
      BY <3>2, <3>4, <3>5
  <2>6. QED
    BY <1>2, <2>2, <2>3, <2>4, <2>5 DEF Next
<1>3. QED
  BY <1>1, <1>2, Invariance, PTL DEF Spec

\* "No such ..." is true of the list the search began with, whichever of its
\* two keys the thing is kept under, unless the search stopped at its last page
\* without a word (resolve_alarm, get_policy_keyed, find_provider,
\* resolve_devices, the selectors of every tool).
THEOREM AbsenceIsTrue == Spec => []AbsentIsTrue
<1>1. Init => AbsentIsTrue
  BY DEF Init, AbsentIsTrue
<1>2. ASSUME Inv, NothingMissed', SecondKeyIsLeft, AbsentIsTrue, [Next]_vars
      PROVE  AbsentIsTrue'
  <2> SUFFICES ASSUME verdict' = "no_such", ended' # "capped", gone' = {},
                      (ended = "one" \/ Trusted(query[walk]))'
               PROVE  Wanted \notin RangeOf(begun)'
    BY DEF AbsentIsTrue
  <2>1. TypeOK
    BY <1>2 DEF Inv
  <2>2. CASE ArgumentsRefused
    BY <2>2 DEF ArgumentsRefused, Said
  <2>3. ASSUME NEW rows, Wanted \in rows, ~Finds(rows), Read.absent = "no_such",
               verdict = "none", Wanted \in RangeOf(begun'),
               SecondTry => begun' = begun /\ gone' = gone
        PROVE  FALSE
    <3>1. SecondTry /\ 2 \notin keys
      BY <2>3 DEF Finds, FirstTry
    <3>2. QED
      BY <1>2, <2>3, <3>1 DEF SecondKeyIsLeft, RangeOf
  <2>4. CASE AnswerOne
    <3>1. GoesOn(RangeOf(list), FALSE) /\ verdict = "none"
      BY <2>4 DEF AnswerOne
    <3>2. /\ SecondTry => begun' = begun /\ gone' = gone
          /\ ~SecondTry => begun' = list
      BY <2>4 DEF AnswerOne, Since
    <3>3. RangeOf(begun') \subseteq RangeOf(list)
      BY <1>2, <3>2 DEF Inv, Kept, RangeOf
    <3>4. ~Finds(RangeOf(list)) /\ Read.absent = "no_such"
      BY <2>1, <3>1, NoSuchIsSaidOf
    <3>5. Wanted \notin RangeOf(begun')
      BY <2>3, <3>1, <3>2, <3>3, <3>4
    <3>6. QED
      BY <3>5 DEF RangeOf
  <2>5. ~ReadFails
    BY WayHasNoSuch DEF ReadFails, Said
  <2>6. ~MatchingPage
    BY WayHasNoSuch DEF MatchingPage, Found
  <2>7. ASSUME PageComes, NEW note, GoesOn(After, note)
        PROVE  /\ ~Read.compares /\ "token_or_told" \notin Read.ends /\ Read.capped # "told"
               /\ Read.absent = "no_such" /\ ~Finds(After)
    <3>1. /\ Read.seeks # "nothing" /\ Read.absent = "no_such" /\ ~Finds(After)
      BY <2>1, <2>7, NoSuchIsSaidOf
    <3>2. Read.kind = "walk"
      BY <2>7 DEF PageComes
    <3>3. SureOfAbsence(query)
      BY <2>1, QueriesAssumption DEF TypeOK, WellBuilt
    <3>4. QED
      BY <2>1, <3>1, <3>2, <3>3, ReadIsTyped DEF SureOfAbsence, Read
  <2>8. CASE LastPage
    <3>1. PageComes /\ GoesOn(After, FallsShort) /\ verdict = "none"
      BY <2>8 DEF LastPage, PageComes
    <3>2. ~FallsShort /\ Read.absent = "no_such" /\ ~Finds(After)
      BY <2>7, <3>1 DEF FallsShort
    <3>3. ended' = "whole"
      BY <2>8, <3>2 DEF LastPage, WalkEnds
    <3>4. RangeOf(begun)' \subseteq After
      BY <1>2, <3>1, <3>3 DEF NothingMissed, PageComes
    <3>5. SecondTry => begun' = begun /\ gone' = gone
      BY <3>1 DEF PageComes, Since
    <3>6. QED
      BY <2>3, <3>1, <3>2, <3>4, <3>5 DEF RangeOf
  <2>9. ~OpenPage
    BY <2>7 DEF OpenPage
  <2>10. ~StopsShort
    <3>1. StopsShort => PageComes
      BY DEF StopsShort
    <3>2. QED
      BY <2>7, <3>1 DEF StopsShort, WalkStops, Said
  <2>11. ~NextPage /\ ~OthersAdd /\ ~OthersRemove /\ ~OthersRekey
    BY DEF NextPage, PageComes, OthersAdd, OthersRemove, OthersRekey, Foreign, caller
  <2>12. CASE UNCHANGED vars
    <3>1. /\ UNCHANGED <<verdict, ended, begun, gone, query, walk, manner, counts>>
      BY <2>12 DEF vars, caller, walked, platform
    <3>2. QED
      BY <1>2, <3>1 DEF AbsentIsTrue, RangeOf, Trusted
  <2>13. QED
    BY <1>2, <2>2, <2>4, <2>5, <2>6, <2>8, <2>9, <2>10, <2>11, <2>12 DEF Next, Answering
<1>3. QED
  BY <1>1, <1>2, Invariance, WalksAreComplete, SecondKeyTheorem, PTL DEF Spec

-----------------------------------------------------------------------------
(* What an answer misses.                                                   *)

\* What the query itself passes over, the read failing.
PassedOver == {query[k].weight : k \in {j \in 1..Len(query) : query[j].fails = "passed_over"}}

\* An answer that says nothing misses nothing else.
SilentAboutNothing ==
    verdict \in {"none", "answer"} /\ ~remark => owed \subseteq PassedOver

LEMMA WayKeepsWord ==
    ASSUME NEW k, NEW note \in BOOLEAN, GoTo(k, note)
    PROVE  remark \/ note => remark'
BY Zenon DEF GoTo

LEMMA AnswerKeepsWord ==
    ASSUME TypeOK, NEW rows, NEW note \in BOOLEAN, GoesOn(rows, note) \/ Found(note),
           verdict' \in {"none", "answer"}
    PROVE  remark \/ note => remark'
<1>1. Read.absent \in Absences
  BY ReadIsTyped DEF ReadsOf
<1>2. Found(note) => (remark \/ note => remark')
  BY WayKeepsWord DEF Found
<1>3. NotFound(note) => (remark \/ note => remark')
  <2>1. ~Said("no_such")
    BY DEF Said
  <2>2. QED
    BY <1>1, <2>1, WayKeepsWord DEF NotFound, Absences
<1>4. QED
  BY <1>2, <1>3, WayKeepsWord DEF GoesOn

\* The last page leaves no gap the answer does not name.
LEMMA LastPageLeavesNone ==
    ASSUME Inv, LastPage, ~FallsShort
    PROVE  owed' = owed
<1>1. PICK t \in BOOLEAN : TokenMayEnd(t) /\ IsLast(t)
  BY DEF LastPage
<1>2. PageComes /\ shown' = After
  BY DEF LastPage, PageComes
<1>3. ~RowsLeft
  BY <1>1, <1>2, LastPageIsTheLast DEF RowsLeft
<1>4. QED
  BY <1>3 DEF LastPage, WalkEnds, Missing

\* An answer that had to do without something it needs says so: every failed
\* read and every row left behind is named, or it is a read whose failure the
\* query passes over; and which reads are passed over no interleaving changes.
\* (No query of a tool passes over a read its answer needs: query_calls.)
THEOREM GapsAreNamed ==
    Spec => [](GapsAreTold \/ \E k \in 1..Len(query) :
                   query[k].fails = "passed_over" /\ query[k].weight = "needed")
<1>1. Init => SilentAboutNothing
  BY DEF Init, SilentAboutNothing
<1>2. ASSUME Inv, SilentAboutNothing, [Next]_vars
      PROVE  SilentAboutNothing'
  <2> SUFFICES ASSUME verdict' \in {"none", "answer"}, ~remark'
               PROVE  owed' \subseteq PassedOver'
    BY DEF SilentAboutNothing
  <2>1. TypeOK /\ FallsShort \in BOOLEAN
    BY <1>2 DEF Inv, FallsShort
  <2>2. CASE ArgumentsRefused
    BY <2>2 DEF ArgumentsRefused, Said
  <2>3. ASSUME query' = query, verdict = "none", ~remark, owed' = owed
        PROVE  owed' \subseteq PassedOver'
    BY <1>2, <2>3 DEF SilentAboutNothing, PassedOver
  <2>4. ASSUME NEW rows, NEW note \in BOOLEAN, GoesOn(rows, note) \/ Found(note)
        PROVE  ~note /\ ~remark
    BY <2>1, <2>4, AnswerKeepsWord
  <2>5. CASE AnswerOne
    <3>1. GoesOn(RangeOf(list), FALSE) /\ owed' = owed /\ verdict = "none" /\ query' = query
      BY <2>5 DEF AnswerOne, platform
    <3>2. ~remark
      BY <2>4, <3>1
    <3>3. QED
      BY <2>3, <3>1, <3>2
  <2>6. CASE ReadFails
    <3>1. verdict = "none" /\ ~Said("error") /\ query' = query
      BY <2>6 DEF ReadFails, Said, platform
    <3>2. Read.fails \in {"try_next", "passed_over"} /\ ~remark
      BY <2>6, <3>1, WayKeepsWord DEF ReadFails
    <3>3. CASE Read.fails = "try_next"
      BY <2>3, <2>6, <3>1, <3>2, <3>3 DEF ReadFails, Missing
    <3>4. CASE Read.fails = "passed_over"
      <4>1. owed' = owed \union {Read.weight}
        BY <2>6, <3>4 DEF ReadFails, Missing
      <4>2. Read.weight \in PassedOver
        BY <2>1, <3>4, ReadIsTyped DEF PassedOver, Read
      <4>3. owed \subseteq PassedOver /\ PassedOver' = PassedOver
        BY <1>2, <3>1, <3>2 DEF SilentAboutNothing, PassedOver
      <4>4. QED
        BY <4>1, <4>2, <4>3
    <3>5. QED
      BY <3>2, <3>3, <3>4
  <2>7. CASE MatchingPage \/ LastPage \/ OpenPage \/ StopsShort
    <3>1. verdict = "none" /\ ~Said("error") /\ query' = query
      BY <2>7 DEF MatchingPage, LastPage, OpenPage, StopsShort, PageComes, Said, platform
    <3>2. CASE MatchingPage
      BY <2>3, <2>4, <3>1, <3>2 DEF MatchingPage, WalkStops
    <3>3. CASE LastPage
      <4>1. ~FallsShort /\ ~remark
        BY <2>1, <2>4, <3>3 DEF LastPage
      <4>2. QED
        BY <1>2, <2>3, <3>1, <3>3, <4>1, LastPageLeavesNone
    <3>4. ~OpenPage
      BY <2>4 DEF OpenPage
    <3>5. CASE StopsShort
      <4>1. WalkStops("capped") /\ GoesOn(After, FALSE)
        BY <2>4, <3>1, <3>5 DEF StopsShort
      <4>2. QED
        BY <2>3, <2>4, <3>1, <4>1 DEF WalkStops
    <3>6. QED
      BY <2>7, <3>2, <3>3, <3>4, <3>5
  <2>8. CASE NextPage \/ OthersAdd \/ OthersRemove \/ OthersRekey \/ UNCHANGED vars
    <3>1. UNCHANGED <<query, owed, verdict, remark>>
      BY <2>8 DEF NextPage, PageComes, OthersAdd, OthersRemove, OthersRekey, Foreign, vars,
                  caller, walked, platform
    <3>2. QED
      BY <1>2, <3>1 DEF SilentAboutNothing, PassedOver
  <2>9. QED
    BY <1>2, <2>2, <2>5, <2>6, <2>7, <2>8 DEF Next, Answering
<1>3. SilentAboutNothing =>
          GapsAreTold \/ \E k \in 1..Len(query) :
              query[k].fails = "passed_over" /\ query[k].weight = "needed"
  BY DEF SilentAboutNothing, GapsAreTold, PassedOver
<1>4. QED
  BY <1>1, <1>2, <1>3, Invariance, PTL DEF Spec

-----------------------------------------------------------------------------
(* What QueryReturns says of every step: that a query which can go on does   *)
(* is the fairness TLC adds.                                                 *)

\* To the answer, to a later read, or to one of the pages a walk may ask for.
TakenOn ==
    \/ verdict' # "none"
    \/ at' \in at + 1 .. Len(query)
    \/ at' = at /\ pages' \in pages + 1 .. MaxPages - 1

\* Every request, answered or not, takes the query on, on a platform that ignores
\* the page it is asked for or grows as fast as it is read as well; and the others
\* do not take it back.
QueryGoesOn ==
    [][/\ Answering => verdict = "none" /\ TakenOn
       /\ ~Answering => UNCHANGED <<at, pages, verdict>>]_vars

\* The next read is a later one.
LEMMA WayLeadsOn ==
    ASSUME TypeOK, NEW note, NEW k \in {at + 1, at + 2}, GoTo(k, note)
    PROVE  TakenOn
<1>1. at \in 1..Len(query) /\ Len(query) \in Nat
  BY ReadIsTyped
<1>2. (k <= Len(query) /\ at' = k) \/ verdict' = "answer"
  BY Zenon DEF GoTo
<1>3. CASE k <= Len(query) /\ at' = k
  <2>1. at' \in at + 1 .. Len(query)
    BY <1>1, <1>3
  <2>2. QED
    BY <2>1 DEF TakenOn
<1>4. QED
  BY <1>2, <1>3 DEF TakenOn

LEMMA AnswerLeadsOn ==
    ASSUME TypeOK, NEW note, NEW rows,
           \/ GoTo(at + 1, note) \/ GoTo(at + 2, note) \/ GoesOn(rows, note) \/ Found(note)
           \/ \E v \in Verdicts \ {"none"} : Said(v)
    PROVE  TakenOn
<1>1. Read.absent \in Absences
  BY ReadIsTyped DEF ReadsOf
<1>2. ASSUME NEW v \in Verdicts \ {"none"}, Said(v)
      PROVE  TakenOn
  BY <1>2 DEF Said, TakenOn
<1>3. Found(note) => GoTo(at + 1, note) \/ GoTo(at + 2, note)
  BY DEF Found
<1>4. NotFound(note) => Said("no_such") \/ GoTo(at + 1, note) \/ GoTo(at + 1, TRUE)
  BY <1>1 DEF NotFound, Absences
<1>5. GoesOn(rows, note) => GoTo(at + 1, note) \/ Found(note) \/ NotFound(note)
  BY DEF GoesOn
<1>6. "no_such" \in Verdicts \ {"none"}
  BY DEF Verdicts
<1>7. QED
  BY <1>2, <1>3, <1>4, <1>5, <1>6, WayLeadsOn

LEMMA RequestLeadsOn ==
    ASSUME TypeOK, Answering
    PROVE  verdict = "none" /\ TakenOn
<1>1. ASSUME Said("error") \/ Said("refused")
      PROVE  TakenOn
  BY <1>1 DEF Said, TakenOn
<1>2. verdict = "none"
  BY DEF Answering, ArgumentsRefused, AnswerOne, ReadFails, MatchingPage, LastPage, OpenPage,
         NextPage, StopsShort, PageComes
<1> SUFFICES TakenOn
  BY <1>2
<1>3. CASE ArgumentsRefused
  BY <1>1, <1>3 DEF ArgumentsRefused
<1>4. CASE AnswerOne
  <2>1. GoesOn(RangeOf(list), FALSE)
    BY <1>4 DEF AnswerOne
  <2>2. QED
    BY <2>1, AnswerLeadsOn
<1>5. CASE ReadFails
  <2>1. Said("error") \/ GoTo(at + 1, TRUE) \/ GoTo(at + 1, FALSE)
    BY <1>5 DEF ReadFails
  <2>2. QED
    BY <1>1, <2>1, WayLeadsOn
<1>6. CASE MatchingPage
  <2>1. Found(FALSE)
    BY <1>6 DEF MatchingPage
  <2>2. QED
    BY <2>1, AnswerLeadsOn
<1>7. CASE LastPage
  <2>1. GoesOn(After, FallsShort)
    BY <1>7 DEF LastPage
  <2>2. QED
    BY <2>1, AnswerLeadsOn
<1>8. CASE OpenPage
  <2>1. GoesOn(After, TRUE)
    BY <1>8 DEF OpenPage
  <2>2. QED
    BY <2>1, AnswerLeadsOn
<1>9. CASE StopsShort
  <2>1. Said("error") \/ GoesOn(After, TRUE) \/ GoesOn(After, FALSE)
    BY <1>9 DEF StopsShort
  <2>2. GoesOn(After, TRUE) => TakenOn
    BY AnswerLeadsOn
  <2>3. GoesOn(After, FALSE) => TakenOn
    BY AnswerLeadsOn
  <2>4. QED
    BY <1>1, <2>1, <2>2, <2>3
<1>10. CASE NextPage
  <2>1. at' = at /\ pages' = pages + 1 /\ pages + 1 < MaxPages /\ pages \in Nat
    BY <1>10 DEF NextPage, MayAsk, caller, TypeOK
  <2>2. pages' \in pages + 1 .. MaxPages - 1
    BY <2>1
  <2>3. QED
    BY <2>1, <2>2 DEF TakenOn
<1>11. QED
  BY <1>3, <1>4, <1>5, <1>6, <1>7, <1>8, <1>9, <1>10 DEF Answering

\* A query has no more than so many requests to its answer.
THEOREM QueriesEnd == Spec => QueryGoesOn
<1>1. TypeOK /\ [Next]_vars
        => [/\ Answering => verdict = "none" /\ TakenOn
            /\ ~Answering => UNCHANGED <<at, pages, verdict>>]_vars
  <2>1. SUFFICES ASSUME TypeOK, [Next]_vars
                 PROVE  /\ Answering => verdict = "none" /\ TakenOn
                        /\ ~Answering => UNCHANGED <<at, pages, verdict>>
    OBVIOUS
  <2>2. Answering => verdict = "none" /\ TakenOn
    BY <2>1, RequestLeadsOn
  <2>3. ~Answering => UNCHANGED <<at, pages, verdict>>
    BY <2>1 DEF Next, OthersAdd, OthersRemove, OthersRekey, Foreign, vars, caller, walked
  <2>4. QED
    BY <2>2, <2>3
<1>2. QED
  BY <1>1, TypeCorrect, PTL DEF Spec, QueryGoesOn
=============================================================================
