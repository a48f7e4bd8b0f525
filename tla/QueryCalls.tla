----------------------------- MODULE QueryCalls -----------------------------
(***************************************************************************)
(* One query of a read tool, from its first request to its answer.  Pages  *)
(* are asked for one at a time, each by its number (or an offset, or a     *)
(* token), while other users of the platform add rows to the list and take *)
(* rows away; every request may fail.  A platform may report the size of   *)
(* its list or not, may serve pages smaller than asked for, and may answer *)
(* the first page whatever page it is asked for.                           *)
(***************************************************************************)
EXTENDS QuerySteps, Integers

CONSTANTS Queries,      \* the queries the tools can make
          Rows,         \* the rows a list can have
          Wanted,       \* the row a search is for
          Lists,        \* the lists the platform may have at the start
          Size,         \* rows a page is asked for with
          Less,         \* rows a page has where the platform serves fewer
          MaxPages,     \* pages after which a walk of many pages stops
          MaxForeign    \* changes other users make

ASSUME SizesAssumption ==
    /\ Size \in Nat \ {0} /\ Less \in 1..Size
    /\ MaxPages \in Nat \ {0} /\ MaxForeign \in Nat

ASSUME QueriesAssumption == \A q \in Queries : WellBuilt(q)

RangeOf(s) == {s[k] : k \in 1..Len(s)}
NoRowTwice(s) == \A j, k \in 1..Len(s) : s[j] = s[k] => j = k

ASSUME ListsAssumption ==
    Wanted \in Rows /\ Lists \subseteq {s \in Seq(Rows) : NoRowTwice(s)}

VARIABLES
    query,     \* the query being answered
    at,        \* the read that is next, or under way
    pages,     \* pages this read has had
    shown,     \* the rows that came with them
    came,      \* how many they were, a row that came twice counted twice
    walk,      \* the read shown and came are about
    ended,     \* how that read ended, "open" while it goes on
    owed,      \* what the answer misses: the weights of the reads that failed
               \* or ended without rows that were there all the time
    remark,    \* the answer says that something is missing or open
    verdict,   \* the answer, "none" until it is given
    list,      \* the list on the platform
    keys,      \* the keys, of the two of a search, the wanted row is kept under
    begun,     \* the list when the walk, or the search by two keys, began
    gone,      \* rows taken from it since
    foreign,   \* changes made by others so far
    manner,    \* how the platform serves pages
    counts     \* whether it reports the size of the list

caller == <<at, remark, verdict>>
walked == <<pages, shown, came, walk, ended, owed>>
others == <<list, keys, foreign>>
platform == <<query, manner, counts>>

vars == <<caller, walked, others, begun, gone, platform>>

Manners == {"as_asked", "fewer_rows", "first_page_only"}
Verdicts == {"none", "refused", "answer", "no_such", "error"}
Endings == {"open", "one", "whole", "match", "told", "capped", "failed"}

Read == query[at]

\* A search that tries two keys looks in two resources, one after the other,
\* and the thing may be in either: a policy under the router ids of one family
\* or of the other.  Where the first try is a walk, or may be refused, the
\* second resource holds what the first one does (all the alarms, open ones
\* included; the role that is mirrored).
TwoKeys(q) == \E k \in 1..Len(q) : q[k].absent = "next_try"

Wider(q) == \E k \in 1..Len(q) :
    q[k].absent = "next_try" /\ ~(q[k].kind = "one" /\ q[k].fails = "error")

Keyings(q) ==
    {K \in (SUBSET {1, 2}) \ {{}} :
        (Wider(q) => 2 \in K) /\ (~TwoKeys(q) => K = {1, 2})}

FirstTry  == Read.absent = "next_try"
SecondTry == at > 1 /\ query[at - 1].absent = "next_try"

\* How pages are served matters to walks only.
Walks(q) == \E k \in 1..Len(q) : q[k].kind = "walk"

Init ==
    /\ query \in Queries
    /\ manner \in Manners /\ counts \in BOOLEAN
    /\ \/ Walks(query)
       \/ manner = "as_asked" /\ counts
    /\ list \in Lists /\ keys \in Keyings(query)
    /\ at = 1 /\ pages = 0 /\ shown = {} /\ came = 0
    /\ walk = 1 /\ ended = "open" /\ owed = {}
    /\ remark = FALSE /\ verdict = "none"
    /\ begun = list /\ gone = {} /\ foreign = 0

-----------------------------------------------------------------------------
(* The answer, and the way to it.                                          *)

Said(v) == verdict' = v /\ UNCHANGED <<at, remark>>

\* On to read k; after the last one the answer is given.  A note joins those
\* there are; an answer that is too long is cut, and says so.
GoTo(k, note) ==
    \/ /\ k <= Len(query)
       /\ at' = k /\ verdict' = "none"
       /\ remark' = (remark \/ note)
    \/ /\ k > Len(query)
       /\ at' = at /\ verdict' = "answer"
       /\ remark' \in {remark \/ note, TRUE}

\* What the read looked for is there, and the other key is not needed; or it
\* is not there.
Found(note) == GoTo(IF FirstTry THEN at + 2 ELSE at + 1, note)

\* The mutation: the same key is tried again.
NotFound_SameKey(note) ==
    CASE Read.absent = "no_such"  -> Said("no_such")
      [] Read.absent = "named"    -> GoTo(at + 1, TRUE)
      [] Read.absent = "next_try" -> GoTo(at, note)

NotFound(note) ==
    CASE Read.absent = "no_such"  -> Said("no_such")
      [] Read.absent = "named"    -> GoTo(at + 1, TRUE)
      [] Read.absent = "next_try" -> GoTo(at + 1, note)

\* The thing is among the rows, where the read asks by a key it is kept under.
Finds(rows) ==
    /\ Wanted \in rows
    /\ FirstTry => 1 \in keys
    /\ SecondTry => 2 \in keys

GoesOn(rows, note) ==
    IF Read.seeks = "nothing" THEN GoTo(at + 1, note)
    ELSE IF Finds(rows) THEN Found(note) ELSE NotFound(note)

\* Arguments no request could be made of are refused before the first one.
ArgumentsRefused ==
    /\ verdict = "none" /\ at = 1 /\ pages = 0
    /\ Said("refused")
    /\ UNCHANGED <<walked, others, begun, gone, platform>>

-----------------------------------------------------------------------------
(* One request: answered from the facts of that moment, or failed.         *)

\* The second try belongs to the search the first one began.
Since(old, new) == IF SecondTry THEN old ELSE new

\* An answer without the read misses what the read is for.
Missing(gap) == owed \union IF gap THEN {Read.weight} ELSE {}

AnswerOne ==
    /\ verdict = "none" /\ Read.kind = "one"
    /\ GoesOn(RangeOf(list), FALSE)
    /\ pages' = 0 /\ shown' = {} /\ came' = 0
    /\ walk' = at /\ ended' = "one" /\ owed' = owed
    /\ begun' = Since(begun, list) /\ gone' = Since(gone, {})
    /\ UNCHANGED <<others, platform>>

\* The first request that fails ends the read, whatever pages it has had;
\* client.py has sent it again until its attempts were used up.
ReadFails ==
    /\ verdict = "none"
    /\ \/ Read.fails \in {"error", "if_refused", "try_next"} /\ Said("error")
       \/ Read.fails \in {"named", "if_refused"} /\ GoTo(at + 1, TRUE)
       \/ Read.fails \in {"try_next", "passed_over"} /\ GoTo(at + 1, FALSE)
    /\ owed' = Missing(Read.fails # "try_next")
    /\ pages' = 0 /\ shown' = {} /\ came' = 0
    /\ walk' = at /\ ended' = "failed"
    /\ UNCHANGED <<others, begun, gone, platform>>

-----------------------------------------------------------------------------
(* A page.                                                                 *)

Served == IF manner = "fewer_rows" THEN Less ELSE Size

\* The mutation: an offset that is one row short for every page.
First_Overlapping ==
    IF manner = "first_page_only" THEN 1 ELSE pages * (Served - 1) + 1

First == IF manner = "first_page_only" THEN 1 ELSE pages * Served + 1
Last  == IF First + Served - 1 < Len(list) THEN First + Served - 1 ELSE Len(list)
PageRows == {list[k] : k \in First..Last}
PageLen  == IF First <= Last THEN Last - First + 1 ELSE 0

\* The walk starts anew with the first page.
Before == IF pages = 0 THEN {} ELSE shown
After  == Before \union PageRows
Came   == (IF pages = 0 THEN 0 ELSE came) + PageLen

\* The mutation: the rows asked for are counted, whoever counts.
SoFar_Asked == pages * Size + PageLen

\* How many rows there are so far: those asked for, those that came, or the
\* different ones among them.
SoFar == IF Read.asked THEN pages * Size + PageLen
         ELSE IF Read.distinct THEN Cardinality(After) ELSE Came

\* Whether a page comes without a token for the next one.  At the very end of
\* the list there may be one or not; where tokens are ignored the second page
\* repeats the one that was sent.
TokenMayEnd(t) ==
    IF manner = "first_page_only" THEN t = (pages > 0 \/ Last >= Len(list))
                                  ELSE Last < Len(list) => ~t

\* The rules a tool takes a page for the last one by, each where it has it.
EndsEmpty    == "empty" \in Read.ends /\ PageLen = 0
EndsShort    == "short" \in Read.ends /\ PageLen < Size
ShortOfTotal == "short_if_uncounted" \in Read.ends /\ ~counts /\ PageLen < Size
TotalReached == "total" \in Read.ends /\ counts /\ SoFar >= Len(list)
Uncounted    == "uncounted" \in Read.ends /\ ~counts
NothingNew   == "nothing_new" \in Read.ends /\ PageRows \subseteq Before
NoNextToken(noToken) == "token" \in Read.ends /\ noToken

IsLast(noToken) ==
    \/ EndsEmpty \/ EndsShort \/ ShortOfTotal \/ TotalReached
    \/ Uncounted \/ NothingNew \/ NoNextToken(noToken)

Matches == Read.seeks = "match" /\ Finds(PageRows)

\* The rows are fewer than the platform says there are.
FallsShort == Read.compares /\ counts /\ Cardinality(After) < Len(list)

MayAsk == Read.pages = "many" /\ pages + 1 < MaxPages

-----------------------------------------------------------------------------
PageComes ==
    /\ verdict = "none" /\ Read.kind = "walk"
    /\ shown' = After /\ came' = Came /\ walk' = at
    /\ begun' = (IF pages = 0 THEN Since(begun, list) ELSE begun)
    /\ gone' = (IF pages = 0 THEN Since(gone, {}) ELSE gone)
    /\ UNCHANGED <<others, platform>>

\* The platforms a walk is made for.  One that counts what came survives
\* pages smaller than it asked for (oam.py: rows are counted "as delivered,
\* not as requested"), one that compares what it has with the total survives
\* a page parameter that is ignored (device_config.fetch_deployment).
Trusted(w) ==
    /\ "uncounted" \in w.ends => counts
    /\ "nothing_new" \in w.ends => counts /\ w.compares /\ w.distinct
    /\ \/ manner = "as_asked"
       \/ manner = "fewer_rows" /\ counts /\ ~w.asked /\ "short" \notin w.ends
       \/ manner = "first_page_only" /\ counts /\ w.compares /\ w.distinct

\* The walk is over, in this way, and the answer goes without the rows it has
\* not come to: a gap if they were there from its beginning, on a platform the
\* walk is made for.
RowsLeft == gone' = {} /\ Trusted(Read) /\ ~(RangeOf(begun') \subseteq After)

WalkEnds(how) ==
    ended' = how /\ pages' = 0 /\ owed' = Missing(RowsLeft)

\* The walk has what it was for, or stops at its bound without a word.
WalkStops(how) ==
    ended' = how /\ pages' = 0 /\ owed' = owed

MatchingPage ==
    /\ PageComes /\ Matches
    /\ WalkStops("match")
    /\ Found(FALSE)

\* The mutation: the search is made in the last page alone.
LastPage_Alone ==
    /\ PageComes /\ ~Matches
    /\ \E t \in BOOLEAN : TokenMayEnd(t) /\ IsLast(t)
    /\ WalkEnds(IF FallsShort THEN "told" ELSE "whole")
    /\ GoesOn(PageRows, FallsShort)

LastPage ==
    /\ PageComes /\ ~Matches
    /\ \E t \in BOOLEAN : TokenMayEnd(t) /\ IsLast(t)
    /\ WalkEnds(IF FallsShort THEN "told" ELSE "whole")
    /\ GoesOn(After, FallsShort)

\* A full page without a token leaves open whether there is more, and the
\* answer says so.
OpenPage ==
    /\ PageComes /\ ~Matches
    /\ "token_or_told" \in Read.ends
    /\ TokenMayEnd(TRUE) /\ ~IsLast(TRUE)
    /\ WalkEnds("told")
    /\ GoesOn(After, TRUE)

\* A page that is not the last one, as far as the walk can see.
MoreAfter == \E t \in BOOLEAN :
    /\ TokenMayEnd(t) /\ ~IsLast(t)
    /\ ~("token_or_told" \in Read.ends /\ t)

NextPage ==
    /\ PageComes /\ ~Matches /\ MoreAfter /\ MayAsk
    /\ pages' = pages + 1 /\ ended' = "open" /\ owed' = owed
    /\ UNCHANGED caller

\* The walk stops here though there may be more.
StopsShort ==
    /\ PageComes /\ ~Matches /\ MoreAfter /\ ~MayAsk
    /\ \/ /\ Read.capped = "error"
          /\ WalkEnds("capped") /\ Said("error")
       \/ /\ Read.capped = "told"
          /\ WalkEnds("told") /\ GoesOn(After, TRUE)
       \/ /\ Read.capped = "silent"
          /\ WalkStops("capped") /\ GoesOn(After, FALSE)

-----------------------------------------------------------------------------
(* Other users of the platform.                                            *)

Foreign ==
    /\ verdict = "none" /\ foreign < MaxForeign
    /\ foreign' = foreign + 1
    /\ UNCHANGED <<caller, walked, begun, platform>>

Inserted(p, r) ==
    [k \in 1..Len(list) + 1 |->
        IF k < p THEN list[k] ELSE IF k = p THEN r ELSE list[k - 1]]

OthersAdd ==
    /\ Foreign
    /\ \E p \in 1..Len(list) + 1, r \in Rows \ RangeOf(list) :
          list' = Inserted(p, r)
    /\ UNCHANGED <<keys, gone>>

Without(p) ==
    [k \in 1..Len(list) - 1 |-> IF k < p THEN list[k] ELSE list[k + 1]]

OthersRemove ==
    /\ Foreign
    /\ \E p \in 1..Len(list) :
          list' = Without(p) /\ gone' = gone \union {list[p]}
    /\ keys' = keys

\* The thing a search tries two keys for comes under the other key as well, or
\* is taken from one of them.
OthersRekey ==
    /\ Foreign
    /\ keys' \in Keyings(query) \ {keys}
    /\ gone' = gone \union (IF keys \subseteq keys' THEN {} ELSE {Wanted})
    /\ list' = list

-----------------------------------------------------------------------------
Answering == \/ ArgumentsRefused \/ AnswerOne \/ ReadFails \/ MatchingPage
             \/ LastPage \/ OpenPage \/ NextPage \/ StopsShort

Next == Answering \/ OthersAdd \/ OthersRemove \/ OthersRekey

\* Every request is answered or fails in the end (client.py's timeouts and
\* attempts), and a caller who pages asks for the pages there are.
Spec == Init /\ [][Next]_vars /\ WF_vars(Answering)

-----------------------------------------------------------------------------
(* Properties.                                                             *)

TypeOK ==
    /\ query \in Queries /\ at \in 1..Len(query) /\ walk \in 1..Len(query)
    /\ pages \in 0..MaxPages - 1 /\ came \in Nat /\ shown \subseteq Rows
    /\ ended \in Endings /\ owed \subseteq Weights
    /\ remark \in BOOLEAN /\ verdict \in Verdicts
    /\ keys \in Keyings(query)
    /\ list \in Seq(Rows) /\ begun \in Seq(Rows) /\ gone \subseteq Rows
    /\ foreign \in 0..MaxForeign /\ manner \in Manners /\ counts \in BOOLEAN

\* A list that is given as whole holds every row that was there when the walk
\* began, rows others add meanwhile notwithstanding.  (Rows others remove
\* shift the pages, and nothing in the code notices.)
NothingMissed ==
    ended = "whole" /\ gone = {} /\ Trusted(query[walk]) =>
        RangeOf(begun) \subseteq shown

\* Where nothing changed meanwhile it is the list, each row once.
AsItStands ==
    /\ ended = "whole" /\ gone = {} /\ list = begun
    /\ Trusted(query[walk]) /\ manner # "first_page_only"
    => shown = RangeOf(list) /\ came = Len(list)

\* "No such ..." is only said of a thing that was not there all the while the
\* search ran, under one of its two keys or the other; the searches that stop
\* at their last page without a word are the exception.
AbsentIsTrue ==
    /\ verdict = "no_such" /\ ended # "capped" /\ gone = {}
    /\ ended = "one" \/ Trusted(query[walk])
    => Wanted \notin RangeOf(begun)

\* An answer that had to do without something it needs, a read that failed or
\* rows that were there when their walk began, says so, whatever came later;
\* the walks that stop at their last page without a word are the exception.
GapsAreTold == verdict = "answer" /\ "needed" \in owed => remark

\* An answer that says of a search what only holds of all the candidates (none
\* matches) says so too where one of them could not be read.
SearchesAreTold == verdict = "answer" /\ "candidate" \in owed => remark

\* Every query is answered, on a platform that ignores the page it is asked
\* for as well.
QueryReturns == <>(verdict # "none")
=============================================================================
