----------------------------- MODULE QuerySteps -----------------------------
(***************************************************************************)
(* The vocabulary in which the read tools are written down.  Every tool of *)
(* src/cnc_mcp/tools that only reads is a set of queries, one for each way *)
(* its options select; a query is the sequence of reads the function       *)
(* awaits (reads gathered in parallel are put in the order of the code).   *)
(* A read is one request, or a walk: the pages of a list, asked for one at *)
(* a time by the tool, or by the caller who follows the has_more of every  *)
(* page.                                                                   *)
(*                                                                         *)
(* A read states what the answer is without it (weight) and, apart from    *)
(* that, what its failure does in the code (fails), whether it looks for   *)
(* one thing (seeks) and what not finding it does (absent).  A walk states how *)
(* its end is recognised (ends), whether a row that was seen is dropped    *)
(* (distinct), whether "rows so far" are those that came or those asked    *)
(* for (asked), whether the tool compares what it got with the number the  *)
(* platform reports (compares), and how often it asks (pages) before it    *)
(* stops and what is said then (capped).                                   *)
(***************************************************************************)
EXTENDS Sequences, FiniteSets, Naturals

\* The failure of a read, or of a page, is the error of the tool, is named
\* in an answer that is given all the same, or is passed over.  "if_refused":
\* what the platform refuses is named, what it does not answer is the error;
\* "try_next": what it refuses is asked for under another key.
Failures == {"error", "named", "if_refused", "try_next", "passed_over"}

\* What the answer is without the read: it misses something its reader takes to
\* be covered; it is as good, for the read only adorns its rows; or it misses
\* one of the candidates of a search, all of which it speaks of.
Weights == {"needed", "spare", "candidate"}

\* What is done when the thing looked for is not found: the tool says that
\* there is no such thing, names that in its answer, or tries another key.
Absences == {"no_such", "named", "next_try"}

\* "match": the walk ends at the first match; "after": the rows are searched
\* when the walk has ended.
Seeks == {"nothing", "match", "after"}

\* How a walk knows that it is at its end.
Ends == {"empty",                \* the page has no row
         "short",                \* it has fewer rows than asked for
         "short_if_uncounted",   \* the same, where no total is reported
         "total",                \* as many rows as the reported total
         "uncounted",            \* no total is reported
         "nothing_new",          \* every row of the page was seen before
         "token",                \* no token for a next page, or the same one
         "token_or_told"}        \* the same on a full page: told as open

\* What is said when the walk stops though there may be more.
Cappings == {"error", "told", "silent"}

ReadsOf ==
    [kind : {"one", "walk"}, weight : Weights, fails : Failures, seeks : Seeks,
     absent : Absences, ends : SUBSET Ends, distinct : BOOLEAN,
     asked : BOOLEAN, compares : BOOLEAN, pages : {"one", "many"},
     capped : Cappings]

-----------------------------------------------------------------------------
\* One request whose rows or document go into the answer.
One == [kind |-> "one", weight |-> "needed", fails |-> "error",
        seeks |-> "nothing", absent |-> "no_such", ends |-> {},
        distinct |-> FALSE, asked |-> FALSE, compares |-> FALSE,
        pages |-> "one", capped |-> "told"]

\* A walk of the tool's own, and a list the caller pages through.
Walk(ends, capped) == [One EXCEPT !.kind = "walk", !.ends = ends,
                                  !.pages = "many", !.capped = capped]
Asking(r) == [r EXCEPT !.asked = TRUE]
Paged(ends) == Asking(Walk(ends, "told"))

Distinct(r) == [r EXCEPT !.distinct = TRUE]
Compared(r) == [r EXCEPT !.compares = TRUE]

\* One page, with the word that there is more where there is.
FirstPage(r) == [r EXCEPT !.pages = "one"]

\* The tool looks for one thing: in an answer that is about it alone, in the
\* rows of a walk, or row by row.
Seeking(r)    == [r EXCEPT !.seeks = "after"]
FirstMatch(r) == [r EXCEPT !.seeks = "match"]
The           == Seeking(One)

\* Not found: another key is tried with the next read; or it is only named.
OrElse(r)    == [r EXCEPT !.absent = "next_try"]
IfThere(r)   == [Seeking(r) EXCEPT !.absent = "named"]
OrElsewhere(r) == [OrElse(r) EXCEPT !.fails = "try_next"]

\* The mutation: the note on the failure is left out.
Named_Unsaid(r) == [r EXCEPT !.fails = "passed_over"]

\* The answer does without the read: it names what failed, or passes over it.
Named(r)   == [r EXCEPT !.fails = "named"]
Ignored(r) == [r EXCEPT !.fails = "passed_over"]
NamedIfRefused(r) == [r EXCEPT !.fails = "if_refused"]

\* The read only adds to rows that are complete, or is one of many candidates.
Spare(r)     == [r EXCEPT !.weight = "spare"]
Candidate(r) == [r EXCEPT !.weight = "candidate"]

\* Reads that an option leaves out.
If(option, reads) == IF option THEN reads ELSE <<>>

-----------------------------------------------------------------------------
(* The dialects of paging.                                                 *)

\* formatting.pagination_envelope: by the total, else by a full page.
Totalled == {"total", "short_if_uncounted"}

\* emf and restconf report no total: a full page means more.
Full == {"short"}

-----------------------------------------------------------------------------
(* The rules a query is built by.                                          *)

TypedReads(q) == q # <<>> /\ \A k \in 1..Len(q) : q[k] \in ReadsOf

\* A walk can end; a search has two keys at most, and the second try has a
\* word for its failure.
CanEnd(q) ==
    \A k \in 1..Len(q) :
        /\ q[k].kind = "walk" => q[k].ends # {}
        /\ q[k].fails = "try_next" => q[k].absent = "next_try"
        /\ q[k].absent = "next_try" => /\ k < Len(q) /\ q[k].seeks # "nothing"
                                       /\ q[k + 1].absent # "next_try"

\* A search that ends with a word for what it leaves open does not say that
\* there is no such thing.
SureOfAbsence(q) ==
    \A k \in 1..Len(q) :
        q[k].kind = "walk" /\ q[k].seeks # "nothing" /\ q[k].absent = "no_such" =>
            q[k].capped # "told" /\ ~q[k].compares /\ "token_or_told" \notin q[k].ends

WellBuilt(q) == TypedReads(q) /\ CanEnd(q) /\ SureOfAbsence(q)
=============================================================================
