--------------------------- MODULE MCQueryCalls ---------------------------
(* An instance of QueryCalls: every query of every read tool, over lists of  *)
(* up to MaxRows rows.                                                        *)
EXTENDS QueryCalls, InventoryQueries, NetworkQueries, ServiceQueries,
        PlatformQueries, ReportQueries

MCQueries == InventoryQuerySets \union NetworkQuerySets \union
             ServiceQuerySets \union PlatformQuerySets \union ReportQuerySets

TwinQueries == cnc_explain_sr_policy

MaxRows == 5
MCRows == 0..MaxRows

\* Lists of no row, of a page, of a page and a row, and of more rows than the
\* pages of a walk hold.  The row searched for is the first of the list, the
\* first of a later page, or not there; the names of the others make no
\* difference.
MCLists ==
    {[k \in 1..n |-> IF k = p THEN 0 ELSE k] :
        n \in {0, Size, Size + 1, MaxRows}, p \in {1, Size + 1, MaxRows + 1}}
===========================================================================
