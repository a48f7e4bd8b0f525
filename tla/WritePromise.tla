---------------------------- MODULE WritePromise ----------------------------
(***************************************************************************)
(* What the answer of a write tool is worth.  The change the caller asked  *)
(* for takes effect on the platform not at all, in part or altogether, and *)
(* what has taken effect is not taken back unasked.  "Nothing was done" is *)
(* said of no change, now or later; "done" is said of the whole change;    *)
(* any other answer promises nothing.                                      *)
(***************************************************************************)
VARIABLES effect, said

Init == effect = "none" /\ said = "none"

TakesEffect ==
    /\ said # "nothing"
    /\ effect' \in (IF effect = "none" THEN {"part", "all"} ELSE {"all"})
    /\ effect' # effect
    /\ said' = said

Answers ==
    /\ said = "none"
    /\ said' \in {"nothing" : e \in {effect} \intersect {"none"}}
                \union {"done" : e \in {effect} \intersect {"all"}}
                \union {"uncertain"}
    /\ effect' = effect

\* After an uncertain answer the same thing may be asked for again.
AsksAgain ==
    /\ said = "uncertain" /\ said' = "none"
    /\ effect' = effect

Next == TakesEffect \/ Answers \/ AsksAgain

Spec == Init /\ [][Next]_<<effect, said>>
=============================================================================
