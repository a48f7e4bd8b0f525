---------------------------- MODULE AtMostOnceCall -----------------------------
(***************************************************************************)
(* What client.py promises of a call that must not be repeated (a POST or  *)
(* PATCH a tool has not declared safe to re-send), without tokens, retries *)
(* or slots: the platform carries the call out at most once, a success     *)
(* means it was carried out, a refusal means it was not, and only an       *)
(* answer in doubt leaves the caller to look at the platform.              *)
(***************************************************************************)
EXTENDS Naturals

CONSTANT Calls

VARIABLES
    effect,     \* how often the platform carried the call out
    verdict     \* what the caller was told

callVars == <<effect, verdict>>

Verdicts == {"pending", "ok", "refused", "in_doubt"}

CallInit ==
    /\ effect = [c \in Calls |-> 0]
    /\ verdict = [c \in Calls |-> "pending"]

CarryOut(c) ==
    /\ verdict[c] = "pending"
    /\ effect[c] = 0
    /\ effect' = [effect EXCEPT ![c] = 1]
    /\ UNCHANGED verdict

Report(c) ==
    /\ verdict[c] = "pending"
    /\ \/ effect[c] = 1 /\ verdict' = [verdict EXCEPT ![c] = "ok"]
       \/ effect[c] = 0 /\ verdict' = [verdict EXCEPT ![c] = "refused"]
       \/ verdict' = [verdict EXCEPT ![c] = "in_doubt"]
    /\ UNCHANGED effect

\* The caller gives up while the call is under way: it may just have happened.
Abandon(c) ==
    /\ verdict[c] = "pending"
    /\ verdict' = [verdict EXCEPT ![c] = "in_doubt"]
    /\ \E n \in {effect[c], 1} : effect' = [effect EXCEPT ![c] = n]

CallNext == \E c \in Calls : CarryOut(c) \/ Report(c) \/ Abandon(c)

CallSpec == CallInit /\ [][CallNext]_callVars
================================================================================
