--------------------------- MODULE MCCrossworkClient ---------------------------
(* Instances of CrossworkClient: two calls the role grants, a POST and a GET, *)
(* and one it denies.                                                         *)
EXTENDS CrossworkClient

CONSTANTS post, get, denied1

\* Trouble with single calls, none of which touches the session.
CallFaults == {"busy", "refused", "unavailable", "failed", "lost"}

\* Trouble that ends or loses sessions.
SessionFaults == {"leg1", "leg1_lost", "leg2", "leg2_lost", "logout",
                  "expire", "terminate", "cancel"}
Leg2Faults == {"leg2"}
AllFaults == CallFaults \union SessionFaults
================================================================================
