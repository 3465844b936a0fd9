------------------------------ MODULE AtMostOnce ------------------------------
(***************************************************************************)
(* What internal/service/push/doc.go promises of a dispatcher generation:  *)
(* an accepted event gets one attempt at its endpoint and no more, an event *)
(* that was not accepted gets none, and retirement leaves nothing accepted *)
(* behind.                                                                 *)
(***************************************************************************)
EXTENDS Naturals

CONSTANTS Calls, Endpoints

VARIABLES accepted,   \* <<call, endpoint>> pairs the generation took
          attempts,   \* delivery attempts per endpoint and call
          retired     \* Retire has returned

vars == <<accepted, attempts, retired>>

Init == /\ accepted = {}
        /\ attempts = [e \in Endpoints |-> [c \in Calls |-> 0]]
        /\ retired = FALSE

Accept(c, e) ==
    /\ ~retired
    /\ <<c, e>> \notin accepted
    /\ accepted' = accepted \cup {<<c, e>>}
    /\ UNCHANGED <<attempts, retired>>

Attempt(c, e) ==
    /\ <<c, e>> \in accepted /\ attempts[e][c] = 0
    /\ attempts' = [attempts EXCEPT ![e][c] = 1]
    /\ UNCHANGED <<accepted, retired>>

Retire ==
    /\ \A p \in accepted : attempts[p[2]][p[1]] = 1
    /\ retired' = TRUE
    /\ UNCHANGED <<accepted, attempts>>

Next == \/ \E c \in Calls, e \in Endpoints : Accept(c, e) \/ Attempt(c, e)
        \/ Retire

Spec == Init /\ [][Next]_vars
================================================================================
