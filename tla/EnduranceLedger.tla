--------------------------- MODULE EnduranceLedger ---------------------------
(***************************************************************************)
(* What the durable evidence of an endurance campaign promises while one   *)
(* controller at a time works on it: logical iterations are recorded one   *)
(* after the other, each at most once, and anything that is not a recorded *)
(* success stops the campaign for good.                                    *)
(***************************************************************************)
EXTENDS Naturals

VARIABLES frontier,   \* the recorded successes are 1..frontier
          state       \* closed, ready, busy, failed or broken

vars == <<frontier, state>>

Init == frontier = 0 /\ state = "closed"

Open == state = "closed" /\ state' = "ready" /\ UNCHANGED frontier

\* An iteration starts at frontier + 1.
Begin == state = "ready" /\ state' = "busy" /\ UNCHANGED frontier

Succeed == state = "busy" /\ state' = "ready" /\ frontier' = frontier + 1

Fail == state \in {"ready", "busy"} /\ state' = "failed" /\ UNCHANGED frontier

\* The evidence itself is damaged, by a crash or an error while writing it.
Break == state # "broken" /\ state' = "broken" /\ UNCHANGED frontier

Next == Open \/ Begin \/ Succeed \/ Fail \/ Break

Spec == Init /\ [][Next]_vars
=============================================================================
