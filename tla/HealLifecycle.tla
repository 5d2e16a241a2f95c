--------------------------- MODULE HealLifecycle ---------------------------
(***************************************************************************)
(* What the self-heal loader promises about one missed function, whatever  *)
(* queues and threads it uses: a function is cold until it is first missed, *)
(* a miss either settles it at once or makes it pending, a pending function *)
(* is settled exactly once, and a settled function (native, or refused for  *)
(* the rest of the session) never changes again.                            *)
(***************************************************************************)
EXTENDS Naturals

CONSTANT Keys          \* the (pc, thumb) pairs with no statically compiled entry

VARIABLES fate,        \* the fate of each key
          open         \* the loader still accepts requests

vars == <<fate, open>>

Fates == {"cold", "pending", "native", "refused"}

TypeOK == fate \in [Keys -> Fates] /\ open \in BOOLEAN

\* A cached function may be native from the start.
Init == fate \in [Keys -> {"cold", "native"}] /\ open \in BOOLEAN

\* A first miss asks for the function, or settles it at once.
Ask(k) ==
  /\ open /\ fate[k] = "cold"
  /\ \E f \in Fates \ {"cold"} : fate' = [fate EXCEPT ![k] = f]
  /\ UNCHANGED open

\* Finished requests are settled in batches, on the game thread.
Settle(S) ==
  /\ S # {} /\ \A k \in S : fate[k] = "pending"
  /\ \E f \in [S -> {"native", "refused"}] :
       fate' = [k \in Keys |-> IF k \in S THEN f[k] ELSE fate[k]]
  /\ open' \in {open, FALSE}

Close == open /\ open' = FALSE /\ UNCHANGED fate

Next == \/ \E k \in Keys : Ask(k)
        \/ \E S \in SUBSET Keys : Settle(S)
        \/ Close

Spec == Init /\ [][Next]_vars
=============================================================================
