--------------------------- MODULE ErasurePromise ---------------------------
(***************************************************************************)
(* What account erasure promises, without requests, retries, passes and    *)
(* locks: a disabled account can be restored until its erasure commits;    *)
(* from then on its domains are erased one after the other, the vectors    *)
(* first, and the account row goes last.                                   *)
(***************************************************************************)
EXTENDS Naturals

CONSTANT Domains   \* 1..n, in the order of their erasure

VARIABLES
    life,     \* "active", "disabled", "erasing", "gone"
    erased    \* the domains whose data is gone

vars == <<life, erased>>

Init == life = "active" /\ erased = {}

Move(from, to) == life = from /\ life' = to /\ UNCHANGED erased

Disable == Move("active", "disabled")
Restore == Move("disabled", "active")
Commit == Move("disabled", "erasing")

Erase(d) ==
    /\ life = "erasing"
    /\ \A earlier \in Domains : earlier < d => earlier \in erased
    /\ erased' = erased \cup {d}
    /\ UNCHANGED life

Vanish == erased = Domains /\ Move("erasing", "gone")

Next == Disable \/ Restore \/ Commit \/ Vanish \/ \E d \in Domains : Erase(d)

Spec == Init /\ [][Next]_vars
=============================================================================
