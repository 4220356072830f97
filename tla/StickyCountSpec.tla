--------------------------- MODULE StickyCountSpec ---------------------------
(***************************************************************************)
(* What `Count` (internal/utils.rs) promises its callers: a reference      *)
(* counter that dies at zero, never revives, and tells exactly one         *)
(* decrementer that it is the one who must clean up.                       *)
(***************************************************************************)
EXTENDS Naturals

CONSTANT MaxRefs     \* references that may exist at once

VARIABLES held,      \* references that exist
          dead,      \* the counter has been found to be zero for good
          credits,   \* decrements that were told "you brought it to zero"
          zeroSeen   \* some caller was told that the counter is zero

vars == <<held, dead, credits, zeroSeen>>

Init == held = 1 /\ ~dead /\ credits = 0 /\ zeroSeen = FALSE

\* A new reference, also while the count is momentarily zero and undecided.
Acquire == ~dead /\ held < MaxRefs /\ held' = held + 1
           /\ UNCHANGED <<dead, credits, zeroSeen>>

Release == held > 0 /\ held' = held - 1 /\ UNCHANGED <<dead, credits, zeroSeen>>

\* The counter becomes zero for good.  Either the decrementer that settles it
\* is told so at once, or a reader settles it and the credit is still due.
Die == ~dead /\ held = 0 /\ dead'
       /\ \/ credits' = credits + 1 /\ zeroSeen' = zeroSeen
          \/ credits' = credits     /\ zeroSeen' = TRUE
       /\ UNCHANGED held

\* The credit a reader left behind is claimed, once.
Credit == dead /\ credits = 0 /\ credits' = 1 /\ UNCHANGED <<held, dead, zeroSeen>>

\* A failed increment, or a load that returns 0.
ObserveZero == dead /\ zeroSeen' = TRUE /\ UNCHANGED <<held, dead, credits>>

Next == Acquire \/ Release \/ Die \/ Credit \/ ObserveZero

SafetySpec == Init /\ [][Next]_vars
Spec == SafetySpec /\ WF_vars(Credit)
==============================================================================
