----------------------------- MODULE StickyCount -----------------------------
(***************************************************************************)
(* The sticky reference counter `Count` of internal/utils.rs.  One 32-bit  *)
(* word x carries the count, a zero flag (top bit) and a zero-pending flag *)
(* (next bit).  Every access to x is one atomic action; a call is the      *)
(* sequence of its accesses, so calls of different processes interleave.   *)
(***************************************************************************)
EXTENDS Integers

CONSTANTS Procs,      \* threads that use the counter
          PENDING,    \* zero_pending_flag(); 2^30 in the code
          MaxRefs,    \* references that may exist at once
          MaxFailed   \* increments that may be attempted on a dead counter

ASSUME FlagAssumption == PENDING \in Nat \ {0}
ASSUME BoundAssumption == MaxRefs \in Nat \ {0} /\ MaxFailed \in Nat

ZERO    == 2 * PENDING      \* zero_flag(), the top bit
MODULUS == 4 * PENDING      \* 2^width of the word

\* The bounds under which the bits below the flags cannot spill into them.
NoOverflow == MaxRefs < PENDING /\ MaxFailed < PENDING

VARIABLES x,          \* the atomic word
          pc,         \* where each process is inside decrement or load
          held,       \* history: references that exist
          credits,    \* history: decrements that returned true
          zeroSeen,   \* history: a call reported "the counter is zero"
          failed      \* history: increments that returned false

vars == <<x, pc, held, credits, zeroSeen, failed>>

HasZero(v)    == v >= ZERO
HasPending(v) == (v >= PENDING /\ v < ZERO) \/ v >= ZERO + PENDING

Init == /\ x = 1
        /\ pc = [p \in Procs |-> "idle"]
        /\ held = 1 /\ credits = 0 /\ zeroSeen = FALSE /\ failed = 0

Goto(p, l) == pc' = [pc EXCEPT ![p] = l]

------------------------------------------------------------------------------
\* Mutants: plausible slips in the code, one per property.

\* load returns 0 for a plain 0 without settling it.
LoadNoSettle(p) ==
  /\ pc[p] = "load" /\ zeroSeen' = TRUE /\ Goto(p, "idle")
  /\ UNCHANGED <<x, held, credits, failed>>

\* decrement stores the flag instead of comparing with 0 first.
DecCasBlind(p) ==
  /\ pc[p] = "cas" /\ x' = ZERO /\ credits' = credits + 1 /\ Goto(p, "idle")
  /\ UNCHANGED <<held, zeroSeen, failed>>

\* decrement gives up when its compare_exchange finds the flag already set.
DecCasGiveUp(p) ==
  /\ pc[p] = "cas" /\ Goto(p, "idle")
  /\ IF x = 0 THEN x' = ZERO /\ credits' = credits + 1 ELSE UNCHANGED <<x, credits>>
  /\ UNCHANGED <<held, zeroSeen, failed>>

\* The second decrementer trusts the flag it read instead of swapping it out.
DecSwapTrusting(p) ==
  /\ pc[p] = "swap" /\ x' = ZERO /\ credits' = credits + 1 /\ Goto(p, "idle")
  /\ UNCHANGED <<held, zeroSeen, failed>>

\* swap(0) instead of swap(zero_flag).
DecSwapClears(p) ==
  /\ pc[p] = "swap" /\ x' = 0 /\ Goto(p, "idle")
  /\ credits' = IF HasPending(x) THEN credits + 1 ELSE credits
  /\ UNCHANGED <<held, zeroSeen, failed>>
------------------------------------------------------------------------------
\* increment(1): one fetch_add, which also moves a dead counter.
Increment(p) ==
  /\ pc[p] = "idle"
  /\ x' = IF x + 1 = MODULUS THEN 0 ELSE x + 1
  /\ IF HasZero(x)
       THEN failed < MaxFailed /\ failed' = failed + 1
            /\ zeroSeen' = TRUE /\ held' = held
       ELSE held < MaxRefs /\ held' = held + 1 /\ UNCHANGED <<zeroSeen, failed>>
  /\ UNCHANGED <<pc, credits>>

\* decrement(1), the fetch_sub.  The caller owns the reference it gives up.
DecSub(p) ==
  /\ pc[p] = "idle" /\ held > 0
  /\ x' = IF x = 0 THEN MODULUS - 1 ELSE x - 1
  /\ held' = held - 1
  /\ Goto(p, IF x = 1 THEN "cas" ELSE "idle")
  /\ UNCHANGED <<credits, zeroSeen, failed>>

\* decrement, the compare_exchange(0, zero_flag) of the call that reached 0.
DecCas(p) ==
  /\ pc[p] = "cas"
  /\ IF x = 0
       THEN x' = ZERO /\ credits' = credits + 1 /\ Goto(p, "idle")
       ELSE UNCHANGED <<x, credits>> /\ Goto(p, IF HasPending(x) THEN "swap" ELSE "idle")
  /\ UNCHANGED <<held, zeroSeen, failed>>

\* decrement, the swap(zero_flag): whoever takes the pending flag wins.
DecSwap(p) ==
  /\ pc[p] = "swap"
  /\ x' = ZERO
  /\ credits' = IF HasPending(x) THEN credits + 1 ELSE credits
  /\ Goto(p, "idle")
  /\ UNCHANGED <<held, zeroSeen, failed>>

\* load, the first read; a plain 0 has to be settled by a compare_exchange.
Load(p) ==
  /\ pc[p] = "idle"
  /\ IF x = 0 THEN Goto(p, "load") /\ zeroSeen' = zeroSeen
              ELSE pc' = pc /\ zeroSeen' = IF HasZero(x) THEN TRUE ELSE zeroSeen
  /\ UNCHANGED <<x, held, credits, failed>>

\* load, the compare_exchange(0, zero_flag | zero_pending_flag).
LoadCas(p) ==
  /\ pc[p] = "load"
  /\ x' = IF x = 0 THEN ZERO + PENDING ELSE x
  /\ zeroSeen' = IF x = 0 \/ HasZero(x) THEN TRUE ELSE zeroSeen
  /\ Goto(p, "idle")
  /\ UNCHANGED <<held, credits, failed>>

\* The accesses a started call still has to make; the scheduler runs them.
Pending(p) == DecCas(p) \/ DecSwap(p) \/ LoadCas(p)
Call(p)    == Increment(p) \/ DecSub(p) \/ Load(p)

Next == \E p \in Procs : Call(p) \/ Pending(p)

Spec     == Init /\ [][Next]_vars
FairSpec == Spec /\ \A p \in Procs : WF_vars(Pending(p))
------------------------------------------------------------------------------
PCs == {"idle", "cas", "swap", "load"}

\* Every variable keeps its type; x stays a word of the code's width.
TypeOK == /\ x \in 0 .. MODULUS - 1
          /\ pc \in [Procs -> PCs]
          /\ held \in 0 .. MaxRefs
          /\ credits \in Nat
          /\ zeroSeen \in BOOLEAN
          /\ failed \in 0 .. MaxFailed

\* "If the current value is zero, it is guaranteed to remain zero" (load's doc):
\* once any call has reported zero, the zero flag stays and no reference exists.
ZeroIsSticky == zeroSeen => HasZero(x) /\ held = 0

\* A dead counter has no reference, and a live one counts them exactly: no
\* successful increment is ever lost to a racing decrement or load.
CountIsExact == IF HasZero(x) THEN held = 0 ELSE x = held

\* Never two calls of decrement return true: release_ref disposes and
\* release_weak destroys on it, so a second one would be a double free.
AtMostOneCredit == credits <= 1

\* A counter with no reference is always somebody's business: it is settled
\* and credited, or a decrement that must still look at it is in flight.
\* Otherwise the object would leak, with everybody idle and nobody told.
CreditNotLost ==
  held = 0 /\ credits = 0 => \E p \in Procs : pc[p] \in {"cas", "swap"}

\* The inductive invariant.
Undecided == /\ x = held /\ credits = 0 /\ ~zeroSeen
             /\ \A p \in Procs : pc[p] # "swap"
             /\ x = 0 => \E p \in Procs : pc[p] = "cas"
Decided   == /\ held = 0
             /\ IF HasPending(x)
                  THEN /\ credits = 0 /\ x <= ZERO + PENDING + failed
                       /\ \E p \in Procs : pc[p] \in {"cas", "swap"}
                  ELSE credits = 1 /\ x <= ZERO + failed
IInv == TypeOK /\ (IF HasZero(x) THEN Decided ELSE Undecided)

\* The counter implements the promise of StickyCountSpec.
Abs == INSTANCE StickyCountSpec WITH dead <- HasZero(x)
Refinement == Abs!Spec

\* Once the counter is dead some decrement is told so, whatever mixture of
\* loads and failed increments runs against it.
DeathIsCredited == HasZero(x) ~> credits = 1
==============================================================================
