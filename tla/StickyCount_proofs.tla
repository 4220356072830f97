------------------------- MODULE StickyCount_proofs -------------------------
(***************************************************************************)
(* Proofs about the sticky counter, for every set of processes and every   *)
(* word width, as long as fewer than PENDING references exist at once and  *)
(* fewer than PENDING increments fail (NoOverflow).                        *)
(***************************************************************************)
EXTENDS StickyCount, TLAPS

\* The initial counter, with its one reference, satisfies the invariant.
LEMMA InitIInv == ASSUME NoOverflow PROVE Init => IInv
<1> SUFFICES ASSUME Init PROVE IInv  OBVIOUS
<1> USE FlagAssumption, BoundAssumption
<1>1. TypeOK
  <2>1. x \in 0 .. MODULUS - 1  BY DEF Init, MODULUS
  <2>2. held \in 0 .. MaxRefs /\ failed \in 0 .. MaxFailed  BY DEF Init
  <2>3. pc \in [Procs -> PCs] /\ zeroSeen \in BOOLEAN /\ credits \in Nat  BY DEF Init, PCs
  <2> QED  BY <2>1, <2>2, <2>3 DEF TypeOK
<1>2. ~HasZero(x)  BY DEF Init, HasZero, ZERO
<1>3. Undecided  BY DEF Init, Undecided
<1> QED  BY <1>1, <1>2, <1>3 DEF IInv

\* Every access to the word preserves the invariant.
LEMMA NextIInv == ASSUME NoOverflow, IInv, [Next]_vars PROVE IInv'
<1> USE FlagAssumption, BoundAssumption
    DEF IInv, TypeOK, PCs, Decided, Undecided, HasZero, HasPending, ZERO, MODULUS,
        NoOverflow, Goto
<1>1. ASSUME NEW p \in Procs, Increment(p) PROVE IInv'
  <2>1. CASE HasZero(x)
    BY <1>1, <2>1 DEF Increment
  <2>2. CASE ~HasZero(x)
    BY <1>1, <2>2 DEF Increment
  <2> QED  BY <2>1, <2>2
<1>2. ASSUME NEW p \in Procs, DecSub(p) PROVE IInv'
  BY <1>2 DEF DecSub
<1>3. ASSUME NEW p \in Procs, DecCas(p) PROVE IInv'
  BY <1>3 DEF DecCas
<1>4. ASSUME NEW p \in Procs, DecSwap(p) PROVE IInv'
  BY <1>4 DEF DecSwap
<1>5. ASSUME NEW p \in Procs, Load(p) PROVE IInv'
  BY <1>5 DEF Load
<1>6. ASSUME NEW p \in Procs, LoadCas(p) PROVE IInv'
  <2>1. CASE x = 0
    BY <1>6, <2>1 DEF LoadCas
  <2>2. CASE x # 0
    BY <1>6, <2>2 DEF LoadCas
  <2> QED  BY <2>1, <2>2
<1>7. CASE UNCHANGED vars
  BY <1>7 DEF vars
<1> QED
  BY <1>1, <1>2, <1>3, <1>4, <1>5, <1>6, <1>7 DEF Next, Call, Pending

\* The inductive invariant holds in every reachable state.
THEOREM Invariance == ASSUME NoOverflow PROVE Spec => []IInv
<1>1. Init => IInv  BY InitIInv
<1>2. IInv /\ [Next]_vars => IInv'  BY NextIInv
<1> QED  BY <1>1, <1>2, PTL DEF Spec

\* What the inductive invariant says of the counter.
LEMMA Consequences ==
  ASSUME NoOverflow, IInv
  PROVE  ZeroIsSticky /\ CountIsExact /\ AtMostOneCredit /\ CreditNotLost
<1> USE FlagAssumption, BoundAssumption
<1>1. ZeroIsSticky
  BY DEF IInv, TypeOK, ZeroIsSticky, Decided, Undecided
<1>2. CountIsExact /\ AtMostOneCredit
  BY DEF IInv, TypeOK, CountIsExact, AtMostOneCredit, Decided, Undecided
<1>3. CreditNotLost
  BY DEF IInv, TypeOK, CreditNotLost, Decided, Undecided
<1> QED  BY <1>1, <1>2, <1>3

\* At most one decrement is told to clean up, and while nobody has been told of
\* a counter without references, some decrement still has to look at it.
THEOREM CreditedOnce == ASSUME NoOverflow PROVE Spec => [](AtMostOneCredit /\ CreditNotLost)
<1>1. IInv => AtMostOneCredit /\ CreditNotLost  BY Consequences
<1> QED  BY <1>1, Invariance, PTL

\* Once a call has reported zero, the counter stays at zero.
THEOREM ZeroForGood == ASSUME NoOverflow PROVE Spec => []ZeroIsSticky
<1>1. IInv => ZeroIsSticky  BY Consequences
<1> QED  BY <1>1, Invariance, PTL

\* A live counter is the number of references, and a dead one has none.
THEOREM ExactCount == ASSUME NoOverflow PROVE Spec => []CountIsExact
<1>1. IInv => CountIsExact  BY Consequences
<1> QED  BY <1>1, Invariance, PTL

\* Each access of the code is a step of the abstract counter, or invisible.
LEMMA NextRefines == ASSUME NoOverflow, IInv, [Next]_vars PROVE [Abs!Next]_(Abs!vars)
<1> USE FlagAssumption, BoundAssumption
    DEF IInv, TypeOK, PCs, HasZero, HasPending, ZERO, MODULUS, NoOverflow, Goto,
        Abs!Next, Abs!vars
<1>1. ASSUME NEW p \in Procs, Increment(p) PROVE [Abs!Next]_(Abs!vars)
  <2>1. CASE HasZero(x)
    <3>1. x' >= ZERO  BY <1>1, <2>1 DEF Increment, Decided
    <3> QED  BY <1>1, <2>1, <3>1 DEF Increment, Abs!ObserveZero
  <2>2. CASE ~HasZero(x)
    BY <1>1, <2>2 DEF Increment, Undecided, Abs!Acquire
  <2> QED  BY <2>1, <2>2
<1>2. ASSUME NEW p \in Procs, DecSub(p) PROVE [Abs!Next]_(Abs!vars)
  BY <1>2 DEF DecSub, Decided, Undecided, Abs!Release
<1>3. ASSUME NEW p \in Procs, DecCas(p) PROVE [Abs!Next]_(Abs!vars)
  BY <1>3 DEF DecCas, Undecided, Abs!Die
<1>4. ASSUME NEW p \in Procs, DecSwap(p) PROVE [Abs!Next]_(Abs!vars)
  BY <1>4 DEF DecSwap, Decided, Undecided, Abs!Credit
<1>5. ASSUME NEW p \in Procs, Load(p) PROVE [Abs!Next]_(Abs!vars)
  BY <1>5 DEF Load, Abs!ObserveZero
<1>6. ASSUME NEW p \in Procs, LoadCas(p) PROVE [Abs!Next]_(Abs!vars)
  <2>1. CASE x = 0
    <3>1. ~(x >= ZERO) /\ x' >= ZERO  BY <1>6, <2>1 DEF LoadCas
    <3>2. held = 0  BY <2>1, <3>1 DEF Undecided
    <3>3. zeroSeen' = TRUE /\ UNCHANGED <<held, credits>>  BY <1>6, <2>1 DEF LoadCas
    <3> QED  BY <3>1, <3>2, <3>3 DEF Abs!Die
  <2>2. CASE x # 0
    <3>1. UNCHANGED <<x, held, credits>>  BY <1>6, <2>2 DEF LoadCas
    <3>2. CASE HasZero(x)
      BY <1>6, <2>2, <3>1, <3>2 DEF LoadCas, Abs!ObserveZero
    <3>3. CASE ~HasZero(x)
      <4>1. zeroSeen' = zeroSeen  BY <1>6, <2>2, <3>3 DEF LoadCas
      <4> QED  BY <3>1, <4>1
    <3> QED  BY <3>2, <3>3
  <2> QED  BY <2>1, <2>2
<1>7. CASE UNCHANGED vars
  BY <1>7 DEF vars
<1> QED
  BY <1>1, <1>2, <1>3, <1>4, <1>5, <1>6, <1>7 DEF Next, Call, Pending

\* The lock-free counter implements the abstract one.
THEOREM Implements == ASSUME NoOverflow PROVE Spec => Abs!SafetySpec
<1>1. Init => Abs!Init
  BY FlagAssumption DEF Init, Abs!Init, HasZero, ZERO
<1>2. IInv /\ [Next]_vars => [Abs!Next]_(Abs!vars)  BY NextRefines
<1> QED  BY <1>1, <1>2, Invariance, PTL DEF Spec, Abs!SafetySpec
=============================================================================
