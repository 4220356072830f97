----------------------------- MODULE EBR_proofs -----------------------------
(***************************************************************************)
(* The grace period of the epoch-based collector, the place of each        *)
(* deferred function and the implementation of Reclamation, for any number *)
(* of threads, deferred functions, bag sizes and epochs.                   *)
(***************************************************************************)
EXTENDS EBR, FiniteSetTheorems, TLAPS

\* The successor is another epoch, and two epochs ahead is not the same one.
LEMMA SuccType == \A e \in Epochs : Succ(e) \in Epochs /\ Succ(e) # e /\ Succ(Succ(e)) # e
  BY EpochAssumption DEF Succ, Epochs, M

\* There is a first epoch.
LEMMA ZeroEpoch == 0 \in Epochs /\ Unpinned \notin Epochs
  BY EpochAssumption DEF Epochs, M, Unpinned

\* The head and the tail of a non-empty sequence.
LEMMA QueueHead == ASSUME NEW S, NEW q \in Seq(S), q # <<>>
                   PROVE  /\ Head(q) \in S /\ Tail(q) \in Seq(S)
                          /\ Head(q) = q[1] /\ 1 \in 1 .. Len(q)
  OBVIOUS

\* Two epochs near two pins that are both near the global epoch are less than
\* three apart, so is_expired tells a used bag from a free one.
LEMMA DistNear ==
  ASSUME NEW g \in Epochs, NEW k \in Epochs, NEW l \in Epochs,
         g \in {k, Succ(k)}, g \in {l, Succ(l)},
         NEW a \in {k, Succ(k)}, NEW b \in {l, Succ(l)}
  PROVE  ~(Dist(a, b) >= 3)
  BY EpochAssumption DEF Dist, Succ, Epochs, M

\* What try_advance knows when it stores: it was pinned in the epoch it read,
\* and either nobody advanced since and everybody is pinned in that epoch, or
\* somebody advanced once and the store changes nothing.
LEMMA AdvanceFacts ==
  ASSUME IInv, NEW t \in Threads, Advance(t)
  PROVE  /\ gr[t] = local[t] /\ gr[t] \in Epochs /\ global' = Succ(gr[t])
         /\ \/ global = gr[t] /\ \A u \in Threads : Binding(u) => local[u] = gr[t]
            \/ global' = global
<1>1. Binding(t) /\ t \notin todo[t]
  BY DEF IInv, ControlOK, Advance, Binding, InGuard, Working
<1>2. gr[t] = local[t] /\ Near(global, t) /\ global' = Succ(gr[t])
  BY <1>1 DEF IInv, ScanOK, SkewOK, Advance
<1>3. \A u \in Threads : u \notin todo[t]
  BY DEF Advance
<1> QED
  BY <1>1, <1>2, <1>3 DEF IInv, TypeOK, ScanOK, SkewOK, Near, Advance

\* Every step keeps the types.
LEMMA TypeOK_Step == ASSUME IInv, NEW t \in Threads, Step(t) PROVE TypeOK'
<1> USE EpochAssumption, ItemAssumption, SuccType
    DEF IInv, TypeOK, PCs, Modes, SealedBag, Unpinned,
        Goto, thr, bags, coll, hist
<1>1. CASE Pinning(t)
  <2>1. CASE Pin(t)
    BY <2>1 DEF Pin
  <2>2. CASE PinLoad(t)
    BY <2>2 DEF PinLoad
  <2>3. CASE PinStore(t)
    BY <2>3 DEF PinStore
  <2>4. CASE PinCheck(t)
    BY <2>4 DEF PinCheck
  <2>5. CASE PinUndo(t)
    BY <2>5 DEF PinUndo
  <2>6. CASE PinNested(t)
    BY <2>6 DEF PinNested
  <2> QED  BY <1>1, <2>1, <2>2, <2>3, <2>4, <2>5, <2>6 DEF Pinning
<1>2. CASE Unpinning(t)
  <2>1. CASE UnpinNested(t)
    BY <2>1 DEF UnpinNested
  <2>2. CASE Unpin(t)
    <3>1. guards' \in [Threads -> Nat]
      <4>1. guards' = [guards EXCEPT ![t] = 0] \/ guards' = [guards EXCEPT ![t] = 1]
        BY <2>2 DEF Unpin, StartFinalize
      <4>2. guards \in [Threads -> Nat]  OBVIOUS
      <4> HIDE DEF IInv
      <4> QED  BY <4>1, <4>2
    <3>2. pc' \in [Threads -> PCs]
      <4>1. pc' = pc \/ pc' = [pc EXCEPT ![t] = "pin"]
        BY <2>2 DEF Unpin, StartFinalize
      <4>2. pc \in [Threads -> PCs]  OBVIOUS
      <4> HIDE DEF IInv
      <4> QED  BY <4>1, <4>2
    <3>3. mode' \in [Threads -> Modes]
      <4>1. mode' = mode \/ mode' = [mode EXCEPT ![t] = "fin"]
        BY <2>2 DEF Unpin, StartFinalize
      <4>2. mode \in [Threads -> Modes]  OBVIOUS
      <4> HIDE DEF IInv
      <4> QED  BY <4>1, <4>2
    <3> QED  BY <2>2, <3>1, <3>2, <3>3 DEF Unpin, Forget
  <2>3. CASE RepinAfter(t)
    BY <2>3 DEF RepinAfter, Forget
  <2>4. CASE Repin(t)
    BY <2>4 DEF Repin, Forget
  <2>5. CASE RepinStore(t)
    BY <2>5 DEF RepinStore
  <2> QED  BY <1>2, <2>1, <2>2, <2>3, <2>4, <2>5 DEF Unpinning
<1>3. CASE Lifetime(t)
  <2>1. CASE Register(t)
    BY <2>1 DEF Register
  <2>2. CASE ReleaseHandle(t)
    <3>1. guards' \in [Threads -> Nat]
      <4>1. guards' = guards \/ guards' = [guards EXCEPT ![t] = 1]
        BY <2>2 DEF ReleaseHandle, StartFinalize
      <4>2. guards \in [Threads -> Nat]  OBVIOUS
      <4> HIDE DEF IInv
      <4> QED  BY <4>1, <4>2
    <3>2. pc' \in [Threads -> PCs]
      <4>1. pc' = pc \/ pc' = [pc EXCEPT ![t] = "pin"]
        BY <2>2 DEF ReleaseHandle, StartFinalize
      <4>2. pc \in [Threads -> PCs]  OBVIOUS
      <4> HIDE DEF IInv
      <4> QED  BY <4>1, <4>2
    <3>3. mode' \in [Threads -> Modes]
      <4>1. mode' = mode \/ mode' = [mode EXCEPT ![t] = "fin"]
        BY <2>2 DEF ReleaseHandle, StartFinalize
      <4>2. mode \in [Threads -> Modes]  OBVIOUS
      <4> HIDE DEF IInv
      <4> QED  BY <4>1, <4>2
    <3> QED  BY <2>2, <3>1, <3>2, <3>3 DEF ReleaseHandle
  <2>3. CASE FinPush(t)
    BY <2>3 DEF FinPush
  <2>4. CASE FinUnpin(t)
    BY <2>4 DEF FinUnpin, Forget
  <2>5. CASE FinDelete(t)
    BY <2>5 DEF FinDelete
  <2> QED  BY <1>3, <2>1, <2>2, <2>3, <2>4, <2>5 DEF Lifetime
<1>0. ASSUME NEW i \in Items, PutInBag(t, i), Ready(t) \/ pc[t] = "popped" PROVE TypeOK'
  <2>1. bag' \in [Threads -> SUBSET Items]
    <3>1. bag' = bag \/ bag' = [bag EXCEPT ![t] = bag[t] \union {i}]
      BY <1>0 DEF PutInBag
    <3>2. bag[t] \union {i} \in SUBSET Items
      OBVIOUS
    <3>3. bag \in [Threads -> SUBSET Items]  OBVIOUS
    <3> HIDE DEF IInv
    <3> QED  BY <3>1, <3>2, <3>3
  <2>2. arg' \in [Threads -> Items \union {NoItem}]
    <3>1. arg' = arg \/ arg' = [arg EXCEPT ![t] = i]
      BY <1>0 DEF PutInBag
    <3>2. arg \in [Threads -> Items \union {NoItem}]  OBVIOUS
    <3> HIDE DEF IInv
    <3> QED  BY <3>1, <3>2
  <2>3. pc' \in [Threads -> PCs]
    <3>1. pc' = [pc EXCEPT ![t] = "count"] \/ pc' = [pc EXCEPT ![t] = "seal"]
      BY <1>0 DEF PutInBag
    <3>2. pc \in [Threads -> PCs]  OBVIOUS
    <3> HIDE DEF IInv
    <3> QED  BY <3>1, <3>2
  <2>4. wit' \in [Items -> SUBSET Threads] /\ deferred' \subseteq Items
    BY <1>0 DEF PutInBag, Guarded
  <2> QED  BY <1>0, <2>1, <2>2, <2>3, <2>4 DEF PutInBag
<1>4. CASE Deferring(t)
  <2>1. ASSUME NEW i \in Items, Defer(t, i) PROVE TypeOK'
    BY <1>0, <2>1 DEF Defer
  <2>2. CASE Flush(t)
    BY <2>2 DEF Flush, FlushBag, Ready, Ret
  <2>3. CASE PushToGlobal(t)
    BY <2>3 DEF PushToGlobal, FlushBag, Ready, Ret
  <2>4. CASE Seal(t)
    BY <2>4 DEF Seal
  <2>5. CASE Push(t)
    <3>1. queue' \in Seq(SealedBag) /\ sealed' \in [Threads -> SealedBag]
      BY <2>5, ZeroEpoch DEF Push
    <3>2. bag' \in [Threads -> SUBSET Items] /\ arg' \in [Threads -> Items \union {NoItem}]
      BY <2>5 DEF Push
    <3>3. pc' \in [Threads -> PCs]
      BY <2>5 DEF Push, Ret
    <3> QED  BY <2>5, <3>1, <3>2, <3>3 DEF Push
  <2>6. CASE CountNothing(t)
    BY <2>6 DEF CountNothing, Ret
  <2>7. CASE Count(t)
    BY <2>7 DEF Count
  <2>8. CASE CountBag(t)
    BY <2>8 DEF CountBag
  <2> QED  BY <1>4, <2>1, <2>2, <2>3, <2>4, <2>5, <2>6, <2>7, <2>8 DEF Deferring
<1>5. CASE Collecting(t)
  <2>1. ASSUME NEW u \in Threads, Scan(t, u) PROVE TypeOK'
    BY <2>1 DEF Scan
  <2>2. CASE ScanFail(t)
    <3>1. pc' \in [Threads -> PCs]
      <4>1. \E l \in {"idle", "discount", "run", "loop"} : pc' = [pc EXCEPT ![t] = l]
        BY <2>2 DEF ScanFail, Advanced, Ret
      <4>2. pc \in [Threads -> PCs]  OBVIOUS
      <4> HIDE DEF IInv
      <4> QED  BY <4>1, <4>2
    <3>2. cgr' \in [Threads -> Epochs]
      <4>1. cgr' = cgr \/ cgr' = [cgr EXCEPT ![t] = gr[t]]
        BY <2>2 DEF ScanFail, Advanced
      <4>2. cgr \in [Threads -> Epochs]  OBVIOUS
      <4>3. gr[t] \in Epochs  OBVIOUS
      <4> HIDE DEF IInv
      <4> QED  BY <4>1, <4>2, <4>3
    <3>3. trials' \in [Threads -> Nat]
      <4>1. trials' = trials \/ trials' = [trials EXCEPT ![t] = TRIALS]
        BY <2>2 DEF ScanFail, Advanced
      <4>2. trials \in [Threads -> Nat]  OBVIOUS
      <4> HIDE DEF IInv
      <4> QED  BY <4>1, <4>2, SizeAssumption
    <3>4. collecting' \in [Threads -> BOOLEAN]
      BY <2>2 DEF ScanFail, Advanced
    <3> QED  BY <2>2, <3>1, <3>2, <3>3, <3>4 DEF ScanFail
  <2>3. CASE Advance(t)
    <3>1. pc' \in [Threads -> PCs]
      <4>1. \E l \in {"idle", "discount", "run", "loop"} : pc' = [pc EXCEPT ![t] = l]
        BY <2>3 DEF Advance, Advanced, Ret
      <4>2. pc \in [Threads -> PCs]  OBVIOUS
      <4> HIDE DEF IInv
      <4> QED  BY <4>1, <4>2
    <3>2. cgr' \in [Threads -> Epochs]
      <4>1. cgr' = cgr \/ cgr' = [cgr EXCEPT ![t] = Succ(gr[t])]
        BY <2>3 DEF Advance, Advanced
      <4>2. cgr \in [Threads -> Epochs]  OBVIOUS
      <4>3. Succ(gr[t]) \in Epochs  OBVIOUS
      <4> HIDE DEF IInv
      <4> QED  BY <4>1, <4>2, <4>3
    <3>3. trials' \in [Threads -> Nat]
      <4>1. trials' = trials \/ trials' = [trials EXCEPT ![t] = TRIALS]
        BY <2>3 DEF Advance, Advanced
      <4>2. trials \in [Threads -> Nat]  OBVIOUS
      <4> HIDE DEF IInv
      <4> QED  BY <4>1, <4>2, SizeAssumption
    <3>4. collecting' \in [Threads -> BOOLEAN]
      BY <2>3 DEF Advance, Advanced
    <3> QED  BY <2>3, <3>1, <3>2, <3>3, <3>4 DEF Advance
  <2>4. CASE Pop(t)
    <3>1. Head(queue) \in SealedBag /\ queue' \in Seq(SealedBag)
      BY <2>4, QueueHead DEF Pop, CanPop
    <3>2. trials[t] \in Nat /\ trials[t] > 0 /\ trials' = [trials EXCEPT ![t] = trials[t] - 1]
      BY <2>4 DEF Pop, CanPop
    <3>3. trials' \in [Threads -> Nat]
      BY <3>2
    <3>4. run' \in [Threads -> SUBSET Items] /\ pc' \in [Threads -> PCs]
      BY <2>4, <3>1 DEF Pop
    <3> QED  BY <2>4, <3>1, <3>3, <3>4 DEF Pop
  <2>5. CASE CollectEnd(t)
    BY <2>5 DEF CollectEnd
  <2>6. ASSUME NEW i \in Items, Execute(t, i) PROVE TypeOK'
    BY <2>6 DEF Execute
  <2>7. CASE BagDropped(t)
    BY <2>7 DEF BagDropped
  <2>8. ASSUME NEW i \in Nodes, DeferNode(t, i) PROVE TypeOK'
    BY <1>0, <2>8, ItemAssumption DEF DeferNode
  <2>9. CASE LeakNode(t)
    BY <2>9 DEF LeakNode
  <2>10. CASE Discount(t)
    BY <2>10 DEF Discount
  <2> QED  BY <1>5, <2>1, <2>2, <2>3, <2>4, <2>5, <2>6, <2>7, <2>8, <2>9, <2>10 DEF Collecting
<1> QED  BY <1>1, <1>2, <1>3, <1>4, <1>5 DEF Step

\* Every step keeps the control facts: who holds guards, handles, is collecting.
LEMMA ControlOK_Step == ASSUME IInv, NEW t \in Threads, Step(t) PROVE ControlOK'
<1> USE EpochAssumption, ItemAssumption, SuccType
    DEF IInv, TypeOK, ControlOK, Working, PinLoop,
        Goto, thr, bags, coll, hist
<1>1. CASE Pinning(t)
  <2>1. CASE Pin(t)
    BY <2>1 DEF Pin
  <2>2. CASE PinLoad(t)
    BY <2>2 DEF PinLoad
  <2>3. CASE PinStore(t)
    BY <2>3 DEF PinStore
  <2>4. CASE PinCheck(t)
    BY <2>4 DEF PinCheck
  <2>5. CASE PinUndo(t)
    BY <2>5 DEF PinUndo
  <2>6. CASE PinNested(t)
    BY <2>6 DEF PinNested
  <2> QED  BY <1>1, <2>1, <2>2, <2>3, <2>4, <2>5, <2>6 DEF Pinning
<1>2. CASE Unpinning(t)
  BY <1>2 DEF Unpinning, UnpinNested, Unpin, StartFinalize, Forget, RepinAfter, Repin, RepinStore
<1>3. CASE Lifetime(t)
  <2>1. CASE Register(t)
    BY <2>1 DEF Register
  <2>2. CASE ReleaseHandle(t)
    BY <2>2 DEF ReleaseHandle, StartFinalize
  <2>3. CASE FinPush(t)
    BY <2>3 DEF FinPush
  <2>4. CASE FinUnpin(t)
    BY <2>4 DEF FinUnpin, Forget
  <2>5. CASE FinDelete(t)
    BY <2>5 DEF FinDelete
  <2> QED  BY <1>3, <2>1, <2>2, <2>3, <2>4, <2>5 DEF Lifetime
<1>4. CASE Deferring(t)
  BY <1>4 DEF Deferring, Defer, PutInBag, Ready, Guarded, InGuard, Flush, FlushBag, Ret, PushToGlobal, CountBag, Seal, Push, CountNothing, Count
<1>5. CASE Collecting(t)
  BY <1>5 DEF Collecting, Scan, ScanFail, Advanced, Ret, Advance, Pop, DeferNode, PutInBag, LeakNode, Discount, Ready,
        CollectEnd, Execute, BagDropped
<1> QED  BY <1>1, <1>2, <1>3, <1>4, <1>5 DEF Step

\* Every step keeps a binding local epoch within one of the global epoch.
LEMMA SkewOK_Step == ASSUME IInv, NEW t \in Threads, Step(t) PROVE SkewOK'
<1> USE EpochAssumption, ItemAssumption, SuccType
    DEF IInv, TypeOK, SkewOK, Near, Binding, InGuard,
        Goto, thr, bags, coll, hist
<1>1. CASE Pinning(t)
  <2>1. CASE Pin(t)
    BY <2>1 DEF Pin
  <2>2. CASE PinLoad(t)
    BY <2>2 DEF PinLoad
  <2>3. CASE PinStore(t)
    BY <2>3 DEF PinStore
  <2>4. CASE PinCheck(t)
    <3>1. CASE local[t] = global
      BY <2>4, <3>1 DEF PinCheck
    <3>2. CASE ~(local[t] = global)
      BY <2>4, <3>2 DEF PinCheck
    <3> QED  BY <3>1, <3>2
  <2>5. CASE PinUndo(t)
    BY <2>5 DEF PinUndo
  <2>6. CASE PinNested(t)
    BY <2>6 DEF PinNested
  <2> QED  BY <1>1, <2>1, <2>2, <2>3, <2>4, <2>5, <2>6 DEF Pinning
<1>2. CASE Unpinning(t)
  <2>1. CASE UnpinNested(t)
    BY <2>1 DEF UnpinNested
  <2>2. CASE Unpin(t)
    BY <2>2 DEF Unpin, StartFinalize, Forget
  <2>3. CASE RepinAfter(t)
    BY <2>3 DEF RepinAfter, Forget
  <2>4. CASE Repin(t)
    BY <2>4 DEF Repin, Forget
  <2>5. CASE RepinStore(t)
    BY <2>5 DEF RepinStore, RepinOK, ReadOK, ControlOK
  <2> QED  BY <1>2, <2>1, <2>2, <2>3, <2>4, <2>5 DEF Unpinning
<1>3. CASE Lifetime(t)
  <2>1. CASE Register(t)
    BY <2>1 DEF Register
  <2>2. CASE ReleaseHandle(t)
    BY <2>2 DEF ReleaseHandle, StartFinalize
  <2>3. CASE FinPush(t)
    BY <2>3 DEF FinPush
  <2>4. CASE FinUnpin(t)
    BY <2>4 DEF FinUnpin, Forget
  <2>5. CASE FinDelete(t)
    BY <2>5 DEF FinDelete
  <2> QED  BY <1>3, <2>1, <2>2, <2>3, <2>4, <2>5 DEF Lifetime
<1>4. CASE Deferring(t)
  BY <1>4 DEF Deferring, Defer, PutInBag, Ready, Guarded, InGuard, Flush, FlushBag, Ret, PushToGlobal, CountBag, Seal, Push, CountNothing, Count
<1>5. CASE Collecting(t)
  <2>1. ASSUME NEW u \in Threads, Scan(t, u) PROVE SkewOK'
    BY <2>1 DEF Scan
  <2>2. CASE ScanFail(t)
    BY <2>2 DEF ScanFail, Advanced, Ret
  <2>3. CASE Advance(t)
    <3>1. \A u \in Threads : Binding(u)' => Binding(u) /\ local'[u] = local[u]
      BY <2>3 DEF Advance, Advanced, Ret
    <3> QED  BY <2>3, <3>1, AdvanceFacts DEF Advance
  <2>4. CASE Pop(t)
    BY <2>4 DEF Pop
  <2>5. CASE CollectEnd(t)
    BY <2>5 DEF CollectEnd
  <2>6. ASSUME NEW i \in Items, Execute(t, i) PROVE SkewOK'
    BY <2>6 DEF Execute
  <2>7. CASE BagDropped(t)
    BY <2>7 DEF BagDropped
  <2>8. ASSUME NEW i \in Nodes, DeferNode(t, i) PROVE SkewOK'
    BY <2>8 DEF DeferNode, PutInBag
  <2>9. CASE LeakNode(t)
    BY <2>9 DEF LeakNode
  <2>10. CASE Discount(t)
    BY <2>10 DEF Discount
  <2> QED  BY <1>5, <2>1, <2>2, <2>3, <2>4, <2>5, <2>6, <2>7, <2>8, <2>9, <2>10 DEF Collecting
<1> QED  BY <1>1, <1>2, <1>3, <1>4, <1>5 DEF Step

\* Every step keeps the facts try_advance has gathered so far.
LEMMA ScanOK_Step == ASSUME IInv, NEW t \in Threads, Step(t) PROVE ScanOK'
<1> USE EpochAssumption, ItemAssumption, SuccType
    DEF IInv, TypeOK, ScanOK, ReadOK, Near, SkewOK, Binding, InGuard,
        Goto, thr, bags, coll, hist
<1>1. CASE Pinning(t)
  <2>1. CASE Pin(t)
    BY <2>1 DEF Pin
  <2>2. CASE PinLoad(t)
    BY <2>2 DEF PinLoad
  <2>3. CASE PinStore(t)
    BY <2>3 DEF PinStore
  <2>4. CASE PinCheck(t)
    <3>1. CASE local[t] = global
      BY <2>4, <3>1 DEF PinCheck
    <3>2. CASE ~(local[t] = global)
      BY <2>4, <3>2 DEF PinCheck
    <3> QED  BY <3>1, <3>2
  <2>5. CASE PinUndo(t)
    BY <2>5 DEF PinUndo
  <2>6. CASE PinNested(t)
    BY <2>6 DEF PinNested
  <2> QED  BY <1>1, <2>1, <2>2, <2>3, <2>4, <2>5, <2>6 DEF Pinning
<1>2. CASE Unpinning(t)
  <2>1. CASE UnpinNested(t)
    BY <2>1 DEF UnpinNested
  <2>2. CASE Unpin(t)
    <3>1. ASSUME NEW v \in Threads PROVE Binding(v)' => Binding(v) /\ v # t
      BY <2>2 DEF Unpin, StartFinalize
    <3>2. \A v \in Threads : pc'[v] = "scan" => pc[v] = "scan" /\ v # t
      BY <2>2 DEF Unpin, StartFinalize
    <3> QED  BY <2>2, <3>1, <3>2 DEF Unpin, Forget
  <2>3. CASE RepinAfter(t)
    BY <2>3 DEF RepinAfter, Forget
  <2>4. CASE Repin(t)
    BY <2>4 DEF Repin, Forget
  <2>5. CASE RepinStore(t)
    BY <2>5 DEF RepinStore, RepinOK, ControlOK
  <2> QED  BY <1>2, <2>1, <2>2, <2>3, <2>4, <2>5 DEF Unpinning
<1>3. CASE Lifetime(t)
  <2>1. CASE Register(t)
    BY <2>1 DEF Register
  <2>2. CASE ReleaseHandle(t)
    <3>1. ASSUME NEW v \in Threads PROVE Binding(v)' => Binding(v)
      BY <2>2 DEF ReleaseHandle, StartFinalize
    <3>2. \A v \in Threads : pc'[v] = "scan" => pc[v] = "scan"
      BY <2>2 DEF ReleaseHandle, StartFinalize
    <3> QED  BY <2>2, <3>1, <3>2 DEF ReleaseHandle
  <2>3. CASE FinPush(t)
    BY <2>3 DEF FinPush
  <2>4. CASE FinUnpin(t)
    BY <2>4 DEF FinUnpin, Forget
  <2>5. CASE FinDelete(t)
    BY <2>5 DEF FinDelete
  <2> QED  BY <1>3, <2>1, <2>2, <2>3, <2>4, <2>5 DEF Lifetime
<1>0. ASSUME NEW i \in Items, PutInBag(t, i), Ready(t) \/ pc[t] = "popped" PROVE ScanOK'
  <2>1. ASSUME NEW v \in Threads PROVE Binding(v)' => Binding(v)
    BY <1>0 DEF PutInBag, Ready
  <2>2. \A v \in Threads : pc'[v] = "scan" => pc[v] = "scan"
    BY <1>0 DEF PutInBag, Ready
  <2> QED  BY <1>0, <2>1, <2>2 DEF PutInBag
<1>4. CASE Deferring(t)
  <2>1. ASSUME NEW i \in Items, Defer(t, i) PROVE ScanOK'
    BY <1>0, <2>1 DEF Defer
  <2>2. CASE Flush(t)
    BY <2>2 DEF Flush, FlushBag, Ready, Ret
  <2>3. CASE PushToGlobal(t)
    BY <2>3 DEF PushToGlobal, FlushBag, Ready, Ret
  <2>4. CASE Seal(t)
    BY <2>4 DEF Seal
  <2>5. CASE Push(t)
    BY <2>5 DEF Push, Ret
  <2>6. CASE CountNothing(t)
    BY <2>6 DEF CountNothing, Ret
  <2>7. CASE Count(t)
    <3>1. guards[t] > 0 /\ \A u \in Threads : Binding(u) => reg[u] = "in"
      BY <2>7 DEF Count, ControlOK, Working
    <3>2. ASSUME NEW v \in Threads PROVE Binding(v)' <=> Binding(v)
      BY <2>7 DEF Count
    <3> QED  BY <2>7, <3>1, <3>2 DEF Count
  <2>8. CASE CountBag(t)
    BY <2>8 DEF CountBag
  <2> QED  BY <1>4, <2>1, <2>2, <2>3, <2>4, <2>5, <2>6, <2>7, <2>8 DEF Deferring
<1>5. CASE Collecting(t)
  <2>1. ASSUME NEW u \in Threads, Scan(t, u) PROVE ScanOK'
    <3>1. reg[u] = "gone" => ~Binding(u)
      BY DEF ControlOK
    <3>2. Binding(u) => local[u] = gr[t]
      BY <2>1, <3>1, ZeroEpoch DEF Scan, MayPass
    <3>3. ASSUME NEW v \in Threads PROVE Binding(v)' <=> Binding(v)
      BY <2>1 DEF Scan
    <3>4. Binding(t)
      BY <2>1 DEF Scan, ControlOK, Working
    <3> QED  BY <2>1, <3>2, <3>3, <3>4 DEF Scan
  <2>2. CASE ScanFail(t)
    <3>1. ASSUME NEW v \in Threads PROVE Binding(v)' <=> Binding(v)
      BY <2>2 DEF ScanFail, Advanced, Ret
    <3>2. pc'[t] # "scan" /\ \A v \in Threads \ {t} : pc'[v] = pc[v] /\ todo'[v] = todo[v]
      BY <2>2 DEF ScanFail, Advanced, Ret
    <3> QED  BY <2>2, <3>1, <3>2 DEF ScanFail
  <2>3. CASE Advance(t)
    <3>1. ASSUME NEW v \in Threads PROVE Binding(v)' <=> Binding(v)
      BY <2>3 DEF Advance, Advanced, Ret
    <3>2. pc'[t] # "scan" /\ \A v \in Threads \ {t} : pc'[v] = pc[v]
      BY <2>3 DEF Advance, Advanced, Ret
    <3>3. \A v \in Threads : pc[v] = "scan" => Binding(v)
      BY DEF ControlOK, Working
    <3>4. UNCHANGED <<local, gr, todo>>
      BY <2>3 DEF Advance
    <3>5. CASE global' = global
      BY <3>1, <3>2, <3>4, <3>5
    <3>6. CASE global = gr[t] /\ \A u \in Threads : Binding(u) => local[u] = gr[t]
      <4>1. ASSUME NEW v \in Threads, pc[v] = "scan" PROVE gr[v] = local[v] /\ local[v] = gr[t]
        BY <3>3, <3>6, <4>1
      <4>2. global' = Succ(gr[t]) /\ gr[t] \in Epochs
        BY <2>3, AdvanceFacts
      <4> QED  BY <3>2, <3>4, <4>1, <4>2
    <3> QED  BY <2>3, <3>5, <3>6, AdvanceFacts
  <2>4. CASE Pop(t)
    BY <2>4 DEF Pop
  <2>5. CASE CollectEnd(t)
    BY <2>5 DEF CollectEnd
  <2>6. ASSUME NEW i \in Items, Execute(t, i) PROVE ScanOK'
    BY <2>6 DEF Execute
  <2>7. CASE BagDropped(t)
    BY <2>7 DEF BagDropped
  <2>8. ASSUME NEW i \in Nodes, DeferNode(t, i) PROVE ScanOK'
    BY <1>0, <2>8, ItemAssumption DEF DeferNode
  <2>9. CASE LeakNode(t)
    BY <2>9 DEF LeakNode
  <2>10. CASE Discount(t)
    BY <2>10 DEF Discount
  <2> QED  BY <1>5, <2>1, <2>2, <2>3, <2>4, <2>5, <2>6, <2>7, <2>8, <2>9, <2>10 DEF Collecting
<1> QED  BY <1>1, <1>2, <1>3, <1>4, <1>5 DEF Step

\* Every step keeps the epoch that repin read valid.
LEMMA RepinOK_Step == ASSUME IInv, NEW t \in Threads, Step(t) PROVE RepinOK'
<1> USE EpochAssumption, ItemAssumption, SuccType
    DEF IInv, TypeOK, RepinOK, ReadOK, Near, SkewOK, Binding, InGuard,
        Goto, thr, bags, coll, hist
<1>1. CASE Pinning(t)
  BY <1>1 DEF Pinning, Pin, PinLoad, PinStore, PinCheck, PinUndo, PinNested
<1>2. CASE Unpinning(t)
  <2>1. CASE UnpinNested(t)
    BY <2>1 DEF UnpinNested
  <2>2. CASE Unpin(t)
    BY <2>2 DEF Unpin, StartFinalize, Forget
  <2>3. CASE RepinAfter(t)
    BY <2>3 DEF RepinAfter, Forget
  <2>4. CASE Repin(t)
    <3>1. Near(global, t)
      <4>1. guards[t] = 1 /\ pc[t] = "idle"
        BY <2>4 DEF Repin
      <4>2. InGuard(t)
        BY <4>1
      <4>3. Binding(t) => Near(global, t)
        BY DEF SkewOK
      <4> QED  BY <4>2, <4>3 DEF Binding
    <3>2. gr' = [gr EXCEPT ![t] = global] /\ UNCHANGED <<global, local>>
      BY <2>4 DEF Repin
    <3>3. \A u \in Threads \ {t} : pc'[u] = pc[u]
      BY <2>4 DEF Repin
    <3> QED  BY <3>1, <3>2, <3>3
  <2>5. CASE RepinStore(t)
    BY <2>5 DEF RepinStore
  <2> QED  BY <1>2, <2>1, <2>2, <2>3, <2>4, <2>5 DEF Unpinning
<1>3. CASE Lifetime(t)
  BY <1>3 DEF Lifetime, Register, ReleaseHandle, StartFinalize, FinPush, FinUnpin, Forget, FinDelete
<1>4. CASE Deferring(t)
  BY <1>4 DEF Deferring, Defer, PutInBag, Ready, Guarded, InGuard, Flush, FlushBag, Ret, PushToGlobal, CountBag, Seal, Push, CountNothing, Count
<1>5. CASE Collecting(t)
  <2>1. ASSUME NEW u \in Threads, Scan(t, u) PROVE RepinOK'
    BY <2>1 DEF Scan
  <2>2. CASE ScanFail(t)
    BY <2>2 DEF ScanFail, Advanced, Ret
  <2>3. CASE Advance(t)
    <3>1. \A v \in Threads : pc'[v] = "repin" => pc[v] = "repin"
      BY <2>3 DEF Advance, Advanced, Ret
    <3> QED  BY <2>3, <3>1, AdvanceFacts DEF Advance
  <2>4. CASE Pop(t)
    BY <2>4 DEF Pop
  <2>5. CASE CollectEnd(t)
    BY <2>5 DEF CollectEnd
  <2>6. ASSUME NEW i \in Items, Execute(t, i) PROVE RepinOK'
    BY <2>6 DEF Execute
  <2>7. CASE BagDropped(t)
    BY <2>7 DEF BagDropped
  <2>8. ASSUME NEW i \in Nodes, DeferNode(t, i) PROVE RepinOK'
    BY <2>8 DEF DeferNode, PutInBag
  <2>9. CASE LeakNode(t)
    BY <2>9 DEF LeakNode
  <2>10. CASE Discount(t)
    BY <2>10 DEF Discount
  <2> QED  BY <1>5, <2>1, <2>2, <2>3, <2>4, <2>5, <2>6, <2>7, <2>8, <2>9, <2>10 DEF Collecting
<1> QED  BY <1>1, <1>2, <1>3, <1>4, <1>5 DEF Step

\* Every step keeps the epoch that collect works with near its own pin.
LEMMA CollectOK_Step == ASSUME IInv, NEW t \in Threads, Step(t) PROVE CollectOK'
<1> USE EpochAssumption, ItemAssumption, SuccType
    DEF IInv, TypeOK, CollectOK, Near, ControlOK, Working,
        Goto, thr, bags, coll, hist
<1>1. CASE Pinning(t)
  BY <1>1 DEF Pinning, Pin, PinLoad, PinStore, PinCheck, PinUndo, PinNested
<1>2. CASE Unpinning(t)
  <2>1. CASE UnpinNested(t)
    BY <2>1 DEF UnpinNested
  <2>2. CASE Unpin(t)
    BY <2>2 DEF Unpin, StartFinalize, Forget
  <2>3. CASE RepinAfter(t)
    BY <2>3 DEF RepinAfter, Forget
  <2>4. CASE Repin(t)
    BY <2>4 DEF Repin, Forget
  <2>5. CASE RepinStore(t)
    BY <2>5 DEF RepinStore
  <2> QED  BY <1>2, <2>1, <2>2, <2>3, <2>4, <2>5 DEF Unpinning
<1>3. CASE Lifetime(t)
  <2>1. CASE Register(t) \/ FinPush(t) \/ FinDelete(t)
    BY <2>1 DEF Register, FinPush, FinDelete
  <2>2. CASE ReleaseHandle(t)
    BY <2>2 DEF ReleaseHandle, StartFinalize
  <2>3. CASE FinUnpin(t)
    BY <2>3 DEF FinUnpin, Forget
  <2> QED  BY <1>3, <2>1, <2>2, <2>3 DEF Lifetime
<1>4. CASE Deferring(t)
  BY <1>4 DEF Deferring, Defer, PutInBag, Ready, Guarded, InGuard, Flush, FlushBag, Ret, PushToGlobal, CountBag, Seal, Push, CountNothing, Count
<1>5. CASE Collecting(t)
  <2>1. ASSUME NEW u \in Threads, Scan(t, u) PROVE CollectOK'
    BY <2>1 DEF Scan
  <2>2. CASE ScanFail(t)
    <3>1. UNCHANGED local /\ Near(gr[t], t)
      BY <2>2 DEF ScanFail, ScanOK, ReadOK
    <3>2. \/ UNCHANGED <<collecting, cgr>>
          \/ collecting' = [collecting EXCEPT ![t] = TRUE] /\ cgr' = [cgr EXCEPT ![t] = gr[t]]
      BY <2>2 DEF ScanFail, Advanced
    <3>3. ASSUME NEW v \in Threads, collecting'[v] PROVE Near(cgr[v], v)'
      BY <3>1, <3>2, <3>3
    <3> QED  BY <3>3
  <2>3. CASE Advance(t)
    <3>1. UNCHANGED local /\ Near(Succ(gr[t]), t)
      BY <2>3, AdvanceFacts DEF Advance
    <3>2. \/ UNCHANGED <<collecting, cgr>>
          \/ cgr' = [cgr EXCEPT ![t] = Succ(gr[t])] /\ collecting' = [collecting EXCEPT ![t] = TRUE]
      BY <2>3 DEF Advance, Advanced
    <3> QED  BY <3>1, <3>2
  <2>4. CASE Pop(t)
    BY <2>4 DEF Pop
  <2>5. CASE CollectEnd(t)
    BY <2>5 DEF CollectEnd
  <2>6. ASSUME NEW i \in Items, Execute(t, i) PROVE CollectOK'
    BY <2>6 DEF Execute
  <2>7. CASE BagDropped(t)
    BY <2>7 DEF BagDropped
  <2>8. ASSUME NEW i \in Nodes, DeferNode(t, i) PROVE CollectOK'
    BY <2>8 DEF DeferNode, PutInBag
  <2>9. CASE LeakNode(t)
    BY <2>9 DEF LeakNode
  <2>10. CASE Discount(t)
    BY <2>10 DEF Discount
  <2> QED  BY <1>5, <2>1, <2>2, <2>3, <2>4, <2>5, <2>6, <2>7, <2>8, <2>9, <2>10 DEF Collecting
<1> QED  BY <1>1, <1>2, <1>3, <1>4, <1>5 DEF Step

\* Every step keeps the witnesses of a deferred function inside their guards.
LEMMA WitnessOK_Step == ASSUME IInv, NEW t \in Threads, Step(t) PROVE WitnessOK'
<1> USE EpochAssumption, ItemAssumption, SuccType
    DEF IInv, TypeOK, WitnessOK, InGuard,
        Goto, thr, bags, coll, hist
<1>1. CASE Pinning(t)
  BY <1>1 DEF Pinning, Pin, PinLoad, PinStore, PinCheck, PinUndo, PinNested
<1>2. CASE Unpinning(t)
  <2>1. CASE UnpinNested(t)
    BY <2>1 DEF UnpinNested
  <2>2. CASE Unpin(t)
    BY <2>2 DEF Unpin, StartFinalize, Forget
  <2>3. CASE RepinAfter(t)
    BY <2>3 DEF RepinAfter, Forget
  <2>4. CASE Repin(t)
    BY <2>4 DEF Repin, Forget
  <2>5. CASE RepinStore(t)
    BY <2>5 DEF RepinStore
  <2> QED  BY <1>2, <2>1, <2>2, <2>3, <2>4, <2>5 DEF Unpinning
<1>3. CASE Lifetime(t)
  <2>1. CASE Register(t) \/ FinPush(t) \/ FinDelete(t)
    BY <2>1 DEF Register, FinPush, FinDelete
  <2>2. CASE ReleaseHandle(t)
    BY <2>2 DEF ReleaseHandle, StartFinalize
  <2>3. CASE FinUnpin(t)
    BY <2>3 DEF FinUnpin, Forget
  <2> QED  BY <1>3, <2>1, <2>2, <2>3 DEF Lifetime
<1>0. ASSUME NEW i \in Items, PutInBag(t, i), Ready(t) \/ pc[t] = "popped" PROVE WitnessOK'
  BY <1>0 DEF PutInBag, Ready, Guarded, InGuard
<1>4. CASE Deferring(t)
  <2>1. ASSUME NEW i \in Items, Defer(t, i) PROVE WitnessOK'
    BY <1>0, <2>1 DEF Defer
  <2>2. CASE Flush(t)
    BY <2>2 DEF Flush, FlushBag, Ready, Ret
  <2>3. CASE PushToGlobal(t)
    BY <2>3 DEF PushToGlobal, FlushBag, Ready, Ret
  <2>4. CASE Seal(t)
    BY <2>4 DEF Seal
  <2>5. CASE Push(t)
    BY <2>5 DEF Push, Ret
  <2>6. CASE CountNothing(t)
    BY <2>6 DEF CountNothing, Ret
  <2>7. CASE Count(t)
    BY <2>7 DEF Count
  <2>8. CASE CountBag(t)
    BY <2>8 DEF CountBag
  <2> QED  BY <1>4, <2>1, <2>2, <2>3, <2>4, <2>5, <2>6, <2>7, <2>8 DEF Deferring
<1>5. CASE Collecting(t)
  <2>1. CASE \/ \E u \in Threads : Scan(t, u)
             \/ \E i \in Items : Execute(t, i)
    BY <2>1 DEF Scan, Execute
  <2>2. CASE ScanFail(t) \/ Advance(t)
    BY <2>2 DEF ScanFail, Advance, Advanced, Ret
  <2>3. CASE Pop(t) \/ LeakNode(t) \/ Discount(t) \/ CollectEnd(t) \/ BagDropped(t)
    BY <2>3 DEF Pop, LeakNode, Discount, CollectEnd, BagDropped
  <2>4. ASSUME NEW i \in Nodes, DeferNode(t, i) PROVE WitnessOK'
    BY <1>0, <2>4 DEF DeferNode
  <2> QED  BY <1>5, <2>1, <2>2, <2>3, <2>4 DEF Collecting
<1> QED  BY <1>1, <1>2, <1>3, <1>4, <1>5 DEF Step

\* Every step keeps a sealed bag near the epochs of the threads that use it.
LEMMA SealOK_Step == ASSUME IInv, NEW t \in Threads, Step(t) PROVE SealOK'
<1> USE EpochAssumption, ItemAssumption, SuccType
    DEF IInv, TypeOK, SealOK, BagOK, Near, SkewOK, WitnessOK, FreshOK, Binding, InGuard,
        Goto, thr, bags, coll, hist
<1>1. CASE Pinning(t)
  <2>1. CASE Pin(t)
    BY <2>1 DEF Pin
  <2>2. CASE PinLoad(t)
    BY <2>2 DEF PinLoad
  <2>3. CASE PinStore(t)
    BY <2>3 DEF PinStore
  <2>4. CASE PinCheck(t)
    BY <2>4 DEF PinCheck
  <2>5. CASE PinUndo(t)
    BY <2>5 DEF PinUndo
  <2>6. CASE PinNested(t)
    BY <2>6 DEF PinNested
  <2> QED  BY <1>1, <2>1, <2>2, <2>3, <2>4, <2>5, <2>6 DEF Pinning
<1>2. CASE Unpinning(t)
  BY <1>2 DEF Unpinning, UnpinNested, Unpin, StartFinalize, Forget, RepinAfter, Repin, RepinStore
<1>3. CASE Lifetime(t)
  BY <1>3 DEF Lifetime, Register, ReleaseHandle, StartFinalize, FinPush, FinUnpin, Forget, FinDelete
<1>0. ASSUME NEW i \in Items, PutInBag(t, i), Ready(t) \/ pc[t] = "popped" PROVE SealOK'
  BY <1>0 DEF PutInBag, Ready, Guarded, InGuard
<1>4. CASE Deferring(t)
  <2>1. ASSUME NEW i \in Items, Defer(t, i) PROVE SealOK'
    BY <1>0, <2>1 DEF Defer
  <2>2. CASE Flush(t)
    BY <2>2 DEF Flush, FlushBag
  <2>3. CASE PushToGlobal(t)
    BY <2>3 DEF PushToGlobal, FlushBag, Ready, Ret
  <2>4. CASE Seal(t)
    BY <2>4 DEF Seal
  <2>5. CASE Push(t)
    BY <2>5 DEF Push, Ret
  <2>6. CASE CountNothing(t)
    BY <2>6 DEF CountNothing, Ret
  <2>7. CASE Count(t)
    BY <2>7 DEF Count
  <2>8. CASE CountBag(t)
    BY <2>8 DEF CountBag
  <2> QED  BY <1>4, <2>1, <2>2, <2>3, <2>4, <2>5, <2>6, <2>7, <2>8 DEF Deferring
<1>5. CASE Collecting(t)
  <2>1. ASSUME NEW u \in Threads, Scan(t, u) PROVE SealOK'
    BY <2>1 DEF Scan
  <2>2. CASE ScanFail(t)
    BY <2>2 DEF ScanFail, Advanced, Ret
  <2>3. CASE Advance(t)
    BY <2>3 DEF Advance, Advanced, Ret
  <2>4. CASE Pop(t)
    BY <2>4 DEF Pop
  <2>5. CASE CollectEnd(t)
    BY <2>5 DEF CollectEnd
  <2>6. ASSUME NEW i \in Items, Execute(t, i) PROVE SealOK'
    BY <2>6 DEF Execute
  <2>7. CASE BagDropped(t)
    BY <2>7 DEF BagDropped
  <2>8. ASSUME NEW i \in Nodes, DeferNode(t, i) PROVE SealOK'
    BY <1>0, <2>8, ItemAssumption DEF DeferNode
  <2>9. CASE LeakNode(t)
    BY <2>9 DEF LeakNode
  <2>10. CASE Discount(t)
    BY <2>10 DEF Discount
  <2> QED  BY <1>5, <2>1, <2>2, <2>3, <2>4, <2>5, <2>6, <2>7, <2>8, <2>9, <2>10 DEF Collecting
<1> QED  BY <1>1, <1>2, <1>3, <1>4, <1>5 DEF Step

\* Every step keeps functions that were not deferred out of all bags.
LEMMA FreshOK_Step == ASSUME IInv, NEW t \in Threads, Step(t) PROVE FreshOK'
<1> USE EpochAssumption, ItemAssumption, SuccType
    DEF IInv, TypeOK, FreshOK, SealOK, BagOK,
        Goto, thr, bags, coll, hist
<1>1. CASE Pinning(t)
  BY <1>1 DEF Pinning, Pin, PinLoad, PinStore, PinCheck, PinUndo, PinNested
<1>2. CASE Unpinning(t)
  BY <1>2 DEF Unpinning, UnpinNested, Unpin, StartFinalize, Forget, RepinAfter, Repin, RepinStore
<1>3. CASE Lifetime(t)
  BY <1>3 DEF Lifetime, Register, ReleaseHandle, StartFinalize, FinPush, FinUnpin, Forget, FinDelete
<1>0. ASSUME NEW i \in Items, PutInBag(t, i), Ready(t) \/ pc[t] = "popped" PROVE FreshOK'
  <2>1. \/ bag' = [bag EXCEPT ![t] = @ \union {i}] /\ arg' = arg
        \/ bag' = bag /\ arg' = [arg EXCEPT ![t] = i]
    BY <1>0 DEF PutInBag
  <2>2. deferred' = deferred \union {i} /\ run' = run
    BY <1>0 DEF PutInBag
  <2>3. CASE bag' = [bag EXCEPT ![t] = @ \union {i}] /\ arg' = arg
    <3>1. \A u \in Threads : bag'[u] \subseteq bag[u] \union {i}
      BY <2>3
    <3> QED  BY <2>2, <2>3, <3>1
  <2>4. CASE bag' = bag /\ arg' = [arg EXCEPT ![t] = i]
    <3>1. \A u \in Threads : arg'[u] \in {arg[u], i}
      BY <2>4
    <3> QED  BY <2>2, <2>4, <3>1
  <2> QED  BY <2>1, <2>3, <2>4
<1>4. CASE Deferring(t)
  <2>1. ASSUME NEW i \in Items, Defer(t, i) PROVE FreshOK'
    BY <1>0, <2>1 DEF Defer
  <2>2. CASE Flush(t)
    BY <2>2 DEF Flush, FlushBag, Ready, Ret
  <2>3. CASE PushToGlobal(t)
    BY <2>3 DEF PushToGlobal, FlushBag, Ready, Ret
  <2>4. CASE Seal(t)
    BY <2>4 DEF Seal
  <2>5. CASE Push(t)
    BY <2>5 DEF Push, Ret
  <2>6. CASE CountNothing(t)
    BY <2>6 DEF CountNothing, Ret
  <2>7. CASE Count(t)
    BY <2>7 DEF Count
  <2>8. CASE CountBag(t)
    BY <2>8 DEF CountBag
  <2> QED  BY <1>4, <2>1, <2>2, <2>3, <2>4, <2>5, <2>6, <2>7, <2>8 DEF Deferring
<1>5. CASE Collecting(t)
  <2>1. ASSUME NEW u \in Threads, Scan(t, u) PROVE FreshOK'
    BY <2>1 DEF Scan
  <2>2. CASE ScanFail(t)
    BY <2>2 DEF ScanFail, Advanced, Ret
  <2>3. CASE Advance(t)
    BY <2>3 DEF Advance, Advanced, Ret
  <2>4. CASE Pop(t)
    <3>1. queue # <<>> /\ Head(queue) = queue[1] /\ 1 \in 1 .. Len(queue)
      BY <2>4 DEF Pop, CanPop
    <3>2. run' = [run EXCEPT ![t] = queue[1].items] /\ UNCHANGED <<bag, arg, deferred>>
      BY <2>4, <3>1 DEF Pop
    <3> QED  BY <3>1, <3>2
  <2>5. CASE CollectEnd(t)
    BY <2>5 DEF CollectEnd
  <2>6. ASSUME NEW i \in Items, Execute(t, i) PROVE FreshOK'
    BY <2>6 DEF Execute
  <2>7. CASE BagDropped(t)
    BY <2>7 DEF BagDropped
  <2>8. ASSUME NEW i \in Nodes, DeferNode(t, i) PROVE FreshOK'
    BY <1>0, <2>8, ItemAssumption DEF DeferNode
  <2>9. CASE LeakNode(t)
    BY <2>9 DEF LeakNode
  <2>10. CASE Discount(t)
    BY <2>10 DEF Discount
  <2> QED  BY <1>5, <2>1, <2>2, <2>3, <2>4, <2>5, <2>6, <2>7, <2>8, <2>9, <2>10 DEF Collecting
<1> QED  BY <1>1, <1>2, <1>3, <1>4, <1>5 DEF Step

\* Every step keeps the grace period.
LEMMA GracePeriod_Step == ASSUME IInv, NEW t \in Threads, Step(t) PROVE GracePeriod'
<1> USE EpochAssumption, ItemAssumption, SuccType
    DEF IInv, TypeOK, GracePeriod, FreshOK,
        Goto, thr, bags, coll, hist
<1>1. CASE Pinning(t)
  BY <1>1 DEF Pinning, Pin, PinLoad, PinStore, PinCheck, PinUndo, PinNested
<1>2. CASE Unpinning(t)
  BY <1>2 DEF Unpinning, UnpinNested, Unpin, StartFinalize, Forget, RepinAfter, Repin, RepinStore
<1>3. CASE Lifetime(t)
  BY <1>3 DEF Lifetime, Register, ReleaseHandle, StartFinalize, FinPush, FinUnpin, Forget, FinDelete
<1>0. ASSUME NEW i \in Items, PutInBag(t, i), Ready(t) \/ pc[t] = "popped" PROVE GracePeriod'
  BY <1>0 DEF PutInBag, Ready, Guarded, InGuard
<1>4. CASE Deferring(t)
  <2>1. ASSUME NEW i \in Items, Defer(t, i) PROVE GracePeriod'
    BY <1>0, <2>1 DEF Defer
  <2>2. CASE Flush(t)
    BY <2>2 DEF Flush, FlushBag, Ready, Ret
  <2>3. CASE PushToGlobal(t)
    BY <2>3 DEF PushToGlobal, FlushBag, Ready, Ret
  <2>4. CASE Seal(t)
    BY <2>4 DEF Seal
  <2>5. CASE Push(t)
    BY <2>5 DEF Push, Ret
  <2>6. CASE CountNothing(t)
    BY <2>6 DEF CountNothing, Ret
  <2>7. CASE Count(t)
    BY <2>7 DEF Count
  <2>8. CASE CountBag(t)
    BY <2>8 DEF CountBag
  <2> QED  BY <1>4, <2>1, <2>2, <2>3, <2>4, <2>5, <2>6, <2>7, <2>8 DEF Deferring
<1>5. CASE Collecting(t)
  <2>1. ASSUME NEW u \in Threads, Scan(t, u) PROVE GracePeriod'
    BY <2>1 DEF Scan
  <2>2. CASE ScanFail(t)
    BY <2>2 DEF ScanFail, Advanced, Ret
  <2>3. CASE Advance(t)
    BY <2>3 DEF Advance, Advanced, Ret
  <2>4. CASE Pop(t)
    <3>1. Head(queue) = queue[1] /\ 1 \in 1 .. Len(queue) /\ queue[1] \in SealedBag
      BY <2>4 DEF Pop, CanPop
    <3>2. Dist(cgr[t], queue[1].epoch) >= 3
      BY <2>4, <3>1 DEF Pop, CanPop, Expired
    <3>3. Binding(t) /\ collecting[t]
      BY <2>4 DEF Pop, ControlOK, Working, Binding, InGuard
    <3>4. ASSUME NEW i \in queue[1].items, NEW v \in wit[i] PROVE FALSE
      <4>1. i \in Items /\ v \in Threads
        BY <3>1 DEF SealedBag
      <4>2. Binding(v) /\ Near(queue[1].epoch, v)
        BY <3>1, <3>4, <4>1 DEF WitnessOK, SealOK, BagOK, Binding
      <4>3. Near(cgr[t], t) /\ Near(global, t) /\ Near(global, v)
        BY <3>3, <4>1, <4>2 DEF CollectOK, SkewOK
      <4>4. local[t] \in Epochs /\ local[v] \in Epochs
        BY <3>3, <4>1, <4>2 DEF SkewOK
      <4> QED  BY <3>2, <4>2, <4>3, <4>4, DistNear DEF Near
    <3>5. run' = [run EXCEPT ![t] = queue[1].items] /\ wit' = wit
      BY <2>4, <3>1 DEF Pop
    <3> QED  BY <3>4, <3>5
  <2>5. CASE CollectEnd(t)
    BY <2>5 DEF CollectEnd
  <2>6. ASSUME NEW i \in Items, Execute(t, i) PROVE GracePeriod'
    BY <2>6 DEF Execute
  <2>7. CASE BagDropped(t)
    BY <2>7 DEF BagDropped
  <2>8. ASSUME NEW i \in Nodes, DeferNode(t, i) PROVE GracePeriod'
    BY <1>0, <2>8, ItemAssumption DEF DeferNode
  <2>9. CASE LeakNode(t)
    BY <2>9 DEF LeakNode
  <2>10. CASE Discount(t)
    BY <2>10 DEF Discount
  <2> QED  BY <1>5, <2>1, <2>2, <2>3, <2>4, <2>5, <2>6, <2>7, <2>8, <2>9, <2>10 DEF Collecting
<1> QED  BY <1>1, <1>2, <1>3, <1>4, <1>5 DEF Step

\* The collector starts with the invariant.
LEMMA InitIInv == Init => IInv
<1> SUFFICES ASSUME Init PROVE IInv  OBVIOUS
<1>1. TypeOK
  BY ZeroEpoch DEF Init, TypeOK, PCs, Modes, SealedBag
<1>2. ControlOK /\ SkewOK /\ ScanOK /\ RepinOK /\ CollectOK
  BY DEF Init, ControlOK, SkewOK, ScanOK, RepinOK, CollectOK, Binding, InGuard, Working, PinLoop
<1>3. WitnessOK /\ SealOK /\ FreshOK /\ GracePeriod
  BY DEF Init, WitnessOK, SealOK, BagOK, FreshOK, GracePeriod
<1> QED  BY <1>1, <1>2, <1>3 DEF IInv

\* Every step of every thread preserves the invariant.
LEMMA NextIInv == IInv /\ [Next]_vars => IInv'
<1>1. ASSUME IInv, NEW t \in Threads, Step(t) PROVE IInv'
  BY <1>1, TypeOK_Step, ControlOK_Step, SkewOK_Step, ScanOK_Step, RepinOK_Step, CollectOK_Step,
     WitnessOK_Step, SealOK_Step, FreshOK_Step, GracePeriod_Step DEF IInv
<1>2. ASSUME IInv, UNCHANGED vars PROVE IInv'
  <2> USE <1>2 DEF IInv, vars, thr, bags, coll, hist, InGuard, Binding, Near
  <2>1. TypeOK' /\ ControlOK' /\ SkewOK'
    BY DEF TypeOK, ControlOK, SkewOK
  <2>2. ScanOK' /\ RepinOK' /\ CollectOK'
    BY DEF ScanOK, RepinOK, ReadOK, CollectOK
  <2>3. WitnessOK' /\ SealOK' /\ FreshOK' /\ GracePeriod'
    BY DEF WitnessOK, SealOK, BagOK, FreshOK, GracePeriod
  <2> QED  BY <2>1, <2>2, <2>3
<1> QED  BY <1>1, <1>2 DEF Next

\* The inductive invariant holds in every reachable state.
THEOREM Invariance == Spec => []IInv
  BY InitIInv, NextIInv, PTL DEF Spec

\* A bag two epochs behind the global one has no witness left.
LEMMA TwoApart == IInv => TwoAdvancements
<1> SUFFICES ASSUME IInv, NEW k \in 1 .. Len(queue), Dist(global, queue[k].epoch) >= 2,
                    NEW i \in queue[k].items, NEW v \in wit[i]
             PROVE  FALSE
  BY DEF TwoAdvancements
<1>1. i \in Items /\ v \in Threads
  <2>1. queue[k] \in SealedBag /\ wit \in [Items -> SUBSET Threads]
    BY DEF IInv, TypeOK
  <2> QED  BY <2>1 DEF SealedBag
<1>2. InGuard(v) /\ Near(queue[k].epoch, v)
  BY <1>1 DEF IInv, WitnessOK, SealOK, BagOK
<1>3. local[v] \in Epochs /\ Near(global, v)
  BY <1>1, <1>2 DEF IInv, SkewOK, Binding
<1>4. ASSUME NEW l \in Epochs, NEW a \in {l, Succ(l)}, NEW b \in {l, Succ(l)}
      PROVE  ~(Dist(a, b) >= 2)
  BY EpochAssumption DEF Dist, Succ, Epochs, M
<1> QED  BY <1>2, <1>3, <1>4 DEF Near

\* No deferred function runs while a thread that may use its object is in the
\* critical section it was in, and the epoch has advanced at most once during it.
THEOREM Safety == Spec => [](GracePeriod /\ EpochSkew)
<1>1. IInv => EpochSkew
  BY DEF IInv, SkewOK, EpochSkew, Binding, Near
<1>2. IInv => GracePeriod
  BY DEF IInv
<1> QED  BY <1>1, <1>2, Invariance, PTL

\* Two advancements after a bag was sealed nobody holds a reference to what is
\* in it; is_expired waits for a third.
THEOREM TwoAreEnough == Spec => []TwoAdvancements
  BY TwoApart, Invariance, PTL

\* The blind store never moves the global epoch backwards nor by two.
THEOREM EpochOrder == Spec => EpochStep
<1>1. ASSUME IInv, NEW t \in Threads, Step(t) PROVE global' \in {global, Succ(global)}
  <2>1. CASE Advance(t)
    BY <1>1, <2>1, AdvanceFacts
  <2>2. CASE ~Advance(t)
    <3>1. CASE Pinning(t)
      BY <3>1 DEF Pinning, Pin, PinLoad, PinStore, PinCheck, PinUndo, PinNested
    <3>2. CASE Unpinning(t)
      BY <3>2 DEF Unpinning, UnpinNested, Unpin, RepinAfter, Repin, RepinStore
    <3>3. CASE Lifetime(t)
      BY <3>3 DEF Lifetime, Register, ReleaseHandle, FinPush, FinUnpin, FinDelete
    <3>4. CASE Deferring(t)
      BY <3>4 DEF Deferring, Defer, PutInBag, Flush, PushToGlobal, FlushBag, CountBag, Seal, Push, CountNothing, Count
    <3>5. CASE Collecting(t)
      BY <2>2, <3>5 DEF Collecting, Scan, ScanFail, Pop, DeferNode, PutInBag, LeakNode, Discount,
                        CollectEnd, Execute, BagDropped
    <3> QED  BY <1>1, <3>1, <3>2, <3>3, <3>4, <3>5 DEF Step
  <2> QED  BY <2>1, <2>2
<1>2. IInv /\ [Next]_vars => [global' \in {global, Succ(global)}]_vars
  BY <1>1 DEF Next
<1> QED  BY <1>2, Invariance, PTL DEF Spec, EpochStep
-------------------------------------------------------------------------------
(* Each deferred function is in one place until it is executed; so the garbage *)
(* is counted exactly, and the collector implements Reclamation.               *)

\* The places of a thread, and the place k of the queue.
Spots == {"bag", "arg", "sealed", "run"}
In(i, t, s) == \/ s = "bag" /\ i \in bag[t]
               \/ s = "arg" /\ i = arg[t]
               \/ s = "sealed" /\ i \in sealed[t].items
               \/ s = "run" /\ i \in run[t]
Queued(i, k) == i \in queue[k].items

\* When the places of a thread are empty, so that what is put there replaces nothing.
EmptyOK ==
  \A t \in Threads :
    /\ arg[t] # NoItem => pc[t] \in {"seal", "epoch", "push"}
    /\ sealed[t].items # {} => pc[t] = "push"
    /\ pc[t] = "push" => bag[t] = {}
    /\ run[t] # {} => collecting[t] /\ pc[t] # "loop"
    /\ owes[t] => collecting[t] /\ pc[t] \notin {"loop", "run"}
    /\ pc[t] \in {"popped", "discount"} => owes[t]
    /\ pc[t] = "delete" \/ reg[t] # "in" => bag[t] = {}
\* No function is in two places, and none that was executed is in any.
ApartOK ==
  \A i \in Items :
    /\ \A t, u \in Threads : \A r, s \in Spots : In(i, t, r) /\ In(i, u, s) => t = u /\ r = s
    /\ \A t \in Threads : \A s \in Spots : \A k \in 1 .. Len(queue) : In(i, t, s) => ~Queued(i, k)
    /\ \A j, k \in 1 .. Len(queue) : Queued(i, j) /\ Queued(i, k) => j = k
    /\ i \in done => /\ \A t \in Threads : \A s \in Spots : ~In(i, t, s)
                     /\ \A k \in 1 .. Len(queue) : ~Queued(i, k)
\* No function is lost.
KeptOK ==
  /\ done \subseteq deferred /\ deferred \subseteq Items
  /\ \A i \in deferred \ done : \/ \E t \in Threads : \E s \in Spots : In(i, t, s)
                                \/ \E k \in 1 .. Len(queue) : Queued(i, k)
OInv == EmptyOK /\ ApartOK /\ KeptOK

items == <<bag, arg, sealed, queue, run, deferred, done>>

\* Every step keeps the facts on empty places.
LEMMA EmptyOK_Step == ASSUME IInv, EmptyOK, NEW t \in Threads, Step(t) PROVE EmptyOK'
<1> USE ItemAssumption DEF EmptyOK, Goto, thr, bags, coll, hist
<1>1. TypeOK /\ ControlOK
  BY DEF IInv
<1>2. CASE Pinning(t)
  BY <1>1, <1>2 DEF TypeOK, Pinning, Pin, PinLoad, PinStore, PinCheck, PinUndo, PinNested
<1>3. CASE Unpinning(t)
  BY <1>1, <1>3 DEF TypeOK, Unpinning, UnpinNested, Unpin, StartFinalize, RepinAfter, Repin, RepinStore
<1>4. CASE Lifetime(t)
  <2>1. CASE Register(t)
    BY <1>1, <2>1 DEF TypeOK, Register
  <2>2. CASE ReleaseHandle(t)
    <3>1. \A u \in Threads : pc'[u] = pc[u] \/ (u = t /\ pc[u] = "idle" /\ pc'[u] = "pin")
      <4>1. pc[t] = "idle" /\ (pc' = pc \/ pc' = [pc EXCEPT ![t] = "pin"])
        BY <2>2 DEF ReleaseHandle, StartFinalize
      <4>2. pc \in [Threads -> PCs]
        BY <1>1 DEF TypeOK
      <4> QED  BY <4>1, <4>2
    <3>2. UNCHANGED <<reg, bag, arg, sealed, collecting, run, owes>>
      BY <2>2 DEF ReleaseHandle
    <3> QED  BY <3>1, <3>2
  <2>3. CASE FinPush(t)
    BY <1>1, <2>3 DEF TypeOK, FinPush
  <2>4. CASE FinUnpin(t)
    BY <1>1, <2>4 DEF TypeOK, ControlOK, FinUnpin
  <2>5. CASE FinDelete(t)
    BY <1>1, <2>5 DEF TypeOK, ControlOK, FinDelete
  <2> QED  BY <1>4, <2>1, <2>2, <2>3, <2>4, <2>5 DEF Lifetime
<1>0. ASSUME NEW i \in Items, PutInBag(t, i), Ready(t) \/ pc[t] = "popped" PROVE EmptyOK'
  <2>1. reg[t] = "in" /\ pc[t] \in {"run", "idle", "popped"}
    BY <1>0, <1>1 DEF ControlOK, Ready, Working
  <2>2. \A u \in Threads \ {t} : bag'[u] = bag[u] /\ arg'[u] = arg[u] /\ pc'[u] = pc[u]
    BY <1>1, <1>0 DEF TypeOK, PutInBag
  <2>3. \/ pc'[t] = "count" /\ arg'[t] = arg[t]
        \/ pc'[t] = "seal"
    BY <1>1, <1>0 DEF TypeOK, PutInBag
  <2>4. UNCHANGED <<reg, sealed, collecting, run, owes>>
    BY <1>0 DEF PutInBag
  <2> QED  BY <2>1, <2>2, <2>3, <2>4
<1>5. CASE Deferring(t)
  <2>1. pc[t] \in Working \/ guards[t] > 0 => reg[t] = "in"
    BY <1>1 DEF ControlOK
  <2>2. ASSUME NEW i \in Items, Defer(t, i) PROVE EmptyOK'
    BY <1>0, <2>2 DEF Defer
  <2>3. CASE Flush(t)
    BY <1>1, <2>1, <2>3 DEF TypeOK, Flush, FlushBag, Ready, Working
  <2>4. CASE PushToGlobal(t)
    BY <1>1, <2>1, <2>4 DEF TypeOK, PushToGlobal, FlushBag, Ready, Ret, Working
  <2>5. CASE Seal(t)
    BY <1>1, <2>1, <2>5 DEF TypeOK, SealedBag, Seal, Working
  <2>6. CASE Push(t)
    BY <1>1, <2>1, <2>6 DEF TypeOK, SealedBag, Push, Ret, Working
  <2>7. CASE CountNothing(t)
    BY <1>1, <2>1, <2>7 DEF TypeOK, CountNothing, Ret, Working
  <2>8. CASE Count(t)
    BY <1>1, <2>1, <2>8 DEF TypeOK, Count, Working
  <2>9. CASE CountBag(t)
    BY <1>1, <2>1, <2>9 DEF TypeOK, CountBag, Working
  <2> QED  BY <1>5, <2>2, <2>3, <2>4, <2>5, <2>6, <2>7, <2>8, <2>9 DEF Deferring
<1>6. CASE Collecting(t)
  <2>1. ASSUME NEW u \in Threads, Scan(t, u) PROVE EmptyOK'
    BY <1>1, <2>1 DEF TypeOK, Scan
  <2>2. CASE ScanFail(t)
    <3>1. pc[t] = "scan" /\ Advanced(t, gr[t]) /\ UNCHANGED <<reg, bag, arg, sealed, run, owes>>
      BY <2>2 DEF ScanFail
    <3> QED  BY <1>1, <3>1 DEF TypeOK, Advanced, Ret
  <2>3. CASE Advance(t)
    BY <1>1, <2>3 DEF TypeOK, Advance, Advanced, Ret
  <2>4. CASE Pop(t)
    BY <1>1, <2>4 DEF TypeOK, ControlOK, Pop
  <2>5. CASE CollectEnd(t)
    BY <1>1, <2>5 DEF TypeOK, CollectEnd
  <2>6. ASSUME NEW i \in Items, Execute(t, i) PROVE EmptyOK'
    BY <1>1, <2>6 DEF TypeOK, Execute
  <2>7. CASE BagDropped(t)
    BY <1>1, <2>7 DEF TypeOK, BagDropped
  <2>8. ASSUME NEW i \in Nodes, DeferNode(t, i) PROVE EmptyOK'
    BY <1>0, <2>8, ItemAssumption DEF DeferNode
  <2>9. CASE LeakNode(t)
    BY <1>1, <2>9 DEF TypeOK, LeakNode
  <2>10. CASE Discount(t)
    BY <1>1, <2>10 DEF TypeOK, Discount
  <2> QED  BY <1>6, <2>1, <2>2, <2>3, <2>4, <2>5, <2>6, <2>7, <2>8, <2>9, <2>10 DEF Collecting
<1> QED  BY <1>2, <1>3, <1>4, <1>5, <1>6 DEF Step

\* What is in a place was deferred.
LEMMA PlacedDeferred ==
  ASSUME IInv, NEW i \in Items
  PROVE  /\ \A t \in Threads : \A s \in Spots : In(i, t, s) => i \in deferred
         /\ \A k \in 1 .. Len(queue) : Queued(i, k) => i \in deferred
<1> USE ItemAssumption
<1>1. FreshOK /\ SealOK
  BY DEF IInv
<1> QED  BY <1>1 DEF FreshOK, SealOK, BagOK, Spots, In, Queued

\* Steps that move no deferred function keep the places apart, and lose none.
LEMMA Unmoved == ASSUME UNCHANGED items, ApartOK, KeptOK PROVE ApartOK' /\ KeptOK'
<1>1. \A i, t, s : In(i, t, s)' <=> In(i, t, s)
  BY DEF items, In
<1>2. \A i, k : Queued(i, k)' <=> Queued(i, k)
  BY DEF items, Queued
<1>3. Len(queue') = Len(queue) /\ deferred' = deferred /\ done' = done
  BY DEF items
<1> QED  BY <1>1, <1>2, <1>3 DEF ApartOK, KeptOK

\* A function that is deferred is new to every place, and goes into an empty one.
LEMMA Defer_Places ==
  ASSUME IInv, EmptyOK, ApartOK, KeptOK, NEW t \in Threads, NEW d \in Items, PutInBag(t, d),
         Ready(t) \/ pc[t] = "popped"
  PROVE  ApartOK' /\ KeptOK'
<1>1. /\ d \notin deferred /\ deferred' = deferred \union {d}
      /\ done' = done /\ queue' = queue
  BY DEF PutInBag, coll
<1>2. /\ \A u \in Threads : \A s \in Spots : ~In(d, u, s)
      /\ \A k \in 1 .. Len(queue) : ~Queued(d, k)
  BY <1>1, PlacedDeferred
<1>3. \E r \in Spots : \A i \in Items : \A u \in Threads : \A s \in Spots :
        In(i, u, s)' <=> In(i, u, s) \/ (i = d /\ u = t /\ s = r)
  <2>1. TypeOK /\ arg[t] = NoItem
    BY DEF IInv, EmptyOK, Ready
  <2>2. CASE Cardinality(bag[t]) < MAX_OBJECTS
    <3>1. \A i \in Items : \A u \in Threads : \A s \in Spots :
            In(i, u, s)' <=> In(i, u, s) \/ (i = d /\ u = t /\ s = "bag")
      BY <2>1, <2>2 DEF TypeOK, PutInBag, coll, In
    <3> QED  BY <3>1 DEF Spots
  <2>3. CASE ~(Cardinality(bag[t]) < MAX_OBJECTS)
    <3>1. \A i \in Items : \A u \in Threads : \A s \in Spots :
            In(i, u, s)' <=> In(i, u, s) \/ (i = d /\ u = t /\ s = "arg")
      BY <2>1, <2>3, ItemAssumption DEF TypeOK, PutInBag, coll, In
    <3> QED  BY <3>1 DEF Spots
  <2> QED  BY <2>2, <2>3
<1>4. \A i, k : Queued(i, k)' <=> Queued(i, k)
  BY <1>1 DEF Queued
<1>5. ApartOK'
  BY <1>1, <1>2, <1>3, <1>4 DEF ApartOK, KeptOK
<1>6. KeptOK'
  BY <1>1, <1>3, <1>4 DEF KeptOK
<1> QED  BY <1>5, <1>6

\* push_bag moves the bag of t into its sealed bag, which was empty.
LEMMA Seal_Places ==
  ASSUME IInv, EmptyOK, ApartOK, KeptOK, NEW t \in Threads, Seal(t)
  PROVE  ApartOK' /\ KeptOK'
<1>1. \A i \in Items : \A u \in Threads : \A s \in Spots :
        In(i, u, s)' <=> IF u = t /\ s = "sealed" THEN In(i, t, "bag")
                         ELSE ~(u = t /\ s = "bag") /\ In(i, u, s)
  <2>1. TypeOK
    BY DEF IInv
  <2>2. sealed' = [sealed EXCEPT ![t] = [epoch |-> global, items |-> bag[t]]]
    BY DEF Seal
  <2>3. bag' = [bag EXCEPT ![t] = {}] /\ arg' = arg /\ run' = run
    BY DEF Seal, coll
  <2>4. \A u \in Threads : sealed'[u].items = IF u = t THEN bag[t] ELSE sealed[u].items
    BY <2>1, <2>2 DEF TypeOK
  <2> QED  BY <2>1, <2>3, <2>4 DEF TypeOK, In, Spots
<1>2. \A i, k : Queued(i, k)' <=> Queued(i, k)
  BY DEF Seal, coll, Queued
<1>3. Len(queue') = Len(queue) /\ deferred' = deferred /\ done' = done
  BY DEF Seal, hist
<1>4. "bag" \in Spots /\ "sealed" \in Spots
  BY DEF Spots
<1>5. ApartOK'
  BY <1>1, <1>2, <1>3, <1>4 DEF ApartOK
<1>6. ASSUME NEW i \in deferred \ done, NEW u \in Threads, NEW s \in Spots, In(i, u, s)
      PROVE  \E r \in Spots : In(i, u, r)'
  <2>1. i \in Items /\ sealed[t].items = {}
    BY DEF KeptOK, EmptyOK, Seal
  <2>2. ~(u = t /\ s = "sealed")
    BY <1>6, <2>1 DEF In
  <2>3. CASE u = t /\ s = "bag"
    BY <1>1, <1>4, <1>6, <2>1, <2>3
  <2>4. CASE ~(u = t /\ s = "bag")
    BY <1>1, <1>6, <2>1, <2>2, <2>4
  <2> QED  BY <2>3, <2>4
<1>7. KeptOK'
  BY <1>2, <1>3, <1>6 DEF KeptOK
<1> QED  BY <1>5, <1>7

\* push_bag moves the sealed bag of t to the end of the queue, and its argument
\* into the bag, which was empty.
LEMMA Push_Places ==
  ASSUME IInv, EmptyOK, ApartOK, KeptOK, NEW t \in Threads, Push(t)
  PROVE  ApartOK' /\ KeptOK'
<1>1. TypeOK /\ bag[t] = {}
  BY DEF IInv, EmptyOK, Push
<1>2. \A i \in Items : \A u \in Threads : \A s \in Spots :
        In(i, u, s)' <=> IF u = t /\ s = "bag" THEN In(i, t, "arg")
                         ELSE ~(u = t /\ s \in {"arg", "sealed"}) /\ In(i, u, s)
  <2>1. sealed' = [sealed EXCEPT ![t] = [epoch |-> 0, items |-> {}]]
    BY DEF Push
  <2>2. /\ bag' = [bag EXCEPT ![t] = {arg[t]} \ {NoItem}]
        /\ arg' = [arg EXCEPT ![t] = NoItem] /\ run' = run
    BY DEF Push, coll
  <2>3. \A u \in Threads : sealed'[u].items = IF u = t THEN {} ELSE sealed[u].items
    BY <1>1, <2>1 DEF TypeOK
  <2> QED  BY <1>1, <2>2, <2>3, ItemAssumption DEF TypeOK, In, Spots
<1>3. Len(queue) \in Nat /\ Len(queue') = Len(queue) + 1
  BY <1>1 DEF TypeOK, Push
<1>4. \A i \in Items : \A k \in 1 .. Len(queue') :
        Queued(i, k)' <=> IF k = Len(queue') THEN In(i, t, "sealed") ELSE Queued(i, k)
  BY <1>1, <1>3 DEF TypeOK, Push, Queued, In
<1>5. deferred' = deferred /\ done' = done
  BY DEF Push, hist
<1>6. {"bag", "arg", "sealed"} \subseteq Spots
  BY DEF Spots
<1>7. ApartOK'
  BY <1>1, <1>2, <1>3, <1>4, <1>5, <1>6 DEF ApartOK, In
<1>8. ASSUME NEW i \in deferred \ done
      PROVE  \/ \E u \in Threads : \E s \in Spots : In(i, u, s)'
             \/ \E k \in 1 .. Len(queue') : Queued(i, k)'
  <2>1. i \in Items
    BY DEF KeptOK
  <2>2. CASE \E k \in 1 .. Len(queue) : Queued(i, k)
    BY <1>3, <1>4, <2>1, <2>2
  <2>3. CASE In(i, t, "sealed")
    BY <1>3, <1>4, <2>1, <2>3
  <2>4. ASSUME NEW u \in Threads, NEW s \in Spots, In(i, u, s), ~In(i, t, "sealed")
        PROVE  \E r \in Spots : In(i, u, r)'
    <3>1. CASE u = t /\ s = "arg"
      BY <1>2, <1>6, <2>1, <2>4, <3>1
    <3>2. CASE u = t /\ s = "bag"
      BY <1>1, <2>4, <3>2 DEF In
    <3>3. CASE u # t \/ s \notin {"arg", "bag"}
      BY <1>2, <2>1, <2>4, <3>3
    <3> QED  BY <3>1, <3>2, <3>3
  <2> QED  BY <2>2, <2>3, <2>4 DEF KeptOK
<1>9. KeptOK'
  BY <1>5, <1>8 DEF KeptOK
<1> QED  BY <1>7, <1>9

\* collect moves the head of the queue into the bag of t that it runs, which was
\* empty.
LEMMA Pop_Places ==
  ASSUME IInv, EmptyOK, ApartOK, KeptOK, NEW t \in Threads, Pop(t)
  PROVE  ApartOK' /\ KeptOK'
<1>1. TypeOK /\ run[t] = {}
  BY DEF IInv, EmptyOK, Pop
<1>2. queue # <<>> /\ queue' = Tail(queue) /\ queue \in Seq(SealedBag)
  BY <1>1 DEF Pop, CanPop, TypeOK
<1>3. Len(queue) \in Nat /\ Len(queue) > 0 /\ Len(queue') = Len(queue) - 1
  BY <1>2
<1>4. \A i : \A k \in 1 .. Len(queue') : k + 1 \in 1 .. Len(queue) /\ (Queued(i, k)' <=> Queued(i, k + 1))
  BY <1>2, <1>3 DEF Queued
<1>5. \A i \in Items : \A u \in Threads : \A s \in Spots :
        In(i, u, s)' <=> IF u = t /\ s = "run" THEN Queued(i, 1) ELSE In(i, u, s)
  <2>1. Head(queue) = queue[1]
    BY <1>2
  <2>2. run' = [run EXCEPT ![t] = Head(queue).items] /\ bag' = bag /\ arg' = arg /\ sealed' = sealed
    BY DEF Pop
  <2> QED  BY <1>1, <2>1, <2>2 DEF TypeOK, In, Queued, Spots
<1>6. deferred' = deferred /\ done' = done
  BY DEF Pop, hist
<1>7. "run" \in Spots /\ 1 \in 1 .. Len(queue)
  BY <1>3 DEF Spots
<1>8. ApartOK'
  <2> SUFFICES ASSUME NEW i \in Items
               PROVE  /\ \A v, u \in Threads : \A r, s \in Spots :
                           In(i, v, r)' /\ In(i, u, s)' => v = u /\ r = s
                      /\ \A u \in Threads : \A s \in Spots : \A k \in 1 .. Len(queue') :
                           In(i, u, s)' => ~Queued(i, k)'
                      /\ \A j, k \in 1 .. Len(queue') : Queued(i, j)' /\ Queued(i, k)' => j = k
                      /\ i \in done => /\ \A u \in Threads : \A s \in Spots : ~In(i, u, s)'
                                       /\ \A k \in 1 .. Len(queue') : ~Queued(i, k)'
    BY <1>6 DEF ApartOK
  <2>1. /\ \A v, u \in Threads : \A r, s \in Spots : In(i, v, r) /\ In(i, u, s) => v = u /\ r = s
        /\ \A u \in Threads : \A s \in Spots : \A k \in 1 .. Len(queue) : In(i, u, s) => ~Queued(i, k)
        /\ \A j, k \in 1 .. Len(queue) : Queued(i, j) /\ Queued(i, k) => j = k
        /\ i \in done => /\ \A u \in Threads : \A s \in Spots : ~In(i, u, s)
                         /\ \A k \in 1 .. Len(queue) : ~Queued(i, k)
    BY DEF ApartOK
  <2>2. \A v, u \in Threads : \A r, s \in Spots : In(i, v, r)' /\ In(i, u, s)' => v = u /\ r = s
    BY <1>5, <1>7, <2>1
  <2>3. ASSUME NEW k \in 1 .. Len(queue'), Queued(i, k)' PROVE ~Queued(i, 1)
    <3>1. Queued(i, k + 1) /\ k + 1 \in 1 .. Len(queue) /\ k + 1 # 1
      BY <1>4, <2>3
    <3> QED  BY <1>7, <2>1, <3>1
  <2>4. \A u \in Threads : \A s \in Spots : \A k \in 1 .. Len(queue') : In(i, u, s)' => ~Queued(i, k)'
    BY <1>4, <1>5, <2>1, <2>3
  <2>5. ASSUME NEW j \in 1 .. Len(queue'), NEW k \in 1 .. Len(queue'), Queued(i, j)', Queued(i, k)'
        PROVE  j = k
    <3>1. j + 1 = k + 1
      BY <1>4, <2>1, <2>5
    <3> QED  BY <3>1
  <2>6. i \in done => /\ \A u \in Threads : \A s \in Spots : ~In(i, u, s)'
                      /\ \A k \in 1 .. Len(queue') : ~Queued(i, k)'
    BY <1>4, <1>5, <1>7, <2>1
  <2> QED  BY <2>2, <2>4, <2>5, <2>6
<1>9. ASSUME NEW i \in deferred \ done
      PROVE  \/ \E u \in Threads : \E s \in Spots : In(i, u, s)'
             \/ \E k \in 1 .. Len(queue') : Queued(i, k)'
  <2>1. i \in Items
    BY DEF KeptOK
  <2>2. ASSUME NEW u \in Threads, NEW s \in Spots, In(i, u, s) PROVE In(i, u, s)'
    <3>1. ~(u = t /\ s = "run")
      BY <1>1, <2>2 DEF In
    <3> QED  BY <1>5, <2>1, <2>2, <3>1
  <2>3. CASE Queued(i, 1)
    BY <1>5, <1>7, <2>1, <2>3
  <2>4. ASSUME NEW k \in 1 .. Len(queue), Queued(i, k), k # 1
        PROVE  \E j \in 1 .. Len(queue') : Queued(i, j)'
    <3>1. k - 1 \in 1 .. Len(queue') /\ k = (k - 1) + 1
      BY <1>3, <2>4
    <3> QED  BY <1>4, <2>4, <3>1
  <2> QED  BY <2>2, <2>3, <2>4 DEF KeptOK
<1>10. KeptOK'
  BY <1>6, <1>9 DEF KeptOK
<1> QED  BY <1>8, <1>10

\* A function that is executed leaves the only place it was in.
LEMMA Execute_Places ==
  ASSUME IInv, EmptyOK, ApartOK, KeptOK, NEW t \in Threads, NEW d \in Items, Execute(t, d)
  PROVE  ApartOK' /\ KeptOK'
<1>1. TypeOK /\ d \in deferred
  BY DEF IInv, FreshOK, Execute
<1>2. \A i \in Items : \A u \in Threads : \A s \in Spots :
        In(i, u, s)' <=> In(i, u, s) /\ ~(i = d /\ u = t /\ s = "run")
  <2>1. run' = [run EXCEPT ![t] = @ \ {d}] /\ bag' = bag /\ arg' = arg /\ sealed' = sealed
    BY DEF Execute, bags
  <2> QED  BY <1>1, <2>1 DEF TypeOK, In, Spots
<1>3. \A i, k : Queued(i, k)' <=> Queued(i, k)
  BY DEF Execute, bags, Queued
<1>4. queue' = queue /\ deferred' = deferred /\ done' = done \union {d}
  BY DEF Execute, bags
<1>5. In(d, t, "run") /\ "run" \in Spots
  BY DEF Execute, In, Spots
<1>6. ApartOK'
  BY <1>2, <1>3, <1>4, <1>5 DEF ApartOK
<1>7. KeptOK'
  BY <1>1, <1>2, <1>3, <1>4 DEF KeptOK
<1> QED  BY <1>6, <1>7

\* The collector starts with every place empty.
LEMMA InitOInv == Init => OInv
<1> SUFFICES ASSUME Init PROVE OInv  OBVIOUS
<1>1. EmptyOK
  BY DEF Init, EmptyOK
<1>2. /\ \A i \in Items : \A t \in Threads : \A s \in Spots : ~In(i, t, s)
      /\ Len(queue) = 0 /\ deferred = {} /\ done = {}
  BY ItemAssumption DEF Init, Spots, In
<1>3. \A k \in 1 .. Len(queue) : FALSE
  BY <1>2
<1> QED  BY <1>1, <1>2, <1>3 DEF OInv, ApartOK, KeptOK

\* Every step of every thread keeps each deferred function in one place.
LEMMA NextOInv == IInv /\ OInv /\ [Next]_vars => OInv'
<1>1. ASSUME IInv, OInv, NEW t \in Threads, Step(t) PROVE OInv'
  <2>1. EmptyOK /\ ApartOK /\ KeptOK
    BY <1>1 DEF OInv
  <2>2. EmptyOK'
    BY <1>1, <2>1, EmptyOK_Step
  <2>3. CASE UNCHANGED items
    BY <2>1, <2>2, <2>3, Unmoved DEF OInv
  <2>4. CASE ~UNCHANGED items
    <3>1. CASE Pinning(t)
      BY <2>4, <3>1 DEF Pinning, Pin, PinLoad, PinStore, PinCheck, PinUndo, PinNested,
                        items, bags, coll, hist
    <3>2. CASE Unpinning(t)
      BY <2>4, <3>2 DEF Unpinning, UnpinNested, Unpin, RepinAfter, Repin, RepinStore,
                        items, bags, coll, hist
    <3>3. CASE Lifetime(t)
      BY <2>4, <3>3 DEF Lifetime, Register, ReleaseHandle, FinPush, FinUnpin, FinDelete,
                        items, bags, coll, hist
    <3>4. CASE Deferring(t)
      <4>1. CASE Flush(t) \/ PushToGlobal(t) \/ CountBag(t) \/ CountNothing(t) \/ Count(t)
        BY <2>4, <4>1 DEF Flush, PushToGlobal, FlushBag, CountBag, CountNothing, Count,
                          items, bags, coll, hist
      <4>2. CASE Seal(t) \/ Push(t)
        BY <1>1, <2>1, <2>2, <4>2, Seal_Places, Push_Places DEF OInv
      <4>3. ASSUME NEW i \in Items, Defer(t, i) PROVE OInv'
        BY <1>1, <2>1, <2>2, <4>3, Defer_Places DEF OInv, Defer
      <4> QED  BY <3>4, <4>1, <4>2, <4>3 DEF Deferring
    <3>5. CASE Collecting(t)
      <4>1. CASE \/ \E u \in Threads : Scan(t, u)
                 \/ ScanFail(t) \/ Advance(t) \/ LeakNode(t) \/ Discount(t)
                 \/ CollectEnd(t) \/ BagDropped(t)
        BY <2>4, <4>1 DEF Scan, ScanFail, Advance, Advanced, LeakNode, Discount, CollectEnd,
                          BagDropped, items, bags, coll, hist
      <4>2. CASE Pop(t)
        BY <1>1, <2>1, <2>2, <4>2, Pop_Places DEF OInv
      <4>3. ASSUME NEW i \in Items, Execute(t, i) PROVE OInv'
        BY <1>1, <2>1, <2>2, <4>3, Execute_Places DEF OInv
      <4>4. ASSUME NEW i \in Nodes, DeferNode(t, i) PROVE OInv'
        BY <1>1, <2>1, <2>2, <4>4, Defer_Places, ItemAssumption DEF OInv, DeferNode
      <4> QED  BY <3>5, <4>1, <4>2, <4>3, <4>4 DEF Collecting
    <3> QED  BY <1>1, <3>1, <3>2, <3>3, <3>4, <3>5 DEF Step
  <2> QED  BY <2>3, <2>4
<1>2. ASSUME OInv, UNCHANGED vars PROVE OInv'
  <2>1. UNCHANGED items /\ UNCHANGED <<pc, reg, collecting, owes>>
    BY <1>2 DEF vars, thr, bags, coll, hist, items
  <2>2. EmptyOK'
    BY <1>2, <2>1 DEF OInv, EmptyOK, items
  <2> QED  BY <1>2, <2>1, <2>2, Unmoved DEF OInv
<1> QED  BY <1>1, <1>2 DEF Next

\* The places of the deferred functions, in every reachable state.
THEOREM Ownership == Spec => []OInv
  BY InitOInv, NextOInv, Invariance, PTL DEF Spec

\* A set without two different elements has one or none.
LEMMA AtMostOne ==
  ASSUME NEW S, \A x, y \in S : x = y PROVE Cardinality(S) = IF S = {} THEN 0 ELSE 1
<1>1. CASE S = {}
  BY <1>1, FS_EmptySet
<1>2. CASE S # {}
  <2> PICK x : x \in S
    BY <1>2
  <2>1. S = {x}
    OBVIOUS
  <2> QED  BY <1>2, <2>1, FS_Singleton
<1> QED  BY <1>1, <1>2

\* A thread that has a deferred function is alive.
LEMMA PlacesAlive ==
  ASSUME IInv, EmptyOK, NEW i \in Items, NEW t \in Threads, NEW s \in Spots, In(i, t, s)
  PROVE  t \in Alive
<1>1. pc[t] \in Working => reg[t] = "in"
  BY DEF IInv, ControlOK
<1>2. collecting[t] => pc[t] \in Working
  BY DEF IInv, ControlOK
<1> QED  BY <1>1, <1>2, ItemAssumption DEF EmptyOK, In, Spots, Alive, Working

\* Counting the places of a function gives one while it waits, and else none.
LEMMA CountPlaces == IInv /\ OInv => EachItemOnce
<1> SUFFICES ASSUME IInv, OInv, NEW i \in Items
             PROVE  Places(i) = IF i \in deferred \ done THEN 1 ELSE 0
  BY DEF EachItemOnce
<1> DEFINE T(s) == {t \in Alive : In(i, t, s)}
           Q    == {k \in 1 .. Len(queue) : Queued(i, k)}
           C(S) == IF S = {} THEN 0 ELSE 1
<1>1. EmptyOK /\ ApartOK /\ KeptOK
  BY DEF OInv
<1>2. \A s \in Spots : \A t \in T(s) : t \in Threads /\ In(i, t, s)
  BY DEF Alive
<1>3. \A s \in Spots : Cardinality(T(s)) = C(T(s))
  <2> TAKE s \in Spots
  <2>1. \A x, y \in T(s) : x = y
    BY <1>1, <1>2 DEF ApartOK
  <2> QED  BY <2>1, AtMostOne
<1>4. Cardinality(Q) = C(Q)
  <2>1. \A x, y \in Q : x = y
    BY <1>1 DEF ApartOK
  <2> QED  BY <2>1, AtMostOne
<1>5. Places(i) = C(T("bag")) + C(T("arg")) + C(T("sealed")) + C(T("run")) + C(Q)
  <2>1. {"bag", "arg", "sealed", "run"} \subseteq Spots
    BY DEF Spots
  <2>2. T("bag") = {t \in Alive : i \in bag[t]} /\ T("run") = {t \in Alive : i \in run[t]}
    BY DEF In
  <2>3. T("arg") = {t \in Alive : arg[t] = i} /\ T("sealed") = {t \in Alive : i \in sealed[t].items}
    BY DEF In
  <2>4. Q = {k \in 1 .. Len(queue) : i \in queue[k].items}
    BY DEF Queued
  <2> HIDE DEF T, Q, C
  <2> QED  BY <1>3, <1>4, <2>1, <2>2, <2>3, <2>4 DEF Places
<1>6. \A r, s \in Spots : r # s => T(r) = {} \/ T(s) = {}
  BY <1>1, <1>2 DEF ApartOK
<1>7. \A s \in Spots : T(s) = {} \/ Q = {}
  BY <1>1, <1>2 DEF ApartOK
<1>8. CASE i \in deferred \ done
  <2>1. (\E s \in Spots : T(s) # {}) \/ Q # {}
    <3>1. CASE \E k \in 1 .. Len(queue) : Queued(i, k)
      BY <3>1
    <3>2. ASSUME NEW t \in Threads, NEW s \in Spots, In(i, t, s) PROVE T(s) # {}
      BY <1>1, <3>2, PlacesAlive
    <3> QED  BY <1>1, <1>8, <3>1, <3>2 DEF KeptOK
  <2> HIDE DEF T, Q
  <2> QED  BY <1>5, <1>6, <1>7, <1>8, <2>1 DEF Spots
<1>9. CASE i \notin deferred \ done
  <2>1. /\ \A t \in Threads : \A s \in Spots : ~In(i, t, s)
        /\ \A k \in 1 .. Len(queue) : ~Queued(i, k)
    BY <1>1, <1>9, PlacedDeferred DEF ApartOK
  <2>2. Q = {} /\ \A s \in Spots : T(s) = {}
    BY <1>2, <2>1
  <2> HIDE DEF T, Q
  <2> QED  BY <1>5, <1>9, <2>2 DEF Spots
<1> QED  BY <1>8, <1>9

\* A deferred function is in exactly one place of a live thread or of the queue
\* until it is executed, and in none after.
THEOREM OncePlaced == Spec => []EachItemOnce
  BY CountPlaces, Invariance, Ownership, PTL

\* Steps that leave every thread inside or outside its critical section, and the
\* history alone, are stutters of Reclamation.
LEMMA Stutter ==
  ASSUME UNCHANGED hist, \A u \in Threads : InGuard(u)' <=> InGuard(u)
  PROVE  UNCHANGED R!vars
BY DEF hist, R!vars, Guarded

\* A pin that found the epoch unchanged enters the critical section, and a store
\* of Unpinned, or the start of a repin, leaves it.
LEMMA Moves ==
  ASSUME NEW t \in Threads, UNCHANGED <<deferred, done>>,
         \A u \in Threads \ {t} : InGuard(u)' <=> InGuard(u)
  PROVE  /\ InGuard(t)' /\ wit' = wit => R!Enter(t)
         /\ ~InGuard(t)' /\ Forget(t) => R!Exit(t)
<1>1. InGuard(t)' => Guarded' = Guarded \union {t}
  BY DEF Guarded
<1>2. ~InGuard(t)' => Guarded' = Guarded \ {t}
  BY DEF Guarded
<1> QED  BY <1>1, <1>2 DEF Forget, R!Enter, R!Exit, R!Forget

\* Every step of the collector is a step of Reclamation or a stutter.
LEMMA NextRefines == IInv /\ OInv /\ [Next]_vars => [R!Next]_(R!vars)
<1> USE DEF Goto, thr, bags, coll
<1>1. ASSUME IInv, OInv, NEW t \in Threads, Step(t) PROVE [R!Next]_(R!vars)
  <2> TypeOK /\ ControlOK
    BY <1>1 DEF IInv
  <2> USE DEF TypeOK, InGuard
  <2>1. CASE Pinning(t)
    <3>1. CASE Pin(t) \/ PinLoad(t) \/ PinStore(t) \/ PinUndo(t) \/ PinNested(t)
      <4>1. \A u \in Threads : InGuard(u)' <=> InGuard(u)
        BY <3>1 DEF Pin, PinLoad, PinStore, PinUndo, PinNested
      <4>2. UNCHANGED hist
        BY <3>1 DEF Pin, PinLoad, PinStore, PinUndo, PinNested
      <4> QED  BY <4>1, <4>2, Stutter
    <3>2. CASE PinCheck(t)
      <4>1. CASE pc'[t] = "undo"
        BY <3>2, <4>1, Stutter DEF PinCheck
      <4>2. CASE pc'[t] # "undo"
        <5>1. InGuard(t)'
          BY <3>2, <4>2 DEF PinCheck, ControlOK, PinLoop
        <5>2. R!Enter(t)
          BY <3>2, <5>1, Moves DEF PinCheck, hist
        <5> QED  BY <5>2 DEF R!Next
      <4> QED  BY <4>1, <4>2
    <3> QED  BY <2>1, <3>1, <3>2 DEF Pinning
  <2>2. CASE Unpinning(t)
    <3>1. CASE UnpinNested(t)
      BY <3>1, Stutter DEF UnpinNested
    <3>2. CASE Unpin(t) \/ RepinAfter(t) \/ Repin(t)
      <4>1. ~InGuard(t)' /\ Forget(t) /\ UNCHANGED <<deferred, done>>
        BY <3>2 DEF Unpin, StartFinalize, RepinAfter, Repin
      <4>2. \A u \in Threads \ {t} : InGuard(u)' <=> InGuard(u)
        BY <3>2 DEF Unpin, StartFinalize, RepinAfter, Repin
      <4>3. R!Exit(t)
        BY <4>1, <4>2, Moves
      <4> QED  BY <4>3 DEF R!Next
    <3>3. CASE RepinStore(t)
      <4>1. InGuard(t)' /\ UNCHANGED hist
        BY <3>3 DEF RepinStore, ControlOK
      <4>2. R!Enter(t)
        BY <3>3, <4>1, Moves DEF RepinStore, hist
      <4> QED  BY <4>2 DEF R!Next
    <3> QED  BY <2>2, <3>1, <3>2, <3>3 DEF Unpinning
  <2>3. CASE Lifetime(t)
    <3>1. CASE Register(t) \/ FinPush(t) \/ FinDelete(t)
      BY <3>1, Stutter DEF Register, FinPush, FinDelete, ControlOK
    <3>2. CASE ReleaseHandle(t)
      BY <3>2, Stutter DEF ReleaseHandle, StartFinalize
    <3>3. CASE FinUnpin(t)
      <4>1. ~InGuard(t)' /\ Forget(t) /\ UNCHANGED <<deferred, done>>
        BY <3>3 DEF FinUnpin
      <4>2. R!Exit(t)
        BY <3>3, <4>1, Moves DEF FinUnpin
      <4> QED  BY <4>2 DEF R!Next
    <3> QED  BY <2>3, <3>1, <3>2, <3>3 DEF Lifetime
  <2>6. ASSUME NEW i \in Items, PutInBag(t, i), Ready(t) \/ pc[t] = "popped"
        PROVE  [R!Next]_(R!vars)
    <3>1. \A u \in Threads : InGuard(u)' <=> InGuard(u)
      BY <2>6 DEF PutInBag, Ready
    <3>2. Guarded' = Guarded
      BY <3>1 DEF Guarded
    <3>3. R!Defer(i)
      BY <2>6, <3>2 DEF PutInBag, R!Defer
    <3> QED  BY <3>3 DEF R!Next
  <2>4. CASE Deferring(t)
    <3>1. CASE Flush(t) \/ PushToGlobal(t) \/ CountNothing(t) \/ Count(t)
      BY <3>1, Stutter DEF Flush, PushToGlobal, FlushBag, Ready, Ret, CountNothing, Count
    <3>2. CASE CountBag(t) \/ Seal(t) \/ Push(t)
      BY <3>2, Stutter DEF CountBag, Seal, Push, Ret
    <3>3. ASSUME NEW i \in Items, Defer(t, i) PROVE [R!Next]_(R!vars)
      BY <2>6, <3>3 DEF Defer
    <3> QED  BY <2>4, <3>1, <3>2, <3>3 DEF Deferring
  <2>5. CASE Collecting(t)
    <3>1. CASE \/ \E u \in Threads : Scan(t, u)
               \/ Pop(t) \/ LeakNode(t) \/ Discount(t) \/ CollectEnd(t) \/ BagDropped(t)
      BY <3>1, Stutter DEF Scan, Pop, LeakNode, Discount, CollectEnd, BagDropped
    <3>2. CASE ScanFail(t) \/ Advance(t)
      BY <3>2, Stutter DEF ScanFail, Advance, Advanced, Ret
    <3>3. ASSUME NEW i \in Items, Execute(t, i) PROVE [R!Next]_(R!vars)
      <4>1. i \in deferred /\ wit[i] = {}
        BY <1>1, <3>3 DEF IInv, FreshOK, GracePeriod, Execute
      <4>2. i \notin done
        <5>1. In(i, t, "run") /\ "run" \in Spots
          BY <3>3 DEF Execute, In, Spots
        <5> QED  BY <1>1, <5>1 DEF OInv, ApartOK
      <4>3. Guarded' = Guarded /\ UNCHANGED <<deferred, wit>> /\ done' = done \union {i}
        BY <3>3 DEF Execute, Guarded
      <4>4. R!Execute(i)
        BY <4>1, <4>2, <4>3 DEF R!Execute
      <4> QED  BY <4>4 DEF R!Next
    <3>4. ASSUME NEW i \in Nodes, DeferNode(t, i) PROVE [R!Next]_(R!vars)
      BY <2>6, <3>4, ItemAssumption DEF DeferNode
    <3> QED  BY <2>5, <3>1, <3>2, <3>3, <3>4 DEF Collecting
  <2> QED  BY <1>1, <2>1, <2>2, <2>3, <2>4, <2>5 DEF Step
<1>2. ASSUME UNCHANGED vars PROVE [R!Next]_(R!vars)
  BY <1>2, Stutter DEF vars, InGuard
<1> QED  BY <1>1, <1>2 DEF Next

\* The epoch-based collector keeps the promise of Reclamation: a function runs at
\* most once, and only when every thread that was in a critical section when it
\* was deferred has left that section.
THEOREM Implements == Spec => Refinement
<1>1. Init => R!Init
  BY DEF Init, R!Init, Guarded, InGuard
<1> QED  BY <1>1, NextRefines, Invariance, Ownership, PTL DEF Spec, Refinement, R!Spec

\* The functions GLOBAL_GARBAGE_COUNT counts.
Garbage == {i \in Items : Counted(i)}
\* Bags and the counted functions are finite, so that sizes add up.
GInv == /\ garbage = Cardinality(Garbage) /\ IsFiniteSet(Garbage)
        /\ \A t \in Threads : IsFiniteSet(bag[t])

\* Steps that count the same functions as before, and keep the count, keep it exact.
LEMMA SameGarbage ==
  ASSUME GInv, garbage' = garbage, \A i \in Items : Counted(i)' <=> Counted(i),
         \A t \in Threads : IsFiniteSet(bag'[t])
  PROVE  GInv'
<1>1. Garbage' = Garbage
  BY DEF Garbage
<1> QED  BY <1>1 DEF GInv

\* So do steps that move no function between a bag that is being pushed, the
\* queue and a bag that was popped.
LEMMA Aside ==
  ASSUME GInv, UNCHANGED <<sealed, queue, garbage>>, \A t \in Threads : IsFiniteSet(bag'[t]),
         \A t \in Threads : /\ pc'[t] = "epoch" <=> pc[t] = "epoch"
                            /\ pc[t] = "epoch" => bag'[t] = bag[t]
                            /\ owes'[t] = owes[t] /\ (owes[t] => run'[t] = run[t])
  PROVE  GInv'
<1>1. \A i \in Items : Counted(i)' <=> Counted(i)
  BY DEF Counted
<1> QED  BY <1>1, SameGarbage

\* push_bag adds the size of the bag it is about to seal, which was not counted.
LEMMA CountBag_Garbage ==
  ASSUME IInv, OInv, GInv, NEW t \in Threads, CountBag(t) PROVE GInv'
<1>1. TypeOK /\ pc[t] = "seal" /\ garbage = Cardinality(Garbage) /\ IsFiniteSet(Garbage)
  BY DEF IInv, CountBag, GInv
<1>2. bag[t] \subseteq Items /\ IsFiniteSet(bag[t])
  BY <1>1 DEF TypeOK, GInv
<1>3. Garbage \cap bag[t] = {}
  <2> SUFFICES ASSUME NEW i \in bag[t], Counted(i) PROVE FALSE
    BY DEF Garbage
  <2>1. i \in Items /\ In(i, t, "bag") /\ {"bag", "sealed", "run"} \subseteq Spots
    BY <1>2 DEF In, Spots
  <2>2. ASSUME NEW u \in Threads, NEW s \in {"bag", "sealed", "run"}, In(i, u, s)
        PROVE  u = t /\ s = "bag"
    BY <2>1, <2>2 DEF OInv, ApartOK
  <2>3. \A k \in 1 .. Len(queue) : i \notin queue[k].items
    BY <2>1 DEF OInv, ApartOK, Queued
  <2> QED  BY <1>1, <2>2, <2>3 DEF Counted, In
<1>4. Garbage' = Garbage \union bag[t]
  <2>1. \A u \in Threads : pc'[u] = IF u = t THEN "epoch" ELSE pc[u]
    BY <1>1 DEF TypeOK, CountBag, Goto
  <2>2. UNCHANGED <<bag, sealed, queue, owes, run>>
    BY DEF CountBag, coll
  <2>3. \A i \in Items : Counted(i)' <=> Counted(i) \/ i \in bag[t]
    BY <1>1, <2>1, <2>2 DEF Counted
  <2> QED  BY <1>2, <2>3 DEF Garbage
<1>5. /\ IsFiniteSet(Garbage \union bag[t])
      /\ Cardinality(Garbage \union bag[t]) = Cardinality(Garbage) + Cardinality(bag[t])
  <2>1. Cardinality(Garbage \cap bag[t]) = 0
    BY <1>3, FS_EmptySet
  <2>2. Cardinality(Garbage) \in Nat /\ Cardinality(bag[t]) \in Nat
    BY <1>1, <1>2, FS_CardinalityType
  <2>3. /\ IsFiniteSet(Garbage \union bag[t])
        /\ Cardinality(Garbage \union bag[t])
             = Cardinality(Garbage) + Cardinality(bag[t]) - Cardinality(Garbage \cap bag[t])
    BY <1>1, <1>2, FS_Union
  <2> QED  BY <2>1, <2>2, <2>3
<1>6. garbage' = Cardinality(Garbage') /\ bag' = bag
  BY <1>1, <1>4, <1>5 DEF CountBag
<1> QED  BY <1>4, <1>5, <1>6 DEF GInv

\* The bag it takes and seals stays counted.
LEMMA Seal_Garbage ==
  ASSUME IInv, OInv, GInv, NEW t \in Threads, Seal(t) PROVE GInv'
<1>1. TypeOK /\ pc[t] = "epoch" /\ sealed[t].items = {}
  BY DEF IInv, OInv, EmptyOK, Seal
<1>2. \A u \in Threads : /\ pc'[u] = (IF u = t THEN "push" ELSE pc[u])
                         /\ bag'[u] = (IF u = t THEN {} ELSE bag[u])
                         /\ sealed'[u].items = IF u = t THEN bag[t] ELSE sealed[u].items
  BY <1>1 DEF TypeOK, Seal, Goto
<1>3. UNCHANGED <<queue, garbage, owes, run>>
  BY DEF Seal, coll
<1>4. \A i \in Items : Counted(i)' <=> Counted(i)
  BY <1>1, <1>2, <1>3 DEF Counted
<1>5. \A u \in Threads : IsFiniteSet(bag'[u])
  BY <1>2, FS_EmptySet DEF GInv
<1> QED  BY <1>3, <1>4, <1>5, SameGarbage

\* The queue push hands the counted functions on.
LEMMA Push_Garbage ==
  ASSUME IInv, GInv, NEW t \in Threads, Push(t) PROVE GInv'
<1>1. TypeOK
  BY DEF IInv
<1>2. \A u \in Threads : sealed'[u].items = IF u = t THEN {} ELSE sealed[u].items
  BY <1>1 DEF TypeOK, Push
<1>3. Len(queue) \in Nat /\ Len(queue') = Len(queue) + 1 /\ queue'[Len(queue')] = sealed[t]
  BY <1>1 DEF TypeOK, Push
<1>4. \A k \in 1 .. Len(queue) : queue'[k] = queue[k]
  BY <1>1 DEF TypeOK, Push
<1>5. \A k \in 1 .. Len(queue') : k \in 1 .. Len(queue) \/ k = Len(queue')
  BY <1>3
<1>6. \A k \in 1 .. Len(queue) : k \in 1 .. Len(queue')
  BY <1>3
<1>7. Len(queue') \in 1 .. Len(queue')
  BY <1>3
<1>8. /\ pc[t] # "epoch" /\ pc'[t] # "epoch"
      /\ \A u \in Threads \ {t} : pc'[u] = pc[u] /\ bag'[u] = bag[u]
  BY <1>1 DEF TypeOK, Push, Goto, Ret
<1>9. UNCHANGED <<garbage, owes, run>>
  BY DEF Push, coll
<1>10. \A i \in Items : Counted(i)' <=> Counted(i)
  <2> TAKE i \in Items
  <2>1. (\E k \in 1 .. Len(queue') : i \in queue'[k].items)
          <=> i \in sealed[t].items \/ \E k \in 1 .. Len(queue) : i \in queue[k].items
    BY <1>3, <1>4, <1>5, <1>6, <1>7
  <2> QED  BY <1>2, <1>8, <1>9, <2>1 DEF Counted
<1>11. \A u \in Threads : IsFiniteSet(bag'[u])
  <2>1. bag'[t] = {} \/ bag'[t] = {arg[t]}
    BY <1>1 DEF TypeOK, Push
  <2>2. IsFiniteSet(bag'[t])
    <3>1. CASE bag'[t] = {}
      BY <3>1, FS_EmptySet
    <3>2. CASE bag'[t] = {arg[t]}
      BY <3>2, FS_Singleton
    <3> QED  BY <2>1, <3>1, <3>2
  <2> QED  BY <1>8, <2>2 DEF GInv
<1> QED  BY <1>9, <1>10, <1>11, SameGarbage

\* The bag collect pops stays counted, since collect owes it.
LEMMA Pop_Garbage ==
  ASSUME IInv, OInv, GInv, NEW t \in Threads, Pop(t) PROVE GInv'
<1>1. TypeOK /\ pc[t] = "loop" /\ ~owes[t]
  BY DEF IInv, OInv, EmptyOK, Pop
<1>2. queue # <<>> /\ queue' = Tail(queue) /\ queue \in Seq(SealedBag) /\ Head(queue) = queue[1]
  BY <1>1 DEF Pop, CanPop, TypeOK
<1>3. Len(queue) \in Nat /\ Len(queue) > 0 /\ Len(queue') = Len(queue) - 1
  BY <1>2
<1>4. \A k \in 1 .. Len(queue') : k + 1 \in 1 .. Len(queue) /\ queue'[k] = queue[k + 1]
  BY <1>2, <1>3
<1>5. \A k \in 1 .. Len(queue) : k = 1 \/ (k - 1 \in 1 .. Len(queue') /\ queue'[k - 1] = queue[k])
  BY <1>2, <1>3
<1>6. 1 \in 1 .. Len(queue)
  BY <1>3
<1>7. \A u \in Threads : /\ run'[u] = (IF u = t THEN queue[1].items ELSE run[u])
                         /\ owes'[u] = (u = t \/ owes[u])
                         /\ pc'[u] = IF u = t THEN "popped" ELSE pc[u]
  BY <1>1, <1>2 DEF TypeOK, Pop, Goto
<1>8. UNCHANGED <<bag, sealed, garbage>>
  BY DEF Pop
<1>9. \A i \in Items : Counted(i)' <=> Counted(i)
  <2> TAKE i \in Items
  <2>1. (\E k \in 1 .. Len(queue) : i \in queue[k].items)
          <=> i \in queue[1].items \/ \E k \in 1 .. Len(queue') : i \in queue'[k].items
    BY <1>4, <1>5, <1>6
  <2> QED  BY <1>1, <1>7, <1>8, <2>1 DEF Counted
<1> QED  BY <1>8, <1>9, SameGarbage DEF GInv

\* collect takes the size of the bag it owes off the count.
LEMMA Discount_Garbage ==
  ASSUME IInv, OInv, GInv, NEW t \in Threads, Discount(t) PROVE GInv'
<1> DEFINE P == run[t]
<1>1. /\ TypeOK /\ pc[t] = "discount" /\ owes[t]
      /\ garbage = Cardinality(Garbage) /\ IsFiniteSet(Garbage)
  BY DEF IInv, OInv, EmptyOK, Discount, GInv
<1>2. P \subseteq Garbage
  BY <1>1 DEF TypeOK, Garbage, Counted
<1>3. ASSUME NEW i \in P
      PROVE  /\ \A u \in Threads : i \notin bag[u] /\ i \notin sealed[u].items
             /\ \A u \in Threads \ {t} : i \notin run[u]
             /\ \A k \in 1 .. Len(queue) : i \notin queue[k].items
  <2>1. i \in Items /\ In(i, t, "run") /\ {"bag", "sealed", "run"} \subseteq Spots
    BY <1>1 DEF TypeOK, In, Spots
  <2>2. ASSUME NEW u \in Threads, NEW s \in {"bag", "sealed", "run"}, In(i, u, s)
        PROVE  u = t /\ s = "run"
    BY <2>1, <2>2 DEF OInv, ApartOK
  <2>3. \A k \in 1 .. Len(queue) : ~Queued(i, k)
    BY <2>1 DEF OInv, ApartOK
  <2> QED  BY <2>2, <2>3 DEF In, Queued
<1>4. \A u \in Threads : /\ owes'[u] = (u # t /\ owes[u])
                         /\ pc'[u] = IF u = t THEN "run" ELSE pc[u]
  BY <1>1 DEF TypeOK, Discount, Goto
<1>5. UNCHANGED <<bag, sealed, queue, run>> /\ garbage' = garbage - Cardinality(P)
  BY DEF Discount
<1>6. \A i \in Items : Counted(i)' <=> Counted(i) /\ i \notin P
  BY <1>1, <1>3, <1>4, <1>5 DEF Counted
<1>7. Garbage' = Garbage \ P
  BY <1>6 DEF Garbage
<1>8. IsFiniteSet(Garbage \ P) /\ Cardinality(Garbage \ P) = Cardinality(Garbage) - Cardinality(P)
  <2>1. Garbage \cap P = P
    BY <1>2
  <2>2. IsFiniteSet(Garbage)
    BY <1>1
  <2> HIDE DEF P
  <2>3. /\ IsFiniteSet(Garbage \ P)
        /\ Cardinality(Garbage \ P) = Cardinality(Garbage) - Cardinality(Garbage \cap P)
    BY <2>2, FS_Difference
  <2> QED  BY <2>1, <2>3
<1>9. garbage' = Cardinality(Garbage') /\ IsFiniteSet(Garbage')
  BY <1>1, <1>5, <1>7, <1>8
<1>10. \A u \in Threads : IsFiniteSet(bag'[u])
  BY <1>5 DEF GInv
<1> QED  BY <1>9, <1>10 DEF GInv

\* Every step keeps the garbage count exact.
LEMMA NextGInv == IInv /\ OInv /\ GInv /\ [Next]_vars => GInv'
<1> USE DEF thr, bags, coll, hist, Goto
<1>1. ASSUME IInv, OInv, GInv, NEW t \in Threads, Step(t) PROVE GInv'
  <2>1. TypeOK /\ EmptyOK /\ \A u \in Threads : IsFiniteSet(bag[u])
    BY <1>1 DEF IInv, OInv, GInv
  <2>2. CASE /\ UNCHANGED <<bag, sealed, queue, garbage, run, owes>>
             /\ \A u \in Threads : pc'[u] = "epoch" <=> pc[u] = "epoch"
    BY <1>1, <2>1, <2>2, Aside
  <2>3. CASE Pinning(t)
    <3>1. UNCHANGED <<bag, sealed, queue, garbage, run, owes>>
      BY <2>3 DEF Pinning, Pin, PinLoad, PinStore, PinCheck, PinUndo, PinNested
    <3>2. \A u \in Threads : pc'[u] = "epoch" <=> pc[u] = "epoch"
      BY <2>1, <2>3 DEF TypeOK, Pinning, Pin, PinLoad, PinStore, PinCheck, PinUndo, PinNested
    <3> QED  BY <2>2, <3>1, <3>2
  <2>4. CASE Unpinning(t)
    <3>1. UNCHANGED <<bag, sealed, queue, garbage, run, owes>>
      BY <2>4 DEF Unpinning, UnpinNested, Unpin, RepinAfter, Repin, RepinStore
    <3>2. \A u \in Threads : pc'[u] = "epoch" <=> pc[u] = "epoch"
      BY <2>1, <2>4 DEF TypeOK, Unpinning, UnpinNested, Unpin, StartFinalize, RepinAfter, Repin,
                        RepinStore
    <3> QED  BY <2>2, <3>1, <3>2
  <2>5. CASE Register(t) \/ ReleaseHandle(t) \/ FinUnpin(t) \/ FinDelete(t)
    <3>1. UNCHANGED <<bag, sealed, queue, garbage, run, owes>>
      BY <2>5 DEF Register, ReleaseHandle, FinUnpin, FinDelete
    <3>2. \A u \in Threads : pc'[u] = "epoch" <=> pc[u] = "epoch"
      BY <2>1, <2>5 DEF TypeOK, Register, ReleaseHandle, StartFinalize, FinUnpin, FinDelete
    <3> QED  BY <2>2, <3>1, <3>2
  <2>6. CASE FinPush(t) \/ Flush(t) \/ PushToGlobal(t) \/ CountNothing(t) \/ Count(t)
    <3>1. UNCHANGED <<bag, sealed, queue, garbage, run, owes>>
      BY <2>6 DEF FinPush, Flush, PushToGlobal, FlushBag, CountNothing, Count
    <3>2. \A u \in Threads : pc'[u] = "epoch" <=> pc[u] = "epoch"
      BY <2>1, <2>6 DEF TypeOK, FinPush, Flush, PushToGlobal, FlushBag, Ready, Ret, CountNothing,
                        Count
    <3> QED  BY <2>2, <3>1, <3>2
  <2>7. ASSUME NEW i \in Items, PutInBag(t, i), Ready(t) \/ pc[t] = "popped" PROVE GInv'
    <3>1. \A u \in Threads : /\ pc'[u] = "epoch" <=> pc[u] = "epoch"
                             /\ pc[u] = "epoch" => bag'[u] = bag[u]
      BY <2>1, <2>7 DEF TypeOK, PutInBag, Ready
    <3>2. \A u \in Threads : bag'[u] = bag[u] \/ bag'[u] = bag[u] \union {i}
      BY <2>1, <2>7 DEF TypeOK, PutInBag
    <3>3. \A u \in Threads : IsFiniteSet(bag'[u])
      <4> TAKE u \in Threads
      <4>1. IsFiniteSet(bag[u])
        BY <2>1
      <4>2. IsFiniteSet(bag[u] \union {i})
        BY <4>1, FS_AddElement
      <4> QED  BY <3>2, <4>1, <4>2
    <3>4. UNCHANGED <<sealed, queue, garbage, run, owes>>
      BY <2>7 DEF PutInBag
    <3> QED  BY <1>1, <3>1, <3>3, <3>4, Aside
  <2>8. CASE Deferring(t)
    <3>1. ASSUME NEW i \in Items, Defer(t, i) PROVE GInv'
      BY <2>7, <3>1 DEF Defer
    <3>2. CASE CountBag(t) \/ Seal(t) \/ Push(t)
      BY <1>1, <3>2, CountBag_Garbage, Seal_Garbage, Push_Garbage
    <3> QED  BY <2>6, <2>8, <3>1, <3>2 DEF Deferring
  <2>9. CASE Collecting(t)
    <3>1. CASE \/ \E u \in Threads : Scan(t, u)
               \/ ScanFail(t) \/ Advance(t) \/ LeakNode(t) \/ CollectEnd(t) \/ BagDropped(t)
      <4>1. UNCHANGED <<bag, sealed, queue, garbage, run, owes>>
        BY <3>1 DEF Scan, ScanFail, Advance, LeakNode, CollectEnd, BagDropped
      <4>2. \A u \in Threads : pc'[u] = "epoch" <=> pc[u] = "epoch"
        BY <2>1, <3>1 DEF TypeOK, Scan, ScanFail, Advance, Advanced, Ret, LeakNode, CollectEnd,
                          BagDropped
      <4> QED  BY <2>2, <4>1, <4>2
    <3>2. CASE Pop(t) \/ Discount(t)
      BY <1>1, <3>2, Pop_Garbage, Discount_Garbage
    <3>3. ASSUME NEW i \in Nodes, DeferNode(t, i) PROVE GInv'
      BY <2>7, <3>3, ItemAssumption DEF DeferNode
    <3>4. ASSUME NEW i \in Items, Execute(t, i) PROVE GInv'
      <4>1. ~owes[t] /\ \A u \in Threads \ {t} : run'[u] = run[u]
        BY <2>1, <3>4 DEF TypeOK, EmptyOK, Execute
      <4>2. UNCHANGED <<pc, bag, sealed, queue, garbage, owes>>
        BY <3>4 DEF Execute
      <4> QED  BY <1>1, <2>1, <4>1, <4>2, Aside
    <3> QED  BY <2>9, <3>1, <3>2, <3>3, <3>4 DEF Collecting
  <2> QED  BY <1>1, <2>3, <2>4, <2>5, <2>6, <2>8, <2>9 DEF Step, Lifetime
<1>2. ASSUME GInv, UNCHANGED vars PROVE GInv'
  BY <1>2, Aside DEF vars, GInv
<1> QED  BY <1>1, <1>2 DEF Next

\* GLOBAL_GARBAGE_COUNT is the number of functions in the bags that a push has
\* counted and no collect has taken off again, and so it never underflows.
THEOREM ExactGarbage == Spec => []GarbageExact
<1>1. Init => GInv
  <2> SUFFICES ASSUME Init PROVE GInv  OBVIOUS
  <2>1. /\ Len(queue) = 0 /\ garbage = 0
        /\ \A t \in Threads : /\ bag[t] = {} /\ sealed[t].items = {}
                              /\ pc[t] # "epoch" /\ ~owes[t]
    BY DEF Init
  <2>2. Garbage = {}
    BY <2>1 DEF Garbage, Counted
  <2> QED  BY <2>1, <2>2, FS_EmptySet DEF GInv
<1>2. GInv => GarbageExact
  BY DEF GInv, GarbageExact, Garbage
<1> QED  BY <1>1, <1>2, NextGInv, Invariance, Ownership, PTL DEF Spec
==============================================================================
