------------------------ MODULE HPDomain_hazards_proofs ------------------------
(***************************************************************************)
(* Hazard pointers protect, for any number of threads, records, references *)
(* and objects and any size of arrays: no entry that a protection holds    *)
(* back is called, and no slot array that a scan reads is reclaimed.       *)
(***************************************************************************)
EXTENDS HPDomain_proofs

\* What has been retired once; an array is retired when another took its place.
GoneOK ==
  /\ link \notin gone /\ retireds \subseteq gone /\ freed \subseteq gone
  /\ \A t \in Threads : retired[t] \subseteq gone /\ popped[t] \subseteq gone
  /\ \A k \in 1 .. MaxRecs, g \in Nat : Addr(k, g) \in gone => g < Last(k)

\* A hazard pointer holds back entries of the pointer it publishes.
HeldOK == \A t \in Threads, n \in Handles : \A o \in hp[t][n].held : Ptr[o] = hp[t][n].p

\* Slot i of thread t protects the entry e: for a client, or for a scan.
Protects(t, i, e) ==
  \/ \E n \in Handles : e \in hp[t][n].held /\ hp[t][n].i = i
  \/ pc[t].at = "slots" /\ pc[t].i = i /\ e = Addr(pc[t].k, pc[t].g)
\* A scan at b has still to read slot i of record k, whose arrays are A.  In an
\* array that was replaced p may be in a slot that is another's by now.
Ahead(b, A, k, i, p) ==
  \/ b.at = "head"
  \/ b.at \in {"record", "array", "guard", "recheck"} /\ k <= b.k
  \/ b.at = "slots" /\ k < b.k
  \/ /\ b.at = "slots" /\ k = b.k
     /\ \E j \in DOMAIN A[b.g] : b.j <= j /\ A[b.g][j] = p /\ (b.g = Len(A) => j = i)
\* Who popped the entry e has seen its pointer p in that slot, or will.
Seen(u, k, i, e, p) == e \in popped[u] => p \in guarded[u] \/ Ahead(Base(pc[u]), arrays[k], k, i, p)
\* A pointer copied to a slot that the scan has passed already is lost on it.
Safe == {e \in Entries : e \in Addrs \/ "copy_to" \notin client.calls}

\* Whoever took a protected entry to reclaim it has seen the protection, or will.
HazardOK == \A t \in Threads, i \in Nat, e \in Safe :
              Protects(t, i, e) => e \notin freed /\ \A u \in Threads : Seen(u, rec[t], i, e, PtrOf(e))
HInv == SInv /\ GoneOK /\ HeldOK /\ HazardOK

-------------------------------------------------------------------------------
(* What has been retired. *)

\* Retiring adds to one batch and to the history.
LEMMA DeferGone ==
  ASSUME SInv, NEW t \in Threads, NEW e, NEW p, Defer(t, e, p)
  PROVE  /\ gone' = gone \cup {e} /\ retired'[t] = retired[t] \cup {e}
         /\ \A u \in Threads \ {t} : retired'[u] = retired[u]
<1>1. ThreadType
  BY DEF SInv, TypeOK
<1> QED  BY <1>1 DEF Defer, ThreadType

\* The arrays of a record only become more.
LEMMA GoneArrays ==
  ASSUME SInv, GoneOK, NEW t \in Threads, Step(t),
         NEW k \in 1 .. MaxRecs, NEW g \in Nat, Addr(k, g) \in gone
  PROVE  g < Last(k)'
<1>1. Last(k) \in Nat /\ Last(k)' \in Nat /\ Last(k) <= Last(k)'
  BY ArraysKept
<1>2. g < Last(k)
  BY DEF GoneOK
<1> QED  BY <1>1, <1>2

LEMMA GoneFrame ==
  ASSUME SInv, GoneOK, NEW t \in Threads, Step(t),
         UNCHANGED <<link, gone, freed, retireds, retired, popped>>
  PROVE  GoneOK'
<1>1. \A k \in 1 .. MaxRecs, g \in Nat : Addr(k, g) \in gone' => g < Last(k)'
  BY GoneArrays
<1> QED  BY <1>1 DEF GoneOK, Addr

\* Retiring a reference: not the one in the link.
LEMMA GoneObject ==
  ASSUME SInv, GoneOK, NEW t \in Threads, Step(t), NEW o \in Refs, NEW p, Defer(t, o, p),
         link' # o, link' \notin gone, UNCHANGED <<retireds>>,
         freed' \subseteq gone, popped' \in [Threads -> SUBSET gone]
  PROVE  GoneOK'
<1>1. gone' = gone \cup {o} /\ \A u \in Threads : retired'[u] \subseteq retired[u] \cup {o}
  BY DeferGone
<1>2. \A k \in 1 .. MaxRecs, g \in Nat : Addr(k, g) \in gone' => Addr(k, g) \in gone
  BY <1>1, AddrAssumption DEF Addr, Addrs
<1>3. \A k \in 1 .. MaxRecs, g \in Nat : Addr(k, g) \in gone' => g < Last(k)'
  BY <1>2, GoneArrays
<1>4. \A u \in Threads : retired'[u] \subseteq gone' /\ popped'[u] \subseteq gone'
  BY <1>1 DEF GoneOK
<1>5. link' \notin gone' /\ retireds' \subseteq gone' /\ freed' \subseteq gone'
  BY <1>1 DEF GoneOK
<1> QED  BY <1>3, <1>4, <1>5 DEF GoneOK, Addr

\* Retiring the array that growing replaced.
LEMMA GoneArray ==
  ASSUME SInv, GoneOK, NEW t \in Threads, Step(t), rec[t] # 0, NEW p, Grow(t, p),
         UNCHANGED <<link, freed, retireds, popped>>
  PROVE  GoneOK'
<1> DEFINE k == rec[t]  e == Addr(k, Last(k))
<1>1. gone' = gone \cup {e} /\ \A u \in Threads : retired'[u] \subseteq retired[u] \cup {e}
  BY DeferGone DEF Grow
<1>2. k \in 1 .. MaxRecs /\ Last(k) \in Nat /\ Last(k)' = Last(k) + 1
  BY OwnArray, GrowEffect
<1>3. link # e
  BY <1>2, AddrAssumption DEF SInv, TypeOK, SharedType, Roots, Addr, Addrs
<1>4. ASSUME NEW j \in 1 .. MaxRecs, NEW g \in Nat, Addr(j, g) \in gone' PROVE g < Last(j)'
  <2>1. CASE Addr(j, g) \in gone
    BY <2>1, GoneArrays
  <2>2. CASE Addr(j, g) = e
    <3>1. j = k /\ g = Last(k)
      BY <2>2 DEF Addr
    <3>2. rec' = rec
      BY DEF Grow, slot
    <3>4. Len(arrays'[rec[t]]) = Last(rec[t]) + 1
      BY <1>2, <3>2 DEF Last
    <3>3. Len(arrays'[j]) = g + 1
      BY <3>1, <3>4
    <3> QED  BY <3>3 DEF Last
  <2> QED  BY <1>1, <1>4, <2>1, <2>2
<1>5. \A u \in Threads : retired'[u] \subseteq gone' /\ popped'[u] \subseteq gone'
  BY <1>1 DEF GoneOK
<1>6. link' \notin gone' /\ retireds' \subseteq gone' /\ freed' \subseteq gone'
  BY <1>1, <1>3 DEF GoneOK
<1> QED  BY <1>4, <1>5, <1>6 DEF GoneOK, Addr

LEMMA Gone_Init == Init => GoneOK
  BY AddrAssumption DEF Init, GoneOK

\* Only what was retired is flushed, popped and called.
LEMMA Gone_Step == ASSUME SInv, GoneOK, NEW t \in Threads, Step(t) PROVE GoneOK'
<1> USE DEF env, records, pool, domain, slot, batch, loop, judging, recl, history
<1>1. SharedType /\ ThreadType /\ ControlAt(t) /\ pc \in [Threads -> PCs]
  BY DEF SInv, TypeOK, ControlOK
<1>2. popped \in [Threads -> SUBSET gone] /\ retired \in [Threads -> SUBSET Entries]
  BY <1>1 DEF ThreadType, GoneOK
<1>3. CASE Living(t)
  BY <1>3, GoneFrame DEF Living, Start, Skip, Recycle, NewRecord, Exit, Release, Take
<1>4. CASE Retiring(t)
  <2>1. ASSUME NEW o \in Roots \cup {Null}, Swap(t, o) PROVE GoneOK'
    <3>1. o \notin gone /\ link' = o /\ UNCHANGED <<retireds, freed, popped, gone, retired>>
      BY <2>1 DEF Swap
    <3>2. \A k \in 1 .. MaxRecs, g \in Nat : Addr(k, g) \in gone' => g < Last(k)'
      BY <3>1, GoneArrays
    <3> QED  BY <3>1, <3>2 DEF GoneOK, Addr
  <2>5. ASSUME NEW o \in Roots, Drop(t, o) PROVE GoneOK'
    <3>1. o # link /\ Defer(t, o, Idle) /\ UNCHANGED <<link, retireds, freed, popped>>
      BY <2>5 DEF Drop
    <3>2. o \in Refs /\ link' \notin gone /\ freed' \subseteq gone /\ popped' \in [Threads -> SUBSET gone]
      BY <1>2, <3>1 DEF Roots, GoneOK
    <3> QED  BY <3>1, <3>2, GoneObject
  <2>2. CASE EagerReclaim(t)
    BY <2>2, GoneFrame DEF EagerReclaim
  <2>3. CASE Flush(t)
    BY <2>3, GoneFrame DEF Flush
  <2>4. CASE Push(t)
    <3>1. /\ retireds' = retireds \cup retired[t] /\ retired' = [retired EXCEPT ![t] = {}]
          /\ UNCHANGED <<link, gone, freed, popped>>
      BY <2>4 DEF Push
    <3>2. \A k \in 1 .. MaxRecs, g \in Nat : Addr(k, g) \in gone' => g < Last(k)'
      BY <3>1, GoneArrays
    <3>3. \A u \in Threads : retired'[u] \subseteq retired[u]
      BY <1>2, <3>1
    <3> QED  BY <3>1, <3>2, <3>3 DEF GoneOK, Addr
  <2> QED  BY <1>4, <2>1, <2>2, <2>3, <2>4, <2>5 DEF Retiring
<1>5. CASE Slots(t)
  <2>1. CASE Extend(t)
    BY <2>1, GoneFrame DEF Extend
  <2>2. ASSUME NEW n \in Handles, NEW i \in free[t], Acquire(t, n, i) PROVE GoneOK'
    BY <2>2, GoneFrame DEF Acquire
  <2>3. ASSUME NEW n \in Handles, AcquireGrow(t, n) PROVE GoneOK'
    BY <2>3, GoneArray DEF AcquireGrow, Grow, Wants, Ready
  <2> QED  BY <1>5, <2>1, <2>2, <2>3 DEF Slots
<1>6. CASE Protecting(t)
  BY <1>6, GoneFrame DEF Protecting, Publish, Validate, Trust, DropHandle, Load, Clear, SwapHandles, Copy
<1>7. CASE Scanning(t)
  <2>1. CASE Pop(t)
    <3>1. /\ popped' = [popped EXCEPT ![t] = retireds] /\ retireds' = {}
          /\ UNCHANGED <<link, gone, freed, retired>>
      BY <2>1 DEF Pop, Again
    <3>2. \A k \in 1 .. MaxRecs, g \in Nat : Addr(k, g) \in gone' => g < Last(k)'
      BY <3>1, GoneArrays
    <3>3. \A u \in Threads : popped'[u] \subseteq gone
      BY <1>2, <3>1 DEF GoneOK
    <3> QED  BY <3>1, <3>2, <3>3 DEF GoneOK, Addr
  <2>2. CASE ReadArrayGrow(t)
    BY <1>1, <2>2, GoneArray DEF ReadArrayGrow, Grow, ControlAt
  <2>3. CASE ReadHead(t) \/ Record(t) \/ \E i \in free[t] : ReadArray(t, i)
    BY <2>3, GoneFrame DEF ReadHead, Record, ReadArray
  <2>4. CASE GuardArray(t) \/ Recheck(t) \/ ReadSlot(t) \/ EndArray(t)
    BY <2>4, GoneFrame DEF GuardArray, Recheck, ReadSlot, EndArray
  <2> QED  BY <1>7, <2>1, <2>2, <2>3, <2>4 DEF Scanning
<1>8. CASE Judgement(t)
  <2>1. ASSUME NEW e \in popped[t], Call(t, e) PROVE GoneOK'
    <3> DEFINE c == IF e \in Refs THEN Child[e] ELSE Null
    <3>1. /\ popped' = [popped EXCEPT ![t] = @ \ {e}] /\ freed' = freed \cup {e}
          /\ UNCHANGED <<link, retireds>>
      BY <2>1 DEF Call
    <3>2. freed' \subseteq gone /\ popped' \in [Threads -> SUBSET gone]
      BY <1>2, <3>1 DEF GoneOK
    <3>3. CASE c = Null
      <4>1. UNCHANGED <<gone, retired>>
        BY <2>1, <3>3 DEF Call
      <4>2. \A k \in 1 .. MaxRecs, g \in Nat : Addr(k, g) \in gone' => g < Last(k)'
        BY <4>1, GoneArrays
      <4> QED  BY <3>1, <3>2, <4>1, <4>2 DEF GoneOK, Addr
    <3>4. CASE c # Null
      <4>1. Defer(t, c, [at |-> "judge"])
        BY <2>1, <3>4 DEF Call
      <4>2. c \in Refs /\ link # c
        BY <1>1, <3>4, ChildAssumption, NullAssumption DEF SharedType, Roots
      <4>3. link' # c /\ link' \notin gone /\ retireds' = retireds
        BY <3>1, <4>2 DEF GoneOK
      <4> QED  BY <3>2, <4>1, <4>2, <4>3, GoneObject
    <3> QED  BY <3>3, <3>4
  <2>2. CASE Discount(t)
    BY <2>2, GoneFrame DEF Discount
  <2>3. CASE PutBack(t)
    <3>1. /\ popped' = [popped EXCEPT ![t] = {}] /\ retireds' = retireds \cup popped[t]
          /\ UNCHANGED <<link, gone, freed, retired>>
      BY <2>3 DEF PutBack, Again
    <3>2. \A k \in 1 .. MaxRecs, g \in Nat : Addr(k, g) \in gone' => g < Last(k)'
      BY <3>1, GoneArrays
    <3>3. \A u \in Threads : popped'[u] \subseteq popped[u]
      BY <1>2, <3>1
    <3> QED  BY <3>1, <3>2, <3>3 DEF GoneOK, Addr
  <2> QED  BY <1>8, <2>1, <2>2, <2>3 DEF Judgement
<1> QED  BY <1>3, <1>4, <1>5, <1>6, <1>7, <1>8 DEF Step

-------------------------------------------------------------------------------
(* Where a protection comes from. *)

\* Only a scan that has validated an array reads slots.
LEMMA SlotsFrom ==
  ASSUME SInv, NEW t \in Threads, Step(t), ~Recheck(t), ~ReadSlot(t)
  PROVE  pc'[t].at # "slots"
<1> USE DEF env, records, pool, domain, slot, batch, loop, judging, recl, history, Goto
<1>1. pc \in [Threads -> PCs] /\ pc[t] \in PCs
  BY DEF SInv, TypeOK
<1>2. back[t].at # "slots"
  <2>1. back[t] \in {Idle} \cup Growing
    BY DEF SInv, TypeOK, ThreadType
  <2> QED  BY <2>1, GrowingFields DEF Idle
<1>3. CASE Living(t)
  BY <1>1, <1>3 DEF Living, Start, Skip, Recycle, NewRecord, Take, Exit, Release, Idle
<1>4. ASSUME NEW o \in Roots \cup {Null}, Swap(t, o) PROVE pc'[t].at # "slots"
  BY <1>4 DEF Swap, Ready, Idle
<1>17. ASSUME NEW o \in Roots, Drop(t, o) PROVE pc'[t].at # "slots"
  BY <1>1, <1>17 DEF Drop, Defer, Ready, Idle
<1>5. CASE EagerReclaim(t) \/ Flush(t)
  BY <1>1, <1>5 DEF EagerReclaim, Flush
<1>6. CASE Push(t)
  <2>1. pc[t].to.at # "slots"
    BY <1>1, <1>6, PlaceFields, ReturnFields DEF Push
  <2>2. pc'[t] = pc[t].to \/ pc'[t] = [at |-> "pop"]
    BY <1>1, <1>6 DEF Push
  <2> QED  BY <2>1, <2>2
<1>7. CASE Extend(t)
  BY <1>1, <1>7, PlaceFields, GrowingFields DEF Extend
<1>8. ASSUME NEW n \in Handles, NEW i \in free[t], Acquire(t, n, i) PROVE pc'[t].at # "slots"
  BY <1>1, <1>8 DEF Acquire, Idle
<1>9. ASSUME NEW n \in Handles, AcquireGrow(t, n) PROVE pc'[t].at # "slots"
  BY <1>1, <1>9 DEF AcquireGrow, Grow, Defer
<1>10. CASE Protecting(t)
  <2>1. CASE Publish(t)
    BY <1>1, <2>1 DEF Publish
  <2>2. CASE Validate(t)
    <3>1. pc'[t] = Idle \/ pc'[t] = [at |-> "publish", h |-> pc[t].h, o |-> link]
      BY <1>1, <2>2 DEF Validate, Trust
    <3> QED  BY <3>1 DEF Idle
  <2>3. CASE pc' = pc /\ Ready(t)
    BY <2>3 DEF Ready, Idle
  <2>4. ASSUME NEW n \in Handles, Load(t, n) PROVE pc'[t].at # "slots"
    BY <1>1, <2>4 DEF Load
  <2> QED  BY <1>10, <2>1, <2>2, <2>3, <2>4 DEF Protecting, DropHandle, Clear, SwapHandles, Copy
<1>11. CASE Pop(t) \/ PutBack(t)
  <2>1. pc'[t] \in {back[t], [at |-> "pop"], [at |-> "head"]}
    BY <1>1, <1>11 DEF Pop, PutBack, Again
  <2> QED  BY <1>2, <2>1
<1>12. CASE ReadHead(t) \/ Record(t) \/ \E i \in free[t] : ReadArray(t, i)
  BY <1>1, <1>12 DEF ReadHead, Record, ReadArray
<1>13. CASE ReadArrayGrow(t)
  BY <1>1, <1>13 DEF ReadArrayGrow, Grow, Defer
<1>14. CASE GuardArray(t) \/ EndArray(t)
  BY <1>1, <1>14 DEF GuardArray, EndArray, Look
<1>15. ASSUME NEW e \in popped[t], Call(t, e) PROVE pc'[t].at # "slots"
  BY <1>1, <1>15 DEF Call, Defer
<1>16. CASE Discount(t)
  BY <1>1, <1>16 DEF Discount
<1> QED  BY <1>3, <1>4, <1>5, <1>6, <1>7, <1>8, <1>9, <1>10, <1>11, <1>12, <1>13, <1>14, <1>15, <1>16, <1>17
         DEF Step, Retiring, Slots, Scanning, Judgement

\* The pointer of what is retired.
LEMMA EntryPointer ==
  ASSUME NEW e \in Entries
  PROVE  PtrOf(e) # Null /\ (e \in Refs => PtrOf(e) = Ptr[e]) /\ (e \in Addrs => PtrOf(e) = e)
<1>1. CASE e \in Refs
  BY <1>1, NullAssumption, AddrAssumption DEF PtrOf, Ptrs
<1>2. CASE e \in Addrs
  BY <1>2, AddrAssumption DEF PtrOf
<1> QED  BY <1>1, <1>2 DEF Entries

\* Only publishing and validating give a hazard pointer more to hold back.
LEMMA HeldFrom ==
  ASSUME SInv, NEW t \in Threads, Step(t), ~Publish(t), ~Validate(t), NEW n \in Handles
  PROVE  \/ hp'[t][n].held = {}
         \/ \E m \in Handles : hp'[t][n].held = hp[t][m].held /\ hp'[t][n].p = hp[t][m].p
<1> USE DEF env, records, pool, domain, slot, batch, loop, judging, recl, history
<1>1. ThreadType
  BY DEF SInv, TypeOK
<1>2. CASE hp' = hp
  BY <1>2
<1>3. ASSUME NEW l \in Handles, NEW i \in free[t], Acquire(t, l, i)
      PROVE  hp'[t][n].held = {} \/ hp'[t][n] = hp[t][n]
  <2>1. hp' = [hp EXCEPT ![t][l] = Hazard(i, Null, {})]
    BY <1>3 DEF Acquire
  <2> QED  BY <1>1, <2>1 DEF ThreadType, Hazard
<1>4. ASSUME NEW l \in Handles, DropHandle(t, l) \/ Clear(t, l)
      PROVE  hp'[t][n].held = {} \/ hp'[t][n] = hp[t][n]
  <2>1. hp' = [hp EXCEPT ![t][l] = NoHp] \/ hp' = [hp EXCEPT ![t][l] = Hazard(@.i, Null, {})]
    BY <1>4 DEF DropHandle, Clear
  <2> QED  BY <1>1, <2>1 DEF ThreadType, NoHp, Hazard
<1>5. ASSUME NEW l \in Handles, NEW m \in Handles \ {l}, SwapHandles(t, l, m)
      PROVE  \E q \in Handles : hp'[t][n] = hp[t][q]
  <2>1. hp' = [hp EXCEPT ![t][l] = hp[t][m], ![t][m] = hp[t][l]]
    BY <1>5 DEF SwapHandles
  <2> QED  BY <1>1, <2>1 DEF ThreadType
<1>6. ASSUME NEW l \in Handles, NEW m \in Handles \ {l}, Copy(t, l, m)
      PROVE  \E q \in Handles : hp'[t][n].held = hp[t][q].held /\ hp'[t][n].p = hp[t][q].p
  <2>1. hp' = [hp EXCEPT ![t][m] = Hazard(@.i, hp[t][l].p, hp[t][l].held)]
    BY <1>6 DEF Copy
  <2> QED  BY <1>1, <2>1 DEF ThreadType, Hazard
<1>7. CASE Living(t) \/ Retiring(t)
  <2>1. hp' = hp
    BY <1>7 DEF Living, Start, Skip, Recycle, NewRecord, Exit, Release, Retiring, Swap, Drop,
                EagerReclaim, Flush, Push
  <2> QED  BY <1>2, <2>1
<1>8. CASE Slots(t)
  BY <1>2, <1>3, <1>8 DEF Slots, Extend, AcquireGrow, Grow
<1>9. CASE Protecting(t)
  BY <1>2, <1>4, <1>5, <1>6, <1>9 DEF Protecting, Load
<1>10. CASE Scanning(t)
  <2>1. hp' = hp
    BY <1>10 DEF Scanning, Pop, ReadHead, Record, ReadArray, ReadArrayGrow, Grow, GuardArray, Recheck,
                 ReadSlot, EndArray
  <2> QED  BY <1>2, <2>1
<1>11. CASE Judgement(t)
  <2>1. hp' = hp
    BY <1>11 DEF Judgement, Call, Discount, PutBack
  <2> QED  BY <1>2, <2>1
<1> QED  BY <1>7, <1>8, <1>9, <1>10, <1>11 DEF Step

\* What publishing and validating give it: what is not dropped yet.
LEMMA HeldMore ==
  ASSUME SInv, GoneOK, NEW t \in Threads, Publish(t) \/ Validate(t), NEW n \in Handles
  PROVE  /\ hp'[t][n].i = hp[t][n].i /\ UNCHANGED <<freed, popped>>
         /\ \/ hp'[t][n] = hp[t][n]
            \/ \A o \in hp'[t][n].held : o \notin gone /\ Ptr[o] = hp'[t][n].p
            \/ /\ hp'[t][n].p = hp[t][n].p
               /\ \A o \in hp'[t][n].held \ hp[t][n].held : o \notin gone /\ Ptr[o] = hp[t][n].p
<1> USE DEF env, records, pool, domain, slot, batch, loop, judging, recl, history
<1>1. ThreadType /\ pc \in [Threads -> PCs] /\ link \in Refs \cup {Null}
  BY DEF SInv, TypeOK, SharedType, Roots
<1> DEFINE h == pc[t].h
<1>2. h \in Handles /\ UNCHANGED <<freed, popped>>
  BY <1>1, PlaceFields DEF Publish, Validate
<1>3. hp[t][h] \in [i : Nat, p : Ptrs \cup {Null}, held : SUBSET Refs]
  BY <1>1, <1>2 DEF ThreadType
<1>4. CASE Publish(t)
  <2>1. hp' = [hp EXCEPT ![t][h] = Hazard(@.i, PtrOf(pc[t].o), Undropped(PtrOf(pc[t].o)))]
    BY <1>4 DEF Publish
  <2>2. hp'[t][n] = IF n = h THEN Hazard(hp[t][h].i, PtrOf(pc[t].o), Undropped(PtrOf(pc[t].o))) ELSE hp[t][n]
    BY <1>1, <1>2, <2>1 DEF ThreadType
  <2> QED  BY <1>2, <2>2 DEF Hazard, Undropped
<1>5. CASE Validate(t) /\ hp' = hp
  BY <1>2, <1>5
<1>6. CASE Validate(t) /\ hp' # hp
  <2>1. PtrOf(link) = hp[t][h].p /\ hp' = [hp EXCEPT ![t][h].held = @ \cup ({link} \ {Null})]
    BY <1>6 DEF Validate, Trust
  <2>2. hp'[t] = [hp[t] EXCEPT ![h] = [hp[t][h] EXCEPT !.held = @ \cup ({link} \ {Null})]]
    BY <1>1, <1>2, <1>3, <2>1 DEF ThreadType
  <2>3. hp'[t][n] = IF n = h THEN [hp[t][h] EXCEPT !.held = @ \cup ({link} \ {Null})] ELSE hp[t][n]
    BY <1>1, <1>2, <2>2 DEF ThreadType
  <2>4. \A o \in {link} \ {Null} : o \notin gone /\ Ptr[o] = hp[t][h].p
    BY <1>1, <2>1 DEF GoneOK, PtrOf
  <2>5. [hp[t][h] EXCEPT !.held = @ \cup ({link} \ {Null})]
        = [i |-> hp[t][h].i, p |-> hp[t][h].p, held |-> hp[t][h].held \cup ({link} \ {Null})]
    BY <1>3
  <2> QED  BY <1>2, <2>3, <2>4, <2>5
<1> QED  BY <1>4, <1>5, <1>6

LEMMA Held_Step == ASSUME SInv, GoneOK, HeldOK, NEW s \in Threads, Step(s) PROVE HeldOK'
<1> SUFFICES ASSUME NEW t \in Threads, NEW n \in Handles, NEW o \in hp'[t][n].held
             PROVE  Ptr[o] = hp'[t][n].p
  BY DEF HeldOK
<1>1. CASE t # s
  <2>1. hp'[t] = hp[t]
    BY <1>1, Alone_Living, Alone_Retiring, Alone_Slots, Alone_Protecting, Alone_Scanning,
       Alone_Judgement DEF Step, Alone, Same
  <2> QED  BY <2>1 DEF HeldOK
<1>2. CASE t = s /\ ~Publish(t) /\ ~Validate(t)
  BY <1>2, HeldFrom DEF HeldOK
<1>3. CASE t = s /\ (Publish(t) \/ Validate(t))
  BY <1>3, HeldMore DEF HeldOK
<1> QED  BY <1>1, <1>2, <1>3

\* A thread that protects has a record, and the slot holds the pointer.
LEMMA ProtectsSlot ==
  ASSUME SInv, HeldOK, NEW t \in Threads, NEW i \in Nat, NEW e \in Entries, Protects(t, i, e)
  PROVE  /\ rec[t] \in 1 .. MaxRecs /\ rec[t] <= nrec /\ ~avail[rec[t]]
         /\ i \in DOMAIN Array(rec[t]) /\ Array(rec[t])[i] = PtrOf(e)
<1>1. ThreadType /\ SharedType /\ ControlAt(t) /\ \A n \in Handles : HandleAt(t, n)
  BY DEF SInv, TypeOK, ControlOK, HandlesOK
<1>2. rec[t] # 0
  BY <1>1 DEF Protects, HandleAt, ControlAt
<1>3. rec[t] \in 1 .. MaxRecs /\ rec[t] <= nrec /\ ~avail[rec[t]]
  BY <1>1, <1>2, OwnArray DEF ThreadType, SharedType, SInv, RecordsOK
<1>4. /\ Shared(free[t], Added(Inner(pc[t])), Added(back[t]), Scanner(t), hp[t], Array(rec[t]))
      /\ Reads(t, Array(rec[t]))
  BY <1>2, OwnSlots
<1>5. CASE \E n \in Handles : e \in hp[t][n].held /\ hp[t][n].i = i
  <2>1. PICK n \in Handles : e \in hp[t][n].held /\ hp[t][n].i = i
    BY <1>5
  <2>2. hp[t][n].i # 0
    BY <1>1, <2>1 DEF HandleAt
  <2>3. e \in Refs
    BY <1>1, <2>1 DEF ThreadType
  <2>4. hp[t][n].p = PtrOf(e)
    BY <2>1, <2>3, EntryPointer DEF HeldOK
  <2> QED  BY <1>3, <1>4, <2>1, <2>2, <2>4 DEF Shared
<1>6. CASE pc[t].at = "slots" /\ pc[t].i = i /\ e = Addr(pc[t].k, pc[t].g)
  <2>1. i \in Scanner(t)
    BY <1>6 DEF Scanner
  <2>2. e \in Addrs
    BY <1>6, PlaceFields DEF SInv, TypeOK, Addr, Addrs
  <2>3. PtrOf(e) = e
    BY <2>2, EntryPointer
  <2> QED  BY <1>3, <1>4, <1>6, <2>1, <2>3 DEF Shared, Reads
<1> QED  BY <1>5, <1>6 DEF Protects

\* A protection after a step is fresh, of something that is not retired; or it was
\* there before, in this slot or in an earlier one that was copied.
Fresh(e)       == e \notin gone /\ UNCHANGED <<freed, popped>>
Older(t, i, e) == rec'[t] = rec[t] /\ \E j \in Nat : j <= i /\ Protects(t, j, e)

\* Hazard pointers that are as before, or no longer protect.
Fewer(t) == \A n \in Handles : hp'[t][n].held = {} \/ hp'[t][n] = hp[t][n]
LEMMA OlderHandles ==
  ASSUME SInv, NEW t \in Threads, Fewer(t), rec'[t] = rec[t], pc'[t].at # "slots",
         NEW i \in Nat, NEW e, Protects(t, i, e)'
  PROVE  Older(t, i, e)
  BY DEF Protects, Older, Fewer

\* A step that touches no hazard pointer and reads no slots.
LEMMA OlderFrame ==
  ASSUME SInv, NEW t \in Threads, Step(t), ~Recheck(t), ~ReadSlot(t), UNCHANGED <<rec, hp>>,
         NEW i \in Nat, NEW e, Protects(t, i, e)'
  PROVE  Older(t, i, e)
<1>1. pc'[t].at # "slots" /\ rec'[t] = rec[t]
  BY SlotsFrom
<1> QED  BY <1>1, OlderHandles DEF Fewer

LEMMA Protect_Living ==
  ASSUME SInv, NEW t \in Threads, Living(t), NEW i \in Nat, NEW e, Protects(t, i, e)'
  PROVE  Older(t, i, e)
<1> USE DEF env, records, pool, domain, slot, batch, loop, judging, recl, history, Goto, Idle
<1>1. pc \in [Threads -> PCs] /\ ThreadType /\ ControlAt(t) /\ \A n \in Handles : HandleAt(t, n)
  BY DEF SInv, TypeOK, ControlOK, HandlesOK
<1>2. pc'[t].at # "slots" /\ hp' = hp
  BY <1>1 DEF Living, Start, Skip, Recycle, NewRecord, Take, Exit, Release
<1>3. PICK n \in Handles : e \in hp[t][n].held
  BY <1>2 DEF Protects
<1>4. hp[t][n].i # 0 /\ rec[t] # 0 /\ pc[t].at # "release"
  BY <1>1, <1>3 DEF HandleAt, Base, Inner
<1>5. rec' = rec
  BY <1>1, <1>4 DEF Living, Start, Skip, Recycle, NewRecord, Exit, Release, ControlAt
<1> QED  BY <1>2, <1>5, OlderHandles DEF Fewer

LEMMA Protect_Retiring ==
  ASSUME SInv, NEW t \in Threads, Retiring(t), NEW i \in Nat, NEW e, Protects(t, i, e)'
  PROVE  Older(t, i, e)
<1>1. UNCHANGED <<rec, hp>>
  BY DEF Retiring, Swap, Drop, EagerReclaim, Flush, Push, slot
<1>2. Step(t) /\ ~Recheck(t) /\ ~ReadSlot(t)
  BY DEF Step, Retiring, Swap, Drop, EagerReclaim, Flush, Push, Ready, Idle, Recheck, ReadSlot
<1> QED  BY <1>1, <1>2, OlderFrame

LEMMA Protect_Slots ==
  ASSUME SInv, NEW t \in Threads, Slots(t), NEW i \in Nat, NEW e, Protects(t, i, e)'
  PROVE  Older(t, i, e)
<1>1. pc \in [Threads -> PCs] /\ ThreadType
  BY DEF SInv, TypeOK
<1>2. rec' = rec
  BY DEF Slots, Extend, Acquire, AcquireGrow, Grow, slot
<1>3. Step(t) /\ ~Recheck(t) /\ ~ReadSlot(t)
  <2>1. ASSUME NEW n \in Handles, NEW j \in free[t], Acquire(t, n, j) PROVE pc[t].at \in {"acquire", "idle"}
    BY <2>1 DEF Acquire, Wants, Ready, Idle
  <2>2. ASSUME NEW n \in Handles, AcquireGrow(t, n) PROVE pc[t].at = "idle"
    BY <2>2 DEF AcquireGrow, Wants, Ready, Idle
  <2>3. pc[t].at \in {"extend", "acquire", "idle"}
    BY <2>1, <2>2 DEF Slots, Extend
  <2>4. Step(t)
    BY DEF Step
  <2> QED  BY <2>3, <2>4 DEF Recheck, ReadSlot
<1>4. pc'[t].at # "slots"
  BY <1>3, SlotsFrom
<1>5. ASSUME NEW n \in Handles, NEW j \in free[t], Acquire(t, n, j) PROVE Fewer(t)
  <2>1. hp' = [hp EXCEPT ![t][n] = Hazard(j, Null, {})]
    BY <1>5 DEF Acquire
  <2> QED  BY <1>1, <2>1 DEF ThreadType, Fewer, Hazard
<1>6. CASE hp' = hp
  BY <1>2, <1>4, <1>6, OlderHandles DEF Fewer
<1> QED  BY <1>2, <1>4, <1>5, <1>6, OlderHandles DEF Slots, Extend, AcquireGrow, Grow, slot

LEMMA Protect_Protecting ==
  ASSUME SInv, GoneOK, NEW t \in Threads, Protecting(t), NEW i \in Nat, NEW e \in Safe, Protects(t, i, e)'
  PROVE  Fresh(e) \/ Older(t, i, e)
<1> USE DEF env, records, pool, domain, slot, batch, loop, judging, recl, history, Goto
<1>1. pc \in [Threads -> PCs] /\ ThreadType /\ pc[t] \in PCs
  BY DEF SInv, TypeOK
<1>2. rec' = rec
  BY DEF Protecting, Publish, Validate, Trust, DropHandle, Load, Clear, SwapHandles, Copy
<1>3. pc'[t].at # "slots"
  <2>1. Ready(t) \/ pc[t].at = "publish" \/ pc[t].at = "validate"
    BY DEF Protecting, Publish, Validate, Trust, DropHandle, Load, Clear, SwapHandles, Copy
  <2>2. pc[t].at \in {"idle", "publish", "validate"}
    BY <2>1 DEF Ready, Idle
  <2>3. Step(t)
    BY DEF Step
  <2>4. ~Recheck(t) /\ ~ReadSlot(t)
    BY <2>2 DEF Recheck, ReadSlot
  <2> QED  BY <2>3, <2>4, SlotsFrom
<1>4. PICK n \in Handles : e \in hp'[t][n].held /\ hp'[t][n].i = i
  BY <1>3 DEF Protects
<1>5. CASE Publish(t) \/ Validate(t)
  <2>1. (e \in hp[t][n].held /\ hp[t][n].i = i) \/ Fresh(e)
    BY <1>4, <1>5, HeldMore DEF Fresh
  <2> QED  BY <1>2, <2>1 DEF Older, Protects
<1>7. ASSUME NEW m \in Handles, DropHandle(t, m) PROVE Fewer(t)
  <2>1. hp' = [hp EXCEPT ![t][m] = NoHp]
    BY <1>7 DEF DropHandle
  <2> QED  BY <1>1, <2>1 DEF ThreadType, Fewer, NoHp, Hazard
<1>8. ASSUME NEW m \in Handles, Load(t, m) PROVE Fewer(t)
  BY <1>8 DEF Load, Fewer
<1>9. ASSUME NEW m \in Handles, Clear(t, m) PROVE Fewer(t)
  <2>1. hp' = [hp EXCEPT ![t][m] = Hazard(@.i, Null, {})]
    BY <1>9 DEF Clear
  <2> QED  BY <1>1, <2>1 DEF ThreadType, Fewer, Hazard
<1>10. ASSUME NEW m \in Handles, NEW l \in Handles \ {m}, SwapHandles(t, m, l) PROVE Older(t, i, e)
  <2>1. hp' = [hp EXCEPT ![t][m] = hp[t][l], ![t][l] = hp[t][m]]
    BY <1>10 DEF SwapHandles
  <2>2. \E q \in Handles : hp'[t][n] = hp[t][q]
    BY <1>1, <2>1 DEF ThreadType
  <2> QED  BY <1>2, <1>4, <2>2 DEF Older, Protects
<1>11. ASSUME NEW m \in Handles, NEW l \in Handles \ {m}, Copy(t, m, l) PROVE Older(t, i, e)
  <2>1. /\ hp' = [hp EXCEPT ![t][l] = Hazard(@.i, hp[t][m].p, hp[t][m].held)]
        /\ "copy_to" \in client.calls \/ hp[t][m].i < hp[t][l].i
    BY <1>11 DEF Copy
  <2>2. CASE n # l
    <3>1. e \in hp[t][n].held /\ hp[t][n].i = i
      BY <1>1, <1>4, <2>1, <2>2 DEF ThreadType
    <3> QED  BY <1>2, <3>1 DEF Older, Protects
  <2>3. CASE n = l
    <3>1. e \in hp[t][m].held /\ hp[t][l].i = i
      BY <1>1, <1>4, <2>1, <2>3 DEF ThreadType, Hazard
    <3>2. e \in Refs /\ hp[t][m].i \in Nat
      BY <1>1, <3>1 DEF ThreadType
    <3>3. "copy_to" \notin client.calls
      BY <3>2, AddrAssumption DEF Safe
    <3> QED  BY <1>2, <2>1, <3>1, <3>2, <3>3 DEF Older, Protects
  <2> QED  BY <2>2, <2>3
<1> QED  BY <1>2, <1>3, <1>5, <1>7, <1>8, <1>9, <1>10, <1>11, OlderHandles DEF Protecting

LEMMA Protect_Scanning ==
  ASSUME SInv, GoneOK, NEW t \in Threads, Scanning(t), NEW i \in Nat, NEW e, Protects(t, i, e)'
  PROVE  Fresh(e) \/ Older(t, i, e)
<1> USE DEF env, records, pool, domain, slot, batch, loop, judging, recl, history, Goto
<1>1. pc \in [Threads -> PCs] /\ ThreadType /\ pc[t] \in PCs /\ back[t] \in {Idle} \cup Growing
  BY DEF SInv, TypeOK, ThreadType
<1>2. rec' = rec /\ hp' = hp
  BY DEF Scanning, Pop, ReadHead, Record, ReadArray, ReadArrayGrow, Grow, GuardArray, Recheck, ReadSlot, EndArray
<1>3. CASE ~Recheck(t) /\ ~ReadSlot(t)
  <2>1. Step(t)
    BY DEF Step
  <2> QED  BY <1>2, <1>3, <2>1, OlderFrame
<1>4. CASE Recheck(t)
  <2>1. pc[t].k \in 1 .. MaxRecs /\ pc[t].g \in Nat
    BY <1>1, <1>4, PlaceFields DEF Recheck
  <2>2. CASE Last(pc[t].k) = pc[t].g
    <3>1. pc'[t] = Slot(pc[t], 1) /\ UNCHANGED <<freed, popped>>
      BY <1>1, <1>4, <2>2 DEF Recheck
    <3>2. pc'[t].at = "slots" /\ pc'[t].k = pc[t].k /\ pc'[t].g = pc[t].g
      BY <3>1 DEF Slot
    <3>3. Addr(pc[t].k, pc[t].g) \notin gone
      BY <2>1, <2>2 DEF GoneOK
    <3>4. CASE e = Addr(pc[t].k, pc[t].g)
      BY <3>1, <3>3, <3>4 DEF Fresh
    <3>5. CASE e # Addr(pc[t].k, pc[t].g)
      <4>1. \E n \in Handles : e \in hp[t][n].held /\ hp[t][n].i = i
        BY <1>2, <3>2, <3>5 DEF Protects
      <4> QED  BY <1>2, <4>1 DEF Older, Protects
    <3> QED  BY <3>4, <3>5
  <2>3. CASE Last(pc[t].k) # pc[t].g
    <3>1. pc'[t].at # "slots"
      BY <1>1, <1>4, <2>3 DEF Recheck, Look
    <3> QED  BY <1>2, <3>1, OlderHandles DEF Fewer
  <2> QED  BY <2>2, <2>3
<1>5. CASE ReadSlot(t)
  <2>1. /\ pc[t].at = "slots" /\ pc'[t].at = "slots" /\ pc'[t].k = pc[t].k
        /\ pc'[t].g = pc[t].g /\ pc'[t].i = pc[t].i
    BY <1>1, <1>5 DEF ReadSlot, Slot
  <2>2. Protects(t, i, e)
    BY <1>2, <2>1 DEF Protects
  <2> QED  BY <1>2, <2>2 DEF Older
<1> QED  BY <1>3, <1>4, <1>5

LEMMA Protect_Judgement ==
  ASSUME SInv, NEW t \in Threads, Judgement(t), NEW i \in Nat, NEW e, Protects(t, i, e)'
  PROVE  Older(t, i, e)
<1>1. UNCHANGED <<rec, hp>>
  BY DEF Judgement, Call, Discount, PutBack, slot, domain
<1>2. Step(t) /\ ~Recheck(t) /\ ~ReadSlot(t)
  BY DEF Step, Judgement, Call, Discount, PutBack, Judging, Recheck, ReadSlot
<1> QED  BY <1>1, <1>2, OlderFrame

-------------------------------------------------------------------------------
(* What a scan has seen, or will see. *)

\* A slot keeps what it protects, whatever else is written, copied or grown.
LEMMA AheadArrays ==
  ASSUME NEW b, NEW k \in Nat, NEW i \in Nat, NEW j \in Nat, j <= i, NEW p,
         NEW A \in Seq(Seq(Ptrs \cup Addrs \cup {Null})), NEW B \in Seq(Seq(Ptrs \cup Addrs \cup {Null})),
         Len(A) <= Len(B), \A g \in 1 .. Len(A) - 1 : B[g] = A[g],
         Len(A) < Len(B) => B[Len(A)] = A[Len(A)],
         i \in DOMAIN B[Len(B)], B[Len(B)][i] = p,
         b.at = "slots" /\ b.k = k => b.g \in 1 .. Len(A) /\ b.j \in Nat,
         Ahead(b, A, k, j, p)
  PROVE  Ahead(b, B, k, i, p)
<1>1. CASE ~(b.at = "slots" /\ k = b.k)
  BY <1>1 DEF Ahead
<1>2. CASE b.at = "slots" /\ k = b.k
  <2>1. PICK l \in DOMAIN A[b.g] : b.j <= l /\ A[b.g][l] = p /\ (b.g = Len(A) => l = j)
    BY <1>2 DEF Ahead
  <2>2. CASE b.g < Len(B)
    <3>1. Len(A) \in Nat /\ Len(B) \in Nat /\ b.g \in 1 .. Len(A)
      BY <1>2
    <3>2. b.g \in 1 .. Len(A) - 1 \/ (b.g = Len(A) /\ Len(A) < Len(B))
      BY <2>2, <3>1
    <3>3. B[b.g] = A[b.g]
      BY <3>2
    <3>4. b.g # Len(B)
      BY <2>2, <3>1
    <3> QED  BY <1>2, <2>1, <3>3, <3>4 DEF Ahead
  <2>3. CASE b.g = Len(B)
    <3>1. b.g = Len(A) /\ b.j \in Nat
      BY <1>2, <2>3
    <3>2. b.j <= i
      BY <2>1, <3>1
    <3> QED  BY <1>2, <2>3, <3>2 DEF Ahead
  <2> QED  BY <1>2, <2>2, <2>3
<1> QED  BY <1>1, <1>2

\* Slot i of record k, which is in use, holds p.
Stands(k, i, p)     == /\ k \in 1 .. MaxRecs /\ k <= nrec /\ ~avail[k] /\ p # Null
                       /\ i \in DOMAIN Array(k) /\ Array(k)[i] = p
WillSee(t, k, i, e, p) == e \in popped'[t] =>
                         p \in guarded'[t] \/ Ahead(Base(pc'[t]), arrays[k], k, i, p)

\* Outside of a reclamation nothing is popped.
LEMMA SeeNothing ==
  ASSUME SInv, NEW t \in Threads, Base(pc[t]).at \notin Scans \ {"pop"}, popped'[t] = popped[t],
         NEW k, NEW i, NEW e, NEW p
  PROVE  WillSee(t, k, i, e, p)
  BY DEF SInv, ControlOK, ControlAt, WillSee
\* A scan that stays where it is.
LEMMA SeeSame ==
  ASSUME NEW t \in Threads, popped'[t] = popped[t], guarded'[t] = guarded[t],
         Base(pc'[t]) = Base(pc[t]), NEW k, NEW i, NEW e, NEW p, Seen(t, k, i, e, p)
  PROVE  WillSee(t, k, i, e, p)
  BY DEF WillSee, Seen

LEMMA See_Calm ==
  ASSUME SInv, NEW t \in Threads, Living(t) \/ Retiring(t) \/ Slots(t) \/ Protecting(t),
         NEW k, NEW i, NEW e, NEW p, Seen(t, k, i, e, p)
  PROVE  WillSee(t, k, i, e, p)
<1> USE DEF env, records, pool, domain, slot, batch, loop, judging, recl, history, Goto
<1>1. pc \in [Threads -> PCs] /\ pc[t] \in PCs /\ ControlAt(t)
  BY DEF SInv, TypeOK, ControlOK
<1>2. UNCHANGED <<popped, guarded>>
  <2>1. CASE Living(t)
    BY <2>1 DEF Living, Start, Skip, Recycle, NewRecord, Exit, Release
  <2>2. CASE Retiring(t)
    BY <2>2 DEF Retiring, Swap, Drop, EagerReclaim, Flush, Push
  <2>3. CASE Slots(t)
    BY <2>3 DEF Slots, Extend, Acquire, AcquireGrow, Grow
  <2>4. CASE Protecting(t)
    BY <2>4 DEF Protecting, Publish, Validate, Trust, DropHandle, Load, Clear, SwapHandles, Copy
  <2> QED  BY <2>1, <2>2, <2>3, <2>4
<1>3. ASSUME pc[t].at \in {"idle", "search", "release", "acquire", "publish", "validate"}
      PROVE  WillSee(t, k, i, e, p)
  <2>1. Base(pc[t]).at \notin Scans \ {"pop"}
    BY <1>3 DEF Base, Inner, Scans
  <2> QED  BY <1>2, <2>1, SeeNothing
<1>4. CASE Living(t)
  BY <1>3, <1>4 DEF Living, Start, Skip, Recycle, NewRecord, Exit, Release, Ready, Idle
<1>5. CASE Flush(t)
  <2>1. pc[t].at = "flush" /\ pc'[t] = [at |-> "push", to |-> pc[t].to]
    BY <1>1, <1>5 DEF Flush
  <2> QED  BY <1>2, <2>1, SeeSame DEF Base, Inner
<1>6. CASE Push(t)
  <2>1. pc[t].at = "push" /\ pc[t].to.at \in {"idle", "release", "judge", "extend"}
    BY <1>1, <1>6, PlaceFields, ReturnFields DEF Push
  <2>2. CASE in_recl[t]
    <3>1. pc'[t] = pc[t].to
      BY <1>1, <1>6, <2>2 DEF Push
    <3> QED  BY <1>2, <2>1, <3>1, SeeSame DEF Base, Inner
  <2>3. CASE ~in_recl[t]
    BY <1>1, <1>2, <2>3, SeeNothing DEF ControlAt
  <2> QED  BY <2>2, <2>3
<1>7. ASSUME NEW o \in Roots \cup {Null}, Swap(t, o) PROVE WillSee(t, k, i, e, p)
  BY <1>3, <1>7 DEF Swap, Ready, Idle
<1>13. ASSUME NEW o \in Roots, Drop(t, o) PROVE WillSee(t, k, i, e, p)
  BY <1>3, <1>13 DEF Drop, Ready, Idle
<1>8. CASE EagerReclaim(t)
  BY <1>3, <1>8 DEF EagerReclaim, Ready, Idle
<1>9. CASE Extend(t)
  <2>1. pc[t].at = "extend" /\ pc'[t] = pc[t].to /\ pc[t].to.at \in {"acquire", "array"}
    BY <1>1, <1>9, PlaceFields, GrowingFields DEF Extend
  <2> QED  BY <1>2, <2>1, SeeSame DEF Base, Inner
<1>10. ASSUME NEW n \in Handles, NEW j \in free[t], Acquire(t, n, j) PROVE WillSee(t, k, i, e, p)
  <2>1. pc[t].at \in {"idle", "acquire"}
    BY <1>10 DEF Acquire, Wants, Ready, Idle
  <2> QED  BY <1>3, <2>1
<1>11. ASSUME NEW n \in Handles, AcquireGrow(t, n) PROVE WillSee(t, k, i, e, p)
  BY <1>3, <1>11 DEF AcquireGrow, Wants, Ready, Idle
<1>12. CASE Protecting(t)
  <2>1. Ready(t) \/ pc[t].at = "publish" \/ pc[t].at = "validate"
    BY <1>12 DEF Protecting, Publish, Validate, Trust, DropHandle, Load, Clear, SwapHandles, Copy
  <2>2. pc[t].at \in {"idle", "publish", "validate"}
    BY <2>1 DEF Ready, Idle
  <2> QED  BY <1>3, <2>2
<1> QED  BY <1>4, <1>5, <1>6, <1>7, <1>8, <1>9, <1>10, <1>11, <1>12, <1>13 DEF Retiring, Slots

LEMMA See_Scanning ==
  ASSUME SInv, NEW t \in Threads, Scanning(t), NEW k, NEW i, NEW e, NEW p, Stands(k, i, p), Seen(t, k, i, e, p)
  PROVE  WillSee(t, k, i, e, p)
<1> USE DEF env, records, pool, domain, slot, batch, loop, judging, recl, history, Goto
<1>1. pc \in [Threads -> PCs] /\ ThreadType /\ SharedType /\ pc[t] \in PCs /\ ControlAt(t) /\ TypeOK
  BY DEF SInv, TypeOK, ControlOK
<1>2. k \in Nat /\ k # 0 /\ k <= nrec /\ nrec \in Nat
  BY <1>1 DEF Stands, SharedType
<1>3. CASE Pop(t)
  <2>1. popped' = [popped EXCEPT ![t] = retireds] /\ (retireds # {} => pc'[t] = [at |-> "head"])
    BY <1>1, <1>3 DEF Pop
  <2>2. CASE retireds = {}
    BY <1>1, <2>1, <2>2 DEF WillSee, ThreadType
  <2>3. CASE retireds # {}
    <3>1. Base(pc'[t]).at = "head"
      BY <2>1, <2>3 DEF Base, Inner
    <3> QED  BY <3>1 DEF WillSee, Ahead
  <2> QED  BY <2>2, <2>3
<1>4. CASE ReadHead(t)
  <2>1. pc'[t] = [at |-> "record", k |-> nrec]
    BY <1>1, <1>4 DEF ReadHead
  <2> QED  BY <1>2, <2>1 DEF WillSee, Ahead, Base, Inner
<1>5. CASE Record(t)
  <2>1. pc[t].at = "record" /\ pc[t].k \in Nat /\ UNCHANGED <<popped, guarded>>
    BY <1>1, <1>5, PlaceFields, SizeAssumption DEF Record
  <2>2. pc'[t] = IF avail[pc[t].k] THEN [at |-> "record", k |-> pc[t].k - 1] ELSE [at |-> "array", k |-> pc[t].k]
    BY <1>1, <1>5 DEF Record
  <2>3. Base(pc[t]) = pc[t] /\ Base(pc'[t]) = pc'[t]
    BY <2>1, <2>2 DEF Base, Inner
  <2>4. SUFFICES ASSUME Ahead(pc[t], arrays[k], k, i, p) PROVE Ahead(pc'[t], arrays[k], k, i, p)
    BY <2>1, <2>3 DEF WillSee, Seen
  <2>5. k <= pc[t].k
    BY <2>1, <2>4 DEF Ahead
  <2>6. CASE avail[pc[t].k]
    <3>1. k # pc[t].k
      BY <2>6 DEF Stands
    <3>2. k <= pc[t].k - 1
      BY <1>2, <2>1, <2>5, <3>1
    <3> QED  BY <2>2, <2>6, <3>2 DEF Ahead
  <2>7. CASE ~avail[pc[t].k]
    BY <2>2, <2>5, <2>7 DEF Ahead
  <2> QED  BY <2>6, <2>7
<1>6. ASSUME NEW j \in free[t], ReadArray(t, j) PROVE WillSee(t, k, i, e, p)
  <2>1. /\ pc[t].at = "array" /\ UNCHANGED <<popped, guarded>>
        /\ pc'[t] = [at |-> "guard", k |-> pc[t].k, g |-> Last(pc[t].k), i |-> j]
    BY <1>1, <1>6 DEF ReadArray
  <2> QED  BY <2>1 DEF WillSee, Seen, Ahead, Base, Inner
<1>7. CASE ReadArrayGrow(t)
  <2>1. /\ pc[t].at = "array" /\ UNCHANGED <<popped, guarded>> /\ rec[t] # 0
        /\ Defer(t, Addr(rec[t], Last(rec[t])), [at |-> "extend", n |-> Len(Array(rec[t])), to |-> pc[t]])
    BY <1>1, <1>7 DEF ReadArrayGrow, Grow, ControlAt
  <2>2. [at |-> "extend", n |-> Len(Array(rec[t])), to |-> pc[t]] \in Return
    BY <1>1, <2>1, OwnArray, PlaceFields, PlainShape, ExtendPlace, GrowingFields
  <2>3. Base(pc'[t]) = Base([at |-> "extend", n |-> Len(Array(rec[t])), to |-> pc[t]])
    BY <1>1, <2>1, <2>2, DeferGoes
  <2>4. Base(pc'[t]) = pc[t] /\ Base(pc[t]) = pc[t]
    BY <2>1, <2>3 DEF Base, Inner
  <2> QED  BY <2>1, <2>4, SeeSame
<1>8. CASE GuardArray(t)
  <2>1. /\ pc[t].at = "guard" /\ UNCHANGED <<popped, guarded>>
        /\ pc'[t].at = "recheck" /\ pc'[t].k = pc[t].k
    BY <1>1, <1>8 DEF GuardArray, Look
  <2> QED  BY <2>1 DEF WillSee, Seen, Ahead, Base, Inner
<1>9. CASE Recheck(t)
  <2>1. pc[t].at = "recheck" /\ UNCHANGED <<popped, guarded>> /\ pc[t].k \in Nat
    BY <1>1, <1>9, PlaceFields DEF Recheck
  <2>2. pc'[t] = IF Last(pc[t].k) = pc[t].g THEN Slot(pc[t], 1) ELSE Look("guard", pc[t], Last(pc[t].k))
    BY <1>1, <1>9 DEF Recheck
  <2>3. /\ pc'[t].at \in {"slots", "guard"} /\ pc'[t].k = pc[t].k
        /\ pc'[t].at = "slots" => (pc'[t].j = 1 /\ pc'[t].g = Last(pc[t].k))
    BY <2>2 DEF Slot, Look
  <2>4. Base(pc[t]) = pc[t] /\ Base(pc'[t]) = pc'[t]
    BY <2>1, <2>3 DEF Base, Inner
  <2>5. SUFFICES ASSUME Ahead(pc[t], arrays[k], k, i, p) PROVE Ahead(pc'[t], arrays[k], k, i, p)
    BY <2>1, <2>4 DEF WillSee, Seen
  <2>6. k <= pc[t].k
    BY <2>1, <2>5 DEF Ahead
  <2>7. CASE pc'[t].at = "guard" \/ k < pc[t].k
    BY <2>3, <2>6, <2>7 DEF Ahead
  <2>8. CASE pc'[t].at = "slots" /\ k = pc[t].k
    <3>1. pc'[t].j = 1 /\ pc'[t].g = Len(arrays[k]) /\ pc'[t].k = k
      BY <2>3, <2>8 DEF Last
    <3>2. i \in DOMAIN arrays[k][pc'[t].g] /\ arrays[k][pc'[t].g][i] = p
      BY <3>1 DEF Stands, Array, Last
    <3>3. i \in Nat \ {0}
      BY SomeArray DEF Stands
    <3> QED  BY <2>8, <3>1, <3>2, <3>3 DEF Ahead
  <2> QED  BY <1>2, <2>1, <2>3, <2>6, <2>7, <2>8
<1>10. CASE ReadSlot(t)
  <2> DEFINE a == arrays[pc[t].k][pc[t].g]
  <2>1. /\ pc[t].at = "slots" /\ popped' = popped
        /\ guarded'[t] = guarded[t] \cup ({a[pc[t].j]} \ {Null})
        /\ pc'[t] = Slot(pc[t], pc[t].j + 1)
    BY <1>1, <1>10 DEF ReadSlot, ThreadType
  <2>2. pc[t].j \in Nat /\ pc[t].k \in Nat /\ pc[t].k \in 1 .. MaxRecs /\ pc[t].g \in 1 .. Last(pc[t].k)
    BY <1>1, <2>1, PlaceFields DEF ControlAt
  <2>3. /\ pc'[t].at = "slots" /\ pc'[t].k = pc[t].k /\ pc'[t].g = pc[t].g
        /\ pc'[t].j = pc[t].j + 1
    BY <2>1 DEF Slot
  <2>4. Base(pc[t]) = pc[t] /\ Base(pc'[t]) = pc'[t]
    BY <2>1, <2>3 DEF Base, Inner
  <2>5. SUFFICES ASSUME Ahead(pc[t], arrays[k], k, i, p), p \notin guarded'[t]
                 PROVE  Ahead(pc'[t], arrays[k], k, i, p)
    BY <2>1, <2>4 DEF WillSee, Seen
  <2>6. CASE k < pc[t].k
    BY <2>3, <2>6 DEF Ahead
  <2>7. CASE ~(k < pc[t].k)
    <3>1. PICK j \in DOMAIN arrays[k][pc[t].g] :
            /\ k = pc[t].k /\ pc[t].j <= j /\ arrays[k][pc[t].g][j] = p
            /\ pc[t].g = Len(arrays[k]) => j = i
      BY <2>1, <2>5, <2>7 DEF Ahead
    <3>2. j # pc[t].j
      BY <2>1, <2>5, <3>1 DEF Stands
    <3>3. arrays[k][pc[t].g] \in Seq(Ptrs \cup Addrs \cup {Null})
      BY <1>1, <2>2, <3>1 DEF SharedType, Last
    <3>4. j \in Nat
      BY <3>3
    <3>5. pc[t].j + 1 <= j
      BY <2>2, <3>1, <3>2, <3>4
    <3> QED  BY <2>3, <3>1, <3>5 DEF Ahead
  <2> QED  BY <2>6, <2>7
<1>11. CASE EndArray(t)
  <2>1. /\ pc[t].at = "slots" /\ UNCHANGED <<popped, guarded>> /\ pc[t].j > Len(arrays[pc[t].k][pc[t].g])
        /\ pc'[t] = [at |-> "record", k |-> pc[t].k - 1]
    BY <1>1, <1>11 DEF EndArray
  <2>2. pc[t].j \in Nat /\ pc[t].k \in Nat /\ pc[t].k \in 1 .. MaxRecs /\ pc[t].g \in 1 .. Last(pc[t].k)
    BY <1>1, <2>1, PlaceFields DEF ControlAt
  <2>3. Base(pc[t]) = pc[t] /\ Base(pc'[t]) = pc'[t]
    BY <2>1 DEF Base, Inner
  <2>4. SUFFICES ASSUME Ahead(pc[t], arrays[k], k, i, p) PROVE Ahead(pc'[t], arrays[k], k, i, p)
    BY <2>1, <2>3 DEF WillSee, Seen
  <2>5. k < pc[t].k
    <3>1. arrays[pc[t].k][pc[t].g] \in Seq(Ptrs \cup Addrs \cup {Null})
      BY <1>1, <2>2 DEF SharedType, Last
    <3>2. \A j \in DOMAIN arrays[pc[t].k][pc[t].g] : ~(pc[t].j <= j)
      BY <2>1, <2>2, <3>1
    <3> QED  BY <2>1, <2>4, <3>2 DEF Ahead
  <2>6. k <= pc[t].k - 1
    BY <1>2, <2>2, <2>5
  <2> QED  BY <2>1, <2>6 DEF Ahead
<1> QED  BY <1>3, <1>4, <1>5, <1>6, <1>7, <1>8, <1>9, <1>10, <1>11 DEF Scanning

\* When the scan is over, what was seen is guarded, and only that is kept back.
LEMMA SeenGuarded ==
  ASSUME SInv, NEW t \in Threads, Judging(t), NEW k, NEW i, NEW e, NEW p, Stands(k, i, p),
         Seen(t, k, i, e, p), e \in popped[t]
  PROVE  p \in guarded[t]
<1>1. Base(pc[t]) = pc[t] /\ (pc[t].at = "judge" \/ (pc[t].at = "record" /\ pc[t].k = 0))
  BY DEF Judging, Base, Inner
<1>2. ~(k <= 0)
  BY SizeAssumption DEF Stands
<1>3. ~Ahead(pc[t], arrays[k], k, i, p)
  BY <1>1, <1>2 DEF Ahead
<1> QED  BY <1>1, <1>3 DEF Seen

LEMMA See_Judgement ==
  ASSUME SInv, NEW t \in Threads, Judgement(t), NEW k, NEW i, NEW e, NEW p, Stands(k, i, p), Seen(t, k, i, e, p)
  PROVE  WillSee(t, k, i, e, p)
<1> USE DEF env, records, pool, domain, slot, batch, loop, judging, recl, history, Goto
<1>1. pc \in [Threads -> PCs] /\ ThreadType
  BY DEF SInv, TypeOK
<1>2. ASSUME NEW x \in popped[t], Call(t, x) PROVE WillSee(t, k, i, e, p)
  <2>1. guarded' = guarded /\ popped'[t] \subseteq popped[t] /\ Judging(t)
    BY <1>1, <1>2 DEF Call, ThreadType
  <2> QED  BY <2>1, SeenGuarded DEF WillSee
<1>3. CASE Discount(t)
  <2>1. guarded' = guarded /\ popped' = popped /\ Judging(t)
    BY <1>3 DEF Discount
  <2> QED  BY <2>1, SeenGuarded DEF WillSee
<1>4. CASE PutBack(t)
  <2>1. popped'[t] = {}
    BY <1>1, <1>4 DEF PutBack, ThreadType
  <2> QED  BY <2>1 DEF WillSee
<1> QED  BY <1>2, <1>3, <1>4 DEF Judgement

-------------------------------------------------------------------------------
(* The invariant. *)

\* Only a reclamation that is judging calls entries, one that nobody guards.
LEMMA FreedStep ==
  ASSUME SInv, NEW t \in Threads, Step(t), NEW e, e \in freed', e \notin freed
  PROVE  Judging(t) /\ e \in popped[t] /\ PtrOf(e) \notin guarded[t]
<1> USE DEF env, records, pool, domain, slot, batch, loop, judging, recl, history
<1>1. CASE Living(t)
  BY <1>1 DEF Living, Start, Skip, Recycle, NewRecord, Exit, Release
<1>2. CASE Retiring(t)
  BY <1>2 DEF Retiring, Swap, Drop, EagerReclaim, Flush, Push
<1>3. CASE Slots(t)
  BY <1>3 DEF Slots, Extend, Acquire, AcquireGrow, Grow
<1>4. CASE Protecting(t)
  BY <1>4 DEF Protecting, Publish, Validate, Trust, DropHandle, Load, Clear, SwapHandles, Copy
<1>5. CASE Scanning(t)
  BY <1>5 DEF Scanning, Pop, ReadHead, Record, ReadArray, ReadArrayGrow, Grow, GuardArray, Recheck,
              ReadSlot, EndArray
<1>6. CASE Judgement(t)
  BY <1>6 DEF Judgement, Call, Discount, PutBack
<1> QED  BY <1>1, <1>2, <1>3, <1>4, <1>5, <1>6 DEF Step

LEMMA ClientFixed == ASSUME NEW t \in Threads, Step(t) PROVE client' = client
<1> USE DEF env
<1>1. CASE Living(t)
  BY <1>1 DEF Living, Start, Skip, Recycle, NewRecord, Exit, Release
<1>2. CASE Retiring(t)
  BY <1>2 DEF Retiring, Swap, Drop, EagerReclaim, Flush, Push
<1>3. CASE Slots(t)
  BY <1>3 DEF Slots, Extend, Acquire, AcquireGrow, Grow
<1>4. CASE Protecting(t)
  BY <1>4 DEF Protecting, Publish, Validate, Trust, DropHandle, Load, Clear, SwapHandles, Copy
<1>5. CASE Scanning(t)
  BY <1>5 DEF Scanning, Pop, ReadHead, Record, ReadArray, ReadArrayGrow, Grow, GuardArray, Recheck,
              ReadSlot, EndArray
<1>6. CASE Judgement(t)
  BY <1>6 DEF Judgement, Call, Discount, PutBack
<1> QED  BY <1>1, <1>2, <1>3, <1>4, <1>5, <1>6 DEF Step

\* A protection that is not fresh was there, in this slot or an earlier one.
LEMMA Protect_Step ==
  ASSUME SInv, GoneOK, NEW s \in Threads, Step(s), NEW t \in Threads, NEW i \in Nat, NEW e \in Safe,
         Protects(t, i, e)'
  PROVE  Fresh(e) \/ Older(t, i, e)
<1>1. CASE t = s
  BY <1>1, Protect_Living, Protect_Retiring, Protect_Slots, Protect_Protecting, Protect_Scanning,
     Protect_Judgement DEF Step
<1>2. CASE t # s
  <2>1. Same(t)
    BY <1>2, Alone_Living, Alone_Retiring, Alone_Slots, Alone_Protecting, Alone_Scanning,
       Alone_Judgement DEF Step, Alone
  <2> QED  BY <2>1 DEF Same, Protects, Older
<1> QED  BY <1>1, <1>2

\* Whoever has popped it still sees an older protection in a slot that does not move.
LEMMA See_Step ==
  ASSUME SInv, NEW s \in Threads, Step(s), NEW u \in Threads,
         NEW k, NEW i, NEW e, NEW p, Stands(k, i, p), Seen(u, k, i, e, p)
  PROVE  WillSee(u, k, i, e, p)
<1>1. CASE u = s
  BY <1>1, See_Calm, See_Scanning, See_Judgement DEF Step
<1>2. CASE u # s
  <2>1. Same(u)
    BY <1>2, Alone_Living, Alone_Retiring, Alone_Slots, Alone_Protecting, Alone_Scanning,
       Alone_Judgement DEF Step, Alone
  <2> QED  BY <2>1 DEF Same, Seen, WillSee
<1> QED  BY <1>1, <1>2

LEMMA ReadsArray ==
  ASSUME SInv, NEW u \in Threads, Base(pc[u]).at = "slots"
  PROVE  /\ Base(pc[u]).k \in 1 .. MaxRecs /\ Base(pc[u]).j \in Nat
         /\ Base(pc[u]).g \in 1 .. Last(Base(pc[u]).k) /\ pc[u].at = "slots"
<1>1. pc[u] \in PCs /\ ControlAt(u)
  BY DEF SInv, TypeOK, ControlOK
<1>2. pc[u].at \in {"flush", "push"} => pc[u].to.at \in {"idle", "release", "judge", "extend"} /\ pc[u].to \in Return
  BY <1>1, PlaceFields, ReturnFields
<1>3. Inner(pc[u]).at = "extend" => Inner(pc[u]) \in Growing
  BY <1>1, <1>2, PlaceFields, ReturnFields DEF Inner
<1>4. Inner(pc[u]).at # "extend"
  BY <1>3, GrowingFields DEF Base
<1>5. Inner(pc[u]) = Base(pc[u])
  BY <1>4 DEF Base
<1>6. pc[u].at = "slots" /\ Base(pc[u]) = pc[u]
  BY <1>2, <1>5 DEF Inner
<1> QED  BY <1>1, <1>6, PlaceFields DEF ControlAt

ReadsKnown == \A u \in Threads : Base(pc[u]).at = "slots" =>
                /\ Base(pc[u]).j \in Nat /\ Base(pc[u]).g \in 1 .. Last(Base(pc[u]).k)
                /\ pc[u].at = "slots"
LEMMA ReadsAreKnown == SInv => ReadsKnown
  BY ReadsArray DEF ReadsKnown
SlotsHold == \A t \in Threads, i \in Nat, e \in Entries :
               Protects(t, i, e) => i \in DOMAIN Array(rec[t]) /\ Array(rec[t])[i] = PtrOf(e)
LEMMA ProtectsHold == SInv /\ HeldOK => SlotsHold
  BY ProtectsSlot DEF SlotsHold

\* A scan that reads slots after a step reads an array that was there before it.
LEMMA ReadsOld ==
  ASSUME SInv, SInv', NEW s \in Threads, Step(s), NEW u \in Threads, Base(pc'[u]).at = "slots"
  PROVE  Base(pc'[u]).g \in 1 .. Len(arrays[Base(pc'[u]).k]) /\ Base(pc'[u]).j \in Nat
<1>1. CASE u # s
  <2>1. pc'[u] = pc[u]
    BY <1>1, Alone_Living, Alone_Retiring, Alone_Slots, Alone_Protecting, Alone_Scanning,
       Alone_Judgement DEF Step, Alone, Same
  <2> QED  BY <2>1, ReadsArray DEF Last
<1>2. CASE u = s /\ (Recheck(s) \/ ReadSlot(s))
  <2>1. arrays' = arrays
    BY <1>2 DEF Recheck, ReadSlot, domain
  <2>2. ReadsKnown'
    BY ReadsAreKnown, PTL
  <2> QED  BY <2>1, <2>2 DEF ReadsKnown, Last
<1>3. CASE u = s /\ ~Recheck(s) /\ ~ReadSlot(s)
  <2>1. pc'[u].at # "slots"
    BY <1>3, SlotsFrom
  <2>2. ReadsKnown'
    BY ReadsAreKnown, PTL
  <2> QED  BY <2>1, <2>2 DEF ReadsKnown
<1> QED  BY <1>1, <1>2, <1>3

LEMMA HazardOK_Step == ASSUME HInv, SInv', HeldOK', NEW s \in Threads, Step(s) PROVE HazardOK'
<1> SUFFICES ASSUME NEW t \in Threads, NEW i \in Nat, NEW e \in Safe', Protects(t, i, e)'
             PROVE  e \notin freed' /\ \A u \in Threads : Seen(u, rec[t], i, e, PtrOf(e))'
  BY DEF HazardOK
<1>1. SInv /\ GoneOK /\ HeldOK /\ e \in Safe /\ e \in Entries
  BY ClientFixed DEF HInv, Safe
<1>2. Fresh(e) \/ Older(t, i, e)
  BY <1>1, Protect_Step
<1>3. CASE Fresh(e)
  BY <1>1, <1>3 DEF Fresh, GoneOK, Seen
<1>4. CASE Older(t, i, e)
  <2>1. PICK j \in Nat : j <= i /\ Protects(t, j, e)
    BY <1>4 DEF Older
  <2> DEFINE k == rec[t]  p == PtrOf(e)
  <2>2. Stands(k, j, p) /\ k \in 1 .. MaxRecs
    BY <1>1, <2>1, ProtectsSlot, EntryPointer DEF Stands
  <2>3. e \notin freed /\ \A u \in Threads : Seen(u, k, j, e, p)
    BY <1>1, <2>1 DEF HInv, HazardOK
  <2>4. e \notin freed'
    BY <1>1, <2>2, <2>3, FreedStep, SeenGuarded
  <2>5. rec'[t] = k
    BY <1>4 DEF Older
  <2>6. i \in DOMAIN arrays'[k][Len(arrays'[k])] /\ arrays'[k][Len(arrays'[k])][i] = p
    <3>1. SlotsHold'
      BY ProtectsHold, PTL
    <3>2. i \in DOMAIN Array(rec[t])' /\ Array(rec[t])'[i] = p
      BY <1>1, <3>1 DEF SlotsHold
    <3> QED  BY <2>5, <3>2 DEF Array, Last
  <2>7. ASSUME NEW u \in Threads PROVE Seen(u, rec[t], i, e, p)'
    <3>1. WillSee(u, k, j, e, p)
      BY <1>1, <2>2, <2>3, See_Step
    <3> SUFFICES ASSUME e \in popped'[u], p \notin guarded'[u]
                 PROVE  Ahead(Base(pc'[u]), arrays'[k], k, i, p)
      BY <2>5 DEF Seen
    <3>2. Ahead(Base(pc'[u]), arrays[k], k, j, p)
      BY <3>1 DEF WillSee
    <3>3. /\ Len(arrays[k]) <= Len(arrays'[k])
          /\ \A g \in 1 .. Len(arrays[k]) - 1 : arrays'[k][g] = arrays[k][g]
          /\ Len(arrays[k]) < Len(arrays'[k]) => arrays'[k][Len(arrays[k])] = arrays[k][Len(arrays[k])]
      BY <1>1, <2>2, ArraysKept DEF Last
    <3>4. arrays[k] \in Seq(Seq(Ptrs \cup Addrs \cup {Null})) /\ arrays'[k] \in Seq(Seq(Ptrs \cup Addrs \cup {Null}))
      BY <2>2 DEF HInv, SInv, TypeOK, SharedType
    <3>5. Base(pc'[u]).at = "slots" /\ Base(pc'[u]).k = k =>
            Base(pc'[u]).g \in 1 .. Len(arrays[k]) /\ Base(pc'[u]).j \in Nat
      BY <1>1, ReadsOld
    <3> DEFINE A == arrays[k]  B == arrays'[k]  b == Base(pc'[u])
    <3>6. /\ Len(A) <= Len(B) /\ \A g \in 1 .. Len(A) - 1 : B[g] = A[g]
          /\ Len(A) < Len(B) => B[Len(A)] = A[Len(A)]
          /\ i \in DOMAIN B[Len(B)] /\ B[Len(B)][i] = p
          /\ A \in Seq(Seq(Ptrs \cup Addrs \cup {Null})) /\ B \in Seq(Seq(Ptrs \cup Addrs \cup {Null}))
          /\ b.at = "slots" /\ b.k = k => b.g \in 1 .. Len(A) /\ b.j \in Nat
          /\ Ahead(b, A, k, j, p) /\ k \in Nat /\ j \in Nat /\ j <= i
      BY <2>1, <2>2, <2>6, <3>2, <3>3, <3>4, <3>5
    <3> HIDE DEF A, B, b
    <3>7. Ahead(b, B, k, i, p)
      BY <3>6, AheadArrays
    <3> QED  BY <3>7 DEF b, B
  <2> QED  BY <2>4, <2>7
<1> QED  BY <1>2, <1>3, <1>4

LEMMA HInv_Init == Init => HInv
<1>1. Init => HazardOK
  BY DEF Init, HazardOK, Protects, NoHp, Hazard, Idle
<1>2. Init => HeldOK
  BY DEF Init, HeldOK, NoHp, Hazard
<1> QED  BY <1>1, <1>2, SInv_Init, Gone_Init DEF HInv

LEMMA HInv_Step == ASSUME HInv, NEW t \in Threads, Step(t) PROVE HInv'
<1>1. SInv'
  BY SInv_Step DEF HInv
<1>2. GoneOK'
  BY Gone_Step DEF HInv
<1>3. HeldOK'
  BY Held_Step DEF HInv
<1>4. HazardOK'
  BY <1>1, <1>3, HazardOK_Step
<1> QED  BY <1>1, <1>2, <1>3, <1>4 DEF HInv

LEMMA HInv_Stutter == ASSUME HInv, UNCHANGED vars PROVE HInv'
<1> USE DEF vars, env, records, pool, domain, slot, batch, loop, judging, recl, history
<1>1. SInv'
  BY SInv_Stutter DEF HInv
<1>2. GoneOK'
  BY DEF HInv, GoneOK, Last
<1>3. HazardOK' /\ HeldOK'
  BY DEF HInv, HazardOK, HeldOK, Protects, Seen, Safe
<1> QED  BY <1>1, <1>2, <1>3 DEF HInv

LEMMA HInv_Always == Spec => []HInv
<1>1. HInv /\ [Next]_vars => HInv'
  BY HInv_Step, HInv_Stutter DEF Next
<1> QED  BY HInv_Init, <1>1, PTL DEF Spec

\* No entry is called under a hazard to its pointer that was published before the
\* entry was retired, or validated while the reference was linked, whatever grows,
\* exits, is recycled or swapped while scans read the slots one by one, and though
\* the pointer was retired before and is linked again, if no client copies a
\* hazard pointer into a slot before the one it copies from.
THEOREM ProtectedNotFreed == Spec => []("copy_to" \notin client.calls => HazardsHold)
<1>1. HInv => ("copy_to" \notin client.calls => HazardsHold)
  <2> SUFFICES ASSUME HInv, "copy_to" \notin client.calls, NEW t \in Threads, NEW n \in Handles,
                      NEW o \in hp[t][n].held
               PROVE  o \notin freed
    BY DEF HazardsHold
  <2>1. o \in Refs /\ hp[t][n].i \in Nat
    BY DEF HInv, SInv, TypeOK, ThreadType
  <2>2. o \in Safe /\ Protects(t, hp[t][n].i, o)
    BY <2>1 DEF Safe, Entries, Protects
  <2> QED  BY <2>1, <2>2 DEF HInv, HazardOK
<1> QED  BY <1>1, HInv_Always, PTL

\* The slot array that a scan reads is not reclaimed, though its owner may
\* replace and retire it meanwhile, and whatever clients copy.
THEOREM ArrayNotFreed == Spec => []ArraysHold
<1>1. HInv => ArraysHold
  <2> SUFFICES ASSUME HInv, NEW t \in Threads, pc[t].at = "slots"
               PROVE  Addr(pc[t].k, pc[t].g) \notin freed
    BY DEF ArraysHold
  <2>1. pc[t].k \in 1 .. MaxRecs /\ pc[t].g \in Nat /\ pc[t].i \in Nat
    BY PlaceFields DEF HInv, SInv, TypeOK
  <2>2. Addr(pc[t].k, pc[t].g) \in Safe /\ Protects(t, pc[t].i, Addr(pc[t].k, pc[t].g))
    BY <2>1 DEF Safe, Entries, Addrs, Addr, Protects
  <2> QED  BY <2>1, <2>2 DEF HInv, HazardOK
<1> QED  BY <1>1, HInv_Always, PTL
====
