------------------------ MODULE HPDomain_items_proofs ------------------------
(***************************************************************************)
(* Each entry is in one place until it is called, for any number of        *)
(* threads, records, references and objects and any size of arrays; so     *)
(* num_garbages is exact.                                                  *)
(***************************************************************************)
EXTENDS HPDomain_hazards_proofs

\* The sets of a thread that an entry goes through.
Spots == {"retired", "popped", "called"}
In(e, t, s) == \/ s = "retired" /\ e \in retired[t]
               \/ s = "popped" /\ e \in popped[t]
               \/ s = "called" /\ e \in called[t]

\* No entry is in two places, and one that was called only in "called".
ApartOK ==
  \A e \in gone :
    /\ \A t, u \in Threads : \A r, s \in Spots : In(e, t, r) /\ In(e, u, s) => t = u /\ r = s
    /\ e \in retireds => e \notin freed /\ \A t \in Threads : \A s \in Spots : ~In(e, t, s)
    /\ \A t \in Threads : In(e, t, "called") => e \in freed
    /\ \A t \in Threads : In(e, t, "retired") \/ In(e, t, "popped") => e \notin freed
\* No entry is lost.
KeptOK == \A e \in gone \ freed :
            e \in retireds \/ \E t \in Threads : In(e, t, "retired") \/ In(e, t, "popped")
\* A reference in an object is dropped by the call that disposes of it and by nothing else.
ParentOK == \A o \in Refs : Child[o] # Null /\ Child[o] \in gone => o \in freed
CalledOK == \A t \in Threads : called[t] \subseteq gone
PlacesOK == ApartOK /\ KeptOK /\ ParentOK /\ CalledOK
CountOK  == IsFiniteSet(gone) /\ GarbageExact
OInv     == HInv /\ PlacesOK /\ CountOK

items == <<retireds, retired, popped, called, gone, freed>>

\* The steps that move an entry or count one.
Retires(t) == (\E o \in Roots : Drop(t, o)) \/ (\E p : rec[t] # 0 /\ Grow(t, p))
Pools(t)   == Push(t) \/ Pop(t) \/ PutBack(t) \/ Discount(t)
LEMMA Kinds ==
  ASSUME SInv, NEW t \in Threads, Step(t)
  PROVE  \/ UNCHANGED <<items, garbage>> \/ Flush(t)
         \/ Retires(t) \/ Pools(t) \/ \E e \in popped[t] : Call(t, e)
<1> USE DEF env, records, pool, domain, slot, batch, loop, judging, recl, history, items
<1>1. CASE Living(t)
  BY <1>1 DEF Living, Start, Skip, Recycle, NewRecord, Exit, Release, Take
<1>2. CASE Retiring(t)
  <2>1. ASSUME NEW o \in Roots \cup {Null}, Swap(t, o) PROVE UNCHANGED <<items, garbage>>
    BY <2>1 DEF Swap
  <2> QED  BY <1>2, <2>1 DEF Retiring, EagerReclaim, Pools, Retires
<1>3. CASE Slots(t)
  BY <1>3 DEF Slots, Extend, Acquire, AcquireGrow, Wants, Ready, Retires
<1>4. CASE Protecting(t)
  <2>1. Publish(t) \/ Validate(t) => UNCHANGED <<items, garbage>>
    BY DEF Publish, Validate, Trust
  <2>2. \A n \in Handles : DropHandle(t, n) \/ Load(t, n) \/ Clear(t, n) => UNCHANGED <<items, garbage>>
    BY DEF DropHandle, Load, Clear
  <2>3. \A n, m \in Handles : SwapHandles(t, n, m) \/ Copy(t, n, m) => UNCHANGED <<items, garbage>>
    BY DEF SwapHandles, Copy
  <2> QED  BY <1>4, <2>1, <2>2, <2>3 DEF Protecting
<1>5. CASE Scanning(t)
  <2>1. CASE ReadArrayGrow(t)
    <3>1. ControlAt(t)
      BY DEF SInv, ControlOK
    <3>2. pc[t].at = "array" /\ Grow(t, pc[t])
      BY <2>1 DEF ReadArrayGrow
    <3> QED  BY <3>1, <3>2 DEF ControlAt, Retires
  <2> QED  BY <1>5, <2>1
           DEF Scanning, Pools, ReadHead, Record, ReadArray, GuardArray, Recheck, ReadSlot, EndArray
<1>6. CASE Judgement(t)
  BY <1>6 DEF Judgement, Pools
<1> QED  BY <1>1, <1>2, <1>3, <1>4, <1>5, <1>6 DEF Step

-------------------------------------------------------------------------------
(* Each entry in one place. *)

LEMMA Unmoved == ASSUME PlacesOK, UNCHANGED items PROVE PlacesOK'
  BY DEF items, PlacesOK, ApartOK, KeptOK, ParentOK, CalledOK, In

\* The entries E are called, and the new entries N are retired.
LEMMA Retired ==
  ASSUME GoneOK, PlacesOK, NEW t \in Threads, NEW E \in SUBSET popped[t], NEW N, N \cap gone = {},
         gone' = gone \cup N, freed' = freed \cup E, UNCHANGED retireds,
         retired'[t] = retired[t] \cup N, popped'[t] = popped[t] \ E, called'[t] = called[t] \cup E,
         \A u \in Threads \ {t} : /\ retired'[u] = retired[u] /\ popped'[u] = popped[u]
                                  /\ called'[u] = called[u],
         \A o \in Refs : Child[o] # Null /\ Child[o] \in N => o \in E
  PROVE  PlacesOK'
<1>1. E \subseteq gone /\ retireds \subseteq gone /\ freed \subseteq gone
  BY DEF GoneOK
<1>2. \A u \in Threads : retired[u] \subseteq gone /\ popped[u] \subseteq gone /\ called[u] \subseteq gone
  BY DEF GoneOK, PlacesOK, CalledOK
<1>3. ASSUME NEW e \in E
      PROVE  /\ e \notin retireds /\ e \notin freed
             /\ \A u \in Threads : \A s \in Spots : In(e, u, s)' <=> u = t /\ s = "called"
  <2>1. e \in gone /\ In(e, t, "popped") /\ e \notin N
    BY <1>1 DEF In
  <2>2. \A u \in Threads : \A s \in Spots : In(e, u, s) => u = t /\ s = "popped"
    BY <2>1 DEF PlacesOK, ApartOK, Spots
  <2>3. e \notin retireds /\ e \notin freed
    BY <2>1 DEF PlacesOK, ApartOK, Spots
  <2> QED  BY <2>1, <2>2, <2>3 DEF In, Spots
<1>4. ASSUME NEW e \in N
      PROVE  /\ e \notin retireds /\ e \notin freed'
             /\ \A u \in Threads : \A s \in Spots : In(e, u, s)' <=> u = t /\ s = "retired"
  BY <1>1, <1>2 DEF In, Spots
<1>5. ASSUME NEW e \in gone \ E
      PROVE  \A u \in Threads : \A s \in Spots : In(e, u, s)' <=> In(e, u, s)
  BY DEF In, Spots
<1>6. ApartOK'
  <2> SUFFICES ASSUME NEW e \in gone'
               PROVE  /\ \A u, v \in Threads : \A r, s \in Spots : In(e, u, r)' /\ In(e, v, s)' => u = v /\ r = s
                      /\ e \in retireds' => e \notin freed' /\ \A u \in Threads : \A s \in Spots : ~In(e, u, s)'
                      /\ \A u \in Threads : In(e, u, "called")' => e \in freed'
                      /\ \A u \in Threads : In(e, u, "retired")' \/ In(e, u, "popped")' => e \notin freed'
    BY DEF ApartOK
  <2>1. CASE e \in E
    BY <1>3, <2>1 DEF Spots
  <2>2. CASE e \in N
    BY <1>4, <2>2 DEF Spots
  <2>3. CASE e \in gone \ E
    BY <1>5, <2>3 DEF PlacesOK, ApartOK, Spots
  <2> QED  BY <2>1, <2>2, <2>3
<1>7. KeptOK'
  <2> SUFFICES ASSUME NEW e \in gone' \ freed'
               PROVE  e \in retireds' \/ \E u \in Threads : In(e, u, "retired")' \/ In(e, u, "popped")'
    BY DEF KeptOK
  <2>1. CASE e \in N
    BY <1>4, <2>1 DEF Spots
  <2>2. CASE e \in gone \ E
    BY <1>5, <2>2 DEF PlacesOK, KeptOK, Spots
  <2> QED  BY <2>1, <2>2
<1>8. ParentOK' /\ CalledOK'
  BY <1>1, <1>2 DEF PlacesOK, ParentOK, CalledOK
<1> QED  BY <1>6, <1>7, <1>8 DEF PlacesOK

\* One set of a thread goes back to the domain.
LEMMA Pooled ==
  ASSUME PlacesOK, NEW t \in Threads, NEW r \in {"retired", "popped"}, UNCHANGED <<gone, freed, called>>,
         \A e : e \in retireds' <=> e \in retireds \/ In(e, t, r),
         \A e : \A u \in Threads : \A s \in Spots : In(e, u, s)' <=> In(e, u, s) /\ ~(u = t /\ s = r)
  PROVE  PlacesOK'
<1>1. ApartOK'
  <2> SUFFICES ASSUME NEW e \in gone
               PROVE  /\ \A u, v \in Threads : \A q, s \in Spots : In(e, u, q)' /\ In(e, v, s)' => u = v /\ q = s
                      /\ e \in retireds' => e \notin freed /\ \A u \in Threads : \A s \in Spots : ~In(e, u, s)'
                      /\ \A u \in Threads : In(e, u, "called")' => e \in freed
                      /\ \A u \in Threads : In(e, u, "retired")' \/ In(e, u, "popped")' => e \notin freed
    BY DEF ApartOK
  <2>1. CASE In(e, t, r)
    BY <2>1 DEF PlacesOK, ApartOK, Spots
  <2>2. CASE ~In(e, t, r)
    BY <2>2 DEF PlacesOK, ApartOK, Spots
  <2> QED  BY <2>1, <2>2
<1>2. KeptOK'
  BY DEF PlacesOK, KeptOK, Spots
<1> QED  BY <1>1, <1>2 DEF PlacesOK, ParentOK, CalledOK

\* An entry is new, and what retires it, if it is of a child, is called now.
LEMMA NewEntry ==
  ASSUME SInv, GoneOK, PlacesOK, NEW t \in Threads
  PROVE  /\ \A q \in Roots : \A o \in Refs : Child[o] # q
         /\ rec[t] # 0 => /\ Addr(rec[t], Last(rec[t])) \notin gone
                          /\ \A o \in Refs : Child[o] # Addr(rec[t], Last(rec[t]))
         /\ \A e \in Refs : /\ e \in popped[t] /\ Child[e] # Null => Child[e] \notin gone
                            /\ \A o \in Refs : Child[o] = Child[e] /\ Child[o] # Null => o = e
<1>1. \A q \in Roots : \A o \in Refs : Child[o] # q
  BY DEF Roots
<1>2. ASSUME rec[t] # 0
      PROVE  /\ Addr(rec[t], Last(rec[t])) \notin gone
             /\ \A o \in Refs : Child[o] # Addr(rec[t], Last(rec[t]))
  <2>1. rec[t] \in 1 .. MaxRecs /\ Last(rec[t]) \in Nat
    BY <1>2, OwnArray
  <2>2. Addr(rec[t], Last(rec[t])) \in Addrs
    BY <2>1 DEF Addr, Addrs
  <2>3. \A o \in Refs : Child[o] # Addr(rec[t], Last(rec[t]))
    BY <2>2, AddrAssumption, ChildAssumption
  <2>4. Addr(rec[t], Last(rec[t])) \notin gone
    BY <2>1 DEF GoneOK
  <2> QED  BY <2>3, <2>4
<1>3. ASSUME NEW e \in Refs, e \in popped[t], Child[e] # Null PROVE Child[e] \notin gone
  <2>1. e \in gone /\ In(e, t, "popped")
    BY <1>3 DEF GoneOK, In
  <2>2. e \notin freed
    BY <2>1 DEF PlacesOK, ApartOK
  <2> QED  BY <1>3, <2>2 DEF PlacesOK, ParentOK
<1> QED  BY <1>1, <1>2, <1>3, ChildAssumption

LEMMA Places_Retires == ASSUME HInv, PlacesOK, NEW t \in Threads, Retires(t) PROVE PlacesOK'
<1>1. SInv /\ GoneOK /\ ThreadType
  BY DEF HInv, SInv, TypeOK
<1>2. ASSUME NEW e, NEW p, Defer(t, e, p), e \notin gone, \A o \in Refs : Child[o] # e,
             UNCHANGED <<retireds, freed, popped, called>>
      PROVE  PlacesOK'
  <2> DEFINE E == {}  N == {e}
  <2>1. /\ gone' = gone \cup N /\ retired'[t] = retired[t] \cup N
        /\ \A u \in Threads \ {t} : retired'[u] = retired[u]
    BY <1>1, <1>2, DeferGone
  <2>2. /\ E \in SUBSET popped[t] /\ N \cap gone = {} /\ freed' = freed \cup E
        /\ popped'[t] = popped[t] \ E /\ called'[t] = called[t] \cup E
    BY <1>2
  <2>3. \A o \in Refs : Child[o] # Null /\ Child[o] \in N => o \in E
    BY <1>2
  <2> HIDE DEF E, N
  <2> QED  BY <1>1, <1>2, <2>1, <2>2, <2>3, Retired
<1>3. ASSUME NEW o \in Roots, Drop(t, o) PROVE PlacesOK'
  <2>1. Defer(t, o, Idle) /\ o \notin gone /\ UNCHANGED <<retireds, freed, popped, called>>
    BY <1>3 DEF Drop, domain, pool, recl, judging
  <2> QED  BY <1>1, <1>2, <1>3, <2>1, NewEntry
<1>4. ASSUME NEW p, rec[t] # 0, Grow(t, p) PROVE PlacesOK'
  <2>1. /\ \E q : Defer(t, Addr(rec[t], Last(rec[t])), q)
        /\ UNCHANGED <<retireds, freed, popped, called>>
    BY <1>4 DEF Grow, pool, recl, judging
  <2> QED  BY <1>1, <1>2, <1>4, <2>1, NewEntry
<1> QED  BY <1>3, <1>4 DEF Retires

LEMMA Places_Call ==
  ASSUME HInv, PlacesOK, NEW t \in Threads, NEW e \in popped[t], Call(t, e)
  PROVE  PlacesOK'
<1> DEFINE c == IF e \in Refs THEN Child[e] ELSE Null  E == {e}  N == {c} \ {Null}
<1>1. SInv /\ GoneOK /\ ThreadType
  BY DEF HInv, SInv, TypeOK
<1>2. /\ freed' = freed \cup E /\ retireds' = retireds
      /\ popped' = [popped EXCEPT ![t] = @ \ {e}] /\ called' = [called EXCEPT ![t] = @ \cup {e}]
  BY DEF Call, domain, pool
<1>3. /\ popped'[t] = popped[t] \ E /\ called'[t] = called[t] \cup E
      /\ \A u \in Threads \ {t} : popped'[u] = popped[u] /\ called'[u] = called[u]
  BY <1>1, <1>2 DEF ThreadType
<1>4. /\ gone' = gone \cup N /\ retired'[t] = retired[t] \cup N
      /\ \A u \in Threads \ {t} : retired'[u] = retired[u]
  <2>1. CASE c = Null
    BY <2>1 DEF Call, batch
  <2>2. CASE c # Null
    <3>1. Defer(t, c, [at |-> "judge"])
      BY <2>2 DEF Call
    <3> QED  BY <1>1, <2>2, <3>1, DeferGone
  <2> QED  BY <2>1, <2>2
<1>5. N \cap gone = {} /\ \A o \in Refs : Child[o] # Null /\ Child[o] \in N => o \in E
  BY <1>1, NewEntry
<1>6. E \in SUBSET popped[t]
  OBVIOUS
<1> HIDE DEF E, N
<1> QED  BY <1>1, <1>2, <1>3, <1>4, <1>5, <1>6, Retired

LEMMA Places_Pools == ASSUME HInv, PlacesOK, NEW t \in Threads, Pools(t) PROVE PlacesOK'
<1>1. ThreadType /\ ControlAt(t) /\ GoneOK
  BY DEF HInv, SInv, TypeOK, ControlOK
<1>2. CASE Push(t)
  <2>1. /\ retireds' = retireds \cup retired[t] /\ retired' = [retired EXCEPT ![t] = {}]
        /\ UNCHANGED <<gone, freed, popped, called>>
    BY <1>2 DEF Push, judging, history
  <2>2. \A e : \A u \in Threads : \A s \in Spots : In(e, u, s)' <=> In(e, u, s) /\ ~(u = t /\ s = "retired")
    BY <1>1, <2>1 DEF ThreadType, In, Spots
  <2>3. \A e : e \in retireds' <=> e \in retireds \/ In(e, t, "retired")
    BY <2>1 DEF In
  <2> QED  BY <2>1, <2>2, <2>3, Pooled
<1>3. CASE PutBack(t)
  <2>1. /\ retireds' = retireds \cup popped[t] /\ popped' = [popped EXCEPT ![t] = {}]
        /\ UNCHANGED <<gone, freed, retired, called>>
    BY <1>3 DEF PutBack, history, batch
  <2>2. \A e : \A u \in Threads : \A s \in Spots : In(e, u, s)' <=> In(e, u, s) /\ ~(u = t /\ s = "popped")
    BY <1>1, <2>1 DEF ThreadType, In, Spots
  <2>3. \A e : e \in retireds' <=> e \in retireds \/ In(e, t, "popped")
    BY <2>1 DEF In
  <2> QED  BY <2>1, <2>2, <2>3, Pooled
<1>4. CASE Pop(t)
  <2>1. /\ retireds' = {} /\ popped' = [popped EXCEPT ![t] = retireds]
        /\ UNCHANGED <<gone, freed, retired, called>>
    BY <1>4 DEF Pop, history, batch
  <2>2. popped[t] = {}
    BY <1>1, <1>4 DEF Pop, ControlAt, Base, Inner
  <2>3. \A e : \A u \in Threads : \A s \in Spots :
          In(e, u, s)' <=> In(e, u, s) \/ (u = t /\ s = "popped" /\ e \in retireds)
    BY <1>1, <2>1, <2>2 DEF ThreadType, In, Spots
  <2>4. ApartOK'
    <3> SUFFICES ASSUME NEW e \in gone
                 PROVE  /\ \A u, v \in Threads : \A r, s \in Spots : In(e, u, r)' /\ In(e, v, s)' => u = v /\ r = s
                        /\ e \notin retireds'
                        /\ \A u \in Threads : In(e, u, "called")' => e \in freed
                        /\ \A u \in Threads : In(e, u, "retired")' \/ In(e, u, "popped")' => e \notin freed
      BY <2>1 DEF ApartOK
    <3> QED  BY <2>1, <2>3 DEF PlacesOK, ApartOK, Spots
  <2>5. KeptOK'
    BY <2>1, <2>3 DEF PlacesOK, KeptOK, Spots
  <2> QED  BY <2>1, <2>4, <2>5 DEF PlacesOK, ParentOK, CalledOK
<1>5. CASE Discount(t)
  <2>1. called' = [called EXCEPT ![t] = {}] /\ UNCHANGED <<retireds, gone, freed, retired, popped>>
    BY <1>5 DEF Discount, history, batch
  <2>2. \A e : \A u \in Threads : \A s \in Spots : In(e, u, s)' <=> In(e, u, s) /\ ~(u = t /\ s = "called")
    BY <1>1, <2>1 DEF ThreadType, In, Spots
  <2>3. ApartOK' /\ KeptOK'
    BY <2>1, <2>2 DEF PlacesOK, ApartOK, KeptOK, Spots
  <2>4. \A u \in Threads : called'[u] \subseteq called[u]
    BY <1>1, <2>1 DEF ThreadType
  <2> QED  BY <2>1, <2>3, <2>4 DEF PlacesOK, ParentOK, CalledOK
<1> QED  BY <1>2, <1>3, <1>4, <1>5 DEF Pools

LEMMA Places_Step == ASSUME HInv, PlacesOK, NEW t \in Threads, Step(t) PROVE PlacesOK'
<1>1. SInv
  BY DEF HInv
<1>2. CASE Flush(t)
  BY <1>2, Unmoved DEF Flush, items, batch, recl, judging, history
<1> QED  BY <1>1, <1>2, Kinds, Unmoved, Places_Retires, Places_Pools, Places_Call

-------------------------------------------------------------------------------
(* The counter. *)

\* Only a flush goes on to push, and only Push goes on from there.
LEMMA PushFrom ==
  ASSUME SInv, NEW t \in Threads, Step(t), ~Flush(t), ~Push(t)
  PROVE  pc[t].at # "push" /\ pc'[t].at # "push"
<1> USE DEF env, records, pool, domain, slot, batch, loop, judging, recl, history, Goto
<1>1. pc \in [Threads -> PCs] /\ pc[t] \in PCs
  BY DEF SInv, TypeOK
<1>2. back[t].at # "push"
  <2>1. back[t] \in {Idle} \cup Growing
    BY DEF SInv, TypeOK, ThreadType
  <2> QED  BY <2>1, GrowingFields DEF Idle
<1>3. CASE Living(t)
  <2>1. pc[t].at # "push"
    <3>1. Ready(t) \/ pc[t] = Idle \/ pc[t].at \in {"search", "release"}
      BY <1>3 DEF Living, Start, Skip, Recycle, NewRecord, Exit, Release
    <3> QED  BY <3>1 DEF Ready, Idle
  <2>2. pc'[t].at # "push"
    BY <1>1, <1>3 DEF Living, Start, Skip, Recycle, NewRecord, Take, Exit, Release, Idle
  <2> QED  BY <2>1, <2>2
<1>4. ASSUME NEW o \in Roots \cup {Null}, Swap(t, o) PROVE pc[t].at # "push" /\ pc'[t].at # "push"
  BY <1>4 DEF Swap, Ready, Idle
<1>16. ASSUME NEW o \in Roots, Drop(t, o) PROVE pc[t].at # "push" /\ pc'[t].at # "push"
  BY <1>1, <1>16 DEF Drop, Defer, Ready, Idle
<1>5. CASE EagerReclaim(t)
  BY <1>1, <1>5 DEF EagerReclaim, Ready, Idle
<1>6. CASE Extend(t)
  BY <1>1, <1>6, PlaceFields, GrowingFields DEF Extend
<1>7. ASSUME NEW n \in Handles, NEW i \in free[t], Acquire(t, n, i)
      PROVE  pc[t].at # "push" /\ pc'[t].at # "push"
  BY <1>1, <1>7 DEF Acquire, Wants, Ready, Idle
<1>8. ASSUME NEW n \in Handles, AcquireGrow(t, n) PROVE pc[t].at # "push" /\ pc'[t].at # "push"
  BY <1>1, <1>8 DEF AcquireGrow, Grow, Defer, Wants, Ready, Idle
<1>9. CASE Protecting(t)
  <2>1. CASE Publish(t)
    BY <1>1, <2>1 DEF Publish
  <2>2. CASE Validate(t)
    <3>1. pc[t].at = "validate" /\ (pc'[t] = Idle \/ pc'[t] = [at |-> "publish", h |-> pc[t].h, o |-> link])
      BY <1>1, <2>2 DEF Validate, Trust
    <3> QED  BY <3>1 DEF Idle
  <2>3. CASE pc' = pc /\ Ready(t)
    BY <2>3 DEF Ready, Idle
  <2>4. ASSUME NEW n \in Handles, Load(t, n) PROVE pc[t].at # "push" /\ pc'[t].at # "push"
    BY <1>1, <2>4 DEF Load, Ready, Idle
  <2> QED  BY <1>9, <2>1, <2>2, <2>3, <2>4 DEF Protecting, DropHandle, Clear, SwapHandles, Copy
<1>10. CASE Pop(t) \/ PutBack(t)
  <2>1. pc[t].at \in {"pop", "putback"} /\ pc'[t] \in {back[t], [at |-> "pop"], [at |-> "head"]}
    BY <1>1, <1>10 DEF Pop, PutBack, Again
  <2> QED  BY <1>2, <2>1
<1>11. CASE ReadHead(t) \/ Record(t) \/ \E i \in free[t] : ReadArray(t, i)
  BY <1>1, <1>11 DEF ReadHead, Record, ReadArray
<1>12. CASE ReadArrayGrow(t)
  BY <1>1, <1>12 DEF ReadArrayGrow, Grow, Defer
<1>13. CASE GuardArray(t) \/ Recheck(t) \/ ReadSlot(t) \/ EndArray(t)
  BY <1>1, <1>13 DEF GuardArray, Recheck, ReadSlot, EndArray, Look, Slot
<1>14. ASSUME NEW e \in popped[t], Call(t, e) PROVE pc[t].at # "push" /\ pc'[t].at # "push"
  BY <1>1, <1>14 DEF Call, Defer, Judging
<1>15. CASE Discount(t)
  BY <1>1, <1>15 DEF Discount, Judging
<1> QED  BY <1>3, <1>4, <1>5, <1>6, <1>7, <1>8, <1>9, <1>10, <1>11, <1>12, <1>13, <1>14, <1>15, <1>16
         DEF Step, Retiring, Slots, Scanning, Judgement

\* The other threads flush or push as before.
LEMMA OthersPush == ASSUME SInv, NEW t \in Threads, Step(t) PROVE \A u \in Threads \ {t} : pc'[u] = pc[u]
  BY Alone_Living, Alone_Retiring, Alone_Slots, Alone_Protecting, Alone_Scanning, Alone_Judgement
     DEF Step, Alone, Same

\* What is counted, and what a step that moves no count leaves counted.
InAll == {e \in gone : Counted(e)}
LEMMA CountSame ==
  ASSUME CountOK, InAll' = InAll, garbage' = garbage, IsFiniteSet(gone') PROVE CountOK'
  BY DEF CountOK, GarbageExact, InAll

LEMMA FiniteGone == ASSUME SInv, IsFiniteSet(gone), NEW t \in Threads, Step(t) PROVE IsFiniteSet(gone')
<1>1. ASSUME NEW e, NEW p, Defer(t, e, p) PROVE IsFiniteSet(gone')
  <2>1. gone' = gone \cup {e}
    BY <1>1, DeferGone
  <2> QED  BY <2>1, FS_AddElement
<1>2. CASE Flush(t) \/ Pools(t)
  BY <1>2 DEF Flush, Pools, Push, Pop, PutBack, Discount, history
<1>3. CASE Retires(t)
  BY <1>1, <1>3 DEF Retires, Drop, Grow
<1>4. ASSUME NEW e \in popped[t], Call(t, e) PROVE IsFiniteSet(gone')
  BY <1>1, <1>4 DEF Call
<1> QED  BY <1>2, <1>3, <1>4, Kinds DEF items

\* A step that neither flushes nor moves what is counted.
LEMMA Count_Retires ==
  ASSUME HInv, PlacesOK, CountOK, NEW t \in Threads, Step(t), NEW N, N \cap gone = {},
         pc[t].at # "push", pc'[t].at # "push", UNCHANGED <<retireds, garbage>>, gone' = gone \cup N,
         \A u \in Threads \ {t} : retired'[u] = retired[u],
         \A u \in Threads : popped'[u] \cup called'[u] = popped[u] \cup called[u]
  PROVE  CountOK'
<1>1. SInv /\ GoneOK
  BY DEF HInv
<1>2. \A e \in gone : Counted(e)' <=> Counted(e)
  BY <1>1, OthersPush DEF Counted
<1>3. \A e \in N : ~Counted(e)'
  <2> SUFFICES ASSUME NEW e \in N PROVE ~Counted(e)'
    OBVIOUS
  <2>1. e \notin retireds /\ \A u \in Threads : e \notin popped[u] \cup called[u] /\ e \notin retired[u]
    BY <1>1 DEF GoneOK, PlacesOK, CalledOK
  <2> QED  BY <1>1, <2>1, OthersPush DEF Counted
<1>4. InAll' = InAll
  BY <1>2, <1>3 DEF InAll
<1>5. IsFiniteSet(gone')
  BY <1>1, FiniteGone DEF CountOK
<1> QED  BY <1>4, <1>5, CountSame

LEMMA Count_Call ==
  ASSUME HInv, PlacesOK, CountOK, NEW t \in Threads, Step(t), NEW e \in popped[t], Call(t, e)
  PROVE  CountOK'
<1> DEFINE c == IF e \in Refs THEN Child[e] ELSE Null  N == {c} \ {Null}
<1>1. SInv /\ GoneOK /\ ThreadType
  BY DEF HInv, SInv, TypeOK
<1>2. ~Flush(t) /\ ~Push(t)
  BY DEF Call, Judging, Flush, Push
<1>3. pc[t].at # "push" /\ pc'[t].at # "push"
  BY <1>1, <1>2, PushFrom
<1>4. UNCHANGED <<retireds, garbage>>
  BY DEF Call, domain, pool
<1>5. popped' = [popped EXCEPT ![t] = @ \ {e}] /\ called' = [called EXCEPT ![t] = @ \cup {e}]
  BY DEF Call
<1>6. \A u \in Threads : popped'[u] \cup called'[u] = popped[u] \cup called[u]
  BY <1>1, <1>5 DEF ThreadType
<1>7. gone' = gone \cup N /\ \A u \in Threads \ {t} : retired'[u] = retired[u]
  <2>1. CASE c = Null
    BY <2>1 DEF Call, batch
  <2>2. CASE c # Null
    <3>1. Defer(t, c, [at |-> "judge"])
      BY <2>2 DEF Call
    <3> QED  BY <1>1, <2>2, <3>1, DeferGone
  <2> QED  BY <2>1, <2>2
<1>8. N \cap gone = {}
  BY <1>1, NewEntry
<1> HIDE DEF N
<1> QED  BY <1>3, <1>4, <1>6, <1>7, <1>8, Count_Retires

LEMMA Count_Grows ==
  ASSUME HInv, PlacesOK, CountOK, NEW t \in Threads, Step(t), Retires(t) PROVE CountOK'
<1>1. SInv /\ GoneOK
  BY DEF HInv
<1>2. ASSUME NEW e, NEW p, Defer(t, e, p), e \notin gone, UNCHANGED <<retireds, garbage, popped, called>>,
             ~Flush(t), ~Push(t)
      PROVE  CountOK'
  <2> DEFINE N == {e}
  <2>1. gone' = gone \cup N /\ \A u \in Threads \ {t} : retired'[u] = retired[u]
    BY <1>1, <1>2, DeferGone
  <2>2. pc[t].at # "push" /\ pc'[t].at # "push"
    BY <1>1, <1>2, PushFrom
  <2>3. N \cap gone = {}
    BY <1>2
  <2> HIDE DEF N
  <2> QED  BY <1>2, <2>1, <2>2, <2>3, Count_Retires
<1>3. ASSUME NEW o \in Roots, Drop(t, o) PROVE CountOK'
  <2>1. Defer(t, o, Idle) /\ o \notin gone /\ UNCHANGED <<retireds, garbage, popped, called>>
    BY <1>3 DEF Drop, domain, pool, recl, judging
  <2>2. ~Flush(t) /\ ~Push(t)
    BY <1>3 DEF Drop, Flush, Push, Ready, Idle
  <2> QED  BY <1>1, <1>2, <1>3, <2>1, <2>2, NewEntry
<1>4. ASSUME NEW p, rec[t] # 0, Grow(t, p) PROVE CountOK'
  <2>1. PICK q : Defer(t, Addr(rec[t], Last(rec[t])), q)
    BY <1>4 DEF Grow
  <2>2. UNCHANGED <<retireds, garbage, popped, called>> /\ gone' = gone \cup {Addr(rec[t], Last(rec[t]))}
    BY <1>1, <1>4, <2>1, DeferGone DEF Grow, pool, recl, judging
  <2>3. Addr(rec[t], Last(rec[t])) \notin gone
    BY <1>1, <1>4, NewEntry
  <2>4. ~Flush(t) /\ ~Push(t)
    BY <2>2, <2>3 DEF Flush, Push, history
  <2> QED  BY <1>2, <2>1, <2>2, <2>3, <2>4
<1> QED  BY <1>3, <1>4 DEF Retires

\* A flush counts a batch, none of which was counted before.
LEMMA Count_Flush ==
  ASSUME HInv, PlacesOK, CountOK, NEW t \in Threads, Step(t), Flush(t) PROVE CountOK'
<1>1. SInv /\ GoneOK /\ IsFiniteSet(gone) /\ pc \in [Threads -> PCs]
  BY DEF HInv, SInv, TypeOK, CountOK
<1>2. /\ garbage' = garbage + Cardinality(retired[t]) /\ pc[t].at = "flush" /\ pc'[t].at = "push"
      /\ UNCHANGED items
  BY <1>1 DEF Flush, Goto, items, batch, recl, judging, history
<1>3. \A u \in Threads \ {t} : pc'[u] = pc[u]
  BY <1>1, OthersPush
<1>4. \A e \in gone : Counted(e)' <=> Counted(e) \/ e \in retired[t]
  BY <1>2, <1>3 DEF Counted, items
<1>5. \A e \in retired[t] : e \in gone /\ ~Counted(e)
  <2> SUFFICES ASSUME NEW e \in retired[t] PROVE e \in gone /\ ~Counted(e)
    OBVIOUS
  <2>1. e \in gone /\ In(e, t, "retired")
    BY <1>1 DEF GoneOK, In
  <2>2. e \notin retireds /\ \A u \in Threads : \A s \in Spots : In(e, u, s) => u = t /\ s = "retired"
    BY <2>1 DEF PlacesOK, ApartOK, Spots
  <2>3. \A u \in Threads : e \notin popped[u] \cup called[u] /\ (e \in retired[u] => u = t)
    BY <2>2 DEF In, Spots
  <2> QED  BY <1>2, <2>1, <2>2, <2>3 DEF Counted
<1>6. InAll' = InAll \cup retired[t] /\ InAll \cap retired[t] = {}
  BY <1>2, <1>4, <1>5 DEF InAll, items
<1>7. InAll \in SUBSET gone /\ retired[t] \in SUBSET gone
  BY <1>5 DEF InAll
<1>8. IsFiniteSet(InAll) /\ IsFiniteSet(retired[t])
  BY <1>1, <1>7, FS_Subset
<1>9. Cardinality(InAll \cup retired[t]) = Cardinality(InAll) + Cardinality(retired[t])
  <2>1. Cardinality(InAll \cap retired[t]) = 0
    BY <1>6, FS_EmptySet
  <2>2. Cardinality(InAll) \in Nat /\ Cardinality(retired[t]) \in Nat
    BY <1>8, FS_CardinalityType
  <2>3. Cardinality(InAll \cup retired[t])
          = Cardinality(InAll) + Cardinality(retired[t]) - Cardinality(InAll \cap retired[t])
    BY <1>8, FS_Union
  <2> QED  BY <2>1, <2>2, <2>3
<1>10. garbage' = Cardinality(InAll')
  BY <1>2, <1>6, <1>9 DEF CountOK, GarbageExact, InAll
<1> QED  BY <1>1, <1>2, <1>10 DEF CountOK, GarbageExact, InAll, items

\* After the judgement the entries that were called are not counted any more.
LEMMA Count_Discount ==
  ASSUME HInv, PlacesOK, CountOK, NEW t \in Threads, Step(t), Discount(t) PROVE CountOK'
<1>1. SInv /\ GoneOK /\ IsFiniteSet(gone) /\ ThreadType
  BY DEF HInv, SInv, TypeOK, CountOK
<1>2. /\ garbage' = garbage - Cardinality(called[t]) /\ called' = [called EXCEPT ![t] = {}]
      /\ UNCHANGED <<retireds, retired, popped, gone, freed>>
  BY DEF Discount, batch, history
<1>3. pc[t].at # "push" /\ pc'[t].at # "push"
  <2>1. ~Flush(t) /\ ~Push(t)
    BY DEF Discount, Judging, Flush, Push
  <2> QED  BY <1>1, <2>1, PushFrom
<1>4. \A u \in Threads \ {t} : pc'[u] = pc[u]
  BY <1>1, OthersPush
<1>5. called'[t] = {} /\ \A u \in Threads \ {t} : called'[u] = called[u]
  BY <1>1, <1>2 DEF ThreadType
<1>6. ASSUME NEW e \in gone PROVE Counted(e)' <=> Counted(e) /\ e \notin called[t]
  <2>1. CASE e \in called[t]
    <3>1. In(e, t, "called") /\ e \in freed
      BY <2>1 DEF In, PlacesOK, ApartOK
    <3>2. e \notin retireds /\ \A u \in Threads : \A s \in Spots : In(e, u, s) => u = t /\ s = "called"
      BY <3>1 DEF PlacesOK, ApartOK, Spots
    <3>3. \A u \in Threads : e \notin popped[u] /\ e \notin retired[u] /\ (e \in called[u] => u = t)
      BY <3>2 DEF In, Spots
    <3> QED  BY <1>2, <1>5, <2>1, <3>2, <3>3 DEF Counted
  <2>2. CASE e \notin called[t]
    BY <1>2, <1>3, <1>4, <1>5, <2>2 DEF Counted
  <2> QED  BY <2>1, <2>2
<1>7. called[t] \in SUBSET InAll
  BY DEF PlacesOK, CalledOK, InAll, Counted
<1>8. InAll' = InAll \ called[t] /\ InAll \cap called[t] = called[t]
  BY <1>2, <1>6, <1>7 DEF InAll
<1>9. IsFiniteSet(InAll)
  <2>1. InAll \in SUBSET gone
    BY DEF InAll
  <2> QED  BY <1>1, <2>1, FS_Subset
<1>10. garbage' = Cardinality(InAll')
  BY <1>2, <1>8, <1>9, FS_Difference DEF CountOK, GarbageExact, InAll
<1> QED  BY <1>1, <1>2, <1>10 DEF CountOK, GarbageExact, InAll

\* Moving between the domain and a thread changes no count.
LEMMA Count_Moves ==
  ASSUME HInv, PlacesOK, CountOK, NEW t \in Threads, Step(t), Push(t) \/ Pop(t) \/ PutBack(t)
  PROVE  CountOK'
<1>1. SInv /\ GoneOK /\ IsFiniteSet(gone) /\ ThreadType /\ ControlAt(t)
  BY DEF HInv, SInv, TypeOK, CountOK, ControlOK
<1>2. UNCHANGED <<gone, garbage, called>>
  BY DEF Push, Pop, PutBack, history, judging
<1>3. \A u \in Threads \ {t} : pc'[u] = pc[u]
  BY <1>1, OthersPush
<1>4. CASE Push(t)
  <2>1. /\ retireds' = retireds \cup retired[t] /\ retired' = [retired EXCEPT ![t] = {}]
        /\ popped' = popped /\ pc[t].at = "push"
    BY <1>4 DEF Push, judging
  <2>2. retired'[t] = {} /\ \A u \in Threads \ {t} : retired'[u] = retired[u]
    BY <1>1, <2>1 DEF ThreadType
  <2>3. \A e \in gone : Counted(e)' <=> Counted(e)
    BY <1>2, <1>3, <2>1, <2>2 DEF Counted
  <2>4. InAll' = InAll
    BY <1>2, <2>3 DEF InAll
  <2> QED  BY <1>1, <1>2, <2>4, CountSame
<1>5. CASE Pop(t) \/ PutBack(t)
  <2>1. retired' = retired
    BY <1>5 DEF Pop, PutBack, batch
  <2>2. pc[t].at # "push" /\ pc'[t].at # "push"
    <3>1. ~Flush(t) /\ ~Push(t)
      BY <1>5 DEF Pop, PutBack, Flush, Push
    <3> QED  BY <1>1, <3>1, PushFrom
  <2>3. \A e : /\ e \in retireds' \cup popped'[t] <=> e \in retireds \cup popped[t]
               /\ \A u \in Threads \ {t} : popped'[u] = popped[u]
    <3>1. CASE Pop(t)
      <4>1. popped[t] = {}
        BY <1>1, <3>1 DEF Pop, ControlAt, Base, Inner
      <4>2. retireds' = {} /\ popped' = [popped EXCEPT ![t] = retireds]
        BY <3>1 DEF Pop
      <4> QED  BY <1>1, <4>1, <4>2 DEF ThreadType
    <3>2. CASE PutBack(t)
      <4>1. retireds' = retireds \cup popped[t] /\ popped' = [popped EXCEPT ![t] = {}]
        BY <3>2 DEF PutBack
      <4> QED  BY <1>1, <4>1 DEF ThreadType
    <3> QED  BY <1>5, <3>1, <3>2
  <2>4. \A e \in gone : Counted(e)' <=> Counted(e)
    BY <1>2, <1>3, <2>1, <2>2, <2>3 DEF Counted
  <2>5. InAll' = InAll
    BY <1>2, <2>4 DEF InAll
  <2> QED  BY <1>1, <1>2, <2>5, CountSame
<1> QED  BY <1>4, <1>5

LEMMA Count_Step == ASSUME HInv, PlacesOK, CountOK, NEW t \in Threads, Step(t) PROVE CountOK'
<1>1. SInv
  BY DEF HInv
<1>2. CASE UNCHANGED <<items, garbage>> /\ ~Flush(t) /\ ~Push(t)
  <2>1. pc[t].at # "push" /\ pc'[t].at # "push" /\ \A u \in Threads \ {t} : pc'[u] = pc[u]
    BY <1>1, <1>2, PushFrom, OthersPush
  <2>2. \A e \in gone : Counted(e)' <=> Counted(e)
    BY <1>2, <2>1 DEF Counted, items
  <2>3. InAll' = InAll
    BY <1>2, <2>2 DEF InAll, items
  <2> QED  BY <1>2, <2>3, CountSame DEF CountOK, items
<1> QED  BY <1>1, <1>2, Kinds, Count_Grows, Count_Call, Count_Flush, Count_Discount, Count_Moves DEF Pools

-------------------------------------------------------------------------------
(* The theorems. *)

LEMMA OInv_Init == Init => OInv
<1> SUFFICES ASSUME Init PROVE OInv
  OBVIOUS
<1>1. HInv
  BY HInv_Init
<1>2. gone = {} /\ garbage = 0 /\ called = [t \in Threads |-> {}]
  BY DEF Init
<1>3. PlacesOK
  BY <1>2 DEF PlacesOK, ApartOK, KeptOK, ParentOK, CalledOK
<1>4. CountOK
  BY <1>2, FS_EmptySet DEF CountOK, GarbageExact
<1> QED  BY <1>1, <1>3, <1>4 DEF OInv

LEMMA OInv_Stutter == ASSUME OInv, UNCHANGED vars PROVE OInv'
<1> USE DEF vars, env, records, pool, domain, slot, batch, loop, judging, recl, history
<1>1. HInv'
  BY HInv_Stutter DEF OInv
<1>2. PlacesOK'
  BY Unmoved DEF OInv, items
<1>3. CountOK'
  BY DEF OInv, CountOK, GarbageExact, Counted
<1> QED  BY <1>1, <1>2, <1>3 DEF OInv

LEMMA OInv_Always == Spec => []OInv
<1>1. OInv /\ [Next]_vars => OInv'
  BY HInv_Step, Places_Step, Count_Step, OInv_Stutter DEF OInv, Next
<1> QED  BY OInv_Init, <1>1, PTL DEF Spec

\* An entry is in one place until it is called, and in none after
\* that: growing, an exit, and a reclamation within another neither lose it nor
\* call it twice.
THEOREM OncePerEntry == Spec => []EachOnce
<1>1. OInv => EachOnce
  <2> SUFFICES ASSUME OInv, NEW e \in gone
               PROVE  (IF e \in retireds THEN 1 ELSE 0)
                      + Cardinality({t \in Threads : e \in retired[t]})
                      + Cardinality({t \in Threads : e \in popped[t]}) = IF e \in freed THEN 0 ELSE 1
    BY DEF EachOnce
  <2> DEFINE R == {t \in Threads : e \in retired[t]}  P == {t \in Threads : e \in popped[t]}
  <2>1. /\ \A t, u \in Threads : \A r, s \in Spots : In(e, t, r) /\ In(e, u, s) => t = u /\ r = s
        /\ e \in retireds => e \notin freed /\ \A t \in Threads : \A s \in Spots : ~In(e, t, s)
        /\ \A t \in Threads : In(e, t, "retired") \/ In(e, t, "popped") => e \notin freed
        /\ e \notin freed => e \in retireds \/ \E t \in Threads : In(e, t, "retired") \/ In(e, t, "popped")
    BY DEF OInv, PlacesOK, ApartOK, KeptOK
  <2>2. \A t \in Threads : (In(e, t, "retired") <=> t \in R) /\ (In(e, t, "popped") <=> t \in P)
    BY DEF In
  <2>3. (R = {} \/ \E t : R = {t}) /\ (P = {} \/ \E t : P = {t})
    BY <2>1, <2>2 DEF Spots
  <2>4. /\ R # {} => P = {}
        /\ e \in retireds \/ e \in freed => R = {} /\ P = {}
        /\ e \notin freed => e \in retireds \/ R # {} \/ P # {}
    BY <2>1, <2>2 DEF Spots
  <2> HIDE DEF R, P
  <2>5. (R = {} /\ Cardinality(R) = 0) \/ (R # {} /\ Cardinality(R) = 1)
    BY <2>3, FS_EmptySet, FS_Singleton
  <2>6. (P = {} /\ Cardinality(P) = 0) \/ (P # {} /\ Cardinality(P) = 1)
    BY <2>3, FS_EmptySet, FS_Singleton
  <2>7. ~(e \in retireds /\ e \in freed)
    BY <2>1
  <2>8. (IF e \in retireds THEN 1 ELSE 0) + Cardinality(R) + Cardinality(P) = IF e \in freed THEN 0 ELSE 1
    BY <2>4, <2>5, <2>6, <2>7
  <2> QED  BY <2>8 DEF R, P
<1> QED  BY <1>1, OInv_Always, PTL

\* num_garbages is the number of entries that were flushed and not called, with
\* the batches under way: so it does not wrap below zero.
THEOREM GarbageCounted == Spec => [](GarbageExact /\ garbage \in Nat)
<1>1. OInv => GarbageExact /\ garbage \in Nat
  <2> SUFFICES ASSUME OInv PROVE GarbageExact /\ garbage \in Nat
    OBVIOUS
  <2>1. IsFiniteSet(gone) /\ GarbageExact /\ InAll \in SUBSET gone
    BY DEF OInv, CountOK, InAll
  <2>2. Cardinality(InAll) \in Nat
    BY <2>1, FS_Subset, FS_CardinalityType
  <2> QED  BY <2>1, <2>2 DEF GarbageExact, InAll
<1> QED  BY <1>1, OInv_Always, PTL
====
