----------------------------- MODULE CDRC_proofs ------------------------------
(***************************************************************************)
(* The counts of the objects, for any number of threads, objects, cells    *)
(* and snapshots: every count is exact, no value is dropped while an Rc, an *)
(* AtomicRc or a usable Snapshot points to it, and nothing leaks.          *)
(***************************************************************************)
EXTENDS CDRC, Integers, FiniteSetTheorems, TLAPS

-------------------------------------------------------------------------------
(* Bags of retired work. *)

Work == Kinds \cup {"dispose"}
GoodBag(B) == IsABag(B) /\ BagToSet(B) \subseteq Entries

\* An entry is work of kind k on o that waits for none of V; how many there are.
Matches(e, k, o, V) == e.o = o /\ e.k = k /\ e.wait \cap V = {}
LooseIn(B, k, o, V) == {x \in Copies(B) : Matches(x[1], k, o, V)}
CountIn(B, k, o, V) == Cardinality(LooseIn(B, k, o, V))

LEMMA GuardSets ==
  \A S : S \subseteq Guards => /\ IsFiniteSet(S) /\ Cardinality(S) \in Nat
                               /\ Cardinality(S) <= Cardinality(Guards)
<1>1. IsFiniteSet(Threads \X Snaps)
  BY FiniteAssumption, FS_Product
<1>2. IsFiniteSet(Guards)
  BY <1>1, FiniteAssumption, FS_Union DEF Guards
<1> QED  BY <1>2, FS_Subset, FS_CardinalityType

LEMMA EntriesFinite == IsFiniteSet(Entries)
<1> DEFINE S == (Objs \X Work) \X SUBSET Guards
           f == [x \in S |-> [o |-> x[1][1], k |-> x[1][2], wait |-> x[2]]]
<1>1. IsFiniteSet(Work)
  <2>1. Work = {"strong"} \cup {"weak"} \cup {"dispose"}
    BY DEF Work, Kinds
  <2> QED  BY <2>1, FS_Singleton, FS_Union
<1>2. IsFiniteSet(Objs \X Work)
  BY <1>1, FiniteAssumption, FS_Product
<1>3. IsFiniteSet(SUBSET Guards)
  BY GuardSets, FS_SUBSET
<1>4. IsFiniteSet(S)
  BY <1>2, <1>3, FS_Product
<1>5. f \in Surjection(S, Entries)
  <2>1. f \in [S -> Entries]
    BY DEF Entries, Work
  <2>2. ASSUME NEW e \in Entries PROVE \E x \in S : f[x] = e
    <3>1. <<<<e.o, e.k>>, e.wait>> \in S
      BY DEF Entries, Work
    <3>2. f[<<<<e.o, e.k>>, e.wait>>] = e
      BY <3>1 DEF Entries
    <3> QED  BY <3>1, <3>2
  <2> QED  BY <2>1, <2>2 DEF Surjection
<1> QED  BY <1>4, <1>5, FS_Surjection

LEMMA CopiesMember ==
  ASSUME NEW B
  PROVE  /\ \A x \in Copies(B) : x = <<x[1], x[2]>> /\ x[1] \in DOMAIN B /\ x[2] \in 1 .. B[x[1]]
         /\ \A e \in DOMAIN B : \A i \in 1 .. B[e] : <<e, i>> \in Copies(B)
<1>1. ASSUME NEW x \in Copies(B)
      PROVE  x = <<x[1], x[2]>> /\ x[1] \in DOMAIN B /\ x[2] \in 1 .. B[x[1]]
  <2>1. PICK e \in DOMAIN B : x \in {e} \X (1 .. B[e])
    BY DEF Copies, BagToSet
  <2> QED  BY <2>1
<1>2. ASSUME NEW e \in DOMAIN B, NEW i \in 1 .. B[e] PROVE <<e, i>> \in Copies(B)
  <2>1. <<e, i>> \in {e} \X (1 .. B[e])
    OBVIOUS
  <2> QED  BY <2>1 DEF Copies, BagToSet
<1> QED  BY <1>1, <1>2

LEMMA CopiesFinite == ASSUME NEW B, GoodBag(B) PROVE IsFiniteSet(Copies(B))
<1> DEFINE f == [e \in DOMAIN B |-> {e} \X (1 .. B[e])]
           S == {{e} \X (1 .. B[e]) : e \in DOMAIN B}
<1>1. IsFiniteSet(DOMAIN B)
  BY EntriesFinite, FS_Subset DEF GoodBag, BagToSet
<1>2. f \in Surjection(DOMAIN B, S)
  BY DEF Surjection
<1>3. IsFiniteSet(S)
  BY <1>1, <1>2, FS_Surjection
<1>4. ASSUME NEW T \in S PROVE IsFiniteSet(T)
  <2>1. PICK e \in DOMAIN B : T = {e} \X (1 .. B[e])
    OBVIOUS
  <2>2. B[e] \in Int /\ 1 \in Int
    BY DEF GoodBag, IsABag
  <2>3. IsFiniteSet({e}) /\ IsFiniteSet(1 .. B[e])
    BY <2>2, FS_Singleton, FS_Interval
  <2> QED  BY <2>1, <2>3, FS_Product
<1>5. IsFiniteSet(UNION S)
  BY <1>3, <1>4, FS_UNION
<1> QED  BY <1>5 DEF Copies, BagToSet

LEMMA LooseFinite ==
  ASSUME NEW B, GoodBag(B)
  PROVE  \A k, o, V : IsFiniteSet(LooseIn(B, k, o, V)) /\ CountIn(B, k, o, V) \in Nat
<1>1. ASSUME NEW k, NEW o, NEW V
      PROVE  IsFiniteSet(LooseIn(B, k, o, V)) /\ CountIn(B, k, o, V) \in Nat
  <2>1. LooseIn(B, k, o, V) \subseteq Copies(B)
    BY DEF LooseIn
  <2>2. IsFiniteSet(LooseIn(B, k, o, V))
    BY <2>1, CopiesFinite, FS_Subset
  <2> QED  BY <2>2, FS_CardinalityType DEF CountIn
<1> QED  BY <1>1

\* More guards to wait for leave fewer entries that wait for none of them.
LEMMA LooseShrinks ==
  ASSUME NEW B, GoodBag(B), NEW k, NEW o, NEW V, NEW W, V \subseteq W
  PROVE  CountIn(B, k, o, W) <= CountIn(B, k, o, V)
<1>1. LooseIn(B, k, o, W) \subseteq LooseIn(B, k, o, V)
  BY DEF LooseIn, Matches
<1>2. IsFiniteSet(LooseIn(B, k, o, V))
  BY LooseFinite
<1> QED  BY <1>1, <1>2, FS_Subset DEF CountIn

\* An entry that is there is counted.
LEMMA LooseOne ==
  ASSUME NEW B, GoodBag(B), NEW e \in DOMAIN B, NEW k, NEW o, NEW V, Matches(e, k, o, V)
  PROVE  CountIn(B, k, o, V) >= 1
<1>1. B[e] \in Nat /\ 1 \in 1 .. B[e]
  BY DEF GoodBag, IsABag
<1>2. <<e, 1>> \in LooseIn(B, k, o, V)
  BY <1>1, CopiesMember DEF LooseIn
<1>3. IsFiniteSet(LooseIn(B, k, o, V)) /\ CountIn(B, k, o, V) \in Nat
  BY LooseFinite
<1>4. CountIn(B, k, o, V) # 0
  BY <1>2, <1>3, FS_EmptySet DEF CountIn
<1> QED  BY <1>3, <1>4

\* One that is counted is there.
LEMMA LooseNone ==
  ASSUME NEW B, GoodBag(B), NEW k, NEW o, NEW V, CountIn(B, k, o, V) = 0
  PROVE  \A e \in DOMAIN B : ~Matches(e, k, o, V)
<1>1. ASSUME NEW e \in DOMAIN B, Matches(e, k, o, V) PROVE FALSE
  BY <1>1, LooseOne, LooseFinite
<1> QED  BY <1>1

LEMMA AddCount ==
  ASSUME NEW B, GoodBag(B), NEW e \in Entries
  PROVE  /\ GoodBag(BagAdd(B, e)) /\ DOMAIN BagAdd(B, e) = DOMAIN B \cup {e}
         /\ \A k, o, V : CountIn(BagAdd(B, e), k, o, V)
                           = CountIn(B, k, o, V) + IF Matches(e, k, o, V) THEN 1 ELSE 0
<1> DEFINE C == BagAdd(B, e)
           n == IF e \in DOMAIN B THEN B[e] + 1 ELSE 1
<1>1. DOMAIN C = DOMAIN B \cup {e}
  BY DEF BagAdd
<1>2. C[e] = n /\ \A d \in DOMAIN B : d # e => C[d] = B[d]
  BY DEF BagAdd
<1>3. B \in [DOMAIN B -> {i \in Nat : i > 0}] /\ DOMAIN B \subseteq Entries
  BY DEF GoodBag, IsABag, BagToSet
<1>4. n \in Nat /\ n > 0 /\ (e \in DOMAIN B => n = B[e] + 1) /\ (e \notin DOMAIN B => n = 1)
  BY <1>3
<1>5. GoodBag(C)
  <2>1. C = [d \in DOMAIN C |-> C[d]]
    BY DEF BagAdd
  <2>2. \A d \in DOMAIN C : C[d] \in {i \in Nat : i > 0}
    BY <1>1, <1>2, <1>3, <1>4
  <2> HIDE DEF C
  <2>3. C \in [DOMAIN C -> {i \in Nat : i > 0}]
    BY <2>1, <2>2
  <2> QED  BY <1>1, <1>3, <2>3 DEF GoodBag, IsABag, BagToSet
<1> HIDE DEF C, n
<1>6. Copies(C) = Copies(B) \cup {<<e, n>>} /\ <<e, n>> \notin Copies(B)
  <2>1. ASSUME NEW x \in Copies(C) PROVE x \in Copies(B) \cup {<<e, n>>}
    <3>1. x = <<x[1], x[2]>> /\ x[1] \in DOMAIN C /\ x[2] \in 1 .. C[x[1]]
      BY CopiesMember
    <3>2. CASE x[1] # e
      <4>1. x[1] \in DOMAIN B /\ x[2] \in 1 .. B[x[1]]
        BY <1>1, <1>2, <3>1, <3>2
      <4> QED  BY <3>1, <4>1, CopiesMember
    <3>3. CASE x[1] = e
      <4>1. x[2] \in 1 .. n
        BY <1>2, <3>1, <3>3
      <4>2. CASE x[2] = n
        BY <3>1, <3>3, <4>2
      <4>3. CASE x[2] # n
        <5>1. e \in DOMAIN B /\ x[2] \in 1 .. B[e]
          BY <1>3, <1>4, <4>1, <4>3
        <5> QED  BY <3>1, <3>3, <5>1, CopiesMember
      <4> QED  BY <4>2, <4>3
    <3> QED  BY <3>2, <3>3
  <2>2. ASSUME NEW x \in Copies(B) PROVE x \in Copies(C)
    <3>1. x = <<x[1], x[2]>> /\ x[1] \in DOMAIN B /\ x[2] \in 1 .. B[x[1]]
      BY CopiesMember
    <3>2. x[1] \in DOMAIN C /\ x[2] \in 1 .. C[x[1]]
      BY <1>1, <1>2, <1>3, <1>4, <3>1
    <3> QED  BY <3>1, <3>2, CopiesMember
  <2>3. <<e, n>> \in Copies(C)
    <3>1. e \in DOMAIN C /\ n \in 1 .. C[e]
      BY <1>1, <1>2, <1>4
    <3> QED  BY <3>1, CopiesMember
  <2>4. <<e, n>> \notin Copies(B)
    <3>1. <<e, n>>[1] = e /\ <<e, n>>[2] = n
      OBVIOUS
    <3>2. ASSUME <<e, n>> \in Copies(B) PROVE e \in DOMAIN B /\ n \in 1 .. B[e]
      BY <3>1, <3>2, CopiesMember
    <3> QED  BY <1>3, <1>4, <3>2
  <2> QED  BY <2>1, <2>2, <2>3, <2>4
<1>7. ASSUME NEW k, NEW o, NEW V
      PROVE  CountIn(C, k, o, V) = CountIn(B, k, o, V) + IF Matches(e, k, o, V) THEN 1 ELSE 0
  <2>1. IsFiniteSet(LooseIn(B, k, o, V)) /\ CountIn(B, k, o, V) \in Nat
    BY LooseFinite
  <2>2. <<e, n>>[1] = e
    OBVIOUS
  <2>3. CASE Matches(e, k, o, V)
    <3>1. LooseIn(C, k, o, V) = LooseIn(B, k, o, V) \cup {<<e, n>>} /\ <<e, n>> \notin LooseIn(B, k, o, V)
      BY <1>6, <2>2, <2>3 DEF LooseIn
    <3> QED  BY <2>1, <2>3, <3>1, FS_AddElement DEF CountIn
  <2>4. CASE ~Matches(e, k, o, V)
    <3>1. LooseIn(C, k, o, V) = LooseIn(B, k, o, V)
      BY <1>6, <2>2, <2>4 DEF LooseIn
    <3> QED  BY <2>1, <2>4, <3>1 DEF CountIn
  <2> QED  BY <2>3, <2>4
<1> QED  BY <1>1, <1>5, <1>7 DEF C

LEMMA RemoveCount ==
  ASSUME NEW B, GoodBag(B), NEW e \in DOMAIN B
  PROVE  /\ GoodBag(BagRemove(B, e)) /\ DOMAIN BagRemove(B, e) \subseteq DOMAIN B
         /\ \A k, o, V : CountIn(BagRemove(B, e), k, o, V)
                           = CountIn(B, k, o, V) - IF Matches(e, k, o, V) THEN 1 ELSE 0
<1> DEFINE C == BagRemove(B, e)
           n == B[e]
<1>1. B \in [DOMAIN B -> {i \in Nat : i > 0}] /\ DOMAIN B \subseteq Entries
  BY DEF GoodBag, IsABag, BagToSet
<1>2. n \in Nat /\ n > 0
  BY <1>1
<1>3. DOMAIN C = IF n = 1 THEN DOMAIN B \ {e} ELSE DOMAIN B
  BY DEF BagRemove
<1>4. (n # 1 => C[e] = n - 1) /\ \A d \in DOMAIN B : d # e => C[d] = B[d]
  BY DEF BagRemove
<1>5. GoodBag(C)
  <2>1. C = [d \in DOMAIN C |-> C[d]]
    BY DEF BagRemove
  <2>2. \A d \in DOMAIN C : C[d] \in {i \in Nat : i > 0}
    BY <1>1, <1>2, <1>3, <1>4
  <2> HIDE DEF C
  <2>3. C \in [DOMAIN C -> {i \in Nat : i > 0}]
    BY <2>1, <2>2
  <2>4. DOMAIN C \subseteq Entries
    BY <1>1, <1>3
  <2> QED  BY <2>3, <2>4 DEF GoodBag, IsABag, BagToSet
<1> HIDE DEF C, n
<1>6. Copies(B) = Copies(C) \cup {<<e, n>>} /\ <<e, n>> \notin Copies(C)
  <2>1. ASSUME NEW x \in Copies(B) PROVE x \in Copies(C) \cup {<<e, n>>}
    <3>1. x = <<x[1], x[2]>> /\ x[1] \in DOMAIN B /\ x[2] \in 1 .. B[x[1]]
      BY CopiesMember
    <3>2. CASE x[1] # e
      <4>1. x[1] \in DOMAIN C /\ x[2] \in 1 .. C[x[1]]
        BY <1>3, <1>4, <3>1, <3>2
      <4> QED  BY <3>1, <4>1, CopiesMember
    <3>3. CASE x[1] = e
      <4>1. x[2] \in 1 .. n
        BY <3>1, <3>3 DEF n
      <4>2. CASE x[2] = n
        BY <3>1, <3>3, <4>2
      <4>3. CASE x[2] # n
        <5>1. e \in DOMAIN C /\ x[2] \in 1 .. C[e]
          BY <1>2, <1>3, <1>4, <4>1, <4>3
        <5> QED  BY <3>1, <3>3, <5>1, CopiesMember
      <4> QED  BY <4>2, <4>3
    <3> QED  BY <3>2, <3>3
  <2>2. ASSUME NEW x \in Copies(C) PROVE x \in Copies(B)
    <3>1. x = <<x[1], x[2]>> /\ x[1] \in DOMAIN C /\ x[2] \in 1 .. C[x[1]]
      BY CopiesMember
    <3>2. x[1] \in DOMAIN B /\ x[2] \in 1 .. B[x[1]]
      <4>1. CASE x[1] # e
        BY <1>3, <1>4, <3>1, <4>1
      <4>2. CASE x[1] = e
        BY <1>2, <1>3, <1>4, <3>1, <4>2 DEF n
      <4> QED  BY <4>1, <4>2
    <3> QED  BY <3>1, <3>2, CopiesMember
  <2>3. <<e, n>> \in Copies(B)
    <3>1. n \in 1 .. B[e]
      BY <1>2 DEF n
    <3> QED  BY <3>1, CopiesMember
  <2>4. <<e, n>> \notin Copies(C)
    <3>1. <<e, n>>[1] = e /\ <<e, n>>[2] = n
      OBVIOUS
    <3>2. ASSUME <<e, n>> \in Copies(C) PROVE e \in DOMAIN C /\ n \in 1 .. C[e]
      BY <3>1, <3>2, CopiesMember
    <3> QED  BY <1>2, <1>3, <1>4, <3>2
  <2> QED  BY <2>1, <2>2, <2>3, <2>4
<1>7. ASSUME NEW k, NEW o, NEW V
      PROVE  CountIn(C, k, o, V) = CountIn(B, k, o, V) - IF Matches(e, k, o, V) THEN 1 ELSE 0
  <2>1. /\ IsFiniteSet(LooseIn(C, k, o, V)) /\ CountIn(C, k, o, V) \in Nat
        /\ IsFiniteSet(LooseIn(B, k, o, V)) /\ CountIn(B, k, o, V) \in Nat
    BY <1>5, LooseFinite
  <2>2. <<e, n>>[1] = e
    OBVIOUS
  <2>3. CASE Matches(e, k, o, V)
    <3>1. LooseIn(B, k, o, V) = LooseIn(C, k, o, V) \cup {<<e, n>>} /\ <<e, n>> \notin LooseIn(C, k, o, V)
      BY <1>6, <2>2, <2>3 DEF LooseIn
    <3>2. CountIn(B, k, o, V) = CountIn(C, k, o, V) + 1
      BY <2>1, <3>1, FS_AddElement DEF CountIn
    <3> QED  BY <2>1, <2>3, <3>2
  <2>4. CASE ~Matches(e, k, o, V)
    <3>1. LooseIn(C, k, o, V) = LooseIn(B, k, o, V)
      BY <1>6, <2>2, <2>4 DEF LooseIn
    <3> QED  BY <2>1, <2>4, <3>1 DEF CountIn
  <2> QED  BY <2>3, <2>4
<1>8. DOMAIN C \subseteq DOMAIN B
  BY <1>3
<1> QED  BY <1>5, <1>7, <1>8 DEF C

\* Nothing waits for t any more, and as much work waits for none of V as before.
LEMMA ForgetCount ==
  ASSUME NEW B, GoodBag(B), NEW t \in Guards
  PROVE  /\ GoodBag(Forget(t, B))
         /\ \A k, o, V : t \notin V => CountIn(Forget(t, B), k, o, V) = CountIn(B, k, o, V)
<1> DEFINE C == Forget(t, B)
           Less(e) == [e EXCEPT !.wait = @ \ {t}]
           More(e) == [e EXCEPT !.wait = @ \cup {t}]
<1>1. /\ B \in [DOMAIN B -> {i \in Nat : i > 0}] /\ DOMAIN B \subseteq Entries
      /\ \A e : Times(e, B) \in Nat
      /\ \A e \in DOMAIN B : Times(e, B) = B[e] /\ Times(e, B) > 0
      /\ \A e : e \notin DOMAIN B => Times(e, B) = 0
  BY DEF GoodBag, IsABag, BagToSet, Times, BagIn
<1>2. ASSUME NEW e \in Entries
      PROVE  /\ Less(e) \in Entries /\ More(e) \in Entries
             /\ t \notin Less(e).wait /\ t \in More(e).wait
             /\ t \in e.wait => e = More(Less(e))
             /\ t \notin e.wait => e = Less(e) /\ Less(More(e)) = e
             /\ \A k, o, V : t \notin V => (Matches(Less(e), k, o, V) <=> Matches(e, k, o, V))
             /\ \A k, o, V : t \notin V => (Matches(More(e), k, o, V) <=> Matches(e, k, o, V))
  <2>1. e = [o |-> e.o, k |-> e.k, wait |-> e.wait] /\ e.wait \subseteq Guards
    BY DEF Entries
  <2>11. \A x, y, w : /\ Less([o |-> x, k |-> y, wait |-> w]) = [o |-> x, k |-> y, wait |-> w \ {t}]
                     /\ More([o |-> x, k |-> y, wait |-> w]) = [o |-> x, k |-> y, wait |-> w \cup {t}]
    OBVIOUS
  <2>2. Less(e) = [o |-> e.o, k |-> e.k, wait |-> e.wait \ {t}]
    BY <2>1
  <2>3. More(e) = [o |-> e.o, k |-> e.k, wait |-> e.wait \cup {t}]
    BY <2>1
  <2> HIDE DEF Less, More
  <2>4. More(Less(e)) = [o |-> e.o, k |-> e.k, wait |-> (e.wait \ {t}) \cup {t}]
    BY <2>2, <2>11
  <2>5. Less(More(e)) = [o |-> e.o, k |-> e.k, wait |-> (e.wait \cup {t}) \ {t}]
    BY <2>3, <2>11
  <2>6. Less(e) \in Entries /\ More(e) \in Entries
    BY <2>2, <2>3 DEF Entries
  <2>7. t \in e.wait => e = More(Less(e))
    <3>1. t \in e.wait => (e.wait \ {t}) \cup {t} = e.wait
      OBVIOUS
    <3> QED  BY <2>1, <2>4, <3>1
  <2>8. t \notin e.wait => e = Less(e) /\ Less(More(e)) = e
    <3>1. t \notin e.wait => e.wait \ {t} = e.wait /\ (e.wait \cup {t}) \ {t} = e.wait
      OBVIOUS
    <3> QED  BY <2>1, <2>2, <2>5, <3>1
  <2>9. \A V : t \notin V => (e.wait \ {t}) \cap V = e.wait \cap V /\ (e.wait \cup {t}) \cap V = e.wait \cap V
    OBVIOUS
  <2> QED  BY <2>2, <2>3, <2>6, <2>7, <2>8, <2>9 DEF Matches
<1>3. DOMAIN C = {Less(d) : d \in DOMAIN B}
  BY DEF Forget, BagToSet
<1>4. \A r \in DOMAIN C : C[r] = Times(r, B) + Times(More(r), B)
  BY DEF Forget
<1>5. C = [r \in DOMAIN C |-> C[r]]
  BY DEF Forget
<1> HIDE DEF C, Less, More
<1>6. \A r \in DOMAIN C : r \in Entries /\ t \notin r.wait /\ C[r] \in Nat /\ C[r] > 0
  <2>1. SUFFICES ASSUME NEW r \in DOMAIN C
                 PROVE  r \in Entries /\ t \notin r.wait /\ C[r] \in Nat /\ C[r] > 0
    OBVIOUS
  <2>2. PICK d \in DOMAIN B : r = Less(d)
    BY <1>3
  <2>3. d \in Entries /\ r \in Entries /\ t \notin r.wait /\ (d = r \/ d = More(r))
    BY <1>1, <1>2, <2>2
  <2>4. Times(d, B) > 0 /\ Times(r, B) \in Nat /\ Times(More(r), B) \in Nat
    BY <1>1
  <2> QED  BY <1>4, <2>3, <2>4
<1>7. GoodBag(C)
  <2>1. C \in [DOMAIN C -> {i \in Nat : i > 0}]
    BY <1>5, <1>6
  <2>2. DOMAIN C \subseteq Entries
    BY <1>6
  <2> QED  BY <2>1, <2>2 DEF GoodBag, IsABag, BagToSet
<1>8. ASSUME NEW k, NEW o, NEW V, t \notin V
      PROVE  CountIn(C, k, o, V) = CountIn(B, k, o, V)
  <2> DEFINE S == LooseIn(B, k, o, V)
             T == LooseIn(C, k, o, V)
             Shift(e) == IF t \in e.wait THEN Times(Less(e), B) ELSE 0
             f == [x \in S |-> <<Less(x[1]), Shift(x[1]) + x[2]>>]
  <2>1. \A x \in S : /\ x = <<x[1], x[2]>> /\ x[1] \in DOMAIN B /\ x[1] \in Entries
                     /\ x[2] \in 1 .. B[x[1]] /\ Matches(x[1], k, o, V)
    BY <1>1, CopiesMember DEF LooseIn
  <2>2. \A x \in T : /\ x = <<x[1], x[2]>> /\ x[1] \in DOMAIN C
                     /\ x[2] \in 1 .. C[x[1]] /\ Matches(x[1], k, o, V)
    BY CopiesMember DEF LooseIn
  <2>3. \A e \in DOMAIN B, i \in Nat : i \in 1 .. B[e] /\ Matches(e, k, o, V) => <<e, i>> \in S
    BY CopiesMember DEF LooseIn
  <2>4. \A e \in DOMAIN C, i \in Nat : i \in 1 .. C[e] /\ Matches(e, k, o, V) => <<e, i>> \in T
    BY CopiesMember DEF LooseIn
  <2> HIDE DEF S, T
  <2>5. \A x \in S : /\ f[x][1] = Less(x[1]) /\ f[x][2] = Shift(x[1]) + x[2]
                     /\ f[x] = <<Less(x[1]), Shift(x[1]) + x[2]>>
    OBVIOUS
  <2>6. \A e \in Entries : Shift(e) \in Nat
    BY <1>1
  <2>7. f \in [S -> T]
    <3>1. SUFFICES ASSUME NEW x \in S PROVE <<Less(x[1]), Shift(x[1]) + x[2]>> \in T
      OBVIOUS
    <3> DEFINE e == x[1]
    <3>2. /\ e \in DOMAIN B /\ e \in Entries /\ x[2] \in Nat /\ 1 <= x[2] /\ x[2] <= B[e]
          /\ Matches(e, k, o, V) /\ B[e] \in Nat
      BY <1>1, <2>1
    <3> HIDE DEF e
    <3>3. Less(e) \in DOMAIN C /\ Matches(Less(e), k, o, V)
      BY <1>2, <1>3, <1>8, <3>2
    <3>4. C[Less(e)] = Times(Less(e), B) + Times(More(Less(e)), B)
      BY <1>4, <3>3
    <3>5. Shift(e) + x[2] \in 1 .. C[Less(e)]
      <4>1. CASE t \in e.wait
        <5>1. More(Less(e)) = e /\ Times(e, B) = B[e] /\ Times(Less(e), B) \in Nat
          BY <1>1, <1>2, <3>2, <4>1
        <5> QED  BY <3>2, <3>4, <4>1, <5>1
      <4>2. CASE t \notin e.wait
        <5>1. Less(e) = e /\ Times(e, B) = B[e] /\ Times(More(e), B) \in Nat
          BY <1>1, <1>2, <3>2, <4>2
        <5> QED  BY <3>2, <3>4, <4>2, <5>1
      <4> QED  BY <4>1, <4>2
    <3>6. Shift(e) + x[2] \in Nat
      BY <2>6, <3>2
    <3> QED  BY <2>4, <3>3, <3>5, <3>6 DEF e
  <2>8. ASSUME NEW x \in S, NEW y \in S, f[x] = f[y] PROVE x = y
    <3>1. Less(x[1]) = Less(y[1]) /\ Shift(x[1]) + x[2] = Shift(y[1]) + y[2]
      BY <2>5, <2>8
    <3> DEFINE d == x[1]
               e == y[1]
    <3>2. /\ d \in DOMAIN B /\ d \in Entries /\ x[2] \in Nat /\ 1 <= x[2] /\ x[2] <= B[d]
          /\ e \in DOMAIN B /\ e \in Entries /\ y[2] \in Nat /\ 1 <= y[2] /\ y[2] <= B[e]
          /\ B[d] \in Nat /\ B[e] \in Nat /\ x = <<d, x[2]>> /\ y = <<e, y[2]>>
      BY <1>1, <2>1
    <3>3. Less(d) = Less(e) /\ Shift(d) + x[2] = Shift(e) + y[2]
      BY <3>1
    <3> HIDE DEF d, e
    <3>4. ASSUME NEW a \in DOMAIN B, NEW b \in Entries, t \notin a.wait, t \in b.wait, Less(a) = Less(b)
          PROVE  Shift(b) = B[a] /\ Shift(a) = 0
      BY <1>1, <1>2, <3>4
    <3>5. CASE t \in d.wait <=> t \in e.wait
      <4>1. d = e
        BY <1>2, <3>2, <3>3, <3>5
      <4>2. Shift(d) \in Nat
        BY <2>6, <3>2
      <4> HIDE DEF Shift
      <4>3. x[2] = y[2]
        BY <3>2, <3>3, <4>1, <4>2
      <4> QED  BY <3>2, <4>1, <4>3
    <3>6. CASE t \notin d.wait /\ t \in e.wait
      <4>1. Shift(e) = B[d] /\ Shift(d) = 0
        BY <3>2, <3>3, <3>4, <3>6
      <4> HIDE DEF Shift
      <4> QED  BY <3>2, <3>3, <4>1
    <3>7. CASE t \in d.wait /\ t \notin e.wait
      <4>1. Shift(d) = B[e] /\ Shift(e) = 0
        BY <3>2, <3>3, <3>4, <3>7
      <4> HIDE DEF Shift
      <4> QED  BY <3>2, <3>3, <4>1
    <3> QED  BY <3>5, <3>6, <3>7
  <2>9. ASSUME NEW y \in T PROVE \E x \in S : f[x] = y
    <3> DEFINE r == y[1]
               j == y[2]
               q == Times(r, B)
               p == Times(More(r), B)
    <3>1. /\ y = <<r, j>> /\ r \in DOMAIN C /\ r \in Entries /\ t \notin r.wait
          /\ j \in 1 .. C[r] /\ Matches(r, k, o, V)
      BY <1>6, <2>2
    <3>2. C[r] = q + p /\ q \in Nat /\ p \in Nat /\ j \in Nat /\ 1 <= j /\ j <= q + p
      BY <1>1, <1>4, <3>1
    <3>3. /\ Less(r) = r /\ Less(More(r)) = r /\ t \in More(r).wait /\ More(r) \in Entries
          /\ Matches(More(r), k, o, V)
      BY <1>2, <1>8, <3>1
    <3> HIDE DEF r, j
    <3>4. CASE j <= q
      <4>1. r \in DOMAIN B /\ j \in 1 .. B[r]
        BY <1>1, <3>2, <3>4
      <4>2. <<r, j>> \in S
        BY <2>3, <3>1, <3>2, <4>1
      <4>3. f[<<r, j>>] = <<Less(r), Shift(r) + j>> /\ Shift(r) = 0
        BY <2>5, <3>1, <4>2
      <4>4. 0 + j = j
        BY <3>2
      <4>5. f[<<r, j>>] = y
        <5> HIDE DEF Shift, q, f
        <5> QED  BY <3>1, <3>3, <4>3, <4>4
      <4> QED  BY <4>2, <4>5
    <3>5. CASE ~ (j <= q)
      <4>1. More(r) \in DOMAIN B /\ B[More(r)] = p /\ j - q \in 1 .. p /\ j - q \in Nat
        BY <1>1, <3>2, <3>5
      <4>2. <<More(r), j - q>> \in S
        BY <2>3, <3>3, <4>1
      <4>3. Shift(More(r)) = q
        BY <3>3
      <4>4. f[<<More(r), j - q>>] = <<Less(More(r)), Shift(More(r)) + (j - q)>>
        BY <2>5, <4>2
      <4>5. q + (j - q) = j
        BY <3>2
      <4>6. f[<<More(r), j - q>>] = y
        <5> HIDE DEF Shift, q, f
        <5> QED  BY <3>1, <3>3, <4>3, <4>4, <4>5
      <4> QED  BY <4>2, <4>6
    <3> QED  BY <3>4, <3>5
  <2>10. f \in Bijection(S, T)
    BY <2>7, <2>8, <2>9 DEF Bijection, Injection, Surjection, IsInjective
  <2>11. IsFiniteSet(S)
    BY LooseFinite DEF S
  <2> QED  BY <2>10, <2>11, FS_Bijection DEF CountIn, S, T, ExistsBijection
<1> QED  BY <1>7, <1>8 DEF C

-------------------------------------------------------------------------------
(* The inductive invariant. *)

\* Clients that leave out what the findings are about: they do not make an Rc
\* of a Snapshot that was loaded from a weak reference, and under EBR they do not
\* load from weak references at all.
SafeClients == \A c \in Clients : /\ "promote" \notin c.calls
                                  /\ c.scheme = "EBR" => "load_from_weak" \notin c.calls

\* What an entry has to wait for lest it takes away what snapshot s of t protects.
Guard(t, s) == IF Scheme = "EBR" THEN t ELSE <<t, s>>

\* The retired work that waits for none of V; the guards of the references that
\* compare_exchange has still to count.
Loose(k, o, V) == CountIn(retired, k, o, V)
Incs(k, o)     == {Guard(t, pc[t].s) : t \in At("inc", k, o)}
Alive(o)       == life[o] \in {"live", "disposed"}
Counting(k, o) == Alive(o) /\ flag[k][o] = "counting"
Extra(k, o)    == IF k = "weak" /\ life[o] = "live" THEN 1 ELSE 0

\* What the call of t that is under way will access, and knows of.
Named(p) == IF p.at \in {"settle", "inc", "release", "publish"} THEN p.o ELSE Null

\* The hazard in snapshot s of t protects, because the link was read again;
\* the guards of such snapshots of o, that came from a cell of kind k.
Settled(t, s)    == ~ (pc[t].at \in {"publish", "validate"} /\ pc[t].s = s)
Protects(t, s, k, o) == snap[t][s].o = o /\ snap[t][s].k = k /\ Settled(t, s)
Protectors(k, o) ==
  {g \in Guards : \E t \in Threads, s \in Snaps : g = Guard(t, s) /\ Protects(t, s, k, o)}
Shielders(o)     == Protectors("strong", o) \cup Protectors("weak", o)

\* The types; a count is an integer as long as nothing is known of the owners.
TypeInv ==
  /\ life \in [Objs -> {"none", "live", "disposed", "freed"}]
  /\ cnt  \in [Kinds -> [Objs -> Int]]
  /\ flag \in [Kinds -> [Objs -> {"counting", "pending", "zero"}]]
  /\ cell \in [Cells -> Ptr]
  /\ own  \in [Kinds -> [Threads -> Ptr]]
  /\ snap \in [Threads -> [Snaps -> [o : Ptr, k : Kinds]]]
  /\ cs \subseteq Threads
  /\ GoodBag(retired)
  /\ pc \in [Threads -> Controls]
  /\ client \in Clients

\* A counter that counts is exact; one that does not has no owners.
Balanced(k, o) ==
  IF Counting(k, o) THEN cnt[k][o] + Cardinality(Incs(k, o)) = Owners(k, o) + Extra(k, o)
                    ELSE Owners(k, o) = 0 /\ Incs(k, o) = {} /\ Extra(k, o) = 0

\* The cover of the guards V: the entries that wait for none of V may all be
\* ejected, and there is still a reference for each one that has to be counted
\* under a guard of V, and one more for what V protects; unless one is to be counted
\* under a guard of V that protects by snapshots of the other kind only.
Users(k, o)    == Protectors(k, o) \cup Incs(k, o)
Bonus(k, o, V) == IF /\ V \cap Protectors(k, o) # {}
                     /\ V \cap Incs(k, o) \subseteq Protectors(k, o) THEN 1 ELSE 0
Kept(k, o, V)  == Loose(k, o, V) + Bonus(k, o, V) + Cardinality(Incs(k, o) \cap V) <= Owners(k, o)
Covered(k, o)  == \A V \in SUBSET Guards : Kept(k, o, V)

Bounded(k, o) == /\ cnt[k][o] >= 0
                 /\ cnt[k][o] + Cardinality(Incs(k, o)) <= MaxCount + Cardinality(Threads)
Books(k, o)   == Balanced(k, o) /\ Covered(k, o) /\ Bounded(k, o)

\* What is protected is there.
ProtectedOK(o) ==
  /\ Protectors("strong", o) # {} => life[o] = "live" /\ flag["strong"][o] = "counting"
  /\ Shielders(o) # {} => Counting("weak", o)

\* The life of an object, its counters and who is to drop its value.
LifeOK(o) ==
  /\ Disposers(o) = IF life[o] = "live" /\ flag["strong"][o] = "zero" THEN 1 ELSE 0
  /\ life[o] \in {"disposed", "freed"} => flag["strong"][o] = "zero"
  /\ life[o] = "none" => \A k \in Kinds : cnt[k][o] = 0 /\ flag[k][o] = "counting"
  /\ flag["weak"][o] # "pending" /\ (flag["weak"][o] = "zero" => life[o] = "freed")
  /\ life[o] = "freed" => flag["weak"][o] = "zero" \/ cnt["weak"][o] = 1

\* A counter that came to zero has someone who will settle it.
SettlersOK(o) ==
  /\ life[o] = "live" /\ flag["strong"][o] = "pending" => Settlers("strong", o) # {}
  /\ life[o] = "live" /\ flag["strong"][o] = "counting" /\ cnt["strong"][o] = 0
       => Settlers("strong", o) # {}
  /\ life[o] = "disposed" /\ cnt["weak"][o] = 0 => Settlers("weak", o) # {}

ObjOK(o) == /\ \A k \in Kinds : Books(k, o)
            /\ ProtectedOK(o) /\ LifeOK(o) /\ SettlersOK(o)

\* What a thread knows has been created; its usable snapshots protect a value,
\* also from the disposals that are deferred.
KnownOK(t) == /\ \A s \in Snaps : snap[t][s].o \in Objs => life[snap[t][s].o] # "none"
              /\ Named(pc[t]) \in Objs => life[Named(pc[t])] # "none"
Undisposed(g, o) == \A e \in BagToSet(retired) : e.o = o /\ e.k = "dispose" => g \in e.wait
SnapOK(t, s) == snap[t][s].o \in Objs =>
                  /\ Usable(t, s) => /\ life[snap[t][s].o] = "live"
                                     /\ Undisposed(Guard(t, s), snap[t][s].o)
                  /\ Scheme = "EBR" => snap[t][s].k = "strong" /\ t \in cs
\* The snapshot that is about to be counted protects.
IncOK(t) ==
  pc[t].at = "inc" =>
    /\ Guard(t, pc[t].s) \in Shielders(pc[t].o)
    /\ pc[t].k = "strong" => Guard(t, pc[t].s) \in Protectors("strong", pc[t].o)
\* A call that is under way can still name its cell; what it knows of the cell.
Loading == {"publish", "validate", "check", "cas"}
FieldOK(t) ==
  /\ pc[t].at = "swap" => Names(t, Null, pc[t].c)
  /\ pc[t].at \in Loading => Names(t, pc[t].s, pc[t].c) /\ Guarded(t)
  /\ pc[t].at \in {"publish", "validate"} => Scheme = "HP"
  /\ pc[t].at = "validate" => snap[t][pc[t].s].k = Kind(pc[t].c)
  /\ pc[t].at \in Loading /\ (pc[t].at = "cas" \/ pc[t].want # {}) => Kind(pc[t].c) = "strong"

ThreadOK(t) == /\ KnownOK(t) /\ IncOK(t) /\ FieldOK(t)
               /\ \A s \in Snaps : SnapOK(t, s)

CountInv == TypeInv /\ (\A o \in Objs : ObjOK(o)) /\ (\A t \in Threads : ThreadOK(t))

-------------------------------------------------------------------------------
(* Counting owners. *)

One(b) == IF b THEN 1 ELSE 0

CellsOf(k, o)  == {c \in Cells : Kind(c) = k /\ cell[c] = o}
VarsOf(k, o)   == {t \in Threads : own[k][t] = o}
Releasers(o)   == {t \in Threads : pc[t].at = "release" /\ pc[t].o = o}
In(p, l, k, o) == p.at = l /\ p.o = o /\ k = IF l = "swap" THEN Kind(p.c) ELSE p.k

\* What a control point says.
LEMMA ControlShape ==
  ASSUME NEW p \in Controls
  PROVE  /\ p.at \in {"settle", "inc"} => p.k \in Kinds /\ p.o \in Objs
         /\ p.at = "inc" => p.s \in Snaps
         /\ p.at = "release" => p.o \in Objs
         /\ p.at = "swap" => p.c \in Cells /\ p.o \in Objs
         /\ p.at = "publish" => p.s \in Snaps /\ p.c \in Cells /\ p.o \in Ptr /\ p.want \subseteq Ptr
         /\ p.at \in {"validate", "check", "cas"} => p.s \in Snaps /\ p.want \subseteq Ptr
         /\ p.at \in {"validate", "cas"} => p.c \in Cells
         /\ p.at = "check" => p.c \in Cells \/ (p.c = Null /\ p.want = {})
         /\ p.at \in {"idle", "settle", "inc", "release", "swap", "publish", "validate", "check", "cas"}
         /\ p.at = "idle" => p = Idle
  BY DEF Controls, Idle

\* Two sets that differ in one element at most.
LEMMA OneElement ==
  ASSUME NEW S, NEW T, IsFiniteSet(S), NEW x, T \ {x} = S \ {x}
  PROVE  /\ IsFiniteSet(T) /\ Cardinality(S) \in Nat /\ Cardinality(T) \in Nat
         /\ Cardinality(T) = Cardinality(S) + One(x \in T) - One(x \in S)
<1> DEFINE R == S \ {x}
<1>1. /\ IsFiniteSet(R)
      /\ Cardinality(R) = IF x \in S THEN Cardinality(S) - 1 ELSE Cardinality(S)
  BY FS_RemoveElement
<1>2. Cardinality(S) \in Nat /\ Cardinality(R) \in Nat
  BY <1>1, FS_CardinalityType
<1>3. x \notin R
  OBVIOUS
<1> HIDE DEF R
<1>4. CASE x \in T
  <2>1. T = R \cup {x}
    BY <1>4 DEF R
  <2>2. IsFiniteSet(T) /\ Cardinality(T) = Cardinality(R) + 1
    BY <1>1, <1>3, <2>1, FS_AddElement
  <2> QED  BY <1>1, <1>2, <1>4, <2>2 DEF One
<1>5. CASE x \notin T
  <2>1. T = R
    BY <1>5 DEF R
  <2> QED  BY <1>1, <1>2, <1>5, <2>1 DEF One
<1> QED  BY <1>4, <1>5

LEMMA CellsFinite == ASSUME TypeInv PROVE IsFiniteSet(Cells)
<1>1. client \in Clients /\ client.cells \subseteq AtomicRcs \cup AtomicWeaks
  BY ClientAssumption DEF TypeInv
<1>2. Cells \subseteq (AtomicRcs \cup AtomicWeaks) \cup Objs
  BY <1>1 DEF Cells, Nodes
<1>3. IsFiniteSet((AtomicRcs \cup AtomicWeaks) \cup Objs)
  BY FiniteAssumption, FS_Union
<1> QED  BY <1>2, <1>3, FS_Subset

LEMMA PendingIs == \A k, o : Pending(o, k) = Loose(k, o, {})
<1>1. ASSUME NEW k, NEW o PROVE Pending(o, k) = Loose(k, o, {})
  <2>1. {x \in Copies(retired) : x[1].o = o /\ x[1].k = k} = LooseIn(retired, k, o, {})
    BY DEF LooseIn, Matches
  <2> QED  BY <2>1 DEF Pending, Loose, CountIn
<1> QED  BY <1>1

\* Everything that is counted is finite.
LEMMA Finite ==
  ASSUME TypeInv
  PROVE  /\ \A k, o : IsFiniteSet(CellsOf(k, o)) /\ Cardinality(CellsOf(k, o)) \in Nat
         /\ \A k, o : IsFiniteSet(VarsOf(k, o)) /\ Cardinality(VarsOf(k, o)) \in Nat
         /\ \A l, k, o : IsFiniteSet(At(l, k, o)) /\ Cardinality(At(l, k, o)) \in Nat
         /\ \A l, k, o : Cardinality(At(l, k, o)) <= Cardinality(Threads)
         /\ \A o : IsFiniteSet(Releasers(o)) /\ Cardinality(Releasers(o)) \in Nat
         /\ \A k, o, V : Loose(k, o, V) \in Nat
         /\ Cardinality(Threads) \in Nat
<1>1. \A S : S \subseteq Threads => /\ IsFiniteSet(S) /\ Cardinality(S) \in Nat
                                    /\ Cardinality(S) <= Cardinality(Threads)
  BY FiniteAssumption, FS_Subset, FS_CardinalityType
<1>2. \A S : S \subseteq Cells => IsFiniteSet(S) /\ Cardinality(S) \in Nat
  BY CellsFinite, FS_Subset, FS_CardinalityType
<1>3. \A k, o : CellsOf(k, o) \subseteq Cells
  BY DEF CellsOf
<1>4. \A k, o : VarsOf(k, o) \subseteq Threads
  BY DEF VarsOf
<1>5. \A l, k, o : At(l, k, o) \subseteq Threads
  BY DEF At
<1>6. \A o : Releasers(o) \subseteq Threads
  BY DEF Releasers
<1>7. \A k, o, V : Loose(k, o, V) \in Nat
  BY LooseFinite DEF Loose, TypeInv
<1>8. Cardinality(Threads) \in Nat
  BY FiniteAssumption, FS_CardinalityType
<1> QED  BY <1>1, <1>2, <1>3, <1>4, <1>5, <1>6, <1>7, <1>8

\* A guard belongs to one thread; under HP, to one snapshot.
LEMMA GuardFacts ==
  /\ \A t \in Threads, s \in Snaps : Guard(t, s) \in Guards
  /\ \A t, u \in Threads, s, r \in Snaps :
       Guard(t, s) = Guard(u, r) => t = u /\ (Scheme # "EBR" => s = r)
BY DEF Guard, Guards

LEMMA ProtectorsAre ==
  \A k, o : /\ \A t \in Threads, s \in Snaps :
                  Protects(t, s, k, o) => Guard(t, s) \in Protectors(k, o)
            /\ \A g \in Protectors(k, o) : \E t \in Threads, s \in Snaps :
                  g = Guard(t, s) /\ Protects(t, s, k, o)
            /\ Protectors(k, o) \subseteq Guards
BY GuardFacts DEF Protectors

\* Each thread that has to count a reference does so under its own guard.
LEMMA IncsAre ==
  ASSUME TypeInv
  PROVE  \A k, o : /\ \A t \in Threads : In(pc[t], "inc", k, o) => Guard(t, pc[t].s) \in Incs(k, o)
                   /\ \A g \in Incs(k, o) : \E t \in Threads :
                         g = Guard(t, pc[t].s) /\ In(pc[t], "inc", k, o) /\ pc[t].s \in Snaps
                   /\ Incs(k, o) \subseteq Guards
                   /\ Cardinality(Incs(k, o)) = Cardinality(At("inc", k, o))
<1>1. SUFFICES ASSUME NEW k, NEW o
               PROVE  /\ \A t \in Threads : In(pc[t], "inc", k, o) => Guard(t, pc[t].s) \in Incs(k, o)
                      /\ \A g \in Incs(k, o) : \E t \in Threads :
                            g = Guard(t, pc[t].s) /\ In(pc[t], "inc", k, o) /\ pc[t].s \in Snaps
                      /\ Incs(k, o) \subseteq Guards
                      /\ Cardinality(Incs(k, o)) = Cardinality(At("inc", k, o))
  OBVIOUS
<1>2. \A t \in Threads : t \in At("inc", k, o) <=> In(pc[t], "inc", k, o)
  BY DEF At, In
<1>3. At("inc", k, o) \subseteq Threads
  BY DEF At
<1>4. \A t \in At("inc", k, o) : t \in Threads /\ In(pc[t], "inc", k, o) /\ pc[t].s \in Snaps
  BY <1>2, <1>3, ControlShape DEF In, TypeInv
<1>5. \A g : g \in Incs(k, o) <=> \E t \in At("inc", k, o) : g = Guard(t, pc[t].s)
  BY DEF Incs
<1>6. Incs(k, o) \subseteq Guards
  BY <1>4, <1>5, GuardFacts
<1>7. Cardinality(Incs(k, o)) = Cardinality(At("inc", k, o))
  <2> DEFINE f == [t \in At("inc", k, o) |-> Guard(t, pc[t].s)]
  <2>1. f \in [At("inc", k, o) -> Incs(k, o)]
    BY <1>5
  <2>2. \A g \in Incs(k, o) : \E t \in At("inc", k, o) : f[t] = g
    BY <1>5
  <2>3. \A t, u \in At("inc", k, o) : f[t] = f[u] => t = u
    BY <1>4, GuardFacts
  <2>4. f \in Bijection(At("inc", k, o), Incs(k, o))
    BY <2>1, <2>2, <2>3 DEF Bijection, Injection, Surjection, IsInjective
  <2>5. IsFiniteSet(At("inc", k, o))
    BY Finite
  <2> QED  BY <2>4, <2>5, FS_Bijection DEF ExistsBijection
<1> QED  BY <1>2, <1>4, <1>5, <1>6, <1>7

LEMMA OwnersIs ==
  ASSUME TypeInv, NEW k \in Kinds, NEW o \in Objs
  PROVE  /\ Owners(k, o) = Cardinality(CellsOf(k, o)) + Cardinality(VarsOf(k, o))
                         + Loose(k, o, {}) + Cardinality(At("swap", k, o))
         /\ Disposers(o) = Cardinality(Releasers(o)) + Loose("dispose", o, {})
         /\ Owners(k, o) \in Nat /\ Disposers(o) \in Nat /\ Loose(k, o, {}) <= Owners(k, o)
         /\ Uncounted(k, o) = Cardinality(Incs(k, o)) /\ Uncounted(k, o) \in Nat
<1>1. Owners(k, o) = Cardinality(CellsOf(k, o)) + Cardinality(VarsOf(k, o))
                     + Loose(k, o, {}) + Cardinality(At("swap", k, o))
  BY PendingIs DEF Owners, CellsOf, VarsOf
<1>2. Disposers(o) = Cardinality(Releasers(o)) + Loose("dispose", o, {})
  BY PendingIs DEF Disposers, Releasers
<1>3. Uncounted(k, o) = Cardinality(Incs(k, o)) /\ Uncounted(k, o) \in Nat
  BY IncsAre, Finite DEF Uncounted
<1> QED  BY <1>1, <1>2, <1>3, Finite

\* What an owner is, and that a counter with an owner counts.
LEMMA OwnerCounts ==
  ASSUME TypeInv, NEW k \in Kinds, NEW o \in Objs
  PROVE  /\ \A c \in Cells : Kind(c) = k /\ cell[c] = o => Owners(k, o) > Loose(k, o, {})
         /\ \A t \in Threads : own[k][t] = o => Owners(k, o) > Loose(k, o, {})
         /\ \A t \in Threads : In(pc[t], "swap", k, o) => Owners(k, o) > Loose(k, o, {})
         /\ \A e \in DOMAIN retired : e.o = o /\ e.k = k => Owners(k, o) > 0
<1>1. ASSUME NEW S, IsFiniteSet(S), NEW x \in S PROVE Cardinality(S) > 0
  <2>1. Cardinality(S) \in Nat /\ Cardinality(S) # 0
    BY <1>1, FS_EmptySet, FS_CardinalityType
  <2> QED  BY <2>1
<1>2. ASSUME NEW c \in Cells, Kind(c) = k, cell[c] = o PROVE Owners(k, o) > Loose(k, o, {})
  <2>1. Cardinality(CellsOf(k, o)) > 0
    BY <1>1, <1>2, Finite DEF CellsOf
  <2> QED  BY <2>1, OwnersIs, Finite
<1>3. ASSUME NEW t \in Threads, own[k][t] = o PROVE Owners(k, o) > Loose(k, o, {})
  <2>1. Cardinality(VarsOf(k, o)) > 0
    BY <1>1, <1>3, Finite DEF VarsOf
  <2> QED  BY <2>1, OwnersIs, Finite
<1>4. ASSUME NEW t \in Threads, In(pc[t], "swap", k, o) PROVE Owners(k, o) > Loose(k, o, {})
  <2>1. t \in At("swap", k, o)
    BY <1>4 DEF In, At
  <2>2. Cardinality(At("swap", k, o)) > 0
    BY <1>1, <2>1, Finite
  <2> QED  BY <2>2, OwnersIs, Finite
<1>5. ASSUME NEW e \in DOMAIN retired, e.o = o, e.k = k PROVE Owners(k, o) > 0
  <2>1. Matches(e, k, o, {})
    BY <1>5 DEF Matches
  <2>2. Loose(k, o, {}) >= 1
    BY <2>1, LooseOne DEF Loose, TypeInv
  <2> QED  BY <2>2, OwnersIs, Finite
<1> QED  BY <1>2, <1>3, <1>4, <1>5

-------------------------------------------------------------------------------
(* The types are kept. *)

\* Control points that actions go to.
LEMMA ControlIn ==
  /\ Idle \in Controls
  /\ \A k \in Kinds, o \in Objs : [at |-> "settle", k |-> k, o |-> o] \in Controls
  /\ \A s \in Snaps, k \in Kinds, o \in Objs : [at |-> "inc", s |-> s, k |-> k, o |-> o] \in Controls
  /\ \A o \in Objs : [at |-> "release", o |-> o] \in Controls
  /\ \A c \in Cells, o \in Objs : [at |-> "swap", c |-> c, o |-> o] \in Controls
  /\ \A s \in Snaps, c \in Cells, w \in SUBSET Ptr, o \in Ptr :
       [at |-> "publish", s |-> s, c |-> c, want |-> w, o |-> o] \in Controls
  /\ \A s \in Snaps, c \in Cells, w \in SUBSET Ptr :
       [at |-> "validate", s |-> s, c |-> c, want |-> w] \in Controls
  /\ \A s \in Snaps, c \in Cells, w \in SUBSET Ptr :
       [at |-> "check", s |-> s, c |-> c, want |-> w] \in Controls
  /\ \A s \in Snaps : [at |-> "check", s |-> s, c |-> Null, want |-> {}] \in Controls
  /\ \A s \in Snaps, c \in Cells, w \in SUBSET Ptr :
       [at |-> "cas", s |-> s, c |-> c, want |-> w] \in Controls
<1>1. /\ Idle \in Controls
      /\ \A k \in Kinds, o \in Objs : [at |-> "settle", k |-> k, o |-> o] \in Controls
      /\ \A s \in Snaps, k \in Kinds, o \in Objs : [at |-> "inc", s |-> s, k |-> k, o |-> o] \in Controls
      /\ \A o \in Objs : [at |-> "release", o |-> o] \in Controls
      /\ \A c \in Cells, o \in Objs : [at |-> "swap", c |-> c, o |-> o] \in Controls
  BY DEF Controls
<1>2. \A s \in Snaps, c \in Cells, w \in SUBSET Ptr, o \in Ptr :
       [at |-> "publish", s |-> s, c |-> c, want |-> w, o |-> o] \in Controls
  BY DEF Controls
<1>3. /\ \A s \in Snaps, c \in Cells, w \in SUBSET Ptr :
           [at |-> "validate", s |-> s, c |-> c, want |-> w] \in Controls
      /\ \A s \in Snaps, c \in Cells, w \in SUBSET Ptr :
           [at |-> "check", s |-> s, c |-> c, want |-> w] \in Controls
      /\ \A s \in Snaps : [at |-> "check", s |-> s, c |-> Null, want |-> {}] \in Controls
      /\ \A s \in Snaps, c \in Cells, w \in SUBSET Ptr :
           [at |-> "cas", s |-> s, c |-> c, want |-> w] \in Controls
  BY DEF Controls
<1> QED  BY <1>1, <1>2, <1>3

LEMMA GotoType ==
  ASSUME TypeInv, NEW t \in Threads, NEW p \in Controls, Goto(t, p), client' = client
  PROVE  /\ pc' \in [Threads -> Controls'] /\ pc'[t] = p
         /\ \A u \in Threads \ {t} : pc'[u] = pc[u]
<1>1. Controls' = Controls
  BY DEF Controls, Cells, Nodes, Ptr
<1> QED  BY <1>1 DEF TypeInv, Goto

LEMMA NodeField ==
  ASSUME TypeInv, NEW o \in Objs
  PROVE  /\ FieldOf(o) \in Ptr /\ (o \in Nodes => o \in Cells /\ Kind(o) = "strong")
  BY CellsAssumption DEF TypeInv, FieldOf, Cells, Nodes, Ptr, Kind

\* Retiring keeps the bag one of entries, and adds one.
LEMMA RetireCount ==
  ASSUME TypeInv, NEW B, GoodBag(B), NEW x \in Objs, NEW w \in Work
  PROVE  LET e == Entry(x, w)
             C == BagAdd(B, e)
         IN  /\ e \in Entries /\ GoodBag(C) /\ DOMAIN C = DOMAIN B \cup {e}
             /\ \A k, o, V : CountIn(C, k, o, V)
                               = CountIn(B, k, o, V) + One(o = x /\ k = w /\ Witnesses \cap V = {})
<1> DEFINE e == Entry(x, w)
<1>1. e \in Entries /\ e.o = x /\ e.k = w /\ e.wait = Witnesses
  <2>1. Witnesses \in SUBSET Guards
    BY DEF Witnesses, Guards, TypeInv
  <2> QED  BY <2>1 DEF Entry, Entries, Work
<1> HIDE DEF e
<1>2. /\ GoodBag(BagAdd(B, e)) /\ DOMAIN BagAdd(B, e) = DOMAIN B \cup {e}
      /\ \A k, o, V : CountIn(BagAdd(B, e), k, o, V)
                        = CountIn(B, k, o, V) + IF Matches(e, k, o, V) THEN 1 ELSE 0
  BY <1>1, AddCount
<1>3. \A k, o, V : Matches(e, k, o, V) <=> o = x /\ k = w /\ Witnesses \cap V = {}
  BY <1>1 DEF Matches
<1> QED  BY <1>1, <1>2, <1>3 DEF e, One

LEMMA RetireType ==
  ASSUME TypeInv, NEW x \in Ptr, NEW w \in Work, Retire(x, w)
  PROVE  GoodBag(retired')
<1>1. CASE x = Null
  BY <1>1 DEF Retire, TypeInv
<1>2. CASE x # Null
  <2>1. x \in Objs /\ GoodBag(retired) /\ retired' = BagAdd(retired, Entry(x, w))
    BY <1>2 DEF Retire, TypeInv, Ptr
  <2> QED  BY <2>1, RetireCount
<1> QED  BY <1>1, <1>2

LEMMA DisposeType ==
  ASSUME TypeInv, NEW t \in Threads, NEW o \in Objs, NEW rest, GoodBag(rest), Dispose(t, o, rest)
  PROVE  TypeInv'
<1>1. client' = client /\ Cells' = Cells /\ "strong" \in Work
  BY DEF Dispose, Cells, Nodes, Work, Kinds
<1>2. GoodBag(retired')
  <2>1. CASE FieldOf(o) = Null
    BY <2>1 DEF Dispose
  <2>2. CASE FieldOf(o) # Null
    <3>1. FieldOf(o) \in Objs /\ retired' = BagAdd(rest, Entry(FieldOf(o), "strong"))
      BY <2>2, NodeField DEF Dispose, Ptr
    <3> QED  BY <1>1, <3>1, RetireCount
  <2> QED  BY <2>1, <2>2
<1>3. pc' \in [Threads -> Controls']
  <2>1. PICK p \in Controls : Goto(t, p)
    BY ControlIn DEF Dispose, Kinds
  <2> QED  BY <1>1, <2>1, GotoType
<1>4. cell' \in [Cells -> Ptr]
  BY NodeField DEF Dispose, DropField, TypeInv, Ptr
<1>5. cnt' \in [Kinds -> [Objs -> Int]]
  BY DEF Dispose, Dec, TypeInv, Kinds
<1> QED
  BY <1>1, <1>2, <1>3, <1>4, <1>5 DEF Dispose, TypeInv, SetLife

LEMMA OwningType ==
  ASSUME TypeInv, NEW t \in Threads, Owning(t) PROVE TypeInv'
<1>1. Cells' = Cells /\ client' = client /\ Controls' = Controls
  <2>1. client' = client
    BY DEF Owning, New, Drop, Clone, FromSnapshot, FromStrong, Upgrade, Take
  <2>2. Cells' = Cells
    BY <2>1 DEF Cells, Nodes
  <2> QED  BY <2>1, <2>2 DEF Controls, Ptr
<1>2. ASSUME NEW o \in Objs, New(t, o) PROVE TypeInv'
  <2>1. cnt' \in [Kinds -> [Objs -> Int]]
    BY <1>2 DEF New, TypeInv
  <2>2. own' \in [Kinds -> [Threads -> Ptr]]
    BY <1>2 DEF New, TypeInv, Kinds, Ptr
  <2> QED  BY <1>1, <1>2, <2>1, <2>2 DEF New, TypeInv, SetLife
<1>3. ASSUME NEW k \in Kinds, Drop(t, k) PROVE TypeInv'
  <2>1. own[k][t] \in Ptr /\ k \in Work
    BY DEF TypeInv, Work
  <2>2. GoodBag(retired')
    BY <1>3, <2>1, RetireType DEF Drop
  <2>3. own' \in [Kinds -> [Threads -> Ptr]]
    BY <1>3 DEF Drop, TypeInv, Ptr
  <2> QED  BY <1>1, <1>3, <2>2, <2>3 DEF Drop, TypeInv, heap
<1>4. ASSUME NEW k \in Kinds, NEW o \in Ptr, Take(t, k, o) PROVE TypeInv'
  <2>1. o \in Objs
    BY <1>4 DEF Take, Ptr
  <2>2. own' \in [Kinds -> [Threads -> Ptr]]
    BY <1>4 DEF Take, TypeInv, Ptr
  <2>3. cnt' \in [Kinds -> [Objs -> Int]]
    BY <1>4, <2>1 DEF Take, Inc, TypeInv
  <2> QED  BY <1>1, <1>4, <2>2, <2>3 DEF Take, TypeInv
<1>5. ASSUME NEW s \in Snaps PROVE snap[t][s].o \in Ptr
  BY DEF TypeInv
<1>6. \A k \in Kinds, u \in Threads : own[k][u] \in Ptr
  BY DEF TypeInv
<1>7. Shields(t) \subseteq Ptr
  BY <1>5 DEF Shields
<1>8. "strong" \in Kinds /\ "weak" \in Kinds
  BY DEF Kinds
<1> QED
  BY <1>2, <1>3, <1>4, <1>5, <1>6, <1>7, <1>8
     DEF Owning, Clone, FromSnapshot, FromStrong, Upgrade

LEMMA UpdatingType ==
  ASSUME TypeInv, NEW t \in Threads, Updating(t) PROVE TypeInv'
<1>1. PICK c \in Cells, s \in Snaps \cup {Null} :
        Store(t, c) \/ Swap(t, c) \/ (s \in Snaps /\ (StoreSnap(t, s, c) \/ CasSnap(t, s, c)))
  BY DEF Updating
<1>2. Cells' = Cells /\ client' = client /\ Controls' = Controls
  BY <1>1 DEF Store, Swap, StoreSnap, CasSnap, Cells, Nodes, Controls, Ptr
<1>3. /\ Kind(c) \in Kinds /\ Kind(c) \in Work /\ cell[c] \in Ptr /\ own[Kind(c)][t] \in Ptr
      /\ s \in Snaps => snap[t][s].o \in Ptr
  BY DEF TypeInv, Kind, Kinds, Work
<1>4. CASE Store(t, c)
  <2>1. GoodBag(retired')
    BY <1>3, <1>4, RetireType DEF Store
  <2>2. cell' \in [Cells -> Ptr] /\ own' \in [Kinds -> [Threads -> Ptr]]
    BY <1>3, <1>4 DEF Store, TypeInv, Ptr
  <2> QED  BY <1>2, <1>4, <2>1, <2>2 DEF Store, TypeInv, heap
<1>5. CASE Swap(t, c)
  <2>1. cell' \in [Cells -> Ptr] /\ own' \in [Kinds -> [Threads -> Ptr]]
    BY <1>3, <1>5 DEF Swap, TypeInv
  <2> QED  BY <1>2, <1>5, <2>1 DEF Swap, TypeInv, heap
<1>6. CASE s \in Snaps /\ StoreSnap(t, s, c)
  <2>1. snap[t][s].o \in Objs
    BY <1>3, <1>6 DEF StoreSnap, Ptr
  <2>2. pc' \in [Threads -> Controls']
    BY <1>2, <1>6, <2>1, ControlIn, GotoType DEF StoreSnap
  <2>3. cnt' \in [Kinds -> [Objs -> Int]]
    BY <1>3, <1>6, <2>1 DEF StoreSnap, Inc, TypeInv
  <2> QED  BY <1>2, <1>6, <2>2, <2>3 DEF StoreSnap, TypeInv
<1>7. CASE s \in Snaps /\ CasSnap(t, s, c)
  <2>1. snap[t][s].o \in Objs
    BY <1>3, <1>7 DEF CasSnap, Ptr
  <2>2. pc' \in [Threads -> Controls']
    BY <1>2, <1>3, <1>7, <2>1, ControlIn, GotoType DEF CasSnap
  <2>3. cell' \in [Cells -> Ptr] /\ own' \in [Kinds -> [Threads -> Ptr]]
    BY <1>3, <1>7 DEF CasSnap, TypeInv
  <2> QED  BY <1>2, <1>7, <2>2, <2>3 DEF CasSnap, TypeInv, heap
<1> QED  BY <1>1, <1>4, <1>5, <1>6, <1>7

LEMMA ReadLinkType ==
  ASSUME TypeInv, NEW t \in Threads, NEW s \in Snaps, NEW c \in Cells, NEW w \in SUBSET Ptr,
         ReadLink(t, s, c, w), client' = client
  PROVE  pc' \in [Threads -> Controls'] /\ snap' \in [Threads -> [Snaps -> [o : Ptr, k : Kinds]]]
<1>1. cell[c] \in Ptr /\ Kind(c) \in Kinds
  BY DEF TypeInv, Kind, Kinds
<1>2. CASE Scheme = "HP"
  <2>1. [at |-> "publish", s |-> s, c |-> c, want |-> w, o |-> cell[c]] \in Controls
    BY <1>1, ControlIn
  <2> QED  BY <1>2, <2>1, GotoType DEF ReadLink, TypeInv
<1>3. CASE Scheme # "HP"
  <2>1. [at |-> "check", s |-> s, c |-> c, want |-> w] \in Controls
    BY ControlIn
  <2>2. snap' \in [Threads -> [Snaps -> [o : Ptr, k : Kinds]]]
    <3>1. [o |-> cell[c], k |-> Kind(c)] \in [o : Ptr, k : Kinds]
      BY <1>1
    <3>2. SetSnap(t, s, [o |-> cell[c], k |-> Kind(c)])
      BY <1>3 DEF ReadLink
    <3>3. snap \in [Threads -> [Snaps -> [o : Ptr, k : Kinds]]]
      BY DEF TypeInv
    <3> QED  BY <3>1, <3>2, <3>3 DEF SetSnap
  <2> QED  BY <1>3, <2>1, <2>2, GotoType DEF ReadLink
<1> QED  BY <1>2, <1>3

LEMMA ReadingType ==
  ASSUME TypeInv, NEW t \in Threads, Reading(t) PROVE TypeInv'
<1>1. ASSUME NEW s \in Snaps, NEW c \in Cells, Load(t, s, c) PROVE TypeInv'
  <2>1. Cells' = Cells /\ client' = client
    BY <1>1 DEF Load, Cells, Nodes
  <2>2. pc' \in [Threads -> Controls'] /\ snap' \in [Threads -> [Snaps -> [o : Ptr, k : Kinds]]]
    BY <1>1, <2>1, ReadLinkType DEF Load
  <2> QED  BY <1>1, <2>1, <2>2 DEF Load, TypeInv, heap
<1>2. ASSUME NEW s \in Snaps, NEW k \in Kinds, Protect(t, s, k) PROVE TypeInv'
  <2>1. Cells' = Cells /\ client' = client
    BY <1>2 DEF Protect, Cells, Nodes
  <2>2. pc' \in [Threads -> Controls']
    <3>1. PICK p \in Controls : Goto(t, p)
      BY <1>2, ControlIn DEF Protect
    <3> QED  BY <2>1, <3>1, GotoType
  <2>3. snap' \in [Threads -> [Snaps -> [o : Ptr, k : Kinds]]]
    BY <1>2 DEF Protect, SetSnap, TypeInv
  <2> QED  BY <1>2, <2>1, <2>2, <2>3 DEF Protect, TypeInv, heap
<1> QED  BY <1>1, <1>2 DEF Reading

LEMMA SettlingType ==
  ASSUME TypeInv, NEW t \in Threads, Settle(t) \/ ReleaseLast(t) \/ ReleaseDelay(t) PROVE TypeInv'
<1>1. pc[t] \in Controls
  BY DEF TypeInv
<1>2. CASE Settle(t)
  <2>1. Cells' = Cells /\ client' = client
    BY <1>2 DEF Settle, Cells, Nodes
  <2>2. pc[t].k \in Kinds /\ pc[t].o \in Objs
    BY <1>1, <1>2, ControlShape DEF Settle
  <2>3. PICK p \in Controls : Goto(t, p)
    BY <1>2, <2>2, ControlIn DEF Settle
  <2>4. pc' \in [Threads -> Controls']
    BY <2>1, <2>3, GotoType
  <2>5. flag' \in [Kinds -> [Objs -> {"counting", "pending", "zero"}]]
    BY <1>2, <2>2 DEF Settle, TypeInv
  <2>6. life' \in [Objs -> {"none", "live", "disposed", "freed"}]
    BY <1>2, <2>2 DEF Settle, SetLife, TypeInv
  <2> QED  BY <1>2, <2>1, <2>4, <2>5, <2>6 DEF Settle, TypeInv
<1>3. CASE ReleaseLast(t)
  <2>1. Cells' = Cells /\ client' = client /\ "strong" \in Work
    BY <1>3 DEF ReleaseLast, Cells, Nodes, Work, Kinds
  <2>2. pc[t].o \in Objs
    BY <1>1, <1>3, ControlShape DEF ReleaseLast
  <2>3. GoodBag(retired')
    BY <1>3, <2>1, <2>2, NodeField, RetireType DEF ReleaseLast
  <2>4. pc' \in [Threads -> Controls']
    BY <1>3, <2>1, ControlIn, GotoType DEF ReleaseLast
  <2>5. cell' \in [Cells -> Ptr]
    BY <1>3, <2>2, NodeField DEF ReleaseLast, DropField, TypeInv, Ptr
  <2> QED  BY <1>3, <2>1, <2>2, <2>3, <2>4, <2>5 DEF ReleaseLast, TypeInv, SetLife
<1>4. CASE ReleaseDelay(t)
  <2>1. pc[t].o \in Objs /\ GoodBag(retired)
    BY <1>1, <1>4, ControlShape DEF ReleaseDelay, TypeInv
  <2>2. CASE Scheme = "HP"
    <3>1. Cells' = Cells /\ client' = client /\ "dispose" \in Work /\ pc[t].o \in Ptr
      BY <1>4, <2>1, <2>2 DEF ReleaseDelay, Cells, Nodes, Work, Ptr
    <3>2. GoodBag(retired')
      BY <1>4, <2>2, <3>1, RetireType DEF ReleaseDelay
    <3>3. pc' \in [Threads -> Controls']
      BY <1>4, <2>2, <3>1, ControlIn, GotoType DEF ReleaseDelay
    <3> QED  BY <1>4, <2>2, <3>1, <3>2, <3>3 DEF ReleaseDelay, TypeInv, heap
  <2>3. CASE Scheme # "HP"
    BY <1>4, <2>1, <2>3, DisposeType DEF ReleaseDelay
  <2> QED  BY <2>2, <2>3
<1> QED  BY <1>2, <1>3, <1>4

LEMMA CallingType ==
  ASSUME TypeInv, NEW t \in Threads,
         StoreSwap(t) \/ CasInc(t) \/ Publish(t) \/ Validate(t) \/ Check(t) \/ CasSwap(t)
  PROVE  TypeInv'
<1>1. pc[t] \in Controls /\ \A o : Kind(o) \in Kinds
  BY DEF TypeInv, Kind, Kinds
<1>2. Cells' = Cells /\ client' = client
  BY DEF StoreSwap, CasInc, Publish, Validate, Check, CasSwap, Cells, Nodes
<1>3. CASE StoreSwap(t)
  <2>1. pc[t].c \in Cells /\ pc[t].o \in Objs
    BY <1>1, <1>3, ControlShape DEF StoreSwap
  <2>2. cell[pc[t].c] \in Ptr /\ Kind(pc[t].c) \in Work
    BY <1>1, <2>1 DEF TypeInv, Work
  <2>3. GoodBag(retired')
    BY <1>3, <2>2, RetireType DEF StoreSwap
  <2>4. pc' \in [Threads -> Controls']
    BY <1>2, <1>3, ControlIn, GotoType DEF StoreSwap
  <2>5. cell' \in [Cells -> Ptr]
    BY <1>3, <2>1 DEF StoreSwap, TypeInv, Ptr
  <2> QED  BY <1>2, <1>3, <2>3, <2>4, <2>5 DEF StoreSwap, TypeInv, heap
<1>4. CASE CasInc(t)
  <2>1. pc[t].k \in Kinds /\ pc[t].o \in Objs
    BY <1>1, <1>4, ControlShape DEF CasInc
  <2>2. pc' \in [Threads -> Controls']
    BY <1>2, <1>4, ControlIn, GotoType DEF CasInc
  <2>3. cnt' \in [Kinds -> [Objs -> Int]]
    BY <1>4, <2>1 DEF CasInc, Inc, TypeInv
  <2> QED  BY <1>2, <1>4, <2>2, <2>3 DEF CasInc, TypeInv
<1>5. CASE Publish(t)
  <2>1. pc[t].s \in Snaps /\ pc[t].c \in Cells /\ pc[t].o \in Ptr /\ pc[t].want \subseteq Ptr
    BY <1>1, <1>5, ControlShape DEF Publish
  <2>2. [at |-> "validate", s |-> pc[t].s, c |-> pc[t].c, want |-> pc[t].want] \in Controls
    BY <2>1, ControlIn
  <2>3. pc' \in [Threads -> Controls']
    BY <1>2, <1>5, <2>2, GotoType DEF Publish
  <2>4. snap' \in [Threads -> [Snaps -> [o : Ptr, k : Kinds]]]
    <3>1. [o |-> pc[t].o, k |-> Kind(pc[t].c)] \in [o : Ptr, k : Kinds]
      BY <1>1, <2>1
    <3>2. SetSnap(t, pc[t].s, [o |-> pc[t].o, k |-> Kind(pc[t].c)])
      BY <1>5 DEF Publish
    <3>3. snap \in [Threads -> [Snaps -> [o : Ptr, k : Kinds]]]
      BY DEF TypeInv
    <3> QED  BY <2>1, <3>1, <3>2, <3>3 DEF SetSnap
  <2> QED  BY <1>2, <1>5, <2>3, <2>4 DEF Publish, TypeInv, heap
<1>6. CASE Validate(t)
  <2>1. pc[t].s \in Snaps /\ pc[t].c \in Cells /\ pc[t].want \in SUBSET Ptr
    BY <1>1, <1>6, ControlShape DEF Validate
  <2>2. pc' \in [Threads -> Controls'] /\ snap' \in [Threads -> [Snaps -> [o : Ptr, k : Kinds]]]
    <3>1. CASE ReadLink(t, pc[t].s, pc[t].c, pc[t].want)
      BY <1>2, <2>1, <3>1, ReadLinkType
    <3>2. CASE Goto(t, [pc[t] EXCEPT !.at = "check"]) /\ UNCHANGED snap
      <4>1. [pc[t] EXCEPT !.at = "check"] \in Controls
        BY <1>1, <1>6 DEF Validate, Controls, Idle
      <4> QED  BY <1>2, <3>2, <4>1, GotoType DEF TypeInv
    <3> QED  BY <1>6, <3>1, <3>2 DEF Validate
  <2> QED  BY <1>2, <1>6, <2>2 DEF Validate, TypeInv, heap
<1>7. CASE Check(t)
  <2>1. pc[t].s \in Snaps /\ pc[t].want \in SUBSET Ptr
    BY <1>1, <1>7, ControlShape DEF Check
  <2>2. snap[t][pc[t].s].o \in Ptr
    BY <2>1 DEF TypeInv
  <2>3. snap' \in [Threads -> [Snaps -> [o : Ptr, k : Kinds]]]
    <3>1. NoSnap \in [o : Ptr, k : Kinds]
      BY DEF NoSnap, Ptr, Kinds
    <3>2. snap' = snap \/ SetSnap(t, pc[t].s, NoSnap)
      BY <1>7 DEF Check
    <3>3. snap \in [Threads -> [Snaps -> [o : Ptr, k : Kinds]]]
      BY DEF TypeInv
    <3>4. CASE SetSnap(t, pc[t].s, NoSnap)
      <4> HIDE DEF NoSnap
      <4> QED  BY <2>1, <3>1, <3>3, <3>4 DEF SetSnap
    <3> QED  BY <3>2, <3>3, <3>4
  <2>4. flag' \in [Kinds -> [Objs -> {"counting", "pending", "zero"}]]
    <3>1. CASE UNCHANGED flag
      BY <3>1 DEF TypeInv
    <3>2. CASE Observe(snap[t][pc[t].s].o) /\ snap[t][pc[t].s].o # Null
      <4>1. snap[t][pc[t].s].o \in Objs /\ "strong" \in Kinds
        BY <2>2, <3>2 DEF Ptr, Kinds
      <4> QED  BY <3>2, <4>1 DEF Observe, TypeInv
    <3> QED  BY <1>7, <3>1, <3>2 DEF Check
  <2>5. pc' \in [Threads -> Controls']
    <3>1. CASE Goto(t, Idle)
      BY <1>2, <3>1, ControlIn, GotoType
    <3>2. CASE CasProtecting(t)
      <4>1. pc[t].at = "check" /\ (pc[t].c \in Cells \/ pc[t].want = {})
        BY <1>1, <1>7, ControlShape DEF Check
      <4>2. pc[t].c \in Cells
        BY <3>2, <4>1 DEF CasProtecting, MayCas
      <4>3. snap'[t][pc[t].s].o \in Ptr
        BY <2>1, <2>3
      <4>4. [pc[t] EXCEPT !.at = "cas", !.want = {snap'[t][pc[t].s].o}] \in Controls
        <5>1. pc[t] \in [at : {"validate", "check", "cas"}, s : Snaps, c : Cells, want : SUBSET Ptr]
          BY <1>1, <4>1, <4>2 DEF Controls, Idle
        <5>2. [pc[t] EXCEPT !.at = "cas", !.want = {snap'[t][pc[t].s].o}]
                \in [at : {"validate", "check", "cas"}, s : Snaps, c : Cells, want : SUBSET Ptr]
          BY <4>3, <5>1
        <5> QED  BY <5>2 DEF Controls
      <4> QED  BY <1>2, <3>2, <4>4, GotoType DEF CasProtecting
    <3> QED  BY <1>7, <3>1, <3>2 DEF Check
  <2> QED  BY <1>2, <1>7, <2>3, <2>4, <2>5 DEF Check, TypeInv
<1>8. CASE CasSwap(t)
  <2>1. pc[t].s \in Snaps /\ pc[t].c \in Cells /\ pc[t].want \in SUBSET Ptr
    BY <1>1, <1>8, ControlShape DEF CasSwap
  <2>2. pc' \in [Threads -> Controls'] /\ snap' \in [Threads -> [Snaps -> [o : Ptr, k : Kinds]]]
    <3>1. CASE ReadLink(t, pc[t].s, pc[t].c, pc[t].want)
      BY <1>2, <2>1, <3>1, ReadLinkType
    <3>2. CASE Goto(t, Idle) /\ UNCHANGED snap
      BY <1>2, <3>2, ControlIn, GotoType DEF TypeInv
    <3> QED  BY <1>8, <3>1, <3>2 DEF CasSwap
  <2>3. cell' \in [Cells -> Ptr] /\ own' \in [Kinds -> [Threads -> Ptr]]
    <3>1. "strong" \in Kinds /\ own["strong"][t] \in Ptr /\ cell[pc[t].c] \in Ptr
      BY <2>1 DEF TypeInv, Kinds
    <3>2. CASE UNCHANGED <<cell, own>>
      BY <3>2 DEF TypeInv
    <3>3. CASE /\ cell' = [cell EXCEPT ![pc[t].c] = own["strong"][t]]
               /\ own'  = [own EXCEPT !["strong"][t] = cell[pc[t].c]]
      BY <2>1, <3>1, <3>3 DEF TypeInv
    <3> QED  BY <1>8, <3>2, <3>3 DEF CasSwap
  <2> QED  BY <1>2, <1>8, <2>2, <2>3 DEF CasSwap, TypeInv, heap
<1> QED  BY <1>3, <1>4, <1>5, <1>6, <1>7, <1>8

LEMMA CollectType ==
  ASSUME TypeInv, NEW t \in Threads, NEW e \in DOMAIN retired, Eject(t, e) PROVE TypeInv'
<1>1. e \in Entries /\ GoodBag(BagRemove(retired, e)) /\ e.o \in Objs
  BY RemoveCount DEF TypeInv, GoodBag, BagToSet, Entries
<1>2. CASE e.k = "dispose"
  BY <1>1, <1>2, DisposeType DEF Eject
<1>3. CASE e.k # "dispose"
  <2>1. Cells' = Cells /\ client' = client /\ e.k \in Kinds
    BY <1>1, <1>3 DEF Eject, Cells, Nodes, Entries
  <2>2. PICK p \in Controls : Goto(t, p)
    BY <1>1, <1>3, <2>1, ControlIn DEF Eject
  <2>3. pc' \in [Threads -> Controls']
    BY <2>1, <2>2, GotoType
  <2>4. cnt' \in [Kinds -> [Objs -> Int]]
    <3>1. cnt \in [Kinds -> [Objs -> Int]] /\ cnt[e.k][e.o] \in Int
      BY <1>1, <2>1 DEF TypeInv
    <3>2. cnt' = cnt \/ cnt' = [cnt EXCEPT ![e.k][e.o] = @ - 1]
      BY <1>3 DEF Eject, Dec
    <3> QED  BY <1>1, <2>1, <3>1, <3>2
  <2> QED  BY <1>1, <1>3, <2>1, <2>3, <2>4 DEF Eject, TypeInv
<1> QED  BY <1>2, <1>3

LEMMA LeavingType ==
  ASSUME TypeInv, NEW t \in Threads, Enter(t) \/ Leaving(t) PROVE TypeInv'
<1>1. Cells' = Cells /\ client' = client /\ Controls' = Controls
  BY DEF Enter, Leaving, Exit, Clear, Cells, Nodes, Controls, Ptr
<1>2. NoSnap \in [o : Ptr, k : Kinds]
  BY DEF NoSnap, Ptr, Kinds
<1>3. CASE Enter(t)
  BY <1>1, <1>3 DEF Enter, TypeInv, heap
<1>4. CASE Exit(t)
  <2>1. GoodBag(retired')
    BY <1>4, ForgetCount DEF Exit, TypeInv, Guards
  <2>2. snap' \in [Threads -> [Snaps -> [o : Ptr, k : Kinds]]]
    BY <1>2, <1>4 DEF Exit, TypeInv
  <2> QED  BY <1>1, <1>4, <2>1, <2>2 DEF Exit, TypeInv, heap
<1>5. ASSUME NEW s \in Snaps, Clear(t, s) PROVE TypeInv'
  <2>1. snap' \in [Threads -> [Snaps -> [o : Ptr, k : Kinds]]]
    BY <1>2, <1>5 DEF Clear, SetSnap, TypeInv
  <2> QED  BY <1>1, <1>5, <2>1 DEF Clear, TypeInv, heap
<1> QED  BY <1>3, <1>4, <1>5 DEF Leaving

\* An entry that waits for u no more.
Less(e, u) == [e EXCEPT !.wait = @ \ {u}]

LEMMA ScanCount ==
  ASSUME TypeInv, NEW e \in DOMAIN retired, NEW u \in Threads, NEW s \in Snaps, Scan(e, u, s)
  PROVE  /\ GoodBag(retired') /\ Less(e, <<u, s>>) \in Entries
         /\ DOMAIN retired' \subseteq DOMAIN retired \cup {Less(e, <<u, s>>)}
         /\ \A k, o, V : Loose(k, o, V)' = Loose(k, o, V)
                           - One(Matches(e, k, o, V)) + One(Matches(Less(e, <<u, s>>), k, o, V))
<1> DEFINE B == BagRemove(retired, e)
           d == Less(e, <<u, s>>)
<1>1. GoodBag(retired) /\ e \in Entries
  BY DEF TypeInv, GoodBag, BagToSet
<1>2. /\ GoodBag(B) /\ DOMAIN B \subseteq DOMAIN retired
      /\ \A k, o, V : CountIn(B, k, o, V)
                        = CountIn(retired, k, o, V) - IF Matches(e, k, o, V) THEN 1 ELSE 0
  BY <1>1, RemoveCount
<1>3. d \in Entries
  BY <1>1 DEF Entries, Less
<1>4. retired' = BagAdd(B, d)
  BY DEF Scan, Less
<1> HIDE DEF B, d
<1>5. /\ GoodBag(BagAdd(B, d)) /\ DOMAIN BagAdd(B, d) = DOMAIN B \cup {d}
      /\ \A k, o, V : CountIn(BagAdd(B, d), k, o, V)
                        = CountIn(B, k, o, V) + IF Matches(d, k, o, V) THEN 1 ELSE 0
  BY <1>2, <1>3, AddCount
<1>6. \A k, o, V : CountIn(retired, k, o, V) \in Nat
  BY <1>1, LooseFinite
<1> QED  BY <1>2, <1>3, <1>4, <1>5, <1>6 DEF Loose, One, d

LEMMA TypeStep == ASSUME TypeInv, Next PROVE TypeInv' /\ client' = client /\ Cells' = Cells
<1>1. client' = client
  <2>1. ASSUME NEW t \in Threads, Enter(t) \/ Leaving(t) \/ Owning(t) \/ Updating(t) \/ Reading(t)
        PROVE  client' = client
    BY <2>1 DEF Enter, Leaving, Exit, Clear, Owning, New, Drop, Clone, FromSnapshot, FromStrong,
                Upgrade, Take, Updating, Store, Swap, StoreSnap, CasSnap, Reading, Load, Protect
  <2>2. ASSUME NEW t \in Threads, Continue(t) PROVE client' = client
    BY <2>2 DEF Continue, StoreSwap, CasInc, Publish, Validate, Check, CasSwap, Settle,
                ReleaseLast, ReleaseDelay, Dispose
  <2>3. ASSUME NEW t \in Threads, Collect(t) PROVE client' = client
    BY <2>3 DEF Collect, Eject, Dispose
  <2>4. ASSUME Scanning PROVE client' = client
    BY <2>4 DEF Scanning, Scan
  <2> QED  BY <2>1, <2>2, <2>3, <2>4 DEF Next
<1>2. Cells' = Cells
  BY <1>1 DEF Cells, Nodes
<1>3. ASSUME NEW t \in Threads, NEW e \in BagToSet(retired), Eject(t, e) PROVE TypeInv'
  BY <1>3, CollectType DEF BagToSet
<1>4. ASSUME NEW e \in BagToSet(retired), NEW u \in Threads, NEW s \in Snaps, Scan(e, u, s) PROVE TypeInv'
  <2>1. GoodBag(retired')
    BY <1>4, ScanCount DEF BagToSet
  <2>2. Controls' = Controls
    BY <1>1, <1>2 DEF Controls, Ptr
  <2> QED  BY <1>1, <1>2, <1>4, <2>1, <2>2 DEF Scan, TypeInv, heap
<1> QED
  BY <1>1, <1>2, <1>3, <1>4, LeavingType, OwningType, UpdatingType, ReadingType, CallingType, SettlingType
     DEF Next, Continue, Collect, Scanning

-------------------------------------------------------------------------------
(* What a step of one thread does to the sets and the counts. *)

Same(t) == /\ client' = client
           /\ \A u \in Threads \ {t} : /\ pc'[u] = pc[u] /\ snap'[u] = snap[u]
                                      /\ \A k \in Kinds : own'[k][u] = own[k][u]

Release(p, o) == p.at = "release" /\ p.o = o
Calm(p)       == p.at \notin {"publish", "validate"}

LEMMA PlacesStep ==
  ASSUME TypeInv, NEW t \in Threads, \A u \in Threads \ {t} : pc'[u] = pc[u]
  PROVE  /\ \A l, k, o : At(l, k, o)' \ {t} = At(l, k, o) \ {t}
         /\ \A l, k, o : (t \in At(l, k, o)' <=> In(pc'[t], l, k, o))
         /\ \A l, k, o : (t \in At(l, k, o) <=> In(pc[t], l, k, o))
         /\ \A o : Releasers(o)' \ {t} = Releasers(o) \ {t}
         /\ \A o : (t \in Releasers(o)' <=> Release(pc'[t], o))
         /\ \A o : (t \in Releasers(o) <=> Release(pc[t], o))
<1>1. \A l, k, o : \A u \in Threads : /\ u \in At(l, k, o)' <=> In(pc'[u], l, k, o)
                                      /\ u \in At(l, k, o) <=> In(pc[u], l, k, o)
  BY DEF At, In, Kind
<1>2. \A o : \A u \in Threads : /\ u \in Releasers(o)' <=> Release(pc'[u], o)
                                /\ u \in Releasers(o) <=> Release(pc[u], o)
  BY DEF Releasers, Release
<1>3. \A l, k, o : At(l, k, o)' \subseteq Threads /\ At(l, k, o) \subseteq Threads
  BY DEF At
<1>4. \A o : Releasers(o)' \subseteq Threads /\ Releasers(o) \subseteq Threads
  BY DEF Releasers
<1> QED  BY <1>1, <1>2, <1>3, <1>4

\* What TypeInv implies for the counts, also in the next state.
OwnerFacts == \A k \in Kinds, o \in Objs :
  /\ Owners(k, o) = Cardinality(CellsOf(k, o)) + Cardinality(VarsOf(k, o))
                  + Loose(k, o, {}) + Cardinality(At("swap", k, o))
  /\ Disposers(o) = Cardinality(Releasers(o)) + Loose("dispose", o, {})
  /\ Owners(k, o) \in Nat /\ Disposers(o) \in Nat /\ Loose(k, o, {}) <= Owners(k, o)
LEMMA OwnerLemma == TypeInv => OwnerFacts
BY OwnersIs DEF OwnerFacts
LEMMA OwnerNext == TypeInv' => OwnerFacts'
BY OwnerLemma, PTL

\* The owners of kind k, of a step that changes at most one cell and t's part.
LEMMA OwnersStep ==
  ASSUME TypeInv, TypeInv', Cells' = Cells, NEW t \in Threads, Same(t),
         NEW c \in Cells \cup {Null}, \A d \in Cells \ {c} : cell'[d] = cell[d],
         NEW k \in Kinds, NEW o \in Objs
  PROVE  /\ Owners(k, o)' = Owners(k, o)
              + One(c \in Cells /\ Kind(c) = k /\ cell'[c] = o) - One(c \in Cells /\ Kind(c) = k /\ cell[c] = o)
              + One(own'[k][t] = o) - One(own[k][t] = o)
              + Loose(k, o, {})' - Loose(k, o, {})
              + One(In(pc'[t], "swap", k, o)) - One(In(pc[t], "swap", k, o))
         /\ Owners(k, o) \in Nat /\ Owners(k, o)' \in Nat
         /\ Loose(k, o, {}) \in Nat /\ Loose(k, o, {})' \in Nat
<1>1. /\ Owners(k, o) = Cardinality(CellsOf(k, o)) + Cardinality(VarsOf(k, o))
                        + Loose(k, o, {}) + Cardinality(At("swap", k, o))
      /\ Owners(k, o) \in Nat
  BY OwnersIs
<1>2. /\ Owners(k, o)' = Cardinality(CellsOf(k, o)') + Cardinality(VarsOf(k, o)')
                         + Loose(k, o, {})' + Cardinality(At("swap", k, o)')
      /\ Owners(k, o)' \in Nat
  BY OwnerNext DEF OwnerFacts
<1>3. /\ Loose(k, o, {}) \in Nat /\ IsFiniteSet(CellsOf(k, o)) /\ IsFiniteSet(VarsOf(k, o))
      /\ IsFiniteSet(At("swap", k, o))
  BY Finite
<1>4. Loose(k, o, {})' \in Nat
  BY LooseFinite DEF Loose, TypeInv
<1>5. /\ Cardinality(CellsOf(k, o)') \in Nat /\ Cardinality(CellsOf(k, o)) \in Nat
      /\ Cardinality(CellsOf(k, o)') = Cardinality(CellsOf(k, o))
           + One(c \in CellsOf(k, o)') - One(c \in CellsOf(k, o))
  <2>1. CellsOf(k, o)' \ {c} = CellsOf(k, o) \ {c}
    BY DEF CellsOf, Kind
  <2> QED  BY <1>3, <2>1, OneElement
<1>6. /\ Cardinality(VarsOf(k, o)') \in Nat /\ Cardinality(VarsOf(k, o)) \in Nat
      /\ Cardinality(VarsOf(k, o)') = Cardinality(VarsOf(k, o))
           + One(t \in VarsOf(k, o)') - One(t \in VarsOf(k, o))
  <2>1. VarsOf(k, o)' \ {t} = VarsOf(k, o) \ {t}
    BY DEF VarsOf, Same
  <2> QED  BY <1>3, <2>1, OneElement
<1>7. /\ Cardinality(At("swap", k, o)') \in Nat /\ Cardinality(At("swap", k, o)) \in Nat
      /\ Cardinality(At("swap", k, o)') = Cardinality(At("swap", k, o))
           + One(t \in At("swap", k, o)') - One(t \in At("swap", k, o))
  <2>1. At("swap", k, o)' \ {t} = At("swap", k, o) \ {t}
    BY PlacesStep DEF Same
  <2> QED  BY <1>3, <2>1, OneElement
<1>8. /\ One(c \in CellsOf(k, o)') = One(c \in Cells /\ Kind(c) = k /\ cell'[c] = o)
      /\ One(c \in CellsOf(k, o)) = One(c \in Cells /\ Kind(c) = k /\ cell[c] = o)
      /\ One(t \in VarsOf(k, o)') = One(own'[k][t] = o)
      /\ One(t \in VarsOf(k, o)) = One(own[k][t] = o)
  BY DEF CellsOf, VarsOf, Kind, One
<1>9. /\ One(t \in At("swap", k, o)') = One(In(pc'[t], "swap", k, o))
      /\ One(t \in At("swap", k, o)) = One(In(pc[t], "swap", k, o))
  BY PlacesStep DEF Same, One
<1>10. \A b : One(b) \in Nat
  BY DEF One
<1> QED  BY <1>1, <1>2, <1>3, <1>4, <1>5, <1>6, <1>7, <1>8, <1>9, <1>10

LEMMA DisposersStep ==
  ASSUME TypeInv, TypeInv', NEW t \in Threads, Same(t), NEW o \in Objs
  PROVE  /\ Disposers(o)' = Disposers(o) + Loose("dispose", o, {})' - Loose("dispose", o, {})
                           + One(Release(pc'[t], o)) - One(Release(pc[t], o))
         /\ Disposers(o) \in Nat /\ Disposers(o)' \in Nat
         /\ Loose("dispose", o, {}) \in Nat /\ Loose("dispose", o, {})' \in Nat
<1>1. "strong" \in Kinds
  BY DEF Kinds
<1>2. Disposers(o) = Cardinality(Releasers(o)) + Loose("dispose", o, {}) /\ Disposers(o) \in Nat
  BY <1>1, OwnersIs
<1>3. Disposers(o)' = Cardinality(Releasers(o)') + Loose("dispose", o, {})' /\ Disposers(o)' \in Nat
  BY <1>1, OwnerNext DEF OwnerFacts
<1>4. Loose("dispose", o, {}) \in Nat /\ IsFiniteSet(Releasers(o))
  BY Finite
<1>5. Loose("dispose", o, {})' \in Nat
  BY LooseFinite DEF Loose, TypeInv
<1>6. /\ Cardinality(Releasers(o)') \in Nat /\ Cardinality(Releasers(o)) \in Nat
      /\ Cardinality(Releasers(o)') = Cardinality(Releasers(o))
           + One(t \in Releasers(o)') - One(t \in Releasers(o))
  <2>1. Releasers(o)' \ {t} = Releasers(o) \ {t}
    BY PlacesStep DEF Same
  <2> QED  BY <1>4, <2>1, OneElement
<1>7. /\ One(t \in Releasers(o)') = One(Release(pc'[t], o))
      /\ One(t \in Releasers(o)) = One(Release(pc[t], o))
  BY PlacesStep DEF Same, One
<1>8. \A b : One(b) \in Nat
  BY DEF One
<1> QED  BY <1>2, <1>3, <1>4, <1>5, <1>6, <1>7, <1>8

\* Whom a snapshot of another thread protects does not change.
LEMMA ProtectorsStep ==
  ASSUME NEW t \in Threads, Same(t)
  PROVE  /\ \A u \in Threads, s \in Snaps : Guard(u, s)' = Guard(u, s)
         /\ \A u \in Threads \ {t}, s \in Snaps : \A k, o : Protects(u, s, k, o)' <=> Protects(u, s, k, o)
         /\ \A k, o : /\ \A u \in Threads, s \in Snaps :
                            Protects(u, s, k, o)' => Guard(u, s) \in Protectors(k, o)'
                      /\ \A g \in Protectors(k, o)' : \E u \in Threads, s \in Snaps :
                            g = Guard(u, s) /\ Protects(u, s, k, o)'
                      /\ Protectors(k, o)' \subseteq Guards
<1>1. \A u \in Threads, s \in Snaps : Guard(u, s)' = Guard(u, s) /\ Guard(u, s) \in Guards
  <2>1. \A u \in Threads, s \in Snaps : Guard(u, s)' = Guard(u, s)
    BY DEF Same, Guard, Scheme
  <2> QED  BY <2>1, GuardFacts
<1>2. \A u \in Threads \ {t}, s \in Snaps : \A k, o : Protects(u, s, k, o)' <=> Protects(u, s, k, o)
  BY DEF Same, Protects, Settled
<1>3. \A k, o : \A g : g \in Protectors(k, o)' <=>
        g \in Guards /\ \E u \in Threads, s \in Snaps : g = Guard(u, s)' /\ Protects(u, s, k, o)'
  BY DEF Protectors, Guards
<1> QED  BY <1>1, <1>2, <1>3

LEMMA ProtectorsSame ==
  ASSUME NEW t \in Threads, Same(t), snap'[t] = snap[t], Calm(pc[t]), Calm(pc'[t])
  PROVE  /\ \A k, o : Protectors(k, o)' = Protectors(k, o)
         /\ \A o : Shielders(o)' = Shielders(o)
<1>1. \A s \in Snaps : \A k, o : Protects(t, s, k, o)' <=> Protects(t, s, k, o)
  BY DEF Protects, Settled, Calm
<1>2. ASSUME NEW k, NEW o PROVE Protectors(k, o)' = Protectors(k, o)
  <2>1. \A u \in Threads, s \in Snaps : Protects(u, s, k, o)' <=> Protects(u, s, k, o)
    BY <1>1, ProtectorsStep
  <2>2. /\ \A u \in Threads, s \in Snaps : Protects(u, s, k, o)' => Guard(u, s) \in Protectors(k, o)'
        /\ \A g \in Protectors(k, o)' : \E u \in Threads, s \in Snaps :
              g = Guard(u, s) /\ Protects(u, s, k, o)'
    BY ProtectorsStep
  <2>3. /\ \A u \in Threads, s \in Snaps : Protects(u, s, k, o) => Guard(u, s) \in Protectors(k, o)
        /\ \A g \in Protectors(k, o) : \E u \in Threads, s \in Snaps :
              g = Guard(u, s) /\ Protects(u, s, k, o)
    BY ProtectorsAre
  <2>4. \A g \in Protectors(k, o) : g \in Protectors(k, o)'
    BY <2>1, <2>2, <2>3
  <2>5. \A g \in Protectors(k, o)' : g \in Protectors(k, o)
    BY <2>1, <2>2, <2>3
  <2> QED  BY <2>4, <2>5
<1> QED  BY <1>2 DEF Shielders

\* No snapshot of t protects anything new.
LEMMA ProtectorsFewer ==
  ASSUME NEW t \in Threads, Same(t),
         \A s \in Snaps : \/ snap'[t][s] = snap[t][s] /\ Settled(t, s)
                          \/ snap'[t][s].o \notin Objs
                          \/ ~Settled(t, s)'
  PROVE  \A k : \A o \in Objs : Protectors(k, o)' \subseteq Protectors(k, o)
<1>1. ASSUME NEW k, NEW o \in Objs PROVE Protectors(k, o)' \subseteq Protectors(k, o)
  <2>1. \A s \in Snaps : Protects(t, s, k, o)' => Protects(t, s, k, o)
    BY DEF Protects
  <2> QED  BY <2>1, ProtectorsStep, ProtectorsAre
<1> QED  BY <1>1

-------------------------------------------------------------------------------
(* What a step does to the cover of the protectors of one kind of reference. *)

UsersFacts == \A k, o : /\ Protectors(k, o) \subseteq Guards /\ Incs(k, o) \subseteq Guards
                         /\ Users(k, o) \subseteq Guards
                         /\ Cardinality(Incs(k, o)) <= Cardinality(Threads)
LEMMA UsersGuards == TypeInv => UsersFacts
BY IncsAre, Finite DEF UsersFacts, Protectors, Users
LEMMA UsersNext == TypeInv' => UsersFacts'
BY UsersGuards, PTL

LEMMA BonusType == \A k, o, V : Bonus(k, o, V) \in {0, 1}
BY DEF Bonus

\* Only the users of a reference have to be looked at.
CoverFacts == \A k \in Kinds, o \in Objs :
  (\A V \in SUBSET Users(k, o) : V # {} => Kept(k, o, V)) => Covered(k, o)
LEMMA CoverLemma == TypeInv => CoverFacts
<1>1. SUFFICES ASSUME TypeInv, NEW k \in Kinds, NEW o \in Objs, NEW V \in SUBSET Guards,
                      \A U \in SUBSET Users(k, o) : U # {} => Kept(k, o, U)
               PROVE  Kept(k, o, V)
  BY DEF CoverFacts, Covered
<1> DEFINE W == V \cap Users(k, o)
<1>2. V \cap Protectors(k, o) = W \cap Protectors(k, o) /\ V \cap Incs(k, o) = W \cap Incs(k, o)
  BY DEF Users
<1>3. Incs(k, o) \cap V = Incs(k, o) \cap W
  BY <1>2
<1>4. Bonus(k, o, V) = Bonus(k, o, W)
  BY <1>2 DEF Bonus
<1>5. /\ Loose(k, o, V) <= Loose(k, o, W) /\ Loose(k, o, V) <= Loose(k, o, {})
      /\ Loose(k, o, V) \in Nat /\ Loose(k, o, W) \in Nat /\ Loose(k, o, {}) \in Nat
  BY <1>1, LooseShrinks, Finite DEF Loose, TypeInv
<1>6. Loose(k, o, {}) <= Owners(k, o) /\ Owners(k, o) \in Nat
  BY <1>1, OwnersIs
<1>7. Bonus(k, o, W) \in Nat /\ Cardinality(Incs(k, o) \cap W) \in Nat
  BY BonusType, GuardSets, UsersGuards DEF UsersFacts
<1>8. CASE W = {}
  <2>1. Bonus(k, o, V) = 0
    BY <1>4, <1>8 DEF Bonus
  <2>2. Incs(k, o) \cap V = {}
    BY <1>3, <1>8
  <2>3. Cardinality(Incs(k, o) \cap V) = 0
    BY <2>2, FS_EmptySet
  <2> QED  BY <1>5, <1>6, <2>1, <2>3 DEF Kept
<1>9. CASE W # {}
  <2>1. Kept(k, o, W)
    BY <1>1, <1>9
  <2>2. Loose(k, o, W) + Bonus(k, o, W) + Cardinality(Incs(k, o) \cap W) <= Owners(k, o)
    BY <2>1 DEF Kept
  <2>3. Cardinality(Incs(k, o) \cap V) = Cardinality(Incs(k, o) \cap W)
    BY <1>3
  <2> HIDE DEF W
  <2>4. Loose(k, o, V) + Bonus(k, o, V) + Cardinality(Incs(k, o) \cap V) <= Owners(k, o)
    BY <1>4, <1>5, <1>6, <1>7, <2>2, <2>3
  <2> QED  BY <2>4 DEF Kept
<1> QED  BY <1>8, <1>9
LEMMA CoverNext == TypeInv' => CoverFacts'
BY CoverLemma, PTL

\* The types of what is compared, also in the next state.
CoverTypes == \A k \in Kinds, o \in Objs, V \in SUBSET Guards :
                /\ Loose(k, o, V) \in Nat /\ Loose(k, o, {}) \in Nat /\ Owners(k, o) \in Nat
                /\ Bonus(k, o, V) \in {0, 1} /\ Cardinality(Incs(k, o) \cap V) \in Nat
LEMMA CoverTypesLemma == TypeInv => CoverTypes
BY Finite, OwnersIs, BonusType, GuardSets, UsersGuards DEF CoverTypes, UsersFacts
LEMMA CoverTypesNext == TypeInv' => CoverTypes'
BY CoverTypesLemma, PTL

LEMMA CoveredQuiet ==
  ASSUME TypeInv, TypeInv', NEW k \in Kinds, NEW o \in Objs, Covered(k, o),
         Incs(k, o)' = Incs(k, o), Owners(k, o)' >= Owners(k, o),
         \A V \in SUBSET Users(k, o)' : V # {} => Loose(k, o, V)' <= Loose(k, o, V),
         \A u \in Protectors(k, o)' : u \notin Protectors(k, o) =>
            Owners(k, o) > Loose(k, o, {}) /\ u \notin Incs(k, o)
  PROVE  Covered(k, o)'
<1>1. SUFFICES ASSUME NEW V \in SUBSET Users(k, o)', V # {} PROVE Kept(k, o, V)'
  BY CoverNext DEF CoverFacts
<1> DEFINE I == Incs(k, o)
           P == Protectors(k, o)
           Q == Protectors(k, o)'
<1>2. V \subseteq Guards
  BY UsersNext DEF UsersFacts, Guards
<1>3. /\ Loose(k, o, V) \in Nat /\ Loose(k, o, {}) \in Nat /\ Owners(k, o) \in Nat
      /\ Bonus(k, o, V) \in {0, 1} /\ Cardinality(I \cap V) \in Nat
  BY <1>2, CoverTypesLemma DEF CoverTypes
<1>4. Loose(k, o, V)' \in Nat /\ Owners(k, o)' \in Nat /\ Bonus(k, o, V)' \in {0, 1}
  BY <1>2, CoverTypesNext DEF CoverTypes
<1>5. Loose(k, o, V) + Bonus(k, o, V) + Cardinality(I \cap V) <= Owners(k, o)
  BY <1>2 DEF Covered, Kept
<1>6. Loose(k, o, V)' <= Loose(k, o, V) /\ Loose(k, o, V) <= Loose(k, o, {})
  BY <1>1, LooseShrinks DEF Loose, TypeInv
<1>7. Bonus(k, o, V) = IF V \cap P # {} /\ V \cap I \subseteq P THEN 1 ELSE 0
  BY DEF Bonus
<1>8. Bonus(k, o, V)' = IF V \cap Q # {} /\ V \cap I \subseteq Q THEN 1 ELSE 0
  BY DEF Bonus
<1>9. \A u \in Q : u \notin P => Owners(k, o) > Loose(k, o, {}) /\ u \notin I
  OBVIOUS
<1>10. SUFFICES Loose(k, o, V)' + Bonus(k, o, V)' + Cardinality(I \cap V) <= Owners(k, o)'
  BY DEF Kept
<1> HIDE DEF I, P, Q
<1>11. CASE Bonus(k, o, V)' <= Bonus(k, o, V)
  BY <1>3, <1>4, <1>5, <1>6, <1>11
<1>12. CASE Bonus(k, o, V)' = 1 /\ Bonus(k, o, V) = 0
  <2>1. V \cap Q # {} /\ V \cap I \subseteq Q
    BY <1>8, <1>12
  <2>2. V \cap I \subseteq P
    BY <1>9, <2>1
  <2>3. V \cap P = {}
    BY <1>7, <1>12, <2>2
  <2>4. I \cap V = {}
    BY <2>2, <2>3
  <2>5. Owners(k, o) > Loose(k, o, {})
    BY <1>9, <2>1, <2>3
  <2>6. Cardinality(I \cap V) = 0
    BY <2>4, FS_EmptySet
  <2> QED  BY <1>3, <1>4, <1>6, <1>12, <2>5, <2>6
<1> QED  BY <1>3, <1>4, <1>11, <1>12

\* A reference of its own gives way to one that does not wait for anyone.
LEMMA CoveredLess ==
  ASSUME TypeInv, TypeInv', NEW k \in Kinds, NEW o \in Objs, Covered(k, o),
         Incs(k, o)' = Incs(k, o), Protectors(k, o)' = Protectors(k, o),
         Owners(k, o)' = Owners(k, o) - 1,
         \A V \in SUBSET Guards : Loose(k, o, V)' = Loose(k, o, V) - 1
  PROVE  Covered(k, o)'
<1>1. SUFFICES ASSUME NEW V \in SUBSET Guards PROVE Kept(k, o, V)'
  BY DEF Covered
<1>2. /\ Loose(k, o, V) \in Nat /\ Owners(k, o) \in Nat
      /\ Bonus(k, o, V) \in {0, 1} /\ Cardinality(Incs(k, o) \cap V) \in Nat
  BY CoverTypesLemma DEF CoverTypes
<1>3. Loose(k, o, V) + Bonus(k, o, V) + Cardinality(Incs(k, o) \cap V) <= Owners(k, o)
  BY DEF Covered, Kept
<1>4. Bonus(k, o, V)' = Bonus(k, o, V)
  BY DEF Bonus
<1>5. Loose(k, o, V)' = Loose(k, o, V) - 1
  OBVIOUS
<1> QED  BY <1>2, <1>3, <1>4, <1>5 DEF Kept

\* There is one more reference, which is still to be counted under g.
LEMMA CoveredCas ==
  ASSUME TypeInv, TypeInv', NEW k \in Kinds, NEW o \in Objs, Covered(k, o),
         NEW g, g \notin Incs(k, o), Incs(k, o)' = Incs(k, o) \cup {g},
         Protectors(k, o)' = Protectors(k, o), Owners(k, o)' = Owners(k, o) + 1,
         \A V \in SUBSET Guards : Loose(k, o, V)' = Loose(k, o, V)
  PROVE  Covered(k, o)'
<1>1. SUFFICES ASSUME NEW V \in SUBSET Guards PROVE Kept(k, o, V)'
  BY DEF Covered
<1> DEFINE I == Incs(k, o)
           J == Incs(k, o)'
<1>2. /\ Loose(k, o, V) \in Nat /\ Owners(k, o) \in Nat
      /\ Bonus(k, o, V) \in {0, 1} /\ Cardinality(I \cap V) \in Nat
  BY CoverTypesLemma DEF CoverTypes
<1>3. Loose(k, o, V) + Bonus(k, o, V) + Cardinality(I \cap V) <= Owners(k, o)
  BY DEF Covered, Kept
<1>4. Bonus(k, o, V)' \in {0, 1} /\ Bonus(k, o, V)' <= Bonus(k, o, V)
  BY DEF Bonus
<1>5. Cardinality(J \cap V) \in Nat /\ Cardinality(J \cap V) <= Cardinality(I \cap V) + 1
  <2>1. IsFiniteSet(I \cap V)
    BY GuardSets, UsersGuards DEF UsersFacts
  <2>2. (J \cap V) \ {g} = (I \cap V) \ {g}
    OBVIOUS
  <2>3. /\ Cardinality(J \cap V) \in Nat
        /\ Cardinality(J \cap V) = Cardinality(I \cap V) + One(g \in J \cap V) - One(g \in I \cap V)
    BY <2>1, <2>2, OneElement
  <2> HIDE DEF I, J
  <2> QED  BY <1>2, <2>3 DEF One
<1>6. Loose(k, o, V)' = Loose(k, o, V)
  OBVIOUS
<1> HIDE DEF I
<1>7. Loose(k, o, V)' + Bonus(k, o, V)' + Cardinality(J \cap V) <= Owners(k, o)'
  <2> HIDE DEF J
  <2> QED  BY <1>2, <1>3, <1>4, <1>5, <1>6
<1> QED  BY <1>7 DEF Kept

\* The reference is counted.
LEMMA CoveredInc ==
  ASSUME TypeInv, TypeInv', NEW k \in Kinds, NEW o \in Objs, Covered(k, o),
         NEW g \in Incs(k, o), Incs(k, o)' = Incs(k, o) \ {g},
         Protectors(k, o)' = Protectors(k, o), Owners(k, o)' = Owners(k, o),
         \A V \in SUBSET Guards : Loose(k, o, V)' = Loose(k, o, V)
  PROVE  Covered(k, o)'
<1>1. SUFFICES ASSUME NEW V \in SUBSET Guards PROVE Kept(k, o, V)'
  BY DEF Covered
<1> DEFINE I == Incs(k, o)
           J == Incs(k, o)'
<1>2. /\ Loose(k, o, V) \in Nat /\ Owners(k, o) \in Nat
      /\ Bonus(k, o, V) \in {0, 1} /\ Cardinality(I \cap V) \in Nat
  BY CoverTypesLemma DEF CoverTypes
<1>3. Loose(k, o, V) + Bonus(k, o, V) + Cardinality(I \cap V) <= Owners(k, o)
  BY DEF Covered, Kept
<1>4. Bonus(k, o, V)' \in {0, 1} /\ (g \notin V => Bonus(k, o, V)' = Bonus(k, o, V))
  <2>1. g \notin V => V \cap J = V \cap I
    OBVIOUS
  <2> QED  BY <2>1 DEF Bonus
<1>5. /\ Cardinality(J \cap V) \in Nat
      /\ Cardinality(J \cap V) = Cardinality(I \cap V) - One(g \in V)
  <2>1. IsFiniteSet(I \cap V)
    BY GuardSets, UsersGuards DEF UsersFacts
  <2>2. (J \cap V) \ {g} = (I \cap V) \ {g} /\ g \notin J \cap V /\ (g \in I \cap V <=> g \in V)
    OBVIOUS
  <2>3. /\ Cardinality(J \cap V) \in Nat
        /\ Cardinality(J \cap V) = Cardinality(I \cap V) + One(g \in J \cap V) - One(g \in I \cap V)
    BY <2>1, <2>2, OneElement
  <2> HIDE DEF I, J
  <2> QED  BY <1>2, <2>2, <2>3 DEF One
<1>6. Loose(k, o, V)' = Loose(k, o, V)
  OBVIOUS
<1> HIDE DEF I
<1>7. Loose(k, o, V)' + Bonus(k, o, V)' + Cardinality(J \cap V) <= Owners(k, o)'
  <2> HIDE DEF J
  <2> QED  BY <1>2, <1>3, <1>4, <1>5, <1>6 DEF One
<1> QED  BY <1>7 DEF Kept

-------------------------------------------------------------------------------
(* What the books say of an object. *)

\* Whatever a reference to o has to be counted under protects o.
Shielded(o) == /\ \A k \in Kinds : Incs(k, o) \subseteq Shielders(o)
               /\ Incs("strong", o) \subseteq Protectors("strong", o)

LEMMA ShieldedLemma == ASSUME TypeInv, \A t \in Threads : ThreadOK(t) PROVE \A o : Shielded(o)
<1>1. SUFFICES ASSUME NEW o, NEW k \in Kinds, NEW g \in Incs(k, o)
               PROVE  g \in Shielders(o) /\ (k = "strong" => g \in Protectors("strong", o))
  BY DEF Shielded, Kinds
<1>2. PICK t \in Threads : g = Guard(t, pc[t].s) /\ In(pc[t], "inc", k, o)
  BY IncsAre
<1>3. pc[t].at = "inc" /\ pc[t].o = o /\ pc[t].k = k
  BY <1>2 DEF In
<1>4. IncOK(t)
  BY <1>2 DEF ThreadOK
<1> QED  BY <1>2, <1>3, <1>4 DEF IncOK

\* A counter that counts has at least the references that wait for nobody.
LeastFacts == \A k \in Kinds, o \in Objs :
  Balanced(k, o) /\ Covered(k, o) /\ Counting(k, o) =>
    /\ Loose(k, o, Guards) \in Nat /\ Extra(k, o) \in {0, 1} /\ cnt[k][o] \in Int
    /\ cnt[k][o] >= Loose(k, o, Guards) + Bonus(k, o, Guards) + Extra(k, o)
    /\ cnt[k][o] >= 0
LEMMA LeastLemma == TypeInv => LeastFacts
<1>1. SUFFICES ASSUME TypeInv, NEW k \in Kinds, NEW o \in Objs,
                      Balanced(k, o), Covered(k, o), Counting(k, o)
               PROVE  /\ Loose(k, o, Guards) \in Nat /\ Extra(k, o) \in {0, 1} /\ cnt[k][o] \in Int
                      /\ cnt[k][o] >= Loose(k, o, Guards) + Bonus(k, o, Guards) + Extra(k, o)
                      /\ cnt[k][o] >= 0
  BY DEF LeastFacts
<1>2. Incs(k, o) \cap Guards = Incs(k, o)
  BY <1>1, UsersGuards DEF UsersFacts
<1>3. Loose(k, o, Guards) + Bonus(k, o, Guards) + Cardinality(Incs(k, o)) <= Owners(k, o)
  BY <1>1, <1>2 DEF Covered, Kept
<1>4. cnt[k][o] + Cardinality(Incs(k, o)) = Owners(k, o) + Extra(k, o)
  BY <1>1 DEF Balanced
<1>5. /\ Loose(k, o, Guards) \in Nat /\ Bonus(k, o, Guards) \in {0, 1}
      /\ Cardinality(Incs(k, o)) \in Nat /\ Owners(k, o) \in Nat
  BY <1>1, <1>2, CoverTypesLemma DEF CoverTypes
<1>6. Extra(k, o) \in {0, 1} /\ cnt[k][o] \in Int
  BY <1>1 DEF Extra, TypeInv
<1> QED  BY <1>3, <1>4, <1>5, <1>6
LEMMA LeastNext == TypeInv' => LeastFacts'
BY LeastLemma, PTL

LEMMA CountFacts ==
  ASSUME TypeInv, NEW o \in Objs, ObjOK(o), Shielded(o)
  PROVE  /\ \A k \in Kinds : Owners(k, o) > 0 => Counting(k, o)
         /\ \A k \in Kinds : Incs(k, o) # {} => Counting(k, o)
         /\ Counting("strong", o) => life[o] = "live"
         /\ life[o] = "live" => Counting("weak", o)
         /\ Protectors("strong", o) # {} => cnt["strong"][o] >= 1
         /\ Shielders(o) # {} => cnt["weak"][o] >= 1
         /\ \A k \in Kinds : Counting(k, o) /\ Loose(k, o, Guards) >= 1 => cnt[k][o] >= 1
<1>1. \A k \in Kinds : Balanced(k, o) /\ Covered(k, o)
  BY DEF ObjOK, Books
<1>2. \A k \in Kinds : Owners(k, o) > 0 \/ Incs(k, o) # {} => Counting(k, o)
  BY <1>1, OwnersIs DEF Balanced
<1>3. Counting("strong", o) => life[o] = "live"
  BY DEF Counting, Alive, ObjOK, LifeOK
<1>4. life[o] = "live" => Counting("weak", o)
  BY <1>1 DEF Balanced, Extra, Kinds
<1>5. \A k \in Kinds : Counting(k, o) =>
        /\ Loose(k, o, Guards) \in Nat /\ Extra(k, o) \in {0, 1} /\ cnt[k][o] \in Int
        /\ cnt[k][o] >= Loose(k, o, Guards) + Bonus(k, o, Guards) + Extra(k, o)
        /\ Bonus(k, o, Guards) \in {0, 1}
  BY <1>1, LeastLemma, BonusType DEF LeastFacts
<1>6. ASSUME Protectors("strong", o) # {} PROVE cnt["strong"][o] >= 1
  <2>1. "strong" \in Kinds /\ Counting("strong", o)
    BY <1>6 DEF ObjOK, ProtectedOK, Counting, Alive, Kinds
  <2>2. Bonus("strong", o, Guards) = 1
    BY <1>6, UsersGuards DEF UsersFacts, Bonus, Shielded
  <2> QED  BY <1>5, <2>1, <2>2
<1>7. ASSUME Shielders(o) # {} PROVE cnt["weak"][o] >= 1
  <2>1. "weak" \in Kinds /\ Counting("weak", o)
    BY <1>7 DEF ObjOK, ProtectedOK, Kinds
  <2>2. CASE Protectors("strong", o) # {}
    <3>1. Extra("weak", o) = 1
      BY <2>2 DEF Extra, ObjOK, ProtectedOK
    <3> QED  BY <1>5, <2>1, <3>1
  <2>3. CASE Protectors("strong", o) = {}
    <3>1. Bonus("weak", o, Guards) = 1
      BY <1>7, <2>1, <2>3, UsersGuards DEF UsersFacts, Bonus, Shielded, Shielders
    <3> QED  BY <1>5, <2>1, <3>1
  <2> QED  BY <2>2, <2>3
<1>8. ASSUME NEW k \in Kinds, Counting(k, o), Loose(k, o, Guards) >= 1 PROVE cnt[k][o] >= 1
  BY <1>5, <1>8
<1> QED  BY <1>2, <1>3, <1>4, <1>6, <1>7, <1>8

\* A count of zero leaves no reference, and neither does a weak count that only
\* the value accounts for.
LEMMA ZeroFacts ==
  ASSUME TypeInv, NEW o \in Objs, ObjOK(o), Shielded(o)
  PROVE  /\ Counting("strong", o) /\ cnt["strong"][o] = 0 =>
              Owners("strong", o) = 0 /\ Incs("strong", o) = {} /\ Protectors("strong", o) = {}
         /\ life[o] = "disposed" /\ cnt["weak"][o] = 0 =>
              Owners("weak", o) = 0 /\ Incs("weak", o) = {} /\ Shielders(o) = {}
         /\ life[o] = "live" /\ flag["strong"][o] = "zero" /\ cnt["weak"][o] = 1 =>
              Owners("weak", o) = 0 /\ Incs("weak", o) = {} /\ Shielders(o) = {}
<1>1. \A k \in Kinds : Balanced(k, o) /\ Covered(k, o)
  BY DEF ObjOK, Books
<1>2. "strong" \in Kinds /\ "weak" \in Kinds
  BY DEF Kinds
<1>3. /\ \A k \in Kinds : Owners(k, o) \in Nat
      /\ \A k \in Kinds : cnt[k][o] \in Int
      /\ \A k \in Kinds : Incs(k, o) = {} => Cardinality(Incs(k, o)) = 0
  <2>1. \A k \in Kinds : Owners(k, o) \in Nat
    BY OwnersIs
  <2>2. \A k \in Kinds : cnt[k][o] \in Int
    BY DEF TypeInv
  <2> QED  BY <2>1, <2>2, FS_EmptySet
<1>4. ASSUME Counting("strong", o), cnt["strong"][o] = 0
      PROVE  Owners("strong", o) = 0 /\ Incs("strong", o) = {} /\ Protectors("strong", o) = {}
  <2>1. Protectors("strong", o) = {}
    BY <1>4, CountFacts
  <2>2. Incs("strong", o) = {}
    BY <2>1 DEF Shielded
  <2>3. 0 + 0 = Owners("strong", o) + 0
    BY <1>1, <1>2, <1>3, <1>4, <2>2 DEF Balanced, Extra
  <2> QED  BY <1>2, <1>3, <2>1, <2>2, <2>3
<1>5. ASSUME life[o] = "disposed", cnt["weak"][o] = 0
      PROVE  Owners("weak", o) = 0 /\ Incs("weak", o) = {} /\ Shielders(o) = {}
  <2>1. Shielders(o) = {}
    BY <1>5, CountFacts
  <2>2. Incs("weak", o) = {}
    BY <1>2, <2>1 DEF Shielded
  <2>3. Counting("weak", o)
    BY <1>5 DEF ObjOK, LifeOK, Counting, Alive, TypeInv, Kinds
  <2>4. 0 + 0 = Owners("weak", o) + 0
    BY <1>1, <1>2, <1>3, <1>5, <2>2, <2>3 DEF Balanced, Extra
  <2> QED  BY <1>2, <1>3, <2>1, <2>2, <2>4
<1>6. ASSUME life[o] = "live", flag["strong"][o] = "zero", cnt["weak"][o] = 1
      PROVE  Owners("weak", o) = 0 /\ Incs("weak", o) = {} /\ Shielders(o) = {}
  <2>1. Protectors("strong", o) = {}
    BY <1>6 DEF ObjOK, ProtectedOK
  <2>2. Incs("weak", o) \subseteq Protectors("weak", o)
    BY <1>2, <2>1 DEF Shielded, Shielders
  <2>3. Counting("weak", o) /\ Extra("weak", o) = 1
    BY <1>6, CountFacts DEF Extra
  <2>4. Bonus("weak", o, Guards) = 0
    BY <1>1, <1>2, <1>6, <2>3, LeastLemma, BonusType DEF LeastFacts
  <2>5. Protectors("weak", o) = {}
    BY <2>2, <2>4, UsersGuards DEF UsersFacts, Bonus
  <2>6. Incs("weak", o) = {} /\ Shielders(o) = {}
    BY <2>1, <2>2, <2>5 DEF Shielders
  <2>7. 1 + 0 = Owners("weak", o) + 1
    BY <1>1, <1>2, <1>3, <1>6, <2>3, <2>6 DEF Balanced
  <2> QED  BY <1>2, <1>3, <2>6, <2>7
<1> QED  BY <1>4, <1>5, <1>6

-------------------------------------------------------------------------------
(* What a step does to one object. *)

\* Nothing that the protectors are not waited for is retired, and no protection
\* is new that no owner backs.
Waited(o) == \A k \in Kinds : \A V \in SUBSET Users(k, o)' : V # {} => Loose(k, o, V)' <= Loose(k, o, V)
Backed(o) == \A k \in Kinds : \A u \in Protectors(k, o)' : u \notin Protectors(k, o) =>
                Owners(k, o) > Loose(k, o, {}) /\ u \notin Incs(k, o)

\* Nothing of the counter of kind k, or of the object, has changed.
SameCount(k, o) == /\ flag'[k][o] = flag[k][o] /\ cnt'[k][o] = cnt[k][o]
                   /\ Owners(k, o)' = Owners(k, o) /\ Incs(k, o)' = Incs(k, o)
                   /\ Settlers(k, o) \subseteq Settlers(k, o)'
SameObj(o)      == life'[o] = life[o] /\ Disposers(o)' = Disposers(o)
SameUse(o)      == \A k \in Kinds : Protectors(k, o)' = Protectors(k, o)

LEMMA LooseSame ==
  ASSUME TypeInv, TypeInv', NEW o \in Objs,
         \A k \in Kinds, V \in SUBSET Guards : Loose(k, o, V)' = Loose(k, o, V)
  PROVE  Waited(o)
<1>1. SUFFICES ASSUME NEW k \in Kinds, NEW V \in SUBSET Users(k, o)'
               PROVE  Loose(k, o, V)' <= Loose(k, o, V)
  BY DEF Waited
<1>2. V \subseteq Guards
  BY UsersNext DEF UsersFacts, Guards
<1>3. Loose(k, o, V) \in Nat /\ Loose(k, o, V)' = Loose(k, o, V)
  BY <1>2, CoverTypesLemma DEF CoverTypes
<1> HIDE DEF Loose
<1> QED  BY <1>3

LEMMA BooksStill ==
  ASSUME TypeInv, TypeInv', NEW k \in Kinds, NEW o \in Objs, Books(k, o), client' = client,
         Waited(o), Backed(o), cnt'[k][o] = cnt[k][o],
         Owners(k, o)' = Owners(k, o), Incs(k, o)' = Incs(k, o),
         Counting(k, o)' <=> Counting(k, o), Extra(k, o)' = Extra(k, o)
  PROVE  Books(k, o)'
<1>1. Covered(k, o)'
  <2>1. Owners(k, o)' >= Owners(k, o)
    BY OwnersIs
  <2> QED  BY <2>1, CoveredQuiet DEF Books, Waited, Backed
<1>2. Balanced(k, o)'
  BY DEF Books, Balanced
<1>3. Bounded(k, o)'
  BY DEF Books, Bounded, MaxCount
<1> QED  BY <1>1, <1>2, <1>3 DEF Books

LEMMA BooksSame ==
  ASSUME TypeInv, TypeInv', NEW k \in Kinds, NEW o \in Objs, Books(k, o), client' = client,
         Waited(o), Backed(o), SameCount(k, o),
         Counting(k, o)' <=> Counting(k, o), Extra(k, o)' = Extra(k, o)
  PROVE  Books(k, o)'
BY BooksStill DEF SameCount

LEMMA UseSame == ASSUME NEW o, SameUse(o) PROVE Backed(o) /\ Shielders(o)' = Shielders(o)
BY DEF SameUse, Backed, Shielders, Kinds

\* A step that does not touch the object, and may protect it.
LEMMA ObjStill ==
  ASSUME TypeInv, TypeInv', client' = client, NEW o \in Objs, ObjOK(o), Shielded(o),
         SameObj(o), \A k \in Kinds : SameCount(k, o), Waited(o), Backed(o)
  PROVE  ObjOK(o)'
<1>1. \A k \in Kinds : Books(k, o)'
  <2>1. \A k \in Kinds : (Counting(k, o)' <=> Counting(k, o)) /\ Extra(k, o)' = Extra(k, o)
    BY DEF Counting, Alive, Extra, SameObj, SameCount
  <2> QED  BY <2>1, BooksSame DEF ObjOK
<1>2. /\ "strong" \in Kinds /\ "weak" \in Kinds
      /\ \A k \in Kinds : k = "strong" \/ k = "weak"
  BY DEF Kinds
<1>3. ProtectedOK(o)'
  <2>1. \A k \in Kinds : \A u \in Protectors(k, o)' : u \notin Protectors(k, o) => Counting(k, o)
    BY CountFacts, OwnersIs, Finite DEF Backed
  <2>2. Protectors("strong", o)' # {} => life[o] = "live" /\ flag["strong"][o] = "counting"
    <3>1. CASE Protectors("strong", o) # {}
      BY <3>1 DEF ObjOK, ProtectedOK
    <3>2. CASE Protectors("strong", o) = {}
      BY <1>2, <2>1, <3>2, CountFacts DEF Counting
    <3> QED  BY <3>1, <3>2
  <2>3. Shielders(o)' # {} => Counting("weak", o)
    <3>1. CASE Shielders(o) # {}
      BY <3>1 DEF ObjOK, ProtectedOK
    <3>2. CASE Shielders(o) = {}
      BY <1>2, <2>1, <3>2, CountFacts DEF Shielders
    <3> QED  BY <3>1, <3>2
  <2> QED  BY <1>2, <2>2, <2>3 DEF ProtectedOK, SameObj, SameCount, Counting, Alive
<1>4. LifeOK(o)'
  BY <1>2 DEF ObjOK, LifeOK, SameObj, SameCount
<1>5. SettlersOK(o)'
  BY <1>2 DEF ObjOK, SettlersOK, SameObj, SameCount
<1> QED  BY <1>1, <1>3, <1>4, <1>5 DEF ObjOK

\* A reference of kind k is counted, and has an owner at once.
LEMMA ObjTake ==
  ASSUME TypeInv, TypeInv', client' = client, NEW o \in Objs, ObjOK(o), Shielded(o),
         SameObj(o), SameUse(o), Waited(o), NEW k \in Kinds, \A j \in Kinds \ {k} : SameCount(j, o),
         Counting(k, o), flag'[k][o] = flag[k][o], cnt'[k][o] = cnt[k][o] + 1, cnt[k][o] < MaxCount,
         Owners(k, o)' = Owners(k, o) + 1, Incs(k, o)' = Incs(k, o),
         Settlers(k, o) \subseteq Settlers(k, o)'
  PROVE  ObjOK(o)'
<1>1. \A j \in Kinds : flag'[j][o] = flag[j][o]
  BY DEF SameCount
<1>2. \A j \in Kinds : (Counting(j, o)' <=> Counting(j, o)) /\ Extra(j, o)' = Extra(j, o)
  BY <1>1 DEF Counting, Alive, Extra, SameObj
<1>3. ASSUME NEW j \in Kinds PROVE Books(j, o)'
  <2>1. CASE j # k
    BY <1>2, <2>1, UseSame, BooksSame DEF ObjOK
  <2>2. CASE j = k
    <3>1. /\ Owners(k, o) \in Nat /\ cnt[k][o] \in Int /\ Cardinality(Incs(k, o)) \in Nat
          /\ Extra(k, o) \in Nat /\ Cardinality(Incs(k, o)) <= Cardinality(Threads)
          /\ MaxCount \in Nat /\ Cardinality(Threads) \in Nat
      BY OwnersIs, GuardSets, UsersGuards, ClientAssumption, FiniteAssumption, FS_CardinalityType DEF UsersFacts, TypeInv, Extra, MaxCount
    <3>2. Covered(k, o)'
      <4>1. Owners(k, o)' >= Owners(k, o)
        BY <3>1
      <4> QED  BY <4>1, UseSame, CoveredQuiet DEF ObjOK, Books, Waited, Backed
    <3>3. Balanced(k, o)'
      <4>1. cnt[k][o] + Cardinality(Incs(k, o)) = Owners(k, o) + Extra(k, o)
        BY DEF ObjOK, Books, Balanced
      <4>2. cnt'[k][o] + Cardinality(Incs(k, o)) = Owners(k, o)' + Extra(k, o)
        BY <3>1, <4>1
      <4> QED  BY <1>2, <4>2 DEF Balanced
    <3>4. Bounded(k, o)'
      <4>1. cnt[k][o] >= 0
        BY DEF ObjOK, Books, Bounded
      <4>2. cnt'[k][o] >= 0 /\ cnt'[k][o] + Cardinality(Incs(k, o)) <= MaxCount + Cardinality(Threads)
        BY <3>1, <4>1
      <4> QED  BY <4>2 DEF Bounded, MaxCount
    <3> QED  BY <2>2, <3>2, <3>3, <3>4 DEF Books
  <2> QED  BY <2>1, <2>2
<1>4. "strong" \in Kinds /\ "weak" \in Kinds
  BY DEF Kinds
<1>5. cnt[k][o] >= 0 /\ cnt[k][o] \in Int /\ cnt'[k][o] > 0
  BY DEF ObjOK, Books, Bounded, TypeInv
<1>6. ProtectedOK(o)'
  BY <1>1, <1>2, <1>4, UseSame DEF ObjOK, ProtectedOK, SameObj, SameUse
<1>7. LifeOK(o)'
  <2>1. life[o] \in {"live", "disposed"}
    BY DEF Counting, Alive
  <2> QED  BY <1>1, <1>4, <2>1 DEF ObjOK, LifeOK, SameObj
<1>8. SettlersOK(o)'
  <2>1. \A j \in Kinds : Settlers(j, o) \subseteq Settlers(j, o)'
    BY DEF SameCount
  <2>2. \A j \in Kinds : cnt'[j][o] = 0 => cnt[j][o] = 0
    BY <1>5 DEF SameCount
  <2> QED  BY <1>1, <1>4, <2>1, <2>2 DEF ObjOK, SettlersOK, SameObj
<1> QED  BY <1>3, <1>6, <1>7, <1>8 DEF ObjOK

\* A reference of kind k is there that t has still to count.
LEMMA ObjCas ==
  ASSUME TypeInv, TypeInv', client' = client, NEW o \in Objs, ObjOK(o), Shielded(o),
         SameObj(o), SameUse(o), NEW k \in Kinds, \A j \in Kinds \ {k} : SameCount(j, o),
         \A j \in Kinds, V \in SUBSET Guards : Loose(j, o, V)' = Loose(j, o, V),
         Counting(k, o), flag'[k][o] = flag[k][o], cnt'[k][o] = cnt[k][o], cnt[k][o] < MaxCount,
         NEW g, g \notin Incs(k, o), Incs(k, o)' = Incs(k, o) \cup {g},
         Owners(k, o)' = Owners(k, o) + 1, Settlers(k, o) \subseteq Settlers(k, o)'
  PROVE  ObjOK(o)'
<1>1. \A j \in Kinds : flag'[j][o] = flag[j][o] /\ cnt'[j][o] = cnt[j][o]
  BY DEF SameCount
<1>2. \A j \in Kinds : (Counting(j, o)' <=> Counting(j, o)) /\ Extra(j, o)' = Extra(j, o)
  BY <1>1 DEF Counting, Alive, Extra, SameObj
<1>3. Waited(o)
  BY LooseSame
<1>4. ASSUME NEW j \in Kinds PROVE Books(j, o)'
  <2>1. CASE j # k
    BY <1>2, <1>3, <2>1, UseSame, BooksSame DEF ObjOK
  <2>2. CASE j = k
    <3>1. /\ Owners(k, o) \in Nat /\ cnt[k][o] \in Int /\ Cardinality(Incs(k, o)) \in Nat
          /\ Extra(k, o) \in Nat /\ MaxCount \in Nat /\ Cardinality(Threads) \in Nat
          /\ IsFiniteSet(Incs(k, o))
      BY OwnersIs, GuardSets, UsersGuards, ClientAssumption, FiniteAssumption, FS_CardinalityType DEF UsersFacts, TypeInv, Extra, MaxCount
    <3>2. /\ Cardinality(Incs(k, o)') = Cardinality(Incs(k, o)) + 1
          /\ Cardinality(Incs(k, o)') <= Cardinality(Threads)
      BY <3>1, UsersNext, FS_AddElement DEF UsersFacts
    <3>3. Covered(k, o)'
      BY CoveredCas DEF ObjOK, Books, SameUse
    <3>4. Balanced(k, o)'
      <4>1. cnt[k][o] + Cardinality(Incs(k, o)) = Owners(k, o) + Extra(k, o)
        BY DEF ObjOK, Books, Balanced
      <4>2. cnt'[k][o] + Cardinality(Incs(k, o)') = Owners(k, o)' + Extra(k, o)
        BY <3>1, <3>2, <4>1
      <4> QED  BY <1>2, <4>2 DEF Balanced
    <3>5. Bounded(k, o)'
      <4>1. cnt[k][o] >= 0
        BY DEF ObjOK, Books, Bounded
      <4>2. cnt'[k][o] >= 0 /\ cnt'[k][o] + Cardinality(Incs(k, o)') <= MaxCount + Cardinality(Threads)
        BY <3>1, <3>2, <4>1
      <4> QED  BY <4>2 DEF Bounded, MaxCount
    <3> QED  BY <2>2, <3>3, <3>4, <3>5 DEF Books
  <2> QED  BY <2>1, <2>2
<1>5. "strong" \in Kinds /\ "weak" \in Kinds
  BY DEF Kinds
<1>6. ProtectedOK(o)'
  BY <1>1, <1>2, <1>5, UseSame DEF ObjOK, ProtectedOK, SameObj, SameUse
<1>7. LifeOK(o)'
  BY <1>1, <1>5 DEF ObjOK, LifeOK, SameObj
<1>8. SettlersOK(o)'
  <2>1. \A j \in Kinds : Settlers(j, o) \subseteq Settlers(j, o)'
    BY DEF SameCount
  <2> QED  BY <1>1, <1>5, <2>1 DEF ObjOK, SettlersOK, SameObj
<1> QED  BY <1>4, <1>6, <1>7, <1>8 DEF ObjOK

\* t counts its reference of kind k.
LEMMA ObjInc ==
  ASSUME TypeInv, TypeInv', client' = client, NEW o \in Objs, ObjOK(o), Shielded(o),
         SameObj(o), SameUse(o), NEW k \in Kinds, \A j \in Kinds \ {k} : SameCount(j, o),
         \A j \in Kinds, V \in SUBSET Guards : Loose(j, o, V)' = Loose(j, o, V),
         flag'[k][o] = flag[k][o], cnt'[k][o] = cnt[k][o] + 1,
         NEW g \in Incs(k, o), Incs(k, o)' = Incs(k, o) \ {g},
         Owners(k, o)' = Owners(k, o), Settlers(k, o) \subseteq Settlers(k, o)'
  PROVE  ObjOK(o)'
<1>1. \A j \in Kinds : flag'[j][o] = flag[j][o]
  BY DEF SameCount
<1>2. \A j \in Kinds : (Counting(j, o)' <=> Counting(j, o)) /\ Extra(j, o)' = Extra(j, o)
  BY <1>1 DEF Counting, Alive, Extra, SameObj
<1>3. Waited(o)
  BY LooseSame
<1>4. Counting(k, o)
  BY CountFacts
<1>5. ASSUME NEW j \in Kinds PROVE Books(j, o)'
  <2>1. CASE j # k
    BY <1>2, <1>3, <2>1, UseSame, BooksSame DEF ObjOK
  <2>2. CASE j = k
    <3>1. /\ Owners(k, o) \in Nat /\ cnt[k][o] \in Int /\ Cardinality(Incs(k, o)) \in Nat
          /\ Extra(k, o) \in Nat /\ MaxCount \in Nat /\ Cardinality(Threads) \in Nat
          /\ IsFiniteSet(Incs(k, o))
      BY OwnersIs, GuardSets, UsersGuards, ClientAssumption, FiniteAssumption, FS_CardinalityType DEF UsersFacts, TypeInv, Extra, MaxCount
    <3>2. /\ Cardinality(Incs(k, o)') = Cardinality(Incs(k, o)) - 1
      BY <3>1, FS_RemoveElement
    <3>3. Covered(k, o)'
      BY CoveredInc DEF ObjOK, Books, SameUse
    <3>4. Balanced(k, o)'
      <4>1. cnt[k][o] + Cardinality(Incs(k, o)) = Owners(k, o) + Extra(k, o)
        BY <1>4 DEF ObjOK, Books, Balanced
      <4>2. cnt'[k][o] + Cardinality(Incs(k, o)') = Owners(k, o)' + Extra(k, o)
        BY <3>1, <3>2, <4>1
      <4> QED  BY <1>2, <1>4, <4>2 DEF Balanced
    <3>5. Bounded(k, o)'
      <4>1. cnt[k][o] >= 0 /\ cnt[k][o] + Cardinality(Incs(k, o)) <= MaxCount + Cardinality(Threads)
        BY DEF ObjOK, Books, Bounded
      <4>2. cnt'[k][o] >= 0 /\ cnt'[k][o] + Cardinality(Incs(k, o)') <= MaxCount + Cardinality(Threads)
        BY <3>1, <3>2, <4>1
      <4> QED  BY <4>2 DEF Bounded, MaxCount
    <3> QED  BY <2>2, <3>3, <3>4, <3>5 DEF Books
  <2> QED  BY <2>1, <2>2
<1>6. "strong" \in Kinds /\ "weak" \in Kinds
  BY DEF Kinds
<1>7. ProtectedOK(o)'
  BY <1>1, <1>2, <1>6, UseSame DEF ObjOK, ProtectedOK, SameObj, SameUse
<1>8. LifeOK(o)'
  <2>1. life[o] \in {"live", "disposed"}
    BY <1>4 DEF Counting, Alive
  <2> QED  BY <1>1, <1>6, <2>1 DEF ObjOK, LifeOK, SameObj
<1>9. SettlersOK(o)'
  <2>1. \A j \in Kinds : Settlers(j, o) \subseteq Settlers(j, o)'
    BY DEF SameCount
  <2>2. \A j \in Kinds : cnt'[j][o] = 0 => cnt[j][o] = 0
    <3>1. cnt[k][o] >= 0 /\ cnt[k][o] \in Int
      BY DEF ObjOK, Books, Bounded, TypeInv
    <3> QED  BY <3>1 DEF SameCount
  <2> QED  BY <1>1, <1>6, <2>1, <2>2 DEF ObjOK, SettlersOK, SameObj
<1> QED  BY <1>5, <1>7, <1>8, <1>9 DEF ObjOK

\* A decrement of kind k that waits for nobody is ejected.
LEMMA ObjEject ==
  ASSUME TypeInv, TypeInv', client' = client, NEW o \in Objs, ObjOK(o), Shielded(o),
         SameObj(o), SameUse(o), NEW k \in Kinds, \A j \in Kinds \ {k} : SameCount(j, o),
         Waited(o), \A V \in SUBSET Guards : Loose(k, o, V)' = Loose(k, o, V) - 1,
         flag'[k][o] = flag[k][o], Counting(k, o) => cnt'[k][o] = cnt[k][o] - 1,
         Incs(k, o)' = Incs(k, o), Owners(k, o)' = Owners(k, o) - 1,
         Settlers(k, o) \subseteq Settlers(k, o)', cnt[k][o] = 1 => Settlers(k, o)' # {}
  PROVE  ObjOK(o)'
<1>1. \A j \in Kinds : flag'[j][o] = flag[j][o]
  BY DEF SameCount
<1>2. \A j \in Kinds : (Counting(j, o)' <=> Counting(j, o)) /\ Extra(j, o)' = Extra(j, o)
  BY <1>1 DEF Counting, Alive, Extra, SameObj
<1>3. Counting(k, o) /\ cnt[k][o] >= 1 /\ cnt'[k][o] = cnt[k][o] - 1 /\ cnt[k][o] \in Int
  <2>1. Loose(k, o, Guards)' \in Nat
    BY CoverTypesNext DEF CoverTypes
  <2>2. Loose(k, o, Guards) \in Nat /\ Owners(k, o) \in Nat
    BY CoverTypesLemma DEF CoverTypes
  <2>3. Loose(k, o, Guards)' = Loose(k, o, Guards) - 1
    OBVIOUS
  <2>4. Loose(k, o, Guards) >= 1
    BY <2>1, <2>2, <2>3
  <2>5. Owners(k, o)' \in Nat
    BY CoverTypesNext DEF CoverTypes
  <2>6. Owners(k, o) > 0
    BY <2>2, <2>5
  <2>7. cnt[k][o] \in Int
    BY DEF TypeInv
  <2> QED  BY <2>4, <2>6, <2>7, CountFacts
<1>4. ASSUME NEW j \in Kinds PROVE Books(j, o)'
  <2>1. CASE j # k
    BY <1>2, <2>1, UseSame, BooksSame DEF ObjOK
  <2>2. CASE j = k
    <3>1. /\ Owners(k, o) \in Nat /\ Cardinality(Incs(k, o)) \in Nat
          /\ Extra(k, o) \in Nat /\ MaxCount \in Nat /\ Cardinality(Threads) \in Nat
      BY OwnersIs, GuardSets, UsersGuards, ClientAssumption, FiniteAssumption, FS_CardinalityType DEF UsersFacts, TypeInv, Extra, MaxCount
    <3>2. Covered(k, o)'
      BY CoveredLess DEF ObjOK, Books, SameUse
    <3>3. Balanced(k, o)'
      <4>1. cnt[k][o] + Cardinality(Incs(k, o)) = Owners(k, o) + Extra(k, o)
        BY <1>3 DEF ObjOK, Books, Balanced
      <4>2. cnt'[k][o] + Cardinality(Incs(k, o)) = Owners(k, o)' + Extra(k, o)
        BY <1>3, <3>1, <4>1
      <4> QED  BY <1>2, <1>3, <4>2 DEF Balanced
    <3>4. Bounded(k, o)'
      <4>1. cnt[k][o] >= 0 /\ cnt[k][o] + Cardinality(Incs(k, o)) <= MaxCount + Cardinality(Threads)
        BY DEF ObjOK, Books, Bounded
      <4>2. cnt'[k][o] >= 0 /\ cnt'[k][o] + Cardinality(Incs(k, o)) <= MaxCount + Cardinality(Threads)
        BY <1>3, <3>1, <4>1
      <4> QED  BY <4>2 DEF Bounded, MaxCount
    <3> QED  BY <2>2, <3>2, <3>3, <3>4 DEF Books
  <2> QED  BY <2>1, <2>2
<1>5. "strong" \in Kinds /\ "weak" \in Kinds
  BY DEF Kinds
<1>6. ProtectedOK(o)'
  BY <1>1, <1>2, <1>5, UseSame DEF ObjOK, ProtectedOK, SameObj, SameUse
<1>7. LifeOK(o)'
  <2>1. life[o] \in {"live", "disposed"}
    BY <1>3 DEF Counting, Alive
  <2> QED  BY <1>1, <1>5, <2>1 DEF ObjOK, LifeOK, SameObj
<1>8. SettlersOK(o)'
  <2>1. \A j \in Kinds : Settlers(j, o) \subseteq Settlers(j, o)'
    BY DEF SameCount
  <2>2. \A j \in Kinds : cnt'[j][o] = 0 => cnt[j][o] = 0 \/ Settlers(j, o)' # {}
    BY <1>3 DEF SameCount
  <2> QED  BY <1>1, <1>5, <2>1, <2>2 DEF ObjOK, SettlersOK, SameObj
<1> QED  BY <1>4, <1>6, <1>7, <1>8 DEF ObjOK

\* A reader makes a strong count of zero final.
LEMMA ObjObserve ==
  ASSUME TypeInv, TypeInv', client' = client, NEW o \in Objs, ObjOK(o), Shielded(o),
         SameObj(o), SameCount("weak", o), Waited(o),
         \A k \in Kinds : Protectors(k, o)' \subseteq Protectors(k, o),
         Counting("strong", o), cnt["strong"][o] = 0, cnt'["strong"][o] = 0,
         flag'["strong"][o] = "pending", Incs("strong", o)' = Incs("strong", o),
         Owners("strong", o)' = Owners("strong", o),
         Settlers("strong", o) \subseteq Settlers("strong", o)'
  PROVE  ObjOK(o)'
<1>1. "strong" \in Kinds /\ "weak" \in Kinds /\ \A k \in Kinds : k = "strong" \/ k = "weak"
  BY DEF Kinds
<1>2. life[o] = "live" /\ Settlers("strong", o) # {}
  BY CountFacts DEF ObjOK, SettlersOK, Counting
<1>3. Owners("strong", o) = 0 /\ Incs("strong", o) = {} /\ Protectors("strong", o) = {}
  BY ZeroFacts
<1>4. Backed(o)
  BY DEF Backed
<1>5. Books("weak", o)'
  <2>1. (Counting("weak", o)' <=> Counting("weak", o)) /\ Extra("weak", o)' = Extra("weak", o)
    BY DEF Counting, Alive, Extra, SameObj, SameCount
  <2> QED  BY <1>1, <1>4, <2>1, BooksSame DEF ObjOK
<1>6. Books("strong", o)'
  <2>1. Covered("strong", o)'
    <3>1. Owners("strong", o)' >= Owners("strong", o)
      BY <1>3
    <3> QED  BY <1>1, <1>4, <3>1, CoveredQuiet DEF ObjOK, Books, Waited, Backed
  <2>2. Balanced("strong", o)'
    BY <1>3 DEF Balanced, Counting, Extra
  <2>3. Bounded("strong", o)'
    BY <1>1 DEF ObjOK, Books, Bounded, MaxCount
  <2> QED  BY <2>1, <2>2, <2>3 DEF Books
<1>7. ProtectedOK(o)'
  <2>1. Shielders(o)' \subseteq Shielders(o) /\ Protectors("strong", o)' = {}
    BY <1>1, <1>3 DEF Shielders
  <2> QED  BY <1>1, <2>1 DEF ObjOK, ProtectedOK, SameObj, SameCount, Counting, Alive
<1>8. LifeOK(o)'
  BY <1>1, <1>2 DEF ObjOK, LifeOK, SameObj, SameCount, Counting
<1>9. SettlersOK(o)'
  BY <1>1, <1>2 DEF SettlersOK, SameObj
<1> QED  BY <1>1, <1>5, <1>6, <1>7, <1>8, <1>9 DEF ObjOK

\* A decrementer takes the credit of a strong count of zero, and goes on to
\* release the object.
LEMMA ObjZero ==
  ASSUME TypeInv, TypeInv', client' = client, NEW o \in Objs, ObjOK(o), Shielded(o),
         life'[o] = life[o], Disposers(o)' = Disposers(o) + 1, SameUse(o), SameCount("weak", o),
         Waited(o), life[o] = "live",
         flag["strong"][o] = "pending" \/ (flag["strong"][o] = "counting" /\ cnt["strong"][o] = 0),
         cnt'["strong"][o] = cnt["strong"][o], flag'["strong"][o] = "zero",
         Incs("strong", o)' = Incs("strong", o), Owners("strong", o)' = Owners("strong", o)
  PROVE  ObjOK(o)'
<1>1. "strong" \in Kinds /\ "weak" \in Kinds /\ \A k \in Kinds : k = "strong" \/ k = "weak"
  BY DEF Kinds
<1>2. Owners("strong", o) = 0 /\ Incs("strong", o) = {} /\ Protectors("strong", o) = {}
  <2>1. CASE flag["strong"][o] = "pending"
    BY <1>1, <2>1 DEF ObjOK, Books, Balanced, Counting, ProtectedOK
  <2>2. CASE flag["strong"][o] = "counting" /\ cnt["strong"][o] = 0
    BY <2>2, ZeroFacts DEF Counting, Alive
  <2> QED  BY <2>1, <2>2
<1>3. Books("weak", o)'
  <2>1. (Counting("weak", o)' <=> Counting("weak", o)) /\ Extra("weak", o)' = Extra("weak", o)
    BY DEF Counting, Alive, Extra, SameCount
  <2> QED  BY <1>1, <2>1, UseSame, BooksSame DEF ObjOK
<1>4. Books("strong", o)'
  <2>1. Covered("strong", o)'
    <3>1. Owners("strong", o)' >= Owners("strong", o)
      BY <1>2
    <3> QED  BY <1>1, <3>1, UseSame, CoveredQuiet DEF ObjOK, Books, Waited, Backed
  <2>2. Balanced("strong", o)'
    BY <1>2 DEF Balanced, Counting, Extra
  <2>3. Bounded("strong", o)'
    BY <1>1 DEF ObjOK, Books, Bounded, MaxCount
  <2> QED  BY <2>1, <2>2, <2>3 DEF Books
<1>5. ProtectedOK(o)'
  BY <1>1, <1>2, UseSame DEF ObjOK, ProtectedOK, SameUse, SameCount, Counting, Alive
<1>6. LifeOK(o)'
  <2>1. Disposers(o) = 0
    BY DEF ObjOK, LifeOK
  <2> QED  BY <1>1, <2>1 DEF ObjOK, LifeOK, SameCount
<1>7. SettlersOK(o)'
  BY DEF SettlersOK
<1> QED  BY <1>1, <1>3, <1>4, <1>5, <1>6, <1>7 DEF ObjOK

\* The memory of an object is freed: by who takes the credit of a weak count of
\* zero, or who releases an object without weak references.
LEMMA ObjFree ==
  ASSUME TypeInv, TypeInv', client' = client, NEW o \in Objs, ObjOK(o), Shielded(o),
         life'[o] = "freed", SameUse(o), Waited(o),
         flag["strong"][o] = "zero", flag'["strong"][o] = "zero", Disposers(o)' = 0,
         \A k \in Kinds : cnt'[k][o] = cnt[k][o],
         \A k \in Kinds : Owners(k, o)' = Owners(k, o) /\ Incs(k, o)' = Incs(k, o),
         \/ life[o] = "disposed" /\ cnt["weak"][o] = 0 /\ flag'["weak"][o] = "zero"
         \/ life[o] = "live" /\ cnt["weak"][o] = 1 /\ flag'["weak"][o] = flag["weak"][o]
  PROVE  ObjOK(o)'
<1>1. "strong" \in Kinds /\ "weak" \in Kinds /\ \A k \in Kinds : k = "strong" \/ k = "weak"
  BY DEF Kinds
<1>2. \A k \in Kinds : Owners(k, o) = 0 /\ Incs(k, o) = {}
  <2>1. Owners("strong", o) = 0 /\ Incs("strong", o) = {}
    BY <1>1 DEF ObjOK, Books, Balanced, Counting
  <2>2. Owners("weak", o) = 0 /\ Incs("weak", o) = {}
    BY ZeroFacts
  <2> QED  BY <1>1, <2>1, <2>2
<1>3. Shielders(o)' = {}
  <2>1. Shielders(o) = {}
    BY ZeroFacts
  <2> QED  BY <2>1, UseSame
<1>4. ASSUME NEW k \in Kinds PROVE Books(k, o)'
  <2>1. Covered(k, o)'
    <3>1. Owners(k, o)' >= Owners(k, o)
      BY <1>2
    <3> QED  BY <3>1, UseSame, CoveredQuiet DEF ObjOK, Books, Waited, Backed
  <2>2. Balanced(k, o)'
    BY <1>2 DEF Balanced, Counting, Alive, Extra
  <2>3. Bounded(k, o)'
    BY DEF ObjOK, Books, Bounded, MaxCount
  <2> QED  BY <2>1, <2>2, <2>3 DEF Books
<1>5. ProtectedOK(o)'
  BY <1>3 DEF ProtectedOK, Shielders
<1>6. LifeOK(o)'
  BY <1>1 DEF ObjOK, LifeOK
<1>7. SettlersOK(o)'
  BY DEF SettlersOK
<1> QED  BY <1>4, <1>5, <1>6, <1>7 DEF ObjOK

\* The value of an object is dropped, and its weak reference given up.
LEMMA ObjDispose ==
  ASSUME TypeInv, TypeInv', client' = client, NEW o \in Objs, ObjOK(o), Shielded(o),
         life[o] = "live", flag["strong"][o] = "zero", life'[o] = "disposed",
         SameUse(o), Waited(o), Disposers(o)' = 0, cnt'["strong"][o] = cnt["strong"][o],
         \A k \in Kinds : flag'[k][o] = flag[k][o],
         \A k \in Kinds : Owners(k, o)' = Owners(k, o) /\ Incs(k, o)' = Incs(k, o),
         cnt'["weak"][o] = cnt["weak"][o] - 1, cnt["weak"][o] = 1 => Settlers("weak", o)' # {}
  PROVE  ObjOK(o)'
<1>1. "strong" \in Kinds /\ "weak" \in Kinds /\ \A k \in Kinds : k = "strong" \/ k = "weak"
  BY DEF Kinds
<1>2. Counting("weak", o) /\ Counting("weak", o)' /\ Extra("weak", o) = 1 /\ Extra("weak", o)' = 0
  <2>1. Counting("weak", o)
    BY CountFacts
  <2> QED  BY <1>1, <2>1 DEF Counting, Alive, Extra
<1>3. \A k \in Kinds : /\ Owners(k, o) \in Nat /\ Cardinality(Incs(k, o)) \in Nat
                       /\ cnt[k][o] \in Int /\ MaxCount \in Nat /\ Cardinality(Threads) \in Nat
  BY OwnersIs, GuardSets, UsersGuards, ClientAssumption, FiniteAssumption, FS_CardinalityType DEF UsersFacts, TypeInv, MaxCount
<1>4. \A k \in Kinds : Covered(k, o)'
  <2>1. ASSUME NEW k \in Kinds PROVE Covered(k, o)'
    <3>1. Owners(k, o)' >= Owners(k, o)
      BY <1>3
    <3> QED  BY <3>1, UseSame, CoveredQuiet DEF ObjOK, Books, Waited, Backed
  <2> QED  BY <2>1
<1>5. Books("strong", o)'
  <2>1. Balanced("strong", o)'
    BY <1>1 DEF ObjOK, Books, Balanced, Counting, Extra
  <2>2. Bounded("strong", o)'
    BY <1>1 DEF ObjOK, Books, Bounded, MaxCount
  <2> QED  BY <1>1, <1>4, <2>1, <2>2 DEF Books
<1>6. cnt["weak"][o] >= 1 /\ cnt["weak"][o] \in Int
  <2>1. Balanced("weak", o) /\ Covered("weak", o) /\ Bonus("weak", o, Guards) \in {0, 1}
    BY <1>1, BonusType DEF ObjOK, Books
  <2> QED  BY <1>1, <1>2, <2>1, LeastLemma DEF LeastFacts
<1>7. Books("weak", o)'
  <2>1. Balanced("weak", o)'
    <3>1. cnt["weak"][o] + Cardinality(Incs("weak", o)) = Owners("weak", o) + 1
      BY <1>1, <1>2 DEF ObjOK, Books, Balanced
    <3>2. cnt'["weak"][o] + Cardinality(Incs("weak", o)) = Owners("weak", o) + 0
      BY <1>1, <1>3, <3>1
    <3>3. cnt'["weak"][o] + Cardinality(Incs("weak", o)') = Owners("weak", o)' + Extra("weak", o)'
      BY <1>1, <1>2, <3>2
    <3> QED  BY <1>2, <3>3 DEF Balanced
  <2>2. Bounded("weak", o)'
    <3>1. cnt["weak"][o] + Cardinality(Incs("weak", o)) <= MaxCount + Cardinality(Threads)
      BY <1>1 DEF ObjOK, Books, Bounded
    <3>2. /\ cnt'["weak"][o] >= 0
          /\ cnt'["weak"][o] + Cardinality(Incs("weak", o)) <= MaxCount + Cardinality(Threads)
      BY <1>1, <1>3, <1>6, <3>1
    <3> QED  BY <1>1, <3>2 DEF Bounded, MaxCount
  <2> QED  BY <1>1, <1>4, <2>1, <2>2 DEF Books
<1>8. ProtectedOK(o)'
  <2>1. Protectors("strong", o)' = {}
    BY <1>1 DEF ObjOK, ProtectedOK, SameUse
  <2> QED  BY <1>2, <2>1 DEF ProtectedOK
<1>9. LifeOK(o)'
  BY <1>1, <1>2 DEF LifeOK, Counting
<1>10. SettlersOK(o)'
  BY <1>1, <1>6 DEF SettlersOK
<1> QED  BY <1>1, <1>5, <1>7, <1>8, <1>9, <1>10 DEF ObjOK

\* An object is created, with one Rc and the weak reference of its value.
LEMMA ObjNew ==
  ASSUME TypeInv, TypeInv', client' = client, NEW o \in Objs, ObjOK(o), Shielded(o),
         NEW t \in Threads, life[o] = "none", life'[o] = "live", SameUse(o), Waited(o),
         Disposers(o)' = Disposers(o), \A k \in Kinds : cnt'[k][o] = 1,
         \A k \in Kinds : flag'[k][o] = flag[k][o],
         Owners("strong", o)' = Owners("strong", o) + 1, Owners("weak", o)' = Owners("weak", o),
         \A k \in Kinds : Incs(k, o)' = Incs(k, o)
  PROVE  ObjOK(o)'
<1>1. "strong" \in Kinds /\ "weak" \in Kinds /\ \A k \in Kinds : k = "strong" \/ k = "weak"
  BY DEF Kinds
<1>2. \A k \in Kinds : Owners(k, o) = 0 /\ Incs(k, o) = {}
  BY DEF ObjOK, Books, Balanced, Counting, Alive
<1>3. \A k \in Kinds : Counting(k, o)'
  BY DEF ObjOK, LifeOK, Counting, Alive
<1>4. Shielders(o)' = {}
  <2>1. Shielders(o) = {}
    BY DEF ObjOK, ProtectedOK, Counting, Alive
  <2> QED  BY <2>1, UseSame
<1>5. Cardinality(Threads) \in Nat /\ Cardinality(Threads) >= 1 /\ MaxCount \in Nat
  <2>1. Cardinality(Threads) # 0
    BY FiniteAssumption, FS_EmptySet
  <2> QED  BY <2>1, FiniteAssumption, FS_CardinalityType, ClientAssumption DEF TypeInv, MaxCount
<1>6. ASSUME NEW k \in Kinds PROVE Books(k, o)'
  <2>1. Covered(k, o)'
    <3>1. Owners(k, o)' >= Owners(k, o)
      BY <1>1, <1>2
    <3> QED  BY <3>1, UseSame, CoveredQuiet DEF ObjOK, Books, Waited, Backed
  <2>2. Cardinality(Incs(k, o)') = 0
    BY <1>2, FS_EmptySet
  <2>3. 1 + 0 = Owners(k, o)' + Extra(k, o)'
    BY <1>1, <1>2 DEF Extra
  <2>4. Balanced(k, o)'
    BY <1>3, <2>2, <2>3 DEF Balanced
  <2>5. Bounded(k, o)'
    <3>1. 1 + 0 <= MaxCount + Cardinality(Threads)
      BY <1>5
    <3> QED  BY <2>2, <3>1 DEF Bounded, MaxCount
  <2> QED  BY <2>1, <2>4, <2>5 DEF Books
<1>7. ProtectedOK(o)'
  BY <1>4 DEF ProtectedOK, Shielders
<1>8. LifeOK(o)'
  BY <1>1 DEF ObjOK, LifeOK
<1>9. SettlersOK(o)'
  BY <1>1, <1>3 DEF SettlersOK, Counting
<1> QED  BY <1>6, <1>7, <1>8, <1>9 DEF ObjOK

-------------------------------------------------------------------------------
(* What a step does to the threads. *)

\* The usable snapshots of u go on protecting a value.
Retains(u) == \A s \in Snaps, o \in Objs :
                 snap[u][s].o = o /\ Usable(u, s) => life'[o] = "live" /\ Undisposed(Guard(u, s), o)'
\* No object ceases to exist, and u stays in its critical section.
Stays(u)   == /\ \A o \in Objs : life'[o] = "none" => life[o] = "none"
              /\ u \in cs => u \in cs'

\* A thread that does nothing.
LEMMA ThreadOther ==
  ASSUME TypeInv, client' = client, NEW u \in Threads, ThreadOK(u), Retains(u), Stays(u),
         pc'[u] = pc[u], snap'[u] = snap[u], \A k \in Kinds : own'[k][u] = own[k][u]
  PROVE  ThreadOK(u)'
<1>1. KnownOK(u)'
  BY DEF ThreadOK, KnownOK, Stays
<1>2. ASSUME NEW s \in Snaps PROVE SnapOK(u, s)'
  <2>1. Usable(u, s)' <=> Usable(u, s)
    BY DEF Usable
  <2>2. Scheme' = Scheme
    BY DEF Scheme
  <2> QED  BY <2>1, <2>2 DEF ThreadOK, SnapOK, Retains, Stays
<1>3. IncOK(u)'
  <2>1. SUFFICES ASSUME pc[u].at = "inc"
                 PROVE  \A k, o : Guard(u, pc[u].s) \in Protectors(k, o) =>
                                   (Guard(u, pc[u].s) \in Protectors(k, o))'
    BY DEF ThreadOK, IncOK, Shielders
  <2>2. \A s \in Snaps : \A k, o : Protects(u, s, k, o)' <=> Protects(u, s, k, o)
    BY DEF Protects, Settled
  <2>3. \A t \in Threads : \A s : Guard(t, s)' = Guard(t, s)
    BY DEF Guard, Scheme
  <2>4. pc[u].s \in Snaps
    BY <2>1, ControlShape DEF TypeInv
  <2>5. SUFFICES ASSUME NEW k, NEW o, Guard(u, pc[u].s) \in Protectors(k, o)
                 PROVE  (Guard(u, pc[u].s) \in Protectors(k, o))'
    OBVIOUS
  <2>6. PICK t \in Threads, s \in Snaps : Guard(u, pc[u].s) = Guard(t, s) /\ Protects(t, s, k, o)
    BY <2>5, ProtectorsAre
  <2>7. t = u /\ Protects(u, s, k, o)'
    BY <2>2, <2>4, <2>6, GuardFacts
  <2>8. Guard(u, pc[u].s)' = Guard(u, s)' /\ Guard(u, s)' \in Guards' /\ Guard(u, s)' = Guard(u, s)
    BY <2>3, <2>6, <2>7, GuardFacts DEF Guards
  <2> QED  BY <2>7, <2>8 DEF Protectors
<1>4. FieldOK(u)'
  BY DEF ThreadOK, FieldOK, Names, Nodes, Kinds, Stays, Guarded, Scheme
<1> QED  BY <1>1, <1>2, <1>3, <1>4 DEF ThreadOK

\* A thread whose snapshots stay, and which does not need one for a call.
LEMMA ThreadCalm ==
  ASSUME TypeInv, client' = client, NEW t \in Threads, ThreadOK(t), Retains(t), Stays(t),
         snap'[t] = snap[t], pc[t].at \notin Loading \ {"cas"}, pc'[t].at \notin Loading,
         Named(pc'[t]) \in Objs => life'[Named(pc'[t])] # "none",
         IncOK(t)', (pc[t].at = "swap" => Names(t, Null, pc[t].c))'
  PROVE  ThreadOK(t)'
<1>1. KnownOK(t)'
  BY DEF ThreadOK, KnownOK, Stays
<1>2. ASSUME NEW s \in Snaps PROVE SnapOK(t, s)'
  <2>1. Usable(t, s)' /\ Usable(t, s)
    BY DEF Usable, Loading
  <2>2. Scheme' = Scheme
    BY DEF Scheme
  <2> QED  BY <2>1, <2>2 DEF ThreadOK, SnapOK, Retains, Stays
<1>3. FieldOK(t)'
  BY DEF FieldOK, Loading
<1> QED  BY <1>1, <1>2, <1>3 DEF ThreadOK

\* No disposal is retired, and no value dropped.
Harmless == /\ \A o \in Objs : life[o] = "live" => life'[o] = "live"
            /\ \A e \in DOMAIN retired' : e.k = "dispose" => e \in DOMAIN retired
LEMMA HarmlessRetains ==
  ASSUME Harmless, client' = client, NEW u \in Threads, ThreadOK(u) PROVE Retains(u)
<1>1. \A s \in Snaps : Guard(u, s)' = Guard(u, s)
  BY DEF Guard, Scheme
<1> QED  BY <1>1 DEF Harmless, Retains, ThreadOK, SnapOK, Undisposed, BagToSet

\* The work that a step retires, and whom it waits for.
Retiring(B, x, w) == retired' = IF x = Null THEN B ELSE BagAdd(B, Entry(x, w))

LEMMA RetiringCount ==
  ASSUME TypeInv, NEW B, GoodBag(B), NEW x \in Ptr, NEW w \in Work, Retiring(B, x, w)
  PROVE  /\ \A e \in DOMAIN retired' : e \in DOMAIN B \/ (e.k = w /\ e.o = x /\ e.wait = Witnesses)
         /\ \A k, V : \A o \in Objs : Loose(k, o, V)'
              = CountIn(B, k, o, V) + One(o = x /\ k = w /\ Witnesses \cap V = {})
<1>1. CASE x = Null
  <2>1. retired' = B /\ \A o \in Objs : o # x
    BY <1>1, NullAssumption DEF Retiring
  <2>2. \A k, V : \A o \in Objs : CountIn(B, k, o, V) \in Nat
    BY LooseFinite
  <2>3. \A k, V : \A o \in Objs : One(o = x /\ k = w /\ Witnesses \cap V = {}) = 0
    BY <2>1 DEF One
  <2> QED  BY <2>1, <2>2, <2>3 DEF Loose
<1>2. CASE x # Null
  <2>1. x \in Objs /\ retired' = BagAdd(B, Entry(x, w))
    BY <1>2 DEF Retiring, Ptr
  <2>2. /\ DOMAIN BagAdd(B, Entry(x, w)) = DOMAIN B \cup {Entry(x, w)}
        /\ \A k, o, V : CountIn(BagAdd(B, Entry(x, w)), k, o, V)
                          = CountIn(B, k, o, V) + One(o = x /\ k = w /\ Witnesses \cap V = {})
    BY <2>1, RetireCount
  <2>3. Entry(x, w).k = w /\ Entry(x, w).o = x /\ Entry(x, w).wait = Witnesses
    BY DEF Entry
  <2> QED  BY <2>1, <2>2, <2>3 DEF Loose
<1> QED  BY <1>1, <1>2

\* What is retired waits for everyone who protects something.
LEMMA UsersWait ==
  ASSUME TypeInv, \A t \in Threads : ThreadOK(t)
  PROVE  \A k : \A o \in Objs : Protectors(k, o) \subseteq Witnesses /\ (k \in Kinds => Users(k, o) \subseteq Witnesses)
<1>1. CASE Scheme = "HP"
  <2>1. \A t \in Threads, s \in Snaps : Guard(t, s) \in Witnesses
    BY <1>1 DEF Guard, Witnesses
  <2>2. \A k, o : Protectors(k, o) \subseteq Witnesses /\ Incs(k, o) \subseteq Witnesses
    BY <2>1, ProtectorsAre, IncsAre
  <2> QED  BY <2>2 DEF Users
<1>2. CASE Scheme # "HP"
  <2>1. Scheme = "EBR" /\ Witnesses = cs
    BY <1>2, ClientAssumption DEF TypeInv, Scheme, Witnesses
  <2>2. ASSUME NEW k, NEW o \in Objs, NEW g \in Protectors(k, o) PROVE g \in cs
    <3>1. PICK t \in Threads, s \in Snaps : g = Guard(t, s) /\ Protects(t, s, k, o)
      BY ProtectorsAre
    <3>2. g = t /\ snap[t][s].o = o
      BY <2>1, <3>1 DEF Guard, Protects
    <3> QED  BY <2>1, <3>2 DEF ThreadOK, SnapOK
  <2>3. \A k \in Kinds : \A o \in Objs : Incs(k, o) \subseteq Protectors("strong", o) \cup Protectors("weak", o)
    BY ShieldedLemma DEF Shielded, Shielders
  <2> QED  BY <2>1, <2>2, <2>3 DEF Users
<1> QED  BY <1>1, <1>2

LEMMA RetiringWaited ==
  ASSUME TypeInv, \A t \in Threads : ThreadOK(t), NEW x \in Ptr, NEW w \in Work,
         NEW B, GoodBag(B), \A k, o, V : CountIn(B, k, o, V) <= Loose(k, o, V),
         Retiring(B, x, w), NEW o \in Objs, \A k \in Kinds : Users(k, o)' \subseteq Users(k, o)
  PROVE  Waited(o)
<1>1. SUFFICES ASSUME NEW k \in Kinds, NEW V \in SUBSET Users(k, o)', V # {}
               PROVE  Loose(k, o, V)' <= Loose(k, o, V)
  BY DEF Waited
<1>2. Witnesses \cap V # {}
  BY <1>1, UsersWait
<1>3. Loose(k, o, V)' = CountIn(B, k, o, V) + One(o = x /\ k = w /\ Witnesses \cap V = {})
  BY RetiringCount
<1>4. One(o = x /\ k = w /\ Witnesses \cap V = {}) = 0
  BY <1>2 DEF One
<1>5. CountIn(B, k, o, V) \in Nat /\ CountIn(B, k, o, V) <= Loose(k, o, V)
  BY LooseFinite
<1>6. Loose(k, o, V)' = CountIn(B, k, o, V)
  BY <1>3, <1>4, <1>5
<1> HIDE DEF Loose
<1> QED  BY <1>5, <1>6

-------------------------------------------------------------------------------
(* Steps that leave every count as it is. *)

\* t is where it was, as far as the counts are concerned.
Steady(t) == \A o \in Objs, k \in Kinds :
  /\ In(pc'[t], "inc", k, o) <=> In(pc[t], "inc", k, o)
  /\ In(pc[t], "inc", k, o) => pc'[t].s = pc[t].s
  /\ In(pc[t], "settle", k, o) => In(pc'[t], "settle", k, o)
Placed(t) == /\ Steady(t)
             /\ \A o \in Objs, k \in Kinds : In(pc'[t], "swap", k, o) <=> In(pc[t], "swap", k, o)
             /\ \A o \in Objs : Release(pc'[t], o) <=> Release(pc[t], o)

LEMMA PlacedCalm ==
  ASSUME NEW t, pc'[t] = pc[t] \/ /\ pc[t].at \in {"idle"} \cup Loading
                                  /\ pc'[t].at \in {"idle"} \cup Loading
  PROVE  Placed(t)
BY DEF Placed, Steady, In, Release, Loading

LEMMA PlacesKept ==
  ASSUME TypeInv, NEW t \in Threads, Same(t)
  PROVE  \A k, o : /\ (/\ In(pc'[t], "inc", k, o) <=> In(pc[t], "inc", k, o)
                       /\ In(pc[t], "inc", k, o) => pc'[t].s = pc[t].s)
                        => Incs(k, o)' = Incs(k, o)
                   /\ (In(pc[t], "settle", k, o) => In(pc'[t], "settle", k, o))
                        => Settlers(k, o) \subseteq Settlers(k, o)'
<1>1. \A u \in Threads \ {t} : pc'[u] = pc[u]
  BY DEF Same
<1>2. \A l, k, o : At(l, k, o)' \subseteq Threads /\ At(l, k, o) \subseteq Threads
  BY DEF At
<1>3. /\ \A l, k, o : At(l, k, o)' \ {t} = At(l, k, o) \ {t}
      /\ \A l, k, o : (t \in At(l, k, o)' <=> In(pc'[t], l, k, o))
      /\ \A l, k, o : (t \in At(l, k, o) <=> In(pc[t], l, k, o))
  BY <1>1, PlacesStep
<1>4. \A l, k, o : (In(pc'[t], l, k, o) <=> In(pc[t], l, k, o)) => At(l, k, o)' = At(l, k, o)
  <2>1. SUFFICES ASSUME NEW l, NEW k, NEW o, In(pc'[t], l, k, o) <=> In(pc[t], l, k, o)
                 PROVE  At(l, k, o)' = At(l, k, o)
    OBVIOUS
  <2>2. At(l, k, o)' \ {t} = At(l, k, o) \ {t} /\ (t \in At(l, k, o)' <=> t \in At(l, k, o))
    BY <1>3, <2>1
  <2> QED  BY <2>2
<1>5. \A l, k, o : (In(pc[t], l, k, o) => In(pc'[t], l, k, o)) => At(l, k, o) \subseteq At(l, k, o)'
  <2>1. SUFFICES ASSUME NEW l, NEW k, NEW o, In(pc[t], l, k, o) => In(pc'[t], l, k, o)
                 PROVE  At(l, k, o) \subseteq At(l, k, o)'
    OBVIOUS
  <2>2. At(l, k, o)' \ {t} = At(l, k, o) \ {t} /\ (t \in At(l, k, o) => t \in At(l, k, o)')
    BY <1>3, <2>1
  <2> QED  BY <2>2
<1>6. ASSUME NEW k, NEW o, In(pc'[t], "inc", k, o) <=> In(pc[t], "inc", k, o),
             In(pc[t], "inc", k, o) => pc'[t].s = pc[t].s
      PROVE  Incs(k, o)' = Incs(k, o)
  <2>1. At("inc", k, o)' = At("inc", k, o)
    BY <1>4, <1>6
  <2>2. \A u \in At("inc", k, o) : pc'[u].s = pc[u].s
    BY <1>1, <1>2, <1>3, <1>6
  <2>3. \A g : g \in Incs(k, o) <=> \E u \in At("inc", k, o) : g = Guard(u, pc[u].s)
    BY DEF Incs
  <2>4. \A g : g \in Incs(k, o)' <=> \E u \in At("inc", k, o)' : g = Guard(u, pc'[u].s)
    BY DEF Incs, Guard, Same, Scheme
  <2> QED  BY <2>1, <2>2, <2>3, <2>4
<1> QED  BY <1>5, <1>6 DEF Settlers

\* t has a reference to count, or has counted it.
LEMMA IncsStep ==
  ASSUME TypeInv, NEW t \in Threads, Same(t), NEW k, NEW o
  PROVE  /\ In(pc[t], "inc", k, o) /\ ~In(pc'[t], "inc", k, o) =>
              /\ Guard(t, pc[t].s) \in Incs(k, o)
              /\ Incs(k, o)' = Incs(k, o) \ {Guard(t, pc[t].s)}
         /\ ~In(pc[t], "inc", k, o) /\ In(pc'[t], "inc", k, o) /\ pc'[t].s \in Snaps =>
              /\ Guard(t, pc'[t].s) \notin Incs(k, o)
              /\ Incs(k, o)' = Incs(k, o) \cup {Guard(t, pc'[t].s)}
<1>1. /\ \A u \in Threads : In(pc[u], "inc", k, o) => Guard(u, pc[u].s) \in Incs(k, o)
      /\ \A g \in Incs(k, o) : \E u \in Threads :
            g = Guard(u, pc[u].s) /\ In(pc[u], "inc", k, o) /\ pc[u].s \in Snaps
  BY IncsAre
<1>2. \A g : g \in Incs(k, o)' <=>
                \E u \in Threads : g = Guard(u, pc'[u].s) /\ In(pc'[u], "inc", k, o)
  <2>1. \A u \in Threads : u \in At("inc", k, o)' <=> In(pc'[u], "inc", k, o)
    BY DEF At, In
  <2>2. At("inc", k, o)' \subseteq Threads
    BY DEF At
  <2>3. Incs(k, o)' = {Guard(u, pc'[u].s) : u \in At("inc", k, o)'}
    BY DEF Incs, Guard, Same, Scheme
  <2> QED  BY <2>1, <2>2, <2>3
<1>3. \A u \in Threads \ {t} : pc'[u] = pc[u]
  BY DEF Same
<1>4. \A u \in Threads : In(pc[u], "inc", k, o) => pc[u].s \in Snaps
  BY ControlShape DEF In, TypeInv
<1>5. \A u, w \in Threads, s, r \in Snaps : Guard(u, s) = Guard(w, r) => u = w
  BY GuardFacts
<1> QED  BY <1>1, <1>2, <1>3, <1>4, <1>5

LEMMA OwnersKept ==
  ASSUME TypeInv, TypeInv', Cells' = Cells, NEW t \in Threads, Same(t), cell' = cell,
         \A k \in Kinds : own'[k][t] = own[k][t], Placed(t),
         \A k \in Work, o \in Objs : Loose(k, o, {})' = Loose(k, o, {})
  PROVE  /\ \A k \in Kinds, o \in Objs : Owners(k, o)' = Owners(k, o)
         /\ \A o \in Objs : Disposers(o)' = Disposers(o)
<1>1. ASSUME NEW k \in Kinds, NEW o \in Objs PROVE Owners(k, o)' = Owners(k, o)
  <2>1. Loose(k, o, {})' = Loose(k, o, {})
    BY DEF Work
  <2>2. /\ One(own'[k][t] = o) = One(own[k][t] = o)
        /\ One(In(pc'[t], "swap", k, o)) = One(In(pc[t], "swap", k, o))
        /\ One(Null \in Cells /\ Kind(Null) = k /\ cell'[Null] = o)
             = One(Null \in Cells /\ Kind(Null) = k /\ cell[Null] = o)
    BY DEF Placed, One
  <2>3. Null \in Cells \cup {Null} /\ \A d \in Cells \ {Null} : cell'[d] = cell[d]
    OBVIOUS
  <2>4. /\ Owners(k, o)' = Owners(k, o)
              + One(Null \in Cells /\ Kind(Null) = k /\ cell'[Null] = o) - One(Null \in Cells /\ Kind(Null) = k /\ cell[Null] = o)
              + One(own'[k][t] = o) - One(own[k][t] = o)
              + Loose(k, o, {})' - Loose(k, o, {})
              + One(In(pc'[t], "swap", k, o)) - One(In(pc[t], "swap", k, o))
         /\ Owners(k, o) \in Nat /\ Loose(k, o, {}) \in Nat
    BY <2>3, OwnersStep
  <2>5. \A b : One(b) \in Nat
    BY DEF One
  <2> QED  BY <2>1, <2>2, <2>4, <2>5
<1>2. ASSUME NEW o \in Objs PROVE Disposers(o)' = Disposers(o)
  <2>1. Loose("dispose", o, {})' = Loose("dispose", o, {})
    BY DEF Work
  <2>2. One(Release(pc'[t], o)) = One(Release(pc[t], o)) /\ One(Release(pc[t], o)) \in Nat
    BY DEF Placed, One
  <2> QED  BY <2>1, <2>2, DisposersStep
<1> QED  BY <1>1, <1>2

LEMMA StillStep ==
  ASSUME CountInv, TypeInv', client' = client, NEW t \in Threads, Same(t), UNCHANGED heap, Steady(t),
         \A k \in Kinds, o \in Objs : Owners(k, o)' = Owners(k, o),
         \A o \in Objs : Disposers(o)' = Disposers(o),
         \A o \in Objs : Waited(o) /\ Backed(o)
  PROVE  \A o \in Objs : ObjOK(o)'
<1>1. SUFFICES ASSUME NEW o \in Objs PROVE ObjOK(o)'
  OBVIOUS
<1>2. TypeInv /\ ObjOK(o) /\ Shielded(o)
  BY ShieldedLemma DEF CountInv
<1>3. \A k \in Kinds : SameCount(k, o)
  <2>1. \A k \in Kinds : Incs(k, o)' = Incs(k, o) /\ Settlers(k, o) \subseteq Settlers(k, o)'
    BY <1>2, PlacesKept DEF Steady
  <2> QED  BY <2>1 DEF SameCount, heap
<1>4. SameObj(o)
  BY DEF SameObj, heap
<1> QED  BY <1>2, <1>3, <1>4, ObjStill

LEMMA RetiredSame ==
  ASSUME TypeInv, TypeInv', retired' = retired
  PROVE  /\ \A k, o, V : Loose(k, o, V)' = Loose(k, o, V)
         /\ \A o \in Objs : Waited(o)
<1>1. \A k, o, V : Loose(k, o, V)' = Loose(k, o, V)
  BY DEF Loose
<1> QED  BY <1>1, LooseSame

\* No protection is new.
LEMMA BackedFewer ==
  ASSUME NEW o, \A k \in Kinds : Protectors(k, o)' \subseteq Protectors(k, o) PROVE Backed(o)
BY DEF Backed

\* Who shields o has a snapshot of it that protects.
LEMMA HarmlessSame ==
  ASSUME CountInv, client' = client, life' = life, retired' = retired
  PROVE  Harmless /\ \A u \in Threads : Retains(u)
BY HarmlessRetains DEF Harmless, CountInv

-------------------------------------------------------------------------------
LEMMA EnterStep ==
  ASSUME CountInv, TypeInv', client' = client, Cells' = Cells, NEW t \in Threads, Enter(t)
  PROVE  CountInv'
<1>1. TypeInv /\ Same(t) /\ Placed(t) /\ UNCHANGED <<heap, cell, own, snap, retired, pc>>
  BY PlacedCalm DEF CountInv, Same, Enter
<1>2. /\ \A k, o, V : Loose(k, o, V)' = Loose(k, o, V)
      /\ \A o \in Objs : Waited(o)
  BY <1>1, RetiredSame
<1>3. \A o \in Objs : Backed(o)
  <2>1. \A k, o : Protectors(k, o)' = Protectors(k, o)
    BY <1>1 DEF Protectors, Protects, Settled, Guard, Guards, Scheme
  <2> QED  BY <2>1, BackedFewer
<1>4. \A o \in Objs : ObjOK(o)'
  BY <1>1, <1>2, <1>3, OwnersKept, StillStep DEF Placed
<1>5. ASSUME NEW u \in Threads PROVE ThreadOK(u)'
  <2>1. Retains(u) /\ Stays(u)
    BY <1>1, HarmlessSame DEF heap, Stays, Enter
  <2> QED  BY <1>1, <2>1, ThreadOther DEF CountInv
<1> QED  BY <1>4, <1>5 DEF CountInv

LEMMA ClearStep ==
  ASSUME CountInv, TypeInv', client' = client, Cells' = Cells, NEW t \in Threads, NEW s \in Snaps,
         Clear(t, s)
  PROVE  CountInv'
<1>1. /\ TypeInv /\ UNCHANGED <<heap, cell, own, cs, retired, pc>> /\ pc[t] = Idle
      /\ snap'[t] = [snap[t] EXCEPT ![s] = NoSnap] /\ \A u \in Threads \ {t} : snap'[u] = snap[u]
      /\ DOMAIN snap[t] = Snaps
  BY DEF CountInv, TypeInv, Clear, SetSnap, Free
<1>2. Same(t) /\ Placed(t)
  BY <1>1, PlacedCalm DEF Same
<1>3. \A r \in Snaps : snap'[t][r] = snap[t][r] \/ snap'[t][r] = NoSnap
  BY <1>1
<1>4. NoSnap.o \notin Objs
  BY NullAssumption DEF NoSnap
<1>5. /\ \A k, o, V : Loose(k, o, V)' = Loose(k, o, V)
      /\ \A o \in Objs : Waited(o)
  BY <1>1, RetiredSame
<1>6. \A o \in Objs : Backed(o)
  <2>1. \A r \in Snaps : Settled(t, r)
    BY <1>1 DEF Settled, Idle
  <2>2. \A k : \A o \in Objs : Protectors(k, o)' \subseteq Protectors(k, o)
    BY <1>2, <1>3, <1>4, <2>1, ProtectorsFewer
  <2> QED  BY <2>2, BackedFewer
<1>7. \A o \in Objs : ObjOK(o)'
  BY <1>1, <1>2, <1>5, <1>6, OwnersKept, StillStep DEF Placed
<1>8. \A u \in Threads : Retains(u) /\ Stays(u)
  BY <1>1, HarmlessSame DEF heap, Stays
<1>9. ASSUME NEW u \in Threads PROVE ThreadOK(u)'
  <2>1. CASE u # t
    BY <1>1, <1>2, <1>8, <2>1, ThreadOther DEF CountInv, Same
  <2>2. CASE u = t
    <3>1. KnownOK(t)'
      BY <1>1, <1>3, <1>4 DEF CountInv, ThreadOK, KnownOK, heap
    <3>2. ASSUME NEW r \in Snaps PROVE SnapOK(t, r)'
      <4>1. Usable(t, r)' <=> Usable(t, r)
        BY <1>1 DEF Usable
      <4>2. Scheme' = Scheme
        BY DEF Scheme
      <4> QED  BY <1>1, <1>3, <1>4, <1>8, <4>1, <4>2 DEF CountInv, ThreadOK, SnapOK, Retains
    <3>3. IncOK(t)' /\ FieldOK(t)'
      BY <1>1 DEF IncOK, FieldOK, Idle, Loading
    <3> QED  BY <2>2, <3>1, <3>2, <3>3 DEF ThreadOK
  <2> QED  BY <2>1, <2>2
<1> QED  BY <1>7, <1>9 DEF CountInv

LEMMA ExitStep ==
  ASSUME CountInv, TypeInv', client' = client, Cells' = Cells, NEW t \in Threads, Exit(t)
  PROVE  CountInv'
<1>1. /\ TypeInv /\ UNCHANGED <<heap, cell, own, pc>> /\ pc[t] = Idle
      /\ snap'[t] = [r \in Snaps |-> NoSnap] /\ \A u \in Threads \ {t} : snap'[u] = snap[u]
      /\ retired' = Forget(t, retired) /\ GoodBag(retired) /\ cs' = cs \ {t}
      /\ t \in Guards /\ \A u \in Threads, r \in Snaps : Guard(u, r) = u /\ Guard(u, r)' = u
  BY DEF CountInv, TypeInv, Exit, Free, Guard, Guards, Scheme
<1>2. Same(t) /\ Placed(t)
  BY <1>1, PlacedCalm DEF Same
<1>3. \A r \in Snaps : snap'[t][r] = NoSnap
  BY <1>1
<1>4. NoSnap.o \notin Objs
  BY NullAssumption DEF NoSnap
<1>5. \A k, o, V : t \notin V => Loose(k, o, V)' = Loose(k, o, V)
  BY <1>1, ForgetCount DEF Loose
<1>6. \A k \in Kinds : \A o \in Objs : t \notin Users(k, o)'
  <2>1. \A k : \A o \in Objs : t \notin Protectors(k, o)'
    BY <1>1, <1>3, <1>4 DEF Protectors, Protects
  <2>2. \A k, o : t \notin Incs(k, o)'
    <3>1. ASSUME NEW k, NEW o, t \in Incs(k, o) PROVE FALSE
      <4>1. PICK u \in Threads : t = Guard(u, pc[u].s) /\ In(pc[u], "inc", k, o) /\ pc[u].s \in Snaps
        BY <1>1, <3>1, IncsAre
      <4> QED  BY <1>1, <4>1 DEF In, Idle
    <3>2. \A k, o : Incs(k, o)' = Incs(k, o)
      BY <1>1, <1>2, PlacesKept DEF In, Idle
    <3> QED  BY <3>1, <3>2
  <2> QED  BY <2>1, <2>2 DEF Users
<1>7. \A o \in Objs : Waited(o)
  <2>1. SUFFICES ASSUME NEW o \in Objs, NEW k \in Kinds, NEW V \in SUBSET Users(k, o)'
                 PROVE  Loose(k, o, V)' <= Loose(k, o, V)
    BY DEF Waited
  <2>2. Loose(k, o, V)' = Loose(k, o, V) /\ Loose(k, o, V) \in Nat
    BY <1>1, <1>5, <1>6, Finite
  <2> HIDE DEF Loose
  <2> QED  BY <2>2
<1>8. \A o \in Objs : Backed(o)
  <2>1. \A r \in Snaps : snap'[t][r].o \notin Objs
    BY <1>3, <1>4
  <2>2. \A k : \A o \in Objs : Protectors(k, o)' \subseteq Protectors(k, o)
    BY <1>2, <2>1, ProtectorsFewer
  <2> QED  BY <2>2, BackedFewer
<1>9. \A o \in Objs : ObjOK(o)'
  BY <1>1, <1>2, <1>5, <1>7, <1>8, OwnersKept, StillStep DEF Placed
<1>10. ASSUME NEW u \in Threads \ {t} PROVE Retains(u) /\ Stays(u)
  <2>1. Stays(u)
    BY <1>1 DEF Stays, heap
  <2>2. SUFFICES ASSUME NEW s \in Snaps, NEW o \in Objs, snap[u][s].o = o, Usable(u, s)
                 PROVE  life'[o] = "live" /\ Undisposed(u, o)'
    BY <1>1, <2>1 DEF Retains
  <2>3. life[o] = "live" /\ Undisposed(u, o)
    BY <1>1, <2>2 DEF CountInv, ThreadOK, SnapOK
  <2>4. ASSUME NEW e \in DOMAIN retired', e.o = o, e.k = "dispose" PROVE u \in e.wait
    <3>1. PICK d \in DOMAIN retired : e = [d EXCEPT !.wait = @ \ {t}]
      BY <1>1 DEF Forget, BagToSet
    <3>2. d \in Entries
      BY <1>1 DEF GoodBag, BagToSet
    <3>3. d.o = e.o /\ d.k = e.k /\ e.wait = d.wait \ {t}
      BY <3>1, <3>2 DEF Entries
    <3> QED  BY <2>3, <2>4, <3>3 DEF Undisposed, BagToSet
  <2> QED  BY <1>1, <2>3, <2>4 DEF heap, Undisposed, BagToSet
<1>11. ASSUME NEW u \in Threads PROVE ThreadOK(u)'
  <2>1. CASE u # t
    BY <1>1, <1>2, <1>10, <2>1, ThreadOther DEF CountInv, Same
  <2>2. CASE u = t
    <3>1. KnownOK(t)'
      BY <1>1, <1>3, <1>4 DEF CountInv, ThreadOK, KnownOK, heap
    <3>2. \A r \in Snaps : SnapOK(t, r)'
      BY <1>3, <1>4 DEF SnapOK
    <3>3. IncOK(t)' /\ FieldOK(t)'
      BY <1>1 DEF IncOK, FieldOK, Idle, Loading
    <3> QED  BY <2>2, <3>1, <3>2, <3>3 DEF ThreadOK
  <2> QED  BY <2>1, <2>2
<1> QED  BY <1>9, <1>11 DEF CountInv

LEMMA ScanStep ==
  ASSUME CountInv, TypeInv', client' = client, Cells' = Cells,
         NEW e \in DOMAIN retired, NEW u \in Threads, NEW s \in Snaps, Scan(e, u, s)
  PROVE  CountInv'
<1>1. TypeInv /\ Same(u) /\ Placed(u) /\ UNCHANGED <<heap, cell, own, snap, cs, pc>>
  BY PlacedCalm DEF CountInv, Same, Scan
<1> DEFINE x == <<u, s>>
           d == Less(e, x)
<1>2. /\ e.o # snap[u][s].o /\ x \in e.wait /\ e \in Entries
      /\ \A v \in Threads, r \in Snaps : Guard(v, r) = <<v, r>> /\ Guard(v, r)' = <<v, r>>
  BY <1>1 DEF Scan, TypeInv, GoodBag, BagToSet, Guard, Scheme
<1>3. /\ d.o = e.o /\ d.k = e.k /\ d.wait = e.wait \ {x}
  BY <1>2 DEF Less, Entries
<1>4. /\ DOMAIN retired' \subseteq DOMAIN retired \cup {d}
      /\ \A k, o, V : Loose(k, o, V)' = Loose(k, o, V) - One(Matches(e, k, o, V)) + One(Matches(d, k, o, V))
  BY <1>1, ScanCount
<1>12. \A v \in Threads, r \in Snaps : Guard(v, r) = x => v = u /\ r = s
  BY <1>2
<1> HIDE DEF d, x
<1>5. \A k, o : \A V \in SUBSET Guards : /\ x \notin V \/ e.o # o => Loose(k, o, V)' = Loose(k, o, V)
                                       /\ Loose(k, o, V) \in Nat
  <2>1. SUFFICES ASSUME NEW k, NEW o, NEW V \in SUBSET Guards
                 PROVE  /\ x \notin V \/ e.o # o => Loose(k, o, V)' = Loose(k, o, V)
                        /\ Loose(k, o, V) \in Nat
    OBVIOUS
  <2>2. Loose(k, o, V) \in Nat
    BY <1>1, Finite
  <2>3. x \notin V \/ e.o # o => (Matches(d, k, o, V) <=> Matches(e, k, o, V))
    <3>1. x \notin V => (e.wait \ {x}) \cap V = e.wait \cap V
      OBVIOUS
    <3> QED  BY <1>3, <3>1 DEF Matches
  <2>4. Loose(k, o, V)' = Loose(k, o, V) - One(Matches(e, k, o, V)) + One(Matches(d, k, o, V))
    BY <1>4
  <2> HIDE DEF Loose
  <2> QED  BY <2>2, <2>3, <2>4 DEF One
<1>6. ASSUME NEW k \in Kinds, NEW o \in Objs, x \in Users(k, o)' PROVE o # e.o
  <2>1. Protectors("strong", o)' = Protectors("strong", o) /\ Protectors("weak", o)' = Protectors("weak", o)
    BY <1>1 DEF Protectors, Protects, Settled, Guard, Guards, Scheme
  <2>2. Incs(k, o)' = Incs(k, o)
    <3>1. pc'[u] = pc[u]
      BY <1>1
    <3> QED  BY <1>1, <3>1, PlacesKept
  <2>3. x \in Shielders(o)
    BY <1>6, <2>1, <2>2, ShieldedLemma DEF Users, Shielders, Shielded, CountInv, Kinds
  <2>4. PICK k2 \in Kinds, v \in Threads, r \in Snaps : x = Guard(v, r) /\ Protects(v, r, k2, o)
    BY <2>3, ProtectorsAre DEF Shielders, Kinds
  <2> QED  BY <1>2, <1>12, <2>4 DEF Protects
<1>7. \A o \in Objs : Waited(o)
  <2>1. SUFFICES ASSUME NEW o \in Objs, NEW k \in Kinds, NEW V \in SUBSET Users(k, o)'
                 PROVE  Loose(k, o, V)' <= Loose(k, o, V)
    BY DEF Waited
  <2>2. V \subseteq Guards
    BY UsersNext DEF UsersFacts, Guards
  <2>3. Loose(k, o, V)' = Loose(k, o, V) /\ Loose(k, o, V) \in Nat
    BY <1>5, <1>6, <2>2
  <2> HIDE DEF Loose
  <2> QED  BY <2>3
<1>8. \A o \in Objs : Backed(o)
  <2>1. \A k, o : Protectors(k, o)' = Protectors(k, o)
    BY <1>1 DEF Protectors, Protects, Settled, Guard, Guards, Scheme
  <2> QED  BY <2>1, BackedFewer
<1>9. \A k \in Work, o \in Objs : Loose(k, o, {})' = Loose(k, o, {})
  BY <1>5
<1>10. \A o \in Objs : ObjOK(o)'
  BY <1>1, <1>7, <1>8, <1>9, OwnersKept, StillStep DEF Placed
<1>11. ASSUME NEW v \in Threads PROVE ThreadOK(v)'
  <2>1. Stays(v)
    BY <1>1 DEF Stays, heap
  <2>2. ASSUME NEW r \in Snaps, NEW o \in Objs, snap[v][r].o = o, Usable(v, r)
        PROVE  life'[o] = "live" /\ Undisposed(Guard(v, r), o)'
    <3>1. life[o] = "live" /\ Undisposed(Guard(v, r), o)
      BY <2>2 DEF CountInv, ThreadOK, SnapOK
    <3>2. ASSUME NEW f \in DOMAIN retired', f.o = o, f.k = "dispose" PROVE Guard(v, r) \in f.wait
      <4>1. CASE f \in DOMAIN retired
        BY <3>1, <3>2, <4>1 DEF Undisposed, BagToSet
      <4>2. CASE f = d
        <5>1. Guard(v, r) # x
          BY <1>2, <1>3, <1>12, <2>2, <3>2, <4>2
        <5>2. Guard(v, r) \in e.wait
          BY <1>3, <3>1, <3>2, <4>2 DEF Undisposed, BagToSet
        <5> QED  BY <1>3, <4>2, <5>1, <5>2
      <4> QED  BY <1>4, <4>1, <4>2
    <3> QED  BY <1>1, <1>2, <3>1, <3>2 DEF heap, Undisposed, BagToSet
  <2> QED  BY <1>1, <2>1, <2>2, ThreadOther DEF CountInv, Retains
<1> QED  BY <1>10, <1>11 DEF CountInv

-------------------------------------------------------------------------------
(* Steps that move a reference. *)

\* t's call, if any, is over; a reference may have moved between the cell c, t's
\* variables, its call and the retired work.
LEMMA MoveStep ==
  ASSUME CountInv, TypeInv', client' = client, Cells' = Cells, NEW t \in Threads, Same(t),
         UNCHANGED <<heap, snap, cs>>, pc[t].at \in {"idle", "swap", "cas"}, pc'[t] = Idle,
         NEW x \in Ptr, NEW k \in Kinds, Retiring(retired, x, k),
         NEW c \in Cells \cup {Null}, \A d \in Cells \ {c} : cell'[d] = cell[d],
         \A j \in Kinds, o \in Objs :
           One(c \in Cells /\ Kind(c) = j /\ cell'[c] = o) + One(own'[j][t] = o) + One(o = x /\ j = k)
           = One(c \in Cells /\ Kind(c) = j /\ cell[c] = o) + One(own[j][t] = o)
             + One(In(pc[t], "swap", j, o))
  PROVE  CountInv'
<1>1. TypeInv /\ GoodBag(retired) /\ k \in Work
  BY DEF CountInv, TypeInv, Work
<1>2. Steady(t) /\ \A o \in Objs : Release(pc'[t], o) <=> Release(pc[t], o)
  BY DEF Steady, In, Release, Idle
<1>3. /\ \A e \in DOMAIN retired' : e \in DOMAIN retired \/ e.k = k
      /\ \A j, V : \A o \in Objs : Loose(j, o, V)'
           = Loose(j, o, V) + One(o = x /\ j = k /\ Witnesses \cap V = {})
  BY <1>1, RetiringCount DEF Loose
<1>4. ASSUME NEW j \in Kinds, NEW o \in Objs PROVE Owners(j, o)' = Owners(j, o)
  <2>1. One(In(pc'[t], "swap", j, o)) = 0
    BY DEF One, In, Idle
  <2>2. Loose(j, o, {})' = Loose(j, o, {}) + One(o = x /\ j = k)
    <3>1. Loose(j, o, {})' = Loose(j, o, {}) + One(o = x /\ j = k /\ Witnesses \cap {} = {})
      BY <1>3
    <3>2. One(o = x /\ j = k /\ Witnesses \cap {} = {}) = One(o = x /\ j = k)
      BY DEF One
    <3> QED  BY <3>1, <3>2
  <2>3. /\ One(c \in Cells /\ Kind(c) = j /\ cell'[c] = o) \in Nat
        /\ One(c \in Cells /\ Kind(c) = j /\ cell[c] = o) \in Nat
        /\ One(own'[j][t] = o) \in Nat /\ One(own[j][t] = o) \in Nat
        /\ One(o = x /\ j = k) \in Nat /\ One(In(pc[t], "swap", j, o)) \in Nat
    BY DEF One
  <2>4. /\ Owners(j, o)' = Owners(j, o)
            + One(c \in Cells /\ Kind(c) = j /\ cell'[c] = o) - One(c \in Cells /\ Kind(c) = j /\ cell[c] = o)
            + One(own'[j][t] = o) - One(own[j][t] = o)
            + Loose(j, o, {})' - Loose(j, o, {})
            + One(In(pc'[t], "swap", j, o)) - One(In(pc[t], "swap", j, o))
        /\ Owners(j, o) \in Nat /\ Loose(j, o, {}) \in Nat
    BY <1>1, OwnersStep
  <2>5. One(c \in Cells /\ Kind(c) = j /\ cell'[c] = o) + One(own'[j][t] = o) + One(o = x /\ j = k)
           = One(c \in Cells /\ Kind(c) = j /\ cell[c] = o) + One(own[j][t] = o)
             + One(In(pc[t], "swap", j, o))
    OBVIOUS
  <2> HIDE DEF Owners, Loose
  <2> QED  BY <2>1, <2>2, <2>3, <2>4, <2>5
<1>5. ASSUME NEW o \in Objs PROVE Disposers(o)' = Disposers(o)
  <2>1. Loose("dispose", o, {})' = Loose("dispose", o, {}) + One(o = x /\ "dispose" = k /\ Witnesses \cap {} = {})
    BY <1>3
  <2>2. One(o = x /\ "dispose" = k /\ Witnesses \cap {} = {}) = 0
    BY DEF One, Kinds
  <2>3. One(Release(pc'[t], o)) = One(Release(pc[t], o)) /\ One(Release(pc[t], o)) \in Nat
    BY <1>2 DEF One
  <2> QED  BY <1>1, <2>1, <2>2, <2>3, DisposersStep
<1>6. /\ \A j, o : Protectors(j, o)' = Protectors(j, o)
      /\ \A j \in Kinds, o \in Objs : Incs(j, o)' = Incs(j, o)
  <2>1. Calm(pc[t]) /\ Calm(pc'[t])
    BY DEF Calm, Idle
  <2> QED  BY <1>1, <1>2, <2>1, ProtectorsSame, PlacesKept DEF Steady
<1>7. ASSUME NEW o \in Objs PROVE Waited(o) /\ Backed(o)
  <2>1. \A j \in Kinds : Users(j, o)' \subseteq Users(j, o)
    BY <1>6 DEF Users
  <2>2. \A j, q, V : CountIn(retired, j, q, V) <= Loose(j, q, V)
    BY <1>1, LooseFinite DEF Loose
  <2> QED  BY <1>1, <1>6, <2>1, <2>2, RetiringWaited, BackedFewer DEF CountInv
<1>8. \A o \in Objs : ObjOK(o)'
  BY <1>2, <1>4, <1>5, <1>7, StillStep
<1>9. \A u \in Threads : Retains(u) /\ Stays(u)
  <2>1. Harmless
    BY <1>3 DEF Harmless, heap, Kinds
  <2> QED  BY <2>1, HarmlessRetains DEF CountInv, Stays, heap
<1>10. ASSUME NEW u \in Threads PROVE ThreadOK(u)'
  <2>1. CASE u # t
    BY <1>1, <1>9, <2>1, ThreadOther DEF CountInv, Same
  <2>2. CASE u = t
    <3>1. pc[t].at \notin Loading \ {"cas"} /\ pc'[t].at \notin Loading /\ pc'[t].at # "swap"
      BY DEF Loading, Idle
    <3>2. Named(pc'[t]) \notin Objs /\ IncOK(t)'
      BY NullAssumption DEF Named, IncOK, Idle
    <3> QED  BY <1>1, <1>9, <2>2, <3>1, <3>2, ThreadCalm DEF CountInv
  <2> QED  BY <2>1, <2>2
<1> QED  BY <1>8, <1>10 DEF CountInv

LEMMA DropStep ==
  ASSUME CountInv, TypeInv', client' = client, Cells' = Cells, NEW t \in Threads, NEW k \in Kinds,
         Drop(t, k)
  PROVE  CountInv'
<1>1. /\ UNCHANGED <<heap, cell, snap, cs, pc>> /\ pc[t] = Idle /\ own[k][t] \in Ptr
      /\ own'[k][t] = Null /\ \A j \in Kinds \ {k} : own'[j][t] = own[j][t]
      /\ \A j \in Kinds : \A u \in Threads \ {t} : own'[j][u] = own[j][u]
  BY DEF CountInv, TypeInv, Drop, May, Free
<1>2. Same(t) /\ Retiring(retired, own[k][t], k)
  BY <1>1 DEF Same, Drop, Retire, Retiring
<1>3. ASSUME NEW j \in Kinds, NEW o \in Objs
      PROVE  One(Null \in Cells /\ Kind(Null) = j /\ cell'[Null] = o) + One(own'[j][t] = o) + One(o = own[k][t] /\ j = k)
             = One(Null \in Cells /\ Kind(Null) = j /\ cell[Null] = o) + One(own[j][t] = o)
               + One(In(pc[t], "swap", j, o))
  <2>1. own'[j][t] = IF j = k THEN Null ELSE own[j][t]
    BY <1>1
  <2>2. ~In(pc[t], "swap", j, o)
    BY <1>1 DEF In, Idle
  <2> QED  BY <1>1, <2>1, <2>2, NullAssumption DEF One
<1>4. pc'[t] = Idle /\ pc[t].at \in {"idle", "swap", "cas"}
  BY <1>1 DEF Idle
<1>5. Null \in Cells \cup {Null} /\ \A d \in Cells \ {Null} : cell'[d] = cell[d]
  BY <1>1
<1> QED  BY <1>1, <1>2, <1>3, <1>4, <1>5, MoveStep

LEMMA StoreStep ==
  ASSUME CountInv, TypeInv', client' = client, Cells' = Cells, NEW t \in Threads, NEW c \in Cells,
         Store(t, c)
  PROVE  CountInv'
<1> DEFINE k == Kind(c)
<1>0. k \in Kinds /\ own[k][t] \in Ptr /\ cell[c] \in Ptr
  BY DEF Kind, Kinds, CountInv, TypeInv
<1>1. /\ UNCHANGED <<heap, snap, cs, pc>> /\ pc[t] = Idle
      /\ own'[k][t] = Null /\ \A j \in Kinds \ {k} : own'[j][t] = own[j][t]
      /\ \A j \in Kinds : \A u \in Threads \ {t} : own'[j][u] = own[j][u]
      /\ cell'[c] = own[k][t] /\ \A d \in Cells \ {c} : cell'[d] = cell[d]
  <2>1. own \in [Kinds -> [Threads -> Ptr]] /\ cell \in [Cells -> Ptr]
    BY DEF CountInv, TypeInv
  <2> QED  BY <1>0, <2>1 DEF Store, May, Free
<1>2. Same(t) /\ Retiring(retired, cell[c], k)
  BY <1>1 DEF Same, Store, Retire, Retiring
<1>3. ASSUME NEW j \in Kinds, NEW o \in Objs
      PROVE  One(c \in Cells /\ Kind(c) = j /\ cell'[c] = o) + One(own'[j][t] = o) + One(o = cell[c] /\ j = k)
             = One(c \in Cells /\ Kind(c) = j /\ cell[c] = o) + One(own[j][t] = o)
               + One(In(pc[t], "swap", j, o))
  <2>1. own'[j][t] = IF j = k THEN Null ELSE own[j][t]
    BY <1>1
  <2>2. ~In(pc[t], "swap", j, o)
    BY <1>1 DEF In, Idle
  <2> QED  BY <1>1, <2>1, <2>2, NullAssumption DEF One
<1>4. pc'[t] = Idle /\ pc[t].at \in {"idle", "swap", "cas"}
  BY <1>1 DEF Idle
<1> HIDE DEF k
<1> QED  BY <1>0, <1>1, <1>2, <1>3, <1>4, MoveStep

LEMMA SwapStep ==
  ASSUME CountInv, TypeInv', client' = client, Cells' = Cells, NEW t \in Threads, NEW c \in Cells,
         Swap(t, c)
  PROVE  CountInv'
<1> DEFINE k == Kind(c)
<1>0. k \in Kinds /\ own[k][t] \in Ptr /\ cell[c] \in Ptr
  BY DEF Kind, Kinds, CountInv, TypeInv
<1>1. /\ UNCHANGED <<heap, snap, cs, pc, retired>> /\ pc[t] = Idle
      /\ own'[k][t] = cell[c] /\ \A j \in Kinds \ {k} : own'[j][t] = own[j][t]
      /\ \A j \in Kinds : \A u \in Threads \ {t} : own'[j][u] = own[j][u]
      /\ cell'[c] = own[k][t] /\ \A d \in Cells \ {c} : cell'[d] = cell[d]
  <2>1. own \in [Kinds -> [Threads -> Ptr]] /\ cell \in [Cells -> Ptr]
    BY DEF CountInv, TypeInv
  <2> QED  BY <1>0, <2>1 DEF Swap, May, Free
<1>2. Same(t) /\ Retiring(retired, Null, k) /\ Null \in Ptr
  BY <1>1 DEF Same, Retiring, Ptr
<1>3. ASSUME NEW j \in Kinds, NEW o \in Objs
      PROVE  One(c \in Cells /\ Kind(c) = j /\ cell'[c] = o) + One(own'[j][t] = o) + One(o = Null /\ j = k)
             = One(c \in Cells /\ Kind(c) = j /\ cell[c] = o) + One(own[j][t] = o)
               + One(In(pc[t], "swap", j, o))
  <2>1. own'[j][t] = IF j = k THEN cell[c] ELSE own[j][t]
    BY <1>1
  <2>2. ~In(pc[t], "swap", j, o)
    BY <1>1 DEF In, Idle
  <2> QED  BY <1>1, <2>1, <2>2, NullAssumption DEF One
<1>4. pc'[t] = Idle /\ pc[t].at \in {"idle", "swap", "cas"}
  BY <1>1 DEF Idle
<1> HIDE DEF k
<1> QED  BY <1>0, <1>1, <1>2, <1>3, <1>4, MoveStep

LEMMA StoreSwapStep ==
  ASSUME CountInv, TypeInv', client' = client, Cells' = Cells, NEW t \in Threads, StoreSwap(t)
  PROVE  CountInv'
<1> DEFINE c == pc[t].c
           k == Kind(c)
<1>0. /\ pc[t].at = "swap" /\ c \in Cells /\ pc[t].o \in Objs /\ k \in Kinds /\ cell[c] \in Ptr
      /\ pc \in [Threads -> Controls] /\ cell \in [Cells -> Ptr]
  <2>1. pc[t] \in Controls /\ cell \in [Cells -> Ptr] /\ pc \in [Threads -> Controls]
    BY DEF CountInv, TypeInv
  <2>2. pc[t].at = "swap"
    BY DEF StoreSwap
  <2> QED  BY <2>1, <2>2, ControlShape DEF Kind, Kinds
<1>1. /\ UNCHANGED <<heap, snap, cs, own>> /\ pc'[t] = Idle
      /\ \A u \in Threads \ {t} : pc'[u] = pc[u]
      /\ cell'[c] = pc[t].o /\ \A d \in Cells \ {c} : cell'[d] = cell[d]
  BY <1>0 DEF StoreSwap, Goto
<1>2. Same(t) /\ Retiring(retired, cell[c], k)
  BY <1>1 DEF Same, StoreSwap, Retire, Retiring
<1>3. ASSUME NEW j \in Kinds, NEW o \in Objs
      PROVE  One(c \in Cells /\ Kind(c) = j /\ cell'[c] = o) + One(own'[j][t] = o) + One(o = cell[c] /\ j = k)
             = One(c \in Cells /\ Kind(c) = j /\ cell[c] = o) + One(own[j][t] = o)
               + One(In(pc[t], "swap", j, o))
  <2>1. In(pc[t], "swap", j, o) <=> pc[t].o = o /\ j = k
    BY <1>0 DEF In
  <2> QED  BY <1>0, <1>1, <2>1 DEF One
<1>4. pc[t].at \in {"idle", "swap", "cas"}
  BY <1>0
<1> HIDE DEF k, c
<1> QED  BY <1>0, <1>1, <1>2, <1>3, <1>4, MoveStep

-------------------------------------------------------------------------------
(* Steps that count a reference. *)

\* What an owner or a snapshot says of the counters.
LEMMA OwnerCounting ==
  ASSUME CountInv, NEW k \in Kinds, NEW o \in Objs,
         \/ \E t \in Threads : own[k][t] = o \/ In(pc[t], "swap", k, o)
         \/ \E c \in Cells : Kind(c) = k /\ cell[c] = o
         \/ \E e \in DOMAIN retired : e.o = o /\ e.k = k
  PROVE  /\ Counting(k, o) /\ Counting("weak", o)
         /\ k = "strong" => life[o] = "live"
<1>1. TypeInv /\ ObjOK(o) /\ Shielded(o)
  BY ShieldedLemma DEF CountInv
<1>2. Loose(k, o, {}) \in Nat /\ Owners(k, o) \in Nat
  BY <1>1, Finite, OwnersIs
<1>3. Owners(k, o) > 0
  BY <1>1, <1>2, OwnerCounts
<1>4. Counting(k, o)
  BY <1>1, <1>3, CountFacts
<1> QED  BY <1>1, <1>4, CountFacts DEF Kinds

LEMMA SnapCounting ==
  ASSUME CountInv, NEW t \in Threads, NEW s \in Snaps, Settled(t, s),
         NEW o \in Objs, snap[t][s].o = o
  PROVE  /\ Guard(t, s) \in Protectors(snap[t][s].k, o) /\ Guard(t, s) \in Shielders(o)
         /\ Counting("weak", o)
         /\ snap[t][s].k = "strong" => Counting("strong", o) /\ life[o] = "live"
<1>1. snap[t][s].k \in Kinds
  BY DEF CountInv, TypeInv
<1>2. Guard(t, s) \in Protectors(snap[t][s].k, o)
  BY ProtectorsAre DEF Protects
<1>3. Guard(t, s) \in Shielders(o)
  BY <1>1, <1>2 DEF Kinds, Shielders
<1>4. ProtectedOK(o)
  BY DEF CountInv, ObjOK
<1> QED  BY <1>2, <1>3, <1>4 DEF ProtectedOK, Counting, Alive

LEMMA CountStep ==
  ASSUME CountInv, TypeInv', client' = client, Cells' = Cells, NEW t \in Threads, Same(t),
         UNCHANGED <<life, flag, cell, snap, cs, retired>>, pc[t] = Idle,
         pc'[t] = Idle \/ (pc'[t].at = "swap" /\ (Names(t, Null, pc[t].c))'),
         NEW k \in Kinds, NEW q \in Objs, Counting(k, q), cnt[k][q] < MaxCount, Inc(k, q),
         \A j \in Kinds, o \in Objs :
           One(own'[j][t] = o) + One(In(pc'[t], "swap", j, o)) = One(own[j][t] = o) + One(j = k /\ o = q)
  PROVE  CountInv'
<1>1. TypeInv /\ \A o \in Objs : ObjOK(o) /\ Shielded(o)
  BY ShieldedLemma DEF CountInv
<1>2. /\ cnt'[k][q] = cnt[k][q] + 1
      /\ \A j \in Kinds, o \in Objs : j # k \/ o # q => cnt'[j][o] = cnt[j][o]
  <2>1. CanInc(k, q) /\ q # Null
    BY NullAssumption DEF Counting, CanInc
  <2>2. cnt' = [cnt EXCEPT ![k][q] = @ + 1]
    BY <2>1 DEF Inc
  <2> QED  BY <1>1, <2>2 DEF TypeInv
<1>3. /\ Steady(t) /\ \A o \in Objs : Release(pc'[t], o) <=> Release(pc[t], o)
      /\ Calm(pc[t]) /\ Calm(pc'[t]) /\ \A j, o : ~In(pc[t], "swap", j, o)
  BY DEF Steady, In, Release, Idle, Calm
<1>4. /\ \A j, o, V : Loose(j, o, V)' = Loose(j, o, V)
      /\ \A o \in Objs : Waited(o)
  BY <1>1, RetiredSame
<1>5. ASSUME NEW j \in Kinds, NEW o \in Objs
      PROVE  Owners(j, o)' = Owners(j, o) + One(j = k /\ o = q)
  <2>1. One(In(pc[t], "swap", j, o)) = 0
    BY <1>3 DEF One
  <2>2. Loose(j, o, {})' = Loose(j, o, {})
    BY <1>4
  <2>3. /\ One(own'[j][t] = o) \in Nat /\ One(own[j][t] = o) \in Nat
        /\ One(j = k /\ o = q) \in Nat /\ One(In(pc'[t], "swap", j, o)) \in Nat
        /\ One(Null \in Cells /\ Kind(Null) = j /\ cell'[Null] = o)
             = One(Null \in Cells /\ Kind(Null) = j /\ cell[Null] = o)
        /\ One(Null \in Cells /\ Kind(Null) = j /\ cell[Null] = o) \in Nat
    BY DEF One
  <2>4. /\ Owners(j, o)' = Owners(j, o)
            + One(Null \in Cells /\ Kind(Null) = j /\ cell'[Null] = o) - One(Null \in Cells /\ Kind(Null) = j /\ cell[Null] = o)
            + One(own'[j][t] = o) - One(own[j][t] = o)
            + Loose(j, o, {})' - Loose(j, o, {})
            + One(In(pc'[t], "swap", j, o)) - One(In(pc[t], "swap", j, o))
        /\ Owners(j, o) \in Nat /\ Loose(j, o, {}) \in Nat
    <3>1. Null \in Cells \cup {Null} /\ \A d \in Cells \ {Null} : cell'[d] = cell[d]
      OBVIOUS
    <3> QED  BY <1>1, <3>1, OwnersStep
  <2>5. One(own'[j][t] = o) + One(In(pc'[t], "swap", j, o)) = One(own[j][t] = o) + One(j = k /\ o = q)
    OBVIOUS
  <2> HIDE DEF Owners, Loose
  <2> QED  BY <2>1, <2>2, <2>3, <2>4, <2>5
<1>6. ASSUME NEW o \in Objs PROVE Disposers(o)' = Disposers(o)
  <2>1. Loose("dispose", o, {})' = Loose("dispose", o, {})
    BY <1>4
  <2>2. One(Release(pc'[t], o)) = One(Release(pc[t], o)) /\ One(Release(pc[t], o)) \in Nat
    BY <1>3 DEF One
  <2> QED  BY <1>1, <2>1, <2>2, DisposersStep
<1>7. /\ \A j, o : Protectors(j, o)' = Protectors(j, o)
      /\ \A j \in Kinds, o \in Objs : /\ Incs(j, o)' = Incs(j, o)
                                      /\ Settlers(j, o) \subseteq Settlers(j, o)'
  BY <1>1, <1>3, ProtectorsSame, PlacesKept DEF Steady
<1>8. ASSUME NEW o \in Objs PROVE ObjOK(o)'
  <2>1. SameObj(o) /\ SameUse(o)
    BY <1>6, <1>7 DEF SameObj, SameUse
  <2>2. \A j \in Kinds : j # k \/ o # q => SameCount(j, o)
    <3>1. SUFFICES ASSUME NEW j \in Kinds, j # k \/ o # q PROVE SameCount(j, o)
      OBVIOUS
    <3>2. Owners(j, o)' = Owners(j, o)
      <4>1. One(j = k /\ o = q) = 0
        BY <3>1 DEF One
      <4>2. Owners(j, o) \in Nat /\ Owners(j, o)' = Owners(j, o) + One(j = k /\ o = q)
        BY <1>1, <1>5, OwnersIs
      <4> QED  BY <4>1, <4>2
    <3> QED  BY <1>2, <1>7, <3>1, <3>2 DEF SameCount
  <2>3. CASE o # q
    BY <1>1, <1>4, <1>7, <2>1, <2>2, <2>3, ObjStill, UseSame
  <2>4. CASE o = q
    <3>1. Owners(k, o)' = Owners(k, o) + 1
      <4>1. One(k = k /\ o = q) = 1
        BY <2>4 DEF One
      <4> QED  BY <1>5, <4>1
    <3> QED  BY <1>1, <1>2, <1>4, <1>7, <2>1, <2>2, <2>4, <3>1, ObjTake
  <2> QED  BY <2>3, <2>4
<1>9. \A u \in Threads : Retains(u) /\ Stays(u)
  BY HarmlessSame DEF Stays
<1>10. ASSUME NEW u \in Threads PROVE ThreadOK(u)'
  <2>1. CASE u # t
    BY <1>1, <1>9, <2>1, ThreadOther DEF CountInv, Same
  <2>2. CASE u = t
    <3>1. pc[t].at \notin Loading \ {"cas"} /\ pc'[t].at \notin Loading
      BY DEF Loading, Idle
    <3>2. Named(pc'[t]) \notin Objs /\ IncOK(t)'
      <4>1. pc'[t].at \in {"idle", "swap"}
        BY DEF Idle
      <4>2. Named(pc'[t]) = Null
        BY <4>1 DEF Named
      <4>3. pc'[t].at # "inc"
        BY <4>1
      <4> QED  BY <4>2, <4>3, NullAssumption DEF IncOK
    <3>3. (pc[t].at = "swap" => Names(t, Null, pc[t].c))'
      BY DEF Idle
    <3> QED  BY <1>1, <1>9, <2>2, <3>1, <3>2, <3>3, ThreadCalm DEF CountInv
  <2> QED  BY <2>1, <2>2
<1> QED  BY <1>8, <1>10 DEF CountInv

LEMMA TakeStep ==
  ASSUME CountInv, TypeInv', client' = client, Cells' = Cells, NEW t \in Threads, Free(t),
         NEW k \in Kinds, NEW q \in Objs, Counting(k, q), Take(t, k, q)
  PROVE  CountInv'
<1>1. /\ own[k][t] = Null /\ cnt[k][q] < MaxCount /\ Inc(k, q)
      /\ UNCHANGED <<life, flag, cell, snap, cs, retired, pc>> /\ pc[t] = Idle
      /\ own'[k][t] = q /\ \A j \in Kinds \ {k} : own'[j][t] = own[j][t]
      /\ \A j \in Kinds : \A u \in Threads \ {t} : own'[j][u] = own[j][u]
  <2>1. own \in [Kinds -> [Threads -> Ptr]]
    BY DEF CountInv, TypeInv
  <2> QED  BY <2>1, NullAssumption DEF Take, Room, Free
<1>2. Same(t) /\ pc'[t] = Idle
  BY <1>1 DEF Same
<1>3. ASSUME NEW j \in Kinds, NEW o \in Objs
      PROVE  One(own'[j][t] = o) + One(In(pc'[t], "swap", j, o)) = One(own[j][t] = o) + One(j = k /\ o = q)
  <2>1. own'[j][t] = IF j = k THEN q ELSE own[j][t]
    BY <1>1
  <2>2. ~In(pc'[t], "swap", j, o)
    BY <1>2 DEF In, Idle
  <2> QED  BY <1>1, <2>1, <2>2, NullAssumption DEF One
<1> QED  BY <1>1, <1>2, <1>3, CountStep

\* A client in question makes no Rc of a snapshot of a weak reference.
LEMMA OnlyStrong ==
  ASSUME CountInv, SafeClients, NEW n, Promotable(n) PROVE n.k = "strong"
BY DEF CountInv, TypeInv, SafeClients, Promotable, Calls

LEMMA CloneStep ==
  ASSUME CountInv, TypeInv', client' = client, Cells' = Cells,
         NEW t \in Threads, NEW u \in Threads, NEW k \in Kinds, Clone(t, u, k)
  PROVE  CountInv'
<1>1. own[k][u] \in Objs /\ Free(t) /\ Take(t, k, own[k][u])
  BY DEF Clone, Take, May, CountInv, TypeInv, Ptr
<1>2. Counting(k, own[k][u])
  BY <1>1, OwnerCounting
<1> QED  BY <1>1, <1>2, TakeStep

LEMMA FromSnapshotStep ==
  ASSUME CountInv, SafeClients, TypeInv', client' = client, Cells' = Cells,
         NEW t \in Threads, NEW s \in Snaps, FromSnapshot(t, s)
  PROVE  CountInv'
<1>1. /\ snap[t][s].o \in Objs /\ Free(t) /\ Take(t, "strong", snap[t][s].o)
      /\ snap[t][s].k = "strong" /\ "strong" \in Kinds
  BY OnlyStrong DEF FromSnapshot, Take, May, CountInv, TypeInv, Ptr, Kinds
<1>2. Settled(t, s)
  BY <1>1 DEF Settled, Free, Idle
<1>3. Counting("strong", snap[t][s].o)
  BY <1>1, <1>2, SnapCounting
<1> QED  BY <1>1, <1>3, TakeStep

LEMMA FromStrongStep ==
  ASSUME CountInv, TypeInv', client' = client, Cells' = Cells, NEW t \in Threads, FromStrong(t)
  PROVE  CountInv'
<1>1. PICK o \in {own["strong"][t]} \cup Shields(t) : Take(t, "weak", o)
  BY DEF FromStrong
<1>2. /\ "weak" \in Kinds /\ "strong" \in Kinds /\ Free(t) /\ o # Null
  BY <1>1 DEF Kinds, FromStrong, May, Take
<1>3. CASE o = own["strong"][t]
  <2>1. o \in Objs
    BY <1>2, <1>3 DEF CountInv, TypeInv, Ptr
  <2>2. Counting("weak", o)
    BY <1>2, <1>3, <2>1, OwnerCounting
  <2> QED  BY <1>1, <1>2, <2>1, <2>2, TakeStep
<1>4. CASE o \in Shields(t)
  <2>1. PICK s \in Snaps : snap[t][s].o = o
    BY <1>4 DEF Shields
  <2>2. o \in Objs
    BY <1>2, <2>1 DEF CountInv, TypeInv, Ptr
  <2>3. Settled(t, s)
    BY <1>2 DEF Settled, Free, Idle
  <2>4. Counting("weak", o)
    BY <2>1, <2>2, <2>3, SnapCounting
  <2> QED  BY <1>1, <1>2, <2>2, <2>4, TakeStep
<1> QED  BY <1>3, <1>4

LEMMA UpgradeStep ==
  ASSUME CountInv, TypeInv', client' = client, Cells' = Cells, NEW t \in Threads, Upgrade(t)
  PROVE  CountInv'
<1> DEFINE o == own["weak"][t]
<1>1. /\ "weak" \in Kinds /\ "strong" \in Kinds /\ Free(t) /\ o # Null /\ Take(t, "strong", o)
      /\ CanInc("strong", o)
  BY DEF Kinds, Upgrade, May
<1>2. o \in Objs
  BY <1>1 DEF CountInv, TypeInv, Ptr
<1>3. Counting("weak", o)
  BY <1>1, <1>2, OwnerCounting
<1>4. Counting("strong", o)
  BY <1>1, <1>3 DEF Counting, CanInc
<1> HIDE DEF o
<1> QED  BY <1>1, <1>2, <1>4, TakeStep

\* What a snapshot that is stored refers to.
LEMMA StoredCounting ==
  ASSUME CountInv, SafeClients, NEW t \in Threads, NEW s \in Snaps, NEW k \in Kinds, pc[t] = Idle,
         snap[t][s].o # Null, k = "strong" => Promotable(snap[t][s])
  PROVE  /\ snap[t][s].o \in Objs /\ Counting(k, snap[t][s].o)
         /\ Guard(t, s) \in Shielders(snap[t][s].o)
         /\ k = "strong" => Guard(t, s) \in Protectors("strong", snap[t][s].o)
<1>1. snap[t][s].o \in Objs
  BY DEF CountInv, TypeInv, Ptr
<1>2. Settled(t, s)
  BY DEF Settled, Idle
<1>3. k = "strong" => snap[t][s].k = "strong"
  BY OnlyStrong
<1> QED  BY <1>1, <1>2, <1>3, SnapCounting DEF Kinds

LEMMA StoreSnapStep ==
  ASSUME CountInv, SafeClients, TypeInv', client' = client, Cells' = Cells,
         NEW t \in Threads, NEW s \in Snaps, NEW c \in Cells, StoreSnap(t, s, c)
  PROVE  CountInv'
<1> DEFINE k == Kind(c)
           q == snap[t][s].o
<1>1. /\ k \in Kinds /\ q # Null /\ pc[t] = Idle
      /\ k = "strong" => Promotable(snap[t][s])
      /\ UNCHANGED <<life, flag, cell, own, snap, cs, retired>> /\ Inc(k, q)
      /\ Names(t, Null, c) /\ cnt[k][q] < MaxCount /\ pc \in [Threads -> Controls]
      /\ Goto(t, [at |-> "swap", c |-> c, o |-> q])
  BY DEF StoreSnap, May, Free, Room, Kind, Kinds, CountInv, TypeInv
<1> HIDE DEF k
<1>2. q \in Objs /\ Counting(k, q)
  BY <1>1, StoredCounting
<1> HIDE DEF q
<1>3. pc'[t] = [at |-> "swap", c |-> c, o |-> q] /\ \A u \in Threads \ {t} : pc'[u] = pc[u]
  BY <1>1 DEF Goto
<1>4. Same(t)
  BY <1>1, <1>3 DEF Same
<1>5. pc'[t].at = "swap" /\ (Names(t, Null, pc[t].c))'
  <2>1. pc'[t].at = "swap" /\ pc'[t].c = c
    BY <1>3
  <2>2. Nodes' = Nodes
    BY DEF Nodes
  <2> QED  BY <1>1, <2>1, <2>2 DEF Names
<1>6. ASSUME NEW j \in Kinds, NEW o \in Objs
      PROVE  One(own'[j][t] = o) + One(In(pc'[t], "swap", j, o)) = One(own[j][t] = o) + One(j = k /\ o = q)
  <2>1. In(pc'[t], "swap", j, o) <=> j = k /\ o = q
    BY <1>3 DEF In, k
  <2> QED  BY <1>1, <2>1 DEF One
<1>7. pc'[t] = Idle \/ (pc'[t].at = "swap" /\ (Names(t, Null, pc[t].c))')
  BY <1>5
<1>8. UNCHANGED <<life, flag, cell, snap, cs, retired>>
  BY <1>1
<1> QED  BY <1>1, <1>2, <1>4, <1>6, <1>7, <1>8, CountStep


\* A thread that is about to count the reference it has stored.
LEMMA CasSnapStep ==
  ASSUME CountInv, SafeClients, TypeInv', client' = client, Cells' = Cells,
         NEW t \in Threads, NEW s \in Snaps, NEW c \in Cells, CasSnap(t, s, c)
  PROVE  CountInv'
<1> DEFINE k == Kind(c)
<1>0. PICK q : q = snap[t][s].o
  OBVIOUS
<1>1. /\ k \in Kinds /\ q # Null /\ pc[t] = Idle
      /\ k = "strong" => Promotable(snap[t][s])
      /\ UNCHANGED <<life, cnt, flag, snap, cs, retired>>
      /\ cnt[k][q] < MaxCount /\ pc \in [Threads -> Controls] /\ own[k][t] = Null
      /\ cell \in [Cells -> Ptr] /\ own \in [Kinds -> [Threads -> Ptr]]
      /\ Goto(t, [at |-> "inc", s |-> s, k |-> k, o |-> q])
      /\ cell' = [cell EXCEPT ![c] = q] /\ own' = [own EXCEPT ![k][t] = cell[c]]
  BY <1>0 DEF CasSnap, May, Free, Room, Kind, Kinds, CountInv, TypeInv, heap
<1> HIDE DEF k
<1>2. /\ q \in Objs /\ Counting(k, q) /\ Guard(t, s) \in Shielders(q)
      /\ k = "strong" => Guard(t, s) \in Protectors("strong", q)
  BY <1>0, <1>1, StoredCounting
<1>3. /\ pc'[t] = [at |-> "inc", s |-> s, k |-> k, o |-> q] /\ \A u \in Threads \ {t} : pc'[u] = pc[u]
      /\ cell'[c] = q /\ \A d \in Cells \ {c} : cell'[d] = cell[d]
      /\ own'[k][t] = cell[c] /\ \A j \in Kinds \ {k} : own'[j][t] = own[j][t]
      /\ \A j \in Kinds : \A u \in Threads \ {t} : own'[j][u] = own[j][u]
  BY <1>1 DEF Goto
<1>4. Same(t)
  BY <1>1, <1>3 DEF Same
<1>5. TypeInv /\ \A o \in Objs : ObjOK(o) /\ Shielded(o)
  BY ShieldedLemma DEF CountInv
<1>6. /\ \A j, o, V : Loose(j, o, V)' = Loose(j, o, V)
      /\ \A o \in Objs : Waited(o)
  BY <1>1, <1>5, RetiredSame
<1>7. /\ \A j \in Kinds, o \in Objs : In(pc'[t], "inc", j, o) <=> j = k /\ o = q
      /\ \A l, j, o : l \in {"swap", "settle"} => ~In(pc'[t], l, j, o)
      /\ \A l, j, o : l \in {"swap", "settle", "inc"} => ~In(pc[t], l, j, o)
      /\ \A o : ~Release(pc'[t], o) /\ ~Release(pc[t], o)
      /\ Calm(pc[t]) /\ Calm(pc'[t])
  BY <1>1, <1>3 DEF In, Release, Idle, Calm
<1>8. ASSUME NEW j \in Kinds, NEW o \in Objs
      PROVE  Owners(j, o)' = Owners(j, o) + One(j = k /\ o = q) /\ Owners(j, o) \in Nat
  <2>1. /\ Owners(j, o)' = Owners(j, o)
              + One(c \in Cells /\ Kind(c) = j /\ cell'[c] = o) - One(c \in Cells /\ Kind(c) = j /\ cell[c] = o)
              + One(own'[j][t] = o) - One(own[j][t] = o)
              + Loose(j, o, {})' - Loose(j, o, {})
              + One(In(pc'[t], "swap", j, o)) - One(In(pc[t], "swap", j, o))
         /\ Owners(j, o) \in Nat /\ Loose(j, o, {}) \in Nat
    BY <1>3, <1>4, <1>5, OwnersStep
  <2>2. One(In(pc'[t], "swap", j, o)) = 0 /\ One(In(pc[t], "swap", j, o)) = 0
    BY <1>7 DEF One
  <2>3. Loose(j, o, {})' = Loose(j, o, {})
    BY <1>6
  <2>4. One(c \in Cells /\ Kind(c) = j /\ cell'[c] = o) = One(j = k /\ o = q)
    BY <1>3 DEF One, k
  <2>5. One(c \in Cells /\ Kind(c) = j /\ cell[c] = o) + One(own[j][t] = o) = One(own'[j][t] = o)
    <3>1. CASE j = k
      BY <1>1, <1>3, <3>1, NullAssumption DEF One, k
    <3>2. CASE j # k
      BY <1>3, <3>2 DEF One, k
    <3> QED  BY <3>1, <3>2
  <2>6. /\ One(c \in Cells /\ Kind(c) = j /\ cell[c] = o) \in Nat /\ One(own[j][t] = o) \in Nat
        /\ One(j = k /\ o = q) \in Nat /\ One(own'[j][t] = o) \in Nat
    BY DEF One
  <2> HIDE DEF Owners, Loose
  <2> QED  BY <2>1, <2>2, <2>3, <2>4, <2>5, <2>6
<1>9. ASSUME NEW o \in Objs PROVE Disposers(o)' = Disposers(o)
  <2>1. Loose("dispose", o, {})' = Loose("dispose", o, {})
    BY <1>6
  <2>2. One(Release(pc'[t], o)) = One(Release(pc[t], o)) /\ One(Release(pc[t], o)) \in Nat
    BY <1>7 DEF One
  <2> QED  BY <1>4, <1>5, <2>1, <2>2, DisposersStep
<1>10. /\ \A j, o : Protectors(j, o)' = Protectors(j, o)
       /\ \A j \in Kinds, o \in Objs : Settlers(j, o) \subseteq Settlers(j, o)'
       /\ \A j \in Kinds, o \in Objs : j # k \/ o # q => Incs(j, o)' = Incs(j, o)
  <2>1. \A j, o : Protectors(j, o)' = Protectors(j, o)
    BY <1>1, <1>4, <1>7, ProtectorsSame
  <2>2. \A j \in Kinds, o \in Objs : Settlers(j, o) \subseteq Settlers(j, o)'
    BY <1>4, <1>5, <1>7, PlacesKept
  <2>3. \A j \in Kinds, o \in Objs : j # k \/ o # q => Incs(j, o)' = Incs(j, o)
    BY <1>4, <1>5, <1>7, PlacesKept
  <2> QED  BY <2>1, <2>2, <2>3
<1>11. Guard(t, s) \notin Incs(k, q) /\ Incs(k, q)' = Incs(k, q) \cup {Guard(t, s)}
  <2>1. ~In(pc[t], "inc", k, q) /\ In(pc'[t], "inc", k, q) /\ pc'[t].s = s
    BY <1>1, <1>2, <1>3, <1>7
  <2> QED  BY <1>4, <1>5, <2>1, IncsStep
<1>12. ASSUME NEW o \in Objs PROVE ObjOK(o)'
  <2>1. SameObj(o) /\ SameUse(o)
    BY <1>1, <1>9, <1>10 DEF SameObj, SameUse
  <2>2. ASSUME NEW j \in Kinds, j # k \/ o # q PROVE SameCount(j, o)
    <3>1. One(j = k /\ o = q) = 0
      BY <2>2 DEF One
    <3>2. Owners(j, o)' = Owners(j, o)
      BY <1>8, <3>1
    <3> QED  BY <1>1, <1>10, <2>2, <3>2 DEF SameCount
  <2>3. CASE o # q
    BY <1>5, <1>6, <2>1, <2>2, <2>3, ObjStill, UseSame
  <2>4. CASE o = q
    <3>1. Owners(k, o)' = Owners(k, o) + 1
      <4>1. One(k = k /\ o = q) = 1
        BY <2>4 DEF One
      <4> QED  BY <1>1, <1>8, <4>1
    <3>2. flag'[k][o] = flag[k][o] /\ cnt'[k][o] = cnt[k][o] /\ \A j \in Kinds \ {k} : SameCount(j, o)
      BY <1>1, <2>2
    <3> QED  BY <1>1, <1>2, <1>5, <1>6, <1>10, <1>11, <2>1, <2>4, <3>1, <3>2, ObjCas
  <2> QED  BY <2>3, <2>4
<1>13. \A u \in Threads : Retains(u) /\ Stays(u)
  BY <1>1, HarmlessSame DEF Stays
<1>14. ASSUME NEW u \in Threads PROVE ThreadOK(u)'
  <2>1. CASE u # t
    BY <1>4, <1>5, <1>13, <2>1, ThreadOther DEF CountInv, Same
  <2>2. CASE u = t
    <3>1. pc[t].at \notin Loading \ {"cas"} /\ pc'[t].at \notin Loading /\ pc'[t].at # "swap"
      BY <1>1, <1>3 DEF Loading, Idle
    <3>2. Named(pc'[t]) = q
      BY <1>3 DEF Named
    <3>3. life'[q] # "none"
      BY <1>1, <1>2 DEF Counting, Alive
    <3>4. IncOK(t)'
      <4>1. Shielders(q)' = Shielders(q) /\ Protectors("strong", q)' = Protectors("strong", q)
        BY <1>10 DEF Shielders
      <4>2. Guard(t, pc[t].s)' = Guard(t, s)
        BY <1>3 DEF Guard, Scheme
      <4>3. /\ pc'[t].o = q /\ pc'[t].k = k
            /\ Guard(t, s) \in Shielders(q)'
            /\ k = "strong" => Guard(t, s) \in Protectors("strong", q)'
        BY <1>2, <1>3, <4>1
      <4> QED  BY <4>2, <4>3 DEF IncOK
    <3> QED  BY <1>1, <1>5, <1>13, <2>2, <3>1, <3>2, <3>3, <3>4, ThreadCalm DEF CountInv
  <2> QED  BY <2>1, <2>2
<1> QED  BY <1>12, <1>14 DEF CountInv

\* It counts it.
LEMMA CasIncStep ==
  ASSUME CountInv, TypeInv', client' = client, Cells' = Cells, NEW t \in Threads, CasInc(t)
  PROVE  CountInv'
<1>0. PICK k, q : k = pc[t].k /\ q = pc[t].o
  OBVIOUS
<1>1. /\ k \in Kinds /\ q \in Objs /\ pc[t].at = "inc" /\ pc'[t] = Idle
      /\ \A u \in Threads \ {t} : pc'[u] = pc[u]
      /\ UNCHANGED <<life, flag, cell, own, snap, cs, retired>> /\ Inc(k, q)
  <2>1. pc[t] \in Controls /\ pc \in [Threads -> Controls]
    BY DEF CountInv, TypeInv
  <2> QED  BY <1>0, <2>1, ControlShape DEF CasInc, Goto
<1>2. Same(t)
  BY <1>1 DEF Same
<1>3. TypeInv /\ \A o \in Objs : ObjOK(o) /\ Shielded(o)
  BY ShieldedLemma DEF CountInv
<1>4. PICK g : g = Guard(t, pc[t].s) /\ g \in Incs(k, q)
  BY <1>0, <1>1, <1>3, IncsAre DEF In
<1>5. /\ cnt'[k][q] = cnt[k][q] + 1
      /\ \A j \in Kinds, o \in Objs : j # k \/ o # q => cnt'[j][o] = cnt[j][o]
  <2>1. Counting(k, q)
    BY <1>1, <1>3, <1>4, CountFacts
  <2>2. CanInc(k, q) /\ q # Null
    BY <1>1, <2>1, NullAssumption DEF Counting, CanInc
  <2>3. cnt' = [cnt EXCEPT ![k][q] = @ + 1]
    BY <1>1, <2>2 DEF Inc
  <2> QED  BY <1>1, <1>3, <2>3 DEF TypeInv
<1>6. /\ \A j, o, V : Loose(j, o, V)' = Loose(j, o, V)
      /\ \A o \in Objs : Waited(o)
  BY <1>1, <1>3, RetiredSame
<1>7. /\ \A j \in Kinds, o \in Objs : In(pc[t], "inc", j, o) <=> j = k /\ o = q
      /\ \A l, j, o : ~In(pc'[t], l, j, o) \/ l \notin {"swap", "settle", "inc"}
      /\ \A l, j, o : l \in {"swap", "settle"} => ~In(pc[t], l, j, o)
      /\ \A o : ~Release(pc'[t], o) /\ ~Release(pc[t], o)
      /\ Calm(pc[t]) /\ Calm(pc'[t])
  BY <1>0, <1>1 DEF In, Release, Idle, Calm
<1>8. ASSUME NEW j \in Kinds, NEW o \in Objs
      PROVE  Owners(j, o)' = Owners(j, o)
  <2>1. /\ Owners(j, o)' = Owners(j, o)
              + One(Null \in Cells /\ Kind(Null) = j /\ cell'[Null] = o) - One(Null \in Cells /\ Kind(Null) = j /\ cell[Null] = o)
              + One(own'[j][t] = o) - One(own[j][t] = o)
              + Loose(j, o, {})' - Loose(j, o, {})
              + One(In(pc'[t], "swap", j, o)) - One(In(pc[t], "swap", j, o))
         /\ Owners(j, o) \in Nat /\ Loose(j, o, {}) \in Nat
    <3>1. Null \in Cells \cup {Null} /\ \A d \in Cells \ {Null} : cell'[d] = cell[d]
      BY <1>1
    <3> QED  BY <1>2, <1>3, <3>1, OwnersStep
  <2>2. One(In(pc'[t], "swap", j, o)) = 0 /\ One(In(pc[t], "swap", j, o)) = 0
    BY <1>7 DEF One
  <2>3. Loose(j, o, {})' = Loose(j, o, {})
    BY <1>6
  <2>4. /\ One(own'[j][t] = o) = One(own[j][t] = o) /\ One(own[j][t] = o) \in Nat
        /\ One(Null \in Cells /\ Kind(Null) = j /\ cell'[Null] = o)
             = One(Null \in Cells /\ Kind(Null) = j /\ cell[Null] = o)
        /\ One(Null \in Cells /\ Kind(Null) = j /\ cell[Null] = o) \in Nat
    BY <1>1 DEF One
  <2> HIDE DEF Owners, Loose
  <2> QED  BY <2>1, <2>2, <2>3, <2>4
<1>9. ASSUME NEW o \in Objs PROVE Disposers(o)' = Disposers(o)
  <2>1. Loose("dispose", o, {})' = Loose("dispose", o, {})
    BY <1>6
  <2>2. One(Release(pc'[t], o)) = One(Release(pc[t], o)) /\ One(Release(pc[t], o)) \in Nat
    BY <1>7 DEF One
  <2> QED  BY <1>2, <1>3, <2>1, <2>2, DisposersStep
<1>10. /\ \A j, o : Protectors(j, o)' = Protectors(j, o)
       /\ \A j \in Kinds, o \in Objs : Settlers(j, o) \subseteq Settlers(j, o)'
       /\ \A j \in Kinds, o \in Objs : j # k \/ o # q => Incs(j, o)' = Incs(j, o)
  <2>1. \A j, o : Protectors(j, o)' = Protectors(j, o)
    BY <1>1, <1>2, <1>7, ProtectorsSame
  <2>2. \A j \in Kinds, o \in Objs : Settlers(j, o) \subseteq Settlers(j, o)'
    BY <1>2, <1>3, <1>7, PlacesKept
  <2>3. \A j \in Kinds, o \in Objs : j # k \/ o # q => Incs(j, o)' = Incs(j, o)
    BY <1>2, <1>3, <1>7, PlacesKept
  <2> QED  BY <2>1, <2>2, <2>3
<1>11. Incs(k, q)' = Incs(k, q) \ {g}
  <2>1. In(pc[t], "inc", k, q) /\ ~In(pc'[t], "inc", k, q)
    BY <1>1, <1>7
  <2> QED  BY <1>2, <1>3, <1>4, <2>1, IncsStep
<1>12. ASSUME NEW o \in Objs PROVE ObjOK(o)'
  <2>1. SameObj(o) /\ SameUse(o)
    BY <1>1, <1>9, <1>10 DEF SameObj, SameUse
  <2>2. ASSUME NEW j \in Kinds, j # k \/ o # q PROVE SameCount(j, o)
    BY <1>1, <1>5, <1>8, <1>10, <2>2 DEF SameCount
  <2>3. CASE o # q
    BY <1>3, <1>6, <2>1, <2>2, <2>3, ObjStill, UseSame
  <2>4. CASE o = q
    <3>1. flag'[k][o] = flag[k][o] /\ cnt'[k][o] = cnt[k][o] + 1 /\ \A j \in Kinds \ {k} : SameCount(j, o)
      BY <1>1, <1>5, <2>2, <2>4
    <3> QED  BY <1>1, <1>3, <1>4, <1>6, <1>8, <1>10, <1>11, <2>1, <2>4, <3>1, ObjInc
  <2> QED  BY <2>3, <2>4
<1>13. \A u \in Threads : Retains(u) /\ Stays(u)
  BY <1>1, HarmlessSame DEF Stays
<1>14. ASSUME NEW u \in Threads PROVE ThreadOK(u)'
  <2>1. CASE u # t
    BY <1>2, <1>3, <1>13, <2>1, ThreadOther DEF CountInv, Same
  <2>2. CASE u = t
    <3>1. pc[t].at \notin Loading \ {"cas"} /\ pc'[t].at \notin Loading /\ pc'[t].at # "swap"
      BY <1>1 DEF Loading, Idle
    <3>2. Named(pc'[t]) \notin Objs /\ IncOK(t)'
      BY <1>1, NullAssumption DEF Named, IncOK, Idle
    <3> QED  BY <1>1, <1>3, <1>13, <2>2, <3>1, <3>2, ThreadCalm DEF CountInv
  <2> QED  BY <2>1, <2>2
<1> QED  BY <1>12, <1>14 DEF CountInv

\* A new object has one strong owner, and the weak count that goes with its value.
LEMMA NewStep ==
  ASSUME CountInv, TypeInv', client' = client, Cells' = Cells, NEW t \in Threads, NEW q \in Objs,
         New(t, q)
  PROVE  CountInv'
<1>1. /\ pc[t] = Idle /\ life[q] = "none" /\ own["strong"][t] = Null
      /\ UNCHANGED <<flag, cell, snap, cs, retired, pc>>
      /\ life'[q] = "live" /\ \A o \in Objs \ {q} : life'[o] = life[o]
      /\ \A k \in Kinds : cnt'[k][q] = 1 /\ \A o \in Objs \ {q} : cnt'[k][o] = cnt[k][o]
      /\ own'["strong"][t] = q /\ own'["weak"][t] = own["weak"][t]
      /\ \A j \in Kinds : \A u \in Threads \ {t} : own'[j][u] = own[j][u]
  <2>1. TypeInv /\ "strong" \in Kinds /\ "weak" \in Kinds /\ "strong" # "weak"
    BY DEF CountInv, Kinds
  <2> QED  BY <2>1 DEF New, May, Free, SetLife, TypeInv
<1>2. Same(t)
  BY <1>1 DEF Same
<1>3. TypeInv /\ \A o \in Objs : ObjOK(o) /\ Shielded(o)
  BY ShieldedLemma DEF CountInv
<1>4. /\ \A j, o, V : Loose(j, o, V)' = Loose(j, o, V)
      /\ \A o \in Objs : Waited(o)
  BY <1>1, <1>3, RetiredSame
<1>5. ASSUME NEW j \in Kinds, NEW o \in Objs
      PROVE  Owners(j, o)' = Owners(j, o) + One(j = "strong" /\ o = q) /\ Owners(j, o) \in Nat
  <2>1. /\ Owners(j, o)' = Owners(j, o)
              + One(Null \in Cells /\ Kind(Null) = j /\ cell'[Null] = o) - One(Null \in Cells /\ Kind(Null) = j /\ cell[Null] = o)
              + One(own'[j][t] = o) - One(own[j][t] = o)
              + Loose(j, o, {})' - Loose(j, o, {})
              + One(In(pc'[t], "swap", j, o)) - One(In(pc[t], "swap", j, o))
         /\ Owners(j, o) \in Nat /\ Loose(j, o, {}) \in Nat
    <3>1. Null \in Cells \cup {Null} /\ \A d \in Cells \ {Null} : cell'[d] = cell[d]
      BY <1>1
    <3> QED  BY <1>2, <1>3, <3>1, OwnersStep
  <2>2. One(In(pc'[t], "swap", j, o)) = 0 /\ One(In(pc[t], "swap", j, o)) = 0
    BY <1>1 DEF One, In, Idle
  <2>3. Loose(j, o, {})' = Loose(j, o, {})
    BY <1>4
  <2>4. /\ One(own'[j][t] = o) = One(own[j][t] = o) + One(j = "strong" /\ o = q)
        /\ One(own[j][t] = o) \in Nat /\ One(j = "strong" /\ o = q) \in Nat
    BY <1>1, NullAssumption DEF One, Kinds
  <2>5. /\ One(Null \in Cells /\ Kind(Null) = j /\ cell'[Null] = o)
             = One(Null \in Cells /\ Kind(Null) = j /\ cell[Null] = o)
        /\ One(Null \in Cells /\ Kind(Null) = j /\ cell[Null] = o) \in Nat
    BY <1>1 DEF One
  <2> HIDE DEF Owners, Loose
  <2> QED  BY <2>1, <2>2, <2>3, <2>4, <2>5
<1>6. /\ \A l, j, o : At(l, j, o)' = At(l, j, o) /\ Incs(j, o)' = Incs(j, o)
      /\ \A j, o : Protectors(j, o)' = Protectors(j, o)
  <2>1. \A l, j, o : At(l, j, o)' = At(l, j, o)
    BY <1>1 DEF At, Kind
  <2>2. pc'[t] = pc[t] /\ Calm(pc[t])
    BY <1>1 DEF Calm, Idle
  <2> QED  BY <1>1, <1>2, <1>3, <2>1, <2>2, PlacesKept, ProtectorsSame
<1>7. ASSUME NEW o \in Objs PROVE Disposers(o)' = Disposers(o)
  <2>1. Loose("dispose", o, {})' = Loose("dispose", o, {})
    BY <1>4
  <2>2. One(Release(pc'[t], o)) = One(Release(pc[t], o)) /\ One(Release(pc[t], o)) \in Nat
    BY <1>1 DEF One
  <2> QED  BY <1>2, <1>3, <2>1, <2>2, DisposersStep
<1>8. ASSUME NEW o \in Objs PROVE ObjOK(o)'
  <2>1. SameUse(o) /\ \A j \in Kinds : Incs(j, o)' = Incs(j, o) /\ Settlers(j, o)' = Settlers(j, o)
    BY <1>6 DEF SameUse, Settlers
  <2>2. CASE o # q
    <3>1. \A j \in Kinds : Owners(j, o)' = Owners(j, o)
      <4>1. SUFFICES ASSUME NEW j \in Kinds PROVE Owners(j, o)' = Owners(j, o)
        OBVIOUS
      <4>2. One(j = "strong" /\ o = q) = 0
        BY <2>2 DEF One
      <4> QED  BY <1>5, <4>2
    <3>2. SameObj(o) /\ \A j \in Kinds : SameCount(j, o)
      BY <1>1, <1>7, <2>1, <2>2, <3>1 DEF SameObj, SameCount
    <3> QED  BY <1>3, <1>4, <2>1, <3>2, ObjStill, UseSame
  <2>3. CASE o = q
    <3>1. Owners("strong", o)' = Owners("strong", o) + 1 /\ Owners("weak", o)' = Owners("weak", o)
      <4>1. One("strong" = "strong" /\ o = q) = 1 /\ One("weak" = "strong" /\ o = q) = 0
        BY <2>3 DEF One
      <4>2. "strong" \in Kinds /\ "weak" \in Kinds
        BY DEF Kinds
      <4> QED  BY <1>5, <4>1, <4>2
    <3>2. \A k \in Kinds : cnt'[k][o] = 1 /\ flag'[k][o] = flag[k][o]
      BY <1>1, <2>3
    <3> QED  BY <1>1, <1>3, <1>4, <1>7, <2>1, <2>3, <3>1, <3>2, ObjNew
  <2> QED  BY <2>2, <2>3
<1>9. \A u \in Threads : Retains(u) /\ Stays(u)
  <2>1. Harmless
    BY <1>1 DEF Harmless
  <2>2. \A u \in Threads : Stays(u)
    BY <1>1 DEF Stays
  <2> QED  BY <2>1, <2>2, HarmlessRetains DEF CountInv
<1>10. ASSUME NEW u \in Threads PROVE ThreadOK(u)'
  <2>1. CASE u # t
    BY <1>2, <1>3, <1>9, <2>1, ThreadOther DEF CountInv, Same
  <2>2. CASE u = t
    <3>1. /\ pc[t].at \notin Loading \ {"cas"} /\ pc'[t].at \notin Loading /\ pc'[t].at # "swap"
          /\ pc'[t].at # "inc"
      BY <1>1 DEF Loading, Idle
    <3>2. Named(pc'[t]) \notin Objs /\ IncOK(t)'
      BY <1>1, NullAssumption DEF Named, IncOK, Idle
    <3> QED  BY <1>1, <1>3, <1>9, <2>2, <3>1, <3>2, ThreadCalm DEF CountInv
  <2> QED  BY <2>1, <2>2
<1> QED  BY <1>8, <1>10 DEF CountInv

-------------------------------------------------------------------------------
(* Steps that load. *)

\* A counter that counts: nobody is to drop the value.
LEMMA NotDisposed ==
  ASSUME TypeInv, NEW o \in Objs, LifeOK(o), flag["strong"][o] # "zero"
  PROVE  \A t : Undisposed(t, o)
<1>1. Disposers(o) = Cardinality(Releasers(o)) + Loose("dispose", o, {}) /\ Disposers(o) = 0
  BY OwnersIs DEF LifeOK, Kinds
<1>2. Cardinality(Releasers(o)) \in Nat /\ Loose("dispose", o, {}) \in Nat /\ GoodBag(retired)
  BY Finite DEF TypeInv
<1>3. Loose("dispose", o, {}) = 0
  <2> HIDE DEF Loose, Releasers
  <2> QED  BY <1>1, <1>2
<1>4. \A e \in DOMAIN retired : ~Matches(e, "dispose", o, {})
  BY <1>2, <1>3, LooseNone DEF Loose
<1> QED  BY <1>4 DEF Undisposed, Matches, BagToSet

\* Nothing changes but a snapshot and what is protected.
LEMMA LookObjs ==
  ASSUME CountInv, TypeInv', client' = client, Cells' = Cells, NEW t \in Threads, Same(t),
         UNCHANGED <<heap, cell, own, retired>>,
         pc[t].at \in {"idle"} \cup Loading, pc'[t].at \in {"idle"} \cup Loading,
         \A o \in Objs : Backed(o)
  PROVE  \A o \in Objs : ObjOK(o)'
<1>1. TypeInv /\ Placed(t)
  BY PlacedCalm DEF CountInv
<1>2. /\ \A k, o, V : Loose(k, o, V)' = Loose(k, o, V)
      /\ \A o \in Objs : Waited(o)
  BY <1>1, RetiredSame
<1> QED  BY <1>1, <1>2, OwnersKept, StillStep DEF Placed

\* What protects something new is the snapshot s of t.
LEMMA NewProtector ==
  ASSUME TypeInv, NEW t \in Threads, NEW s \in Snaps, Same(t), pc[t].at # "inc",
         \A r \in Snaps \ {s} : snap'[t][r] = snap[t][r] /\ Settled(t, r),
         NEW k \in Kinds, NEW o \in Objs, NEW g \in Protectors(k, o)', g \notin Protectors(k, o)
  PROVE  snap'[t][s].o = o /\ snap'[t][s].k = k /\ g \notin Incs(k, o)
<1>1. PICK u \in Threads, r \in Snaps : g = Guard(u, r) /\ Protects(u, r, k, o)'
  BY ProtectorsStep
<1>2. ~Protects(u, r, k, o)
  BY <1>1, ProtectorsAre
<1>3. u = t
  BY <1>1, <1>2, ProtectorsStep
<1>4. r = s
  BY <1>1, <1>2, <1>3 DEF Protects
<1>5. g \notin Incs(k, o)
  <2>1. ~In(pc[t], "inc", k, o)
    BY DEF In
  <2> QED  BY <1>1, <1>3, <2>1, IncsAre, GuardFacts
<1> QED  BY <1>1, <1>3, <1>4, <1>5 DEF Protects

\* t looks at the object of its snapshot s.
LEMMA LookStep ==
  ASSUME CountInv, TypeInv', client' = client, NEW t \in Threads, NEW s \in Snaps, Same(t),
         UNCHANGED <<life, own, cs, retired>>,
         pc[t] = Idle \/ (pc[t].at \in Loading /\ pc[t].s = s),
         pc'[t] = Idle \/ (pc'[t].at \in Loading /\ pc'[t].s = s),
         \A r \in Snaps \ {s} : snap'[t][r] = snap[t][r],
         \A o \in Objs : snap'[t][s].o = o \/ Named(pc'[t]) = o => life[o] # "none",
         \A c : pc'[t].at \in Loading /\ pc'[t].c = c =>
           /\ Names(t, s, c) /\ Guarded(t)
           /\ pc'[t].at \in {"publish", "validate"} => Scheme = "HP"
           /\ pc'[t].at = "validate" => snap'[t][s].k = Kind(c)
           /\ pc'[t].at = "cas" \/ pc'[t].want # {} => Kind(c) = "strong",
         SnapOK(t, s)', \A o \in Objs : ObjOK(o)'
  PROVE  CountInv'
<1>1. \A u \in Threads : Retains(u) /\ Stays(u)
  BY HarmlessSame DEF Stays
<1>2. ASSUME NEW u \in Threads PROVE ThreadOK(u)'
  <2>1. CASE u # t
    BY <1>1, <2>1, ThreadOther DEF CountInv, Same
  <2>2. CASE u = t
    <3>1. KnownOK(t)'
      <4>1. ASSUME NEW r \in Snaps, snap'[t][r].o \in Objs PROVE life'[snap'[t][r].o] # "none"
        BY <4>1 DEF CountInv, ThreadOK, KnownOK
      <4> QED  BY <4>1 DEF KnownOK
    <3>2. ASSUME NEW r \in Snaps PROVE SnapOK(t, r)'
      <4>1. CASE r # s
        <5>1. Usable(t, r)
          BY <4>1 DEF Usable, Idle
        <5>2. snap'[t][r] = snap[t][r] /\ Scheme' = Scheme
          BY <4>1 DEF Scheme
        <5> QED  BY <1>1, <5>1, <5>2 DEF CountInv, ThreadOK, SnapOK, Retains
      <4> QED  BY <4>1
    <3>3. IncOK(t)'
      BY DEF IncOK, Loading, Idle
    <3>4. FieldOK(t)'
      <4>1. Scheme' = Scheme /\ Nodes' = Nodes /\ (Guarded(t)' <=> Guarded(t))
        BY DEF Scheme, Nodes, Guarded
      <4>2. \A c : Names(t, s, c) => Names(t, s, c)'
        BY <4>1 DEF Names
      <4>3. pc'[t].at \in Loading =>
              /\ pc'[t].s = s /\ Names(t, s, pc'[t].c) /\ Guarded(t)
              /\ pc'[t].at \in {"publish", "validate"} => Scheme = "HP"
              /\ pc'[t].at = "validate" => snap'[t][s].k = Kind(pc'[t].c)
              /\ pc'[t].at = "cas" \/ pc'[t].want # {} => Kind(pc'[t].c) = "strong"
        BY DEF Idle, Loading
      <4>4. \A c : pc'[t].at \in Loading /\ pc'[t].c = c => Names(t, s, c)'
        BY <4>2
      <4>5. \A c : pc'[t].at \in Loading /\ pc'[t].c = c => Names(t, pc[t].s, pc[t].c)'
        BY <4>3, <4>4 DEF Names
      <4>6. pc'[t].at # "swap"
        BY DEF Idle, Loading
      <4> QED  BY <4>1, <4>3, <4>5, <4>6 DEF FieldOK, Loading, Kind
    <3> QED  BY <2>2, <3>1, <3>2, <3>3, <3>4 DEF ThreadOK
  <2> QED  BY <2>1, <2>2
<1> QED  BY <1>2 DEF CountInv

\* The link c is read, into the snapshot s or into a hazard.
LEMMA ReadStep ==
  ASSUME CountInv, TypeInv', client' = client, Cells' = Cells, NEW t \in Threads, NEW s \in Snaps,
         NEW c \in Cells, NEW want, ReadLink(t, s, c, want), UNCHANGED <<heap, cell, own, cs, retired>>,
         pc[t] = Idle \/ (pc[t].at \in Loading /\ pc[t].s = s),
         pc[t].at \notin {"publish", "validate"} \/ Scheme = "HP",
         Names(t, s, c), Guarded(t), Scheme = "EBR" => Kind(c) = "strong",
         want # {} => Kind(c) = "strong"
  PROVE  CountInv'
<1>1. /\ TypeInv /\ pc \in [Threads -> Controls] /\ Kind(c) \in Kinds /\ cell[c] \in Ptr
      /\ snap \in [Threads -> [Snaps -> [o : Ptr, k : Kinds]]] /\ Scheme \in {"EBR", "HP"}
      /\ Scheme' = Scheme
  BY ClientAssumption DEF CountInv, TypeInv, Kind, Kinds, Scheme
<1>2. ASSUME NEW o \in Objs, cell[c] = o PROVE life[o] # "none"
  BY <1>1, <1>2, OwnerCounting DEF Counting, Alive
<1>3. CASE Scheme = "HP"
  <2>1. /\ pc'[t] = [at |-> "publish", s |-> s, c |-> c, want |-> want, o |-> cell[c]]
        /\ snap' = snap /\ \A u \in Threads \ {t} : pc'[u] = pc[u]
    BY <1>1, <1>3 DEF ReadLink, Goto
  <2>2. Same(t)
    BY <2>1 DEF Same
  <2>3. /\ pc'[t].at = "publish" /\ pc'[t].s = s /\ pc'[t].c = c /\ pc'[t].want = want
        /\ Named(pc'[t]) = cell[c]
    BY <2>1 DEF Named
  <2>4. \A o \in Objs : Backed(o)
    <3>1. \A r \in Snaps : (snap'[t][r] = snap[t][r] /\ Settled(t, r)) \/ ~Settled(t, r)'
      BY <2>1, <2>3 DEF Settled, Idle
    <3> QED  BY <2>2, <3>1, ProtectorsFewer, BackedFewer
  <2>5. \A o \in Objs : ObjOK(o)'
    BY <2>2, <2>3, <2>4, LookObjs DEF Loading, Idle
  <2>6. SnapOK(t, s)'
    BY <1>1, <1>3, <2>3 DEF SnapOK, Usable
  <2>7. \A o \in Objs : snap'[t][s].o = o \/ Named(pc'[t]) = o => life[o] # "none"
    BY <1>2, <2>1, <2>3 DEF CountInv, ThreadOK, KnownOK
  <2>8. UNCHANGED <<life, own, cs, retired>> /\ \A r \in Snaps \ {s} : snap'[t][r] = snap[t][r]
    BY <2>1 DEF heap
  <2> QED  BY <1>3, <2>2, <2>3, <2>5, <2>6, <2>7, <2>8, LookStep DEF Loading
<1>4. CASE Scheme = "EBR"
  <2>1. /\ pc'[t] = [at |-> "check", s |-> s, c |-> c, want |-> want]
        /\ \A u \in Threads \ {t} : pc'[u] = pc[u] /\ snap'[u] = snap[u]
        /\ snap'[t][s] = [o |-> cell[c], k |-> Kind(c)]
        /\ \A r \in Snaps \ {s} : snap'[t][r] = snap[t][r]
    BY <1>1, <1>4 DEF ReadLink, Goto, SetSnap
  <2>2. Same(t)
    BY <2>1 DEF Same
  <2>3. /\ pc'[t].at = "check" /\ pc'[t].s = s /\ pc'[t].c = c /\ pc'[t].want = want
        /\ Named(pc'[t]) = Null /\ snap'[t][s].o = cell[c] /\ snap'[t][s].k = Kind(c)
    BY <2>1 DEF Named
  <2>4. ASSUME NEW o \in Objs PROVE Backed(o)
    <3>1. SUFFICES ASSUME NEW k \in Kinds, NEW u \in Protectors(k, o)', u \notin Protectors(k, o)
                   PROVE  Owners(k, o) > Loose(k, o, {}) /\ u \notin Incs(k, o)
      BY DEF Backed
    <3>2. pc[t].at # "inc" /\ \A r \in Snaps \ {s} : snap'[t][r] = snap[t][r] /\ Settled(t, r)
      BY <1>4, <2>1 DEF Settled, Idle, Loading
    <3>3. snap'[t][s].o = o /\ snap'[t][s].k = k /\ u \notin Incs(k, o)
      BY <1>1, <2>2, <3>1, <3>2, NewProtector
    <3>4. Owners(k, o) > Loose(k, o, {})
      BY <1>1, <2>3, <3>3, OwnerCounts
    <3> QED  BY <3>3, <3>4
  <2>5. \A o \in Objs : ObjOK(o)'
    BY <2>2, <2>3, <2>4, LookObjs DEF Loading, Idle
  <2>6. SnapOK(t, s)'
    BY <1>4, <2>3 DEF SnapOK, Usable, Guarded
  <2>7. \A o \in Objs : snap'[t][s].o = o \/ Named(pc'[t]) = o => life[o] # "none"
    BY <1>2, <2>3, NullAssumption
  <2>8. UNCHANGED <<life, own, cs, retired>> /\ \A r \in Snaps \ {s} : snap'[t][r] = snap[t][r]
    BY <2>1 DEF heap
  <2> QED  BY <1>4, <2>2, <2>3, <2>5, <2>6, <2>7, <2>8, LookStep DEF Loading
<1> QED  BY <1>1, <1>3, <1>4

LEMMA LoadStep ==
  ASSUME CountInv, SafeClients, TypeInv', client' = client, Cells' = Cells,
         NEW t \in Threads, NEW s \in Snaps, NEW c \in Cells, Load(t, s, c)
  PROVE  CountInv'
<1>1. /\ pc[t] = Idle /\ Guarded(t) /\ Names(t, s, c) /\ ReadLink(t, s, c, {})
      /\ UNCHANGED <<heap, cell, own, cs, retired>>
  BY DEF Load, May, Free
<1>2. Scheme = "EBR" => Kind(c) = "strong"
  <2>1. Kind(c) \in Kinds /\ client \in Clients
    BY DEF CountInv, TypeInv, Kind, Kinds
  <2>2. Kind(c) = "weak" => "load_from_weak" \in Calls
    BY DEF Load
  <2> QED  BY <2>1, <2>2 DEF Kinds, SafeClients, Scheme, Calls
<1>3. pc[t].at \notin {"publish", "validate"}
  BY <1>1 DEF Idle
<1> QED  BY <1>1, <1>2, <1>3, ReadStep

LEMMA PublishStep ==
  ASSUME CountInv, TypeInv', client' = client, Cells' = Cells, NEW t \in Threads, Publish(t)
  PROVE  CountInv'
<1>0. PICK s, c, q, w : s = pc[t].s /\ c = pc[t].c /\ q = pc[t].o /\ w = pc[t].want
  OBVIOUS
<1>1. /\ TypeInv /\ pc \in [Threads -> Controls] /\ snap \in [Threads -> [Snaps -> [o : Ptr, k : Kinds]]]
      /\ pc[t].at = "publish" /\ s \in Snaps /\ c \in Cells /\ q \in Ptr
  BY <1>0, ControlShape DEF CountInv, TypeInv, Publish
<1>2. /\ pc'[t] = [at |-> "validate", s |-> s, c |-> c, want |-> w]
      /\ \A u \in Threads \ {t} : pc'[u] = pc[u] /\ snap'[u] = snap[u]
      /\ snap'[t][s] = [o |-> q, k |-> Kind(c)] /\ \A r \in Snaps \ {s} : snap'[t][r] = snap[t][r]
      /\ UNCHANGED <<heap, cell, own, cs, retired>>
  BY <1>0, <1>1 DEF Publish, Goto, SetSnap
<1>3. Same(t)
  BY <1>2 DEF Same
<1>4. /\ pc'[t].at = "validate" /\ pc'[t].s = s /\ pc'[t].c = c /\ pc'[t].want = w
      /\ Named(pc'[t]) = Null /\ snap'[t][s].o = q /\ snap'[t][s].k = Kind(c)
  BY <1>2 DEF Named
<1>5. \A o \in Objs : Backed(o)
  <2>1. \A r \in Snaps : (snap'[t][r] = snap[t][r] /\ Settled(t, r)) \/ ~Settled(t, r)'
    BY <1>0, <1>2, <1>4 DEF Settled
  <2> QED  BY <1>3, <2>1, ProtectorsFewer, BackedFewer
<1>6. \A o \in Objs : ObjOK(o)'
  BY <1>1, <1>2, <1>3, <1>4, <1>5, LookObjs DEF Loading
<1>7. FieldOK(t) /\ Scheme = "HP" /\ Scheme' = Scheme
  BY <1>1 DEF CountInv, ThreadOK, FieldOK, Scheme
<1>8. SnapOK(t, s)'
  BY <1>4, <1>7 DEF SnapOK, Usable
<1>9. \A o \in Objs : snap'[t][s].o = o \/ Named(pc'[t]) = o => life[o] # "none"
  <2>1. Named(pc[t]) = q
    BY <1>0, <1>1 DEF Named
  <2> QED  BY <1>4, <2>1, NullAssumption DEF CountInv, ThreadOK, KnownOK
<1>10. Names(t, s, c) /\ Guarded(t) /\ (w # {} => Kind(c) = "strong")
  BY <1>0, <1>1, <1>7 DEF FieldOK, Loading
<1>11. UNCHANGED <<life, own, cs, retired>>
  BY <1>2 DEF heap
<1>12. \A d : pc'[t].at \in Loading /\ pc'[t].c = d =>
         /\ Names(t, s, d) /\ Guarded(t)
         /\ pc'[t].at \in {"publish", "validate"} => Scheme = "HP"
         /\ pc'[t].at = "validate" => snap'[t][s].k = Kind(d)
         /\ pc'[t].at = "cas" \/ pc'[t].want # {} => Kind(d) = "strong"
  BY <1>4, <1>7, <1>10
<1>13. /\ pc[t].at \in Loading /\ pc[t].s = s /\ pc'[t].at \in Loading /\ pc'[t].s = s
       /\ \A r \in Snaps \ {s} : snap'[t][r] = snap[t][r]
       /\ s \in Snaps /\ TypeInv
  BY <1>0, <1>1, <1>2, <1>4 DEF Loading
<1> QED  BY <1>3, <1>6, <1>8, <1>9, <1>11, <1>12, <1>13, LookStep

LEMMA ValidateStep ==
  ASSUME CountInv, TypeInv', client' = client, Cells' = Cells, NEW t \in Threads, Validate(t)
  PROVE  CountInv'
<1>0. PICK s, c, w : s = pc[t].s /\ c = pc[t].c /\ w = pc[t].want
  OBVIOUS
<1>1. /\ TypeInv /\ pc \in [Threads -> Controls]
      /\ pc[t].at = "validate" /\ s \in Snaps /\ c \in Cells
      /\ UNCHANGED <<heap, cell, own, cs, retired>>
  BY <1>0, ControlShape DEF CountInv, TypeInv, Validate
<1>2. /\ Names(t, s, c) /\ Guarded(t) /\ (w # {} => Kind(c) = "strong") /\ Scheme = "HP"
      /\ snap[t][s].k = Kind(c)
  BY <1>0, <1>1 DEF CountInv, ThreadOK, FieldOK, Loading
<1>3. CASE ReadLink(t, s, c, w)
  BY <1>0, <1>1, <1>2, <1>3, ReadStep DEF Loading
<1>4. CASE cell[c] = snap[t][s].o /\ Goto(t, [pc[t] EXCEPT !.at = "check"]) /\ UNCHANGED snap
  <2>1. pc[t] \in [at : {"validate", "check", "cas"}, s : Snaps, c : Cells, want : SUBSET Ptr]
    BY <1>1 DEF Controls, Idle
  <2>2. [pc[t] EXCEPT !.at = "check"] = [at |-> "check", s |-> s, c |-> c, want |-> w]
    BY <1>0, <2>1
  <2>3. pc'[t] = [at |-> "check", s |-> s, c |-> c, want |-> w] /\ \A u \in Threads \ {t} : pc'[u] = pc[u]
    BY <1>1, <1>4, <2>2 DEF Goto
  <2>4. Same(t)
    BY <1>1, <1>4, <2>3 DEF Same
  <2>5. /\ pc'[t].at = "check" /\ pc'[t].s = s /\ pc'[t].c = c /\ pc'[t].want = w
        /\ Named(pc'[t]) = Null
    BY <2>3 DEF Named
  <2>6. ASSUME NEW o \in Objs PROVE Backed(o)
    <3>1. SUFFICES ASSUME NEW k \in Kinds, NEW u \in Protectors(k, o)', u \notin Protectors(k, o)
                   PROVE  Owners(k, o) > Loose(k, o, {}) /\ u \notin Incs(k, o)
      BY DEF Backed
    <3>2. pc[t].at # "inc" /\ \A r \in Snaps \ {s} : snap'[t][r] = snap[t][r] /\ Settled(t, r)
      BY <1>0, <1>1, <1>4 DEF Settled
    <3>3. snap[t][s].o = o /\ snap[t][s].k = k /\ u \notin Incs(k, o)
      BY <1>1, <1>4, <2>4, <3>1, <3>2, NewProtector
    <3>4. Owners(k, o) > Loose(k, o, {})
      BY <1>1, <1>2, <1>4, <3>3, OwnerCounts
    <3> QED  BY <3>3, <3>4
  <2>7. \A o \in Objs : ObjOK(o)'
    BY <1>1, <2>4, <2>5, <2>6, LookObjs DEF Loading
  <2>8. SnapOK(t, s)'
    BY <1>2, <2>5 DEF SnapOK, Usable, Scheme
  <2>9. \A o \in Objs : snap'[t][s].o = o \/ Named(pc'[t]) = o => life[o] # "none"
    BY <1>1, <1>4, <2>5, NullAssumption DEF CountInv, ThreadOK, KnownOK
  <2>10. UNCHANGED <<life, own, cs, retired>> /\ \A r \in Snaps \ {s} : snap'[t][r] = snap[t][r]
    BY <1>1, <1>4 DEF heap
  <2> QED  BY <1>0, <1>1, <1>2, <2>4, <2>5, <2>7, <2>8, <2>9, <2>10, LookStep DEF Loading
<1> QED  BY <1>0, <1>3, <1>4 DEF Validate

LEMMA ProtectStep ==
  ASSUME CountInv, SafeClients, TypeInv', client' = client, Cells' = Cells,
         NEW t \in Threads, NEW s \in Snaps, NEW k \in Kinds, Protect(t, s, k)
  PROVE  CountInv'
<1>0. PICK q : q = own[k][t]
  OBVIOUS
<1>1. /\ TypeInv /\ pc \in [Threads -> Controls] /\ snap \in [Threads -> [Snaps -> [o : Ptr, k : Kinds]]]
      /\ q \in Objs /\ pc[t] = Idle /\ Guarded(t) /\ UNCHANGED <<heap, cell, own, cs, retired>>
      /\ k = "weak" => "load_from_weak" \in Calls
      /\ client \in Clients
  BY <1>0 DEF CountInv, TypeInv, Protect, May, Free, Ptr
<1>2. Scheme = "EBR" => k = "strong" /\ t \in cs
  BY <1>1 DEF Kinds, SafeClients, Scheme, Calls, Guarded
<1>3. /\ \A u \in Threads \ {t} : pc'[u] = pc[u] /\ snap'[u] = snap[u]
      /\ snap'[t][s] = [o |-> q, k |-> k] /\ \A r \in Snaps \ {s} : snap'[t][r] = snap[t][r]
      /\ k = "weak" => pc'[t] = [at |-> "check", s |-> s, c |-> Null, want |-> {}]
      /\ k # "weak" => pc'[t] = Idle
  BY <1>0, <1>1 DEF Protect, Goto, SetSnap
<1>4. Same(t)
  BY <1>1, <1>3 DEF Same
<1>5. /\ k = "weak" => pc'[t].at = "check" /\ pc'[t].s = s /\ pc'[t].c = Null /\ pc'[t].want = {}
      /\ Named(pc'[t]) = Null /\ snap'[t][s].o = q /\ snap'[t][s].k = k
      /\ pc'[t].at \in {"idle", "check"}
  BY <1>3 DEF Named, Idle
<1>6. ASSUME NEW o \in Objs PROVE Backed(o)
  <2>1. SUFFICES ASSUME NEW j \in Kinds, NEW u \in Protectors(j, o)', u \notin Protectors(j, o)
                 PROVE  Owners(j, o) > Loose(j, o, {}) /\ u \notin Incs(j, o)
    BY DEF Backed
  <2>2. pc[t].at # "inc" /\ \A r \in Snaps \ {s} : snap'[t][r] = snap[t][r] /\ Settled(t, r)
    BY <1>1, <1>3 DEF Settled, Idle
  <2>3. snap'[t][s].o = o /\ snap'[t][s].k = j /\ u \notin Incs(j, o)
    BY <1>1, <1>4, <2>1, <2>2, NewProtector
  <2>4. Owners(j, o) > Loose(j, o, {})
    BY <1>0, <1>1, <1>5, <2>3, OwnerCounts
  <2> QED  BY <2>3, <2>4
<1>7. \A o \in Objs : ObjOK(o)'
  BY <1>1, <1>4, <1>5, <1>6, LookObjs DEF Loading, Idle
<1>8. Counting(k, q) /\ (k = "strong" => life[q] = "live")
  BY <1>0, <1>1, OwnerCounting
<1>9. SnapOK(t, s)'
  <2>1. CASE k = "weak"
    BY <1>2, <1>5, <2>1 DEF SnapOK, Usable, Scheme
  <2>2. CASE k = "strong"
    <3>1. LifeOK(q) /\ flag["strong"][q] # "zero"
      BY <1>1, <1>8, <2>2 DEF CountInv, ObjOK, Counting
    <3>2. Undisposed(Guard(t, s), q)
      BY <1>1, <3>1, NotDisposed
    <3>3. Undisposed(Guard(t, s), q)' /\ life'[q] = "live"
      BY <1>1, <1>8, <2>2, <3>2 DEF Undisposed, Guard, Scheme, heap
    <3>4. \A o : snap'[t][s].o = o => life'[o] = "live" /\ Undisposed(Guard(t, s), o)'
      BY <1>5, <3>3
    <3> QED  BY <1>1, <1>2, <1>5, <2>2, <3>4 DEF SnapOK, Scheme
  <2> QED  BY <2>1, <2>2 DEF Kinds
<1>10. \A o \in Objs : snap'[t][s].o = o \/ Named(pc'[t]) = o => life[o] # "none"
  BY <1>5, <1>8, NullAssumption DEF Counting, Alive
<1>11. UNCHANGED <<life, own, cs, retired>>
  BY <1>1 DEF heap
<1>12. pc'[t] = Idle \/ (pc'[t].at \in Loading /\ pc'[t].s = s)
  BY <1>3, <1>5 DEF Loading
<1>13. \A c : pc'[t].at \in Loading /\ pc'[t].c = c =>
         /\ Names(t, s, c) /\ Guarded(t)
         /\ pc'[t].at \in {"publish", "validate"} => Scheme = "HP"
         /\ pc'[t].at = "validate" => snap'[t][s].k = Kind(c)
         /\ pc'[t].at = "cas" \/ pc'[t].want # {} => Kind(c) = "strong"
  <2>1. Names(t, s, Null)
    BY NullAssumption DEF Names, Nodes
  <2> QED  BY <1>1, <1>3, <1>5, <2>1 DEF Loading, Idle
<1> QED  BY <1>1, <1>3, <1>4, <1>7, <1>9, <1>10, <1>11, <1>12, <1>13, LookStep

LEMMA CheckStep ==
  ASSUME CountInv, TypeInv', client' = client, Cells' = Cells, NEW t \in Threads, Check(t)
  PROVE  CountInv'
<1>0. PICK s, c, q, w : s = pc[t].s /\ c = pc[t].c /\ q = snap[t][s].o /\ w = pc[t].want
  OBVIOUS
<1>1. /\ TypeInv /\ pc \in [Threads -> Controls] /\ snap \in [Threads -> [Snaps -> [o : Ptr, k : Kinds]]]
      /\ pc[t].at = "check" /\ s \in Snaps /\ q \in Ptr
      /\ UNCHANGED <<life, cnt, cell, own, cs, retired>>
  BY <1>0, ControlShape DEF CountInv, TypeInv, Check
<1>2. /\ Names(t, s, c) /\ Guarded(t) /\ (w # {} => Kind(c) = "strong")
  BY <1>0, <1>1 DEF CountInv, ThreadOK, FieldOK, Loading
<1>3. /\ \A u \in Threads \ {t} : pc'[u] = pc[u] /\ snap'[u] = snap[u]
      /\ \A r \in Snaps \ {s} : snap'[t][r] = snap[t][r]
      /\ snap'[t][s] = snap[t][s] \/ snap'[t][s] = NoSnap
  BY <1>0, <1>1 DEF Check, Goto, CasProtecting, SetSnap
<1>4. Same(t)
  BY <1>1, <1>3 DEF Same
<1>5. /\ pc'[t] = Idle \/ (pc'[t].at \in Loading /\ pc'[t].s = s)
      /\ pc'[t].at \in {"idle", "cas"} /\ Named(pc'[t]) = Null
      /\ \A d : pc'[t].at \in Loading /\ pc'[t].c = d => d = c /\ Kind(c) = "strong"
  <2>1. CASE Goto(t, Idle)
    BY <1>1, <2>1 DEF Goto, Named, Idle, Loading
  <2>2. CASE CasProtecting(t)
    <3>1. \/ pc[t] \in [at : {"validate", "check", "cas"}, s : Snaps, c : Cells, want : SUBSET Ptr]
          \/ pc[t] \in [at : {"check"}, s : Snaps, c : {Null}, want : {{}}]
      BY <1>1 DEF Controls, Idle
    <3>2. PICK v : pc'[t] = [pc[t] EXCEPT !.at = "cas", !.want = v]
      BY <1>1, <2>2 DEF CasProtecting, Goto
    <3>3. pc'[t].at = "cas" /\ pc'[t].s = s /\ pc'[t].c = c
      <4>1. CASE pc[t] \in [at : {"validate", "check", "cas"}, s : Snaps, c : Cells, want : SUBSET Ptr]
        BY <1>0, <3>2, <4>1
      <4>2. CASE pc[t] \in [at : {"check"}, s : Snaps, c : {Null}, want : {{}}]
        BY <1>0, <3>2, <4>2
      <4> QED  BY <3>1, <4>1, <4>2
    <3>4. Kind(c) = "strong"
      BY <1>0, <1>2, <2>2 DEF CasProtecting, MayCas
    <3> QED  BY <3>3, <3>4 DEF Named, Loading
  <2> QED  BY <2>1, <2>2 DEF Check
<1>6. \A r \in Snaps : Settled(t, r)
  BY <1>1 DEF Settled
<1>7. NoSnap.o \notin Objs
  BY NullAssumption DEF NoSnap
<1>8. \A k : \A o \in Objs : Protectors(k, o)' \subseteq Protectors(k, o)
  <2>1. \A r \in Snaps : (snap'[t][r] = snap[t][r] /\ Settled(t, r)) \/ snap'[t][r].o \notin Objs
    BY <1>3, <1>6, <1>7
  <2> QED  BY <1>4, <2>1, ProtectorsFewer
<1>9. \A o \in Objs : Backed(o)
  BY <1>8, BackedFewer
<1>10. \A o \in Objs : ObjOK(o) /\ Shielded(o)
  BY ShieldedLemma DEF CountInv
<1>11. q \in Objs => /\ Counting("weak", q)
                     /\ Counting("strong", q) => life[q] = "live"
  BY <1>0, <1>1, <1>6, <1>10, SnapCounting, CountFacts
<1>12. pc[t].at \in {"idle"} \cup Loading /\ pc'[t].at \in {"idle"} \cup Loading
  BY <1>1, <1>5 DEF Loading
<1>13. ASSUME NEW o \in Objs PROVE ObjOK(o)'
  <2>1. CASE flag' = flag
    BY <1>1, <1>4, <1>9, <1>12, <2>1, LookObjs DEF heap
  <2>2. CASE /\ q \in Objs /\ flag["strong"][q] = "counting" /\ cnt["strong"][q] = 0
             /\ flag' = [flag EXCEPT !["strong"][q] = "pending"]
    <3>1. /\ flag'["strong"][q] = "pending" /\ \A k \in Kinds, p \in Objs :
                k # "strong" \/ p # q => flag'[k][p] = flag[k][p]
          /\ "strong" \in Kinds /\ "weak" \in Kinds
      <4>1. "strong" \in Kinds /\ "weak" \in Kinds /\ flag \in [Kinds -> [Objs -> {"counting", "pending", "zero"}]]
        BY <1>1 DEF Kinds, TypeInv
      <4> QED  BY <2>2, <4>1
    <3>2. /\ \A j, p, V : Loose(j, p, V)' = Loose(j, p, V)
          /\ \A p \in Objs : Waited(p)
      BY <1>1, RetiredSame
    <3>3. Placed(t)
      BY <1>12, PlacedCalm
    <3>4. /\ \A k \in Kinds, p \in Objs : Owners(k, p)' = Owners(k, p)
          /\ \A p \in Objs : Disposers(p)' = Disposers(p)
      BY <1>1, <1>4, <3>2, <3>3, OwnersKept
    <3>5. \A k \in Kinds, p \in Objs : Incs(k, p)' = Incs(k, p) /\ Settlers(k, p) \subseteq Settlers(k, p)'
      BY <1>1, <1>4, <3>3, PlacesKept DEF Placed, Steady
    <3>6. SameObj(o) /\ \A k \in Kinds : k # "strong" \/ o # q => SameCount(k, o)
      BY <1>1, <3>1, <3>4, <3>5 DEF SameObj, SameCount
    <3>7. CASE o # q
      BY <1>1, <1>9, <1>10, <3>2, <3>6, <3>7, ObjStill
    <3>8. CASE o = q
      <4>1. Counting("strong", o)
        BY <1>11, <2>2, <3>8 DEF Counting
      <4>2. SameCount("weak", o)
        BY <3>1, <3>6
      <4>3. cnt["strong"][o] = 0 /\ cnt'["strong"][o] = 0 /\ flag'["strong"][o] = "pending"
        BY <1>1, <2>2, <3>1, <3>8
      <4> QED  BY <1>1, <1>8, <1>10, <3>1, <3>2, <3>4, <3>5, <3>6, <4>1, <4>2, <4>3, ObjObserve
    <3> QED  BY <3>7, <3>8
  <2> QED  BY <1>0, <1>1, <2>1, <2>2 DEF Check, Observe, CanInc, Ptr
<1>14. SnapOK(t, s)'
  <2>1. CASE snap'[t][s] = NoSnap
    BY <1>7, <2>1 DEF SnapOK
  <2>2. CASE q \notin Objs /\ snap'[t][s] = snap[t][s]
    BY <1>0, <2>2 DEF SnapOK
  <2>3. CASE q \in Objs /\ snap'[t][s] = snap[t][s] /\ ~ReadsZero(q)
    <3>1. life[q] = "live"
      BY <1>11, <2>3 DEF ReadsZero, Counting
    <3>2. LifeOK(q) /\ flag["strong"][q] # "zero"
      BY <1>10, <2>3 DEF ReadsZero, ObjOK
    <3>3. Undisposed(Guard(t, s), q)
      BY <1>1, <2>3, <3>2, NotDisposed
    <3>4. Undisposed(Guard(t, s), q)' /\ life'[q] = "live" /\ Scheme' = Scheme
      BY <1>1, <3>1, <3>3 DEF Undisposed, Guard, Scheme
    <3>5. Scheme = "EBR" => snap[t][s].k = "strong" /\ t \in cs
      BY <1>0, <1>1, <2>3 DEF CountInv, ThreadOK, SnapOK
    <3>6. \A o : snap'[t][s].o = o => life'[o] = "live" /\ Undisposed(Guard(t, s), o)'
      BY <1>0, <2>3, <3>4
    <3> QED  BY <1>1, <2>3, <3>4, <3>5, <3>6 DEF SnapOK
  <2>4. q \in Objs => snap'[t][s] = NoSnap \/ (~ReadsZero(q) /\ snap'[t][s] = snap[t][s])
    BY <1>0, <1>1, NullAssumption DEF Check, SetSnap
  <2> QED  BY <1>3, <2>1, <2>2, <2>3, <2>4
<1>15. \A o \in Objs : snap'[t][s].o = o \/ Named(pc'[t]) = o => life[o] # "none"
  BY <1>1, <1>3, <1>5, <1>7, NullAssumption DEF CountInv, ThreadOK, KnownOK
<1>16. UNCHANGED <<life, own, cs, retired>> /\ (pc[t].at \in Loading /\ pc[t].s = s)
  BY <1>0, <1>1 DEF Loading
<1>17. \A d : pc'[t].at \in Loading /\ pc'[t].c = d =>
         /\ Names(t, s, d) /\ Guarded(t)
         /\ pc'[t].at \in {"publish", "validate"} => Scheme = "HP"
         /\ pc'[t].at = "validate" => snap'[t][s].k = Kind(d)
         /\ pc'[t].at = "cas" \/ pc'[t].want # {} => Kind(d) = "strong"
  BY <1>2, <1>5
<1> QED  BY <1>1, <1>3, <1>4, <1>5, <1>13, <1>14, <1>15, <1>16, <1>17, LookStep

LEMMA CasSwapStep ==
  ASSUME CountInv, TypeInv', client' = client, Cells' = Cells, NEW t \in Threads, CasSwap(t)
  PROVE  CountInv'
<1>0. PICK s, c, w : s = pc[t].s /\ c = pc[t].c /\ w = pc[t].want
  OBVIOUS
<1>1. /\ TypeInv /\ pc \in [Threads -> Controls] /\ own \in [Kinds -> [Threads -> Ptr]]
      /\ cell \in [Cells -> Ptr] /\ "strong" \in Kinds /\ "weak" \in Kinds /\ "strong" # "weak"
      /\ pc[t].at = "cas" /\ s \in Snaps /\ c \in Cells /\ UNCHANGED <<heap, cs, retired>>
  BY <1>0, ControlShape DEF CountInv, TypeInv, CasSwap, Kinds
<1>2. Names(t, s, c) /\ Guarded(t) /\ Kind(c) = "strong"
  BY <1>0, <1>1 DEF CountInv, ThreadOK, FieldOK, Loading
<1>3. CASE ReadLink(t, s, c, w) /\ UNCHANGED <<cell, own>>
  <2>1. UNCHANGED <<heap, cell, own, cs, retired>>
    BY <1>1, <1>3
  <2> QED  BY <1>0, <1>1, <1>2, <1>3, <2>1, ReadStep DEF Loading
<1>4. CASE /\ Goto(t, Idle) /\ cell' = [cell EXCEPT ![c] = own["strong"][t]]
           /\ own' = [own EXCEPT !["strong"][t] = cell[c]] /\ UNCHANGED snap
  <2>1. /\ pc'[t] = Idle /\ \A u \in Threads \ {t} : pc'[u] = pc[u]
        /\ own'["strong"][t] = cell[c] /\ own'["weak"][t] = own["weak"][t]
        /\ \A j \in Kinds : \A u \in Threads \ {t} : own'[j][u] = own[j][u]
        /\ cell'[c] = own["strong"][t] /\ \A d \in Cells \ {c} : cell'[d] = cell[d]
    BY <1>1, <1>4 DEF Goto
  <2>2. Same(t) /\ Retiring(retired, Null, "strong") /\ Null \in Ptr
    BY <1>1, <1>4, <2>1 DEF Same, Retiring, Ptr
  <2>3. ASSUME NEW j \in Kinds, NEW o \in Objs
        PROVE  One(c \in Cells /\ Kind(c) = j /\ cell'[c] = o) + One(own'[j][t] = o) + One(o = Null /\ j = "strong")
               = One(c \in Cells /\ Kind(c) = j /\ cell[c] = o) + One(own[j][t] = o)
                 + One(In(pc[t], "swap", j, o))
    <3>1. own'[j][t] = IF j = "strong" THEN cell[c] ELSE own[j][t]
      BY <2>1 DEF Kinds
    <3>2. ~In(pc[t], "swap", j, o)
      BY <1>1 DEF In
    <3> QED  BY <1>1, <1>2, <2>1, <3>1, <3>2, NullAssumption DEF One
  <2>4. UNCHANGED <<heap, snap, cs>>
    BY <1>1, <1>4
  <2>5. /\ pc[t].at \in {"idle", "swap", "cas"} /\ pc'[t] = Idle /\ "strong" \in Kinds
        /\ c \in Cells \cup {Null} /\ \A d \in Cells \ {c} : cell'[d] = cell[d]
    BY <1>1, <2>1
  <2> QED  BY <2>2, <2>3, <2>4, <2>5, MoveStep
<1> QED  BY <1>0, <1>3, <1>4 DEF CasSwap

-------------------------------------------------------------------------------
(* Steps that settle a counter, drop a value or eject an entry. *)

\* A snapshot that may be used protects.
LEMMA UsableProtects ==
  ASSUME TypeInv, NEW t \in Threads, NEW s \in Snaps, Usable(t, s), NEW o, snap[t][s].o = o
  PROVE  /\ snap[t][s].k \in Kinds /\ Guard(t, s) \in Protectors(snap[t][s].k, o)
         /\ Guard(t, s) \in Shielders(o)
<1>1. snap[t][s].k \in Kinds /\ Settled(t, s)
  BY DEF TypeInv, Usable, Settled
<1>2. Guard(t, s) \in Protectors(snap[t][s].k, o)
  BY <1>1, ProtectorsAre DEF Protects
<1> QED  BY <1>1, <1>2 DEF Shielders, Kinds

LEMMA SettleStep ==
  ASSUME CountInv, TypeInv', client' = client, Cells' = Cells, NEW t \in Threads, Settle(t)
  PROVE  CountInv'
<1>0. PICK k, q : k = pc[t].k /\ q = pc[t].o
  OBVIOUS
<1>1. /\ TypeInv /\ pc[t] \in Controls /\ pc \in [Threads -> Controls] /\ pc[t].at = "settle"
      /\ k \in Kinds /\ q \in Objs /\ UNCHANGED <<cnt, cell, own, snap, cs, retired>>
      /\ life \in [Objs -> {"none", "live", "disposed", "freed"}]
      /\ flag \in [Kinds -> [Objs -> {"counting", "pending", "zero"}]]
      /\ life[q] # "none"
  <2>1. pc[t] \in Controls /\ pc[t].at = "settle"
    BY DEF CountInv, TypeInv, Settle
  <2>2. k \in Kinds /\ q \in Objs
    BY <1>0, <2>1, ControlShape
  <2>3. Named(pc[t]) = q
    BY <1>0, <2>1 DEF Named
  <2> QED  BY <2>1, <2>2, <2>3 DEF CountInv, TypeInv, Settle, ThreadOK, KnownOK
<1> DEFINE credit == flag[k][q] = "pending" \/ (flag[k][q] = "counting" /\ cnt[k][q] = 0)
<1>2. /\ credit => /\ flag'[k][q] = "zero"
                   /\ k = "weak" => life'[q] = "freed" /\ pc'[t] = Idle
                   /\ k = "strong" => life'[q] = life[q] /\ pc'[t] = [at |-> "release", o |-> q]
      /\ ~credit => flag'[k][q] = flag[k][q] /\ life'[q] = life[q] /\ pc'[t] = Idle
      /\ \A o \in Objs \ {q} : life'[o] = life[o]
      /\ \A j \in Kinds, o \in Objs : j # k \/ o # q => flag'[j][o] = flag[j][o]
      /\ \A u \in Threads \ {t} : pc'[u] = pc[u]
  <2>1. CASE credit
    <3>1. flag' = [flag EXCEPT ![k][q] = "zero"] /\ (IF k = "weak" THEN SetLife(q, "freed") ELSE UNCHANGED life)
          /\ Goto(t, IF k = "strong" THEN [at |-> "release", o |-> q] ELSE Idle)
      BY <1>0, <2>1 DEF Settle, CanInc
    <3>2. \A o \in Objs \ {q} : life'[o] = life[o]
      BY <1>1, <3>1 DEF SetLife
    <3>3. \A j \in Kinds, o \in Objs : j # k \/ o # q => flag'[j][o] = flag[j][o]
      BY <1>1, <3>1
    <3>4. /\ flag'[k][q] = "zero"
          /\ k = "weak" => life'[q] = "freed" /\ pc'[t] = Idle
          /\ k = "strong" => life'[q] = life[q] /\ pc'[t] = [at |-> "release", o |-> q]
          /\ \A u \in Threads \ {t} : pc'[u] = pc[u]
      BY <1>1, <3>1 DEF SetLife, Goto
    <3> QED  BY <2>1, <3>2, <3>3, <3>4
  <2>2. CASE ~credit
    <3>1. flag' = flag /\ life' = life /\ Goto(t, Idle)
      BY <1>0, <2>2 DEF Settle, CanInc
    <3> QED  BY <1>1, <2>2, <3>1 DEF Goto
  <2> QED  BY <2>1, <2>2
<1> HIDE DEF credit
<1>3. Same(t)
  BY <1>1, <1>2 DEF Same
<1>4. \A o \in Objs : ObjOK(o) /\ Shielded(o)
  BY ShieldedLemma DEF CountInv
<1>5. /\ \A j, o, V : Loose(j, o, V)' = Loose(j, o, V)
      /\ \A o \in Objs : Waited(o)
  BY <1>1, RetiredSame
<1>6. /\ pc'[t] \in {Idle, [at |-> "release", o |-> q]}
      /\ pc'[t].at \in {"idle", "release"} /\ (pc'[t].at = "release" => pc'[t].o = q)
      /\ pc'[t].at = "release" <=> credit /\ k = "strong"
  BY <1>1, <1>2 DEF Idle, Kinds
<1>7. /\ \A l, j, o : l \in {"swap", "inc"} => ~In(pc'[t], l, j, o) /\ ~In(pc[t], l, j, o)
      /\ \A j, o : In(pc[t], "settle", j, o) => j = k /\ o = q
      /\ \A o : ~Release(pc[t], o) /\ (Release(pc'[t], o) <=> credit /\ k = "strong" /\ o = q)
      /\ Calm(pc[t]) /\ Calm(pc'[t])
  BY <1>0, <1>1, <1>6 DEF In, Release, Calm
<1>8. ASSUME NEW j \in Kinds, NEW o \in Objs PROVE Owners(j, o)' = Owners(j, o)
  <2>1. /\ Owners(j, o)' = Owners(j, o)
              + One(Null \in Cells /\ Kind(Null) = j /\ cell'[Null] = o) - One(Null \in Cells /\ Kind(Null) = j /\ cell[Null] = o)
              + One(own'[j][t] = o) - One(own[j][t] = o)
              + Loose(j, o, {})' - Loose(j, o, {})
              + One(In(pc'[t], "swap", j, o)) - One(In(pc[t], "swap", j, o))
         /\ Owners(j, o) \in Nat /\ Loose(j, o, {}) \in Nat
    <3>1. Null \in Cells \cup {Null} /\ \A d \in Cells \ {Null} : cell'[d] = cell[d]
      BY <1>1
    <3>2. TypeInv
      BY <1>1
    <3> QED  BY <1>3, <3>1, <3>2, OwnersStep
  <2>2. One(In(pc'[t], "swap", j, o)) = 0 /\ One(In(pc[t], "swap", j, o)) = 0
    BY <1>7 DEF One
  <2>3. Loose(j, o, {})' = Loose(j, o, {})
    BY <1>5
  <2>4. /\ One(own'[j][t] = o) = One(own[j][t] = o) /\ One(own[j][t] = o) \in Nat
        /\ One(Null \in Cells /\ Kind(Null) = j /\ cell'[Null] = o)
             = One(Null \in Cells /\ Kind(Null) = j /\ cell[Null] = o)
        /\ One(Null \in Cells /\ Kind(Null) = j /\ cell[Null] = o) \in Nat
    BY <1>1 DEF One
  <2> HIDE DEF Owners, Loose
  <2> QED  BY <2>1, <2>2, <2>3, <2>4
<1>9. ASSUME NEW o \in Objs
      PROVE  Disposers(o)' = Disposers(o) + One(credit /\ k = "strong" /\ o = q) /\ Disposers(o) \in Nat
  <2>1. Loose("dispose", o, {})' = Loose("dispose", o, {})
    BY <1>5
  <2>2. /\ One(Release(pc'[t], o)) = One(credit /\ k = "strong" /\ o = q) /\ One(Release(pc[t], o)) = 0
        /\ One(Release(pc'[t], o)) \in Nat
    BY <1>7 DEF One
  <2>3. /\ Disposers(o)' = Disposers(o) + Loose("dispose", o, {})' - Loose("dispose", o, {})
                           + One(Release(pc'[t], o)) - One(Release(pc[t], o))
        /\ Disposers(o) \in Nat /\ Loose("dispose", o, {}) \in Nat
    BY <1>1, <1>3, DisposersStep
  <2> HIDE DEF Disposers, Loose
  <2> QED  BY <2>1, <2>2, <2>3
<1>10. /\ \A j, o : Protectors(j, o)' = Protectors(j, o)
       /\ \A j \in Kinds, o \in Objs : Incs(j, o)' = Incs(j, o)
       /\ \A j \in Kinds, o \in Objs : j # k \/ o # q => Settlers(j, o) \subseteq Settlers(j, o)'
  <2>1. \A j, o : Protectors(j, o)' = Protectors(j, o)
    BY <1>1, <1>3, <1>7, ProtectorsSame
  <2>2. \A j \in Kinds, o \in Objs : Incs(j, o)' = Incs(j, o)
    BY <1>1, <1>3, <1>7, PlacesKept
  <2>3. \A j \in Kinds, o \in Objs : j # k \/ o # q => Settlers(j, o) \subseteq Settlers(j, o)'
    BY <1>1, <1>3, <1>7, PlacesKept
  <2> QED  BY <2>1, <2>2, <2>3
<1>11. \A j \in Kinds, o \in Objs : j # k \/ o # q => SameCount(j, o)
  BY <1>1, <1>2, <1>8, <1>10 DEF SameCount
<1>12. \A o \in Objs : SameUse(o)
  BY <1>10 DEF SameUse
<1>13. ASSUME NEW o \in Objs, o # q PROVE ObjOK(o)'
  <2>1. One(credit /\ k = "strong" /\ o = q) = 0
    BY <1>13 DEF One
  <2>2. SameObj(o) /\ \A j \in Kinds : SameCount(j, o)
    BY <1>2, <1>9, <1>11, <1>13, <2>1 DEF SameObj
  <2> QED  BY <1>1, <1>4, <1>5, <1>12, <2>2, ObjStill, UseSame
<1>14. LifeOK(q)
  BY <1>1, <1>4 DEF ObjOK
<1>15. ASSUME credit /\ k = "strong" PROVE ObjOK(q)'
  <2>1. life[q] = "live"
    BY <1>1, <1>14, <1>15 DEF LifeOK, credit
  <2>2. /\ Disposers(q)' = Disposers(q) + 1 /\ life'[q] = life[q] /\ SameCount("weak", q)
        /\ flag'["strong"][q] = "zero" /\ cnt'["strong"][q] = cnt["strong"][q]
    <3>1. One(credit /\ k = "strong" /\ q = q) = 1
      BY <1>15 DEF One
    <3> QED  BY <1>1, <1>2, <1>9, <1>11, <1>15, <3>1 DEF Kinds
  <2> QED  BY <1>1, <1>4, <1>5, <1>8, <1>10, <1>12, <1>15, <2>1, <2>2, ObjZero DEF credit
<1>16. ASSUME credit /\ k = "weak" PROVE ObjOK(q)'
  <2>1. flag["weak"][q] = "counting" /\ cnt["weak"][q] = 0
    BY <1>14, <1>16 DEF LifeOK, credit
  <2>2. life[q] # "live"
    <3>1. SUFFICES ASSUME life[q] = "live" PROVE FALSE
      OBVIOUS
    <3>2. Counting("weak", q) /\ Extra("weak", q) = 1
      BY <2>1, <3>1 DEF Counting, Alive, Extra
    <3>3. Books("weak", q)
      BY <1>1, <1>4, <1>16 DEF ObjOK
    <3>4. /\ Loose("weak", q, Guards) \in Nat /\ cnt["weak"][q] \in Int
          /\ cnt["weak"][q] >= Loose("weak", q, Guards) + Bonus("weak", q, Guards) + Extra("weak", q)
      BY <1>1, <1>16, <3>2, <3>3, LeastLemma DEF LeastFacts, Books
    <3>5. Bonus("weak", q, Guards) \in {0, 1}
      BY BonusType
    <3> HIDE DEF Loose, Bonus, Extra
    <3> QED  BY <2>1, <3>2, <3>4, <3>5
  <2>3. life[q] = "disposed" /\ flag["strong"][q] = "zero"
    BY <1>1, <1>14, <2>1, <2>2 DEF LifeOK
  <2>4. Disposers(q)' = 0
    <3>1. One(credit /\ k = "strong" /\ q = q) = 0
      BY <1>16 DEF One
    <3>2. Disposers(q) = 0
      BY <1>14, <2>2 DEF LifeOK
    <3>3. Disposers(q)' = Disposers(q) + One(credit /\ k = "strong" /\ q = q)
      BY <1>1, <1>9
    <3> QED  BY <3>1, <3>2, <3>3
  <2>5. flag'["strong"][q] = "zero" /\ flag'["weak"][q] = "zero" /\ life'[q] = "freed"
    <3>1. "strong" \in Kinds /\ "strong" # k
      BY <1>16 DEF Kinds
    <3> QED  BY <1>1, <1>2, <1>16, <2>3, <3>1
  <2> QED  BY <1>1, <1>4, <1>5, <1>8, <1>10, <1>12, <2>1, <2>3, <2>4, <2>5, ObjFree
<1>17. ASSUME ~credit PROVE ObjOK(q)'
  <2>1. life'[q] = life[q] /\ Disposers(q)' = Disposers(q)
        /\ \A j \in Kinds : flag'[j][q] = flag[j][q] /\ cnt'[j][q] = cnt[j][q]
    <3>1. One(credit /\ k = "strong" /\ q = q) = 0
      BY <1>17 DEF One
    <3> QED  BY <1>1, <1>2, <1>9, <1>17, <3>1
  <2>2. \A j \in Kinds : Books(j, q)'
    <3>1. SUFFICES ASSUME NEW j \in Kinds PROVE Books(j, q)'
      OBVIOUS
    <3>2. (Counting(j, q)' <=> Counting(j, q)) /\ Extra(j, q)' = Extra(j, q)
      BY <2>1 DEF Counting, Alive, Extra
    <3>3. Books(j, q) /\ Backed(q)
      BY <1>1, <1>4, <1>12, UseSame DEF ObjOK
    <3> QED  BY <1>1, <1>5, <1>8, <1>10, <2>1, <3>2, <3>3, BooksStill
  <2>3. ProtectedOK(q)'
    <3>1. "strong" \in Kinds /\ "weak" \in Kinds
      BY DEF Kinds
    <3>2. ProtectedOK(q) /\ Shielders(q)' = Shielders(q)
      BY <1>1, <1>4, <1>12, UseSame DEF ObjOK
    <3> QED  BY <1>10, <2>1, <3>1, <3>2 DEF ProtectedOK, Counting, Alive
  <2>4. LifeOK(q)'
    <3>1. "strong" \in Kinds /\ "weak" \in Kinds
      BY DEF Kinds
    <3> QED  BY <1>14, <2>1, <3>1 DEF LifeOK
  <2>5. SettlersOK(q)'
    <3>1. "strong" \in Kinds /\ "weak" \in Kinds /\ "strong" # "weak"
      BY DEF Kinds
    <3>2. SettlersOK(q) /\ flag["weak"][q] \in {"counting", "pending", "zero"}
      BY <1>1, <1>4, <3>1 DEF ObjOK
    <3>3. CASE k = "strong"
      <4>1. Settlers("weak", q) \subseteq Settlers("weak", q)'
        BY <1>1, <1>10, <3>1, <3>3
      <4> QED  BY <1>17, <2>1, <3>1, <3>2, <3>3, <4>1 DEF SettlersOK, credit
    <3>4. CASE k = "weak"
      <4>1. Settlers("strong", q) \subseteq Settlers("strong", q)'
        BY <1>1, <1>10, <3>1, <3>4
      <4>2. ~(life[q] = "disposed" /\ cnt["weak"][q] = 0)
        BY <1>14, <1>17, <3>2, <3>4 DEF LifeOK, credit
      <4> QED  BY <2>1, <3>1, <3>2, <4>1, <4>2 DEF SettlersOK
    <3> QED  BY <1>1, <3>3, <3>4 DEF Kinds
  <2> QED  BY <2>2, <2>3, <2>4, <2>5 DEF ObjOK
<1>18. \A o \in Objs : ObjOK(o)'
  BY <1>1, <1>13, <1>15, <1>16, <1>17 DEF Kinds
<1>19. \A u \in Threads : Retains(u) /\ Stays(u)
  <2>1. \A o \in Objs : life[o] = "live" => life'[o] = "live"
    <3>1. CASE credit /\ k = "weak" /\ life[q] = "live"
      <4>1. flag["weak"][q] = "counting" /\ cnt["weak"][q] = 0
        BY <1>14, <3>1 DEF LifeOK, credit
      <4>2. Counting("weak", q) /\ Extra("weak", q) = 1 /\ Books("weak", q)
        BY <1>1, <1>4, <3>1, <4>1 DEF Counting, Alive, Extra, ObjOK
      <4>3. /\ Loose("weak", q, Guards) \in Nat /\ cnt["weak"][q] \in Int
            /\ cnt["weak"][q] >= Loose("weak", q, Guards) + Bonus("weak", q, Guards) + Extra("weak", q)
        BY <1>1, <3>1, <4>2, LeastLemma DEF LeastFacts, Books
      <4>4. Bonus("weak", q, Guards) \in {0, 1}
        BY BonusType
      <4> HIDE DEF Loose, Bonus, Extra
      <4> QED  BY <4>1, <4>2, <4>3, <4>4
    <3> QED  BY <1>1, <1>2, <3>1 DEF Kinds
  <2>2. Harmless
    BY <1>1, <2>1 DEF Harmless
  <2>3. \A u \in Threads : Stays(u)
    <3>1. life'[q] # "none"
      BY <1>1, <1>2 DEF Kinds
    <3> QED  BY <1>1, <1>2, <3>1 DEF Stays
  <2> QED  BY <2>2, <2>3, HarmlessRetains DEF CountInv
<1>20. ASSUME NEW u \in Threads PROVE ThreadOK(u)'
  <2>1. CASE u # t
    BY <1>1, <1>3, <1>19, <2>1, ThreadOther DEF CountInv, Same
  <2>2. CASE u = t
    <3>1. /\ pc[t].at \notin Loading \ {"cas"} /\ pc'[t].at \notin Loading /\ pc'[t].at # "swap"
          /\ pc'[t].at # "inc"
      BY <1>1, <1>6 DEF Loading
    <3>2. Named(pc'[t]) \in {Null, q} /\ IncOK(t)'
      BY <1>6, <3>1 DEF Named, IncOK
    <3>3. Named(pc'[t]) \in Objs => life'[Named(pc'[t])] # "none"
      BY <1>1, <1>19, <3>2, NullAssumption DEF Stays
    <3> QED  BY <1>1, <1>19, <2>2, <3>1, <3>2, <3>3, ThreadCalm DEF CountInv
  <2> QED  BY <2>1, <2>2
<1> QED  BY <1>18, <1>20 DEF CountInv

\* The value of q is dropped, and its field with it, by t that was to release q
\* or that ejects its disposal; B is the retired work without the latter.
LEMMA ValueStep ==
  ASSUME CountInv, TypeInv', client' = client, Cells' = Cells, NEW t \in Threads, Same(t),
         NEW q \in Objs, NEW B, GoodBag(B), DOMAIN B \subseteq DOMAIN retired,
         UNCHANGED <<flag, own, snap, cs>>, DropField(q), Retiring(B, FieldOf(q), "strong"),
         \A k, o, V : CountIn(B, k, o, V) <= Loose(k, o, V),
         \A k \in Kinds, o \in Objs : CountIn(B, k, o, {}) = Loose(k, o, {}),
         \A o \in Objs : CountIn(B, "dispose", o, {}) + One(o = q)
                           = Loose("dispose", o, {}) + One(Release(pc[t], o)),
         pc[t].at \in {"idle", "release"},
         pc'[t] = Idle \/ pc'[t] = [at |-> "settle", k |-> "weak", o |-> q],
         \A o \in Objs \ {q} : life'[o] = life[o],
         \A k \in Kinds, o \in Objs : k # "weak" \/ o # q => cnt'[k][o] = cnt[k][o],
         \/ /\ life'[q] = "disposed" /\ cnt'["weak"][q] = cnt["weak"][q] - 1
            /\ cnt["weak"][q] = 1 => pc'[t] # Idle
         \/ life'[q] = "freed" /\ cnt["weak"][q] = 1 /\ cnt'["weak"][q] = cnt["weak"][q],
         \A u \in Threads, s \in Snaps : snap[u][s].o = q => ~Usable(u, s)
  PROVE  CountInv'
<1>1. TypeInv /\ "strong" \in Kinds /\ "weak" \in Kinds /\ "strong" \in Work
  BY DEF CountInv, Kinds, Work
<1>2. \A o \in Objs : ObjOK(o) /\ Shielded(o)
  BY ShieldedLemma DEF CountInv
<1>3. PICK x \in Ptr : x = FieldOf(q)
  BY <1>1, NodeField
<1>4. /\ \A e \in DOMAIN retired' : e \in DOMAIN B \/ e.k = "strong"
      /\ \A k, V : \A o \in Objs : Loose(k, o, V)'
           = CountIn(B, k, o, V) + One(o = x /\ k = "strong" /\ Witnesses \cap V = {})
  BY <1>1, <1>3, RetiringCount
<1>5. /\ pc'[t].at \in {"idle", "settle"}
      /\ pc'[t].at = "settle" => pc'[t].o = q /\ pc'[t].k = "weak"
      /\ \A l, j, o : l \in {"swap", "inc"} => ~In(pc'[t], l, j, o) /\ ~In(pc[t], l, j, o)
      /\ \A j, o : ~In(pc[t], "settle", j, o)
      /\ \A o : ~Release(pc'[t], o)
      /\ Calm(pc[t]) /\ Calm(pc'[t])
  BY DEF Idle, In, Release, Calm
<1>6. PICK c \in Cells \cup {Null} :
        /\ \A d \in Cells \ {c} : cell'[d] = cell[d]
        /\ \A j \in Kinds, o \in Objs :
             One(c \in Cells /\ Kind(c) = j /\ cell[c] = o)
               = One(c \in Cells /\ Kind(c) = j /\ cell'[c] = o) + One(o = x /\ j = "strong")
  <2>1. CASE q \in Nodes
    <3>1. q \in Cells /\ Kind(q) = "strong" /\ cell[q] = x
      BY <1>1, <1>3, <2>1, NodeField DEF FieldOf
    <3>2. cell'[q] = Null /\ \A d \in Cells \ {q} : cell'[d] = cell[d]
      BY <1>1, <2>1, <3>1 DEF DropField, TypeInv
    <3> QED  BY <3>1, <3>2, NullAssumption DEF One
  <2>2. CASE q \notin Nodes
    <3>1. cell' = cell /\ x = Null
      BY <1>3, <2>2 DEF DropField, FieldOf
    <3>2. ASSUME NEW j \in Kinds, NEW o \in Objs
          PROVE  One(Null \in Cells /\ Kind(Null) = j /\ cell[Null] = o)
                   = One(Null \in Cells /\ Kind(Null) = j /\ cell'[Null] = o) + One(o = x /\ j = "strong")
      BY <3>1, NullAssumption DEF One
    <3> QED  BY <3>1, <3>2
  <2> QED  BY <2>1, <2>2
<1>7. ASSUME NEW j \in Kinds, NEW o \in Objs PROVE Owners(j, o)' = Owners(j, o)
  <2>1. /\ Owners(j, o)' = Owners(j, o)
              + One(c \in Cells /\ Kind(c) = j /\ cell'[c] = o) - One(c \in Cells /\ Kind(c) = j /\ cell[c] = o)
              + One(own'[j][t] = o) - One(own[j][t] = o)
              + Loose(j, o, {})' - Loose(j, o, {})
              + One(In(pc'[t], "swap", j, o)) - One(In(pc[t], "swap", j, o))
         /\ Owners(j, o) \in Nat /\ Loose(j, o, {}) \in Nat
    BY <1>1, <1>6, OwnersStep
  <2>2. One(In(pc'[t], "swap", j, o)) = 0 /\ One(In(pc[t], "swap", j, o)) = 0
    BY <1>5 DEF One
  <2>3. Loose(j, o, {})' = Loose(j, o, {}) + One(o = x /\ j = "strong")
    <3>1. Loose(j, o, {})' = CountIn(B, j, o, {}) + One(o = x /\ j = "strong" /\ Witnesses \cap {} = {})
      BY <1>4
    <3>2. One(o = x /\ j = "strong" /\ Witnesses \cap {} = {}) = One(o = x /\ j = "strong")
      BY DEF One
    <3> QED  BY <3>1, <3>2
  <2>4. /\ One(c \in Cells /\ Kind(c) = j /\ cell[c] = o)
             = One(c \in Cells /\ Kind(c) = j /\ cell'[c] = o) + One(o = x /\ j = "strong")
        /\ One(c \in Cells /\ Kind(c) = j /\ cell'[c] = o) \in Nat
        /\ One(own'[j][t] = o) = One(own[j][t] = o) /\ One(own[j][t] = o) \in Nat
        /\ One(o = x /\ j = "strong") \in Nat
    BY <1>6 DEF One
  <2> HIDE DEF Owners, Loose
  <2> QED  BY <2>1, <2>2, <2>3, <2>4
<1>8. ASSUME NEW o \in Objs PROVE Disposers(o)' = Disposers(o) - One(o = q) /\ Disposers(o) \in Nat
  <2>1. Loose("dispose", o, {})' = CountIn(B, "dispose", o, {})
    <3>1. Loose("dispose", o, {})'
            = CountIn(B, "dispose", o, {}) + One(o = x /\ "dispose" = "strong" /\ Witnesses \cap {} = {})
      BY <1>4
    <3>2. One(o = x /\ "dispose" = "strong" /\ Witnesses \cap {} = {}) = 0
      BY DEF One
    <3>3. CountIn(B, "dispose", o, {}) \in Nat
      BY LooseFinite
    <3> QED  BY <3>1, <3>2, <3>3
  <2>2. CountIn(B, "dispose", o, {}) + One(o = q) = Loose("dispose", o, {}) + One(Release(pc[t], o))
    OBVIOUS
  <2>3. /\ Disposers(o)' = Disposers(o) + Loose("dispose", o, {})' - Loose("dispose", o, {})
                           + One(Release(pc'[t], o)) - One(Release(pc[t], o))
        /\ Disposers(o) \in Nat /\ Loose("dispose", o, {}) \in Nat /\ Loose("dispose", o, {})' \in Nat
    BY <1>1, DisposersStep
  <2>4. /\ One(Release(pc'[t], o)) = 0 /\ One(Release(pc[t], o)) \in Nat /\ One(o = q) \in Nat
    BY <1>5 DEF One
  <2> HIDE DEF Disposers, Loose
  <2> QED  BY <2>1, <2>2, <2>3, <2>4
<1>9. /\ \A j, o : Protectors(j, o)' = Protectors(j, o)
      /\ \A j \in Kinds, o \in Objs : Incs(j, o)' = Incs(j, o) /\ Settlers(j, o) \subseteq Settlers(j, o)'
      /\ \A o \in Objs : SameUse(o)
  <2>1. \A j, o : Protectors(j, o)' = Protectors(j, o)
    BY <1>5, ProtectorsSame
  <2>2. \A j \in Kinds, o \in Objs : Incs(j, o)' = Incs(j, o) /\ Settlers(j, o) \subseteq Settlers(j, o)'
    BY <1>1, <1>5, PlacesKept
  <2> QED  BY <2>1, <2>2 DEF SameUse
<1>10. ASSUME NEW o \in Objs PROVE Waited(o)
  <2>1. \A k \in Kinds : Users(k, o)' \subseteq Users(k, o)
    BY <1>9 DEF Users
  <2>2. Retiring(B, x, "strong")
    BY <1>3
  <2> QED  BY <1>1, <2>1, <2>2, RetiringWaited DEF CountInv
<1>11. Disposers(q) = 1 /\ life[q] = "live" /\ flag["strong"][q] = "zero" /\ Disposers(q)' = 0
  <2>1. Disposers(q)' = Disposers(q) - 1 /\ Disposers(q) \in Nat /\ Disposers(q)' \in Nat
    <3>1. One(q = q) = 1
      BY DEF One
    <3>2. Disposers(q)' \in Nat
      BY <1>1, DisposersStep
    <3> QED  BY <1>8, <3>1, <3>2
  <2>2. Disposers(q) = IF life[q] = "live" /\ flag["strong"][q] = "zero" THEN 1 ELSE 0
    BY <1>2 DEF ObjOK, LifeOK
  <2> HIDE DEF Disposers
  <2> QED  BY <2>1, <2>2
<1>12. ASSUME NEW o \in Objs PROVE ObjOK(o)'
  <2>1. CASE o # q
    <3>1. SameObj(o)
      <4>1. One(o = q) = 0
        BY <2>1 DEF One
      <4> QED  BY <1>8, <2>1, <4>1 DEF SameObj
    <3>2. \A j \in Kinds : SameCount(j, o)
      BY <1>7, <1>9, <2>1 DEF SameCount
    <3> QED  BY <1>1, <1>2, <1>9, <1>10, <3>1, <3>2, ObjStill, UseSame
  <2>2. CASE o = q /\ life'[q] = "disposed"
    <3>1. cnt'["weak"][q] = cnt["weak"][q] - 1 /\ cnt'["strong"][q] = cnt["strong"][q]
      BY <1>1, <2>2
    <3>2. cnt["weak"][q] = 1 => Settlers("weak", q)' # {}
      <4>1. CASE cnt["weak"][q] = 1
        <5>1. pc'[t].at = "settle" /\ pc'[t].o = q /\ pc'[t].k = "weak"
          BY <2>2, <4>1
        <5> QED  BY <5>1 DEF Settlers, At
      <4> QED  BY <4>1
    <3> QED  BY <1>1, <1>2, <1>7, <1>9, <1>10, <1>11, <2>2, <3>1, <3>2, ObjDispose
  <2>3. CASE o = q /\ life'[q] = "freed"
    <3>1. cnt["weak"][q] = 1 /\ \A k \in Kinds : cnt'[k][q] = cnt[k][q] /\ flag'[k][q] = flag[k][q]
      BY <1>1, <2>3
    <3> QED  BY <1>1, <1>2, <1>7, <1>9, <1>10, <1>11, <2>3, <3>1, ObjFree
  <2> QED  BY <2>1, <2>2, <2>3
<1>13. ASSUME NEW u \in Threads PROVE Retains(u) /\ Stays(u)
  <2>1. Stays(u)
    BY DEF Stays
  <2>2. ASSUME NEW s \in Snaps, NEW o \in Objs, snap[u][s].o = o, Usable(u, s)
        PROVE  life'[o] = "live" /\ Undisposed(Guard(u, s), o)'
    <3>1. /\ life[o] = "live" /\ Undisposed(Guard(u, s), o) /\ o # q
          /\ Guard(u, s)' = Guard(u, s)
      BY <2>2 DEF CountInv, ThreadOK, SnapOK, Guard, Scheme
    <3>2. \A e \in DOMAIN retired' : e.o = o /\ e.k = "dispose" => Guard(u, s) \in e.wait
      BY <1>4, <3>1 DEF Undisposed, BagToSet
    <3> QED  BY <3>1, <3>2 DEF Undisposed, BagToSet
  <2> QED  BY <2>1, <2>2 DEF Retains
<1>14. ASSUME NEW u \in Threads PROVE ThreadOK(u)'
  <2>1. CASE u # t
    BY <1>1, <1>13, <2>1, ThreadOther DEF CountInv, Same
  <2>2. CASE u = t
    <3>1. /\ pc[t].at \notin Loading \ {"cas"} /\ pc'[t].at \notin Loading /\ pc'[t].at # "swap"
          /\ pc'[t].at # "inc"
      BY <1>5 DEF Loading
    <3>2. Named(pc'[t]) \in {Null, q} /\ IncOK(t)'
      BY <1>5, <3>1 DEF Named, IncOK
    <3>3. Named(pc'[t]) \in Objs => life'[Named(pc'[t])] # "none"
      BY <3>2, NullAssumption
    <3> QED  BY <1>1, <1>13, <2>2, <3>1, <3>2, <3>3, ThreadCalm DEF CountInv
  <2> QED  BY <2>1, <2>2
<1> QED  BY <1>12, <1>14 DEF CountInv

\* A thread that is to release o: its value is there, and no count keeps it.
LEMMA ReleaseFacts ==
  ASSUME CountInv, NEW t \in Threads, NEW q, pc[t].at = "release", pc[t].o = q
  PROVE  /\ q \in Objs /\ life[q] = "live" /\ flag["strong"][q] = "zero"
         /\ ObjOK(q) /\ Shielded(q) /\ Counting("weak", q)
<1>1. TypeInv /\ pc[t] \in Controls
  BY DEF CountInv, TypeInv
<1>2. q \in Objs
  BY <1>1, ControlShape
<1>3. ObjOK(q) /\ Shielded(q)
  BY <1>2, ShieldedLemma DEF CountInv
<1>4. /\ Disposers(q) = Cardinality(Releasers(q)) + Loose("dispose", q, {})
      /\ IsFiniteSet(Releasers(q)) /\ Cardinality(Releasers(q)) \in Nat /\ Loose("dispose", q, {}) \in Nat
  BY <1>1, <1>2, OwnersIs, Finite DEF Kinds
<1>5. t \in Releasers(q)
  BY DEF Releasers
<1>6. Cardinality(Releasers(q)) # 0
  BY <1>4, <1>5, FS_EmptySet
<1>7. Disposers(q) # 0
  <2> HIDE DEF Disposers, Releasers, Loose
  <2> QED  BY <1>4, <1>6
<1>8. life[q] = "live" /\ flag["strong"][q] = "zero"
  BY <1>3, <1>7 DEF ObjOK, LifeOK
<1> QED  BY <1>1, <1>2, <1>3, <1>8, CountFacts

LEMMA ReleaseLastStep ==
  ASSUME CountInv, TypeInv', client' = client, Cells' = Cells, NEW t \in Threads, ReleaseLast(t)
  PROVE  CountInv'
<1>0. PICK q : q = pc[t].o
  OBVIOUS
<1>1. /\ TypeInv /\ GoodBag(retired) /\ pc \in [Threads -> Controls]
      /\ life \in [Objs -> {"none", "live", "disposed", "freed"}]
      /\ pc[t].at = "release" /\ cnt["weak"][q] = 1
      /\ UNCHANGED <<cnt, flag, own, snap, cs>> /\ DropField(q) /\ Retire(FieldOf(q), "strong")
      /\ SetLife(q, "freed") /\ Goto(t, Idle)
  BY <1>0 DEF CountInv, TypeInv, ReleaseLast
<1>2. /\ q \in Objs /\ life[q] = "live" /\ flag["strong"][q] = "zero"
      /\ ObjOK(q) /\ Shielded(q)
  BY <1>0, <1>1, ReleaseFacts
<1>3. /\ life'[q] = "freed" /\ \A o \in Objs \ {q} : life'[o] = life[o]
      /\ pc'[t] = Idle /\ \A u \in Threads \ {t} : pc'[u] = pc[u]
  BY <1>1, <1>2 DEF SetLife, Goto
<1>4. Same(t) /\ Retiring(retired, FieldOf(q), "strong")
  BY <1>1, <1>3 DEF Same, Retire, Retiring
<1>5. Shielders(q) = {}
  BY <1>1, <1>2, ZeroFacts
<1>6. \A u \in Threads, s \in Snaps : snap[u][s].o = q => ~Usable(u, s)
  BY <1>1, <1>5, UsableProtects
<1>7. \A o \in Objs : CountIn(retired, "dispose", o, {}) + One(o = q)
                        = Loose("dispose", o, {}) + One(Release(pc[t], o))
  BY <1>0, <1>1 DEF Loose, Release
<1>8. /\ \A k, o, V : CountIn(retired, k, o, V) <= Loose(k, o, V)
      /\ \A k \in Kinds, o \in Objs : CountIn(retired, k, o, {}) = Loose(k, o, {})
  BY <1>1, LooseFinite DEF Loose
<1>9. pc[t].at \in {"idle", "release"}
  BY <1>1
<1>10. \A k \in Kinds, o \in Objs : k # "weak" \/ o # q => cnt'[k][o] = cnt[k][o]
  BY <1>1
<1>11. cnt'["weak"][q] = cnt["weak"][q]
  BY <1>1
<1> QED  BY <1>1, <1>2, <1>3, <1>4, <1>6, <1>7, <1>8, <1>9, <1>10, <1>11, ValueStep

\* Cs::dispose: whoever calls it, nobody can use a snapshot of the object.
LEMMA DisposeStep ==
  ASSUME CountInv, TypeInv', client' = client, Cells' = Cells, NEW t \in Threads,
         NEW q \in Objs, NEW B, GoodBag(B), DOMAIN B \subseteq DOMAIN retired, Dispose(t, q, B),
         life[q] = "live", Counting("weak", q),
         \A k, o, V : CountIn(B, k, o, V) <= Loose(k, o, V),
         \A k \in Kinds, o \in Objs : CountIn(B, k, o, {}) = Loose(k, o, {}),
         \A o \in Objs : CountIn(B, "dispose", o, {}) + One(o = q)
                           = Loose("dispose", o, {}) + One(Release(pc[t], o)),
         pc[t].at \in {"idle", "release"},
         \A u \in Threads, s \in Snaps : snap[u][s].o = q => ~Usable(u, s)
  PROVE  CountInv'
<1>1. /\ TypeInv /\ pc \in [Threads -> Controls] /\ "weak" \in Kinds
      /\ life \in [Objs -> {"none", "live", "disposed", "freed"}] /\ cnt \in [Kinds -> [Objs -> Int]]
  BY DEF CountInv, TypeInv, Kinds
<1>2. UNCHANGED <<flag, own, snap, cs>> /\ DropField(q) /\ Retiring(B, FieldOf(q), "strong")
  BY DEF Dispose, Retiring
<1>3. CanInc("weak", q)
  BY DEF Counting, CanInc
<1>4. /\ life'[q] = "disposed" /\ \A o \in Objs \ {q} : life'[o] = life[o]
      /\ cnt' = [cnt EXCEPT !["weak"][q] = @ - 1]
      /\ pc'[t] = IF cnt["weak"][q] = 1 THEN [at |-> "settle", k |-> "weak", o |-> q] ELSE Idle
      /\ \A u \in Threads \ {t} : pc'[u] = pc[u]
  BY <1>1, <1>3 DEF Dispose, SetLife, Dec, Drained, Goto
<1>5. /\ cnt'["weak"][q] = cnt["weak"][q] - 1
      /\ \A k \in Kinds, o \in Objs : k # "weak" \/ o # q => cnt'[k][o] = cnt[k][o]
  BY <1>1, <1>4
<1>6. Same(t)
  BY <1>2, <1>4 DEF Same
<1>7. pc'[t] = Idle \/ pc'[t] = [at |-> "settle", k |-> "weak", o |-> q]
  BY <1>4
<1>8. cnt["weak"][q] = 1 => pc'[t] # Idle
  <2>1. [at |-> "settle", k |-> "weak", o |-> q].at # Idle.at
    BY DEF Idle
  <2> QED  BY <1>4, <2>1
<1> QED  BY <1>2, <1>4, <1>5, <1>6, <1>7, <1>8, ValueStep

LEMMA ReleaseDelayStep ==
  ASSUME CountInv, TypeInv', client' = client, Cells' = Cells, NEW t \in Threads, ReleaseDelay(t)
  PROVE  CountInv'
<1>0. PICK q : q = pc[t].o
  OBVIOUS
<1>1. /\ TypeInv /\ GoodBag(retired) /\ pc \in [Threads -> Controls] /\ pc[t].at = "release"
      /\ Scheme \in {"EBR", "HP"}
  BY <1>0, ClientAssumption DEF CountInv, TypeInv, ReleaseDelay, Scheme
<1>2. /\ q \in Objs /\ life[q] = "live" /\ flag["strong"][q] = "zero"
      /\ ObjOK(q) /\ Shielded(q) /\ Counting("weak", q)
  BY <1>0, <1>1, ReleaseFacts
<1>3. \A k, o, V : CountIn(retired, k, o, V) = Loose(k, o, V) /\ Loose(k, o, V) \in Nat
  BY <1>1, LooseFinite DEF Loose
<1>4. \A o \in Objs : One(Release(pc[t], o)) = One(o = q)
  BY <1>0, <1>1 DEF Release, One
<1>5. CASE Scheme = "HP"
  <2>1. /\ Retire(q, "dispose") /\ Goto(t, Idle) /\ UNCHANGED <<heap, cell, own, snap, cs>>
    BY <1>0, <1>5 DEF ReleaseDelay
  <2>2. /\ pc'[t] = Idle /\ \A u \in Threads \ {t} : pc'[u] = pc[u]
        /\ Retiring(retired, q, "dispose") /\ q \in Ptr /\ "dispose" \in Work
    BY <1>1, <1>2, <2>1 DEF Goto, Retire, Retiring, Ptr, Work
  <2>3. Same(t) /\ Steady(t) /\ \A o : ~Release(pc'[t], o)
    BY <1>1, <2>1, <2>2 DEF Same, Steady, In, Release, Idle
  <2>4. /\ \A e \in DOMAIN retired' : e \in DOMAIN retired \/ (e.o = q /\ e.k = "dispose" /\ e.wait = Witnesses)
        /\ \A k, V : \A o \in Objs : Loose(k, o, V)'
             = CountIn(retired, k, o, V) + One(o = q /\ k = "dispose" /\ Witnesses \cap V = {})
    BY <1>1, <2>2, RetiringCount
  <2>5. ASSUME NEW j \in Kinds, NEW o \in Objs PROVE Owners(j, o)' = Owners(j, o)
    <3>1. /\ Owners(j, o)' = Owners(j, o)
                + One(Null \in Cells /\ Kind(Null) = j /\ cell'[Null] = o) - One(Null \in Cells /\ Kind(Null) = j /\ cell[Null] = o)
                + One(own'[j][t] = o) - One(own[j][t] = o)
                + Loose(j, o, {})' - Loose(j, o, {})
                + One(In(pc'[t], "swap", j, o)) - One(In(pc[t], "swap", j, o))
           /\ Owners(j, o) \in Nat /\ Loose(j, o, {}) \in Nat
      <4>1. Null \in Cells \cup {Null} /\ \A d \in Cells \ {Null} : cell'[d] = cell[d]
        BY <2>1
      <4> QED  BY <1>1, <2>3, <4>1, OwnersStep
    <3>2. One(In(pc'[t], "swap", j, o)) = 0 /\ One(In(pc[t], "swap", j, o)) = 0
      BY <1>1, <2>2 DEF One, In, Idle
    <3>3. Loose(j, o, {})' = Loose(j, o, {})
      <4>1. Loose(j, o, {})' = CountIn(retired, j, o, {}) + One(o = q /\ j = "dispose" /\ Witnesses \cap {} = {})
        BY <2>4
      <4>2. One(o = q /\ j = "dispose" /\ Witnesses \cap {} = {}) = 0
        BY DEF One, Kinds
      <4> HIDE DEF Loose
      <4> QED  BY <1>3, <4>1, <4>2
    <3>4. /\ One(own'[j][t] = o) = One(own[j][t] = o) /\ One(own[j][t] = o) \in Nat
          /\ One(Null \in Cells /\ Kind(Null) = j /\ cell'[Null] = o)
               = One(Null \in Cells /\ Kind(Null) = j /\ cell[Null] = o)
          /\ One(Null \in Cells /\ Kind(Null) = j /\ cell[Null] = o) \in Nat
      BY <2>1 DEF One
    <3> HIDE DEF Owners, Loose
    <3> QED  BY <3>1, <3>2, <3>3, <3>4
  <2>6. ASSUME NEW o \in Objs PROVE Disposers(o)' = Disposers(o)
    <3>1. Loose("dispose", o, {})' = Loose("dispose", o, {}) + One(o = q)
      <4>1. Loose("dispose", o, {})'
              = CountIn(retired, "dispose", o, {}) + One(o = q /\ "dispose" = "dispose" /\ Witnesses \cap {} = {})
        BY <2>4
      <4>2. One(o = q /\ "dispose" = "dispose" /\ Witnesses \cap {} = {}) = One(o = q)
        BY DEF One
      <4> HIDE DEF Loose
      <4> QED  BY <1>3, <4>1, <4>2
    <3>2. /\ Disposers(o)' = Disposers(o) + Loose("dispose", o, {})' - Loose("dispose", o, {})
                             + One(Release(pc'[t], o)) - One(Release(pc[t], o))
          /\ Disposers(o) \in Nat /\ Loose("dispose", o, {}) \in Nat
      BY <1>1, <2>3, DisposersStep
    <3>3. One(Release(pc'[t], o)) = 0 /\ One(Release(pc[t], o)) = One(o = q) /\ One(o = q) \in Nat
      BY <1>4, <2>3 DEF One
    <3> HIDE DEF Disposers, Loose
    <3> QED  BY <3>1, <3>2, <3>3
  <2>7. ASSUME NEW o \in Objs PROVE Waited(o) /\ Backed(o)
    <3>1. Calm(pc[t]) /\ Calm(pc'[t])
      BY <1>1, <2>2 DEF Calm, Idle
    <3>2. \A j, p : Protectors(j, p)' = Protectors(j, p)
      BY <2>1, <2>3, <3>1, ProtectorsSame
    <3>3. \A j \in Kinds : Incs(j, o)' = Incs(j, o)
      BY <1>1, <2>3, PlacesKept DEF Steady
    <3>4. \A j \in Kinds : Users(j, o)' \subseteq Users(j, o)
      BY <3>2, <3>3 DEF Users
    <3>5. \A j, p, V : CountIn(retired, j, p, V) <= Loose(j, p, V)
      BY <1>3
    <3> QED  BY <1>1, <2>2, <3>2, <3>4, <3>5, RetiringWaited, BackedFewer DEF CountInv
  <2>8. \A o \in Objs : ObjOK(o)'
    BY <2>1, <2>3, <2>5, <2>6, <2>7, StillStep
  <2>9. ASSUME NEW u \in Threads PROVE Retains(u) /\ Stays(u)
    <3>1. Stays(u)
      BY <2>1 DEF Stays, heap
    <3>2. ASSUME NEW s \in Snaps, NEW o \in Objs, snap[u][s].o = o, Usable(u, s)
          PROVE  life'[o] = "live" /\ Undisposed(Guard(u, s), o)'
      <4>1. /\ life[o] = "live" /\ Undisposed(Guard(u, s), o)
            /\ Guard(u, s)' = Guard(u, s)
        BY <3>2 DEF CountInv, ThreadOK, SnapOK, Guard, Scheme
      <4>2. Guard(u, s) \in Witnesses
        BY <1>5 DEF Witnesses, Guard
      <4> QED  BY <2>1, <2>4, <4>1, <4>2 DEF Undisposed, BagToSet, heap
    <3> QED  BY <3>1, <3>2 DEF Retains
  <2>10. ASSUME NEW u \in Threads PROVE ThreadOK(u)'
    <3>1. CASE u # t
      BY <1>1, <2>3, <2>9, <3>1, ThreadOther DEF CountInv, Same
    <3>2. CASE u = t
      <4>1. /\ pc[t].at \notin Loading \ {"cas"} /\ pc'[t].at \notin Loading /\ pc'[t].at # "swap"
            /\ pc'[t].at # "inc"
        BY <1>1, <2>2 DEF Loading, Idle
      <4>2. Named(pc'[t]) \notin Objs /\ IncOK(t)'
        BY <2>2, NullAssumption DEF Named, IncOK, Idle
      <4> QED  BY <1>1, <2>1, <2>9, <3>2, <4>1, <4>2, ThreadCalm DEF CountInv
    <3> QED  BY <3>1, <3>2
  <2> QED  BY <2>8, <2>10 DEF CountInv
<1>6. CASE Scheme = "EBR"
  <2>1. Dispose(t, q, retired)
    BY <1>0, <1>6 DEF ReleaseDelay
  <2>2. Protectors("strong", q) = {}
    BY <1>2 DEF ObjOK, ProtectedOK
  <2>3. ASSUME NEW u \in Threads, NEW s \in Snaps, snap[u][s].o = q PROVE ~Usable(u, s)
    <3>1. snap[u][s].k = "strong"
      BY <1>2, <1>6, <2>3 DEF CountInv, ThreadOK, SnapOK
    <3> QED  BY <1>1, <2>2, <2>3, <3>1, UsableProtects
  <2>4. \A o \in Objs : CountIn(retired, "dispose", o, {}) + One(o = q)
                          = Loose("dispose", o, {}) + One(Release(pc[t], o))
    BY <1>3, <1>4
  <2>5. /\ \A k, o, V : CountIn(retired, k, o, V) <= Loose(k, o, V)
        /\ \A k \in Kinds, o \in Objs : CountIn(retired, k, o, {}) = Loose(k, o, {})
    BY <1>3
  <2>6. pc[t].at \in {"idle", "release"}
    BY <1>1
  <2> QED  BY <1>1, <1>2, <2>1, <2>3, <2>4, <2>5, <2>6, DisposeStep
<1> QED  BY <1>1, <1>5, <1>6

LEMMA EjectStep ==
  ASSUME CountInv, TypeInv', client' = client, Cells' = Cells, NEW t \in Threads,
         NEW e \in DOMAIN retired, Eject(t, e)
  PROVE  CountInv'
<1>0. PICK k, q : k = e.k /\ q = e.o
  OBVIOUS
<1>1. /\ TypeInv /\ GoodBag(retired) /\ pc \in [Threads -> Controls] /\ pc[t] = Idle
      /\ cnt \in [Kinds -> [Objs -> Int]]
      /\ e.wait = {} /\ q \in Objs /\ k \in Work
  <2>1. e \in Entries
    BY DEF CountInv, TypeInv, GoodBag, BagToSet
  <2> QED  BY <1>0, <2>1 DEF CountInv, TypeInv, Eject, Free, Entries, Work
<1>2. PICK B : B = BagRemove(retired, e)
  OBVIOUS
<1>3. \A j, o, V : Matches(e, j, o, V) <=> j = k /\ o = q
  BY <1>0, <1>1 DEF Matches
<1>4. /\ GoodBag(B) /\ DOMAIN B \subseteq DOMAIN retired
      /\ \A j, o, V : CountIn(B, j, o, V) = Loose(j, o, V) - One(j = k /\ o = q) /\ Loose(j, o, V) \in Nat
  <2>1. /\ GoodBag(B) /\ DOMAIN B \subseteq DOMAIN retired
        /\ \A j, o, V : CountIn(B, j, o, V) = CountIn(retired, j, o, V) - IF Matches(e, j, o, V) THEN 1 ELSE 0
    BY <1>1, <1>2, RemoveCount
  <2>2. \A j, o, V : CountIn(retired, j, o, V) \in Nat
    BY <1>1, LooseFinite
  <2> QED  BY <1>3, <2>1, <2>2 DEF Loose, One
<1>5. \A o \in Objs : ObjOK(o) /\ Shielded(o)
  BY ShieldedLemma DEF CountInv
<1>6. /\ \A l, j, o : ~In(pc[t], l, j, o) \/ l \notin {"swap", "inc", "settle"}
      /\ \A o : ~Release(pc[t], o) /\ Calm(pc[t])
  BY <1>1 DEF In, Release, Calm, Idle
<1>7. CASE k = "dispose"
  <2>1. Dispose(t, q, B)
    BY <1>0, <1>2, <1>7 DEF Eject
  <2>2. Disposers(q) > 0
    <3>1. Disposers(q) = Cardinality(Releasers(q)) + Loose("dispose", q, {}) /\ Cardinality(Releasers(q)) \in Nat
      BY <1>1, OwnersIs, Finite DEF Kinds
    <3>2. Loose("dispose", q, {}) >= 1
      BY <1>1, <1>3, <1>7, LooseOne DEF Loose
    <3>3. Loose("dispose", q, {}) \in Nat
      BY <1>4
    <3> HIDE DEF Disposers, Loose, Releasers
    <3> QED  BY <3>1, <3>2, <3>3
  <2>3. life[q] = "live" /\ Counting("weak", q)
    <3>1. life[q] = "live"
      BY <1>1, <1>5, <2>2 DEF ObjOK, LifeOK
    <3> QED  BY <1>1, <1>5, <3>1, CountFacts
  <2>4. ASSUME NEW u \in Threads, NEW s \in Snaps, snap[u][s].o = q PROVE ~Usable(u, s)
    <3>1. ~Undisposed(Guard(u, s), q)
      BY <1>0, <1>1, <1>7 DEF Undisposed, BagToSet
    <3> QED  BY <1>1, <2>4, <3>1 DEF CountInv, ThreadOK, SnapOK
  <2>5. ASSUME NEW o \in Objs
        PROVE  CountIn(B, "dispose", o, {}) + One(o = q) = Loose("dispose", o, {}) + One(Release(pc[t], o))
    <3>1. /\ CountIn(B, "dispose", o, {}) = Loose("dispose", o, {}) - One("dispose" = k /\ o = q)
          /\ Loose("dispose", o, {}) \in Nat
      BY <1>4
    <3>2. One("dispose" = k /\ o = q) = One(o = q) /\ One(o = q) \in Nat /\ One(Release(pc[t], o)) = 0
      BY <1>6, <1>7 DEF One
    <3> HIDE DEF Loose
    <3> QED  BY <3>1, <3>2
  <2>6. /\ \A j, o, V : CountIn(B, j, o, V) <= Loose(j, o, V)
        /\ \A j \in Kinds, o \in Objs : CountIn(B, j, o, {}) = Loose(j, o, {})
    <3>1. \A j, o : One(j = k /\ o = q) \in Nat /\ (j \in Kinds => One(j = k /\ o = q) = 0)
      BY <1>7 DEF One, Kinds
    <3>2. ASSUME NEW j, NEW o, NEW V
          PROVE  CountIn(B, j, o, V) <= Loose(j, o, V) /\ (j \in Kinds => CountIn(B, j, o, V) = Loose(j, o, V))
      <4>1. CountIn(B, j, o, V) = Loose(j, o, V) - One(j = k /\ o = q) /\ Loose(j, o, V) \in Nat
        BY <1>4
      <4>2. One(j = k /\ o = q) \in Nat /\ (j \in Kinds => One(j = k /\ o = q) = 0)
        BY <3>1
      <4> HIDE DEF Loose
      <4> QED  BY <4>1, <4>2
    <3> QED  BY <3>2
  <2>7. pc[t].at \in {"idle", "release"}
    BY <1>1 DEF Idle
  <2> QED  BY <1>1, <1>4, <2>1, <2>3, <2>4, <2>5, <2>6, <2>7, DisposeStep
<1>8. CASE k # "dispose"
  <2>1. /\ k \in Kinds /\ retired' = B /\ Dec(k, q)
        /\ Goto(t, IF Drained(k, q) THEN [at |-> "settle", k |-> k, o |-> q] ELSE Idle)
        /\ UNCHANGED <<life, flag, cell, own, snap, cs>>
    BY <1>0, <1>1, <1>2, <1>8 DEF Eject, Work
  <2>2. Counting(k, q)
    BY <1>0, <1>1, <2>1, OwnerCounting
  <2>3. CanInc(k, q)
    BY <2>2 DEF Counting, CanInc
  <2>4. /\ cnt'[k][q] = cnt[k][q] - 1
        /\ \A j \in Kinds, o \in Objs : j # k \/ o # q => cnt'[j][o] = cnt[j][o]
    <3>1. cnt' = [cnt EXCEPT ![k][q] = @ - 1]
      BY <2>1, <2>3 DEF Dec
    <3> QED  BY <1>1, <2>1, <3>1
  <2>5. /\ cnt[k][q] = 1 => pc'[t] = [at |-> "settle", k |-> k, o |-> q]
        /\ cnt[k][q] # 1 => pc'[t] = Idle
        /\ \A u \in Threads \ {t} : pc'[u] = pc[u]
    BY <1>1, <2>1, <2>3 DEF Drained, Goto
  <2>6. /\ pc'[t].at \in {"idle", "settle"}
        /\ pc'[t].at = "settle" => pc'[t].o = q /\ pc'[t].k = k
        /\ cnt[k][q] = 1 => pc'[t].at = "settle"
    BY <2>5 DEF Idle
  <2>7. /\ Same(t) /\ Steady(t) /\ Calm(pc'[t])
        /\ \A j, o : ~In(pc'[t], "swap", j, o) /\ ~Release(pc'[t], o)
    BY <1>6, <2>1, <2>5, <2>6 DEF Same, Steady, In, Release, Calm
  <2>8. \A j, o, V : Loose(j, o, V)' = Loose(j, o, V) - One(j = k /\ o = q) /\ Loose(j, o, V) \in Nat
    BY <1>4, <2>1 DEF Loose
  <2>9. ASSUME NEW j \in Kinds, NEW o \in Objs
        PROVE  Owners(j, o)' = Owners(j, o) - One(j = k /\ o = q) /\ Owners(j, o) \in Nat
    <3>1. /\ Owners(j, o)' = Owners(j, o)
                + One(Null \in Cells /\ Kind(Null) = j /\ cell'[Null] = o) - One(Null \in Cells /\ Kind(Null) = j /\ cell[Null] = o)
                + One(own'[j][t] = o) - One(own[j][t] = o)
                + Loose(j, o, {})' - Loose(j, o, {})
                + One(In(pc'[t], "swap", j, o)) - One(In(pc[t], "swap", j, o))
           /\ Owners(j, o) \in Nat /\ Loose(j, o, {}) \in Nat
      <4>1. Null \in Cells \cup {Null} /\ \A d \in Cells \ {Null} : cell'[d] = cell[d]
        BY <2>1
      <4>2. TypeInv /\ Same(t)
        BY <1>1, <2>7
      <4> QED  BY <4>1, <4>2, OwnersStep
    <3>2. One(In(pc'[t], "swap", j, o)) = 0 /\ One(In(pc[t], "swap", j, o)) = 0
      BY <1>6, <2>7 DEF One
    <3>3. Loose(j, o, {})' = Loose(j, o, {}) - One(j = k /\ o = q) /\ One(j = k /\ o = q) \in Nat
      BY <2>8 DEF One
    <3>4. /\ One(own'[j][t] = o) = One(own[j][t] = o) /\ One(own[j][t] = o) \in Nat
          /\ One(Null \in Cells /\ Kind(Null) = j /\ cell'[Null] = o)
               = One(Null \in Cells /\ Kind(Null) = j /\ cell[Null] = o)
          /\ One(Null \in Cells /\ Kind(Null) = j /\ cell[Null] = o) \in Nat
      BY <2>1 DEF One
    <3> HIDE DEF Owners, Loose
    <3> QED  BY <3>1, <3>2, <3>3, <3>4
  <2>10. ASSUME NEW o \in Objs PROVE Disposers(o)' = Disposers(o)
    <3>1. Loose("dispose", o, {})' = Loose("dispose", o, {})
      <4>1. Loose("dispose", o, {})' = Loose("dispose", o, {}) - One("dispose" = k /\ o = q)
        BY <2>8
      <4>2. One("dispose" = k /\ o = q) = 0 /\ Loose("dispose", o, {}) \in Nat
        BY <1>8, <2>8 DEF One
      <4> HIDE DEF Loose
      <4> QED  BY <4>1, <4>2
    <3>2. One(Release(pc'[t], o)) = 0 /\ One(Release(pc[t], o)) = 0
      BY <1>6, <2>7 DEF One
    <3> QED  BY <1>1, <2>7, <3>1, <3>2, DisposersStep
  <2>11. /\ \A j, o : Protectors(j, o)' = Protectors(j, o)
         /\ \A j \in Kinds, o \in Objs : Incs(j, o)' = Incs(j, o) /\ Settlers(j, o) \subseteq Settlers(j, o)'
    BY <1>1, <1>6, <2>1, <2>7, ProtectorsSame, PlacesKept DEF Steady
  <2>12. ASSUME NEW o \in Objs PROVE Waited(o)
    <3>1. SUFFICES ASSUME NEW j \in Kinds, NEW V PROVE Loose(j, o, V)' <= Loose(j, o, V)
      BY DEF Waited
    <3>2. Loose(j, o, V)' = Loose(j, o, V) - One(j = k /\ o = q) /\ Loose(j, o, V) \in Nat
      BY <2>8
    <3>3. One(j = k /\ o = q) \in Nat
      BY DEF One
    <3> HIDE DEF Loose
    <3> QED  BY <3>2, <3>3
  <2>13. ASSUME NEW o \in Objs PROVE ObjOK(o)'
    <3>1. SameObj(o) /\ SameUse(o)
      BY <2>1, <2>10, <2>11 DEF SameObj, SameUse
    <3>2. ASSUME NEW j \in Kinds, j # k \/ o # q PROVE SameCount(j, o)
      <4>1. One(j = k /\ o = q) = 0
        BY <3>2 DEF One
      <4>2. Owners(j, o)' = Owners(j, o)
        BY <2>9, <4>1
      <4> QED  BY <2>1, <2>4, <2>11, <3>2, <4>2 DEF SameCount
    <3>3. CASE o # q
      BY <1>1, <1>5, <2>12, <3>1, <3>2, <3>3, ObjStill, UseSame
    <3>4. CASE o = q
      <4>1. One(k = k /\ o = q) = 1
        BY <3>4 DEF One
      <4>2. Owners(k, o)' = Owners(k, o) - 1
        BY <2>1, <2>9, <4>1
      <4>3. \A V \in SUBSET Guards : Loose(k, o, V)' = Loose(k, o, V) - 1
        BY <2>8, <4>1
      <4>4. \A j \in Kinds \ {k} : SameCount(j, o)
        BY <3>2
      <4>5. cnt[k][o] = 1 => Settlers(k, o)' # {}
        <5>1. CASE cnt[k][o] = 1
          <6>1. pc'[t].at = "settle" /\ pc'[t].o = q /\ pc'[t].k = k
            BY <2>6, <3>4, <5>1
          <6> QED  BY <3>4, <6>1 DEF Settlers, At
        <5> QED  BY <5>1
      <4>6. flag'[k][o] = flag[k][o] /\ cnt'[k][o] = cnt[k][o] - 1
        BY <2>1, <2>4, <3>4
      <4> QED  BY <1>1, <1>5, <2>1, <2>11, <2>12, <3>1, <3>4, <4>2, <4>3, <4>4, <4>5, <4>6, ObjEject
    <3> QED  BY <3>3, <3>4
  <2>14. \A u \in Threads : Retains(u) /\ Stays(u)
    <3>1. Harmless
      BY <1>4, <2>1 DEF Harmless
    <3> QED  BY <2>1, <3>1, HarmlessRetains DEF CountInv, Stays
  <2>15. ASSUME NEW u \in Threads PROVE ThreadOK(u)'
    <3>1. CASE u # t
      BY <1>1, <2>7, <2>14, <3>1, ThreadOther DEF CountInv, Same
    <3>2. CASE u = t
      <4>1. /\ pc[t].at \notin Loading \ {"cas"} /\ pc'[t].at \notin Loading /\ pc'[t].at # "swap"
            /\ pc'[t].at # "inc"
        BY <1>1, <2>6 DEF Loading, Idle
      <4>2. Named(pc'[t]) \in {Null, q} /\ IncOK(t)'
        BY <2>6, <4>1 DEF Named, IncOK
      <4>3. Named(pc'[t]) \in Objs => life'[Named(pc'[t])] # "none"
        <5>1. life'[q] # "none"
          BY <2>1, <2>2 DEF Counting, Alive
        <5> QED  BY <4>2, <5>1, NullAssumption
      <4> QED  BY <1>1, <2>1, <2>14, <3>2, <4>1, <4>2, <4>3, ThreadCalm DEF CountInv
    <3> QED  BY <3>1, <3>2
  <2> QED  BY <2>13, <2>15 DEF CountInv
<1> QED  BY <1>7, <1>8

-------------------------------------------------------------------------------
(* The invariant. *)

LEMMA InitOwners ==
  ASSUME Init
  PROVE  /\ \A k \in Kinds, o \in Objs : Owners(k, o) = 0 /\ Disposers(o) = 0
         /\ \A k, o : Protectors(k, o) = {} \/ o \notin Objs
         /\ \A l, k, o : l # "idle" => At(l, k, o) = {}
         /\ \A k, o, V : Loose(k, o, V) = 0
         /\ TypeInv
<1>1. TypeInv
  <2>1. GoodBag(EmptyBag)
    BY DEF GoodBag, EmptyBag, SetToBag, IsABag, BagToSet
  <2>2. Idle \in Controls /\ NoSnap \in [o : Ptr, k : Kinds]
    BY ControlIn DEF NoSnap, Ptr, Kinds
  <2>3. \A k \in Kinds : cnt[k] \in [Objs -> Int] /\ flag[k] \in [Objs -> {"counting", "pending", "zero"}]
    BY DEF Init
  <2>4. cnt \in [Kinds -> [Objs -> Int]] /\ flag \in [Kinds -> [Objs -> {"counting", "pending", "zero"}]]
    BY <2>3 DEF Init
  <2>5. snap \in [Threads -> [Snaps -> [o : Ptr, k : Kinds]]] /\ pc \in [Threads -> Controls]
    <3> HIDE DEF NoSnap, Idle
    <3> QED  BY <2>2 DEF Init
  <2> QED  BY <2>1, <2>4, <2>5 DEF Init, TypeInv, Ptr
<1>2. \A k, o, V : Loose(k, o, V) = 0
  <2>1. Copies(EmptyBag) = {}
    BY DEF Copies, EmptyBag, SetToBag, BagToSet
  <2>2. \A k, o, V : LooseIn(retired, k, o, V) = {}
    BY <2>1 DEF Init, LooseIn
  <2> QED  BY <2>2, FS_EmptySet DEF Loose, CountIn
<1>3. \A l, k, o : l # "idle" => At(l, k, o) = {}
  BY DEF Init, At, Idle
<1>4. \A k, o : Protectors(k, o) = {} \/ o \notin Objs
  BY NullAssumption DEF Init, Protectors, Protects, NoSnap
<1>5. ASSUME NEW k \in Kinds, NEW o \in Objs PROVE Owners(k, o) = 0 /\ Disposers(o) = 0
  <2>1. CellsOf(k, o) = {} /\ VarsOf(k, o) = {} /\ Releasers(o) = {} /\ At("swap", k, o) = {}
    BY <1>3, NullAssumption DEF Init, CellsOf, VarsOf, Releasers, Idle
  <2>2. Cardinality({}) = 0
    BY FS_EmptySet
  <2>3. Loose(k, o, {}) = 0 /\ Loose("dispose", o, {}) = 0
    BY <1>2
  <2>4. /\ Owners(k, o) = Cardinality(CellsOf(k, o)) + Cardinality(VarsOf(k, o))
                        + Loose(k, o, {}) + Cardinality(At("swap", k, o))
        /\ Disposers(o) = Cardinality(Releasers(o)) + Loose("dispose", o, {})
    BY <1>1, OwnersIs
  <2> QED  BY <2>1, <2>2, <2>3, <2>4
<1> QED  BY <1>1, <1>2, <1>3, <1>4, <1>5

LEMMA InitInv == ASSUME Init PROVE CountInv
<1>1. /\ TypeInv /\ Cardinality({}) = 0 /\ Cardinality(Threads) \in Nat /\ MaxCount \in Nat
      /\ \A k \in Kinds, o \in Objs : Owners(k, o) = 0 /\ Disposers(o) = 0
  BY InitOwners, Finite, FS_EmptySet, ClientAssumption DEF TypeInv, MaxCount
<1>2. ASSUME NEW o \in Objs PROVE ObjOK(o)
  <2>1. /\ life[o] = "none" /\ \A k \in Kinds : cnt[k][o] = 0 /\ flag[k][o] = "counting"
    BY DEF Init
  <2>2. \A k : Incs(k, o) = {} /\ Protectors(k, o) = {}
    <3>1. \A k : At("inc", k, o) = {}
      BY InitOwners
    <3>2. \A k : Incs(k, o) = {}
      BY <3>1 DEF Incs
    <3> QED  BY <3>2, InitOwners
  <2>3. ASSUME NEW k \in Kinds PROVE Books(k, o)
    <3>1. Balanced(k, o)
      BY <1>1, <2>1, <2>2 DEF Balanced, Counting, Alive, Extra
    <3>2. Bounded(k, o)
      BY <1>1, <2>1, <2>2 DEF Bounded
    <3>3. ASSUME NEW V \in SUBSET Guards PROVE Kept(k, o, V)
      <4>1. Bonus(k, o, V) = 0 /\ Incs(k, o) \cap V = {}
        BY <2>2 DEF Bonus
      <4>2. Loose(k, o, V) = 0
        BY InitOwners
      <4>3. Cardinality(Incs(k, o) \cap V) = 0 /\ Owners(k, o) = 0
        BY <1>1, <4>1
      <4> HIDE DEF Loose, Bonus, Owners, Incs
      <4> QED  BY <4>1, <4>2, <4>3 DEF Kept
    <3> QED  BY <3>1, <3>2, <3>3 DEF Books, Covered
  <2>4. ProtectedOK(o)
    BY <2>2 DEF ProtectedOK, Shielders
  <2>5. LifeOK(o)
    BY <1>1, <2>1 DEF LifeOK, Kinds
  <2>6. SettlersOK(o)
    BY <2>1 DEF SettlersOK
  <2> QED  BY <2>3, <2>4, <2>5, <2>6 DEF ObjOK
<1>3. ASSUME NEW t \in Threads PROVE ThreadOK(t)
  <2>1. pc[t] = Idle /\ pc[t].at = "idle" /\ \A s \in Snaps : snap[t][s].o = Null
    BY DEF Init, Idle, NoSnap
  <2> QED  BY <2>1, NullAssumption DEF ThreadOK, KnownOK, Named, IncOK, FieldOK, Loading, SnapOK
<1> QED  BY <1>1, <1>2, <1>3 DEF CountInv

\* A step in which nothing happens.
LEMMA QuietStep == ASSUME CountInv, UNCHANGED vars PROVE CountInv'
<1>1. /\ TypeInv /\ UNCHANGED <<life, cnt, flag, cell, own, snap, cs, retired, pc, client>>
      /\ Cells' = Cells
  BY DEF CountInv, vars, Cells, Nodes
<1>2. TypeInv'
  BY <1>1 DEF TypeInv, Controls
<1>3. /\ \A k, o, V : Loose(k, o, V)' = Loose(k, o, V)
      /\ \A o \in Objs : Waited(o)
  BY <1>1, <1>2, RetiredSame
<1>4. /\ \A l, k, o : At(l, k, o)' = At(l, k, o)
      /\ \A k, o : Protectors(k, o)' = Protectors(k, o)
      /\ \A k, o : CellsOf(k, o)' = CellsOf(k, o) /\ VarsOf(k, o)' = VarsOf(k, o)
      /\ \A o : Releasers(o)' = Releasers(o)
  BY <1>1 DEF At, Kind, Protectors, Protects, Guard, Guards, Scheme, Settled, CellsOf, VarsOf, Releasers
<1>5. \A k \in Kinds, o \in Objs : Owners(k, o)' = Owners(k, o) /\ Disposers(o)' = Disposers(o)
  <2>1. SUFFICES ASSUME NEW k \in Kinds, NEW o \in Objs
                 PROVE  Owners(k, o)' = Owners(k, o) /\ Disposers(o)' = Disposers(o)
    OBVIOUS
  <2>2. Loose(k, o, {})' = Loose(k, o, {}) /\ Loose("dispose", o, {})' = Loose("dispose", o, {})
    BY <1>3
  <2>3. OwnerFacts /\ OwnerFacts'
    BY <1>1, <1>2, OwnerLemma, OwnerNext
  <2>4. /\ Owners(k, o) = Cardinality(CellsOf(k, o)) + Cardinality(VarsOf(k, o))
                        + Loose(k, o, {}) + Cardinality(At("swap", k, o))
        /\ Disposers(o) = Cardinality(Releasers(o)) + Loose("dispose", o, {})
    BY <2>3 DEF OwnerFacts
  <2>5. /\ Owners(k, o)' = Cardinality(CellsOf(k, o))' + Cardinality(VarsOf(k, o))'
                         + Loose(k, o, {})' + Cardinality(At("swap", k, o))'
        /\ Disposers(o)' = Cardinality(Releasers(o))' + Loose("dispose", o, {})'
    BY <2>3 DEF OwnerFacts
  <2> QED  BY <1>4, <2>2, <2>4, <2>5
<1>6. ASSUME NEW o \in Objs PROVE ObjOK(o)'
  <2>1. ObjOK(o) /\ Shielded(o)
    BY ShieldedLemma DEF CountInv
  <2>2. SameUse(o) /\ SameObj(o) /\ \A k \in Kinds : SameCount(k, o)
    BY <1>1, <1>4, <1>5 DEF SameUse, SameObj, SameCount, Incs, Guard, Scheme, Settlers, Kinds
  <2> QED  BY <1>1, <1>2, <1>3, <2>1, <2>2, ObjStill, UseSame
<1>7. ASSUME NEW u \in Threads PROVE ThreadOK(u)'
  <2>1. Retains(u) /\ Stays(u)
    BY <1>1, HarmlessSame DEF Stays
  <2> QED  BY <1>1, <2>1, ThreadOther DEF CountInv
<1> QED  BY <1>2, <1>6, <1>7 DEF CountInv

LEMMA NextInv == ASSUME CountInv, SafeClients, [Next]_vars PROVE CountInv'
<1>1. CASE UNCHANGED vars
  BY <1>1, QuietStep
<1>2. CASE Next
  <2>1. TypeInv' /\ client' = client /\ Cells' = Cells
    BY <1>2, TypeStep DEF CountInv
  <2>2. CASE Scanning
    BY <2>1, <2>2, ScanStep DEF Scanning, BagToSet
  <2>3. ASSUME NEW t \in Threads, Enter(t) \/ Leaving(t) PROVE CountInv'
    BY <2>1, <2>3, EnterStep, ExitStep, ClearStep DEF Leaving
  <2>4. ASSUME NEW t \in Threads, Owning(t) PROVE CountInv'
    BY <2>1, <2>4, NewStep, DropStep, CloneStep, FromSnapshotStep, FromStrongStep, UpgradeStep DEF Owning
  <2>5. ASSUME NEW t \in Threads, Updating(t) PROVE CountInv'
    BY <2>1, <2>5, StoreStep, SwapStep, StoreSnapStep, CasSnapStep DEF Updating
  <2>6. ASSUME NEW t \in Threads, Reading(t) PROVE CountInv'
    BY <2>1, <2>6, LoadStep, ProtectStep DEF Reading
  <2>7. ASSUME NEW t \in Threads, Continue(t) PROVE CountInv'
    BY <2>1, <2>7, StoreSwapStep, CasIncStep, PublishStep, ValidateStep, CheckStep, CasSwapStep,
       SettleStep, ReleaseLastStep, ReleaseDelayStep DEF Continue
  <2>8. ASSUME NEW t \in Threads, Collect(t) PROVE CountInv'
    BY <2>1, <2>8, EjectStep DEF Collect, BagToSet
  <2> QED  BY <1>2, <2>2, <2>3, <2>4, <2>5, <2>6, <2>7, <2>8 DEF Next
<1> QED  BY <1>1, <1>2

\* The books of the reference counts: every count is exact, what threads protect or
\* have still to count is covered by owners whose decrement waits for them, and
\* whatever came to zero has someone who settles, disposes of or frees it.
THEOREM CountInvariant == SafeClients => (Spec => []CountInv)
<1>1. SUFFICES ASSUME SafeClients PROVE Spec => []CountInv
  OBVIOUS
<1>2. Init => CountInv
  BY InitInv
<1>3. CountInv /\ [Next]_vars => CountInv'
  BY <1>1, NextInv
<1> QED  BY <1>2, <1>3, PTL DEF Spec

-------------------------------------------------------------------------------
(* What follows. *)

\* Every variable has its type, and no count leaves 0 .. MaxCount plus one for
\* each thread.
THEOREM CountTypes == SafeClients => (Spec => []TypeOK)
<1>1. CountInv => TypeOK
  <2>1. SUFFICES ASSUME CountInv PROVE TypeOK
    OBVIOUS
  <2>2. TypeInv /\ Cardinality(Threads) \in Nat /\ MaxCount \in Nat
    BY <2>1, Finite, ClientAssumption DEF CountInv, TypeInv, MaxCount
  <2>3. ASSUME NEW k \in Kinds, NEW o \in Objs PROVE cnt[k][o] \in 0 .. MaxCount + Cardinality(Threads)
    <3>1. Bounded(k, o) /\ cnt[k][o] \in Int /\ Cardinality(Incs(k, o)) \in Nat
      BY <2>1, <2>2, IncsAre, Finite DEF CountInv, ObjOK, Books, TypeInv
    <3> QED  BY <2>2, <3>1 DEF Bounded
  <2>4. cnt \in [Kinds -> [Objs -> 0 .. MaxCount + Cardinality(Threads)]]
    BY <2>2, <2>3 DEF TypeInv
  <2> QED  BY <2>2, <2>4 DEF TypeInv, TypeOK, GoodBag
<1> QED  BY <1>1, CountInvariant, PTL

\* A count equals the number of references, however the steps of loads, stores and
\* deferred decrements of different threads are interleaved.
THEOREM CountsAreExact == SafeClients => (Spec => []CountsExact)
<1>1. CountInv => CountsExact
  <2>1. SUFFICES ASSUME CountInv, NEW o \in Objs, NEW k \in Kinds, life[o] \in {"live", "disposed"}
                 PROVE  (IF flag[k][o] = "counting" THEN cnt[k][o] ELSE 0) + Uncounted(k, o)
                          = Owners(k, o) + Extra(k, o)
    BY DEF CountsExact, Extra
  <2>2. Uncounted(k, o) = Cardinality(Incs(k, o)) /\ Cardinality({}) = 0
    BY <2>1, IncsAre, FS_EmptySet DEF CountInv, Uncounted
  <2>3. Balanced(k, o)
    BY <2>1 DEF CountInv, ObjOK, Books
  <2> HIDE DEF Owners, Uncounted, Extra
  <2> QED  BY <2>1, <2>2, <2>3 DEF Balanced, Counting, Alive
<1> QED  BY <1>1, CountInvariant, PTL

\* The value of an object that an Rc or an AtomicRc points to has not been dropped.
THEOREM StrongKeeps == SafeClients => (Spec => []StrongSafe)
<1>1. CountInv => StrongSafe
  BY OwnerCounting DEF StrongSafe, Kinds
<1> QED  BY <1>1, CountInvariant, PTL

\* The value of an object that a usable Snapshot points to has not been dropped.
THEOREM SnapshotsKeep == SafeClients => (Spec => []SnapshotsSafe)
<1>1. CountInv => SnapshotsSafe
  BY DEF CountInv, TypeInv, ThreadOK, SnapOK, SnapshotsSafe, Ptr
<1> QED  BY <1>1, CountInvariant, PTL

\* An object that has lost its last reference has someone who drops or frees it.
THEOREM NothingLeaks == SafeClients => (Spec => []NoLeak)
<1>1. CountInv => NoLeak
  <2>1. SUFFICES ASSUME CountInv, NEW o \in Objs
                 PROVE  /\ life[o] = "live" /\ Owners("strong", o) = 0
                             => Disposers(o) = 1 \/ Settlers("strong", o) # {}
                        /\ life[o] = "disposed" /\ Owners("weak", o) = 0
                             => Settlers("weak", o) # {}
    BY DEF NoLeak
  <2>2. /\ TypeInv /\ ObjOK(o) /\ "strong" \in Kinds /\ "weak" \in Kinds
        /\ \A k \in Kinds : flag[k][o] \in {"counting", "pending", "zero"} /\ cnt[k][o] \in Int
    BY <2>1 DEF CountInv, TypeInv, Kinds
  <2>3. ASSUME NEW k \in Kinds, Counting(k, o), Owners(k, o) = 0, Extra(k, o) = 0 PROVE cnt[k][o] = 0
    <3>1. Balanced(k, o) /\ Bounded(k, o) /\ Cardinality(Incs(k, o)) \in Nat /\ cnt[k][o] \in Int
      BY <2>2, IncsAre, Finite DEF ObjOK, Books
    <3> HIDE DEF Owners, Incs, Extra
    <3> QED  BY <2>3, <3>1 DEF Balanced, Bounded
  <2>4. CASE life[o] = "live" /\ Owners("strong", o) = 0
    <3>1. Extra("strong", o) = 0
      BY DEF Extra
    <3>2. LifeOK(o) /\ SettlersOK(o)
      BY <2>2 DEF ObjOK
    <3> HIDE DEF Owners, Disposers, Settlers, Extra
    <3> QED  BY <2>2, <2>3, <2>4, <3>1, <3>2 DEF LifeOK, SettlersOK, Counting, Alive
  <2>5. CASE life[o] = "disposed" /\ Owners("weak", o) = 0
    <3>1. Extra("weak", o) = 0
      BY <2>5 DEF Extra
    <3>2. LifeOK(o) /\ SettlersOK(o)
      BY <2>2 DEF ObjOK
    <3> HIDE DEF Owners, Disposers, Settlers, Extra
    <3> QED  BY <2>2, <2>3, <2>5, <3>1, <3>2 DEF LifeOK, SettlersOK, Counting, Alive
  <2> QED  BY <2>4, <2>5
<1> QED  BY <1>1, CountInvariant, PTL

\* A load of an AtomicRc does not find an object whose count is zero.
THEOREM LoadsSucceed == SafeClients => (Spec => []LoadSucceeds)
<1>1. CountInv => LoadSucceeds
  <2>1. SUFFICES ASSUME CountInv, NEW t \in Threads, pc[t].at = "check", NEW s, s = pc[t].s, NEW o, o = snap[t][s].o,
                        snap[t][s].k = "strong", o # Null
                 PROVE  ~ReadsZero(o)
    BY DEF LoadSucceeds
  <2>2. TypeInv /\ s \in Snaps /\ o \in Objs
    BY <2>1, ControlShape DEF CountInv, TypeInv, Ptr
  <2>3. Settled(t, s)
    BY <2>1 DEF Settled
  <2>4. Protectors("strong", o) # {} /\ Counting("strong", o)
    BY <2>1, <2>2, <2>3, SnapCounting
  <2>5. cnt["strong"][o] >= 1
    BY <2>1, <2>2, <2>4, CountFacts, ShieldedLemma DEF CountInv
  <2> QED  BY <2>4, <2>5 DEF ReadsZero, Counting
<1> QED  BY <1>1, CountInvariant, PTL

\* Nothing refers to an object that has been freed, no call accesses a field of a
\* value that has been dropped, and none but a decrement that has still to settle
\* the count touches an object that has been freed.
THEOREM UseBeforeFree ==
  SafeClients => (Spec => [](/\ FieldsSafe /\ ReferencesSafe
                             /\ \A t \in Threads : pc[t].at # "settle" => CallSafe(t)))
<1>1. CountInv => FieldsSafe
  <2>1. SUFFICES ASSUME CountInv, NEW t \in Threads, NEW c \in Nodes, Field(t) = c PROVE life[c] = "live"
    BY DEF FieldsSafe
  <2>2. TypeInv /\ c \in Objs /\ "strong" \in Kinds /\ pc[t].c = c
        /\ pc[t].at \in {"publish", "validate", "swap", "cas"}
    BY <2>1, NullAssumption DEF CountInv, Nodes, Kinds, Field
  <2>3. PICK s : Names(t, s, c) /\ \A r \in Snaps \ {s} : Usable(t, r)
    BY <2>1, <2>2 DEF CountInv, ThreadOK, FieldOK, Loading, Usable
  <2>4. CASE c = own["strong"][t]
    BY <2>1, <2>2, <2>4, OwnerCounting
  <2>5. CASE \E r \in Snaps \ {s} : snap[t][r].o = c
    BY <2>1, <2>2, <2>3, <2>5 DEF CountInv, ThreadOK, SnapOK
  <2> QED  BY <2>3, <2>4, <2>5 DEF Names
<1>2. CountInv => ReferencesSafe
  <2>1. SUFFICES ASSUME CountInv, NEW o \in Objs, life[o] = "freed"
                 PROVE  /\ \A t \in Threads : own["weak"][t] # o
                        /\ \A c \in Cells : cell[c] # o
                        /\ \A e \in BagToSet(retired) : e.o # o
                        /\ \A t \in Threads : pc[t].at = "check" => snap[t][pc[t].s].o # o
    BY DEF ReferencesSafe
  <2>2. TypeInv /\ "weak" \in Kinds /\ (\A k : ~Counting(k, o)) /\ \A c : Kind(c) \in Kinds
    BY <2>1 DEF CountInv, Kinds, Kind, Counting, Alive
  <2>3. ASSUME NEW e \in DOMAIN retired, e.o = o PROVE FALSE
    <3>1. e \in Entries /\ GoodBag(retired)
      BY <2>2 DEF TypeInv, GoodBag, BagToSet
    <3>2. e.k = "dispose"
      BY <2>1, <2>2, <2>3, <3>1, OwnerCounting DEF Entries
    <3>3. Loose("dispose", o, {}) >= 1
      BY <2>3, <3>1, <3>2, LooseOne DEF Loose, Matches
    <3>4. /\ Disposers(o) = Cardinality(Releasers(o)) + Loose("dispose", o, {})
          /\ Cardinality(Releasers(o)) \in Nat /\ Loose("dispose", o, {}) \in Nat
      BY <2>2, OwnersIs, Finite
    <3>5. Disposers(o) = 0
      BY <2>1 DEF CountInv, ObjOK, LifeOK
    <3> HIDE DEF Loose, Disposers, Releasers
    <3> QED  BY <3>3, <3>4, <3>5
  <2>4. ASSUME NEW t \in Threads, pc[t].at = "check", NEW s, s = pc[t].s PROVE snap[t][s].o # o
    <3>1. s \in Snaps /\ Settled(t, s)
      BY <2>2, <2>4, ControlShape DEF TypeInv, Settled
    <3> QED  BY <2>1, <2>2, <3>1, SnapCounting
  <2> QED  BY <2>1, <2>2, <2>3, <2>4, OwnerCounting DEF BagToSet
<1>3. CountInv => \A t \in Threads : pc[t].at # "settle" => CallSafe(t)
  <2>1. SUFFICES ASSUME CountInv, NEW t \in Threads, pc[t].at # "settle", NEW o \in Objs, Held(t) = o
                 PROVE  life[o] # "freed"
    BY DEF CallSafe
  <2>2. TypeInv /\ pc[t] \in Controls /\ pc[t].o = o /\ pc[t].at \in {"release", "inc", "swap"}
    BY <2>1, NullAssumption DEF CountInv, TypeInv, Held
  <2>3. CASE pc[t].at = "release"
    BY <2>1, <2>2, <2>3, ReleaseFacts
  <2>4. CASE pc[t].at = "inc"
    <3>1. pc[t].k \in Kinds /\ Guard(t, pc[t].s) \in Incs(pc[t].k, o)
      BY <2>2, <2>4, ControlShape, IncsAre DEF In
    <3>2. ObjOK(o) /\ Shielded(o)
      BY <2>1, ShieldedLemma DEF CountInv
    <3> QED  BY <2>2, <3>1, <3>2, CountFacts DEF Counting, Alive
  <2>5. CASE pc[t].at = "swap"
    <3>1. Kind(pc[t].c) \in Kinds /\ In(pc[t], "swap", Kind(pc[t].c), o)
      BY <2>2, <2>5 DEF Kind, Kinds, In
    <3> QED  BY <2>1, <3>1, OwnerCounting DEF Counting, Alive
  <2> QED  BY <2>2, <2>3, <2>4, <2>5
<1> QED  BY <1>1, <1>2, <1>3, CountInvariant, PTL
-------------------------------------------------------------------------------
(* A decrementer that has still to settle a count. *)

\* Of these clients, the ones that under HP do not upgrade a Weak: an upgrade can
\* revive a counter between the subtraction that brought it to zero and the
\* compare_exchange, and under HP nothing keeps the object for the latter.
SettledClients == SafeClients /\ \A c \in Clients : c.scheme = "HP" => "upgrade" \notin c.calls

Settling(t, k, o) == In(pc[t], "settle", k, o)

\* It is the only one, and there is nobody who could free the object.  A strong
\* counter may be revived by an upgrade under EBR, but what decrements it again
\* waits for the critical section of the decrementer.
SettlingOK(t) == \A k \in Kinds, o \in Objs : Settling(t, k, o) =>
  /\ \A u \in Threads : Settling(u, k, o) => u = t
  /\ k = "weak" => life[o] = "disposed" /\ cnt["weak"][o] = 0
  /\ k = "strong" => /\ life[o] = "live" /\ flag["strong"][o] # "zero"
                     /\ Scheme = "EBR" => t \in cs /\ Loose("strong", o, {t}) = 0
                     /\ Scheme = "HP" => cnt["strong"][o] = 0

SettleInv == CountInv /\ \A t \in Threads : SettlingOK(t)

\* Nobody has a reference of kind k to o, nor can make one.
Gone(k, o) == /\ Owners(k, o) = 0 /\ Incs(k, o) = {}
              /\ k = "weak" => Shielders(o) = {} /\ life[o] = "disposed"
              /\ k = "strong" => Protectors("strong", o) = {}

LEMMA SettlingFacts ==
  ASSUME SettleInv, NEW t \in Threads, NEW k \in Kinds, NEW o \in Objs, Settling(t, k, o)
  PROVE  /\ Disposers(o) = 0 /\ life[o] = IF k = "weak" THEN "disposed" ELSE "live"
         /\ k = "weak" \/ Scheme = "HP" => Gone(k, o)
<1>1. TypeInv /\ ObjOK(o) /\ Shielded(o) /\ SettlingOK(t)
  BY ShieldedLemma DEF SettleInv, CountInv
<1>2. LifeOK(o) /\ ProtectedOK(o) /\ \A j \in Kinds : Balanced(j, o)
  BY <1>1 DEF ObjOK, Books
<1>3. CASE k = "weak"
  <2>1. life[o] = "disposed" /\ cnt["weak"][o] = 0
    BY <1>1, <1>3 DEF SettlingOK
  <2>2. Owners("weak", o) = 0 /\ Incs("weak", o) = {} /\ Shielders(o) = {}
    BY <1>1, <2>1, ZeroFacts
  <2>3. Disposers(o) = 0
    BY <1>2, <2>1 DEF LifeOK
  <2> QED  BY <1>3, <2>1, <2>2, <2>3 DEF Gone
<1>4. CASE k = "strong"
  <2>1. /\ life[o] = "live" /\ flag["strong"][o] # "zero"
        /\ Scheme = "HP" => cnt["strong"][o] = 0
    BY <1>1, <1>4 DEF SettlingOK
  <2>2. Disposers(o) = 0
    BY <1>2, <2>1 DEF LifeOK
  <2>3. Scheme = "HP" => Gone(k, o)
    <3>1. CASE Scheme = "HP" /\ Counting("strong", o)
      BY <1>1, <1>4, <2>1, <3>1, ZeroFacts DEF Gone
    <3>2. CASE ~Counting("strong", o)
      <4>1. Owners("strong", o) = 0 /\ Incs("strong", o) = {}
        BY <1>2, <1>4, <3>2 DEF Balanced
      <4>2. Protectors("strong", o) = {}
        BY <1>2, <3>2 DEF ProtectedOK, Counting, Alive
      <4> QED  BY <1>4, <4>1, <4>2 DEF Gone
    <3> QED  BY <3>1, <3>2
  <2> QED  BY <1>4, <2>1, <2>2, <2>3
<1> QED  BY <1>3, <1>4 DEF Kinds

\* What a step of a has to leave alone for the others.
Spared(k, o) == /\ life'[o] = life[o]
                /\ k = "weak" \/ Scheme = "HP" => cnt'[k][o] = cnt[k][o]
                /\ k = "strong" => flag'["strong"][o] # "zero"
Pinned(a) == /\ cs \ {a} \subseteq cs'
             /\ \A t \in Threads \ {a}, o \in Objs :
                  Scheme = "EBR" /\ t \in cs /\ Loose("strong", o, {t}) = 0
                    => Loose("strong", o, {t})' = 0

LEMMA OthersSettle ==
  ASSUME SettleInv, client' = client, NEW a \in Threads,
         \A u \in Threads \ {a} : pc'[u] = pc[u], Pinned(a),
         \A t \in Threads \ {a}, k \in Kinds, o \in Objs :
           Settling(t, k, o) => Spared(k, o) /\ ~In(pc'[a], "settle", k, o)
  PROVE  \A t \in Threads \ {a} : SettlingOK(t)'
<1>1. SUFFICES ASSUME NEW t \in Threads \ {a}, NEW k \in Kinds, NEW o \in Objs, Settling(t, k, o)'
               PROVE  /\ \A u \in Threads : Settling(u, k, o)' => u = t
                      /\ k = "weak" => life'[o] = "disposed" /\ cnt'["weak"][o] = 0
                      /\ k = "strong" => /\ life'[o] = "live" /\ flag'["strong"][o] # "zero"
                                         /\ Scheme' = "EBR" => t \in cs' /\ Loose("strong", o, {t})' = 0
                                         /\ Scheme' = "HP" => cnt'["strong"][o] = 0
  BY DEF SettlingOK
<1>2. Settling(t, k, o) /\ Scheme' = Scheme /\ SettlingOK(t)
  BY <1>1 DEF SettleInv, Settling, In, Scheme
<1>3. Spared(k, o) /\ ~Settling(a, k, o)'
  BY <1>2 DEF Settling, In
<1>4. \A u \in Threads : Settling(u, k, o)' => u = t
  <2>1. SUFFICES ASSUME NEW u \in Threads, Settling(u, k, o)' PROVE u = t
    OBVIOUS
  <2>2. u \in Threads \ {a}
    BY <1>3, <2>1
  <2>3. Settling(u, k, o)
    BY <2>1, <2>2 DEF Settling, In
  <2> QED  BY <1>2, <2>3 DEF SettlingOK
<1>5. k = "weak" => life'[o] = "disposed" /\ cnt'["weak"][o] = 0
  BY <1>2, <1>3 DEF SettlingOK, Spared
<1>6. k = "strong" => life'[o] = "live" /\ flag'["strong"][o] # "zero"
  BY <1>2, <1>3 DEF SettlingOK, Spared
<1>7. k = "strong" /\ Scheme = "EBR" => t \in cs' /\ Loose("strong", o, {t})' = 0
  <2>1. SUFFICES ASSUME k = "strong", Scheme = "EBR" PROVE t \in cs' /\ Loose("strong", o, {t})' = 0
    OBVIOUS
  <2>2. t \in cs /\ Loose("strong", o, {t}) = 0
    BY <1>2, <2>1 DEF SettlingOK
  <2> QED  BY <2>1, <2>2 DEF Pinned
<1>8. k = "strong" /\ Scheme = "HP" => cnt'["strong"][o] = 0
  BY <1>2, <1>3 DEF SettlingOK, Spared
<1> QED  BY <1>2, <1>4, <1>5, <1>6, <1>7, <1>8

\* A step after which its thread does not settle.
LEMMA AwayStep ==
  ASSUME SettleInv, CountInv', client' = client, NEW a \in Threads,
         \A u \in Threads \ {a} : pc'[u] = pc[u], Pinned(a), pc'[a].at # "settle",
         \A t \in Threads \ {a}, k \in Kinds, o \in Objs : Settling(t, k, o) => Spared(k, o)
  PROVE  SettleInv'
<1>1. \A k, o : ~In(pc'[a], "settle", k, o) /\ ~Settling(a, k, o)'
  BY DEF In, Settling
<1>2. SettlingOK(a)'
  BY <1>1 DEF SettlingOK
<1>3. \A t \in Threads \ {a} : SettlingOK(t)'
  BY <1>1, OthersSettle
<1> QED  BY <1>2, <1>3 DEF SettleInv

\* A step that leaves the objects alone.
LEMMA HeapStep ==
  ASSUME SettleInv, CountInv', client' = client, NEW a \in Threads, UNCHANGED heap,
         \A u \in Threads \ {a} : pc'[u] = pc[u], Pinned(a), pc'[a].at # "settle"
  PROVE  SettleInv'
<1>1. ASSUME NEW t \in Threads \ {a}, NEW k \in Kinds, NEW o \in Objs, Settling(t, k, o)
      PROVE  Spared(k, o)
  BY <1>1 DEF SettleInv, SettlingOK, Spared, heap
<1> QED  BY <1>1, AwayStep

\* What is retired in a critical section waits for those that are in one.
LEMMA RetiredPinned ==
  ASSUME TypeInv, NEW a \in Threads, cs \ {a} \subseteq cs',
         NEW B, GoodBag(B), \A k, o, V : CountIn(B, k, o, V) <= Loose(k, o, V),
         NEW x \in Ptr, NEW w \in Work, Retiring(B, x, w)
  PROVE  Pinned(a)
<1>1. SUFFICES ASSUME NEW t \in Threads \ {a}, NEW o \in Objs, Scheme = "EBR", t \in cs,
                      Loose("strong", o, {t}) = 0
               PROVE  Loose("strong", o, {t})' = 0
  BY DEF Pinned
<1>2. Loose("strong", o, {t})' = CountIn(B, "strong", o, {t}) + One(o = x /\ "strong" = w /\ Witnesses \cap {t} = {})
  BY RetiringCount
<1>3. One(o = x /\ "strong" = w /\ Witnesses \cap {t} = {}) = 0
  BY <1>1 DEF Witnesses, One
<1>4. CountIn(B, "strong", o, {t}) \in Nat /\ CountIn(B, "strong", o, {t}) <= Loose("strong", o, {t})
  BY LooseFinite
<1> HIDE DEF Loose
<1> QED  BY <1>1, <1>2, <1>3, <1>4

LEMMA SamePinned ==
  ASSUME NEW a \in Threads, cs \ {a} \subseteq cs', retired' = retired PROVE Pinned(a)
BY DEF Pinned, Loose

LEMMA QuietSettle ==
  ASSUME SettleInv, CountInv', client' = client, NEW a \in Threads, retired' = retired, UNCHANGED heap,
         cs \subseteq cs', NEW p, Goto(a, p), p.at # "settle"
  PROVE  SettleInv'
<1>1. pc'[a] = p /\ \A u \in Threads \ {a} : pc'[u] = pc[u]
  BY DEF Goto, SettleInv, CountInv, TypeInv
<1>2. Pinned(a)
  BY SamePinned
<1> QED  BY <1>1, <1>2, HeapStep

\* A step of a free thread that changes nothing but its variables.
LEMMA IdleSettle ==
  ASSUME SettleInv, CountInv', client' = client, NEW a \in Threads, UNCHANGED heap,
         pc' = pc, Free(a), Pinned(a)
  PROVE  SettleInv'
BY HeapStep DEF Free, Idle

LEMMA LeavingSettle ==
  ASSUME SettleInv, CountInv', client' = client, NEW a \in Threads, Enter(a) \/ Leaving(a)
  PROVE  SettleInv'
<1>1. CASE Exit(a)
  <2>1. GoodBag(retired) /\ retired' = Forget(a, retired)
    BY <1>1 DEF Exit, SettleInv, CountInv, TypeInv
  <2>2. \A t \in Threads \ {a} : \A o : Loose("strong", o, {t})' = Loose("strong", o, {t})
    BY <2>1, ForgetCount DEF Guards, Loose
  <2>3. cs' = cs \ {a}
    BY <1>1 DEF Exit
  <2>4. Pinned(a)
    BY <2>2, <2>3 DEF Pinned
  <2> QED  BY <1>1, <2>4, IdleSettle DEF Exit
<1>2. CASE Enter(a)
  BY <1>2, SamePinned, IdleSettle DEF Enter
<1>3. ASSUME NEW s \in Snaps, Clear(a, s) PROVE SettleInv'
  BY <1>3, SamePinned, IdleSettle DEF Clear
<1> QED  BY <1>1, <1>2, <1>3 DEF Leaving

LEMMA ScanSettle ==
  ASSUME SettleInv, CountInv', client' = client, NEW e, NEW u, NEW s, Scan(e, u, s)
  PROVE  SettleInv'
<1>1. Scheme = "HP" /\ Scheme' = Scheme /\ UNCHANGED heap /\ pc' = pc
  BY DEF Scan, Scheme
<1>2. \A t \in Threads : SettlingOK(t)'
  <2>1. SUFFICES ASSUME NEW t \in Threads, SettlingOK(t) PROVE SettlingOK(t)'
    BY DEF SettleInv
  <2> QED  BY <1>1, <2>1 DEF SettlingOK, Settling, In, heap
<1> QED  BY <1>2 DEF SettleInv

LEMMA RetireSettle ==
  ASSUME SettleInv, CountInv', client' = client, NEW a \in Threads, UNCHANGED <<heap, cs>>,
         NEW x \in Ptr, NEW k \in Kinds, Retire(x, k),
         \A u \in Threads \ {a} : pc'[u] = pc[u], pc'[a].at # "settle"
  PROVE  SettleInv'
<1>1. TypeInv /\ GoodBag(retired) /\ Retiring(retired, x, k) /\ k \in Work
  BY DEF SettleInv, CountInv, TypeInv, Retire, Retiring, Work
<1>2. \A j, o, V : CountIn(retired, j, o, V) <= Loose(j, o, V)
  BY <1>1, LooseFinite DEF Loose
<1>3. Pinned(a)
  BY <1>1, <1>2, RetiredPinned
<1> QED  BY <1>3, HeapStep

LEMMA MovingSettle ==
  ASSUME SettleInv, CountInv', client' = client, NEW a \in Threads,
         \/ \E k \in Kinds : Drop(a, k)
         \/ \E c \in Cells : Store(a, c) \/ Swap(a, c)
         \/ StoreSwap(a)
  PROVE  SettleInv'
<1>1. TypeInv /\ \A c : Kind(c) \in Kinds
  BY DEF SettleInv, CountInv, Kind, Kinds
<1>2. ASSUME NEW k \in Kinds, Drop(a, k) PROVE SettleInv'
  <2>1. own[k][a] \in Ptr /\ Retire(own[k][a], k) /\ UNCHANGED <<heap, cs, pc>> /\ pc[a] = Idle
    BY <1>1, <1>2 DEF Drop, TypeInv, May, Free
  <2> QED  BY <2>1, RetireSettle DEF Idle
<1>3. ASSUME NEW c \in Cells, Store(a, c) PROVE SettleInv'
  <2>1. cell[c] \in Ptr /\ Retire(cell[c], Kind(c)) /\ UNCHANGED <<heap, cs, pc>> /\ pc[a] = Idle
    BY <1>1, <1>3 DEF Store, TypeInv, May, Free
  <2> QED  BY <1>1, <2>1, RetireSettle DEF Idle
<1>4. ASSUME NEW c \in Cells, Swap(a, c) PROVE SettleInv'
  BY <1>4, SamePinned, IdleSettle DEF Swap, May
<1>5. CASE StoreSwap(a)
  <2>1. pc[a] \in Controls /\ pc[a].at = "swap" /\ Retire(cell[pc[a].c], Kind(pc[a].c))
        /\ UNCHANGED <<heap, cs>> /\ Goto(a, Idle)
    BY <1>1, <1>5 DEF StoreSwap, TypeInv
  <2>2. cell[pc[a].c] \in Ptr
    BY <1>1, <2>1, ControlShape DEF TypeInv
  <2>3. pc'[a] = Idle /\ \A u \in Threads \ {a} : pc'[u] = pc[u]
    BY <1>1, <2>1 DEF Goto, TypeInv
  <2> QED  BY <1>1, <2>1, <2>2, <2>3, RetireSettle DEF Idle
<1> QED  BY <1>2, <1>3, <1>4, <1>5

LEMMA ReadSettle ==
  ASSUME SettleInv, CountInv', client' = client, NEW a \in Threads, UNCHANGED <<heap, cs, retired>>,
         NEW s, NEW c, NEW want, ReadLink(a, s, c, want)
  PROVE  SettleInv'
BY QuietSettle DEF ReadLink

LEMMA ReadingSettle ==
  ASSUME SettleInv, CountInv', client' = client, NEW a \in Threads,
         Reading(a) \/ Publish(a) \/ Validate(a) \/ CasSwap(a)
  PROVE  SettleInv'
<1>1. ASSUME NEW s, NEW c, Load(a, s, c) PROVE SettleInv'
  BY <1>1, ReadSettle DEF Load
<1>2. ASSUME NEW s, NEW k, Protect(a, s, k) PROVE SettleInv'
  BY <1>2, QuietSettle DEF Protect, Idle
<1>3. CASE Publish(a)
  BY <1>3, QuietSettle DEF Publish
<1>4. CASE Validate(a)
  <2>1. CASE ReadLink(a, pc[a].s, pc[a].c, pc[a].want)
    BY <1>4, <2>1, ReadSettle DEF Validate
  <2>2. CASE Goto(a, [pc[a] EXCEPT !.at = "check"])
    <3>1. [pc[a] EXCEPT !.at = "check"].at # "settle"
      <4>1. pc[a] \in Controls /\ pc[a].at = "validate"
        BY <1>4 DEF Validate, SettleInv, CountInv, TypeInv
      <4> QED  BY <4>1 DEF Controls, Idle
    <3> QED  BY <1>4, <2>2, <3>1, QuietSettle DEF Validate
  <2> QED  BY <1>4, <2>1, <2>2 DEF Validate
<1>5. CASE CasSwap(a)
  <2>1. CASE ReadLink(a, pc[a].s, pc[a].c, pc[a].want)
    BY <1>5, <2>1, ReadSettle DEF CasSwap
  <2>2. CASE Goto(a, Idle)
    BY <1>5, <2>2, QuietSettle DEF CasSwap, Idle
  <2> QED  BY <1>5, <2>1, <2>2 DEF CasSwap
<1> QED  BY <1>1, <1>2, <1>3, <1>4, <1>5 DEF Reading

LEMMA CasSnapSettle ==
  ASSUME SettleInv, CountInv', client' = client, NEW a \in Threads, NEW s, NEW c, CasSnap(a, s, c)
  PROVE  SettleInv'
BY QuietSettle DEF CasSnap

LEMMA CheckSettle ==
  ASSUME SettleInv, CountInv', client' = client, NEW a \in Threads, Check(a)
  PROVE  SettleInv'
<1>1. TypeInv /\ pc[a] \in Controls /\ pc[a].at = "check"
  BY DEF SettleInv, CountInv, TypeInv, Check
<1>2. /\ \A u \in Threads \ {a} : pc'[u] = pc[u]
      /\ pc'[a] = Idle \/ \E w : pc'[a] = [pc[a] EXCEPT !.at = "cas", !.want = w]
  BY <1>1 DEF Check, CasProtecting, Goto, TypeInv
<1>3. pc'[a].at # "settle"
  <2>1. CASE pc'[a] = Idle
    BY <2>1 DEF Idle
  <2>2. ASSUME NEW w, pc'[a] = [pc[a] EXCEPT !.at = "cas", !.want = w] PROVE pc'[a].at # "settle"
    BY <1>1, <2>2 DEF Controls, Idle
  <2> QED  BY <1>2, <2>1, <2>2
<1>4. Pinned(a)
  BY SamePinned DEF Check
<1>5. UNCHANGED <<life, cnt>> /\ \A o \in Objs : flag'["strong"][o] = flag["strong"][o] \/ flag'["strong"][o] = "pending"
  <2>1. CASE flag' = flag
    BY <2>1 DEF Check
  <2>2. CASE flag' # flag
    <3>1. PICK q : flag' = [flag EXCEPT !["strong"][q] = "pending"]
      BY <2>2 DEF Check, Observe
    <3> QED  BY <1>1, <3>1 DEF Check, TypeInv, Kinds
  <2> QED  BY <2>1, <2>2
<1>6. ASSUME NEW t \in Threads \ {a}, NEW k \in Kinds, NEW o \in Objs, Settling(t, k, o)
      PROVE  Spared(k, o)
  <2>1. k = "strong" => flag["strong"][o] # "zero"
    BY <1>6 DEF SettleInv, SettlingOK
  <2> QED  BY <1>5, <2>1 DEF Spared
<1> QED  BY <1>2, <1>3, <1>4, <1>6, AwayStep

\* A new reference to q: where a decrementer has still to settle, nobody can make
\* one, but for the upgrade of a strong count under EBR.
LEMMA CountSettle ==
  ASSUME SettleInv, CountInv', client' = client, NEW a \in Threads, UNCHANGED <<life, flag, cs, retired>>,
         \A u \in Threads \ {a} : pc'[u] = pc[u], pc'[a].at # "settle",
         NEW k \in Kinds, NEW q \in Objs, Inc(k, q),
         \/ Owners(k, q) > 0
         \/ Incs(k, q) # {}
         \/ Shielders(q) # {} /\ (k = "strong" => Protectors("strong", q) # {})
         \/ k = "weak" /\ life[q] = "live"
         \/ k = "strong" /\ Scheme # "HP"
  PROVE  SettleInv'
<1>1. TypeInv /\ \A j \in Kinds, o \in Objs : j # k \/ o # q => cnt'[j][o] = cnt[j][o]
  BY DEF SettleInv, CountInv, TypeInv, Inc
<1>2. ASSUME NEW t \in Threads \ {a}, NEW j \in Kinds, NEW o \in Objs, Settling(t, j, o)
      PROVE  Spared(j, o)
  <2>1. life'[o] = life[o] /\ (j = "strong" => flag'["strong"][o] # "zero")
    <3>1. SettlingOK(t)
      BY <1>2 DEF SettleInv
    <3> QED  BY <1>2, <3>1 DEF SettlingOK
  <2>2. ASSUME j = "weak" \/ Scheme = "HP" PROVE j # k \/ o # q
    <3>1. Gone(j, o) /\ (j = "weak" => life[o] = "disposed")
      BY <1>2, <2>2, SettlingFacts
    <3>2. Owners(j, o) = 0 /\ Incs(j, o) = {}
          /\ (j = "weak" => Shielders(o) = {}) /\ (j = "strong" => Protectors("strong", o) = {})
      BY <3>1 DEF Gone
    <3> HIDE DEF Owners, Incs, Shielders, Protectors
    <3> QED  BY <2>2, <3>1, <3>2 DEF Kinds
  <2> QED  BY <1>1, <2>1, <2>2 DEF Spared
<1>3. Pinned(a)
  BY SamePinned
<1> QED  BY <1>2, <1>3, AwayStep

LEMMA TakeSettle ==
  ASSUME SettleInv, CountInv', client' = client, NEW a \in Threads, Free(a),
         NEW k \in Kinds, NEW q \in Objs, Take(a, k, q),
         \/ Owners(k, q) > 0
         \/ Shielders(q) # {} /\ (k = "strong" => Protectors("strong", q) # {})
         \/ k = "weak" /\ life[q] = "live"
         \/ k = "strong" /\ Scheme # "HP"
  PROVE  SettleInv'
<1>1. pc' = pc /\ pc[a].at # "settle" /\ UNCHANGED <<life, flag, cs, retired>> /\ Inc(k, q)
  BY DEF Take, Free, Idle
<1> QED  BY <1>1, CountSettle

LEMMA OwningSettle ==
  ASSUME SettleInv, SettledClients, CountInv', client' = client, NEW a \in Threads, Owning(a)
  PROVE  SettleInv'
<1>1. TypeInv /\ CountInv /\ SafeClients /\ "strong" \in Kinds /\ "weak" \in Kinds
  BY DEF SettleInv, CountInv, SettledClients, Kinds
<1>2. ASSUME NEW k \in Kinds, NEW u \in Threads, Clone(a, u, k) PROVE SettleInv'
  <2>1. own[k][u] \in Objs /\ Free(a) /\ Take(a, k, own[k][u])
    BY <1>1, <1>2 DEF Clone, Take, May, TypeInv, Ptr
  <2>2. Owners(k, own[k][u]) > Loose(k, own[k][u], {}) /\ Loose(k, own[k][u], {}) \in Nat
        /\ Owners(k, own[k][u]) \in Nat
    BY <1>1, <2>1, OwnerCounts, OwnersIs, Finite
  <2>3. Owners(k, own[k][u]) > 0
    <3> HIDE DEF Owners, Loose
    <3> QED  BY <2>2
  <2> QED  BY <2>1, <2>3, TakeSettle
<1>3. ASSUME NEW s \in Snaps, FromSnapshot(a, s) PROVE SettleInv'
  <2>1. /\ Free(a) /\ Promotable(snap[a][s]) /\ Take(a, "strong", snap[a][s].o)
        /\ snap[a][s].o # Null
    BY <1>3 DEF FromSnapshot, May, Take
  <2>2. /\ snap[a][s].o \in Objs /\ Shielders(snap[a][s].o) # {}
        /\ Protectors("strong", snap[a][s].o) # {}
    BY <1>1, <2>1, StoredCounting DEF Free
  <2> QED  BY <1>1, <2>1, <2>2, TakeSettle
<1>4. CASE FromStrong(a)
  <2>1. PICK o \in {own["strong"][a]} \cup Shields(a) : Take(a, "weak", o)
    BY <1>4 DEF FromStrong
  <2>2. Free(a) /\ o # Null
    BY <1>4, <2>1 DEF FromStrong, May, Take
  <2>3. CASE o = own["strong"][a]
    <3>1. o \in Objs
      BY <1>1, <2>2, <2>3 DEF TypeInv, Ptr
    <3>2. life[o] = "live"
      BY <1>1, <2>3, <3>1, OwnerCounting
    <3> QED  BY <1>1, <2>1, <2>2, <3>1, <3>2, TakeSettle
  <2>4. CASE o \in Shields(a)
    <3>1. PICK s \in Snaps : snap[a][s].o = o
      BY <2>4 DEF Shields
    <3>2. o \in Objs /\ Settled(a, s)
      BY <1>1, <2>2, <3>1 DEF TypeInv, Ptr, Settled, Free, Idle
    <3>3. Shielders(o) # {}
      BY <1>1, <3>1, <3>2, SnapCounting
    <3> QED  BY <1>1, <2>1, <2>2, <3>2, <3>3, TakeSettle
  <2> QED  BY <2>1, <2>3, <2>4
<1>5. CASE Upgrade(a)
  <2>1. Free(a) /\ "upgrade" \in Calls /\ Take(a, "strong", own["weak"][a]) /\ own["weak"][a] # Null
    BY <1>5 DEF Upgrade, May
  <2>2. Scheme # "HP"
    BY <1>1, <2>1 DEF SettledClients, TypeInv, Calls, Scheme
  <2>3. own["weak"][a] \in Objs
    BY <1>1, <2>1 DEF TypeInv, Ptr
  <2> QED  BY <1>1, <2>1, <2>2, <2>3, TakeSettle
<1>6. ASSUME NEW q \in Objs, New(a, q) PROVE SettleInv'
  <2>1. /\ life[q] = "none" /\ pc' = pc /\ pc[a] = Idle /\ UNCHANGED <<flag, cs, retired>>
        /\ SetLife(q, "live") /\ cnt' = [k \in Kinds |-> [cnt[k] EXCEPT ![q] = 1]]
    BY <1>6 DEF New, May, Free
  <2>2. \A o \in Objs \ {q} : life'[o] = life[o] /\ \A k \in Kinds : cnt'[k][o] = cnt[k][o]
    BY <1>1, <2>1 DEF SetLife, TypeInv
  <2>3. ASSUME NEW t \in Threads \ {a}, NEW k \in Kinds, NEW o \in Objs, Settling(t, k, o)
        PROVE  Spared(k, o)
    <3>1. o # q
      BY <2>1, <2>3, SettlingFacts
    <3>2. k = "strong" => flag["strong"][o] # "zero"
      BY <2>3 DEF SettleInv, SettlingOK
    <3> QED  BY <2>1, <2>2, <3>1, <3>2 DEF Spared
  <2>4. Pinned(a) /\ pc'[a].at # "settle"
    BY <2>1, SamePinned DEF Idle
  <2> QED  BY <2>1, <2>3, <2>4, AwayStep
<1>7. ASSUME NEW k \in Kinds, Drop(a, k) PROVE SettleInv'
  BY <1>7, MovingSettle
<1> QED  BY <1>2, <1>3, <1>4, <1>5, <1>6, <1>7 DEF Owning

LEMMA UpdatingSettle ==
  ASSUME SettleInv, SettledClients, CountInv', client' = client, NEW a \in Threads,
         Updating(a) \/ CasInc(a)
  PROVE  SettleInv'
<1>1. TypeInv /\ CountInv /\ SafeClients /\ \A c : Kind(c) \in Kinds
  BY DEF SettleInv, CountInv, SettledClients, Kind, Kinds
<1>2. ASSUME NEW c \in Cells, Store(a, c) \/ Swap(a, c) PROVE SettleInv'
  BY <1>2, MovingSettle
<1>3. ASSUME NEW s \in Snaps, NEW c \in Cells, CasSnap(a, s, c) PROVE SettleInv'
  BY <1>3, CasSnapSettle
<1>4. ASSUME NEW s \in Snaps, NEW c \in Cells, StoreSnap(a, s, c) PROVE SettleInv'
  <2>1. /\ snap[a][s].o # Null /\ pc[a] = Idle /\ (Kind(c) = "strong" => Promotable(snap[a][s]))
        /\ UNCHANGED <<life, flag, cs, retired>> /\ Inc(Kind(c), snap[a][s].o)
        /\ Goto(a, [at |-> "swap", c |-> c, o |-> snap[a][s].o])
    BY <1>4 DEF StoreSnap, May, Free
  <2>2. /\ snap[a][s].o \in Objs /\ Shielders(snap[a][s].o) # {}
        /\ Kind(c) = "strong" => Protectors("strong", snap[a][s].o) # {}
    BY <1>1, <2>1, StoredCounting
  <2>3. pc'[a].at # "settle" /\ \A u \in Threads \ {a} : pc'[u] = pc[u]
    BY <1>1, <2>1 DEF Goto, TypeInv
  <2> QED  BY <1>1, <2>1, <2>2, <2>3, CountSettle
<1>5. CASE CasInc(a)
  <2>1. /\ pc[a].at = "inc" /\ pc[a] \in Controls /\ Goto(a, Idle)
        /\ UNCHANGED <<life, flag, cs, retired>> /\ Inc(pc[a].k, pc[a].o)
    BY <1>1, <1>5 DEF CasInc, TypeInv
  <2>2. pc[a].k \in Kinds /\ pc[a].o \in Objs
    BY <2>1, ControlShape
  <2>3. Incs(pc[a].k, pc[a].o) # {}
    BY <1>1, <2>1, IncsAre DEF In
  <2>4. pc'[a].at # "settle" /\ \A u \in Threads \ {a} : pc'[u] = pc[u]
    BY <1>1, <2>1 DEF Goto, TypeInv, Idle
  <2> QED  BY <2>1, <2>2, <2>3, <2>4, CountSettle
<1> QED  BY <1>2, <1>3, <1>4, <1>5 DEF Updating

\* A value is dropped, by its last strong decrement or by a disposal.
LEMMA ValueSettle ==
  ASSUME SettleInv, CountInv', client' = client, NEW a \in Threads, UNCHANGED <<flag, cs>>,
         \A u \in Threads \ {a} : pc'[u] = pc[u],
         NEW q \in Objs, life[q] = "live", flag["strong"][q] = "zero",
         NEW B, GoodBag(B), \A k, o, V : CountIn(B, k, o, V) <= Loose(k, o, V),
         Retiring(B, FieldOf(q), "strong"),
         \A o \in Objs \ {q} : life'[o] = life[o],
         \A k \in Kinds, o \in Objs : k # "weak" \/ o # q => cnt'[k][o] = cnt[k][o],
         \/ pc'[a].at # "settle"
         \/ /\ pc'[a] = [at |-> "settle", k |-> "weak", o |-> q]
            /\ life'[q] = "disposed" /\ cnt'["weak"][q] = 0
  PROVE  SettleInv'
<1>1. TypeInv /\ FieldOf(q) \in Ptr /\ "strong" \in Work
  BY NodeField DEF SettleInv, CountInv, Work, Kinds
<1>2. Pinned(a)
  <2> HIDE DEF FieldOf
  <2> QED  BY <1>1, RetiredPinned
<1>3. ASSUME NEW t \in Threads \ {a}, NEW k \in Kinds, NEW o \in Objs, Settling(t, k, o)
      PROVE  o # q /\ Spared(k, o)
  <2>1. /\ k = "weak" => life[o] = "disposed"
        /\ k = "strong" => flag["strong"][o] # "zero"
    <3>1. SettlingOK(t)
      BY <1>3 DEF SettleInv
    <3> QED  BY <1>3, <3>1 DEF SettlingOK
  <2>2. o # q
    BY <2>1 DEF Kinds
  <2> QED  BY <2>1, <2>2 DEF Spared
<1>4. CASE pc'[a].at # "settle"
  BY <1>2, <1>3, <1>4, AwayStep
<1>5. CASE /\ pc'[a] = [at |-> "settle", k |-> "weak", o |-> q]
           /\ life'[q] = "disposed" /\ cnt'["weak"][q] = 0
  <2>1. \A k, o : In(pc'[a], "settle", k, o) <=> k = "weak" /\ o = q
    BY <1>5 DEF In
  <2>2. \A t \in Threads \ {a} : SettlingOK(t)'
    BY <1>2, <1>3, <2>1, OthersSettle
  <2>3. \A u \in Threads : Settling(u, "weak", q)' => u = a
    <3>1. SUFFICES ASSUME NEW u \in Threads \ {a}, Settling(u, "weak", q)' PROVE FALSE
      OBVIOUS
    <3>2. Settling(u, "weak", q)
      BY <3>1 DEF Settling, In
    <3> QED  BY <1>3, <3>2 DEF Kinds
  <2>4. SettlingOK(a)'
    BY <1>5, <2>1, <2>3 DEF SettlingOK, Settling
  <2> QED  BY <2>2, <2>4 DEF SettleInv
<1> QED  BY <1>4, <1>5

LEMMA DisposeSettle ==
  ASSUME SettleInv, CountInv', client' = client, NEW a \in Threads,
         NEW q \in Objs, life[q] = "live", flag["strong"][q] = "zero", Counting("weak", q),
         NEW B, GoodBag(B), \A k, o, V : CountIn(B, k, o, V) <= Loose(k, o, V), Dispose(a, q, B)
  PROVE  SettleInv'
<1>1. TypeInv /\ CanInc("weak", q) /\ "weak" \in Kinds
  BY DEF SettleInv, CountInv, Counting, CanInc, Kinds
<1>2. /\ life'[q] = "disposed" /\ \A o \in Objs \ {q} : life'[o] = life[o]
      /\ cnt' = [cnt EXCEPT !["weak"][q] = @ - 1] /\ UNCHANGED <<flag, cs>>
      /\ pc'[a] = IF cnt["weak"][q] = 1 THEN [at |-> "settle", k |-> "weak", o |-> q] ELSE Idle
      /\ \A u \in Threads \ {a} : pc'[u] = pc[u]
  BY <1>1 DEF Dispose, SetLife, Dec, Drained, Goto, TypeInv
<1>3. /\ cnt'["weak"][q] = cnt["weak"][q] - 1
      /\ \A k \in Kinds, o \in Objs : k # "weak" \/ o # q => cnt'[k][o] = cnt[k][o]
  BY <1>1, <1>2 DEF TypeInv
<1>4. Retiring(B, FieldOf(q), "strong")
  BY DEF Dispose, Retiring
<1>5. \/ pc'[a].at # "settle"
      \/ /\ pc'[a] = [at |-> "settle", k |-> "weak", o |-> q]
         /\ life'[q] = "disposed" /\ cnt'["weak"][q] = 0
  BY <1>2, <1>3 DEF Idle
<1> QED  BY <1>2, <1>3, <1>4, <1>5, ValueSettle

LEMMA ReleaseSettle ==
  ASSUME SettleInv, CountInv', client' = client, NEW a \in Threads, ReleaseLast(a) \/ ReleaseDelay(a)
  PROVE  SettleInv'
<1>0. PICK q : q = pc[a].o
  OBVIOUS
<1>1. TypeInv /\ CountInv /\ GoodBag(retired) /\ pc[a].at = "release" /\ Scheme \in {"EBR", "HP"}
  BY ClientAssumption DEF SettleInv, CountInv, TypeInv, ReleaseLast, ReleaseDelay, Scheme
<1>2. q \in Objs /\ life[q] = "live" /\ flag["strong"][q] = "zero" /\ Counting("weak", q)
  BY <1>0, <1>1, ReleaseFacts
<1>3. \A k, o, V : CountIn(retired, k, o, V) <= Loose(k, o, V)
  BY <1>1, LooseFinite DEF Loose
<1>4. CASE ReleaseLast(a)
  <2>1. /\ SetLife(q, "freed") /\ Retire(FieldOf(q), "strong") /\ Goto(a, Idle) /\ UNCHANGED <<cnt, flag, cs>>
    BY <1>0, <1>4 DEF ReleaseLast
  <2>2. /\ \A o \in Objs \ {q} : life'[o] = life[o]
        /\ pc'[a].at # "settle" /\ \A u \in Threads \ {a} : pc'[u] = pc[u]
        /\ Retiring(retired, FieldOf(q), "strong")
    BY <1>1, <2>1 DEF SetLife, Goto, Idle, TypeInv, Retire, Retiring
  <2> QED  BY <1>1, <1>2, <1>3, <2>1, <2>2, ValueSettle
<1>5. CASE ReleaseDelay(a) /\ Scheme = "HP"
  <2>1. Retire(q, "dispose") /\ Goto(a, Idle) /\ UNCHANGED <<heap, cs>>
    BY <1>0, <1>5 DEF ReleaseDelay
  <2>2. pc'[a].at # "settle" /\ \A u \in Threads \ {a} : pc'[u] = pc[u]
    BY <1>1, <2>1 DEF Goto, Idle, TypeInv
  <2>3. Retiring(retired, q, "dispose") /\ "dispose" \in Work /\ q \in Ptr
    BY <1>2, <2>1 DEF Retire, Retiring, Work, Ptr
  <2>4. Pinned(a)
    BY <1>1, <1>3, <2>1, <2>3, RetiredPinned
  <2> QED  BY <2>1, <2>2, <2>4, HeapStep
<1>6. CASE ReleaseDelay(a) /\ Scheme = "EBR"
  <2>1. Dispose(a, q, retired)
    BY <1>0, <1>6 DEF ReleaseDelay
  <2> QED  BY <1>1, <1>2, <1>3, <2>1, DisposeSettle
<1> QED  BY <1>1, <1>4, <1>5, <1>6

LEMMA SettleSettle ==
  ASSUME SettleInv, CountInv', client' = client, NEW a \in Threads, Settle(a)
  PROVE  SettleInv'
<1>0. PICK k, q : k = pc[a].k /\ q = pc[a].o
  OBVIOUS
<1>1. TypeInv /\ pc[a] \in Controls /\ pc[a].at = "settle"
  BY DEF SettleInv, CountInv, TypeInv, Settle
<1>2. k \in Kinds /\ q \in Objs /\ Settling(a, k, q)
  BY <1>0, <1>1, ControlShape DEF Settling, In
<1>3. /\ flag' = flag \/ flag' = [flag EXCEPT ![k][q] = "zero"]
      /\ life' = life \/ life' = [life EXCEPT ![q] = "freed"]
      /\ UNCHANGED <<cnt, cs, retired>>
      /\ Goto(a, [at |-> "release", o |-> q]) \/ Goto(a, Idle)
  BY <1>0 DEF Settle, SetLife
<1>4. pc'[a].at # "settle" /\ \A u \in Threads \ {a} : pc'[u] = pc[u]
  BY <1>1, <1>3 DEF Goto, Idle, TypeInv
<1>5. ASSUME NEW t \in Threads \ {a}, NEW j \in Kinds, NEW o \in Objs, Settling(t, j, o)
      PROVE  Spared(j, o)
  <2>1. j # k \/ o # q
    BY <1>2, <1>5 DEF SettleInv, SettlingOK
  <2>2. o # q
    <3>1. life[o] = (IF j = "weak" THEN "disposed" ELSE "live")
      BY <1>5, SettlingFacts
    <3>2. life[q] = (IF k = "weak" THEN "disposed" ELSE "live")
      BY <1>2, SettlingFacts
    <3> QED  BY <1>2, <2>1, <3>1, <3>2 DEF Kinds
  <2>3. life'[o] = life[o] /\ flag'["strong"][o] = flag["strong"][o]
    BY <1>1, <1>2, <1>3, <2>2 DEF TypeInv, Kinds
  <2>4. j = "strong" => flag["strong"][o] # "zero"
    BY <1>5 DEF SettleInv, SettlingOK
  <2> QED  BY <1>3, <2>3, <2>4 DEF Spared
<1>6. Pinned(a)
  BY <1>3, SamePinned
<1> QED  BY <1>4, <1>5, <1>6, AwayStep

\* The count that an ejected entry of kind k brings from one to zero: under EBR
\* no other entry could do so before the decrementer leaves.
LEMMA DrainFacts ==
  ASSUME CountInv, NEW a \in Threads, Free(a), NEW k \in Kinds, NEW q \in Objs,
         NEW e \in DOMAIN retired, e.o = q, e.k = k, e.wait = {}, cnt[k][q] = 1, Counting(k, q)
  PROVE  /\ k = "weak" => life[q] = "disposed"
         /\ k = "strong" => life[q] = "live" /\ Loose("strong", q, {a}) = 1
<1>1. TypeInv /\ GoodBag(retired) /\ ObjOK(q) /\ Shielded(q) /\ Balanced(k, q) /\ Covered(k, q)
  BY ShieldedLemma DEF CountInv, TypeInv, ObjOK, Books
<1>2. \A V : Loose(k, q, V) >= 1 /\ Loose(k, q, V) \in Nat
  <2>1. \A V : Matches(e, k, q, V)
    BY DEF Matches
  <2> QED  BY <1>1, <2>1, LooseOne, LooseFinite DEF Loose
<1>3. /\ cnt[k][q] >= Loose(k, q, Guards) + Bonus(k, q, Guards) + Extra(k, q)
      /\ Extra(k, q) \in {0, 1} /\ Bonus(k, q, Guards) \in {0, 1}
  BY <1>1, LeastLemma, BonusType DEF LeastFacts
<1>4. Extra(k, q) = 0 /\ Bonus(k, q, Guards) = 0
  <2> HIDE DEF Loose, Extra, Bonus
  <2> QED  BY <1>2, <1>3
<1>5. CASE k = "weak"
  BY <1>4, <1>5 DEF Extra, Counting, Alive
<1>6. CASE k = "strong"
  <2>1. life[q] = "live"
    BY <1>1, <1>6, CountFacts
  <2>2. Incs("strong", q) = {}
    <3>1. Incs("strong", q) \subseteq Guards \cap Protectors("strong", q)
      BY <1>1, UsersGuards DEF Shielded
    <3> QED  BY <1>4, <1>6, <3>1 DEF Bonus
  <2>3. Cardinality(Incs("strong", q)) = 0 /\ Cardinality(Incs("strong", q) \cap {a}) = 0
    BY <2>2, FS_EmptySet
  <2>4. Owners("strong", q) = 1
    <3>1. cnt["strong"][q] + Cardinality(Incs("strong", q)) = Owners("strong", q) + Extra("strong", q)
      BY <1>1, <1>6 DEF Balanced
    <3>2. Owners("strong", q) \in Nat
      BY <1>1, <1>6, OwnersIs
    <3> HIDE DEF Owners, Extra
    <3> QED  BY <1>4, <1>6, <2>3, <3>1, <3>2
  <2>5. Loose("strong", q, {a}) + Bonus("strong", q, {a}) + Cardinality(Incs("strong", q) \cap {a})
          <= Owners("strong", q)
    <3>1. {a} \in SUBSET Guards
      BY DEF Guards
    <3> QED  BY <1>1, <1>6, <3>1 DEF Covered, Kept
  <2>6. Bonus("strong", q, {a}) \in {0, 1} /\ Loose("strong", q, {a}) >= 1 /\ Loose("strong", q, {a}) \in Nat
    BY <1>2, <1>6, BonusType
  <2>7. Loose("strong", q, {a}) = 1
    <3> HIDE DEF Loose, Bonus, Owners
    <3> QED  BY <2>3, <2>4, <2>5, <2>6
  <2> QED  BY <1>6, <2>1, <2>7
<1> QED  BY <1>5, <1>6 DEF Kinds

LEMMA EjectSettle ==
  ASSUME SettleInv, CountInv', client' = client, NEW a \in Threads, NEW e \in DOMAIN retired, Eject(a, e)
  PROVE  SettleInv'
<1>0. PICK k, q, B : k = e.k /\ q = e.o /\ B = BagRemove(retired, e)
  OBVIOUS
<1>1. /\ TypeInv /\ CountInv /\ GoodBag(retired) /\ Free(a) /\ Guarded(a)
      /\ e.wait = {} /\ q \in Objs /\ k \in Work
  <2>1. e \in Entries
    BY DEF SettleInv, CountInv, TypeInv, GoodBag, BagToSet
  <2> QED  BY <1>0, <2>1 DEF SettleInv, CountInv, TypeInv, Eject, Entries, Work
<1>2. /\ GoodBag(B)
      /\ \A j, o, V : CountIn(B, j, o, V) = Loose(j, o, V) - One(j = k /\ o = q)
      /\ \A j, o, V : Loose(j, o, V) \in Nat /\ One(j = k /\ o = q) \in {0, 1}
  <2>1. \A j, o, V : Matches(e, j, o, V) <=> j = k /\ o = q
    BY <1>0, <1>1 DEF Matches
  <2>2. /\ GoodBag(B)
        /\ \A j, o, V : CountIn(B, j, o, V) = CountIn(retired, j, o, V) - IF Matches(e, j, o, V) THEN 1 ELSE 0
    BY <1>0, <1>1, RemoveCount
  <2>3. \A j, o, V : CountIn(retired, j, o, V) \in Nat
    BY <1>1, LooseFinite
  <2> QED  BY <2>1, <2>2, <2>3 DEF Loose, One
<1>3. \A j, o, V : CountIn(B, j, o, V) <= Loose(j, o, V)
  <2>1. SUFFICES ASSUME NEW j, NEW o, NEW V PROVE CountIn(B, j, o, V) <= Loose(j, o, V)
    OBVIOUS
  <2>2. CountIn(B, j, o, V) = Loose(j, o, V) - One(j = k /\ o = q)
        /\ Loose(j, o, V) \in Nat /\ One(j = k /\ o = q) \in {0, 1}
    BY <1>2
  <2> HIDE DEF Loose, One
  <2> QED  BY <2>2
<1>4. CASE k = "dispose"
  <2>1. Dispose(a, q, B)
    BY <1>0, <1>4 DEF Eject
  <2>2. Disposers(q) > 0
    <3>1. Disposers(q) = Cardinality(Releasers(q)) + Loose("dispose", q, {}) /\ Cardinality(Releasers(q)) \in Nat
      BY <1>1, OwnersIs, Finite DEF Kinds
    <3>2. Loose("dispose", q, {}) >= 1 /\ Loose("dispose", q, {}) \in Nat
      BY <1>0, <1>1, <1>2, <1>4, LooseOne DEF Loose, Matches
    <3> HIDE DEF Disposers, Loose, Releasers
    <3> QED  BY <3>1, <3>2
  <2>3. ObjOK(q) /\ Shielded(q)
    BY <1>1, ShieldedLemma DEF CountInv
  <2>4. life[q] = "live" /\ flag["strong"][q] = "zero"
    BY <1>1, <2>2, <2>3 DEF ObjOK, LifeOK
  <2>5. Counting("weak", q)
    BY <1>1, <2>3, <2>4, CountFacts
  <2> QED  BY <1>1, <1>2, <1>3, <2>1, <2>4, <2>5, DisposeSettle
<1>5. CASE k # "dispose"
  <2>1. /\ k \in Kinds /\ retired' = B /\ Dec(k, q)
        /\ Goto(a, IF Drained(k, q) THEN [at |-> "settle", k |-> k, o |-> q] ELSE Idle)
        /\ UNCHANGED <<life, flag, cs>>
    BY <1>0, <1>1, <1>5 DEF Eject, Work
  <2>2. Counting(k, q) /\ CanInc(k, q)
    <3>1. Counting(k, q)
      BY <1>0, <1>1, <2>1, OwnerCounting
    <3> QED  BY <3>1 DEF Counting, CanInc
  <2>3. /\ cnt'[k][q] = cnt[k][q] - 1
        /\ \A j \in Kinds, o \in Objs : j # k \/ o # q => cnt'[j][o] = cnt[j][o]
    <3>1. cnt' = [cnt EXCEPT ![k][q] = @ - 1]
      BY <2>1, <2>2 DEF Dec
    <3> QED  BY <1>1, <2>1, <3>1 DEF TypeInv
  <2>4. /\ pc'[a] = IF cnt[k][q] = 1 THEN [at |-> "settle", k |-> k, o |-> q] ELSE Idle
        /\ \A u \in Threads \ {a} : pc'[u] = pc[u]
    BY <1>1, <2>1, <2>2 DEF Drained, Goto, TypeInv
  <2>5. \A j, o : In(pc'[a], "settle", j, o) <=> cnt[k][q] = 1 /\ j = k /\ o = q
    BY <2>4 DEF In, Idle
  <2>6. \A j, o, V : Loose(j, o, V)' = Loose(j, o, V) - One(j = k /\ o = q)
    BY <1>2, <2>1 DEF Loose
  <2>7. ASSUME NEW t \in Threads \ {a}, NEW j \in Kinds, NEW o \in Objs, Settling(t, j, o)
        PROVE  (j # k \/ o # q) /\ Spared(j, o)
    <3>1. j # k \/ o # q
      <4>1. CASE j = "weak" \/ Scheme = "HP"
        <5>1. Owners(j, o) = 0
          BY <2>7, <4>1, SettlingFacts DEF Gone
        <5>2. j = k /\ o = q => Owners(j, o) > 0
          BY <1>0, <1>1, <2>1, OwnerCounts
        <5> HIDE DEF Owners
        <5> QED  BY <5>1, <5>2
      <4>2. CASE j = "strong" /\ Scheme = "EBR"
        <5>1. Loose("strong", o, {t}) = 0
          BY <2>7, <4>2 DEF SettleInv, SettlingOK
        <5>2. j = k /\ o = q => Loose("strong", o, {t}) >= 1
          BY <1>0, <1>1, <4>2, LooseOne DEF Loose, Matches
        <5> HIDE DEF Loose
        <5> QED  BY <5>1, <5>2
      <4> QED  BY <1>1, <4>1, <4>2, ClientAssumption DEF Kinds, TypeInv, Scheme
    <3>2. j = "strong" => flag["strong"][o] # "zero"
      BY <2>7 DEF SettleInv, SettlingOK
    <3> QED  BY <2>1, <2>3, <3>1, <3>2 DEF Spared
  <2>8. Pinned(a)
    <3>1. SUFFICES ASSUME NEW t \in Threads \ {a}, NEW o \in Objs, Loose("strong", o, {t}) = 0
                   PROVE  Loose("strong", o, {t})' = 0
      BY <2>1 DEF Pinned
    <3>2. CountIn(B, "strong", o, {t}) <= Loose("strong", o, {t}) /\ CountIn(B, "strong", o, {t}) \in Nat
          /\ Loose("strong", o, {t})' = CountIn(B, "strong", o, {t})
      BY <1>2, <1>3, <2>1, LooseFinite DEF Loose
    <3> HIDE DEF Loose
    <3> QED  BY <3>1, <3>2
  <2>9. \A t \in Threads \ {a} : SettlingOK(t)'
    BY <2>4, <2>5, <2>7, <2>8, OthersSettle
  <2>10. SettlingOK(a)'
    <3>1. CASE cnt[k][q] # 1
      BY <2>5, <3>1 DEF SettlingOK, Settling
    <3>2. CASE cnt[k][q] = 1
      <4>1. /\ k = "weak" => life'[q] = "disposed"
            /\ k = "strong" => life'[q] = "live" /\ Loose("strong", q, {a}) = 1
        BY <1>0, <1>1, <2>1, <2>2, <3>2, DrainFacts
      <4>2. cnt'[k][q] = 0 /\ flag'[k][q] # "zero"
        BY <2>1, <2>2, <2>3, <3>2 DEF Counting
      <4>3. k = "strong" => Loose("strong", q, {a})' = 0
        <5>1. Loose("strong", q, {a})' = Loose("strong", q, {a}) - One("strong" = k /\ q = q)
          BY <2>6
        <5>2. k = "strong" => One("strong" = k /\ q = q) = 1
          BY DEF One
        <5> HIDE DEF Loose
        <5> QED  BY <4>1, <5>1, <5>2
      <4>4. Scheme' = "EBR" => a \in cs'
        BY <1>1, <2>1 DEF Guarded, Scheme
      <4>5. \A u \in Threads : Settling(u, k, q)' => u = a
        <5>1. SUFFICES ASSUME NEW u \in Threads \ {a}, Settling(u, k, q)' PROVE FALSE
          OBVIOUS
        <5>2. Settling(u, k, q)
          BY <2>4, <5>1 DEF Settling, In
        <5> QED  BY <2>1, <1>1, <2>7, <5>2
      <4>6. SUFFICES ASSUME NEW j \in Kinds, NEW o \in Objs, Settling(a, j, o)'
                     PROVE  /\ \A u \in Threads : Settling(u, j, o)' => u = a
                            /\ j = "weak" => life'[o] = "disposed" /\ cnt'["weak"][o] = 0
                            /\ j = "strong" => /\ life'[o] = "live" /\ flag'["strong"][o] # "zero"
                                               /\ Scheme' = "EBR" => a \in cs' /\ Loose("strong", o, {a})' = 0
                                               /\ Scheme' = "HP" => cnt'["strong"][o] = 0
        BY DEF SettlingOK
      <4>7. j = k /\ o = q
        BY <2>5, <4>6 DEF Settling
      <4> HIDE DEF Loose
      <4> QED  BY <4>1, <4>2, <4>3, <4>4, <4>5, <4>7
    <3> QED  BY <3>1, <3>2
  <2> QED  BY <2>9, <2>10 DEF SettleInv
<1> QED  BY <1>4, <1>5

LEMMA SettleNext == ASSUME SettleInv, SettledClients, [Next]_vars PROVE SettleInv'
<1>0. CountInv /\ SafeClients
  BY DEF SettleInv, SettledClients
<1>1. CountInv'
  BY <1>0, NextInv
<1>2. CASE UNCHANGED vars
  <2>1. UNCHANGED <<life, cnt, flag, cs, retired, pc, client>> /\ Scheme' = Scheme
    BY <1>2 DEF vars, Scheme
  <2>2. ASSUME NEW t \in Threads, SettlingOK(t) PROVE SettlingOK(t)'
    BY <2>1, <2>2 DEF SettlingOK, Settling, In, Loose
  <2> QED  BY <1>1, <2>2 DEF SettleInv
<1>3. CASE Next
  <2>1. client' = client
    BY <1>0, <1>3, TypeStep DEF CountInv
  <2>2. CASE Scanning
    BY <1>1, <2>1, <2>2, ScanSettle DEF Scanning
  <2>3. ASSUME NEW a \in Threads, Enter(a) \/ Leaving(a) PROVE SettleInv'
    BY <1>1, <2>1, <2>3, LeavingSettle
  <2>4. ASSUME NEW a \in Threads, Owning(a) PROVE SettleInv'
    BY <1>1, <2>1, <2>4, OwningSettle
  <2>5. ASSUME NEW a \in Threads, Updating(a) PROVE SettleInv'
    BY <1>1, <2>1, <2>5, UpdatingSettle
  <2>6. ASSUME NEW a \in Threads, Reading(a) PROVE SettleInv'
    BY <1>1, <2>1, <2>6, ReadingSettle
  <2>7. ASSUME NEW a \in Threads, Continue(a) PROVE SettleInv'
    BY <1>1, <2>1, <2>7, MovingSettle, UpdatingSettle, ReadingSettle, CheckSettle,
       SettleSettle, ReleaseSettle DEF Continue
  <2>8. ASSUME NEW a \in Threads, Collect(a) PROVE SettleInv'
    BY <1>1, <2>1, <2>8, EjectSettle DEF Collect, BagToSet
  <2> QED  BY <1>3, <2>2, <2>3, <2>4, <2>5, <2>6, <2>7, <2>8 DEF Next
<1> QED  BY <1>2, <1>3

\* Nothing that was freed is accessed by any call, a decrement that was overtaken
\* included, and no field of a value that was dropped.
THEOREM NeverUsedAfterFree == SettledClients => (Spec => []NoUseAfterFree)
<1>0. SUFFICES ASSUME SettledClients PROVE Spec => []NoUseAfterFree
  OBVIOUS
<1>1. SafeClients
  BY <1>0 DEF SettledClients
<1>2. Init => SettleInv
  <2>1. ASSUME Init, NEW t \in Threads PROVE SettlingOK(t)
    BY <2>1 DEF Init, SettlingOK, Settling, In, Idle
  <2> QED  BY <2>1, InitInv DEF SettleInv
<1>3. SettleInv /\ [Next]_vars => SettleInv'
  BY <1>0, SettleNext
<1>4. SettleInv /\ FieldsSafe /\ ReferencesSafe
        /\ (\A t \in Threads : pc[t].at # "settle" => CallSafe(t)) => NoUseAfterFree
  <2>1. SUFFICES ASSUME SettleInv, NEW t \in Threads, pc[t].at = "settle" PROVE CallSafe(t)
    BY DEF NoUseAfterFree
  <2>2. pc[t] \in Controls
    BY <2>1 DEF SettleInv, CountInv, TypeInv
  <2>3. pc[t].k \in Kinds /\ pc[t].o \in Objs /\ Settling(t, pc[t].k, pc[t].o)
    BY <2>1, <2>2, ControlShape DEF Settling, In
  <2>4. life[pc[t].o] # "freed"
    BY <2>1, <2>3, SettlingFacts
  <2> QED  BY <2>1, <2>4 DEF CallSafe, Held
<1> QED  BY <1>1, <1>2, <1>3, <1>4, UseBeforeFree, PTL DEF Spec
===============================================================================
