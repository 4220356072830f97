--------------------------- MODULE HPDomain_proofs ---------------------------
(***************************************************************************)
(* The slot discipline of the hazard-pointer domain, for any number of     *)
(* threads, records, hazard pointers and objects and any size of arrays:   *)
(* every variable keeps its type, a reclamation that was asked for is not  *)
(* forgotten, and slots, free lists and hazard pointers agree.             *)
(***************************************************************************)
EXTENDS HPDomain, FunctionTheorems, FiniteSetTheorems, TLAPS

\* Where a thread goes on after a flush, and after the growing behind it.
Inner(p) == IF p.at \in {"flush", "push"} THEN p.to ELSE p
Base(p)  == IF Inner(p).at = "extend" THEN Inner(p).to ELSE Inner(p)
\* The slots that growing has added and not yet made available.
Added(p) == IF p.at = "extend" THEN p.n + 1 .. 2 * p.n ELSE {}
Scans == {"pop", "head", "record", "array", "guard", "recheck", "slots", "judge", "putback"}

\* The reclamation loop runs while its flag is up; a nested one only asks for
\* more.  The array that a scan reads exists.
ControlAt(t) ==
  /\ in_recl[t] <=> Base(pc[t]).at \in Scans
  /\ must_retry[t] => in_recl[t]
  /\ ~in_recl[t] => back[t] = Idle
  /\ back[t] # Idle => back[t].to.at = "acquire"
  /\ rec[t] = 0 => pc[t].at \in {"idle", "search"}
  /\ pc[t].at = "search" => rec[t] = 0
  /\ popped[t] # {} => Base(pc[t]).at \in Scans \ {"pop"}
  /\ pc[t].at \in {"guard", "recheck", "slots"} => pc[t].g \in 1 .. Last(pc[t].k)
\* What threads without a record, and hazard pointers without a slot, do not have.
HandleAt(t, n) ==
  /\ hp[t][n].i = 0 => hp[t][n].p = Null /\ hp[t][n].held = {}
  /\ rec[t] = 0 \/ Base(pc[t]).at = "release" => hp[t][n].i = 0
  /\ pc[t].at \in {"publish", "validate"} /\ pc[t].h = n => hp[t][n].i # 0
\* A record in use has one owner; the others hold no hazard.
Cleared(a) == \A i \in DOMAIN a : a[i] = Null
Unowned(k) == avail[k] \/ k > nrec
RecordsOK ==
  /\ \A t \in Threads : rec[t] # 0 => ~avail[rec[t]]
  /\ \A t, u \in Threads : rec[t] = rec[u] /\ rec[t] # 0 => t = u
  /\ \A k \in 1 .. MaxRecs : ~Unowned(k) => \E t \in Threads : rec[t] = k
  /\ \A k \in 1 .. MaxRecs : k > nrec => ~avail[k]
ArraysOK == \A k \in 1 .. MaxRecs : /\ Last(k) > 0 /\ Len(Array(k)) > 0
                                    /\ Unowned(k) => Cleared(Array(k))
\* The slots of an array a are shared out among the free list F, the scan S, the
\* hazard pointers h, and what growing has added: P, and Q while a reclamation
\* runs in the middle of growing.
Owns(h, i) == \E n \in Handles : h[n].i = i
Apart(F, P, Q, S) == F \cap P = {} /\ F \cap Q = {} /\ F \cap S = {} /\ P \cap Q = {} /\ P \cap S = {} /\ Q \cap S = {}
Shared(F, P, Q, S, h, a) ==
  /\ F \cup P \cup Q \cup S \subseteq DOMAIN a /\ Apart(F, P, Q, S)
  /\ \A n \in Handles : h[n].i # 0 => /\ h[n].i \in DOMAIN a \ (F \cup P \cup Q \cup S)
                                      /\ a[h[n].i] = h[n].p
                                      /\ \A m \in Handles : h[n].i = h[m].i => n = m
  /\ \A i \in DOMAIN a \ S : ~Owns(h, i) => a[i] = Null
Reads(t, a)  == pc[t].at \in {"recheck", "slots"} => a[pc[t].i] = Addr(pc[t].k, pc[t].g)
SlotOK(t, a) == /\ Shared(free[t], Added(Inner(pc[t])), Added(back[t]), Scanner(t), hp[t], a)
                /\ Reads(t, a)

ControlOK == \A t \in Threads : ControlAt(t)
HandlesOK == \A t \in Threads, n \in Handles : HandleAt(t, n)
SlotsOK   == \A t \in Threads : rec[t] # 0 => SlotOK(t, Array(rec[t]))
SInv      == TypeOK /\ ControlOK /\ HandlesOK /\ RecordsOK /\ ArraysOK /\ SlotsOK

\* The fields of a location, by where it is.
LEMMA PlaceFields ==
  ASSUME NEW p \in PCs
  PROVE  /\ p.at \in {"search", "record"} => p.k \in 0 .. MaxRecs
         /\ p.at \in {"array", "guard", "recheck", "slots"} => p.k \in 1 .. MaxRecs
         /\ p.at \in {"guard", "recheck", "slots"} => p.g \in Nat /\ p.i \in Nat \ {0}
         /\ p.at = "slots" => p.j \in Nat \ {0}
         /\ p.at \in {"flush", "push"} => p.to \in Return
         /\ p.at = "extend" => p \in Growing
         /\ p.at \in {"acquire", "validate", "publish"} => p.h \in Handles
         /\ p.at \in {"publish", "validate"} => p.o \in Refs \cup {Null}
  BY DEF PCs, Reading, Growing

LEMMA GrowingFields ==
  ASSUME NEW p \in Growing
  PROVE  /\ p.at = "extend" /\ p.n \in Nat /\ p.to \in PCs /\ p.to.at \in {"acquire", "array"}
         /\ p \in PCs /\ p \in Return
  BY DEF PCs, Growing, Return

LEMMA ReturnFields ==
  ASSUME NEW p \in Return
  PROVE  /\ p.at \in {"idle", "release", "judge", "extend"} /\ p \in PCs
         /\ p.at = "extend" => p \in Growing
         /\ p.at # "extend" => p = [at |-> p.at]
  BY DEF PCs, Return, Growing

\* A location that has no or one field besides "at" is no more than these.
LEMMA PlainShape ==
  ASSUME NEW p \in PCs
  PROVE  /\ p.at = "array" => p = [at |-> "array", k |-> p.k]
         /\ p.at = "idle" => p = Idle
  BY DEF PCs, Reading, Growing, Idle

\* What has the shape of a location is one.
LEMMA Places ==
  /\ \A a \in {"idle", "release", "pop", "head", "judge", "putback"} : [at |-> a] \in PCs
  /\ \A a \in {"idle", "release", "judge"} : [at |-> a] \in Return
  BY DEF PCs, Return
LEMMA RecordPlace ==
  ASSUME NEW k \in 0 .. MaxRecs
  PROVE  [at |-> "search", k |-> k] \in PCs /\ [at |-> "record", k |-> k] \in PCs
  BY DEF PCs
LEMMA ArrayPlace == ASSUME NEW k \in 1 .. MaxRecs PROVE [at |-> "array", k |-> k] \in PCs
  BY DEF PCs
LEMMA ReadPlace ==
  ASSUME NEW k \in 1 .. MaxRecs, NEW g \in Nat, NEW i \in Nat \ {0}
  PROVE  /\ [at |-> "guard", k |-> k, g |-> g, i |-> i] \in PCs
         /\ [at |-> "recheck", k |-> k, g |-> g, i |-> i] \in PCs
  BY DEF PCs, Reading
LEMMA SlotPlace ==
  ASSUME NEW k \in 1 .. MaxRecs, NEW g \in Nat, NEW i \in Nat \ {0}, NEW j \in Nat \ {0}
  PROVE  [at |-> "slots", k |-> k, g |-> g, i |-> i, j |-> j] \in PCs
  BY DEF PCs, Reading
LEMMA FlushPlace ==
  ASSUME NEW p \in Return
  PROVE  [at |-> "flush", to |-> p] \in PCs /\ [at |-> "push", to |-> p] \in PCs
  BY DEF PCs
LEMMA HandlePlace ==
  ASSUME NEW h \in Handles
  PROVE  /\ [at |-> "acquire", h |-> h] \in PCs
         /\ \A o \in Refs \cup {Null} : /\ [at |-> "publish", h |-> h, o |-> o] \in PCs
                                        /\ [at |-> "validate", h |-> h, o |-> o] \in PCs
  BY DEF PCs
LEMMA ExtendPlace ==
  ASSUME NEW n \in Nat
  PROVE  /\ \A h \in Handles : [at |-> "extend", n |-> n, to |-> [at |-> "acquire", h |-> h]] \in Growing
         /\ \A k \in 1 .. MaxRecs : [at |-> "extend", n |-> n, to |-> [at |-> "array", k |-> k]] \in Growing
  BY DEF Growing
\* The pointer of a reference, and what it drops.
LEMMA Pointers ==
  ASSUME NEW o \in Refs \cup {Null}
  PROVE  PtrOf(o) \in Ptrs \cup {Null} /\ (o = Null <=> PtrOf(o) = Null)
  BY NullAssumption DEF PtrOf, Ptrs
-------------------------------------------------------------------------------
\* Writing a slot changes that slot of the thread's own array and nothing else.
LEMMA PutEffect ==
  ASSUME SInv, NEW t \in Threads, rec[t] # 0, NEW i \in DOMAIN Array(rec[t]),
         NEW p \in Ptrs \cup Addrs \cup {Null}, Put(t, i, p), UNCHANGED rec
  PROVE  /\ arrays' \in [1 .. MaxRecs -> Seq(Seq(Ptrs \cup Addrs \cup {Null}))]
         /\ \A k \in 1 .. MaxRecs : Last(k)' = Last(k) /\ (k # rec[t] => arrays'[k] = arrays[k])
         /\ \A g \in 1 .. Last(rec[t]) - 1 : arrays'[rec[t]][g] = arrays[rec[t]][g]
         /\ Array(rec[t])' = [Array(rec[t]) EXCEPT ![i] = p]
<1>1. rec[t] \in 1 .. MaxRecs /\ arrays \in [1 .. MaxRecs -> Seq(Seq(Ptrs \cup Addrs \cup {Null}))]
  BY SizeAssumption DEF SInv, TypeOK, SharedType, ThreadType
<1>2. Last(rec[t]) \in Nat \ {0}
  BY <1>1 DEF SInv, ArraysOK, Last
<1>3. arrays' = [arrays EXCEPT ![rec[t]][Last(rec[t])][i] = p]
  BY DEF Put
<1>4. Array(rec[t]) \in Seq(Ptrs \cup Addrs \cup {Null}) /\ Array(rec[t]) = arrays[rec[t]][Last(rec[t])]
  BY <1>1, <1>2 DEF Array, Last
<1>5. \A k \in 1 .. MaxRecs : k # rec[t] => arrays'[k] = arrays[k]
  BY <1>1, <1>3
<1>6. arrays'[rec[t]] = [arrays[rec[t]] EXCEPT ![Last(rec[t])][i] = p]
  BY <1>1, <1>3
<1>7. [Array(rec[t]) EXCEPT ![i] = p] \in Seq(Ptrs \cup Addrs \cup {Null})
  BY <1>4
<1>8. arrays'[rec[t]] = [arrays[rec[t]] EXCEPT ![Last(rec[t])] = [Array(rec[t]) EXCEPT ![i] = p]]
  BY <1>4, <1>6
<1>9. arrays' \in [1 .. MaxRecs -> Seq(Seq(Ptrs \cup Addrs \cup {Null}))] /\ Last(rec[t])' = Last(rec[t])
  BY <1>1, <1>2, <1>3, <1>4, <1>7, <1>8 DEF Last
<1>10. \A k \in 1 .. MaxRecs : Last(k)' = Last(k) /\ (k # rec[t] => arrays'[k] = arrays[k])
  BY <1>5, <1>9 DEF Last
<1>11. \A g \in 1 .. Last(rec[t]) - 1 : arrays'[rec[t]][g] = arrays[rec[t]][g]
  BY <1>2, <1>8
<1>12. Array(rec[t])' = [Array(rec[t]) EXCEPT ![i] = p]
  <2>1. Array(rec[t])' = arrays'[rec[t]][Last(rec[t])']
    BY DEF Array, Last
  <2>2. Last(rec[t]) \in DOMAIN arrays[rec[t]]
    BY <1>1, <1>2 DEF Last
  <2> QED  BY <1>8, <1>9, <2>1, <2>2
<1> QED  BY <1>9, <1>10, <1>11, <1>12

\* Growing appends an array twice as long, with the same slots and more that are Null.
LEMMA GrowEffect ==
  ASSUME SInv, NEW t \in Threads, rec[t] # 0, NEW p, Grow(t, p)
  PROVE  /\ arrays' \in [1 .. MaxRecs -> Seq(Seq(Ptrs \cup Addrs \cup {Null}))]
         /\ Last(rec[t])' = Last(rec[t]) + 1
         /\ \A k \in 1 .. MaxRecs : k # rec[t] => Last(k)' = Last(k) /\ arrays'[k] = arrays[k]
         /\ \A g \in 1 .. Last(rec[t]) : arrays'[rec[t]][g] = arrays[rec[t]][g]
         /\ Array(rec[t])' = Grown(Array(rec[t])) /\ Len(Array(rec[t])') = 2 * Len(Array(rec[t]))
<1>1. rec[t] \in 1 .. MaxRecs /\ arrays \in [1 .. MaxRecs -> Seq(Seq(Ptrs \cup Addrs \cup {Null}))]
  BY SizeAssumption DEF SInv, TypeOK, SharedType, ThreadType
<1>2. Last(rec[t]) \in Nat \ {0}
  BY <1>1 DEF SInv, ArraysOK, Last
<1>3. Array(rec[t]) \in Seq(Ptrs \cup Addrs \cup {Null})
  BY <1>1, <1>2 DEF Array, Last
<1>4. Grown(Array(rec[t])) \in Seq(Ptrs \cup Addrs \cup {Null}) /\ Len(Grown(Array(rec[t]))) = 2 * Len(Array(rec[t]))
  BY <1>3 DEF Grown
<1>5. arrays' = [arrays EXCEPT ![rec[t]] = Append(arrays[rec[t]], Grown(Array(rec[t])))] /\ rec' = rec
  BY DEF Grow, slot
<1>6. arrays'[rec[t]] = Append(arrays[rec[t]], Grown(Array(rec[t])))
  BY <1>1, <1>5
<1>7. \A k \in 1 .. MaxRecs : k # rec[t] => arrays'[k] = arrays[k]
  BY <1>1, <1>5
<1>8. arrays[rec[t]] \in Seq(Seq(Ptrs \cup Addrs \cup {Null}))
  BY <1>1
<1>9. arrays'[rec[t]] \in Seq(Seq(Ptrs \cup Addrs \cup {Null})) /\ Last(rec[t])' = Last(rec[t]) + 1
  BY <1>4, <1>5, <1>6, <1>8 DEF Last
<1>10. arrays' \in [1 .. MaxRecs -> Seq(Seq(Ptrs \cup Addrs \cup {Null}))]
  BY <1>1, <1>5, <1>9
<1>11. \A g \in 1 .. Last(rec[t]) : arrays'[rec[t]][g] = arrays[rec[t]][g]
  BY <1>4, <1>5, <1>6, <1>8 DEF Last
<1>12. Array(rec[t])' = Grown(Array(rec[t]))
  BY <1>4, <1>5, <1>6, <1>8, <1>9 DEF Last, Array
<1> QED  BY <1>4, <1>5, <1>7, <1>9, <1>10, <1>11, <1>12 DEF Last

\* The array and the slots of a thread that has a record.
LEMMA OwnArray ==
  ASSUME SInv, NEW t \in Threads, rec[t] # 0
  PROVE  /\ rec[t] \in 1 .. MaxRecs /\ Array(rec[t]) \in Seq(Ptrs \cup Addrs \cup {Null})
         /\ Last(rec[t]) \in Nat \ {0} /\ Len(Array(rec[t])) \in Nat \ {0}
         /\ Scanner(t) \subseteq DOMAIN Array(rec[t]) /\ free[t] \subseteq DOMAIN Array(rec[t])
         /\ \A n \in Handles : hp[t][n].i # 0 => hp[t][n].i \in DOMAIN Array(rec[t])
<1>1. rec[t] \in 1 .. MaxRecs /\ arrays \in [1 .. MaxRecs -> Seq(Seq(Ptrs \cup Addrs \cup {Null}))]
  BY SizeAssumption DEF SInv, TypeOK, SharedType, ThreadType
<1>2. Last(rec[t]) > 0 /\ Len(Array(rec[t])) > 0
  BY <1>1 DEF SInv, ArraysOK
<1>3. Last(rec[t]) \in Nat /\ Array(rec[t]) \in Seq(Ptrs \cup Addrs \cup {Null})
  BY <1>1, <1>2 DEF Last, Array
<1>4. SlotOK(t, Array(rec[t]))
  BY DEF SInv, SlotsOK
<1> QED  BY <1>1, <1>2, <1>3, <1>4 DEF SlotOK, Shared

\* Retiring an entry and going on to p keeps the types.
LEMMA DeferType ==
  ASSUME TypeOK, NEW t \in Threads, NEW e \in Entries, NEW p \in Return, Defer(t, e, p)
  PROVE  /\ retired' \in [Threads -> SUBSET Entries] /\ count' \in [Threads -> 0 .. 2 * FLUSH - 1]
         /\ gone' \subseteq Entries /\ gone \subseteq gone' /\ pc' \in [Threads -> PCs]
<1>1. retired \in [Threads -> SUBSET Entries] /\ count \in [Threads -> 0 .. 2 * FLUSH - 1]
  BY DEF TypeOK, ThreadType
<1>2. pc \in [Threads -> PCs] /\ gone \subseteq Entries
  BY DEF TypeOK, SharedType
<1>3. p \in PCs /\ [at |-> "flush", to |-> p] \in PCs
  BY FlushPlace, ReturnFields
<1>4. 2 * FLUSH \in Nat \ {0}
  BY SizeAssumption
<1>5. (count[t] + 1) % (2 * FLUSH) \in 0 .. 2 * FLUSH - 1
  BY <1>1, <1>4
<1>6. count' \in [Threads -> 0 .. 2 * FLUSH - 1]
  BY <1>1, <1>5 DEF Defer
<1>7. retired' \in [Threads -> SUBSET Entries]
  BY <1>1 DEF Defer
<1>8. pc' \in [Threads -> PCs]
  BY <1>2, <1>3 DEF Defer, Goto
<1> QED  BY <1>2, <1>6, <1>7, <1>8 DEF Defer

-------------------------------------------------------------------------------
(* Types. *)

\* The slots of an array are numbered from 1.
LEMMA SomeArray == ASSUME SInv, NEW k \in 1 .. MaxRecs PROVE DOMAIN Array(k) \subseteq Nat \ {0}
<1>1. Last(k) > 0 /\ arrays \in [1 .. MaxRecs -> Seq(Seq(Ptrs \cup Addrs \cup {Null}))]
  BY DEF SInv, ArraysOK, TypeOK, SharedType
<1>2. Array(k) \in Seq(Ptrs \cup Addrs \cup {Null})
  BY <1>1 DEF Array, Last
<1> QED  BY <1>2

LEMMA UpdateHandle ==
  ASSUME NEW S, hp \in [Threads -> [Handles -> S]], NEW t \in Threads, NEW n \in Handles, NEW x \in S,
         hp' = [hp EXCEPT ![t][n] = x]
  PROVE  hp' \in [Threads -> [Handles -> S]]
  OBVIOUS

\* Every step keeps the types.
LEMMA TypeOK_Living == ASSUME SInv, NEW t \in Threads, Living(t) PROVE TypeOK'
<1> USE DEF SharedType, ThreadType, Goto, Idle, env, records, pool, domain, slot, batch, loop, judging, recl, history
<1>1. SharedType /\ ThreadType /\ pc \in [Threads -> PCs]
  BY DEF SInv, TypeOK
<1>2. back[t] \in Growing \cup {Idle} /\ pc[t] \in PCs
  BY <1>1
<1>3. TypeOK
  BY DEF SInv
<1>4. CASE Start(t)
  <2>1. SharedType'
    BY <1>1, <1>2, <1>4 DEF Start
  <2>2. ThreadType'
    BY <1>1, <1>2, <1>4 DEF Start
  <2>3. pc' \in [Threads -> PCs]
    BY <1>1, <1>2, <1>4, RecordPlace, SizeAssumption DEF Start
  <2> QED  BY <2>1, <2>2, <2>3 DEF TypeOK
<1>5. CASE Skip(t)
  <2>1. pc[t].k - 1 \in 0 .. MaxRecs
    <3>1. pc[t].k \in 0 .. MaxRecs /\ pc[t].k # 0
      BY <1>5, <1>2, PlaceFields DEF Skip
    <3> QED  BY <3>1, SizeAssumption
  <2>2. SharedType'
    BY <1>1, <1>2, <1>5 DEF Skip
  <2>3. ThreadType'
    BY <1>1, <1>2, <1>5 DEF Skip
  <2>4. pc' \in [Threads -> PCs]
    BY <1>1, <1>2, <1>5, <2>1, RecordPlace DEF Skip
  <2> QED  BY <2>2, <2>3, <2>4 DEF TypeOK
<1>6. CASE Recycle(t)
  <2>1. pc[t].k \in 1 .. nrec /\ pc[t].k \in 1 .. MaxRecs
    BY <1>6, <1>1, <1>2, PlaceFields, SizeAssumption DEF Recycle, SInv, RecordsOK
  <2>2. DOMAIN Array(pc[t].k) \subseteq Nat \ {0}
    BY <1>6, <2>1, SomeArray
  <2>3. rec' = [rec EXCEPT ![t] = pc[t].k] /\ free' = [free EXCEPT ![t] = DOMAIN Array(pc[t].k)]
        /\ count' = [count EXCEPT ![t] = 0] /\ nrec' = nrec
    BY <1>6 DEF Recycle, Take
  <2>4. rec' \in [Threads -> 0 .. nrec'] /\ free' \in [Threads -> SUBSET (Nat \ {0})]
    BY <1>1, <1>2, <2>1, <2>2, <2>3
  <2>5. count' \in [Threads -> 0 .. 2 * FLUSH - 1]
    BY <1>1, <1>2, <2>3, SizeAssumption
  <2>6. SharedType'
    BY <1>1, <1>2, <1>6 DEF Recycle, Take, Array
  <2>7. ThreadType'
    BY <1>1, <1>2, <1>6, <2>4, <2>5 DEF Recycle, Take, Array
  <2>8. pc' \in [Threads -> PCs]
    BY <1>1, <1>2, <1>6, Places DEF Recycle, Take, Array
  <2> QED  BY <2>6, <2>7, <2>8 DEF TypeOK
<1>7. CASE NewRecord(t)
  <2>1. nrec + 1 \in 1 .. MaxRecs /\ nrec' = nrec + 1 /\ nrec + 1 \in 0 .. MaxRecs
    BY <1>7, <1>1, <1>2, SizeAssumption DEF NewRecord
  <2>2. DOMAIN Array(nrec + 1) \subseteq Nat \ {0}
    BY <1>7, <2>1, SomeArray
  <2>3. nrec \in Nat /\ nrec <= nrec'
    BY <1>1, <1>2, <2>1, SizeAssumption
  <2>7. /\ rec' = [rec EXCEPT ![t] = nrec + 1] /\ free' = [free EXCEPT ![t] = DOMAIN Array(nrec + 1)]
        /\ count' = [count EXCEPT ![t] = 0] /\ UNCHANGED <<hp, retired, recl>>
    BY <1>7 DEF NewRecord, Take
  <2>8. rec' \in [Threads -> 0 .. nrec'] /\ free' \in [Threads -> SUBSET (Nat \ {0})]
    BY <1>1, <2>1, <2>2, <2>3, <2>7
  <2>9. count' \in [Threads -> 0 .. 2 * FLUSH - 1]
    BY <1>1, <2>7, SizeAssumption
  <2>4. SharedType'
    BY <1>1, <1>2, <1>7, <2>1 DEF NewRecord, Take, Array
  <2>5. ThreadType'
    BY <1>1, <2>7, <2>8, <2>9
  <2>6. pc' \in [Threads -> PCs]
    BY <1>1, <1>2, <1>7, Places DEF NewRecord, Take, Array
  <2> QED  BY <2>4, <2>5, <2>6 DEF TypeOK
<1>8. CASE Exit(t)
  <2>1. SharedType'
    BY <1>1, <1>2, <1>8 DEF Exit, Ready
  <2>2. ThreadType'
    BY <1>1, <1>2, <1>8 DEF Exit, Ready
  <2>3. pc' \in [Threads -> PCs]
    BY <1>1, <1>2, <1>8, Places, FlushPlace DEF Exit, Ready
  <2> QED  BY <2>1, <2>2, <2>3 DEF TypeOK
<1>9. CASE Release(t)
  <2>1. SharedType'
    BY <1>1, <1>2, <1>9 DEF Release
  <2>2. ThreadType'
    BY <1>1, <1>2, <1>9 DEF Release
  <2>3. pc' \in [Threads -> PCs]
    BY <1>1, <1>2, <1>9, Places DEF Release
  <2> QED  BY <2>1, <2>2, <2>3 DEF TypeOK
<1> QED  BY <1>4, <1>5, <1>6, <1>7, <1>8, <1>9 DEF Living

LEMMA TypeOK_Retiring == ASSUME SInv, NEW t \in Threads, Retiring(t) PROVE TypeOK'
<1> USE DEF SharedType, ThreadType, Goto, Idle, env, records, pool, domain, slot, batch, loop, judging, recl, history
<1>1. SharedType /\ ThreadType /\ pc \in [Threads -> PCs]
  BY DEF SInv, TypeOK
<1>2. back[t] \in Growing \cup {Idle} /\ pc[t] \in PCs
  BY <1>1
<1>3. TypeOK
  BY DEF SInv
<1>4. ASSUME NEW o \in Roots \cup {Null}, Swap(t, o) PROVE TypeOK'
  <2>1. SharedType'
    BY <1>1, <1>2, <1>4 DEF Swap, Ready
  <2>2. ThreadType'
    BY <1>1, <1>2, <1>4 DEF Swap, Ready
  <2>3. pc' \in [Threads -> PCs]
    BY <1>1, <1>2, <1>4 DEF Swap, Ready
  <2> QED  BY <2>1, <2>2, <2>3 DEF TypeOK
<1>8. ASSUME NEW o \in Roots, Drop(t, o) PROVE TypeOK'
  <2>1. /\ retired' \in [Threads -> SUBSET Entries] /\ count' \in [Threads -> 0 .. 2 * FLUSH - 1]
        /\ gone' \subseteq Entries /\ gone \subseteq gone' /\ pc' \in [Threads -> PCs]
    <3>1. o \in Entries /\ Idle \in Return
      BY Places DEF Roots, Entries
    <3>2. Defer(t, o, Idle)
      BY <1>8 DEF Drop
    <3> QED  BY <1>3, <3>1, <3>2, DeferType
  <2>2. SharedType'
    BY <1>1, <1>2, <1>8, <2>1 DEF Drop, Defer, Ready
  <2>3. ThreadType'
    BY <1>1, <1>2, <1>8, <2>1 DEF Drop, Defer, Ready
  <2> QED  BY <2>1, <2>2, <2>3 DEF TypeOK
<1>5. CASE EagerReclaim(t)
  <2>1. SharedType'
    BY <1>1, <1>2, <1>5 DEF EagerReclaim, Ready
  <2>2. ThreadType'
    BY <1>1, <1>2, <1>5, SizeAssumption DEF EagerReclaim, Ready
  <2>3. pc' \in [Threads -> PCs]
    BY <1>1, <1>2, <1>5, Places, FlushPlace DEF EagerReclaim, Ready
  <2> QED  BY <2>1, <2>2, <2>3 DEF TypeOK
<1>6. CASE Flush(t)
  <2>1. SharedType'
    BY <1>1, <1>2, <1>6 DEF Flush
  <2>2. ThreadType'
    BY <1>1, <1>2, <1>6 DEF Flush
  <2>3. pc' \in [Threads -> PCs]
    BY <1>1, <1>2, <1>6, PlaceFields, FlushPlace DEF Flush
  <2> QED  BY <2>1, <2>2, <2>3 DEF TypeOK
<1>7. CASE Push(t)
  <2>1. pc[t].to \in Return /\ pc[t].to \in PCs
    BY <1>7, <1>1, <1>2, PlaceFields, ReturnFields DEF Push
  <2>2. in_recl[t] = FALSE => pc[t].to = Idle \/ pc[t].to \in Growing \/ pc[t].to.at = "release"
    BY <1>7, <1>1, <1>2, <2>1, ReturnFields DEF Push, SInv, ControlOK, ControlAt, Base, Inner, Scans, Idle
  <2>3. SharedType'
    BY <1>1, <1>2, <1>7 DEF Push
  <2>4. ThreadType'
    BY <1>1, <1>2, <1>7, <2>1, <2>2 DEF Push
  <2>5. pc' \in [Threads -> PCs]
    <3>1. pc' = [pc EXCEPT ![t] = [at |-> "pop"]] \/ pc' = [pc EXCEPT ![t] = pc[t].to]
      BY <1>7 DEF Push
    <3> QED  BY <1>1, <2>1, <3>1, Places
  <2> QED  BY <2>3, <2>4, <2>5 DEF TypeOK
<1> QED  BY <1>4, <1>5, <1>6, <1>7, <1>8 DEF Retiring

LEMMA TypeOK_Slots == ASSUME SInv, NEW t \in Threads, Slots(t) PROVE TypeOK'
<1> USE DEF SharedType, ThreadType, Goto, Idle, env, records, pool, domain, slot, batch, loop, judging, recl, history
<1>1. SharedType /\ ThreadType /\ pc \in [Threads -> PCs]
  BY DEF SInv, TypeOK
<1>2. back[t] \in Growing \cup {Idle} /\ pc[t] \in PCs
  BY <1>1
<1>3. TypeOK
  BY DEF SInv
<1>4. CASE Extend(t)
  <2>1. pc[t].n \in Nat /\ pc[t].to \in PCs
    BY <1>4, <1>1, <1>2, PlaceFields, GrowingFields DEF Extend
  <2>2. SharedType'
    BY <1>1, <1>2, <1>4 DEF Extend
  <2>3. ThreadType'
    BY <1>1, <1>2, <1>4, <2>1 DEF Extend
  <2>4. pc' \in [Threads -> PCs]
    BY <1>1, <1>2, <1>4, <2>1 DEF Extend
  <2> QED  BY <2>2, <2>3, <2>4 DEF TypeOK
<1>5. ASSUME NEW n \in Handles, NEW i \in free[t], Acquire(t, n, i) PROVE TypeOK'
  <2>1. SharedType'
    BY <1>1, <1>2, <1>5 DEF Acquire, Wants, Ready, Hazard
  <2>2. ThreadType'
    BY <1>1, <1>2, <1>5 DEF Acquire, Wants, Ready, Hazard
  <2>3. pc' \in [Threads -> PCs]
    BY <1>1, <1>2, <1>5, Places DEF Acquire, Wants, Ready, Hazard
  <2> QED  BY <2>1, <2>2, <2>3 DEF TypeOK
<1>6. ASSUME NEW n \in Handles, AcquireGrow(t, n) PROVE TypeOK'
  <2>1. rec[t] # 0
    BY <1>6 DEF AcquireGrow, Wants, Ready
  <2>2. [at |-> "extend", n |-> Len(Array(rec[t])), to |-> [at |-> "acquire", h |-> n]] \in Return /\ Addr(rec[t], Last(rec[t])) \in Entries
    BY <2>1, <1>3, OwnArray, ExtendPlace, GrowingFields DEF Addr, Entries, Addrs
  <2>3. Grow(t, [at |-> "acquire", h |-> n])
    BY <1>6 DEF AcquireGrow
  <2>4. /\ arrays' \in [1 .. MaxRecs -> Seq(Seq(Ptrs \cup Addrs \cup {Null}))]
        /\ retired' \in [Threads -> SUBSET Entries] /\ count' \in [Threads -> 0 .. 2 * FLUSH - 1]
        /\ gone' \subseteq Entries /\ gone \subseteq gone' /\ pc' \in [Threads -> PCs]
    BY <2>1, <2>2, <2>3, <1>3, GrowEffect, DeferType DEF Grow
  <2>5. SharedType'
    BY <1>1, <1>2, <1>6, <2>3, <2>4 DEF AcquireGrow, Wants, Ready, Grow, Defer
  <2>6. ThreadType'
    BY <1>1, <1>2, <1>6, <2>3, <2>4 DEF AcquireGrow, Wants, Ready, Grow, Defer
  <2>7. pc' \in [Threads -> PCs]
    BY <1>1, <1>2, <1>6, <2>4 DEF AcquireGrow, Wants, Ready, Grow, Defer
  <2> QED  BY <2>5, <2>6, <2>7 DEF TypeOK
<1> QED  BY <1>4, <1>5, <1>6 DEF Slots

LEMMA TypeOK_Protecting == ASSUME SInv, NEW t \in Threads, Protecting(t) PROVE TypeOK'
<1> USE DEF SharedType, ThreadType, Goto, Idle, env, records, pool, domain, slot, batch, loop, judging, recl, history
<1>1. SharedType /\ ThreadType /\ pc \in [Threads -> PCs]
  BY DEF SInv, TypeOK
<1>2. back[t] \in Growing \cup {Idle} /\ pc[t] \in PCs
  BY <1>1
<1>3. TypeOK
  BY DEF SInv
<1>4. CASE Publish(t)
  <2>1. rec[t] # 0
    BY <1>4, <1>3 DEF Publish, SInv, ControlOK, ControlAt
  <2>2. hp[t][pc[t].h].i \in DOMAIN Array(rec[t]) /\ pc[t].h \in Handles
        /\ pc[t].o \in Refs \cup {Null} /\ PtrOf(pc[t].o) \in Ptrs \cup {Null}
    BY <1>4, <1>1, <1>2, <1>3, <2>1, PlaceFields, Pointers, OwnArray DEF Publish, SInv, HandlesOK, HandleAt
  <2>3. arrays' \in [1 .. MaxRecs -> Seq(Seq(Ptrs \cup Addrs \cup {Null}))]
    BY <1>4, <1>3, <2>1, <2>2, PutEffect DEF Publish
  <2>4. SharedType'
    BY <1>1, <1>2, <1>4, <2>3 DEF Publish, Put, Hazard
  <2>5. hp' \in [Threads -> [Handles -> [i : Nat, p : Ptrs \cup {Null}, held : SUBSET Refs]]]
    <3>1. hp[t][pc[t].h] \in [i : Nat, p : Ptrs \cup {Null}, held : SUBSET Refs]
      BY <1>1, <2>2
    <3>2. Hazard(hp[t][pc[t].h].i, PtrOf(pc[t].o), Undropped(PtrOf(pc[t].o)))
          \in [i : Nat, p : Ptrs \cup {Null}, held : SUBSET Refs]
      BY <2>2, <3>1 DEF Hazard, Undropped
    <3> QED  BY <1>1, <1>4, <2>2, <3>2, UpdateHandle DEF Publish
  <2>6. ThreadType'
    BY <1>1, <1>2, <1>4, <2>5 DEF Publish, Put
  <2>7. pc' \in [Threads -> PCs]
    BY <1>1, <1>2, <1>4, <2>2, HandlePlace DEF Publish
  <2> QED  BY <2>4, <2>6, <2>7 DEF TypeOK
<1>5. CASE Validate(t)
  <2>1. pc[t].h \in Handles /\ Idle \in PCs
    BY <1>5, <1>1, <1>2, PlaceFields, Places DEF Validate
  <2>2. hp' = hp \/ hp' = [hp EXCEPT ![t][pc[t].h].held = @ \cup ({link} \ {Null})]
    BY <1>5, <1>1, <1>2, <2>1 DEF Validate, Trust
  <2>3. hp[t][pc[t].h] \in [i : Nat, p : Ptrs \cup {Null}, held : SUBSET Refs] /\ link \in Refs \cup {Null}
    BY <1>1, <1>2, <2>1 DEF Roots
  <2>4. [hp[t][pc[t].h] EXCEPT !.held = @ \cup ({link} \ {Null})] \in [i : Nat, p : Ptrs \cup {Null}, held : SUBSET Refs]
    BY <2>3
  <2>5. hp' \in [Threads -> [Handles -> [i : Nat, p : Ptrs \cup {Null}, held : SUBSET Refs]]]
    BY <1>1, <1>2, <2>1, <2>2, <2>4, UpdateHandle
  <2>6. [at |-> "publish", h |-> pc[t].h, o |-> link] \in PCs
    BY <2>1, <2>3, HandlePlace
  <2>7. pc' = [pc EXCEPT ![t] = Idle] \/ pc' = [pc EXCEPT ![t] = [at |-> "publish", h |-> pc[t].h, o |-> link]]
    BY <1>5 DEF Validate, Trust
  <2>8. SharedType'
    BY <1>1, <1>2, <1>5 DEF Validate, Hazard
  <2>9. ThreadType'
    BY <1>1, <1>2, <1>5, <2>5 DEF Validate, Hazard
  <2>10. pc' \in [Threads -> PCs]
    BY <1>1, <1>2, <1>5, <2>1, <2>6, <2>7 DEF Validate, Hazard
  <2> QED  BY <2>8, <2>9, <2>10 DEF TypeOK
<1>6. ASSUME NEW n \in Handles, DropHandle(t, n) PROVE TypeOK'
  <2>1. rec[t] # 0
    BY <1>6 DEF DropHandle, Ready
  <2>2. hp[t][n].i \in DOMAIN Array(rec[t]) /\ Null \in Ptrs \cup Addrs \cup {Null}
    BY <1>6, <1>3, <2>1, OwnArray DEF DropHandle
  <2>3. arrays' \in [1 .. MaxRecs -> Seq(Seq(Ptrs \cup Addrs \cup {Null}))]
    BY <1>6, <1>3, <2>1, <2>2, PutEffect DEF DropHandle
  <2>4. SharedType'
    BY <1>1, <1>2, <1>6, <2>3 DEF DropHandle, Ready, Put, NoHp, Hazard
  <2>5. ThreadType'
    BY <1>1, <1>2, <1>6 DEF DropHandle, Ready, Put, NoHp, Hazard
  <2>6. pc' \in [Threads -> PCs]
    BY <1>1, <1>2, <1>6 DEF DropHandle, Ready, Put, NoHp, Hazard
  <2> QED  BY <2>4, <2>5, <2>6 DEF TypeOK
<1>7. ASSUME NEW n \in Handles, Load(t, n) PROVE TypeOK'
  <2>1. link \in Refs \cup {Null}
    BY <1>1, <1>2 DEF Roots
  <2>2. SharedType'
    BY <1>1, <1>2, <1>7 DEF Load, Ready, Hazard
  <2>3. ThreadType'
    BY <1>1, <1>2, <1>7 DEF Load, Ready, Hazard
  <2>4. pc' \in [Threads -> PCs]
    BY <1>1, <1>2, <1>7, <2>1, HandlePlace DEF Load, Ready, Hazard
  <2> QED  BY <2>2, <2>3, <2>4 DEF TypeOK
<1>8. ASSUME NEW n \in Handles, Clear(t, n) PROVE TypeOK'
  <2>1. rec[t] # 0
    BY <1>8 DEF Clear, Ready
  <2>2. hp[t][n].i \in DOMAIN Array(rec[t]) /\ Null \in Ptrs \cup Addrs \cup {Null}
    BY <1>8, <1>3, <2>1, OwnArray DEF Clear
  <2>3. arrays' \in [1 .. MaxRecs -> Seq(Seq(Ptrs \cup Addrs \cup {Null}))]
    BY <1>8, <1>3, <2>1, <2>2, PutEffect DEF Clear
  <2>4. SharedType'
    BY <1>1, <1>2, <1>8, <2>3 DEF Clear, Ready, Put, Hazard
  <2>5. ThreadType'
    BY <1>1, <1>2, <1>8 DEF Clear, Ready, Put, Hazard
  <2>6. pc' \in [Threads -> PCs]
    BY <1>1, <1>2, <1>8 DEF Clear, Ready, Put, Hazard
  <2> QED  BY <2>4, <2>5, <2>6 DEF TypeOK
<1>9. ASSUME NEW n \in Handles, NEW m \in Handles \ {n}, SwapHandles(t, n, m) PROVE TypeOK'
  <2>1. hp[t][n] \in [i : Nat, p : Ptrs \cup {Null}, held : SUBSET Refs] /\ hp[t][m] \in [i : Nat, p : Ptrs \cup {Null}, held : SUBSET Refs]
    BY <1>1, <1>2
  <2>2. hp' = [hp EXCEPT ![t][n] = hp[t][m], ![t][m] = hp[t][n]]
    BY <1>9 DEF SwapHandles
  <2>3. hp' \in [Threads -> [Handles -> [i : Nat, p : Ptrs \cup {Null}, held : SUBSET Refs]]]
    BY <1>1, <1>2, <2>1, <2>2
  <2>4. SharedType'
    BY <1>1, <1>2, <1>9 DEF SwapHandles, Ready
  <2>5. ThreadType'
    BY <1>1, <1>2, <1>9, <2>3 DEF SwapHandles, Ready
  <2>6. pc' \in [Threads -> PCs]
    BY <1>1, <1>2, <1>9 DEF SwapHandles, Ready
  <2> QED  BY <2>4, <2>5, <2>6 DEF TypeOK
<1>10. ASSUME NEW n \in Handles, NEW m \in Handles \ {n}, Copy(t, n, m) PROVE TypeOK'
  <2>1. rec[t] # 0
    BY <1>10 DEF Copy, Ready
  <2>2. hp[t][m].i \in DOMAIN Array(rec[t]) /\ hp[t][n].p \in Ptrs \cup Addrs \cup {Null}
    BY <1>10, <1>1, <1>2, <1>3, <2>1, OwnArray DEF Copy, Entries
  <2>3. arrays' \in [1 .. MaxRecs -> Seq(Seq(Ptrs \cup Addrs \cup {Null}))]
    BY <1>10, <1>3, <2>1, <2>2, PutEffect DEF Copy
  <2>4. SharedType'
    BY <1>1, <1>2, <1>10, <2>3 DEF Copy, Ready, Put, Hazard
  <2>5. ThreadType'
    BY <1>1, <1>2, <1>10 DEF Copy, Ready, Put, Hazard
  <2>6. pc' \in [Threads -> PCs]
    BY <1>1, <1>2, <1>10 DEF Copy, Ready, Put, Hazard
  <2> QED  BY <2>4, <2>5, <2>6 DEF TypeOK
<1> QED  BY <1>4, <1>5, <1>6, <1>7, <1>8, <1>9, <1>10 DEF Protecting

LEMMA TypeOK_Scanning == ASSUME SInv, NEW t \in Threads, Scanning(t) PROVE TypeOK'
<1> USE DEF SharedType, ThreadType, Goto, Idle, env, records, pool, domain, slot, batch, loop, judging, recl, history
<1>1. SharedType /\ ThreadType /\ pc \in [Threads -> PCs]
  BY DEF SInv, TypeOK
<1>2. back[t] \in Growing \cup {Idle} /\ pc[t] \in PCs
  BY <1>1
<1>3. TypeOK
  BY DEF SInv
<1>4. CASE Pop(t)
  <2>1. back[t] \in PCs
    BY <1>1, <1>2, Places, GrowingFields DEF Idle
  <2>2. SharedType'
    BY <1>1, <1>2, <1>4 DEF Pop, Again
  <2>3. ThreadType'
    BY <1>1, <1>2, <1>4 DEF Pop, Again
  <2>4. pc' \in [Threads -> PCs]
    BY <1>1, <1>2, <1>4, <2>1, Places DEF Pop, Again
  <2> QED  BY <2>2, <2>3, <2>4 DEF TypeOK
<1>5. CASE ReadHead(t)
  <2>1. SharedType'
    BY <1>1, <1>2, <1>5 DEF ReadHead
  <2>2. ThreadType'
    BY <1>1, <1>2, <1>5 DEF ReadHead
  <2>3. pc' \in [Threads -> PCs]
    BY <1>1, <1>2, <1>5, RecordPlace, SizeAssumption DEF ReadHead
  <2> QED  BY <2>1, <2>2, <2>3 DEF TypeOK
<1>6. CASE Record(t)
  <2>1. pc[t].k \in 1 .. MaxRecs /\ pc[t].k - 1 \in 0 .. MaxRecs
    BY <1>6, <1>1, <1>2, PlaceFields, SizeAssumption DEF Record
  <2>2. [at |-> "record", k |-> pc[t].k - 1] \in PCs
    BY <2>1, RecordPlace
  <2>3. [at |-> "array", k |-> pc[t].k] \in PCs
    BY <2>1, ArrayPlace
  <2>4. SharedType'
    BY <1>1, <1>2, <1>6 DEF Record
  <2>5. ThreadType'
    BY <1>1, <1>2, <1>6 DEF Record
  <2>6. pc' \in [Threads -> PCs]
    BY <1>1, <1>2, <1>6, <2>2, <2>3 DEF Record
  <2> QED  BY <2>4, <2>5, <2>6 DEF TypeOK
<1>7. ASSUME NEW i \in free[t], ReadArray(t, i) PROVE TypeOK'
  <2>1. pc[t].k \in 1 .. MaxRecs /\ Last(pc[t].k) \in Nat /\ i \in Nat \ {0}
    BY <1>7, <1>1, <1>2, PlaceFields DEF ReadArray, Last
  <2>2. SharedType'
    BY <1>1, <1>2, <1>7 DEF ReadArray
  <2>3. ThreadType'
    BY <1>1, <1>2, <1>7 DEF ReadArray
  <2>4. pc' \in [Threads -> PCs]
    BY <1>1, <1>2, <1>7, <2>1, ReadPlace DEF ReadArray
  <2> QED  BY <2>2, <2>3, <2>4 DEF TypeOK
<1>8. CASE ReadArrayGrow(t)
  <2>1. rec[t] # 0
    BY <1>8, <1>3 DEF ReadArrayGrow, SInv, ControlOK, ControlAt
  <2>2. [at |-> "extend", n |-> Len(Array(rec[t])), to |-> pc[t]] \in Return /\ Addr(rec[t], Last(rec[t])) \in Entries
    BY <1>8, <1>1, <1>2, <2>1, <1>3, OwnArray, PlaceFields, PlainShape, ExtendPlace, GrowingFields DEF ReadArrayGrow, Addr, Entries, Addrs
  <2>3. Grow(t, pc[t])
    BY <1>8 DEF ReadArrayGrow
  <2>4. /\ arrays' \in [1 .. MaxRecs -> Seq(Seq(Ptrs \cup Addrs \cup {Null}))]
        /\ retired' \in [Threads -> SUBSET Entries] /\ count' \in [Threads -> 0 .. 2 * FLUSH - 1]
        /\ gone' \subseteq Entries /\ gone \subseteq gone' /\ pc' \in [Threads -> PCs]
    BY <2>1, <2>2, <2>3, <1>3, GrowEffect, DeferType DEF Grow
  <2>5. SharedType'
    BY <1>1, <1>2, <1>8, <2>3, <2>4 DEF ReadArrayGrow, Grow, Defer
  <2>6. ThreadType'
    BY <1>1, <1>2, <1>8, <2>3, <2>4 DEF ReadArrayGrow, Grow, Defer
  <2>7. pc' \in [Threads -> PCs]
    BY <1>1, <1>2, <1>8, <2>4 DEF ReadArrayGrow, Grow, Defer
  <2> QED  BY <2>5, <2>6, <2>7 DEF TypeOK
<1>9. CASE GuardArray(t)
  <2>1. rec[t] # 0
    BY <1>9, <1>3 DEF GuardArray, SInv, ControlOK, ControlAt
  <2>2. pc[t].i \in DOMAIN Array(rec[t]) /\ Addr(pc[t].k, pc[t].g) \in Ptrs \cup Addrs \cup {Null}
    BY <1>9, <1>1, <1>2, <1>3, <2>1, PlaceFields, OwnArray DEF GuardArray, Scanner, Entries, Addrs, Addr
  <2>3. arrays' \in [1 .. MaxRecs -> Seq(Seq(Ptrs \cup Addrs \cup {Null}))]
    BY <1>9, <1>3, <2>1, <2>2, PutEffect DEF GuardArray, slot
  <2>4. SharedType'
    BY <1>1, <1>2, <1>9, <2>3 DEF GuardArray, Put, Look
  <2>5. ThreadType'
    BY <1>1, <1>2, <1>9 DEF GuardArray, Put, Look
  <2>6. pc' \in [Threads -> PCs]
    BY <1>1, <1>2, <1>9, PlaceFields, ReadPlace DEF GuardArray, Put, Look
  <2> QED  BY <2>4, <2>5, <2>6 DEF TypeOK
<1>10. CASE Recheck(t)
  <2>1. pc[t].k \in 1 .. MaxRecs /\ pc[t].i \in Nat \ {0} /\ pc[t].g \in Nat /\ Last(pc[t].k) \in Nat
    BY <1>10, <1>1, <1>2, PlaceFields DEF Recheck, Last
  <2>2. Slot(pc[t], 1) \in PCs
    BY <2>1, SlotPlace DEF Slot
  <2>3. Look("guard", pc[t], Last(pc[t].k)) \in PCs
    BY <2>1, ReadPlace DEF Look
  <2>4. SharedType'
    BY <1>1, <1>2, <1>10 DEF Recheck, Look, Slot
  <2>5. ThreadType'
    BY <1>1, <1>2, <1>10 DEF Recheck, Look, Slot
  <2>6. pc' \in [Threads -> PCs]
    BY <1>1, <1>2, <1>10, <2>2, <2>3 DEF Recheck
  <2> QED  BY <2>4, <2>5, <2>6 DEF TypeOK
<1>11. CASE ReadSlot(t)
  <2>1. /\ pc[t].k \in 1 .. MaxRecs /\ pc[t].i \in Nat \ {0} /\ pc[t].j \in Nat \ {0}
        /\ pc[t].g \in 1 .. Last(pc[t].k)
    BY <1>11, <1>1, <1>2, <1>3, PlaceFields DEF ReadSlot, SInv, ControlOK, ControlAt
  <2>2. arrays[pc[t].k][pc[t].g] \in Seq(Ptrs \cup Addrs \cup {Null})
    BY <1>1, <1>2, <2>1 DEF Last
  <2>3. arrays[pc[t].k][pc[t].g][pc[t].j] \in Ptrs \cup Addrs \cup {Null}
    BY <1>11, <2>1, <2>2 DEF ReadSlot
  <2>4. pc[t].g \in Nat /\ pc[t].j + 1 \in Nat \ {0}
    BY <2>1 DEF Last
  <2>5. Slot(pc[t], pc[t].j + 1) \in PCs
    BY <2>1, <2>4, SlotPlace DEF Slot
  <2>6. SharedType'
    BY <1>1, <1>2, <1>11 DEF ReadSlot, Slot
  <2>7. ThreadType'
    BY <1>1, <1>2, <1>11, <2>3 DEF ReadSlot, Slot
  <2>8. pc' \in [Threads -> PCs]
    BY <1>1, <1>2, <1>11, <2>5 DEF ReadSlot
  <2> QED  BY <2>6, <2>7, <2>8 DEF TypeOK
<1>12. CASE EndArray(t)
  <2>1. rec[t] # 0
    BY <1>12, <1>3 DEF EndArray, SInv, ControlOK, ControlAt
  <2>2. pc[t].i \in DOMAIN Array(rec[t]) /\ Null \in Ptrs \cup Addrs \cup {Null}
    BY <1>12, <1>1, <1>2, <1>3, <2>1, PlaceFields, OwnArray DEF EndArray, Scanner
  <2>3. arrays' \in [1 .. MaxRecs -> Seq(Seq(Ptrs \cup Addrs \cup {Null}))]
    BY <1>12, <1>3, <2>1, <2>2, PutEffect DEF EndArray
  <2>4. pc[t].i \in Nat \ {0} /\ pc[t].k - 1 \in 0 .. MaxRecs
    BY <1>12, <1>1, <1>2, PlaceFields, SizeAssumption DEF EndArray
  <2>5. SharedType'
    BY <1>1, <1>2, <1>12, <2>3 DEF EndArray, Put
  <2>6. ThreadType'
    BY <1>1, <1>2, <1>12, <2>4 DEF EndArray, Put
  <2>7. pc' \in [Threads -> PCs]
    BY <1>1, <1>2, <1>12, <2>4, RecordPlace DEF EndArray, Put
  <2> QED  BY <2>5, <2>6, <2>7 DEF TypeOK
<1> QED  BY <1>4, <1>5, <1>6, <1>7, <1>8, <1>9, <1>10, <1>11, <1>12 DEF Scanning

LEMMA TypeOK_Judgement == ASSUME SInv, NEW t \in Threads, Judgement(t) PROVE TypeOK'
<1> USE DEF SharedType, ThreadType, Goto, Idle, env, records, pool, domain, slot, batch, loop, judging, recl, history
<1>1. SharedType /\ ThreadType /\ pc \in [Threads -> PCs]
  BY DEF SInv, TypeOK
<1>2. back[t] \in Growing \cup {Idle} /\ pc[t] \in PCs
  BY <1>1
<1>3. TypeOK
  BY DEF SInv
<1>4. ASSUME NEW e \in popped[t], Call(t, e) PROVE TypeOK'
  <2>1. [at |-> "judge"] \in Return /\ [at |-> "judge"] \in PCs /\ e \in Entries
    BY <1>1, <1>2, Places
  <2>2. \/ /\ UNCHANGED <<retired, count, gone>> /\ Goto(t, [at |-> "judge"])
         \/ \E c \in Entries : Defer(t, c, [at |-> "judge"])
    BY <1>4, ChildAssumption DEF Call, batch, Entries
  <2>3. ASSUME NEW c \in Entries, Defer(t, c, [at |-> "judge"])
       PROVE  /\ retired' \in [Threads -> SUBSET Entries] /\ count' \in [Threads -> 0 .. 2 * FLUSH - 1]
              /\ gone' \subseteq Entries /\ gone \subseteq gone' /\ pc' \in [Threads -> PCs]
    BY <2>3, <1>3, <2>1, DeferType
  <2>4. /\ retired' \in [Threads -> SUBSET Entries] /\ count' \in [Threads -> 0 .. 2 * FLUSH - 1]
        /\ gone' \subseteq Entries /\ gone \subseteq gone' /\ pc' \in [Threads -> PCs]
    BY <1>1, <1>2, <2>1, <2>2, <2>3
  <2>5. SharedType'
    BY <1>1, <1>2, <1>4, <2>1, <2>4 DEF Call, Defer, Judging
  <2>6. ThreadType'
    BY <1>1, <1>2, <1>4, <2>4 DEF Call, Defer, Judging
  <2>7. pc' \in [Threads -> PCs]
    BY <1>1, <1>2, <1>4, <2>4 DEF Call, Defer, Judging
  <2> QED  BY <2>5, <2>6, <2>7 DEF TypeOK
<1>5. CASE Discount(t)
  <2>1. SharedType'
    BY <1>1, <1>2, <1>5 DEF Discount, Judging
  <2>2. ThreadType'
    BY <1>1, <1>2, <1>5 DEF Discount, Judging
  <2>3. pc' \in [Threads -> PCs]
    BY <1>1, <1>2, <1>5, Places DEF Discount, Judging
  <2> QED  BY <2>1, <2>2, <2>3 DEF TypeOK
<1>6. CASE PutBack(t)
  <2>1. back[t] \in PCs
    BY <1>1, <1>2, Places, GrowingFields DEF Idle
  <2>2. SharedType'
    BY <1>1, <1>2, <1>6 DEF PutBack, Again
  <2>3. ThreadType'
    BY <1>1, <1>2, <1>6 DEF PutBack, Again
  <2>4. pc' \in [Threads -> PCs]
    <3>1. pc' = [pc EXCEPT ![t] = [at |-> "pop"]] \/ pc' = [pc EXCEPT ![t] = back[t]]
      BY <1>6 DEF PutBack, Again
    <3> QED  BY <1>1, <2>1, <3>1, Places
  <2> QED  BY <2>2, <2>3, <2>4 DEF TypeOK
<1> QED  BY <1>4, <1>5, <1>6 DEF Judgement

-------------------------------------------------------------------------------
(* A step of one thread leaves the others alone. *)

Same(u) == /\ rec'[u] = rec[u] /\ free'[u] = free[u] /\ hp'[u] = hp[u] /\ pc'[u] = pc[u]
           /\ back'[u] = back[u] /\ in_recl'[u] = in_recl[u] /\ must_retry'[u] = must_retry[u]
           /\ popped'[u] = popped[u] /\ guarded'[u] = guarded[u]
Alone(t) == \A u \in Threads \ {t} : Same(u)

LEMMA Alone_Living == ASSUME SInv, NEW t \in Threads, Living(t) PROVE Alone(t)
<1> USE DEF Alone, Same, Goto, env, records, pool, domain, slot, batch, loop, judging, recl, history
<1>1. ThreadType /\ pc \in [Threads -> PCs]
  BY DEF SInv, TypeOK
<1>2. CASE Start(t)
  BY <1>1, <1>2 DEF ThreadType, Start
<1>3. CASE Skip(t)
  BY <1>1, <1>3 DEF ThreadType, Skip
<1>4. CASE Recycle(t)
  BY <1>1, <1>4 DEF ThreadType, Recycle, Take
<1>5. CASE NewRecord(t)
  BY <1>1, <1>5 DEF ThreadType, NewRecord, Take
<1>6. CASE Exit(t)
  BY <1>1, <1>6 DEF ThreadType, Exit, Ready
<1>7. CASE Release(t)
  BY <1>1, <1>7 DEF ThreadType, Release
<1> QED  BY <1>2, <1>3, <1>4, <1>5, <1>6, <1>7 DEF Living

LEMMA Alone_Retiring == ASSUME SInv, NEW t \in Threads, Retiring(t) PROVE Alone(t)
<1> USE DEF Alone, Same, Goto, env, records, pool, domain, slot, batch, loop, judging, recl, history
<1>1. ThreadType /\ pc \in [Threads -> PCs]
  BY DEF SInv, TypeOK
<1>2. ASSUME NEW o \in Roots \cup {Null}, Swap(t, o) PROVE Alone(t)
  BY <1>1, <1>2 DEF ThreadType, Swap, Ready
<1>6. ASSUME NEW o \in Roots, Drop(t, o) PROVE Alone(t)
  BY <1>1, <1>6 DEF ThreadType, Drop, Defer, Ready
<1>3. CASE EagerReclaim(t)
  BY <1>1, <1>3 DEF ThreadType, EagerReclaim, Ready
<1>4. CASE Flush(t)
  BY <1>1, <1>4 DEF ThreadType, Flush
<1>5. CASE Push(t)
  BY <1>1, <1>5 DEF ThreadType, Push
<1> QED  BY <1>2, <1>3, <1>4, <1>5, <1>6 DEF Retiring

LEMMA Alone_Slots == ASSUME SInv, NEW t \in Threads, Slots(t) PROVE Alone(t)
<1> USE DEF Alone, Same, Goto, env, records, pool, domain, slot, batch, loop, judging, recl, history
<1>1. ThreadType /\ pc \in [Threads -> PCs]
  BY DEF SInv, TypeOK
<1>2. CASE Extend(t)
  BY <1>1, <1>2 DEF ThreadType, Extend
<1>3. ASSUME NEW n \in Handles, NEW i \in free[t], Acquire(t, n, i) PROVE Alone(t)
  BY <1>1, <1>3 DEF ThreadType, Acquire, Wants, Ready
<1>4. ASSUME NEW n \in Handles, AcquireGrow(t, n) PROVE Alone(t)
  BY <1>1, <1>4 DEF ThreadType, AcquireGrow, Wants, Ready, Grow, Defer
<1> QED  BY <1>2, <1>3, <1>4 DEF Slots

LEMMA Alone_Protecting == ASSUME SInv, NEW t \in Threads, Protecting(t) PROVE Alone(t)
<1> USE DEF Alone, Same, Goto, env, records, pool, domain, slot, batch, loop, judging, recl, history
<1>1. ThreadType /\ pc \in [Threads -> PCs]
  BY DEF SInv, TypeOK
<1>2. CASE Publish(t)
  BY <1>1, <1>2 DEF ThreadType, Publish
<1>3. CASE Validate(t)
  BY <1>1, <1>3 DEF ThreadType, Validate, Trust
<1>4. ASSUME NEW n \in Handles, DropHandle(t, n) PROVE Alone(t)
  BY <1>1, <1>4 DEF ThreadType, DropHandle, Ready
<1>5. ASSUME NEW n \in Handles, Load(t, n) PROVE Alone(t)
  BY <1>1, <1>5 DEF ThreadType, Load, Ready
<1>6. ASSUME NEW n \in Handles, Clear(t, n) PROVE Alone(t)
  BY <1>1, <1>6 DEF ThreadType, Clear, Ready
<1>7. ASSUME NEW n \in Handles, NEW m \in Handles \ {n}, SwapHandles(t, n, m) PROVE Alone(t)
  BY <1>1, <1>7 DEF ThreadType, SwapHandles, Ready
<1>8. ASSUME NEW n \in Handles, NEW m \in Handles \ {n}, Copy(t, n, m) PROVE Alone(t)
  BY <1>1, <1>8 DEF ThreadType, Copy, Ready
<1> QED  BY <1>2, <1>3, <1>4, <1>5, <1>6, <1>7, <1>8 DEF Protecting

LEMMA Alone_Scanning == ASSUME SInv, NEW t \in Threads, Scanning(t) PROVE Alone(t)
<1> USE DEF Alone, Same, Goto, env, records, pool, domain, slot, batch, loop, judging, recl, history
<1>1. ThreadType /\ pc \in [Threads -> PCs]
  BY DEF SInv, TypeOK
<1>2. CASE Pop(t)
  BY <1>1, <1>2 DEF ThreadType, Pop, Again
<1>3. CASE ReadHead(t)
  BY <1>1, <1>3 DEF ThreadType, ReadHead
<1>4. CASE Record(t)
  BY <1>1, <1>4 DEF ThreadType, Record
<1>5. ASSUME NEW i \in free[t], ReadArray(t, i) PROVE Alone(t)
  BY <1>1, <1>5 DEF ThreadType, ReadArray
<1>6. CASE ReadArrayGrow(t)
  BY <1>1, <1>6 DEF ThreadType, ReadArrayGrow, Grow, Defer
<1>7. CASE GuardArray(t)
  BY <1>1, <1>7 DEF ThreadType, GuardArray
<1>8. CASE Recheck(t)
  BY <1>1, <1>8 DEF ThreadType, Recheck
<1>9. CASE ReadSlot(t)
  BY <1>1, <1>9 DEF ThreadType, ReadSlot
<1>10. CASE EndArray(t)
  BY <1>1, <1>10 DEF ThreadType, EndArray
<1> QED  BY <1>2, <1>3, <1>4, <1>5, <1>6, <1>7, <1>8, <1>9, <1>10 DEF Scanning

LEMMA Alone_Judgement == ASSUME SInv, NEW t \in Threads, Judgement(t) PROVE Alone(t)
<1> USE DEF Alone, Same, Goto, env, records, pool, domain, slot, batch, loop, judging, recl, history
<1>1. ThreadType /\ pc \in [Threads -> PCs]
  BY DEF SInv, TypeOK
<1>2. ASSUME NEW e \in popped[t], Call(t, e) PROVE Alone(t)
  BY <1>1, <1>2 DEF ThreadType, Call, Defer, Judging
<1>3. CASE Discount(t)
  BY <1>1, <1>3 DEF ThreadType, Discount, Judging
<1>4. CASE PutBack(t)
  BY <1>1, <1>4 DEF ThreadType, PutBack, Again
<1> QED  BY <1>2, <1>3, <1>4 DEF Judgement

\* What a step may do to the arrays: write one slot of its own, or grow its own.
Written(t)  == \E i \in DOMAIN Array(rec[t]) : \E p \in Ptrs \cup Addrs \cup {Null} :
                 rec[t] # 0 /\ Put(t, i, p) /\ UNCHANGED rec
Extended(t) == \E p : rec[t] # 0 /\ Grow(t, p)
LEMMA ArraysStep ==
  ASSUME SInv, NEW t \in Threads, Step(t)
  PROVE  UNCHANGED arrays \/ Written(t) \/ Extended(t)
<1> USE DEF env, records, pool, domain, slot, batch, loop, judging, recl, history
<1>1. SharedType /\ ThreadType /\ pc \in [Threads -> PCs] /\ ControlAt(t)
  BY DEF SInv, TypeOK, ControlOK
<1>2. back[t] \in Growing \cup {Idle} /\ pc[t] \in PCs
  BY <1>1 DEF ThreadType
<1>3. CASE Living(t)
  <2>1. CASE Start(t)
    BY <2>1 DEF Start
  <2>2. CASE Skip(t)
    BY <2>2 DEF Skip
  <2>3. CASE Recycle(t)
    BY <2>3 DEF Recycle, Take
  <2>4. CASE NewRecord(t)
    BY <2>4 DEF NewRecord, Take
  <2>5. CASE Exit(t)
    BY <2>5 DEF Exit
  <2>6. CASE Release(t)
    BY <2>6 DEF Release
  <2> QED  BY <1>3, <2>1, <2>2, <2>3, <2>4, <2>5, <2>6 DEF Living
<1>4. CASE Retiring(t)
  <2>1. ASSUME NEW o \in Roots \cup {Null}, Swap(t, o) PROVE UNCHANGED arrays \/ Written(t) \/ Extended(t)
    BY <2>1 DEF Swap
  <2>5. ASSUME NEW o \in Roots, Drop(t, o) PROVE UNCHANGED arrays \/ Written(t) \/ Extended(t)
    BY <2>5 DEF Drop
  <2>2. CASE EagerReclaim(t)
    BY <2>2 DEF EagerReclaim
  <2>3. CASE Flush(t)
    BY <2>3 DEF Flush
  <2>4. CASE Push(t)
    BY <2>4 DEF Push
  <2> QED  BY <1>4, <2>1, <2>2, <2>3, <2>4, <2>5 DEF Retiring
<1>5. CASE Slots(t)
  <2>1. CASE Extend(t)
    BY <2>1 DEF Extend
  <2>2. ASSUME NEW n \in Handles, NEW i \in free[t], Acquire(t, n, i) PROVE UNCHANGED arrays \/ Written(t) \/ Extended(t)
    BY <2>2 DEF Acquire, Wants
  <2>3. ASSUME NEW n \in Handles, AcquireGrow(t, n) PROVE UNCHANGED arrays \/ Written(t) \/ Extended(t)
    BY <1>1, <2>3 DEF AcquireGrow, Extended, ControlAt, Wants, Ready
  <2> QED  BY <1>5, <2>1, <2>2, <2>3 DEF Slots
<1>6. CASE Protecting(t)
  <2>1. CASE Publish(t)
    <3>1. rec[t] # 0 /\ Put(t, hp[t][pc[t].h].i, PtrOf(pc[t].o)) /\ UNCHANGED rec
      BY <1>1, <2>1 DEF ControlAt, Ready, Publish
    <3>2. hp[t][pc[t].h].i \in DOMAIN Array(rec[t])
      BY <1>1, <2>1, <3>1, OwnArray, PlaceFields DEF Publish, Scanner, SInv, HandlesOK, HandleAt
    <3>3. PtrOf(pc[t].o) \in Ptrs \cup Addrs \cup {Null}
      BY <1>1, <2>1, PlaceFields, Pointers DEF Publish, Entries, Addrs, Addr, ThreadType
    <3> QED  BY <3>1, <3>2, <3>3 DEF Written
  <2>2. CASE Validate(t)
    BY <2>2 DEF Validate, Trust
  <2>3. ASSUME NEW n \in Handles, DropHandle(t, n) PROVE UNCHANGED arrays \/ Written(t) \/ Extended(t)
    <3>1. rec[t] # 0 /\ Put(t, hp[t][n].i, Null) /\ UNCHANGED rec
      BY <1>1, <2>3 DEF ControlAt, Ready, DropHandle
    <3>2. hp[t][n].i \in DOMAIN Array(rec[t])
      BY <1>1, <2>3, <3>1, OwnArray, PlaceFields DEF DropHandle, Scanner, SInv, HandlesOK, HandleAt
    <3>3. Null \in Ptrs \cup Addrs \cup {Null}
      BY <1>1, <2>3, PlaceFields DEF DropHandle, Entries, Addrs, Addr, ThreadType
    <3> QED  BY <3>1, <3>2, <3>3 DEF Written
  <2>4. ASSUME NEW n \in Handles, Load(t, n) PROVE UNCHANGED arrays \/ Written(t) \/ Extended(t)
    BY <2>4 DEF Load
  <2>5. ASSUME NEW n \in Handles, Clear(t, n) PROVE UNCHANGED arrays \/ Written(t) \/ Extended(t)
    <3>1. rec[t] # 0 /\ Put(t, hp[t][n].i, Null) /\ UNCHANGED rec
      BY <1>1, <2>5 DEF ControlAt, Ready, Clear
    <3>2. hp[t][n].i \in DOMAIN Array(rec[t])
      BY <1>1, <2>5, <3>1, OwnArray, PlaceFields DEF Clear, Scanner, SInv, HandlesOK, HandleAt
    <3>3. Null \in Ptrs \cup Addrs \cup {Null}
      BY <1>1, <2>5, PlaceFields DEF Clear, Entries, Addrs, Addr, ThreadType
    <3> QED  BY <3>1, <3>2, <3>3 DEF Written
  <2>6. ASSUME NEW n \in Handles, NEW m \in Handles \ {n}, SwapHandles(t, n, m) PROVE UNCHANGED arrays \/ Written(t) \/ Extended(t)
    BY <2>6 DEF SwapHandles
  <2>7. ASSUME NEW n \in Handles, NEW m \in Handles \ {n}, Copy(t, n, m) PROVE UNCHANGED arrays \/ Written(t) \/ Extended(t)
    <3>1. rec[t] # 0 /\ Put(t, hp[t][m].i, hp[t][n].p) /\ UNCHANGED rec
      BY <1>1, <2>7 DEF ControlAt, Ready, Copy
    <3>2. hp[t][m].i \in DOMAIN Array(rec[t])
      BY <1>1, <2>7, <3>1, OwnArray, PlaceFields DEF Copy, Scanner, SInv, HandlesOK, HandleAt
    <3>3. hp[t][n].p \in Ptrs \cup Addrs \cup {Null}
      BY <1>1, <2>7, PlaceFields DEF Copy, Entries, Addrs, Addr, ThreadType
    <3> QED  BY <3>1, <3>2, <3>3 DEF Written
  <2> QED  BY <1>6, <2>1, <2>2, <2>3, <2>4, <2>5, <2>6, <2>7 DEF Protecting
<1>7. CASE Scanning(t)
  <2>1. CASE Pop(t)
    BY <2>1 DEF Pop, Again
  <2>2. CASE ReadHead(t)
    BY <2>2 DEF ReadHead
  <2>3. CASE Record(t)
    BY <2>3 DEF Record
  <2>4. ASSUME NEW i \in free[t], ReadArray(t, i) PROVE UNCHANGED arrays \/ Written(t) \/ Extended(t)
    BY <2>4 DEF ReadArray
  <2>5. CASE ReadArrayGrow(t)
    BY <1>1, <2>5 DEF ReadArrayGrow, Extended, ControlAt, Wants, Ready
  <2>6. CASE GuardArray(t)
    <3>1. rec[t] # 0 /\ Put(t, pc[t].i, Addr(pc[t].k, pc[t].g)) /\ UNCHANGED rec
      BY <1>1, <2>6 DEF ControlAt, Ready, GuardArray
    <3>2. pc[t].i \in DOMAIN Array(rec[t])
      BY <1>1, <2>6, <3>1, OwnArray, PlaceFields DEF GuardArray, Scanner, SInv, HandlesOK, HandleAt
    <3>3. Addr(pc[t].k, pc[t].g) \in Ptrs \cup Addrs \cup {Null}
      BY <1>1, <2>6, PlaceFields DEF GuardArray, Entries, Addrs, Addr, ThreadType
    <3> QED  BY <3>1, <3>2, <3>3 DEF Written
  <2>7. CASE Recheck(t)
    BY <2>7 DEF Recheck
  <2>8. CASE ReadSlot(t)
    BY <2>8 DEF ReadSlot
  <2>9. CASE EndArray(t)
    <3>1. rec[t] # 0 /\ Put(t, pc[t].i, Null) /\ UNCHANGED rec
      BY <1>1, <2>9 DEF ControlAt, Ready, EndArray
    <3>2. pc[t].i \in DOMAIN Array(rec[t])
      BY <1>1, <2>9, <3>1, OwnArray, PlaceFields DEF EndArray, Scanner, SInv, HandlesOK, HandleAt
    <3>3. Null \in Ptrs \cup Addrs \cup {Null}
      BY <1>1, <2>9, PlaceFields DEF EndArray, Entries, Addrs, Addr, ThreadType
    <3> QED  BY <3>1, <3>2, <3>3 DEF Written
  <2> QED  BY <1>7, <2>1, <2>2, <2>3, <2>4, <2>5, <2>6, <2>7, <2>8, <2>9 DEF Scanning
<1>8. CASE Judgement(t)
  <2>1. ASSUME NEW e \in popped[t], Call(t, e) PROVE UNCHANGED arrays \/ Written(t) \/ Extended(t)
    BY <2>1 DEF Call, Judging
  <2>2. CASE Discount(t)
    BY <2>2 DEF Discount, Judging
  <2>3. CASE PutBack(t)
    BY <2>3 DEF PutBack, Again
  <2> QED  BY <1>8, <2>1, <2>2, <2>3 DEF Judgement
<1> QED  BY <1>3, <1>4, <1>5, <1>6, <1>7, <1>8 DEF Step

\* Other records keep their arrays; an older array of the thread's own stays as it is.
LEMMA ArraysKept ==
  ASSUME SInv, NEW t \in Threads, Step(t)
  PROVE  /\ \A k \in 1 .. MaxRecs : k # rec[t] => arrays'[k] = arrays[k] /\ Last(k)' = Last(k)
         /\ \A k \in 1 .. MaxRecs : /\ Last(k) \in Nat /\ Last(k)' \in Nat /\ Last(k) <= Last(k)'
                                    /\ Last(k) < Last(k)' => arrays'[k][Last(k)] = arrays[k][Last(k)]
                                    /\ \A g \in 1 .. Last(k) - 1 : arrays'[k][g] = arrays[k][g]
<1>1. \A k \in 1 .. MaxRecs : Last(k) \in Nat
  BY DEF SInv, TypeOK, SharedType, Last
<1>2. CASE UNCHANGED arrays
  BY <1>1, <1>2 DEF Last
<1>3. ASSUME NEW i \in DOMAIN Array(rec[t]), NEW p \in Ptrs \cup Addrs \cup {Null}, rec[t] # 0, Put(t, i, p),
             UNCHANGED rec
      PROVE  /\ \A k \in 1 .. MaxRecs : Last(k)' = Last(k) /\ (k # rec[t] => arrays'[k] = arrays[k])
             /\ \A g \in 1 .. Last(rec[t]) - 1 : arrays'[rec[t]][g] = arrays[rec[t]][g]
  BY <1>3, PutEffect
<1>4. ASSUME NEW p, rec[t] # 0, Grow(t, p)
      PROVE  /\ Last(rec[t])' = Last(rec[t]) + 1 /\ UNCHANGED rec
             /\ \A k \in 1 .. MaxRecs : k # rec[t] => Last(k)' = Last(k) /\ arrays'[k] = arrays[k]
             /\ \A g \in 1 .. Last(rec[t]) : arrays'[rec[t]][g] = arrays[rec[t]][g]
  BY <1>4, GrowEffect DEF Grow, slot
<1>5. CASE Written(t)
  BY <1>1, <1>3, <1>5 DEF Written
<1>6. CASE Extended(t)
  <2>1. PICK p : rec[t] # 0 /\ Grow(t, p)
    BY <1>6 DEF Extended
  <2>2. rec[t] \in 1 .. MaxRecs /\ Last(rec[t]) \in Nat \ {0}
    BY <2>1, OwnArray
  <2>3. /\ Last(rec[t])' = Last(rec[t]) + 1 /\ UNCHANGED rec
        /\ \A k \in 1 .. MaxRecs : k # rec[t] => Last(k)' = Last(k) /\ arrays'[k] = arrays[k]
        /\ \A g \in 1 .. Last(rec[t]) : arrays'[rec[t]][g] = arrays[rec[t]][g]
    BY <1>4, <2>1
  <2>4. ASSUME NEW k \in 1 .. MaxRecs, k = rec[t]
        PROVE  /\ Last(k)' = Last(k) + 1
               /\ \A g \in 1 .. Last(k) : arrays'[k][g] = arrays[k][g]
    BY <2>3, <2>4
  <2>5. ASSUME NEW k \in 1 .. MaxRecs, k # rec[t]
        PROVE  Last(k)' = Last(k) /\ arrays'[k] = arrays[k]
    BY <2>3, <2>5
  <2> QED  BY <1>1, <2>2, <2>4, <2>5
<1> QED  BY <1>2, <1>5, <1>6, ArraysStep

-------------------------------------------------------------------------------
(* Control. *)

\* A flush on the way does not change where a thread goes on.
LEMMA DeferGoes ==
  ASSUME TypeOK, NEW t \in Threads, NEW e, NEW p \in Return, Defer(t, e, p)
  PROVE  /\ Inner(pc'[t]) = p /\ Base(pc'[t]) = Base(p)
         /\ pc'[t].at \in {"flush", "idle", "release", "judge", "extend"}
<1>1. pc \in [Threads -> PCs]
  BY DEF TypeOK
<1>2. pc'[t] = p \/ pc'[t] = [at |-> "flush", to |-> p]
  BY <1>1 DEF Defer, Goto
<1>3. p.at \in {"idle", "release", "judge", "extend"}
  BY ReturnFields
<1> QED  BY <1>2, <1>3 DEF Inner, Base

\* Reading another thread's array moves no array.
LEMMA ScanKeeps ==
  ASSUME SInv, NEW t \in Threads,
         \/ \E i \in free[t] : ReadArray(t, i)
         \/ GuardArray(t) \/ Recheck(t) \/ ReadSlot(t)
  PROVE  \A k \in 1 .. MaxRecs : Last(k) \in Nat /\ Len(arrays'[k]) = Last(k)
<1>1. SharedType
  BY DEF SInv, TypeOK
<1>2. CASE UNCHANGED arrays
  BY <1>1, <1>2 DEF SharedType, Last
<1>3. CASE GuardArray(t)
  <2>1. arrays' = [arrays EXCEPT ![rec[t]][Last(rec[t])][pc[t].i] = Addr(pc[t].k, pc[t].g)]
    BY <1>3 DEF GuardArray, Put
  <2> QED  BY <1>1, <2>1 DEF SharedType, Last
<1> QED  BY <1>2, <1>3 DEF ReadArray, Recheck, ReadSlot, domain

LEMMA Control_Living == ASSUME SInv, NEW t \in Threads, Living(t) PROVE ControlAt(t)'
<1> USE DEF ControlAt, Base, Inner, Scans, Goto, Idle, env, records, pool, domain, slot, batch, loop, judging, recl, history
<1>1. ThreadType /\ pc \in [Threads -> PCs] /\ ControlAt(t) /\ TypeOK
  BY DEF SInv, TypeOK, ControlOK
<1>2. back[t] \in Growing \cup {Idle} /\ pc[t] \in PCs
  BY <1>1 DEF ThreadType
<1>3. CASE Start(t)
  BY <1>1, <1>2, <1>3, PlaceFields, GrowingFields, ReturnFields DEF ThreadType, Start
<1>4. CASE Skip(t)
  BY <1>1, <1>2, <1>4, PlaceFields, GrowingFields, ReturnFields DEF ThreadType, Skip
<1>5. CASE Recycle(t)
  BY <1>1, <1>2, <1>5, PlaceFields, GrowingFields, ReturnFields DEF ThreadType, Recycle, Take
<1>6. CASE NewRecord(t)
  BY <1>1, <1>2, <1>6, PlaceFields, GrowingFields, ReturnFields DEF ThreadType, NewRecord, Take
<1>7. CASE Exit(t)
  BY <1>1, <1>2, <1>7, PlaceFields, GrowingFields, ReturnFields DEF ThreadType, Exit, Ready
<1>8. CASE Release(t)
  BY <1>1, <1>2, <1>8, PlaceFields, GrowingFields, ReturnFields DEF ThreadType, Release
<1> QED  BY <1>3, <1>4, <1>5, <1>6, <1>7, <1>8 DEF Living

LEMMA Control_Retiring == ASSUME SInv, NEW t \in Threads, Retiring(t) PROVE ControlAt(t)'
<1> USE DEF ControlAt, Base, Inner, Scans, Goto, Idle, env, records, pool, domain, slot, batch, loop, judging, recl, history
<1>1. ThreadType /\ pc \in [Threads -> PCs] /\ ControlAt(t) /\ TypeOK
  BY DEF SInv, TypeOK, ControlOK
<1>2. back[t] \in Growing \cup {Idle} /\ pc[t] \in PCs
  BY <1>1 DEF ThreadType
<1>3. ASSUME NEW o \in Roots \cup {Null}, Swap(t, o) PROVE ControlAt(t)'
  BY <1>1, <1>2, <1>3, PlaceFields, GrowingFields, ReturnFields DEF ThreadType, Swap, Ready
<1>7. ASSUME NEW o \in Roots, Drop(t, o) PROVE ControlAt(t)'
  BY <1>1, <1>2, <1>7, PlaceFields, GrowingFields, ReturnFields DEF ThreadType, Drop, Defer, Ready
<1>4. CASE EagerReclaim(t)
  BY <1>1, <1>2, <1>4, PlaceFields, GrowingFields, ReturnFields DEF ThreadType, EagerReclaim, Ready
<1>5. CASE Flush(t)
  BY <1>1, <1>2, <1>5, PlaceFields, GrowingFields, ReturnFields DEF ThreadType, Flush
<1>6. CASE Push(t)
  BY <1>1, <1>2, <1>6, PlaceFields, GrowingFields, ReturnFields DEF ThreadType, Push
<1> QED  BY <1>3, <1>4, <1>5, <1>6, <1>7 DEF Retiring

LEMMA Control_Slots == ASSUME SInv, NEW t \in Threads, Slots(t) PROVE ControlAt(t)'
<1> USE DEF ControlAt, Base, Inner, Scans, Goto, Idle, env, records, pool, domain, slot, batch, loop, judging, recl, history
<1>1. ThreadType /\ pc \in [Threads -> PCs] /\ ControlAt(t) /\ TypeOK
  BY DEF SInv, TypeOK, ControlOK
<1>2. back[t] \in Growing \cup {Idle} /\ pc[t] \in PCs
  BY <1>1 DEF ThreadType
<1>3. CASE Extend(t)
  BY <1>1, <1>2, <1>3, PlaceFields, GrowingFields, ReturnFields DEF ThreadType, Extend
<1>4. ASSUME NEW n \in Handles, NEW i \in free[t], Acquire(t, n, i) PROVE ControlAt(t)'
  BY <1>1, <1>2, <1>4, PlaceFields, GrowingFields, ReturnFields DEF ThreadType, Acquire, Wants, Ready
<1>5. ASSUME NEW n \in Handles, AcquireGrow(t, n) PROVE ControlAt(t)'
  BY <1>1, <1>2, <1>5, PlaceFields, GrowingFields, ReturnFields DEF ThreadType, AcquireGrow, Wants, Ready, Grow, Defer
<1> QED  BY <1>3, <1>4, <1>5 DEF Slots

LEMMA Control_Protecting == ASSUME SInv, NEW t \in Threads, Protecting(t) PROVE ControlAt(t)'
<1> USE DEF ControlAt, Base, Inner, Scans, Goto, Idle, env, records, pool, domain, slot, batch, loop, judging, recl, history
<1>1. ThreadType /\ pc \in [Threads -> PCs] /\ ControlAt(t) /\ TypeOK
  BY DEF SInv, TypeOK, ControlOK
<1>2. back[t] \in Growing \cup {Idle} /\ pc[t] \in PCs
  BY <1>1 DEF ThreadType
<1>3. CASE Publish(t)
  BY <1>1, <1>2, <1>3, PlaceFields, GrowingFields, ReturnFields DEF ThreadType, Publish
<1>4. CASE Validate(t)
  <2>1. pc'[t] = Idle \/ pc'[t] = [at |-> "publish", h |-> pc[t].h, o |-> link]
    BY <1>1, <1>4 DEF Validate, Trust
  <2>2. rec' = rec /\ in_recl' = in_recl /\ must_retry' = must_retry /\ back' = back /\ popped' = popped
    BY <1>4 DEF Validate
  <2> QED  BY <1>1, <1>4, <2>1, <2>2 DEF Validate
<1>5. ASSUME NEW n \in Handles, DropHandle(t, n) PROVE ControlAt(t)'
  BY <1>1, <1>2, <1>5, PlaceFields, GrowingFields, ReturnFields DEF ThreadType, DropHandle, Ready
<1>6. ASSUME NEW n \in Handles, Load(t, n) PROVE ControlAt(t)'
  BY <1>1, <1>2, <1>6, PlaceFields, GrowingFields, ReturnFields DEF ThreadType, Load, Ready
<1>7. ASSUME NEW n \in Handles, Clear(t, n) PROVE ControlAt(t)'
  BY <1>1, <1>2, <1>7, PlaceFields, GrowingFields, ReturnFields DEF ThreadType, Clear, Ready
<1>8. ASSUME NEW n \in Handles, NEW m \in Handles \ {n}, SwapHandles(t, n, m) PROVE ControlAt(t)'
  BY <1>1, <1>2, <1>8, PlaceFields, GrowingFields, ReturnFields DEF ThreadType, SwapHandles, Ready
<1>9. ASSUME NEW n \in Handles, NEW m \in Handles \ {n}, Copy(t, n, m) PROVE ControlAt(t)'
  BY <1>1, <1>2, <1>9, PlaceFields, GrowingFields, ReturnFields DEF ThreadType, Copy, Ready
<1> QED  BY <1>3, <1>4, <1>5, <1>6, <1>7, <1>8, <1>9 DEF Protecting

LEMMA Control_Scanning == ASSUME SInv, NEW t \in Threads, Scanning(t) PROVE ControlAt(t)'
<1> USE DEF ControlAt, Base, Inner, Scans, Goto, Idle, env, records, pool, domain, slot, batch, loop, judging, recl, history
<1>1. ThreadType /\ pc \in [Threads -> PCs] /\ ControlAt(t) /\ TypeOK
  BY DEF SInv, TypeOK, ControlOK
<1>2. back[t] \in Growing \cup {Idle} /\ pc[t] \in PCs
  BY <1>1 DEF ThreadType
<1>3. CASE Pop(t)
  BY <1>1, <1>2, <1>3, PlaceFields, GrowingFields, ReturnFields DEF ThreadType, Pop, Again
<1>4. CASE ReadHead(t)
  BY <1>1, <1>2, <1>4, PlaceFields, GrowingFields, ReturnFields DEF ThreadType, ReadHead
<1>5. CASE Record(t)
  BY <1>1, <1>2, <1>5, PlaceFields, GrowingFields, ReturnFields DEF ThreadType, Record
<1>6. ASSUME NEW i \in free[t], ReadArray(t, i) PROVE ControlAt(t)'
  <2>1. pc'[t] = [at |-> "guard", k |-> pc[t].k, g |-> Last(pc[t].k), i |-> i]
    BY <1>1, <1>6 DEF ReadArray
  <2>2. rec' = rec /\ in_recl' = in_recl /\ must_retry' = must_retry /\ back' = back /\ popped' = popped
    BY <1>6 DEF ReadArray
  <2>3. pc[t].k \in 1 .. MaxRecs /\ pc[t].at \in {"array", "guard", "recheck", "slots"}
    BY <1>2, <1>6, PlaceFields DEF ReadArray
  <2>4. \A k \in 1 .. MaxRecs : Last(k) \in Nat \ {0} /\ Len(arrays'[k]) = Last(k)
    BY <1>1, <1>6, ScanKeeps DEF SInv, ArraysOK
  <2>5. pc[t].at = "array"
    BY <1>6 DEF ReadArray
  <2>6. pc'[t].at \in {"guard", "recheck", "slots"} /\ pc'[t].k = pc[t].k /\ pc'[t].g \in 1 .. Last(pc[t].k)
    BY <1>1, <2>1, <2>3, <2>4, <2>5 DEF Look, Slot
  <2>7. Len(arrays'[pc'[t].k]) = Last(pc[t].k)
    BY <2>3, <2>4, <2>6
  <2> QED  BY <1>1, <2>2, <2>5, <2>6, <2>7 DEF Last
<1>7. CASE ReadArrayGrow(t)
  BY <1>1, <1>2, <1>7, PlaceFields, GrowingFields, ReturnFields DEF ThreadType, ReadArrayGrow, Grow, Defer
<1>8. CASE GuardArray(t)
  <2>1. pc'[t] = Look("recheck", pc[t], pc[t].g)
    BY <1>1, <1>8 DEF GuardArray
  <2>2. rec' = rec /\ in_recl' = in_recl /\ must_retry' = must_retry /\ back' = back /\ popped' = popped
    BY <1>8 DEF GuardArray
  <2>3. pc[t].k \in 1 .. MaxRecs /\ pc[t].at \in {"array", "guard", "recheck", "slots"}
    BY <1>2, <1>8, PlaceFields DEF GuardArray
  <2>4. \A k \in 1 .. MaxRecs : Last(k) \in Nat \ {0} /\ Len(arrays'[k]) = Last(k)
    BY <1>1, <1>8, ScanKeeps DEF SInv, ArraysOK
  <2>5. pc[t].at = "guard"
    BY <1>8 DEF GuardArray
  <2>6. pc'[t].at \in {"guard", "recheck", "slots"} /\ pc'[t].k = pc[t].k /\ pc'[t].g \in 1 .. Last(pc[t].k)
    BY <1>1, <2>1, <2>3, <2>4, <2>5 DEF Look, Slot
  <2>7. Len(arrays'[pc'[t].k]) = Last(pc[t].k)
    BY <2>3, <2>4, <2>6
  <2> QED  BY <1>1, <2>2, <2>5, <2>6, <2>7 DEF Last
<1>9. CASE Recheck(t)
  <2>1. pc'[t] = Slot(pc[t], 1) \/ pc'[t] = Look("guard", pc[t], Last(pc[t].k))
    BY <1>1, <1>9 DEF Recheck
  <2>2. rec' = rec /\ in_recl' = in_recl /\ must_retry' = must_retry /\ back' = back /\ popped' = popped
    BY <1>9 DEF Recheck
  <2>3. pc[t].k \in 1 .. MaxRecs /\ pc[t].at \in {"array", "guard", "recheck", "slots"}
    BY <1>2, <1>9, PlaceFields DEF Recheck
  <2>4. \A k \in 1 .. MaxRecs : Last(k) \in Nat \ {0} /\ Len(arrays'[k]) = Last(k)
    BY <1>1, <1>9, ScanKeeps DEF SInv, ArraysOK
  <2>5. pc[t].at = "recheck"
    BY <1>9 DEF Recheck
  <2>6. pc'[t].at \in {"guard", "recheck", "slots"} /\ pc'[t].k = pc[t].k /\ pc'[t].g \in 1 .. Last(pc[t].k)
    BY <1>1, <2>1, <2>3, <2>4, <2>5 DEF Look, Slot
  <2>7. Len(arrays'[pc'[t].k]) = Last(pc[t].k)
    BY <2>3, <2>4, <2>6
  <2> QED  BY <1>1, <2>2, <2>5, <2>6, <2>7 DEF Last
<1>10. CASE ReadSlot(t)
  <2>1. pc'[t] = Slot(pc[t], pc[t].j + 1)
    BY <1>1, <1>10 DEF ReadSlot
  <2>2. rec' = rec /\ in_recl' = in_recl /\ must_retry' = must_retry /\ back' = back /\ popped' = popped
    BY <1>10 DEF ReadSlot
  <2>3. pc[t].k \in 1 .. MaxRecs /\ pc[t].at \in {"array", "guard", "recheck", "slots"}
    BY <1>2, <1>10, PlaceFields DEF ReadSlot
  <2>4. \A k \in 1 .. MaxRecs : Last(k) \in Nat \ {0} /\ Len(arrays'[k]) = Last(k)
    BY <1>1, <1>10, ScanKeeps DEF SInv, ArraysOK
  <2>5. pc[t].at = "slots"
    BY <1>10 DEF ReadSlot
  <2>6. pc'[t].at \in {"guard", "recheck", "slots"} /\ pc'[t].k = pc[t].k /\ pc'[t].g \in 1 .. Last(pc[t].k)
    BY <1>1, <2>1, <2>3, <2>4, <2>5 DEF Look, Slot
  <2>7. Len(arrays'[pc'[t].k]) = Last(pc[t].k)
    BY <2>3, <2>4, <2>6
  <2> QED  BY <1>1, <2>2, <2>5, <2>6, <2>7 DEF Last
<1>11. CASE EndArray(t)
  BY <1>1, <1>2, <1>11, PlaceFields, GrowingFields, ReturnFields DEF ThreadType, EndArray
<1> QED  BY <1>3, <1>4, <1>5, <1>6, <1>7, <1>8, <1>9, <1>10, <1>11 DEF Scanning

LEMMA Control_Judgement == ASSUME SInv, NEW t \in Threads, Judgement(t) PROVE ControlAt(t)'
<1> USE DEF ControlAt, Base, Inner, Scans, Goto, Idle, env, records, pool, domain, slot, batch, loop, judging, recl, history
<1>1. ThreadType /\ pc \in [Threads -> PCs] /\ ControlAt(t) /\ TypeOK
  BY DEF SInv, TypeOK, ControlOK
<1>2. back[t] \in Growing \cup {Idle} /\ pc[t] \in PCs
  BY <1>1 DEF ThreadType
<1>3. ASSUME NEW e \in popped[t], Call(t, e) PROVE ControlAt(t)'
  BY <1>1, <1>2, <1>3, PlaceFields, GrowingFields, ReturnFields DEF ThreadType, Call, Defer, Judging
<1>4. CASE Discount(t)
  BY <1>1, <1>2, <1>4, PlaceFields, GrowingFields, ReturnFields DEF ThreadType, Discount, Judging
<1>5. CASE PutBack(t)
  BY <1>1, <1>2, <1>5, PlaceFields, GrowingFields, ReturnFields DEF ThreadType, PutBack, Again
<1> QED  BY <1>3, <1>4, <1>5 DEF Judgement

\* The other threads are where they were.
LEMMA ControlKept ==
  ASSUME SInv, NEW t \in Threads, Step(t), Alone(t), NEW u \in Threads \ {t}
  PROVE  ControlAt(u)'
<1>1. Same(u) /\ ControlAt(u) /\ pc[u] \in PCs
  BY DEF Alone, SInv, ControlOK, TypeOK
<1>2. pc[u].at \in {"guard", "recheck", "slots"} =>
        /\ pc[u].k \in 1 .. MaxRecs /\ pc[u].g \in 1 .. Last(pc[u].k)
  BY <1>1, PlaceFields DEF ControlAt
<1>3. \A k \in 1 .. MaxRecs : Last(k) \in Nat /\ Last(k)' \in Nat /\ Last(k) <= Last(k)'
  BY ArraysKept
<1>4. pc[u].at \in {"guard", "recheck", "slots"} => pc'[u].g \in 1 .. Len(arrays'[pc'[u].k])
  BY <1>1, <1>2, <1>3 DEF Same, Last
<1> QED  BY <1>1, <1>4 DEF Same, ControlAt, Base, Inner, Last

-------------------------------------------------------------------------------
(* Hazard pointers. *)

LEMMA Handles_Living ==
  ASSUME SInv, NEW t \in Threads, Living(t), NEW h \in Handles PROVE HandleAt(t, h)'
<1> USE DEF HandleAt, Base, Inner, Goto, Idle, env, records, pool, domain, slot, batch, loop, judging, recl, history
<1>1. ThreadType /\ pc \in [Threads -> PCs] /\ ControlAt(t) /\ HandleAt(t, h) /\ TypeOK
  BY DEF SInv, TypeOK, ControlOK, HandlesOK
<1>2. back[t] \in Growing \cup {Idle} /\ pc[t] \in PCs
  BY <1>1 DEF ThreadType
<1>3. CASE Start(t)
  BY <1>1, <1>2, <1>3, PlaceFields, GrowingFields, ReturnFields DEF ThreadType, Start
<1>4. CASE Skip(t)
  BY <1>1, <1>2, <1>4, PlaceFields, GrowingFields, ReturnFields DEF ThreadType, Skip
<1>5. CASE Recycle(t)
  BY <1>1, <1>2, <1>5, PlaceFields, GrowingFields, ReturnFields DEF ThreadType, Recycle, Take
<1>6. CASE NewRecord(t)
  <2>1. rec[t] = 0 /\ hp[t][h].i = 0
    BY <1>1, <1>6 DEF NewRecord, ControlAt
  <2>2. hp' = hp /\ pc'[t] = Idle
    BY <1>1, <1>6 DEF NewRecord, Take
  <2> QED  BY <1>1, <2>1, <2>2
<1>7. CASE Exit(t)
  BY <1>1, <1>2, <1>7, PlaceFields, GrowingFields, ReturnFields DEF ThreadType, Exit, Ready
<1>8. CASE Release(t)
  BY <1>1, <1>2, <1>8, PlaceFields, GrowingFields, ReturnFields DEF ThreadType, Release
<1> QED  BY <1>3, <1>4, <1>5, <1>6, <1>7, <1>8 DEF Living

LEMMA Handles_Retiring ==
  ASSUME SInv, NEW t \in Threads, Retiring(t), NEW h \in Handles PROVE HandleAt(t, h)'
<1> USE DEF HandleAt, Base, Inner, Goto, Idle, env, records, pool, domain, slot, batch, loop, judging, recl, history
<1>1. ThreadType /\ pc \in [Threads -> PCs] /\ ControlAt(t) /\ HandleAt(t, h) /\ TypeOK
  BY DEF SInv, TypeOK, ControlOK, HandlesOK
<1>2. back[t] \in Growing \cup {Idle} /\ pc[t] \in PCs
  BY <1>1 DEF ThreadType
<1>3. ASSUME NEW o \in Roots \cup {Null}, Swap(t, o) PROVE HandleAt(t, h)'
  BY <1>1, <1>2, <1>3, PlaceFields, GrowingFields, ReturnFields DEF ThreadType, Swap, Ready
<1>7. ASSUME NEW o \in Roots, Drop(t, o) PROVE HandleAt(t, h)'
  BY <1>1, <1>2, <1>7, PlaceFields, GrowingFields, ReturnFields DEF ThreadType, Drop, Defer, Ready
<1>4. CASE EagerReclaim(t)
  BY <1>1, <1>2, <1>4, PlaceFields, GrowingFields, ReturnFields DEF ThreadType, EagerReclaim, Ready
<1>5. CASE Flush(t)
  BY <1>1, <1>2, <1>5, PlaceFields, GrowingFields, ReturnFields DEF ThreadType, Flush
<1>6. CASE Push(t)
  <2>1. pc[t].to \in Return /\ pc[t].to.at \in {"idle", "release", "judge", "extend"}
    BY <1>2, <1>6, PlaceFields, ReturnFields DEF Push
  <2>2. pc'[t] = pc[t].to \/ pc'[t] = [at |-> "pop"]
    BY <1>1, <1>6 DEF Push
  <2>3. pc[t].at = "push" /\ hp' = hp /\ rec' = rec
    BY <1>6 DEF Push
  <2>4. pc[t].to.at = "extend" => pc[t].to.to.at \in {"acquire", "array"}
    BY <2>1, ReturnFields, GrowingFields
  <2> QED  BY <1>1, <2>1, <2>2, <2>3, <2>4
<1> QED  BY <1>3, <1>4, <1>5, <1>6, <1>7 DEF Retiring

LEMMA Handles_Slots ==
  ASSUME SInv, NEW t \in Threads, Slots(t), NEW h \in Handles PROVE HandleAt(t, h)'
<1> USE DEF HandleAt, Base, Inner, Goto, Idle, env, records, pool, domain, slot, batch, loop, judging, recl, history
<1>1. ThreadType /\ pc \in [Threads -> PCs] /\ ControlAt(t) /\ HandleAt(t, h) /\ TypeOK
  BY DEF SInv, TypeOK, ControlOK, HandlesOK
<1>2. back[t] \in Growing \cup {Idle} /\ pc[t] \in PCs
  BY <1>1 DEF ThreadType
<1>3. CASE Extend(t)
  <2>1. pc[t] \in Growing /\ pc[t].to.at \in {"acquire", "array"} /\ pc'[t] = pc[t].to
    BY <1>1, <1>2, <1>3, PlaceFields, GrowingFields DEF Extend
  <2>2. UNCHANGED <<hp, rec>>
    BY <1>3 DEF Extend
  <2> QED  BY <1>1, <2>1, <2>2
<1>4. ASSUME NEW n \in Handles, NEW i \in free[t], Acquire(t, n, i) PROVE HandleAt(t, h)'
  <2>1. hp' = [hp EXCEPT ![t][n] = Hazard(i, Null, {})] /\ rec' = rec /\ rec[t] # 0 /\ pc'[t] = Idle
    BY <1>1, <1>4 DEF Acquire, Wants, Ready, ControlAt
  <2>2. hp'[t][h] = IF h = n THEN Hazard(i, Null, {}) ELSE hp[t][h]
    BY <1>1, <2>1 DEF ThreadType
  <2>3. i # 0
    BY <1>1 DEF ThreadType
  <2> QED  BY <1>1, <2>1, <2>2, <2>3 DEF Hazard
<1>5. ASSUME NEW n \in Handles, AcquireGrow(t, n) PROVE HandleAt(t, h)'
  BY <1>1, <1>2, <1>5, PlaceFields, GrowingFields, ReturnFields DEF ThreadType, AcquireGrow, Wants, Ready, Grow, Defer
<1> QED  BY <1>3, <1>4, <1>5 DEF Slots

LEMMA Handles_Protecting ==
  ASSUME SInv, NEW t \in Threads, Protecting(t), NEW h \in Handles PROVE HandleAt(t, h)'
<1> USE DEF HandleAt, Base, Inner, Goto, Idle, env, records, pool, domain, slot, batch, loop, judging, recl, history
<1>1. ThreadType /\ pc \in [Threads -> PCs] /\ ControlAt(t) /\ HandleAt(t, h) /\ TypeOK
  BY DEF SInv, TypeOK, ControlOK, HandlesOK
<1>2. back[t] \in Growing \cup {Idle} /\ pc[t] \in PCs
  BY <1>1 DEF ThreadType
<1>3. CASE Publish(t)
  <2>1. /\ pc[t].at = "publish" /\ pc[t].h \in Handles /\ hp[t][pc[t].h].i # 0 /\ rec' = rec
        /\ pc'[t].at = "validate" /\ pc'[t].h = pc[t].h
    BY <1>1, <1>2, <1>3, PlaceFields DEF Publish, SInv, HandlesOK
  <2>2. /\ h # pc[t].h => hp'[t][h] = hp[t][h]
        /\ hp'[t][pc[t].h].i = hp[t][pc[t].h].i
    BY <1>1, <1>3, <2>1 DEF ThreadType, Publish, Hazard
  <2> QED  BY <1>1, <2>1, <2>2
<1>4. CASE Validate(t)
  <2>1. /\ pc[t].at = "validate" /\ pc[t].h \in Handles /\ hp[t][pc[t].h].i # 0 /\ rec' = rec
        /\ pc'[t] = Idle \/ pc'[t] = [at |-> "publish", h |-> pc[t].h, o |-> link]
    BY <1>1, <1>2, <1>4, PlaceFields DEF Validate, Trust, SInv, HandlesOK
  <2>2. hp' = hp \/ hp' = [hp EXCEPT ![t][pc[t].h].held = @ \cup ({link} \ {Null})]
    BY <1>4 DEF Validate, Trust
  <2>3. /\ h # pc[t].h => hp'[t][h] = hp[t][h]
        /\ hp'[t][pc[t].h].i = hp[t][pc[t].h].i
    <3>1. /\ hp[t] \in [Handles -> [i : Nat, p : Ptrs \cup {Null}, held : SUBSET Refs]]
          /\ hp[t][pc[t].h] \in [i : Nat, p : Ptrs \cup {Null}, held : SUBSET Refs]
      BY <1>1, <2>1 DEF ThreadType
    <3>2. hp' # hp => hp'[t] = [hp[t] EXCEPT ![pc[t].h].held = @ \cup ({link} \ {Null})]
      BY <1>1, <2>2 DEF ThreadType
    <3> QED  BY <2>1, <3>1, <3>2
  <2> QED  BY <1>1, <2>1, <2>3
<1>5. ASSUME NEW n \in Handles, DropHandle(t, n) PROVE HandleAt(t, h)'
  BY <1>1, <1>2, <1>5, PlaceFields, GrowingFields, ReturnFields DEF ThreadType, DropHandle, Ready, NoHp, Hazard
<1>6. ASSUME NEW n \in Handles, Load(t, n) PROVE HandleAt(t, h)'
  <2>1. /\ pc[t].at = "idle" /\ pc'[t].at = "publish" /\ pc'[t].h = n /\ hp[t][n].i # 0 /\ rec[t] # 0
        /\ rec' = rec /\ hp' = hp
    BY <1>1, <1>6 DEF Load, Ready
  <2> QED  BY <1>1, <2>1
<1>7. ASSUME NEW n \in Handles, Clear(t, n) PROVE HandleAt(t, h)'
  BY <1>1, <1>2, <1>7, PlaceFields, GrowingFields, ReturnFields DEF ThreadType, Clear, Ready, Hazard
<1>8. ASSUME NEW n \in Handles, NEW m \in Handles \ {n}, SwapHandles(t, n, m) PROVE HandleAt(t, h)'
  <2>1. /\ hp' = [hp EXCEPT ![t][n] = hp[t][m], ![t][m] = hp[t][n]] /\ rec' = rec /\ pc' = pc
        /\ pc[t].at = "idle" /\ rec[t] # 0 /\ hp[t][n].i # 0 /\ hp[t][m].i # 0
    BY <1>8 DEF SwapHandles, Ready
  <2>2. hp'[t][h] = IF h = n THEN hp[t][m] ELSE IF h = m THEN hp[t][n] ELSE hp[t][h]
    BY <1>1, <2>1 DEF ThreadType
  <2> QED  BY <1>1, <2>1, <2>2
<1>9. ASSUME NEW n \in Handles, NEW m \in Handles \ {n}, Copy(t, n, m) PROVE HandleAt(t, h)'
  BY <1>1, <1>2, <1>9, PlaceFields, GrowingFields, ReturnFields DEF ThreadType, Copy, Ready, Hazard
<1> QED  BY <1>3, <1>4, <1>5, <1>6, <1>7, <1>8, <1>9 DEF Protecting

LEMMA Handles_Scanning ==
  ASSUME SInv, NEW t \in Threads, Scanning(t), NEW h \in Handles PROVE HandleAt(t, h)'
<1> USE DEF HandleAt, Base, Inner, Goto, Idle, env, records, pool, domain, slot, batch, loop, judging, recl, history
<1>1. ThreadType /\ pc \in [Threads -> PCs] /\ ControlAt(t) /\ HandleAt(t, h) /\ TypeOK
  BY DEF SInv, TypeOK, ControlOK, HandlesOK
<1>2. back[t] \in Growing \cup {Idle} /\ pc[t] \in PCs
  BY <1>1 DEF ThreadType
<1>3. CASE Pop(t)
  <2>1. back[t].at = "idle" \/ (back[t].at = "extend" /\ back[t].to.at \in {"acquire", "array"})
    BY <1>2, GrowingFields
  <2>2. hp' = hp /\ rec' = rec /\ pc'[t] \in {back[t], [at |-> "pop"], [at |-> "head"]}
    BY <1>1, <1>3 DEF Pop, Again
  <2> QED  BY <1>1, <2>1, <2>2
<1>4. CASE ReadHead(t)
  BY <1>1, <1>2, <1>4, PlaceFields, GrowingFields, ReturnFields DEF ThreadType, ReadHead
<1>5. CASE Record(t)
  BY <1>1, <1>2, <1>5, PlaceFields, GrowingFields, ReturnFields DEF ThreadType, Record
<1>6. ASSUME NEW i \in free[t], ReadArray(t, i) PROVE HandleAt(t, h)'
  BY <1>1, <1>2, <1>6, PlaceFields, GrowingFields, ReturnFields DEF ThreadType, ReadArray
<1>7. CASE ReadArrayGrow(t)
  BY <1>1, <1>2, <1>7, PlaceFields, GrowingFields, ReturnFields DEF ThreadType, ReadArrayGrow, Grow, Defer
<1>8. CASE GuardArray(t)
  BY <1>1, <1>2, <1>8, PlaceFields, GrowingFields, ReturnFields DEF ThreadType, GuardArray, Look
<1>9. CASE Recheck(t)
  BY <1>1, <1>2, <1>9, PlaceFields, GrowingFields, ReturnFields DEF ThreadType, Recheck, Look, Slot
<1>10. CASE ReadSlot(t)
  BY <1>1, <1>2, <1>10, PlaceFields, GrowingFields, ReturnFields DEF ThreadType, ReadSlot, Slot
<1>11. CASE EndArray(t)
  BY <1>1, <1>2, <1>11, PlaceFields, GrowingFields, ReturnFields DEF ThreadType, EndArray
<1> QED  BY <1>3, <1>4, <1>5, <1>6, <1>7, <1>8, <1>9, <1>10, <1>11 DEF Scanning

LEMMA Handles_Judgement ==
  ASSUME SInv, NEW t \in Threads, Judgement(t), NEW h \in Handles PROVE HandleAt(t, h)'
<1> USE DEF HandleAt, Base, Inner, Goto, Idle, env, records, pool, domain, slot, batch, loop, judging, recl, history
<1>1. ThreadType /\ pc \in [Threads -> PCs] /\ ControlAt(t) /\ HandleAt(t, h) /\ TypeOK
  BY DEF SInv, TypeOK, ControlOK, HandlesOK
<1>2. back[t] \in Growing \cup {Idle} /\ pc[t] \in PCs
  BY <1>1 DEF ThreadType
<1>3. ASSUME NEW e \in popped[t], Call(t, e) PROVE HandleAt(t, h)'
  BY <1>1, <1>2, <1>3, PlaceFields, GrowingFields, ReturnFields DEF ThreadType, Call, Defer, Judging
<1>4. CASE Discount(t)
  BY <1>1, <1>2, <1>4, PlaceFields, GrowingFields, ReturnFields DEF ThreadType, Discount, Judging
<1>5. CASE PutBack(t)
  <2>1. back[t].at = "idle" \/ (back[t].at = "extend" /\ back[t].to.at \in {"acquire", "array"})
    BY <1>2, GrowingFields
  <2>2. hp' = hp /\ rec' = rec /\ pc'[t] \in {back[t], [at |-> "pop"]}
    BY <1>1, <1>5 DEF PutBack, Again
  <2> QED  BY <1>1, <2>1, <2>2
<1> QED  BY <1>3, <1>4, <1>5 DEF Judgement

LEMMA HandlesKept ==
  ASSUME SInv, NEW t \in Threads, Alone(t), NEW u \in Threads \ {t}, NEW h \in Handles
  PROVE  HandleAt(u, h)'
<1>1. Same(u) /\ HandleAt(u, h)
  BY DEF Alone, SInv, HandlesOK
<1> QED  BY <1>1 DEF Same, HandleAt, Base, Inner

-------------------------------------------------------------------------------
(* Records. *)

\* Only taking and releasing a record changes who owns what.
LEMMA RecordsKept ==
  ASSUME NEW t \in Threads, Step(t), ~Recycle(t), ~NewRecord(t), ~Release(t)
  PROVE  UNCHANGED <<rec, avail, nrec>>
<1> USE DEF env, records, domain, slot
<1>1. CASE Living(t)
  BY <1>1 DEF Living, Start, Skip, Exit
<1>2. CASE Retiring(t)
  BY <1>2 DEF Retiring, Swap, Drop, EagerReclaim, Flush, Push
<1>3. CASE Slots(t)
  BY <1>3 DEF Slots, Extend, Acquire, AcquireGrow, Grow
<1>4. CASE Protecting(t)
  BY <1>4 DEF Protecting, Publish, Validate, Trust, DropHandle, Load, Clear, SwapHandles, Copy
<1>5. CASE Scanning(t)
  BY <1>5 DEF Scanning, Pop, ReadHead, Record, ReadArray, ReadArrayGrow, Grow, GuardArray, Recheck,
              ReadSlot, EndArray
<1>6. CASE Judgement(t)
  BY <1>6 DEF Judgement, Call, Discount, PutBack
<1> QED  BY <1>1, <1>2, <1>3, <1>4, <1>5, <1>6 DEF Step

LEMMA WrittenArray ==
  ASSUME SInv, NEW t \in Threads, rec[t] # 0, NEW i \in DOMAIN Array(rec[t]),
         NEW p \in Ptrs \cup Addrs \cup {Null}, Put(t, i, p), UNCHANGED rec
  PROVE  Last(rec[t])' = Last(rec[t]) /\ Array(rec[t])' = [Array(rec[t]) EXCEPT ![i] = p]
<1>1. rec[t] \in 1 .. MaxRecs
  BY OwnArray
<1>2. \A k \in 1 .. MaxRecs : Last(k)' = Last(k)
  BY PutEffect
<1>3. Array(rec[t])' = [Array(rec[t]) EXCEPT ![i] = p]
  BY PutEffect
<1>4. Last(rec[t])' = Last(rec[t])
  BY <1>1, <1>2 DEF Last
<1> QED  BY <1>3, <1>4

\* A record stays with one owner, or without one and clean.
LEMMA Records_Step == ASSUME SInv, NEW t \in Threads, Step(t) PROVE RecordsOK' /\ ArraysOK'
<1> USE DEF RecordsOK, Unowned
<1>1. RecordsOK /\ ArraysOK /\ SharedType /\ ThreadType /\ pc \in [Threads -> PCs]
  BY DEF SInv, TypeOK
<1>2. ASSUME Recycle(t) PROVE RecordsOK' /\ ArraysOK'
  <2>1. pc[t].k \in 1 .. MaxRecs /\ avail[pc[t].k]
    BY <1>1, <1>2, PlaceFields DEF Recycle
  <2>2. /\ rec' = [rec EXCEPT ![t] = pc[t].k] /\ avail' = [avail EXCEPT ![pc[t].k] = FALSE]
        /\ nrec' = nrec /\ arrays' = arrays
    BY <1>2 DEF Recycle, Take
  <2>3. RecordsOK'
    <3>1. rec[t] = 0 /\ pc[t].k \in 1 .. nrec
      BY <1>1, <1>2, <2>1, SizeAssumption DEF Recycle, SInv, ControlOK, ControlAt, SharedType
    <3>2. \A u \in Threads : rec'[u] = IF u = t THEN pc[t].k ELSE rec[u]
      BY <1>1, <2>2 DEF ThreadType
    <3>3. \A k \in 1 .. MaxRecs : avail'[k] = IF k = pc[t].k THEN FALSE ELSE avail[k]
      BY <1>1, <2>2 DEF SharedType
    <3>4. \A u \in Threads : rec[u] # 0 => rec[u] \in 1 .. MaxRecs /\ rec[u] # pc[t].k
      BY <1>1, <2>1, OwnArray
    <3>5. \A u, v \in Threads : rec'[u] = rec'[v] /\ rec'[u] # 0 => u = v
      BY <1>1, <3>2, <3>4
    <3>8. \A u \in Threads : rec'[u] # 0 => ~avail'[rec'[u]]
      <4> SUFFICES ASSUME NEW u \in Threads, rec'[u] # 0 PROVE ~avail'[rec'[u]]
        OBVIOUS
      <4>1. CASE u = t
        BY <2>1, <3>2, <3>3, <4>1
      <4>2. CASE u # t
        <5>1. rec'[u] = rec[u] /\ rec[u] # 0
          BY <3>2, <4>2
        <5>2. ~avail[rec[u]]
          BY <1>1, <5>1
        <5>3. avail'[rec[u]] = avail[rec[u]]
          BY <3>3, <3>4, <5>1
        <5> QED  BY <5>1, <5>2, <5>3
      <4> QED  BY <4>1, <4>2
    <3>6. \A k \in 1 .. MaxRecs : ~Unowned(k)' => \E u \in Threads : rec'[u] = k
      BY <1>1, <2>2, <3>1, <3>2, <3>3
    <3>7. \A k \in 1 .. MaxRecs : k > nrec' => ~avail'[k]
      BY <1>1, <2>2, <3>3
    <3> QED  BY <3>5, <3>6, <3>7, <3>8
  <2>4. \A k \in 1 .. MaxRecs : Unowned(k)' => Unowned(k)
    BY <1>1, <2>1, <2>2 DEF SharedType
  <2> QED  BY <1>1, <2>2, <2>3, <2>4 DEF ArraysOK, Array, Last
<1>3. ASSUME NewRecord(t) PROVE RecordsOK' /\ ArraysOK'
  <2>1. nrec \in Nat /\ nrec < MaxRecs
    BY <1>1, <1>3, SizeAssumption DEF NewRecord, SharedType
  <2>2. rec' = [rec EXCEPT ![t] = nrec + 1] /\ avail' = avail /\ nrec' = nrec + 1 /\ arrays' = arrays
    BY <1>3 DEF NewRecord, Take
  <2>3. ~avail[nrec + 1] /\ nrec + 1 \in 1 .. MaxRecs
    BY <1>1, <2>1, SizeAssumption
  <2>4. \A u \in Threads : rec[u] \in Nat /\ rec[u] <= nrec
    BY <1>1, <2>1 DEF ThreadType
  <2>5. \A u \in Threads : rec'[u] = IF u = t THEN nrec + 1 ELSE rec[u]
    BY <1>1, <2>2 DEF ThreadType
  <2>6. /\ \A u \in Threads : rec'[u] # 0 => ~avail'[rec'[u]]
        /\ \A u, v \in Threads : rec'[u] = rec'[v] /\ rec'[u] # 0 => u = v
    BY <1>1, <2>1, <2>2, <2>3, <2>4, <2>5
  <2>7. \A k \in 1 .. MaxRecs : ~Unowned(k)' => \E u \in Threads : rec'[u] = k
    <3> SUFFICES ASSUME NEW k \in 1 .. MaxRecs, ~avail[k], ~(k > nrec + 1)
                 PROVE  \E u \in Threads : rec'[u] = k
      BY <2>2
    <3>1. CASE k = nrec + 1
      BY <2>5, <3>1
    <3>2. CASE k # nrec + 1
      <4>1. ~(k > nrec)
        BY <2>1, <3>2
      <4>2. PICK u \in Threads : rec[u] = k
        BY <1>1, <4>1
      <4>3. rec[t] = 0
        BY <1>1, <1>3, <2>1 DEF NewRecord, SInv, ControlOK, ControlAt
      <4> QED  BY <2>5, <4>2, <4>3
    <3> QED  BY <3>1, <3>2
  <2>8. \A k \in 1 .. MaxRecs : /\ k > nrec' => ~avail'[k]
                                /\ Unowned(k)' => Unowned(k)
    BY <1>1, <2>1, <2>2
  <2> QED  BY <1>1, <2>2, <2>6, <2>7, <2>8 DEF ArraysOK, Array, Last
<1>4. ASSUME Release(t) PROVE RecordsOK' /\ ArraysOK'
  <2>1. rec[t] # 0 /\ pc[t].at = "release"
    BY <1>4 DEF Release, SInv, ControlOK, ControlAt
  <2>2. rec[t] \in 1 .. MaxRecs /\ Last(rec[t]) > 0 /\ Len(Array(rec[t])) > 0
    BY <1>1, <2>1, OwnArray DEF ArraysOK
  <2>3. /\ rec' = [rec EXCEPT ![t] = 0] /\ avail' = [avail EXCEPT ![rec[t]] = TRUE]
        /\ nrec' = nrec /\ arrays' = arrays
    BY <1>4 DEF Release
  <2>4. Cleared(Array(rec[t]))
    <3>1. Scanner(t) = {} /\ \A n \in Handles : hp[t][n].i = 0
      BY <2>1 DEF Scanner, SInv, HandlesOK, HandleAt, Base, Inner
    <3>2. Shared(free[t], Added(Inner(pc[t])), Added(back[t]), {}, hp[t], Array(rec[t]))
      BY <2>1, <3>1 DEF SInv, SlotsOK, SlotOK
    <3>3. \A i \in DOMAIN Array(rec[t]) : i # 0
      BY <2>2, SomeArray
    <3> QED  BY <3>1, <3>2, <3>3 DEF Shared, Owns, Cleared
  <2>5. \A u \in Threads : rec'[u] = IF u = t THEN 0 ELSE rec[u]
    BY <1>1, <2>3 DEF ThreadType
  <2>6. \A k \in 1 .. MaxRecs : avail'[k] = IF k = rec[t] THEN TRUE ELSE avail[k]
    BY <1>1, <2>3 DEF SharedType
  <2>7. rec[t] <= nrec
    BY <1>1 DEF ThreadType, SharedType
  <2>8. /\ \A u \in Threads : rec'[u] # 0 => ~avail'[rec'[u]]
        /\ \A u, v \in Threads : rec'[u] = rec'[v] /\ rec'[u] # 0 => u = v
    BY <1>1, <2>1, <2>3, <2>5
  <2>9. \A k \in 1 .. MaxRecs : ~Unowned(k)' => \E u \in Threads : rec'[u] = k
    <3>1. ASSUME NEW k \in 1 .. MaxRecs, ~Unowned(k)' PROVE \E u \in Threads : rec'[u] = k
      <4>1. k # rec[t] /\ ~Unowned(k)
        BY <2>3, <2>6, <3>1
      <4>2. PICK u \in Threads : rec[u] = k
        BY <1>1, <4>1
      <4> QED  BY <2>5, <4>1, <4>2
    <3> QED  BY <3>1
  <2>10. \A k \in 1 .. MaxRecs : k > nrec' => ~avail'[k]
    <3>1. ASSUME NEW k \in 1 .. MaxRecs, k > nrec PROVE k # rec[t]
      BY <1>1, <2>2, <2>7, <3>1 DEF SharedType
    <3> QED  BY <1>1, <2>3, <2>6, <3>1
  <2>11. ArraysOK'
    <3>1. \A k \in 1 .. MaxRecs : Unowned(k)' => Unowned(k) \/ k = rec[t]
      BY <2>3, <2>6
    <3> QED  BY <1>1, <2>3, <2>4, <3>1 DEF ArraysOK, Array, Last
  <2> QED  BY <2>8, <2>9, <2>10, <2>11
<1>5. ASSUME ~Recycle(t), ~NewRecord(t), ~Release(t) PROVE RecordsOK' /\ ArraysOK'
  <2>1. UNCHANGED <<rec, avail, nrec>>
    BY <1>5, RecordsKept
  <2>2. CASE UNCHANGED arrays
    BY <1>1, <2>1, <2>2 DEF ArraysOK, Array, Last
  <2>3. ASSUME NEW k \in 1 .. MaxRecs, k # rec[t]
        PROVE  Last(k)' = Last(k) /\ Array(k)' = Array(k)
    BY <2>3, ArraysKept DEF Array, Last
  <2>4. ASSUME rec[t] # 0, Last(rec[t])' > 0, Len(Array(rec[t])') > 0 PROVE ArraysOK'
    <3>1. ~Unowned(rec[t])
      BY <1>1, <2>4 DEF ThreadType, SharedType
    <3>2. \A k \in 1 .. MaxRecs : Unowned(k)' <=> Unowned(k)
      BY <2>1
    <3> QED  BY <1>1, <2>1, <2>3, <2>4, <3>1, <3>2 DEF ArraysOK
  <2>5. CASE Written(t)
    <3>1. PICK i \in DOMAIN Array(rec[t]), p \in Ptrs \cup Addrs \cup {Null} : rec[t] # 0 /\ Put(t, i, p)
      BY <2>5 DEF Written
    <3>2. rec[t] \in 1 .. MaxRecs /\ Array(rec[t]) \in Seq(Ptrs \cup Addrs \cup {Null})
      BY <3>1, OwnArray
    <3>3. Last(rec[t])' = Last(rec[t]) /\ Array(rec[t])' = [Array(rec[t]) EXCEPT ![i] = p]
      <4>1. UNCHANGED rec
        BY <2>1
      <4> QED  BY <3>1, <4>1, WrittenArray
    <3> QED  BY <1>1, <2>1, <2>4, <3>1, <3>2, <3>3 DEF ArraysOK
  <2>6. CASE Extended(t)
    <3>1. PICK p : rec[t] # 0 /\ Grow(t, p)
      BY <2>6 DEF Extended
    <3>2. /\ Last(rec[t])' = Last(rec[t]) + 1 /\ Len(Array(rec[t])') = 2 * Len(Array(rec[t]))
          /\ Last(rec[t]) \in Nat \ {0} /\ Len(Array(rec[t])) \in Nat \ {0}
      BY <3>1, GrowEffect, OwnArray
    <3>3. Last(rec[t])' > 0 /\ Len(Array(rec[t])') > 0
      BY <3>2
    <3> QED  BY <1>1, <2>1, <2>4, <3>1, <3>3
  <2> QED  BY <1>1, <2>1, <2>2, <2>5, <2>6, ArraysStep
<1> QED  BY <1>2, <1>3, <1>4, <1>5

-------------------------------------------------------------------------------
(* Sharing out the slots of one array. *)

Hps == [Handles -> [i : Nat, p : Ptrs \cup {Null}, held : SUBSET Refs]]

LEMMA ShareAcquire ==
  ASSUME NEW F, NEW P, NEW Q, NEW S, NEW h \in Hps, NEW a \in Seq(Ptrs \cup Addrs \cup {Null}),
         Shared(F, P, Q, S, h, a), NEW i \in F, i \in Nat \ {0}, NEW n \in Handles, h[n].i = 0
  PROVE  Shared(F \ {i}, P, Q, S, [h EXCEPT ![n] = Hazard(i, Null, {})], a)
<1> DEFINE g == [h EXCEPT ![n] = Hazard(i, Null, {})]
<1>1. i \in DOMAIN a \ S /\ a[i] = Null /\ ~Owns(h, i)
  BY DEF Shared, Apart, Owns
<1>2. \A m \in Handles : /\ g[m].i = IF m = n THEN i ELSE h[m].i
                         /\ g[m].p = IF m = n THEN Null ELSE h[m].p
  BY DEF Hps, Hazard
<1> HIDE DEF g
<1>3. \A m \in Handles : h[m].i # i
  BY <1>1 DEF Owns
<1>4. \A m \in Handles : g[m].i # 0 => /\ g[m].i \in DOMAIN a \ ((F \ {i}) \cup P \cup Q \cup S)
                                       /\ a[g[m].i] = g[m].p
                                       /\ \A l \in Handles : g[m].i = g[l].i => m = l
  BY <1>1, <1>2, <1>3 DEF Shared, Apart
<1>5. \A j : j # 0 /\ ~Owns(g, j) => ~Owns(h, j)
  BY <1>2 DEF Owns
<1>6. 0 \notin DOMAIN a
  OBVIOUS
<1>7. \A j \in DOMAIN a \ S : ~Owns(g, j) => a[j] = Null
  <2> SUFFICES ASSUME NEW j \in DOMAIN a \ S, ~Owns(g, j) PROVE a[j] = Null
    OBVIOUS
  <2>1. ~Owns(h, j)
    BY <1>5, <1>6
  <2> QED  BY <2>1 DEF Shared
<1> QED  BY <1>4, <1>7 DEF Shared, Apart, g

LEMMA ShareDrop ==
  ASSUME NEW F, NEW P, NEW Q, NEW S, NEW h \in Hps, NEW a \in Seq(Ptrs \cup Addrs \cup {Null}),
         Shared(F, P, Q, S, h, a), NEW n \in Handles, h[n].i # 0
  PROVE  Shared(F \cup {h[n].i}, P, Q, S, [h EXCEPT ![n] = NoHp], [a EXCEPT ![h[n].i] = Null])
<1> DEFINE g == [h EXCEPT ![n] = NoHp]  b == [a EXCEPT ![h[n].i] = Null]
<1>1. \A m \in Handles : /\ g[m].i = IF m = n THEN 0 ELSE h[m].i
                         /\ g[m].p = IF m = n THEN Null ELSE h[m].p
  BY DEF Hps, NoHp, Hazard
<1>2. DOMAIN b = DOMAIN a /\ \A j \in DOMAIN a : b[j] = IF j = h[n].i THEN Null ELSE a[j]
  OBVIOUS
<1>3. h[n].i \in DOMAIN a /\ h[n].i \notin F \cup P \cup Q \cup S
  BY DEF Shared
<1> HIDE DEF g, b
<1>4. \A m \in Handles : g[m].i # 0 => /\ m # n /\ h[m].i # h[n].i /\ g[m].i = h[m].i
                                       /\ g[m].i \in DOMAIN b \ (F \cup {h[n].i} \cup P \cup Q \cup S)
                                       /\ b[g[m].i] = g[m].p
                                       /\ \A l \in Handles : g[m].i = g[l].i => m = l
  BY <1>1, <1>2, <1>3 DEF Shared
<1>5. \A j \in DOMAIN b \ S : ~Owns(g, j) => b[j] = Null
  BY <1>1, <1>2 DEF Shared, Owns
<1>6. F \cup {h[n].i} \cup P \cup Q \cup S \subseteq DOMAIN b /\ Apart(F \cup {h[n].i}, P, Q, S)
  BY <1>2, <1>3 DEF Shared, Apart
<1>7. Shared(F \cup {h[n].i}, P, Q, S, g, b)
  BY <1>4, <1>5, <1>6 DEF Shared
<1> QED  BY <1>7 DEF g, b

LEMMA ShareSet ==
  ASSUME NEW F, NEW P, NEW Q, NEW S, NEW h \in Hps, NEW a \in Seq(Ptrs \cup Addrs \cup {Null}),
         Shared(F, P, Q, S, h, a), NEW n \in Handles, h[n].i # 0, NEW p, NEW held
  PROVE  Shared(F, P, Q, S, [h EXCEPT ![n] = Hazard(h[n].i, p, held)], [a EXCEPT ![h[n].i] = p])
<1> DEFINE g == [h EXCEPT ![n] = Hazard(h[n].i, p, held)]  b == [a EXCEPT ![h[n].i] = p]
<1>1. \A m \in Handles : /\ g[m].i = h[m].i
                         /\ g[m].p = IF m = n THEN p ELSE h[m].p
  BY DEF Hps, Hazard
<1>2. DOMAIN b = DOMAIN a /\ \A j \in DOMAIN a : b[j] = IF j = h[n].i THEN p ELSE a[j]
  OBVIOUS
<1> HIDE DEF g, b
<1>3. \A m \in Handles : g[m].i # 0 => /\ g[m].i \in DOMAIN b \ (F \cup P \cup Q \cup S)
                                       /\ b[g[m].i] = g[m].p
                                       /\ \A l \in Handles : g[m].i = g[l].i => m = l
  BY <1>1, <1>2 DEF Shared
<1>4. \A j \in DOMAIN b \ S : ~Owns(g, j) => b[j] = Null
  BY <1>1, <1>2 DEF Shared, Owns
<1> QED  BY <1>2, <1>3, <1>4 DEF Shared, g, b

LEMMA ShareMark ==
  ASSUME NEW F, NEW P, NEW Q, NEW S, NEW h \in Hps, NEW a, Shared(F, P, Q, S, h, a),
         NEW n \in Handles, NEW held
  PROVE  Shared(F, P, Q, S, [h EXCEPT ![n] = Hazard(h[n].i, h[n].p, held)], a)
<1> DEFINE g == [h EXCEPT ![n] = Hazard(h[n].i, h[n].p, held)]
<1>1. \A m \in Handles : g[m].i = h[m].i /\ g[m].p = h[m].p
  BY DEF Hps, Hazard
<1> HIDE DEF g
<1>2. Shared(F, P, Q, S, g, a)
  BY <1>1 DEF Shared, Owns
<1> QED  BY <1>2 DEF g

LEMMA ShareSwap ==
  ASSUME NEW F, NEW P, NEW Q, NEW S, NEW h \in Hps, NEW a, Shared(F, P, Q, S, h, a),
         NEW n \in Handles, NEW m \in Handles
  PROVE  Shared(F, P, Q, S, [h EXCEPT ![n] = h[m], ![m] = h[n]], a)
<1> DEFINE g == [h EXCEPT ![n] = h[m], ![m] = h[n]]
           To(l) == IF l = n THEN m ELSE IF l = m THEN n ELSE l
<1>1. \A l \in Handles : g[l] = h[To(l)] /\ To(l) \in Handles
  BY DEF Hps
<1>2. \A j, l \in Handles : To(j) = To(l) => j = l
  OBVIOUS
<1>3. \A l \in Handles : \E j \in Handles : To(j) = l
  OBVIOUS
<1> HIDE DEF g, To
<1>4. \A l \in Handles : g[l].i # 0 => /\ g[l].i \in DOMAIN a \ (F \cup P \cup Q \cup S)
                                       /\ a[g[l].i] = g[l].p
                                       /\ \A j \in Handles : g[l].i = g[j].i => l = j
  BY <1>1, <1>2 DEF Shared
<1>5. \A i : ~Owns(g, i) => ~Owns(h, i)
  BY <1>1, <1>3 DEF Owns
<1>6. Shared(F, P, Q, S, g, a)
  BY <1>4, <1>5 DEF Shared
<1> QED  BY <1>6 DEF g

LEMMA ShareScan ==
  ASSUME NEW F, NEW P, NEW Q, NEW h \in Hps, NEW a, Shared(F, P, Q, {}, h, a), NEW i \in F
  PROVE  Shared(F \ {i}, P, Q, {i}, h, a)
  BY DEF Shared, Apart

LEMMA ShareGuard ==
  ASSUME NEW F, NEW P, NEW Q, NEW h \in Hps, NEW a \in Seq(Ptrs \cup Addrs \cup {Null}), NEW i,
         Shared(F, P, Q, {i}, h, a), NEW p
  PROVE  Shared(F, P, Q, {i}, h, [a EXCEPT ![i] = p])
<1> DEFINE b == [a EXCEPT ![i] = p]
<1>1. DOMAIN b = DOMAIN a /\ \A j \in DOMAIN a \ {i} : b[j] = a[j]
  OBVIOUS
<1> HIDE DEF b
<1>2. Shared(F, P, Q, {i}, h, b)
  BY <1>1 DEF Shared
<1> QED  BY <1>2 DEF b

LEMMA ShareUnscan ==
  ASSUME NEW F, NEW P, NEW Q, NEW h \in Hps, NEW a \in Seq(Ptrs \cup Addrs \cup {Null}), NEW i, i # 0,
         Shared(F, P, Q, {i}, h, a)
  PROVE  Shared(F \cup {i}, P, Q, {}, h, [a EXCEPT ![i] = Null])
<1> DEFINE b == [a EXCEPT ![i] = Null]
<1>1. DOMAIN b = DOMAIN a /\ \A j \in DOMAIN a : b[j] = IF j = i THEN Null ELSE a[j]
  OBVIOUS
<1> HIDE DEF b
<1>2. \A n \in Handles : h[n].i # 0 => /\ h[n].i \in DOMAIN b \ (F \cup {i} \cup P \cup Q)
                                       /\ b[h[n].i] = h[n].p
                                       /\ \A m \in Handles : h[n].i = h[m].i => n = m
  BY <1>1 DEF Shared
<1>3. \A j \in DOMAIN b : ~Owns(h, j) => b[j] = Null
  BY <1>1 DEF Shared
<1>4. F \cup {i} \cup P \cup Q \cup {} \subseteq DOMAIN b /\ Apart(F \cup {i}, P, Q, {})
  BY <1>1 DEF Shared, Apart
<1>5. Shared(F \cup {i}, P, Q, {}, h, b)
  BY <1>2, <1>3, <1>4 DEF Shared
<1> QED  BY <1>5 DEF b

LEMMA ShareExtend ==
  ASSUME NEW F, NEW P, NEW Q, NEW S, NEW h, NEW a, Shared(F, P, Q, S, h, a)
  PROVE  Shared(F \cup P, {}, Q, S, h, a)
  BY DEF Shared, Apart

LEMMA ShareNest ==
  ASSUME NEW F, NEW P, NEW S, NEW h, NEW a, Shared(F, P, {}, S, h, a)
  PROVE  Shared(F, {}, P, S, h, a)
  BY DEF Shared, Apart

LEMMA ShareUnnest ==
  ASSUME NEW F, NEW Q, NEW S, NEW h, NEW a, Shared(F, {}, Q, S, h, a)
  PROVE  Shared(F, Q, {}, S, h, a)
  BY DEF Shared, Apart

LEMMA ShareGrow ==
  ASSUME NEW F, NEW Q, NEW h \in Hps, NEW a \in Seq(Ptrs \cup Addrs \cup {Null}), Shared(F, {}, Q, {}, h, a)
  PROVE  Shared(F, Len(a) + 1 .. 2 * Len(a), Q, {}, h, Grown(a))
<1> DEFINE b == Grown(a)  P == Len(a) + 1 .. 2 * Len(a)
<1>1. /\ Len(a) \in Nat /\ DOMAIN a = 1 .. Len(a) /\ DOMAIN b = 1 .. 2 * Len(a)
      /\ \A j \in DOMAIN b : b[j] = IF j <= Len(a) THEN a[j] ELSE Null
  BY DEF Grown
<1>2. \A j : /\ j \in DOMAIN b <=> j \in DOMAIN a \/ j \in P
             /\ j \in DOMAIN a => j \notin P /\ b[j] = a[j]
             /\ j \in P => b[j] = Null
  BY <1>1
<1> HIDE DEF b, P
<1>3. Shared(F, P, Q, {}, h, b)
  <2>1. F \cup P \cup Q \cup {} \subseteq DOMAIN b /\ Apart(F, P, Q, {})
    BY <1>2 DEF Shared, Apart
  <2>2. \A n \in Handles : h[n].i # 0 => /\ h[n].i \in DOMAIN b \ (F \cup P \cup Q \cup {})
                                         /\ b[h[n].i] = h[n].p
                                         /\ \A m \in Handles : h[n].i = h[m].i => n = m
    BY <1>2 DEF Shared
  <2>3. \A j \in DOMAIN b : ~Owns(h, j) => b[j] = Null
    BY <1>2 DEF Shared
  <2> QED  BY <2>1, <2>2, <2>3 DEF Shared
<1> QED  BY <1>3 DEF b, P

LEMMA ShareTake ==
  ASSUME NEW h \in Hps, \A n \in Handles : h[n].i = 0, NEW a, Cleared(a)
  PROVE  Shared(DOMAIN a, {}, {}, {}, h, a)
  BY DEF Shared, Apart, Cleared

-------------------------------------------------------------------------------
(* Slots. *)

\* What a thread with a record can rely on.
LEMMA OwnSlots ==
  ASSUME SInv, NEW t \in Threads, rec[t] # 0
  PROVE  /\ Shared(free[t], Added(Inner(pc[t])), Added(back[t]), Scanner(t), hp[t], Array(rec[t]))
         /\ Reads(t, Array(rec[t])) /\ hp[t] \in Hps /\ free[t] \subseteq Nat \ {0}
<1>1. SlotOK(t, Array(rec[t])) /\ ThreadType
  BY DEF SInv, SlotsOK, TypeOK
<1> QED  BY <1>1 DEF SlotOK, Hps, ThreadType

\* A step that touches neither slots nor hazard pointers.
LEMMA SlotFrame ==
  ASSUME SInv, NEW t \in Threads, rec[t] # 0, UNCHANGED <<rec, arrays, free, hp>>,
         Added(Inner(pc'[t])) = Added(Inner(pc[t])), Added(back'[t]) = Added(back[t]),
         Scanner(t)' = Scanner(t), Reads(t, Array(rec[t]))'
  PROVE  SlotOK(t, Array(rec[t]))'
<1>1. Array(rec[t])' = Array(rec[t])
  BY DEF Array, Last
<1> QED  BY <1>1, OwnSlots DEF SlotOK

\* The loop of a reclamation goes back to the growing it interrupted.
LEMMA SlotAgain ==
  ASSUME SInv, NEW t \in Threads, rec[t] # 0, UNCHANGED <<rec, arrays, free, hp>>,
         pc[t].at \in {"pop", "putback"}, Again(t)
  PROVE  SlotOK(t, Array(rec[t]))'
<1>1. ThreadType /\ pc \in [Threads -> PCs]
  BY DEF SInv, TypeOK
<1>2. Inner(pc[t]) = pc[t] /\ Added(pc[t]) = {} /\ Scanner(t) = {}
  BY DEF Inner, Added, Scanner
<1>3. Array(rec[t])' = Array(rec[t])
  BY DEF Array, Last
<1>4. CASE must_retry[t]
  <2>1. pc'[t] = [at |-> "pop"] /\ back'[t] = back[t]
    BY <1>1, <1>4 DEF Again, Goto
  <2>2. Inner(pc'[t]) = pc'[t] /\ Added(pc'[t]) = {} /\ Scanner(t)' = {} /\ Reads(t, Array(rec[t]))'
    BY <2>1 DEF Inner, Added, Scanner, Reads
  <2> QED  BY <1>2, <2>1, <2>2, SlotFrame
<1>5. CASE ~must_retry[t]
  <2>1. pc'[t] = back[t] /\ back'[t] = Idle
    BY <1>1, <1>5 DEF Again, Goto, ThreadType
  <2>2. back[t].at \in {"idle", "extend"}
    BY <1>1, GrowingFields DEF ThreadType, Idle
  <2>3. Inner(pc'[t]) = back[t] /\ Added(back'[t]) = {} /\ Scanner(t)' = {} /\ Reads(t, Array(rec[t]))'
    BY <2>1, <2>2 DEF Inner, Added, Scanner, Reads, Idle
  <2>4. Shared(free[t], {}, Added(back[t]), {}, hp[t], Array(rec[t]))
    BY <1>2, OwnSlots
  <2>5. Shared(free[t], Added(back[t]), {}, {}, hp[t], Array(rec[t]))
    BY <2>4, ShareUnnest
  <2> QED  BY <1>3, <2>3, <2>5 DEF SlotOK
<1> QED  BY <1>4, <1>5

\* Making room: the slots that growing adds wait until it is done.
LEMMA SlotGrow ==
  ASSUME SInv, NEW t \in Threads, rec[t] # 0, pc[t].at \in {"idle", "array"},
         NEW p, Grow(t, p), [at |-> "extend", n |-> Len(Array(rec[t])), to |-> p] \in Return
  PROVE  SlotOK(t, Array(rec[t]))'
<1> DEFINE a == Array(rec[t])  q == [at |-> "extend", n |-> Len(a), to |-> p]
<1>1. UNCHANGED <<rec, free, hp, back>> /\ free[t] = {} /\ Defer(t, Addr(rec[t], Last(rec[t])), q)
  BY DEF Grow, slot, recl, loop
<1>2. Inner(pc'[t]) = q /\ pc'[t].at \in {"flush", "idle", "release", "judge", "extend"}
  BY <1>1, DeferGoes DEF SInv
<1>3. Added(q) = Len(a) + 1 .. 2 * Len(a)
  BY DEF Added
<1>4. Added(Inner(pc[t])) = {} /\ Scanner(t) = {} /\ Scanner(t)' = {} /\ Reads(t, Array(rec[t]))'
  BY <1>2 DEF Added, Inner, Scanner, Reads
<1>5. Array(rec[t])' = Grown(a) /\ a \in Seq(Ptrs \cup Addrs \cup {Null})
  BY GrowEffect, OwnArray
<1>6. Shared(free[t], {}, Added(back[t]), {}, hp[t], a) /\ hp[t] \in Hps
  BY <1>4, OwnSlots
<1> HIDE DEF a
<1>7. Shared(free[t], Len(a) + 1 .. 2 * Len(a), Added(back[t]), {}, hp[t], Grown(a))
  BY <1>5, <1>6, ShareGrow
<1> QED  BY <1>1, <1>2, <1>3, <1>4, <1>5, <1>7 DEF SlotOK

\* Writing the slot i of the thread's own array.
LEMMA SlotWrite ==
  ASSUME SInv, NEW t \in Threads, rec[t] # 0, NEW i \in DOMAIN Array(rec[t]),
         NEW p \in Ptrs \cup Addrs \cup {Null}, Put(t, i, p), UNCHANGED rec
  PROVE  Array(rec[t])' = [Array(rec[t]) EXCEPT ![i] = p]
  BY PutEffect

LEMMA Slots_Living == ASSUME SInv, NEW t \in Threads, Living(t), rec'[t] # 0 PROVE SlotOK(t, Array(rec[t]))'
<1> USE DEF Goto, env, records, pool, domain, slot, batch, loop, judging, recl, history
<1>1. ThreadType /\ pc \in [Threads -> PCs] /\ ControlAt(t) /\ TypeOK
  BY DEF SInv, TypeOK, ControlOK
<1>2. back[t] \in Growing \cup {Idle} /\ pc[t] \in PCs
  BY <1>1 DEF ThreadType
<1>3. CASE Start(t)
  BY <1>1, <1>3 DEF Start
<1>4. CASE Skip(t)
  BY <1>1, <1>4 DEF Skip, ControlAt
<1>5. CASE Recycle(t)
  <2>1. pc[t].k \in 1 .. MaxRecs /\ Unowned(pc[t].k) /\ rec[t] = 0 /\ back[t] = Idle
    BY <1>1, <1>5, <1>2, PlaceFields, SizeAssumption DEF ControlAt, Base, Inner, Scans, Unowned, RecordsOK, SInv, SharedType, TypeOK, Recycle
  <2>2. /\ rec'[t] = pc[t].k /\ free'[t] = DOMAIN Array(pc[t].k) /\ pc'[t] = Idle
        /\ UNCHANGED <<arrays, hp, back>>
    BY <1>1, <1>5 DEF ThreadType, Take, Recycle
  <2>3. Array(rec[t])' = Array(pc[t].k)
    BY <2>2 DEF Array, Last
  <2>4. Cleared(Array(pc[t].k)) /\ hp[t] \in Hps /\ \A n \in Handles : hp[t][n].i = 0
    BY <1>1, <2>1 DEF SInv, ArraysOK, HandlesOK, HandleAt, ThreadType, Hps
  <2>5. Shared(DOMAIN Array(pc[t].k), {}, {}, {}, hp[t], Array(pc[t].k))
    BY <2>4, ShareTake
  <2>6. Added(Inner(pc'[t])) = {} /\ Added(back'[t]) = {} /\ Scanner(t)' = {} /\ Reads(t, Array(rec[t]))'
    BY <2>1, <2>2 DEF Inner, Added, Scanner, Reads, Idle
  <2> QED  BY <2>2, <2>3, <2>5, <2>6 DEF SlotOK
<1>6. CASE NewRecord(t)
  <2>1. nrec + 1 \in 1 .. MaxRecs /\ Unowned(nrec + 1) /\ rec[t] = 0 /\ back[t] = Idle
    BY <1>1, <1>6, <1>2, PlaceFields, SizeAssumption DEF ControlAt, Base, Inner, Scans, Unowned, RecordsOK, SInv, SharedType, TypeOK, NewRecord
  <2>2. /\ rec'[t] = nrec + 1 /\ free'[t] = DOMAIN Array(nrec + 1) /\ pc'[t] = Idle
        /\ UNCHANGED <<arrays, hp, back>>
    BY <1>1, <1>6 DEF ThreadType, Take, NewRecord
  <2>3. Array(rec[t])' = Array(nrec + 1)
    BY <2>2 DEF Array, Last
  <2>4. Cleared(Array(nrec + 1)) /\ hp[t] \in Hps /\ \A n \in Handles : hp[t][n].i = 0
    BY <1>1, <2>1 DEF SInv, ArraysOK, HandlesOK, HandleAt, ThreadType, Hps
  <2>5. Shared(DOMAIN Array(nrec + 1), {}, {}, {}, hp[t], Array(nrec + 1))
    BY <2>4, ShareTake
  <2>6. Added(Inner(pc'[t])) = {} /\ Added(back'[t]) = {} /\ Scanner(t)' = {} /\ Reads(t, Array(rec[t]))'
    BY <2>1, <2>2 DEF Inner, Added, Scanner, Reads, Idle
  <2> QED  BY <2>2, <2>3, <2>5, <2>6 DEF SlotOK
<1>7. CASE Exit(t)
  <2>1. rec[t] # 0 /\ UNCHANGED <<rec, arrays, free, hp, back>>
    BY <1>1, <1>7 DEF ControlAt, Ready, Judging, Idle, Exit
  <2>2. pc[t].at = "idle" /\ pc'[t] = [at |-> "flush", to |-> [at |-> "release"]]
    BY <1>1, <1>2, <1>7, PlaceFields, ReturnFields, DeferGoes, Places DEF Ready, Idle, Exit
  <2>3. /\ Added(Inner(pc'[t])) = Added(Inner(pc[t])) /\ Added(back'[t]) = Added(back[t])
        /\ Scanner(t)' = Scanner(t) /\ Reads(t, Array(rec[t]))'
    BY <2>1, <2>2 DEF Inner, Added, Scanner, Reads, Idle
  <2> QED  BY <2>1, <2>3, SlotFrame
<1>8. CASE Release(t)
  BY <1>1, <1>8 DEF Release, ThreadType
<1> QED  BY <1>3, <1>4, <1>5, <1>6, <1>7, <1>8 DEF Living

LEMMA Slots_Retiring == ASSUME SInv, NEW t \in Threads, Retiring(t), rec'[t] # 0 PROVE SlotOK(t, Array(rec[t]))'
<1> USE DEF Goto, env, records, pool, domain, slot, batch, loop, judging, recl, history
<1>1. ThreadType /\ pc \in [Threads -> PCs] /\ ControlAt(t) /\ TypeOK
  BY DEF SInv, TypeOK, ControlOK
<1>2. back[t] \in Growing \cup {Idle} /\ pc[t] \in PCs
  BY <1>1 DEF ThreadType
<1>3. ASSUME NEW o \in Roots \cup {Null}, Swap(t, o) PROVE SlotOK(t, Array(rec[t]))'
  <2>1. rec[t] # 0 /\ UNCHANGED <<rec, arrays, free, hp, back, pc>>
    BY <1>3 DEF Ready, Swap
  <2>2. /\ Added(Inner(pc'[t])) = Added(Inner(pc[t])) /\ Added(back'[t]) = Added(back[t])
        /\ Scanner(t)' = Scanner(t) /\ Reads(t, Array(rec[t]))'
    <3>1. pc[t].at = "idle"
      BY <1>3 DEF Swap, Ready, Idle
    <3> QED  BY <2>1, <3>1 DEF Scanner, Reads
  <2> QED  BY <2>1, <2>2, SlotFrame
<1>7. ASSUME NEW o \in Roots, Drop(t, o) PROVE SlotOK(t, Array(rec[t]))'
  <2>1. rec[t] # 0 /\ UNCHANGED <<rec, arrays, free, hp, back>>
    BY <1>1, <1>7 DEF ControlAt, Ready, Judging, Idle, Drop
  <2>2. pc[t].at = "idle" /\ Inner(pc'[t]).at = "idle" /\ pc'[t].at \in {"idle", "flush", "idle", "release", "judge", "extend"}
    <3>1. pc[t] \in PCs /\ pc[t].at = "idle"
      BY <1>2, <1>7 DEF Drop, Ready, Idle
    <3>2. Idle \in Return /\ Idle.at = "idle"
      BY Places DEF Idle
    <3>3. Defer(t, o, Idle)
      BY <1>7 DEF Drop
    <3>4. Inner(pc'[t]) = Idle /\ pc'[t].at \in {"flush", "idle", "release", "judge", "extend"}
      BY <1>1, <3>2, <3>3, DeferGoes
    <3> QED  BY <3>1, <3>2, <3>4
  <2>3. /\ Added(Inner(pc'[t])) = Added(Inner(pc[t])) /\ Added(back'[t]) = Added(back[t])
        /\ Scanner(t)' = Scanner(t) /\ Reads(t, Array(rec[t]))'
    BY <2>1, <2>2 DEF Inner, Added, Scanner, Reads, Idle
  <2> QED  BY <2>1, <2>3, SlotFrame
<1>4. CASE EagerReclaim(t)
  <2>1. rec[t] # 0 /\ UNCHANGED <<rec, arrays, free, hp, back>>
    BY <1>1, <1>4 DEF ControlAt, Ready, Judging, Idle, EagerReclaim
  <2>2. pc[t].at = "idle" /\ pc'[t] = [at |-> "flush", to |-> Idle]
    BY <1>1, <1>2, <1>4, PlaceFields, ReturnFields, DeferGoes, Places DEF Ready, Idle, EagerReclaim
  <2>3. /\ Added(Inner(pc'[t])) = Added(Inner(pc[t])) /\ Added(back'[t]) = Added(back[t])
        /\ Scanner(t)' = Scanner(t) /\ Reads(t, Array(rec[t]))'
    BY <2>1, <2>2 DEF Inner, Added, Scanner, Reads, Idle
  <2> QED  BY <2>1, <2>3, SlotFrame
<1>5. CASE Flush(t)
  <2>1. rec[t] # 0 /\ UNCHANGED <<rec, arrays, free, hp, back>>
    BY <1>1, <1>5 DEF ControlAt, Ready, Judging, Idle, Flush
  <2>2. pc[t].at = "flush" /\ pc'[t] = [at |-> "push", to |-> pc[t].to]
    BY <1>1, <1>2, <1>5, PlaceFields, ReturnFields, DeferGoes, Places DEF Ready, Idle, Flush
  <2>3. /\ Added(Inner(pc'[t])) = Added(Inner(pc[t])) /\ Added(back'[t]) = Added(back[t])
        /\ Scanner(t)' = Scanner(t) /\ Reads(t, Array(rec[t]))'
    BY <2>1, <2>2 DEF Inner, Added, Scanner, Reads, Idle
  <2> QED  BY <2>1, <2>3, SlotFrame
<1>6. CASE Push(t)
  <2>1. rec[t] # 0 /\ UNCHANGED <<rec, arrays, free, hp>> /\ pc[t].at = "push"
    BY <1>1, <1>6 DEF ControlAt, Push
  <2>2. pc[t].to.at \in {"idle", "release", "judge", "extend"}
    BY <1>2, <1>6, PlaceFields, ReturnFields DEF Push
  <2>3. Inner(pc[t]) = pc[t].to /\ Scanner(t) = {} /\ Array(rec[t])' = Array(rec[t])
    BY <2>1 DEF Inner, Scanner, Array, Last
  <2>4. ASSUME count[t] = 0, pc[t].to.at # "release", ~in_recl[t] PROVE SlotOK(t, Array(rec[t]))'
    <3>1. back[t] = Idle /\ back'[t] = pc[t].to /\ pc'[t] = [at |-> "pop"]
      BY <1>1, <1>6, <2>4 DEF ControlAt, ThreadType, Push
    <3>2. Added(back[t]) = {} /\ Inner(pc'[t]) = pc'[t] /\ Added(pc'[t]) = {} /\ Scanner(t)' = {} /\ Reads(t, Array(rec[t]))'
      BY <3>1 DEF Inner, Added, Scanner, Reads, Idle
    <3>3. Shared(free[t], Added(pc[t].to), {}, {}, hp[t], Array(rec[t]))
      BY <2>1, <2>3, <3>2, OwnSlots
    <3>4. Shared(free[t], {}, Added(pc[t].to), {}, hp[t], Array(rec[t]))
      BY <3>3, ShareNest
    <3> QED  BY <2>1, <2>3, <3>1, <3>2, <3>4 DEF SlotOK
  <2>5. ASSUME ~(count[t] = 0 /\ pc[t].to.at # "release" /\ ~in_recl[t]) PROVE SlotOK(t, Array(rec[t]))'
    <3>1. pc'[t] = pc[t].to /\ back'[t] = back[t]
      BY <1>1, <1>6, <2>5 DEF Push
    <3>2. Inner(pc'[t]) = pc[t].to /\ Scanner(t)' = {} /\ Reads(t, Array(rec[t]))'
      BY <2>2, <3>1 DEF Inner, Added, Scanner, Reads, Idle
    <3> QED  BY <2>1, <2>3, <3>1, <3>2, SlotFrame
  <2> QED  BY <2>4, <2>5, <1>6 DEF Push
<1> QED  BY <1>3, <1>4, <1>5, <1>6, <1>7 DEF Retiring

LEMMA Slots_Slots == ASSUME SInv, NEW t \in Threads, Slots(t), rec'[t] # 0 PROVE SlotOK(t, Array(rec[t]))'
<1> USE DEF Goto, env, records, pool, domain, slot, batch, loop, judging, recl, history
<1>1. ThreadType /\ pc \in [Threads -> PCs] /\ ControlAt(t) /\ TypeOK
  BY DEF SInv, TypeOK, ControlOK
<1>2. back[t] \in Growing \cup {Idle} /\ pc[t] \in PCs
  BY <1>1 DEF ThreadType
<1>3. CASE Extend(t)
  <2>1. rec[t] # 0 /\ UNCHANGED <<rec, arrays, hp, back>> /\ pc[t].at = "extend"
    BY <1>1, <1>3 DEF ControlAt, Extend
  <2>2. pc'[t].at \in {"acquire", "array"} /\ free'[t] = free[t] \cup (pc[t].n + 1 .. 2 * pc[t].n)
    BY <1>1, <1>2, <1>3, PlaceFields, GrowingFields DEF ThreadType, Extend
  <2>3. /\ Inner(pc[t]) = pc[t] /\ Added(pc[t]) = pc[t].n + 1 .. 2 * pc[t].n /\ Scanner(t) = {}
        /\ Inner(pc'[t]) = pc'[t] /\ Added(pc'[t]) = {} /\ Scanner(t)' = {} /\ Reads(t, Array(rec[t]))'
    BY <2>1, <2>2 DEF Inner, Added, Scanner, Reads, Idle
  <2>4. Array(rec[t])' = Array(rec[t])
    BY <2>1 DEF Array, Last
  <2>5. Shared(free[t], Added(pc[t]), Added(back[t]), {}, hp[t], Array(rec[t]))
    BY <2>1, <2>3, OwnSlots
  <2>6. Shared(free[t] \cup Added(pc[t]), {}, Added(back[t]), {}, hp[t], Array(rec[t]))
    BY <2>5, ShareExtend
  <2> QED  BY <2>1, <2>2, <2>3, <2>4, <2>6 DEF SlotOK
<1>4. ASSUME NEW n \in Handles, NEW i \in free[t], Acquire(t, n, i) PROVE SlotOK(t, Array(rec[t]))'
  <2>1. rec[t] # 0 /\ UNCHANGED <<rec, arrays, back>> /\ pc[t].at \in {"idle", "acquire"} /\ pc'[t].at = "idle"
    BY <1>1, <1>4 DEF ControlAt, Wants, Ready, Idle, Acquire
  <2>2. /\ free'[t] = free[t] \ {i} /\ hp'[t] = [hp[t] EXCEPT ![n] = Hazard(i, Null, {})]
        /\ i \in Nat \ {0} /\ hp[t][n].i = 0
    BY <1>1, <1>4 DEF ThreadType, Acquire
  <2>3. /\ Inner(pc[t]) = pc[t] /\ Added(pc[t]) = {} /\ Scanner(t) = {}
        /\ Inner(pc'[t]) = pc'[t] /\ Added(pc'[t]) = {} /\ Scanner(t)' = {} /\ Reads(t, Array(rec[t]))'
    BY <2>1 DEF Inner, Added, Scanner, Reads, Idle
  <2>4. Array(rec[t])' = Array(rec[t]) /\ Array(rec[t]) \in Seq(Ptrs \cup Addrs \cup {Null})
    BY <2>1, OwnArray DEF Array, Last
  <2>5. Shared(free[t], {}, Added(back[t]), {}, hp[t], Array(rec[t])) /\ hp[t] \in Hps
    BY <2>1, <2>3, OwnSlots
  <2>6. Shared(free[t] \ {i}, {}, Added(back[t]), {}, [hp[t] EXCEPT ![n] = Hazard(i, Null, {})], Array(rec[t]))
    BY <2>2, <2>4, <2>5, ShareAcquire
  <2> QED  BY <2>1, <2>2, <2>3, <2>4, <2>6 DEF SlotOK
<1>5. ASSUME NEW n \in Handles, AcquireGrow(t, n) PROVE SlotOK(t, Array(rec[t]))'
  <2>1. rec[t] # 0 /\ pc[t].at = "idle" /\ Grow(t, [at |-> "acquire", h |-> n])
    BY <1>5 DEF Wants, Ready, AcquireGrow, Idle
  <2>2. [at |-> "extend", n |-> Len(Array(rec[t])), to |-> [at |-> "acquire", h |-> n]] \in Return
    BY <2>1, OwnArray, ExtendPlace, GrowingFields
  <2> QED  BY <2>1, <2>2, SlotGrow
<1> QED  BY <1>3, <1>4, <1>5 DEF Slots

LEMMA Slots_Protecting == ASSUME SInv, NEW t \in Threads, Protecting(t), rec'[t] # 0 PROVE SlotOK(t, Array(rec[t]))'
<1> USE DEF Goto, env, records, pool, domain, slot, batch, loop, judging, recl, history
<1>1. ThreadType /\ pc \in [Threads -> PCs] /\ ControlAt(t) /\ TypeOK
  BY DEF SInv, TypeOK, ControlOK
<1>2. back[t] \in Growing \cup {Idle} /\ pc[t] \in PCs
  BY <1>1 DEF ThreadType
<1>3. CASE Publish(t)
  <2>1. rec[t] # 0 /\ UNCHANGED <<rec, free, back>> /\ pc[t].at = "publish" /\ pc'[t].at = "validate"
    BY <1>1, <1>2, <1>3, PlaceFields DEF ControlAt, Ready, Idle, Publish
  <2>2. hp[t][pc[t].h].i \in DOMAIN Array(rec[t]) 
        /\ PtrOf(pc[t].o) \in Ptrs \cup Addrs \cup {Null} /\ pc[t].h \in Handles /\ hp[t][pc[t].h].i # 0
    BY <1>1, <1>2, <1>3, <2>1, PlaceFields, Pointers, OwnArray DEF ThreadType, Entries, SInv, HandlesOK, HandleAt, Publish
  <2>3. Put(t, hp[t][pc[t].h].i, PtrOf(pc[t].o)) /\ hp'[t] = [hp[t] EXCEPT ![pc[t].h] = Hazard(hp[t][pc[t].h].i, PtrOf(pc[t].o), Undropped(PtrOf(pc[t].o)))]
    BY <1>1, <2>2, <1>3 DEF ThreadType, Publish
  <2>4. Array(rec[t])' = [Array(rec[t]) EXCEPT ![hp[t][pc[t].h].i] = PtrOf(pc[t].o)]
    BY <2>1, <2>2, <2>3, SlotWrite
  <2>5. /\ Inner(pc[t]) = pc[t] /\ Added(pc[t]) = {} /\ Scanner(t) = {}
        /\ Inner(pc'[t]) = pc'[t] /\ Added(pc'[t]) = {} /\ Scanner(t)' = {} /\ Reads(t, Array(rec[t]))'
    BY <2>1 DEF Inner, Added, Scanner, Reads, Idle
  <2>6. Shared(free[t], {}, Added(back[t]), {}, hp[t], Array(rec[t])) /\ hp[t] \in Hps /\ Array(rec[t]) \in Seq(Ptrs \cup Addrs \cup {Null})
    BY <2>1, <2>5, OwnSlots, OwnArray
  <2>7. Shared(free[t], {}, Added(back[t]), {}, [hp[t] EXCEPT ![pc[t].h] = Hazard(hp[t][pc[t].h].i, PtrOf(pc[t].o), Undropped(PtrOf(pc[t].o)))],
               [Array(rec[t]) EXCEPT ![hp[t][pc[t].h].i] = PtrOf(pc[t].o)])
    BY <2>2, <2>6, ShareSet
  <2> QED  BY <2>1, <2>3, <2>4, <2>5, <2>7 DEF SlotOK
<1>4. CASE Validate(t)
  <2>1. rec[t] # 0 /\ UNCHANGED <<rec, arrays, free, back>> /\ pc[t].h \in Handles
    BY <1>1, <1>2, <1>4, PlaceFields DEF ControlAt, Validate
  <2>2. \/ hp'[t] = hp[t]
        \/ hp'[t] = [hp[t] EXCEPT ![pc[t].h] = Hazard(hp[t][pc[t].h].i, hp[t][pc[t].h].p, hp[t][pc[t].h].held \cup ({link} \ {Null}))]
    <3>1. hp[t][pc[t].h] \in [i : Nat, p : Ptrs \cup {Null}, held : SUBSET Refs] /\ hp[t] \in Hps
      BY <1>1, <2>1 DEF ThreadType, Hps
    <3>2. [hp[t][pc[t].h] EXCEPT !.held = @ \cup ({link} \ {Null})] = Hazard(hp[t][pc[t].h].i, hp[t][pc[t].h].p, hp[t][pc[t].h].held \cup ({link} \ {Null}))
      BY <3>1 DEF Hazard
    <3>3. hp' = hp \/ hp' = [hp EXCEPT ![t][pc[t].h].held = @ \cup ({link} \ {Null})]
      BY <1>4 DEF Validate, Trust
    <3>4. ASSUME hp' = [hp EXCEPT ![t][pc[t].h].held = @ \cup ({link} \ {Null})]
          PROVE  hp'[t] = [hp[t] EXCEPT ![pc[t].h] = [hp[t][pc[t].h] EXCEPT !.held = @ \cup ({link} \ {Null})]]
      BY <1>1, <2>1, <3>1, <3>4 DEF ThreadType, Hps
    <3> QED  BY <3>2, <3>3, <3>4
  <2>3. /\ pc[t].at = "validate"
        /\ pc'[t] = Idle \/ pc'[t] = [at |-> "publish", h |-> pc[t].h, o |-> link]
    BY <1>1, <1>4 DEF Validate, Trust
  <2>4. /\ Inner(pc[t]) = pc[t] /\ Added(pc[t]) = {} /\ Scanner(t) = {}
        /\ Inner(pc'[t]) = pc'[t] /\ Added(pc'[t]) = {} /\ Scanner(t)' = {} /\ Reads(t, Array(rec[t]))'
    BY <2>3 DEF Inner, Added, Scanner, Reads, Idle
  <2>5. Array(rec[t])' = Array(rec[t])
    BY <2>1 DEF Array, Last
  <2>6. Shared(free[t], {}, Added(back[t]), {}, hp[t], Array(rec[t])) /\ hp[t] \in Hps
    BY <2>1, <2>4, OwnSlots
  <2>7. Shared(free[t], {}, Added(back[t]), {}, [hp[t] EXCEPT ![pc[t].h] = Hazard(hp[t][pc[t].h].i, hp[t][pc[t].h].p, hp[t][pc[t].h].held \cup ({link} \ {Null}))],
               Array(rec[t]))
    BY <2>1, <2>6, ShareMark
  <2> QED  BY <2>1, <2>2, <2>4, <2>5, <2>6, <2>7 DEF SlotOK
<1>5. ASSUME NEW n \in Handles, DropHandle(t, n) PROVE SlotOK(t, Array(rec[t]))'
  <2>1. rec[t] # 0 /\ UNCHANGED <<rec, back>> /\ pc[t].at = "idle" /\ pc'[t].at = "idle"
    BY <1>5 DEF Ready, Idle, DropHandle
  <2>2. hp[t][n].i \in DOMAIN Array(rec[t]) /\ Null \in Ptrs \cup Addrs \cup {Null} /\ hp[t][n].i # 0
    BY <1>5, <2>1, OwnArray DEF DropHandle
  <2>3. /\ Put(t, hp[t][n].i, Null) /\ hp'[t] = [hp[t] EXCEPT ![n] = NoHp]
        /\ free'[t] = free[t] \cup {hp[t][n].i}
    BY <1>1, <1>5 DEF ThreadType, DropHandle
  <2>4. Array(rec[t])' = [Array(rec[t]) EXCEPT ![hp[t][n].i] = Null]
    BY <2>1, <2>2, <2>3, SlotWrite
  <2>5. /\ Inner(pc[t]) = pc[t] /\ Added(pc[t]) = {} /\ Scanner(t) = {}
        /\ Inner(pc'[t]) = pc'[t] /\ Added(pc'[t]) = {} /\ Scanner(t)' = {} /\ Reads(t, Array(rec[t]))'
    BY <2>1 DEF Inner, Added, Scanner, Reads, Idle
  <2>6. Shared(free[t], {}, Added(back[t]), {}, hp[t], Array(rec[t])) /\ hp[t] \in Hps /\ Array(rec[t]) \in Seq(Ptrs \cup Addrs \cup {Null})
    BY <2>1, <2>5, OwnSlots, OwnArray
  <2>7. Shared(free[t] \cup {hp[t][n].i}, {}, Added(back[t]), {}, [hp[t] EXCEPT ![n] = NoHp],
               [Array(rec[t]) EXCEPT ![hp[t][n].i] = Null])
    BY <2>2, <2>6, ShareDrop
  <2> QED  BY <2>1, <2>3, <2>4, <2>5, <2>7 DEF SlotOK
<1>6. ASSUME NEW n \in Handles, Load(t, n) PROVE SlotOK(t, Array(rec[t]))'
  <2>1. rec[t] # 0 /\ UNCHANGED <<rec, arrays, free, hp, back>> /\ pc[t].at = "idle" /\ pc'[t].at = "publish"
    BY <1>1, <1>2, <1>6 DEF Ready, Idle, Load
  <2>2. /\ Added(Inner(pc'[t])) = Added(Inner(pc[t])) /\ Added(back'[t]) = Added(back[t])
        /\ Scanner(t)' = Scanner(t) /\ Reads(t, Array(rec[t]))'
    BY <2>1 DEF Inner, Added, Scanner, Reads
  <2> QED  BY <2>1, <2>2, SlotFrame
<1>7. ASSUME NEW n \in Handles, Clear(t, n) PROVE SlotOK(t, Array(rec[t]))'
  <2>1. rec[t] # 0 /\ UNCHANGED <<rec, free, back>> /\ pc[t].at = "idle" /\ pc'[t].at = "idle"
    BY <1>1, <1>2, <1>7, PlaceFields DEF ControlAt, Ready, Idle, Clear
  <2>2. hp[t][n].i \in DOMAIN Array(rec[t]) /\ Null \in Ptrs \cup Addrs \cup {Null} /\ n \in Handles /\ hp[t][n].i # 0
    BY <1>1, <1>2, <1>7, <2>1, PlaceFields, OwnArray DEF ThreadType, Entries, SInv, HandlesOK, HandleAt, Clear
  <2>3. Put(t, hp[t][n].i, Null) /\ hp'[t] = [hp[t] EXCEPT ![n] = Hazard(hp[t][n].i, Null, {})]
    BY <1>1, <2>2, <1>7 DEF ThreadType, Clear
  <2>4. Array(rec[t])' = [Array(rec[t]) EXCEPT ![hp[t][n].i] = Null]
    BY <2>1, <2>2, <2>3, SlotWrite
  <2>5. /\ Inner(pc[t]) = pc[t] /\ Added(pc[t]) = {} /\ Scanner(t) = {}
        /\ Inner(pc'[t]) = pc'[t] /\ Added(pc'[t]) = {} /\ Scanner(t)' = {} /\ Reads(t, Array(rec[t]))'
    BY <2>1 DEF Inner, Added, Scanner, Reads, Idle
  <2>6. Shared(free[t], {}, Added(back[t]), {}, hp[t], Array(rec[t])) /\ hp[t] \in Hps /\ Array(rec[t]) \in Seq(Ptrs \cup Addrs \cup {Null})
    BY <2>1, <2>5, OwnSlots, OwnArray
  <2>7. Shared(free[t], {}, Added(back[t]), {}, [hp[t] EXCEPT ![n] = Hazard(hp[t][n].i, Null, {})],
               [Array(rec[t]) EXCEPT ![hp[t][n].i] = Null])
    BY <2>2, <2>6, ShareSet
  <2> QED  BY <2>1, <2>3, <2>4, <2>5, <2>7 DEF SlotOK
<1>8. ASSUME NEW n \in Handles, NEW m \in Handles \ {n}, SwapHandles(t, n, m) PROVE SlotOK(t, Array(rec[t]))'
  <2>1. rec[t] # 0 /\ UNCHANGED <<rec, arrays, free, back>> /\ pc[t].at = "idle" /\ pc'[t].at = "idle"
    BY <1>8 DEF Ready, Idle, SwapHandles
  <2>2. hp'[t] = [hp[t] EXCEPT ![n] = hp[t][m], ![m] = hp[t][n]]
    BY <1>1, <1>8 DEF ThreadType, SwapHandles
  <2>3. /\ Inner(pc[t]) = pc[t] /\ Added(pc[t]) = {} /\ Scanner(t) = {}
        /\ Inner(pc'[t]) = pc'[t] /\ Added(pc'[t]) = {} /\ Scanner(t)' = {} /\ Reads(t, Array(rec[t]))'
    BY <2>1 DEF Inner, Added, Scanner, Reads, Idle
  <2>4. Array(rec[t])' = Array(rec[t])
    BY <2>1 DEF Array, Last
  <2>5. Shared(free[t], {}, Added(back[t]), {}, hp[t], Array(rec[t])) /\ hp[t] \in Hps
    BY <2>1, <2>3, OwnSlots
  <2>6. Shared(free[t], {}, Added(back[t]), {}, hp'[t], Array(rec[t]))
    BY <2>2, <2>5, ShareSwap
  <2> QED  BY <2>1, <2>3, <2>4, <2>6 DEF SlotOK
<1>9. ASSUME NEW n \in Handles, NEW m \in Handles \ {n}, Copy(t, n, m) PROVE SlotOK(t, Array(rec[t]))'
  <2>1. rec[t] # 0 /\ UNCHANGED <<rec, free, back>> /\ pc[t].at = "idle" /\ pc'[t].at = "idle"
    BY <1>1, <1>2, <1>9, PlaceFields DEF ControlAt, Ready, Idle, Copy
  <2>2. hp[t][m].i \in DOMAIN Array(rec[t]) /\ hp[t][n].p \in Ptrs \cup Addrs \cup {Null} /\ m \in Handles /\ hp[t][m].i # 0
    BY <1>1, <1>2, <1>9, <2>1, PlaceFields, OwnArray DEF ThreadType, Entries, SInv, HandlesOK, HandleAt, Copy
  <2>3. Put(t, hp[t][m].i, hp[t][n].p) /\ hp'[t] = [hp[t] EXCEPT ![m] = Hazard(hp[t][m].i, hp[t][n].p, hp[t][n].held)]
    BY <1>1, <2>2, <1>9 DEF ThreadType, Copy
  <2>4. Array(rec[t])' = [Array(rec[t]) EXCEPT ![hp[t][m].i] = hp[t][n].p]
    BY <2>1, <2>2, <2>3, SlotWrite
  <2>5. /\ Inner(pc[t]) = pc[t] /\ Added(pc[t]) = {} /\ Scanner(t) = {}
        /\ Inner(pc'[t]) = pc'[t] /\ Added(pc'[t]) = {} /\ Scanner(t)' = {} /\ Reads(t, Array(rec[t]))'
    BY <2>1 DEF Inner, Added, Scanner, Reads, Idle
  <2>6. Shared(free[t], {}, Added(back[t]), {}, hp[t], Array(rec[t])) /\ hp[t] \in Hps /\ Array(rec[t]) \in Seq(Ptrs \cup Addrs \cup {Null})
    BY <2>1, <2>5, OwnSlots, OwnArray
  <2>7. Shared(free[t], {}, Added(back[t]), {}, [hp[t] EXCEPT ![m] = Hazard(hp[t][m].i, hp[t][n].p, hp[t][n].held)],
               [Array(rec[t]) EXCEPT ![hp[t][m].i] = hp[t][n].p])
    BY <2>2, <2>6, ShareSet
  <2> QED  BY <2>1, <2>3, <2>4, <2>5, <2>7 DEF SlotOK
<1> QED  BY <1>3, <1>4, <1>5, <1>6, <1>7, <1>8, <1>9 DEF Protecting

LEMMA Slots_Scanning == ASSUME SInv, NEW t \in Threads, Scanning(t), rec'[t] # 0 PROVE SlotOK(t, Array(rec[t]))'
<1> USE DEF Goto, env, records, pool, domain, slot, batch, loop, judging, recl, history
<1>1. ThreadType /\ pc \in [Threads -> PCs] /\ ControlAt(t) /\ TypeOK
  BY DEF SInv, TypeOK, ControlOK
<1>2. back[t] \in Growing \cup {Idle} /\ pc[t] \in PCs
  BY <1>1 DEF ThreadType
<1>3. CASE Pop(t)
  <2>1. rec[t] # 0 /\ UNCHANGED <<rec, arrays, free, hp>>
    BY <1>1, <1>3 DEF ControlAt, Pop
  <2>2. CASE retireds = {}
    BY <2>1, <2>2, <1>3, SlotAgain DEF Pop
  <2>3. CASE retireds # {}
    <3>1. pc[t].at = "pop" /\ pc'[t] = [at |-> "head"] /\ back' = back
      BY <1>1, <1>3, <2>3 DEF Pop
    <3>2. /\ Added(Inner(pc'[t])) = Added(Inner(pc[t]))
          /\ Scanner(t)' = Scanner(t) /\ Reads(t, Array(rec[t]))'
      BY <3>1 DEF Inner, Added, Scanner, Reads, Idle
    <3> QED  BY <2>1, <3>1, <3>2, SlotFrame
  <2> QED  BY <2>2, <2>3
<1>4. CASE ReadHead(t)
  <2>1. rec[t] # 0 /\ UNCHANGED <<rec, arrays, free, hp, back>>
    BY <1>1, <1>4 DEF ControlAt, Ready, Judging, Idle, ReadHead
  <2>2. pc[t].at = "head" /\ pc'[t].at = "record"
    BY <1>1, <1>2, <1>4, PlaceFields, ReturnFields, DeferGoes, Places DEF Ready, Idle, ReadHead
  <2>3. /\ Added(Inner(pc'[t])) = Added(Inner(pc[t])) /\ Added(back'[t]) = Added(back[t])
        /\ Scanner(t)' = Scanner(t) /\ Reads(t, Array(rec[t]))'
    BY <2>1, <2>2 DEF Inner, Added, Scanner, Reads, Idle
  <2> QED  BY <2>1, <2>3, SlotFrame
<1>5. CASE Record(t)
  <2>1. rec[t] # 0 /\ UNCHANGED <<rec, arrays, free, hp, back>>
    BY <1>1, <1>5 DEF ControlAt, Ready, Judging, Idle, Record
  <2>2. pc[t].at = "record" /\ pc'[t].at \in {"record", "array"}
    BY <1>1, <1>2, <1>5, PlaceFields, ReturnFields, DeferGoes, Places DEF Ready, Idle, Record
  <2>3. /\ Added(Inner(pc'[t])) = Added(Inner(pc[t])) /\ Added(back'[t]) = Added(back[t])
        /\ Scanner(t)' = Scanner(t) /\ Reads(t, Array(rec[t]))'
    BY <2>1, <2>2 DEF Inner, Added, Scanner, Reads, Idle
  <2> QED  BY <2>1, <2>3, SlotFrame
<1>6. ASSUME NEW i \in free[t], ReadArray(t, i) PROVE SlotOK(t, Array(rec[t]))'
  <2>1. rec[t] # 0 /\ UNCHANGED <<rec, arrays, hp, back>> /\ pc[t].at = "array"
    BY <1>1, <1>6 DEF ControlAt, ReadArray
  <2>2. pc'[t] = [at |-> "guard", k |-> pc[t].k, g |-> Last(pc[t].k), i |-> i] /\ free'[t] = free[t] \ {i}
    BY <1>1, <1>6 DEF ThreadType, ReadArray
  <2>3. /\ Inner(pc[t]) = pc[t] /\ Added(pc[t]) = {} /\ Scanner(t) = {}
        /\ Inner(pc'[t]) = pc'[t] /\ Added(pc'[t]) = {} /\ Scanner(t)' = {i} /\ Reads(t, Array(rec[t]))'
    BY <2>1, <2>2 DEF Inner, Added, Scanner, Reads, Idle
  <2>4. Array(rec[t])' = Array(rec[t])
    BY <2>1 DEF Array, Last
  <2>5. Shared(free[t], {}, Added(back[t]), {}, hp[t], Array(rec[t])) /\ hp[t] \in Hps
    BY <2>1, <2>3, OwnSlots
  <2>6. Shared(free[t] \ {i}, {}, Added(back[t]), {i}, hp[t], Array(rec[t]))
    BY <2>5, ShareScan
  <2> QED  BY <2>1, <2>2, <2>3, <2>4, <2>6 DEF SlotOK
<1>7. CASE ReadArrayGrow(t)
  <2>1. rec[t] # 0 /\ pc[t].at = "array" /\ Grow(t, pc[t])
    BY <1>1, <1>7 DEF ControlAt, ReadArrayGrow
  <2>2. [at |-> "extend", n |-> Len(Array(rec[t])), to |-> pc[t]] \in Return
    BY <1>1, <1>2, <2>1, OwnArray, PlaceFields, PlainShape, ExtendPlace, GrowingFields
  <2> QED  BY <2>1, <2>2, SlotGrow
<1>8. CASE GuardArray(t)
  <2>1. rec[t] # 0 /\ UNCHANGED <<rec, free, hp, back>> /\ pc[t].at = "guard"
    BY <1>1, <1>8 DEF ControlAt, GuardArray
  <2>2. pc'[t] = [at |-> "recheck", k |-> pc[t].k, g |-> pc[t].g, i |-> pc[t].i]
    BY <1>1, <1>8 DEF GuardArray, Look
  <2>3. pc[t].i \in DOMAIN Array(rec[t]) /\ Addr(pc[t].k, pc[t].g) \in Ptrs \cup Addrs \cup {Null}
    BY <1>2, <2>1, PlaceFields, OwnArray DEF Scanner, Entries, Addrs, Addr
  <2>4. Array(rec[t])' = [Array(rec[t]) EXCEPT ![pc[t].i] = Addr(pc[t].k, pc[t].g)]
    BY <1>8, <2>1, <2>3, SlotWrite DEF GuardArray
  <2>5. /\ Inner(pc[t]) = pc[t] /\ Added(pc[t]) = {} /\ Scanner(t) = {pc[t].i}
        /\ Inner(pc'[t]) = pc'[t] /\ Added(pc'[t]) = {} /\ Scanner(t)' = {pc[t].i}
    BY <2>1, <2>2 DEF Inner, Added, Scanner, Reads, Idle
  <2>6. Shared(free[t], {}, Added(back[t]), {pc[t].i}, hp[t], Array(rec[t])) /\ hp[t] \in Hps /\ Array(rec[t]) \in Seq(Ptrs \cup Addrs \cup {Null})
    BY <2>1, <2>5, OwnSlots, OwnArray
  <2>7. Shared(free[t], {}, Added(back[t]), {pc[t].i}, hp[t], [Array(rec[t]) EXCEPT ![pc[t].i] = Addr(pc[t].k, pc[t].g)])
    BY <2>6, ShareGuard
  <2>8. Array(rec[t])'[pc'[t].i] = Addr(pc'[t].k, pc'[t].g)
    BY <2>2, <2>3, <2>4, <2>6
  <2> QED  BY <2>1, <2>4, <2>5, <2>7, <2>8 DEF SlotOK, Reads
<1>9. CASE Recheck(t)
  <2>1. rec[t] # 0 /\ UNCHANGED <<rec, arrays, free, hp, back>> /\ pc[t].at \in {"recheck", "slots"}
    BY <1>1, <1>9 DEF ControlAt, Recheck
  <2>2. /\ pc'[t].at \in {"slots", "guard"} /\ pc'[t].k = pc[t].k /\ pc'[t].i = pc[t].i
        /\ pc'[t].at = "slots" => pc'[t].g = pc[t].g
    BY <1>1, <1>9 DEF Look, Slot, Recheck
  <2>3. Reads(t, Array(rec[t]))'
    BY <2>1, <2>2, OwnSlots DEF Reads, Array, Last
  <2>4. Added(Inner(pc'[t])) = Added(Inner(pc[t])) /\ Scanner(t)' = Scanner(t)
    BY <2>1, <2>2 DEF Inner, Added, Scanner, Reads, Idle
  <2> QED  BY <2>1, <2>3, <2>4, SlotFrame
<1>10. CASE ReadSlot(t)
  <2>1. rec[t] # 0 /\ UNCHANGED <<rec, arrays, free, hp, back>> /\ pc[t].at \in {"recheck", "slots"}
    BY <1>1, <1>10 DEF ControlAt, ReadSlot
  <2>2. /\ pc'[t].at \in {"slots", "guard"} /\ pc'[t].k = pc[t].k /\ pc'[t].i = pc[t].i
        /\ pc'[t].at = "slots" => pc'[t].g = pc[t].g
    BY <1>1, <1>10 DEF Look, Slot, ReadSlot
  <2>3. Reads(t, Array(rec[t]))'
    BY <2>1, <2>2, OwnSlots DEF Reads, Array, Last
  <2>4. Added(Inner(pc'[t])) = Added(Inner(pc[t])) /\ Scanner(t)' = Scanner(t)
    BY <2>1, <2>2 DEF Inner, Added, Scanner, Reads, Idle
  <2> QED  BY <2>1, <2>3, <2>4, SlotFrame
<1>11. CASE EndArray(t)
  <2>1. rec[t] # 0 /\ UNCHANGED <<rec, hp, back>> /\ pc[t].at = "slots" /\ pc'[t].at = "record" /\ pc[t].i # 0
    BY <1>1, <1>2, <1>11, PlaceFields DEF ControlAt, EndArray
  <2>2. free'[t] = free[t] \cup {pc[t].i}
    BY <1>1, <1>11 DEF ThreadType, EndArray
  <2>3. pc[t].i \in DOMAIN Array(rec[t]) /\ Null \in Ptrs \cup Addrs \cup {Null}
    BY <2>1, OwnArray DEF Scanner
  <2>4. Array(rec[t])' = [Array(rec[t]) EXCEPT ![pc[t].i] = Null]
    BY <1>11, <2>1, <2>3, SlotWrite DEF EndArray
  <2>5. /\ Inner(pc[t]) = pc[t] /\ Added(pc[t]) = {} /\ Scanner(t) = {pc[t].i}
        /\ Inner(pc'[t]) = pc'[t] /\ Added(pc'[t]) = {} /\ Scanner(t)' = {} /\ Reads(t, Array(rec[t]))'
    BY <2>1 DEF Inner, Added, Scanner, Reads, Idle
  <2>6. Shared(free[t], {}, Added(back[t]), {pc[t].i}, hp[t], Array(rec[t])) /\ hp[t] \in Hps /\ Array(rec[t]) \in Seq(Ptrs \cup Addrs \cup {Null})
    BY <2>1, <2>5, OwnSlots, OwnArray
  <2>7. Shared(free[t] \cup {pc[t].i}, {}, Added(back[t]), {}, hp[t], [Array(rec[t]) EXCEPT ![pc[t].i] = Null])
    BY <2>1, <2>6, ShareUnscan
  <2> QED  BY <2>1, <2>2, <2>4, <2>5, <2>7 DEF SlotOK
<1> QED  BY <1>3, <1>4, <1>5, <1>6, <1>7, <1>8, <1>9, <1>10, <1>11 DEF Scanning

LEMMA Slots_Judgement == ASSUME SInv, NEW t \in Threads, Judgement(t), rec'[t] # 0 PROVE SlotOK(t, Array(rec[t]))'
<1> USE DEF Goto, env, records, pool, domain, slot, batch, loop, judging, recl, history
<1>1. ThreadType /\ pc \in [Threads -> PCs] /\ ControlAt(t) /\ TypeOK
  BY DEF SInv, TypeOK, ControlOK
<1>2. back[t] \in Growing \cup {Idle} /\ pc[t] \in PCs
  BY <1>1 DEF ThreadType
<1>3. ASSUME NEW e \in popped[t], Call(t, e) PROVE SlotOK(t, Array(rec[t]))'
  <2>1. rec[t] # 0 /\ UNCHANGED <<rec, arrays, free, hp, back>>
    BY <1>1, <1>3 DEF ControlAt, Ready, Judging, Idle, Call
  <2>2. pc[t].at \in {"judge", "record"} /\ Inner(pc'[t]).at = "judge" /\ pc'[t].at \in {"judge", "flush", "idle", "release", "judge", "extend"}
    <3>1. pc[t] \in PCs /\ pc[t].at \in {"judge", "record"}
      BY <1>2, <1>3 DEF Call, Judging, Idle
    <3>2. [at |-> "judge"] \in Return /\ [at |-> "judge"].at = "judge"
      BY Places DEF Idle
    <3>3. CASE (IF e \in Refs THEN Child[e] ELSE Null) = Null
      <4>1. pc'[t] = [at |-> "judge"]
        BY <1>1, <1>3, <3>3 DEF Call, Ready
      <4> QED  BY <3>1, <3>2, <4>1 DEF Inner
    <3>4. CASE ~((IF e \in Refs THEN Child[e] ELSE Null) = Null)
      <4>1. Defer(t, (IF e \in Refs THEN Child[e] ELSE Null), [at |-> "judge"])
        BY <1>3, <3>4 DEF Call
      <4>2. Inner(pc'[t]) = [at |-> "judge"] /\ pc'[t].at \in {"flush", "idle", "release", "judge", "extend"}
        BY <1>1, <3>2, <4>1, DeferGoes
      <4> QED  BY <3>1, <3>2, <4>2
    <3> QED  BY <3>3, <3>4
  <2>3. /\ Added(Inner(pc'[t])) = Added(Inner(pc[t])) /\ Added(back'[t]) = Added(back[t])
        /\ Scanner(t)' = Scanner(t) /\ Reads(t, Array(rec[t]))'
    BY <2>1, <2>2 DEF Inner, Added, Scanner, Reads, Idle
  <2> QED  BY <2>1, <2>3, SlotFrame
<1>4. CASE Discount(t)
  <2>1. rec[t] # 0 /\ UNCHANGED <<rec, arrays, free, hp, back>>
    BY <1>1, <1>4 DEF ControlAt, Ready, Judging, Idle, Discount
  <2>2. pc[t].at \in {"judge", "record"} /\ pc'[t].at = "putback"
    BY <1>1, <1>2, <1>4, PlaceFields, ReturnFields, DeferGoes, Places DEF Ready, Idle, Discount, Judging
  <2>3. /\ Added(Inner(pc'[t])) = Added(Inner(pc[t])) /\ Added(back'[t]) = Added(back[t])
        /\ Scanner(t)' = Scanner(t) /\ Reads(t, Array(rec[t]))'
    BY <2>1, <2>2 DEF Inner, Added, Scanner, Reads, Idle
  <2> QED  BY <2>1, <2>3, SlotFrame
<1>5. CASE PutBack(t)
  <2>1. rec[t] # 0 /\ UNCHANGED <<rec, arrays, free, hp>>
    BY <1>1, <1>5 DEF ControlAt, PutBack
  <2> QED  BY <2>1, <1>5, SlotAgain DEF PutBack
<1> QED  BY <1>3, <1>4, <1>5 DEF Judgement

\* The other threads' slots are as they were: their records are others.
LEMMA SlotsKept ==
  ASSUME SInv, NEW t \in Threads, Step(t), Alone(t), NEW u \in Threads \ {t}, rec'[u] # 0
  PROVE  SlotOK(u, Array(rec[u]))'
<1>1. Same(u) /\ rec[u] # 0
  BY DEF Alone, Same
<1>2. rec[u] # rec[t] /\ rec[u] \in 1 .. MaxRecs
  BY <1>1, OwnArray DEF SInv, RecordsOK
<1>3. Last(rec[u])' = Last(rec[u]) /\ arrays'[rec[u]] = arrays[rec[u]] /\ rec'[u] = rec[u]
  BY <1>1, <1>2, ArraysKept DEF Same, Last
<1>4. Array(rec[u])' = Array(rec[u])
  BY <1>3 DEF Array, Last
<1>5. SlotOK(u, Array(rec[u]))
  BY <1>1 DEF SInv, SlotsOK
<1> QED  BY <1>1, <1>4, <1>5 DEF SlotOK, Same, Scanner, Reads

-------------------------------------------------------------------------------
(* The invariant. *)

LEMMA SInv_Init == Init => SInv
<1> SUFFICES ASSUME Init PROVE SInv
  OBVIOUS
<1> USE DEF Init
<1> DEFINE a == [i \in 1 .. INIT_SIZE |-> Null]
<1>1. INIT_SIZE \in Nat \ {0} /\ FLUSH \in Nat \ {0} /\ MaxRecs \in Nat
  BY SizeAssumption
<1>2. a \in Seq(Ptrs \cup Addrs \cup {Null}) /\ Len(a) = INIT_SIZE /\ Cleared(a)
  BY <1>1 DEF Cleared
<1>3. arrays = [k \in 1 .. MaxRecs |-> <<a>>]
  OBVIOUS
<1> HIDE DEF a
<1>4. \A k \in 1 .. MaxRecs : arrays[k] \in Seq(Seq(Ptrs \cup Addrs \cup {Null})) /\ Last(k) = 1 /\ Array(k) = a
  BY <1>2, <1>3 DEF Last, Array
<1>5. SharedType
  BY <1>1, <1>3, <1>4 DEF SharedType
<1>6. ThreadType
  BY <1>1 DEF ThreadType, NoHp, Hazard
<1>7. TypeOK
  BY <1>5, <1>6, Places DEF TypeOK, Idle
<1>8. ControlOK
  BY DEF ControlOK, ControlAt, Base, Inner, Scans, Idle
<1>9. HandlesOK
  BY DEF HandlesOK, HandleAt, NoHp, Hazard, Idle
<1>10. RecordsOK
  BY <1>1 DEF RecordsOK, Unowned
<1>11. ArraysOK
  BY <1>1, <1>2, <1>4 DEF ArraysOK
<1>12. SlotsOK
  BY DEF SlotsOK
<1> QED  BY <1>7, <1>8, <1>9, <1>10, <1>11, <1>12 DEF SInv

LEMMA SInv_Step == ASSUME SInv, NEW t \in Threads, Step(t) PROVE SInv'
<1>1. TypeOK'
  BY TypeOK_Living, TypeOK_Retiring, TypeOK_Slots, TypeOK_Protecting, TypeOK_Scanning, TypeOK_Judgement
  DEF Step
<1>2. Alone(t)
  BY Alone_Living, Alone_Retiring, Alone_Slots, Alone_Protecting, Alone_Scanning, Alone_Judgement
  DEF Step
<1>3. ControlAt(t)'
  BY Control_Living, Control_Retiring, Control_Slots, Control_Protecting, Control_Scanning, Control_Judgement
  DEF Step
<1>4. ControlOK'
  BY <1>2, <1>3, ControlKept DEF ControlOK
<1>5. \A n \in Handles : HandleAt(t, n)'
  BY Handles_Living, Handles_Retiring, Handles_Slots, Handles_Protecting, Handles_Scanning, Handles_Judgement
  DEF Step
<1>6. HandlesOK'
  BY <1>2, <1>5, HandlesKept DEF HandlesOK
<1>7. RecordsOK' /\ ArraysOK'
  BY Records_Step
<1>8. rec'[t] # 0 => SlotOK(t, Array(rec[t]))'
  BY Slots_Living, Slots_Retiring, Slots_Slots, Slots_Protecting, Slots_Scanning, Slots_Judgement
  DEF Step
<1>9. SlotsOK'
  <2>1. \A u \in Threads \ {t} : rec'[u] # 0 => SlotOK(u, Array(rec[u]))'
    BY <1>2, SlotsKept
  <2> QED  BY <1>8, <2>1 DEF SlotsOK
<1> QED  BY <1>1, <1>4, <1>6, <1>7, <1>9 DEF SInv

LEMMA SInv_Stutter == ASSUME SInv, UNCHANGED vars PROVE SInv'
<1> USE DEF vars, env, records, pool, domain, slot, batch, loop, judging, recl, history
<1>1. TypeOK'
  BY DEF SInv, TypeOK, SharedType, ThreadType
<1>2. ControlOK' /\ HandlesOK'
  BY DEF SInv, ControlOK, ControlAt, HandlesOK, HandleAt, Last
<1>3. RecordsOK' /\ ArraysOK'
  BY DEF SInv, RecordsOK, ArraysOK, Unowned, Cleared, Array, Last
<1>4. SlotsOK'
  <2> SUFFICES ASSUME NEW t \in Threads, rec[t] # 0 PROVE SlotOK(t, Array(rec[t]))'
    BY DEF SlotsOK
  <2>1. SlotOK(t, Array(rec[t])) /\ Array(rec[t])' = Array(rec[t])
    BY DEF SInv, SlotsOK, Array, Last
  <2> QED  BY <2>1 DEF SlotOK, Scanner, Reads
<1> QED  BY <1>1, <1>2, <1>3, <1>4 DEF SInv

\* The slot discipline holds in every behaviour: types, the control of the
\* reclamation loop, one owner to a record in use, clean records for the next
\* owner, and slots shared out between free list, hazard pointers, scan and growing.
THEOREM SlotDiscipline == Spec => []SInv
<1>1. SInv /\ [Next]_vars => SInv'
  BY SInv_Step, SInv_Stutter DEF Next
<1> QED  BY SInv_Init, <1>1, PTL DEF Spec

\* Every variable of the domain keeps its type, whatever the threads retire,
\* protect, grow, scan and release.
THEOREM TypeCorrect == Spec => []TypeOK
<1>1. SInv => TypeOK
  BY DEF SInv
<1> QED  BY <1>1, SlotDiscipline, PTL

\* A reclamation that a nested call asked for is not forgotten: must_retry is up
\* only while the loop that looks at it runs, and a thread that is back in its
\* client has left do_reclamation.
THEOREM RetryIsHonoured == Spec => []RetryHonoured
<1>1. SInv => RetryHonoured
  BY DEF SInv, ControlOK, ControlAt, Base, Inner, Scans, Idle, RetryHonoured
<1> QED  BY <1>1, SlotDiscipline, PTL

\* What a slot holds is what its owner says.
LEMMA SaysSlot ==
  ASSUME SInv, NEW t \in Threads, rec[t] # 0, NEW i \in DOMAIN Array(rec[t]),
         ~(pc[t].at = "guard" /\ pc[t].i = i)
  PROVE  Array(rec[t])[i] = Says(t, i)
<1> DEFINE a == Array(rec[t])  h == hp[t]
<1>1. Shared(free[t], Added(Inner(pc[t])), Added(back[t]), Scanner(t), h, a) /\ Reads(t, a)
  BY OwnSlots
<1>2. i # 0
  BY OwnArray, SomeArray
<1> HIDE DEF a
<1>3. CASE i \in Scanner(t)
  <2>1. pc[t].at \in {"recheck", "slots"} /\ pc[t].i = i
    BY <1>3 DEF Scanner
  <2>2. Says(t, i) = Addr(pc[t].k, pc[t].g)
    BY <1>3 DEF Says
  <2> QED  BY <1>1, <2>1, <2>2 DEF Reads, a
<1>4. CASE i \notin Scanner(t) /\ Owns(h, i)
  <2>1. PICK n \in Handles : h[n].i = i
    BY <1>4 DEF Owns
  <2>2. n \in Held(t) /\ \A m \in Held(t) : h[m].i = i => m = n
    BY <1>1, <1>2, <2>1 DEF Held, Shared
  <2>3. (CHOOSE m \in Held(t) : hp[t][m].i = i) = n
    BY <2>1, <2>2
  <2>4. Says(t, i) = hp[t][n].p
    BY <1>4, <2>1, <2>2, <2>3 DEF Says
  <2>5. a[h[n].i] = h[n].p
    BY <1>1, <1>2, <2>1 DEF Shared
  <2> QED  BY <2>1, <2>4, <2>5 DEF a
<1>5. CASE i \notin Scanner(t) /\ ~Owns(h, i)
  <2>1. a[i] = Null
    BY <1>1, <1>5 DEF Shared, a
  <2>2. Says(t, i) = Null
    BY <1>5 DEF Says, Held, Owns
  <2> QED  BY <2>1, <2>2 DEF a
<1> QED  BY <1>3, <1>4, <1>5 DEF a

\* Hazard pointers with different slots: as many slots as hazard pointers.
LEMMA SInv_Match == ASSUME SInv PROVE SlotsMatch
<1>1. \A k \in 1 .. nrec :
        LET owners == {t \in Threads : rec[t] = k} IN
          IF avail[k] THEN owners = {} /\ \A i \in DOMAIN Array(k) : Array(k)[i] = Null
          ELSE Cardinality(owners) = 1
  <2> SUFFICES ASSUME NEW k \in 1 .. nrec
               PROVE  LET owners == {t \in Threads : rec[t] = k} IN
                        IF avail[k] THEN owners = {} /\ \A i \in DOMAIN Array(k) : Array(k)[i] = Null
                        ELSE Cardinality(owners) = 1
    OBVIOUS
  <2>1. k \in 1 .. MaxRecs /\ ~(k > nrec)
    BY SizeAssumption DEF SInv, TypeOK, SharedType
  <2>2. CASE avail[k]
    <3>1. Cleared(Array(k)) /\ \A t \in Threads : rec[t] # k
      BY <2>1, <2>2 DEF SInv, ArraysOK, RecordsOK, Unowned
    <3> QED  BY <2>2, <3>1 DEF Cleared
  <2>3. CASE ~avail[k]
    <3>1. PICK t \in Threads : rec[t] = k
      BY <2>1, <2>3 DEF SInv, RecordsOK, Unowned
    <3>2. {u \in Threads : rec[u] = k} = {t}
      BY <2>1, <3>1 DEF SInv, RecordsOK
    <3>3. Cardinality({t}) = 1
      BY FS_Singleton
    <3> QED  BY <2>3, <3>2, <3>3
  <2> QED  BY <2>2, <2>3
<1>2. ASSUME NEW t \in Threads, rec[t] # 0
      PROVE  LET a == Array(rec[t])  taken == {hp[t][n].i : n \in Held(t)} IN
               /\ Cardinality(taken) = Cardinality(Held(t))
               /\ Scanner(t) \cap taken = {} /\ free[t] \cap (taken \cup Scanner(t)) = {}
               /\ free[t] \cup taken \cup Scanner(t) \subseteq DOMAIN a
               /\ \A i \in DOMAIN a : (pc[t].at = "guard" /\ pc[t].i = i) \/ a[i] = Says(t, i)
  <2> DEFINE a == Array(rec[t])  taken == {hp[t][n].i : n \in Held(t)}
  <2>1. Shared(free[t], Added(Inner(pc[t])), Added(back[t]), Scanner(t), hp[t], a)
    BY <1>2, OwnSlots
  <2>2. Cardinality(taken) = Cardinality(Held(t))
    <3> DEFINE f == [n \in Held(t) |-> hp[t][n].i]
    <3>1. IsFiniteSet(taken)
      <4>1. DOMAIN a = 1 .. Len(a) /\ Len(a) \in Int
        BY <1>2, OwnArray
      <4>2. IsFiniteSet(DOMAIN a)
        BY <4>1, FS_Interval
      <4>3. taken \in SUBSET DOMAIN a
        BY <2>1 DEF Shared, Held
      <4> HIDE DEF a, taken
      <4> QED  BY <4>2, <4>3, FS_Subset
    <3>2. \A n, m \in Held(t) : hp[t][n].i = hp[t][m].i => n = m
      BY <2>1 DEF Held, Shared
    <3>3. f \in Bijection(Held(t), taken)
      <4>1. f \in [Held(t) -> taken] /\ \A n, m \in Held(t) : f[n] = f[m] => n = m
        BY <3>2
      <4>2. \A i \in taken : \E n \in Held(t) : f[n] = i
        OBVIOUS
      <4> HIDE DEF f, taken
      <4> QED  BY <4>1, <4>2, Fun_IsBij
    <3>4. ExistsBijection(taken, Held(t))
      BY <3>3, Fun_ExistsBij, Fun_ExistsBijSymmetric
    <3> QED  BY <3>1, <3>4, FS_Bijection
  <2>3. Scanner(t) \cap taken = {} /\ free[t] \cap (taken \cup Scanner(t)) = {}
    BY <2>1 DEF Shared, Apart, Held
  <2>4. free[t] \cup taken \cup Scanner(t) \subseteq DOMAIN a
    BY <2>1 DEF Shared, Held
  <2>5. \A i \in DOMAIN a : (pc[t].at = "guard" /\ pc[t].i = i) \/ a[i] = Says(t, i)
    BY <1>2, SaysSlot
  <2> QED  BY <2>2, <2>3, <2>4, <2>5
<1> QED  BY <1>1, <1>2 DEF SlotsMatch

\* Slots, free lists and hazard pointers agree, and a record in use has one owner,
\* whatever grows, exits, is recycled or reclaims in the middle of growing.
THEOREM SlotsAgree == Spec => []SlotsMatch
<1>1. SInv => SlotsMatch
  BY SInv_Match
<1> QED  BY <1>1, SlotDiscipline, PTL
====
