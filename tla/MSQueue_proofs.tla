---------------------------- MODULE MSQueue_proofs ----------------------------
(***************************************************************************)
(* The queue of sealed bags, for any number of threads, nodes and calls:   *)
(* no call touches a node that was freed, no node is retired while head or *)
(* tail can lead to it, and the queue implements BagQueue.                 *)
(***************************************************************************)
EXTENDS MSQueue, Integers, FiniteSetTheorems, NaturalsInduction, WellFoundedInduction, TLAPS

\* Where n occurs last in a sequence, and what follows there.
Occurs(s, n) == \E i \in 1 .. Len(s) : s[i] = n
At(s, n, i)  == i \in 1 .. Len(s) /\ s[i] = n /\ \A j \in i + 1 .. Len(s) : s[j] # n
Pos(s, n)    == CHOOSE i \in 1 .. Len(s) : At(s, n, i)
After(s, i)  == IF i < Len(s) THEN s[i + 1] ELSE Null
Distinct(s, i) == \A j, k \in i .. Len(s) : s[j] = s[k] => j = k

\* The nodes in the order in which they were linked: those that tail has been
\* at, and the one after it.  A node that is used again occurs again.
Linked   == IF next[Last(tails)] = Null THEN tails ELSE Append(tails, next[Last(tails)])
Size     == Len(Linked)
Place(n) == Pos(Linked, n)
Start    == Place(head)

\* The control points with a node loaded, with its next loaded, and with a new node.
Pushing == {"push", "push_next", "help", "link"}
Popping == {"pop_next", "pop_if_next", "take", "take_if"}
Taking  == {"pop_tail", "advance", "retire"}
Holding == {"push_next", "help", "link", "swing"} \cup Popping \cup Taking
Ahead   == {"help", "take", "take_if"} \cup Taking
Points  == {"out", "in", "pop", "pop_if", "swing"} \cup Pushing \cup Popping \cup Taking

TypeInv ==
  /\ head \in Nodes \cup {Null} /\ next \in [Nodes -> Nodes \cup {Null}]
  /\ data \in [Nodes -> {NoBag} \cup Nat] /\ pushed \in Nat
  /\ tails \in Seq(Nodes) /\ Len(tails) > 0
  /\ mem \in [Nodes -> {"free", "held", "used", "deferred", "retired"}]
  /\ wait \in [Nodes -> SUBSET Threads] /\ mine \in [Threads -> SUBSET Nodes]
  /\ pc \in [Threads -> Points]
  /\ onto \in [Threads -> Nodes \cup {Null}] /\ succ \in [Threads -> Nodes \cup {Null}]
  /\ new \in [Threads -> Nodes \cup {Null}]
  /\ view \in [Threads -> 1 .. Len(tails)] /\ lview \in [Nodes -> 1 .. Len(tails)]
  /\ hview \in 1 .. Len(tails) /\ rview \in 1 .. Len(tails)

RegistersOK == \A t \in Threads :
  /\ onto[t] # Null <=> pc[t] \in Holding
  /\ succ[t] # Null <=> pc[t] \in Ahead
  /\ new[t] # Null <=> pc[t] \in Pushing \cup {"swing"}
\* After the drop of the queue nobody comes back, and tail is not left behind.
DroppedOK ==
  head = Null => /\ \A t \in Threads : pc[t] = "out"
                 /\ mem[Last(tails)] \notin {"deferred", "retired"}
\* A node that is being pushed belongs to one thread, a deferred one to one bag.
NewOK ==
  /\ \A t \in Threads : pc[t] \in Pushing => mem[new[t]] = "held"
  /\ \A t, u \in Threads : pc[t] \in Pushing /\ pc[u] \in Pushing /\ new[t] = new[u] => t = u
MineOK ==
  /\ \A t \in Threads : \A n \in mine[t] : mem[n] = "deferred"
  /\ \A n \in Nodes : mem[n] = "deferred" => \E t \in Threads : n \in mine[t]
  /\ \A t, u \in Threads : \A n \in mine[t] : n \in mine[u] => t = u

\* From the guard of t, n cannot be freed.
Kept(n)    == mem[n] \in {"used", "deferred", "retired"}
Safe(t, n) == mem[n] \in {"used", "deferred"} \/ (mem[n] = "retired" /\ t \in wait[n])

\* A node leads to the one that was linked next, and so does what its link tells.
NodesOK ==
  \A n \in Nodes :
    /\ Kept(n) => Occurs(Linked, n) /\ next[n] = After(Linked, Place(n)) /\ lview[n] >= Place(n) - 1
    /\ ~Kept(n) => next[n] = Null
\* What is in the queue is in use; what else is in use was taken by one thread.
FrontOK ==
  /\ Occurs(Linked, head) /\ Distinct(Linked, Start)
  /\ \A i \in Start .. Size : mem[Linked[i]] = "used"
  /\ \A n \in Nodes : mem[n] = "used" /\ Place(n) < Start => \E t \in Threads : Taken(t) /\ onto[t] = n
\* What tail can still be seen at is safe, and will not be retired by the thread.
ViewsOK ==
  /\ \A t \in Active : Distinct(Linked, view[t]) /\ \A i \in view[t] .. Size : Safe(t, Linked[i])
  /\ Distinct(Linked, rview) /\ \A i \in rview .. Size : mem[Linked[i]] \in {"used", "deferred"}
  /\ \A t \in Threads : \A i \in view[t] .. Size : Linked[i] \notin mine[t]
\* What a thread has loaded is safe, and all that was linked later; push is
\* where tail has been, pop not beyond head.
LoadedAt(t) ==
  /\ Occurs(Linked, onto[t]) /\ Distinct(Linked, Place(onto[t]))
  /\ \A i \in Place(onto[t]) .. Size : Safe(t, Linked[i])
  /\ pc[t] \in Ahead => Place(onto[t]) < Size /\ Linked[Place(onto[t]) + 1] = succ[t]
  /\ pc[t] = "swing" => Place(onto[t]) < Size /\ Linked[Place(onto[t]) + 1] = new[t]
  /\ pc[t] \in Ahead \cup {"push_next", "link", "swing"} => Place(onto[t]) <= view[t]
  /\ pc[t] \in Popping => Place(onto[t]) <= Start
LoadedOK == \A t \in Threads : pc[t] \in Holding => LoadedAt(t)
\* Whoever took a node will retire it, after tail has left it.
TakenOK ==
  /\ \A t \in Threads : Taken(t) => Place(onto[t]) < Start /\ mem[onto[t]] = "used"
  /\ \A t, u \in Threads : Taken(t) /\ Taken(u) /\ onto[t] = onto[u] => t = u
  /\ \A t \in Threads : pc[t] = "retire" => \A i \in view[t] .. Size : Linked[i] # onto[t]

LocalOK == TypeInv /\ RegistersOK /\ DroppedOK /\ NewOK /\ MineOK
ListOK  == NodesOK /\ FrontOK /\ ViewsOK /\ LoadedOK /\ TakenOK
QInv    == LocalOK /\ (head # Null => ListOK)

-------------------------------------------------------------------------------
(* Numbers and sequences. *)

LEMMA Least ==
  ASSUME NEW T \in SUBSET Nat, T # {}
  PROVE  \E x \in T : \A y \in T : x <= y
<1> DEFINE R == OpToRel(<, Nat)
<1>1. IsWellFoundedOn(R, Nat)
  BY NatLessThanWellFounded
<1>2. \E x \in T : \A y \in T : ~(<<y, x>> \in R)
  <2> HIDE DEF R
  <2> QED  BY <1>1, WFMin
<1>3. R = {ss \in Nat \X Nat : ss[1] < ss[2]}
  BY DEF OpToRel
<1> HIDE DEF R
<1>4. PICK x \in T : \A y \in T : ~(<<y, x>> \in R)
  BY <1>2
<1>5. ASSUME NEW y \in T, y < x PROVE FALSE
  <2>1. <<y, x>> \in Nat \X Nat /\ <<y, x>>[1] = y /\ <<y, x>>[2] = x
    OBVIOUS
  <2>2. <<y, x>> \in {ss \in Nat \X Nat : ss[1] < ss[2]}
    BY <1>5, <2>1
  <2> QED  BY <1>3, <1>4, <2>2
<1> QED  BY <1>5

\* Induction, over a set instead of a predicate.
LEMMA Induction ==
  ASSUME NEW S, 0 \in S, \A n \in Nat : n \in S => n + 1 \in S
  PROVE  Nat \subseteq S
<1> SUFFICES ASSUME Nat \ S # {} PROVE FALSE
  OBVIOUS
<1>1. PICK x \in Nat \ S : \A y \in Nat \ S : x <= y
  BY Least
<1>2. x # 0 /\ x - 1 \in Nat
  BY <1>1
<1>3. x - 1 \in S
  BY <1>1, <1>2
<1> QED  BY <1>1, <1>2, <1>3

\* A place is where Pos says, and there is only one.
LEMMA PosAt ==
  ASSUME NEW s \in Seq(Nodes), NEW n, NEW i, At(s, n, i)
  PROVE  Pos(s, n) = i
<1>1. Len(s) \in Nat /\ i \in 1 .. Len(s)
  BY DEF At
<1>2. ASSUME NEW j \in 1 .. Len(s), At(s, n, j) PROVE j = i
  <2>1. ~(i < j) /\ ~(j < i)
    BY <1>1, <1>2 DEF At
  <2> QED  BY <1>1, <2>1
<1> QED  BY <1>1, <1>2 DEF Pos

LEMMA PosOf ==
  ASSUME NEW s \in Seq(Nodes), NEW n, Occurs(s, n)
  PROVE  At(s, n, Pos(s, n)) /\ Pos(s, n) \in 1 .. Len(s) /\ s[Pos(s, n)] = n
<1> DEFINE T == {k \in Nat : k < Len(s) /\ s[Len(s) - k] = n}
<1>1. Len(s) \in Nat
  OBVIOUS
<1>2. PICK i \in 1 .. Len(s) : s[i] = n
  BY DEF Occurs
<1>3. Len(s) - i \in T
  <2>1. Len(s) - i \in Nat /\ Len(s) - i < Len(s) /\ Len(s) - (Len(s) - i) = i
    BY <1>1, <1>2
  <2> QED  BY <1>2, <2>1
<1>4. PICK k \in T : \A l \in T : k <= l
  BY <1>3, Least
<1> DEFINE m == Len(s) - k
<1>5. m \in 1 .. Len(s) /\ s[m] = n
  BY <1>1, <1>4
<1>6. ASSUME NEW j \in m + 1 .. Len(s), s[j] = n PROVE FALSE
  <2>1. Len(s) - j \in Nat /\ Len(s) - j < k /\ Len(s) - j < Len(s) /\ Len(s) - (Len(s) - j) = j
    BY <1>1, <1>4, <1>5
  <2>2. Len(s) - j \in T
    BY <1>6, <2>1
  <2> QED  BY <1>4, <2>1, <2>2
<1>7. At(s, n, m)
  BY <1>5, <1>6 DEF At
<1> HIDE DEF m
<1>8. Pos(s, n) = m
  BY <1>7, PosAt
<1> QED  BY <1>5, <1>7, <1>8

\* Where nothing occurs twice, a place is the last one.
LEMMA PosDistinct ==
  ASSUME NEW s \in Seq(Nodes), NEW i \in 1 .. Len(s), Distinct(s, i), NEW j \in i .. Len(s)
  PROVE  Pos(s, s[j]) = j /\ Occurs(s, s[j]) /\ s[j] \in Nodes
<1>1. j \in 1 .. Len(s) /\ Len(s) \in Nat
  OBVIOUS
<1>2. At(s, s[j], j)
  BY <1>1 DEF At, Distinct
<1>3. Pos(s, s[j]) = j
  BY <1>2, PosAt
<1> QED  BY <1>1, <1>3 DEF Occurs

LEMMA DistinctTail ==
  ASSUME NEW s \in Seq(Nodes), NEW i \in Int, NEW j \in Int, i <= j, Distinct(s, i)
  PROVE  Distinct(s, j)
<1>1. \A k \in j .. Len(s) : k \in i .. Len(s)
  OBVIOUS
<1> QED  BY <1>1 DEF Distinct

\* Appending what does not occur from i on.
LEMMA AppendDistinct ==
  ASSUME NEW s \in Seq(Nodes), NEW n \in Nodes, NEW i \in 1 .. Len(s) + 1, Distinct(s, i),
         \A j \in i .. Len(s) : s[j] # n
  PROVE  Distinct(Append(s, n), i)
<1>1. Len(Append(s, n)) = Len(s) + 1 /\ Append(s, n)[Len(s) + 1] = n
  OBVIOUS
<1>2. \A j \in 1 .. Len(s) : Append(s, n)[j] = s[j]
  OBVIOUS
<1>3. \A j \in i .. Len(s) + 1 : j = Len(s) + 1 \/ (j \in i .. Len(s) /\ j \in 1 .. Len(s))
  OBVIOUS
<1> QED  BY <1>1, <1>2, <1>3 DEF Distinct

LEMMA AppendPos ==
  ASSUME NEW s \in Seq(Nodes), NEW n \in Nodes
  PROVE  /\ \A m \in Nodes \ {n} : Occurs(s, m) => Occurs(Append(s, n), m) /\ Pos(Append(s, n), m) = Pos(s, m)
         /\ Occurs(Append(s, n), n) /\ Pos(Append(s, n), n) = Len(s) + 1
<1> DEFINE r == Append(s, n)
<1>1. r \in Seq(Nodes) /\ Len(r) = Len(s) + 1 /\ r[Len(s) + 1] = n /\ Len(s) \in Nat
  OBVIOUS
<1>2. \A j \in 1 .. Len(s) : r[j] = s[j]
  OBVIOUS
<1>3. At(r, n, Len(s) + 1)
  BY <1>1 DEF At
<1>4. ASSUME NEW m \in Nodes \ {n}, Occurs(s, m) PROVE At(r, m, Pos(s, m))
  <2>1. At(s, m, Pos(s, m))
    BY <1>4, PosOf
  <2> HIDE DEF r
  <2>2. \A j \in Pos(s, m) + 1 .. Len(r) : j = Len(s) + 1 \/ j \in Pos(s, m) + 1 .. Len(s)
    BY <1>1, <2>1 DEF At
  <2>3. \A j \in Pos(s, m) + 1 .. Len(s) : j \in 1 .. Len(s)
    BY <1>1, <2>1 DEF At
  <2> QED  BY <1>1, <1>2, <1>4, <2>1, <2>2, <2>3 DEF At
<1> HIDE DEF r
<1>5. \A m, j : At(r, m, j) => Occurs(r, m) /\ Pos(r, m) = j
  BY <1>1, PosAt DEF Occurs, At
<1>6. Occurs(r, n) /\ Pos(r, n) = Len(s) + 1
  BY <1>3, <1>5
<1>7. \A m \in Nodes \ {n} : Occurs(s, m) => Occurs(r, m) /\ Pos(r, m) = Pos(s, m)
  BY <1>4, <1>5
<1> QED  BY <1>6, <1>7 DEF r


-------------------------------------------------------------------------------
(* The nodes as they were linked. *)

LinkedFacts ==
  /\ Linked \in Seq(Nodes) /\ Size \in Nat /\ Len(tails) \in Nat /\ Len(tails) >= 1
  /\ Last(tails) = tails[Len(tails)] /\ Last(tails) \in Nodes
  /\ \A i \in 1 .. Size : Linked[i] \in Nodes
  /\ \A i \in 1 .. Len(tails) : Linked[i] = tails[i]
  /\ \/ next[Last(tails)] = Null /\ Size = Len(tails) /\ Linked = tails
     \/ /\ next[Last(tails)] \in Nodes /\ Size = Len(tails) + 1
        /\ Linked = Append(tails, next[Last(tails)]) /\ Linked[Size] = next[Last(tails)]

LEMMA LinkedLemma == TypeInv => LinkedFacts
<1> SUFFICES ASSUME TypeInv PROVE LinkedFacts
  OBVIOUS
<1>1. tails \in Seq(Nodes) /\ Len(tails) \in Nat /\ Len(tails) >= 1
  BY DEF TypeInv
<1>2. Last(tails) = tails[Len(tails)] /\ Last(tails) \in Nodes
  BY <1>1 DEF Last
<1>3. next[Last(tails)] \in Nodes \cup {Null}
  BY <1>2 DEF TypeInv
<1>4. CASE next[Last(tails)] = Null
  <2>1. Linked = tails
    BY <1>4 DEF Linked
  <2> QED  BY <1>1, <1>2, <1>4, <2>1 DEF LinkedFacts, Size
<1>5. CASE next[Last(tails)] # Null
  <2> DEFINE n == next[Last(tails)]
  <2>1. Linked = Append(tails, n) /\ n \in Nodes
    BY <1>3, <1>5 DEF Linked
  <2> HIDE DEF n
  <2>2. Len(Linked) = Len(tails) + 1 /\ Linked[Len(tails) + 1] = n /\ Linked \in Seq(Nodes)
    BY <1>1, <2>1
  <2>3. \A i \in 1 .. Len(tails) : Linked[i] = tails[i]
    BY <1>1, <2>1
  <2>4. \A i \in 1 .. Len(Linked) : Linked[i] \in Nodes
    BY <2>2
  <2> QED  BY <1>1, <1>2, <2>1, <2>2, <2>3, <2>4 DEF LinkedFacts, Size, n
<1> QED  BY <1>4, <1>5

LEMMA LinkedNext == TypeInv' => LinkedFacts'
BY LinkedLemma, PTL

LEMMA LearnLemma ==
  ASSUME view \in [Threads -> Nat], NEW t \in Threads, NEW v \in Nat, Learn(t, v)
  PROVE  /\ v >= view[t] => view' = [view EXCEPT ![t] = v]
         /\ \E w \in {v, view[t]} : w >= view[t] /\ w >= v /\ view' = [view EXCEPT ![t] = w]
<1>1. CASE v > view[t]
  BY <1>1 DEF Learn
<1>2. CASE ~(v > view[t])
  <2>1. view' = view /\ view = [view EXCEPT ![t] = view[t]]
    BY <1>2 DEF Learn
  <2> QED  BY <1>2, <2>1
<1> QED  BY <1>1, <1>2

\* What a compare-and-swap of tail does that comes after a load of it: the nodes
\* stay as they were linked, and the thread knows that tail has moved on.
LEMMA CasTailLemma ==
  ASSUME NEW t \in Threads, TypeInv, NodesOK, LoadedAt(t), NEW value \in Nodes,
         onto[t] \in Nodes,
         Place(onto[t]) < Size, Linked[Place(onto[t]) + 1] = value, Place(onto[t]) <= view[t],
         CasTail(t, onto[t], value), next' = next
  PROVE  /\ Linked' = Linked /\ tails' \in Seq(Nodes) /\ Len(tails') >= Len(tails)
         /\ \E v \in 1 .. Len(tails') :
              v >= view[t] /\ v > Place(onto[t]) /\ view' = [view EXCEPT ![t] = v]
<1> DEFINE p == Place(onto[t])
<1>1. LinkedFacts /\ Null \notin Nodes
  BY LinkedLemma, NullAssumption
<1>2. view[t] \in 1 .. Len(tails) /\ view \in [Threads -> Nat]
  BY <1>1 DEF LinkedFacts, TypeInv
<1>3. At(Linked, onto[t], p) /\ p \in 1 .. Size /\ Linked[p] = onto[t] /\ Distinct(Linked, p)
  BY <1>1, PosOf DEF LoadedAt, LinkedFacts, Place, Size
<1>4. CASE Last(tails) = onto[t] /\ tails' = Append(tails, value) /\ Learn(t, Len(tails) + 1)
  <2>1. Linked[Len(tails)] = onto[t] /\ Len(tails) \in 1 .. Size
    <3>1. Len(tails) \in 1 .. Len(tails) /\ Len(tails) \in 1 .. Size
      BY <1>1 DEF LinkedFacts
    <3>2. Linked[Len(tails)] = tails[Len(tails)]
      BY <1>1, <3>1 DEF LinkedFacts
    <3> QED  BY <1>1, <1>4, <3>1, <3>2 DEF LinkedFacts
  <2>2. ~(p < Len(tails))
    BY <1>1, <1>3, <2>1 DEF At, LinkedFacts, Size
  <2>3. p = Len(tails) /\ Size = Len(tails) + 1 /\ Linked = Append(tails, value)
    BY <1>1, <1>3, <2>2 DEF LinkedFacts
  <2>4. Pos(Linked, Linked[Size]) = Size /\ Linked[Size] = value
    <3>1. Size \in p .. Len(Linked)
      BY <1>1, <1>3 DEF Size, LinkedFacts
    <3>2. Pos(Linked, Linked[Size]) = Size
      BY <1>1, <1>3, <3>1, PosDistinct DEF LinkedFacts, Size
    <3> QED  BY <1>1, <2>3, <3>2 DEF LinkedFacts
  <2>5. Kept(value)
    <3>1. Size \in p .. Size
      BY <1>1, <1>3 DEF LinkedFacts
    <3>2. Safe(t, value)
      BY <2>4, <3>1 DEF LoadedAt
    <3> QED  BY <3>2 DEF Safe, Kept
  <2>6. next[value] = Null
    BY <2>4, <2>5 DEF NodesOK, After, Size, Place
  <2>7. Last(tails') = value /\ Len(tails') = Len(tails) + 1 /\ tails' \in Seq(Nodes)
    <3>1. tails' = Append(tails, value) /\ tails \in Seq(Nodes)
      BY <1>4 DEF TypeInv
    <3> QED  BY <3>1 DEF Last
  <2>8. Linked' = tails'
    BY <2>6, <2>7 DEF Linked
  <2>9. view' = [view EXCEPT ![t] = Len(tails) + 1]
    BY <1>1, <1>2, <1>4, LearnLemma DEF LinkedFacts
  <2>10. Len(tails) + 1 \in 1 .. Len(tails') /\ Len(tails) + 1 >= view[t] /\ Len(tails) + 1 > p
    BY <1>1, <1>2, <2>3, <2>7 DEF LinkedFacts
  <2>11. Linked' = Linked
    BY <1>4, <2>3, <2>8
  <2>12. Len(tails') >= Len(tails)
    BY <1>1, <2>7 DEF LinkedFacts
  <2> QED  BY <2>7, <2>9, <2>10, <2>11, <2>12
<1>5. CASE tails' = tails /\ \E i \in Visible(t) : tails[i] # onto[t] /\ Learn(t, i)
  <2>1. PICK i \in view[t] .. Len(tails) : tails[i] # onto[t] /\ Learn(t, i)
    BY <1>5 DEF Visible
  <2>2. i \in 1 .. Len(tails) /\ i >= view[t]
    BY <1>1, <1>2, <2>1 DEF LinkedFacts
  <2>3. i # p
    BY <1>1, <1>3, <2>1, <2>2 DEF LinkedFacts
  <2>4. i > p
    BY <1>1, <1>2, <1>3, <2>2, <2>3 DEF LinkedFacts
  <2>5. view' = [view EXCEPT ![t] = i]
    BY <1>1, <1>2, <2>1, <2>2, LearnLemma DEF LinkedFacts
  <2>6. Linked' = Linked
    BY <1>5 DEF Linked
  <2>7. tails' \in Seq(Nodes) /\ Len(tails') >= Len(tails) /\ i \in 1 .. Len(tails')
    BY <1>1, <1>5, <2>2 DEF LinkedFacts, TypeInv
  <2> QED  BY <2>2, <2>4, <2>5, <2>6, <2>7
<1> QED  BY <1>4, <1>5 DEF CasTail

LEMMA Learned ==
  ASSUME TypeInv, NEW t \in Threads, NEW v \in 1 .. Len(tails), Learn(t, v)
  PROVE  \E w \in 1 .. Len(tails) : w >= v /\ w >= view[t] /\ view' = [view EXCEPT ![t] = w]
<1>1. view \in [Threads -> Nat] /\ view[t] \in 1 .. Len(tails) /\ v \in Nat
  BY LinkedLemma DEF TypeInv, LinkedFacts
<1>2. PICK w \in {v, view[t]} : w >= view[t] /\ w >= v /\ view' = [view EXCEPT ![t] = w]
  BY <1>1, LearnLemma
<1> QED  BY <1>1, <1>2

\* The threads whose next action swings tail.
LEMMA TailMoves ==
  ASSUME QInv, head # Null, NEW t \in Threads, Help(t) \/ Swing(t) \/ PopAdvance(t)
  PROVE  /\ Linked' = Linked /\ tails' \in Seq(Nodes) /\ Len(tails') >= Len(tails)
         /\ \E v \in 1 .. Len(tails') :
              v >= view[t] /\ v > Place(onto[t]) /\ view' = [view EXCEPT ![t] = v]
<1>1. TypeInv /\ NodesOK /\ RegistersOK /\ LoadedOK /\ next' = next
  BY DEF QInv, LocalOK, ListOK, Help, Swing, PopAdvance
<1>2. pc[t] \in {"help", "swing", "advance"} /\ pc[t] \in Holding
  BY DEF Help, Swing, PopAdvance, Holding, Taking
<1>3. LoadedAt(t) /\ onto[t] \in Nodes
  BY <1>1, <1>2 DEF LoadedOK, RegistersOK, TypeInv
<1>4. Place(onto[t]) <= view[t] /\ Place(onto[t]) < Size
  BY <1>2, <1>3 DEF LoadedAt, Ahead, Taking
<1>5. CASE Help(t) \/ PopAdvance(t)
  <2>1. succ[t] \in Nodes /\ Linked[Place(onto[t]) + 1] = succ[t] /\ CasTail(t, onto[t], succ[t])
    BY <1>1, <1>3, <1>5 DEF Help, PopAdvance, LoadedAt, RegistersOK, TypeInv, Ahead, Taking
  <2> QED  BY <1>1, <1>3, <1>4, <2>1, CasTailLemma
<1>6. CASE Swing(t)
  <2>1. new[t] \in Nodes /\ Linked[Place(onto[t]) + 1] = new[t] /\ CasTail(t, onto[t], new[t])
    BY <1>1, <1>3, <1>6 DEF Swing, LoadedAt, RegistersOK, TypeInv
  <2> QED  BY <1>1, <1>3, <1>4, <2>1, CasTailLemma
<1> QED  BY <1>5, <1>6

\* What a thread knows of tail grows.
Grows(t) ==
  /\ tails' \in Seq(Nodes) /\ Len(tails') >= Len(tails) /\ Len(tails') \in Nat
  /\ \E w \in 1 .. Len(tails') : w >= view[t] /\ view' = [view EXCEPT ![t] = w]
LEMMA ViewStep ==
  ASSUME QInv, head # Null, NEW t \in Threads, Pin(t) \/ Call(t)
  PROVE  Grows(t)
<1>1. TypeInv /\ RegistersOK /\ LinkedFacts
  BY LinkedLemma DEF QInv, LocalOK
<1>2. view[t] \in 1 .. Len(tails) /\ view \in [Threads -> 1 .. Len(tails)] /\ tails \in Seq(Nodes) /\ Len(tails) \in Nat
  BY <1>1 DEF TypeInv, LinkedFacts
<1>3. ASSUME tails' = tails, NEW v \in 1 .. Len(tails), Learn(t, v)
      PROVE  Grows(t)
  <2>1. PICK w \in 1 .. Len(tails) : w >= v /\ w >= view[t] /\ view' = [view EXCEPT ![t] = w]
    BY <1>1, <1>3, Learned
  <2>2. tails' \in Seq(Nodes) /\ Len(tails') = Len(tails)
    BY <1>2, <1>3
  <2>3. w \in 1 .. Len(tails') /\ Len(tails') >= Len(tails) /\ Len(tails') \in Nat
    BY <1>2, <2>1, <2>2
  <2> QED  BY <2>1, <2>2, <2>3 DEF Grows
<1>4. ASSUME tails' = tails, view' = view
      PROVE  Grows(t)
  <2>1. view' = [view EXCEPT ![t] = view[t]]
    BY <1>2, <1>4
  <2> QED  BY <1>2, <1>4, <2>1 DEF Grows
<1>5. CASE Help(t) \/ Swing(t) \/ PopAdvance(t)
  <2>1. /\ tails' \in Seq(Nodes) /\ Len(tails') >= Len(tails)
        /\ \E v \in 1 .. Len(tails') :
             v >= view[t] /\ v > Place(onto[t]) /\ view' = [view EXCEPT ![t] = v]
    BY <1>5, TailMoves
  <2>2. Len(tails') \in Nat
    BY <2>1
  <2>3. PICK v \in 1 .. Len(tails') :
              v >= view[t] /\ v > Place(onto[t]) /\ view' = [view EXCEPT ![t] = v]
    BY <2>1
  <2> QED  BY <2>1, <2>2, <2>3 DEF Grows
<1>6. CASE Pin(t)
  <2>1. tails' = tails /\ Learn(t, rview) /\ rview \in 1 .. Len(tails)
    BY <1>1, <1>6 DEF Pin, queue, TypeInv
  <2> QED  BY <1>3, <2>1
<1>7. CASE PushTail(t) \/ PopTail(t)
  <2>1. tails' = tails /\ \E i \in Visible(t) : Learn(t, i)
    BY <1>7 DEF PushTail, PopTail, queue
  <2>2. \A i \in Visible(t) : i \in 1 .. Len(tails)
    BY <1>2 DEF Visible
  <2> QED  BY <1>3, <2>1, <2>2
<1>8. CASE PopHead(t)
  <2>1. tails' = tails /\ Learn(t, hview) /\ hview \in 1 .. Len(tails)
    BY <1>1, <1>8 DEF PopHead, queue, TypeInv
  <2> QED  BY <1>3, <2>1
<1>9. CASE PushNext(t) \/ PopNext(t) \/ PopNone(t)
  <2>1. onto[t] \in Nodes
    BY <1>1, <1>9 DEF PushNext, PopNext, PopNone, RegistersOK, TypeInv, Holding, Popping
  <2>2. next[onto[t]] # Null => lview[next[onto[t]]] \in 1 .. Len(tails)
    BY <1>1, <2>1 DEF TypeInv
  <2>3. tails' = tails /\ (view' = view \/ (next[onto[t]] # Null /\ Learn(t, lview[next[onto[t]]])))
    BY <1>9 DEF PushNext, PopNext, PopNone, queue
  <2> QED  BY <1>3, <1>4, <2>2, <2>3
<1>10. CASE Link(t) \/ Take(t) \/ Lose(t) \/ Retire(t)
  BY <1>4, <1>10 DEF Link, Take, Lose, Retire, queue, views
<1> QED  BY <1>5, <1>6, <1>7, <1>8, <1>9, <1>10 DEF Call

\* The node that tail points to was not retired.
LEMMA TailUsed ==
  ASSUME QInv, head # Null
  PROVE  /\ Last(tails) \in Nodes /\ mem[Last(tails)] \in {"used", "deferred"}
         /\ \A t \in Threads : Last(tails) \notin mine[t]
<1>1. TypeInv /\ ViewsOK /\ LinkedFacts
  BY LinkedLemma DEF QInv, LocalOK, ListOK
<1>2. rview \in 1 .. Len(tails) /\ Len(tails) \in Nat /\ Len(tails) \in 1 .. Len(tails)
      /\ \A t \in Threads : view[t] \in 1 .. Len(tails)
  BY <1>1 DEF TypeInv, LinkedFacts
<1>3. Size \in {Len(tails), Len(tails) + 1} /\ Last(tails) = tails[Len(tails)] /\ Last(tails) \in Nodes
  BY <1>1 DEF LinkedFacts
<1>4. Linked[Len(tails)] = tails[Len(tails)]
  BY <1>1, <1>2 DEF LinkedFacts
<1>5. Len(tails) \in rview .. Size /\ \A t \in Threads : Len(tails) \in view[t] .. Size
  BY <1>2, <1>3
<1> QED  BY <1>1, <1>3, <1>4, <1>5 DEF ViewsOK

\* So the memory that is freed is elsewhere.
LEMMA FreeLinked ==
  ASSUME QInv, head # Null, NEW m \in Nodes, Free(m)
  PROVE  Linked' = Linked
<1>1. Last(tails) \in Nodes /\ Last(tails) # m
  BY TailUsed DEF Free
<1>2. next'[Last(tails)] = next[Last(tails)] /\ tails' = tails
  BY <1>1 DEF Free, QInv, LocalOK, TypeInv
<1> QED  BY <1>2 DEF Linked

-------------------------------------------------------------------------------
(* LocalOK is kept. *)

LEMMA TypeStep ==
  ASSUME QInv, head # Null, Next
  PROVE  TypeInv'
<1>1. TypeInv /\ RegistersOK /\ LinkedFacts /\ Null \notin Nodes
  BY LinkedLemma, NullAssumption DEF QInv, LocalOK
<1>2. ASSUME NEW t \in Threads, Pin(t) \/ Call(t)
      PROVE  TypeInv'
  <2>1. /\ tails' \in Seq(Nodes) /\ Len(tails') > 0 /\ view' \in [Threads -> 1 .. Len(tails')]
        /\ \A v \in 1 .. Len(tails) : v \in 1 .. Len(tails')
    <3>1. Grows(t)
      BY <1>2, ViewStep
    <3>2. /\ tails' \in Seq(Nodes) /\ Len(tails') >= Len(tails) /\ Len(tails') \in Nat
      BY <3>1 DEF Grows
    <3>3. PICK v \in 1 .. Len(tails') : view' = [view EXCEPT ![t] = v]
      BY <3>1 DEF Grows
    <3>4. Len(tails) \in Nat /\ Len(tails) >= 1 /\ view \in [Threads -> 1 .. Len(tails)]
      BY <1>1 DEF LinkedFacts, TypeInv
    <3>5. \A k \in 1 .. Len(tails) : k \in 1 .. Len(tails')
      BY <3>2, <3>4
    <3> QED  BY <3>2, <3>3, <3>4, <3>5
  <2>2. CASE Pin(t)
    BY <1>1, <2>1, <2>2 DEF TypeInv, Points, Pushing, Popping, Taking, Goto, Pin, queue, memory, local, views
  <2>3. CASE PushTail(t)
    <3>1. \A i \in Visible(t) : tails[i] \in Nodes
      BY <1>1 DEF Visible, TypeInv
    <3>2. onto' \in [Threads -> Nodes \cup {Null}]
      BY <1>1, <2>3, <3>1 DEF PushTail, TypeInv
    <3> QED  BY <1>1, <2>1, <2>3, <3>2 DEF TypeInv, Points, Pushing, Popping, Taking, Goto, PushTail, queue, memory, local, views
  <2>4. CASE PushNext(t)
    <3>1. onto[t] \in Nodes
      BY <1>1, <2>4 DEF PushNext, TypeInv, RegistersOK, Holding
    <3>2. next[onto[t]] \in Nodes \cup {Null} /\ succ' = [succ EXCEPT ![t] = next[onto[t]]]
      BY <1>1, <2>4, <3>1 DEF TypeInv, PushNext
    <3> QED  BY <1>1, <2>1, <2>4, <3>2 DEF TypeInv, Points, Pushing, Popping, Taking, Goto, PushNext, queue, memory, local, views
  <2>5. CASE Help(t)
    BY <1>1, <2>1, <2>5 DEF TypeInv, Points, Pushing, Popping, Taking, Goto, Help, queue, memory, local, views
  <2>6. CASE Link(t)
    <3>1. onto[t] \in Nodes /\ new[t] \in Nodes /\ view[t] \in 1 .. Len(tails)
      BY <1>1, <2>6 DEF Link, TypeInv, RegistersOK, Holding, Pushing
    <3> QED  BY <1>1, <2>1, <2>6, <3>1 DEF TypeInv, Points, Pushing, Popping, Taking, Goto, Link, queue, memory, local, views
  <2>7. CASE Swing(t)
    BY <1>1, <2>1, <2>7 DEF TypeInv, Points, Pushing, Popping, Taking, Goto, Swing, queue, memory, local, views
  <2>8. CASE PopHead(t)
    BY <1>1, <2>1, <2>8 DEF TypeInv, Points, Pushing, Popping, Taking, Goto, PopHead, queue, memory, local, views
  <2>9. CASE PopNext(t)
    BY <1>1, <2>1, <2>9 DEF TypeInv, Points, Pushing, Popping, Taking, Goto, PopNext, RegistersOK, Holding, Plain, queue, memory, local, views
  <2>10. CASE PopNone(t)
    BY <1>1, <2>1, <2>10 DEF TypeInv, Points, Pushing, Popping, Taking, Goto, PopNone, queue, memory, local, views
  <2>11. CASE Take(t)
    BY <1>1, <2>1, <2>11 DEF TypeInv, Points, Pushing, Popping, Taking, Goto, Take, RegistersOK, Later, Ahead, queue, memory, local, views
  <2>12. CASE Lose(t)
    BY <1>1, <2>1, <2>12 DEF TypeInv, Points, Pushing, Popping, Taking, Goto, Lose, queue, memory, local, views
  <2>13. CASE PopTail(t)
    BY <1>1, <2>1, <2>13 DEF TypeInv, Points, Pushing, Popping, Taking, Goto, PopTail, queue, memory, local, views
  <2>14. CASE PopAdvance(t)
    BY <1>1, <2>1, <2>14 DEF TypeInv, Points, Pushing, Popping, Taking, Goto, PopAdvance, queue, memory, local, views
  <2>15. CASE Retire(t)
    <3>1. onto[t] \in Nodes /\ succ[t] \in Nodes
      BY <1>1, <2>15 DEF Retire, TypeInv, RegistersOK, Holding, Taking, Ahead
    <3> QED  BY <1>1, <2>1, <2>15, <3>1 DEF TypeInv, Points, Pushing, Popping, Taking, Goto, Retire, queue, memory, local, views
  <2> QED  BY <1>2, <2>2, <2>3, <2>4, <2>5, <2>6, <2>7, <2>8, <2>9, <2>10, <2>11, <2>12, <2>13, <2>14, <2>15 DEF Call
<1>3. ASSUME NEW t \in Threads, Unpin(t) \/ Seal(t) \/ PushStart(t)
      PROVE  TypeInv'
  <2>1. tails' = tails /\ view' = view /\ hview' = hview /\ lview' = lview
    BY <1>3 DEF Unpin, Seal, PushStart, queue, views
  <2>2. CASE Unpin(t)
    BY <1>1, <2>1, <2>2 DEF TypeInv, Points, Goto, Unpin, queue, memory, local, views
  <2>3. CASE Seal(t)
    <3>1. Later(rview, view[t]) \in 1 .. Len(tails) /\ Active \subseteq Threads
      BY <1>1 DEF TypeInv, Later, Active
    <3> QED  BY <1>1, <2>1, <2>3, <3>1 DEF TypeInv, Seal, queue, local
  <2>4. CASE PushStart(t)
    BY <1>1, <2>1, <2>4 DEF TypeInv, Points, Pushing, Goto, PushStart, views
  <2> QED  BY <1>3, <2>2, <2>3, <2>4
<1>4. ASSUME NEW n \in Nodes, Free(n)
      PROVE  TypeInv'
  <2>1. 1 \in 1 .. Len(tails)
    BY <1>1 DEF LinkedFacts
  <2>2. /\ head' = head /\ tails' = tails /\ wait' = wait /\ mine' = mine /\ pc' = pc /\ onto' = onto
        /\ succ' = succ /\ new' = new /\ pushed' = pushed /\ view' = view /\ hview' = hview /\ rview' = rview
        /\ mem' = [mem EXCEPT ![n] = "free"] /\ next' = [next EXCEPT ![n] = Null]
        /\ data' = [data EXCEPT ![n] = NoBag] /\ lview' = [lview EXCEPT ![n] = 1]
    BY <1>4 DEF Free, local
  <2> QED  BY <1>1, <2>1, <2>2 DEF TypeInv
<1>5. CASE DropQueue
  BY <1>1, <1>5 DEF TypeInv, DropQueue, local, views
<1> QED  BY <1>2, <1>3, <1>4, <1>5 DEF Next

\* One thread takes a step.
Alone(t) == \A u \in Threads \ {t} :
  pc'[u] = pc[u] /\ onto'[u] = onto[u] /\ succ'[u] = succ[u] /\ new'[u] = new[u]
RegistersAt(t) ==
  /\ onto[t] # Null <=> pc[t] \in Holding
  /\ succ[t] # Null <=> pc[t] \in Ahead
  /\ new[t] # Null <=> pc[t] \in Pushing \cup {"swing"}
LEMMA RegistersAlone ==
  ASSUME RegistersOK, NEW t \in Threads, Alone(t), RegistersAt(t)'
  PROVE  RegistersOK'
BY DEF RegistersOK, RegistersAt, Alone

LEMMA RegistersStep ==
  ASSUME QInv, head # Null, Next
  PROVE  RegistersOK'
<1>1. TypeInv /\ RegistersOK /\ LinkedFacts /\ Null \notin Nodes
  BY LinkedLemma, NullAssumption DEF QInv, LocalOK
<1>2. \A t \in Threads : RegistersAt(t)
  BY <1>1 DEF RegistersOK, RegistersAt
<1>3. ASSUME NEW t \in Threads, Pin(t) \/ Unpin(t) \/ Seal(t)
      PROVE  RegistersOK'
  <2>1. Alone(t) /\ onto' = onto /\ succ' = succ /\ new' = new /\ pc[t] \in {"in", "out"} /\ pc'[t] \in {"in", "out"}
    BY <1>1, <1>3 DEF Alone, Pin, Unpin, Seal, Goto, local, TypeInv
  <2>2. RegistersAt(t)'
    BY <1>2, <2>1 DEF RegistersAt, Holding, Ahead, Pushing, Popping, Taking
  <2> QED  BY <1>1, <2>1, <2>2, RegistersAlone
<1>4. ASSUME NEW t \in Threads, PushStart(t)
      PROVE  RegistersOK'
  <2>1. /\ pc[t] = "in" /\ pc'[t] = "push" /\ onto'[t] = onto[t] /\ succ'[t] = succ[t] /\ new'[t] # Null
    BY <1>1, <1>4 DEF PushStart, Goto, TypeInv
  <2>2. Alone(t)
    BY <1>1, <1>4 DEF Alone, PushStart, Goto, TypeInv
  <2>3. RegistersAt(t)'
    BY <1>2, <2>1 DEF RegistersAt, Holding, Ahead, Pushing, Popping, Taking
  <2> QED  BY <1>1, <2>2, <2>3, RegistersAlone
<1>5. ASSUME NEW t \in Threads, PushTail(t)
      PROVE  RegistersOK'
  <2>1. PICK i \in Visible(t) : onto' = [onto EXCEPT ![t] = tails[i]]
    BY <1>5 DEF PushTail
  <2>2. i \in 1 .. Len(tails)
    BY <1>1, <2>1 DEF Visible, TypeInv, LinkedFacts
  <2>3. tails[i] # Null
    <3>1. tails \in Seq(Nodes)
      BY <1>1 DEF TypeInv
    <3>2. tails[i] \in Nodes
      BY <2>2, <3>1
    <3> QED  BY <1>1, <3>2
  <2>4. Alone(t) /\ pc[t] = "push" /\ pc'[t] = "push_next" /\ onto'[t] # Null /\ succ'[t] = succ[t] /\ new'[t] = new[t]
    BY <1>1, <1>5, <2>1, <2>3 DEF Alone, PushTail, Goto, TypeInv
  <2>5. RegistersAt(t)'
    BY <1>2, <2>4 DEF RegistersAt, Holding, Ahead, Pushing, Popping, Taking
  <2> QED  BY <1>1, <2>4, <2>5, RegistersAlone
<1>6. ASSUME NEW t \in Threads, PushNext(t)
      PROVE  RegistersOK'
  <2>1. /\ pc[t] = "push_next" /\ onto'[t] = onto[t] /\ new'[t] = new[t]
        /\ \/ succ'[t] = Null /\ pc'[t] = "link"
           \/ succ'[t] # Null /\ pc'[t] = "help"
    BY <1>1, <1>6 DEF PushNext, Goto, TypeInv
  <2>2. Alone(t)
    BY <1>1, <1>6 DEF Alone, PushNext, Goto, TypeInv
  <2>3. RegistersAt(t)'
    BY <1>2, <2>1 DEF RegistersAt, Holding, Ahead, Pushing, Popping, Taking
  <2> QED  BY <1>1, <2>2, <2>3, RegistersAlone
<1>7. ASSUME NEW t \in Threads, Help(t)
      PROVE  RegistersOK'
  <2>1. /\ pc[t] = "help" /\ pc'[t] = "push" /\ onto'[t] = Null /\ succ'[t] = Null /\ new'[t] = new[t]
    BY <1>1, <1>7 DEF Help, Goto, TypeInv
  <2>2. Alone(t)
    BY <1>1, <1>7 DEF Alone, Help, Goto, TypeInv
  <2>3. RegistersAt(t)'
    BY <1>2, <2>1 DEF RegistersAt, Holding, Ahead, Pushing, Popping, Taking
  <2> QED  BY <1>1, <2>2, <2>3, RegistersAlone
<1>8. ASSUME NEW t \in Threads, Link(t)
      PROVE  RegistersOK'
  <2>1. /\ pc[t] = "link" /\ succ'[t] = succ[t] /\ new'[t] = new[t]
        /\ \/ onto'[t] = onto[t] /\ pc'[t] = "swing"
           \/ onto'[t] = Null /\ pc'[t] = "push"
    BY <1>1, <1>8 DEF Link, Goto, TypeInv
  <2>2. Alone(t)
    BY <1>1, <1>8 DEF Alone, Link, Goto, TypeInv
  <2>3. RegistersAt(t)'
    BY <1>2, <2>1 DEF RegistersAt, Holding, Ahead, Pushing, Popping, Taking
  <2> QED  BY <1>1, <2>2, <2>3, RegistersAlone
<1>9. ASSUME NEW t \in Threads, Swing(t)
      PROVE  RegistersOK'
  <2>1. /\ pc[t] = "swing" /\ pc'[t] = "in" /\ onto'[t] = Null /\ succ'[t] = succ[t] /\ new'[t] = Null
    BY <1>1, <1>9 DEF Swing, Goto, TypeInv
  <2>2. Alone(t)
    BY <1>1, <1>9 DEF Alone, Swing, Goto, TypeInv
  <2>3. RegistersAt(t)'
    BY <1>2, <2>1 DEF RegistersAt, Holding, Ahead, Pushing, Popping, Taking
  <2> QED  BY <1>1, <2>2, <2>3, RegistersAlone
<1>10. ASSUME NEW t \in Threads, PopHead(t)
      PROVE  RegistersOK'
  <2>1. /\ pc[t] \in {"in", "pop", "pop_if"} /\ pc'[t] \in {"pop_next", "pop_if_next"}
        /\ onto'[t] # Null /\ succ'[t] = succ[t] /\ new'[t] = new[t]
    BY <1>1, <1>10 DEF PopHead, Goto, TypeInv
  <2>2. Alone(t)
    BY <1>1, <1>10 DEF Alone, PopHead, Goto, TypeInv
  <2>3. RegistersAt(t)'
    BY <1>2, <2>1 DEF RegistersAt, Holding, Ahead, Pushing, Popping, Taking
  <2> QED  BY <1>1, <2>2, <2>3, RegistersAlone
<1>11. ASSUME NEW t \in Threads, PopNext(t)
      PROVE  RegistersOK'
  <2>1. /\ pc[t] \in {"pop_next", "pop_if_next"} /\ pc'[t] \in {"take", "take_if"}
        /\ onto'[t] = onto[t] /\ succ'[t] # Null /\ new'[t] = new[t]
    BY <1>1, <1>11 DEF PopNext, Goto, TypeInv
  <2>2. Alone(t)
    BY <1>1, <1>11 DEF Alone, PopNext, Goto, TypeInv
  <2>3. RegistersAt(t)'
    BY <1>2, <2>1 DEF RegistersAt, Holding, Ahead, Pushing, Popping, Taking
  <2> QED  BY <1>1, <2>2, <2>3, RegistersAlone
<1>12. ASSUME NEW t \in Threads, PopNone(t)
      PROVE  RegistersOK'
  <2>1. /\ pc[t] \in {"pop_next", "pop_if_next"} /\ pc'[t] = "in"
        /\ onto'[t] = Null /\ succ'[t] = succ[t] /\ new'[t] = new[t]
    BY <1>1, <1>12 DEF PopNone, Goto, TypeInv
  <2>2. Alone(t)
    BY <1>1, <1>12 DEF Alone, PopNone, Goto, TypeInv
  <2>3. RegistersAt(t)'
    BY <1>2, <2>1 DEF RegistersAt, Holding, Ahead, Pushing, Popping, Taking
  <2> QED  BY <1>1, <2>2, <2>3, RegistersAlone
<1>13. ASSUME NEW t \in Threads, Take(t)
      PROVE  RegistersOK'
  <2>1. /\ pc[t] \in {"take", "take_if"} /\ pc'[t] = "pop_tail"
        /\ onto'[t] = onto[t] /\ succ'[t] = succ[t] /\ new'[t] = new[t]
    BY <1>1, <1>13 DEF Take, Goto, local, TypeInv
  <2>2. Alone(t)
    BY <1>1, <1>13 DEF Alone, Take, Goto, local, TypeInv
  <2>3. RegistersAt(t)'
    BY <1>2, <2>1 DEF RegistersAt, Holding, Ahead, Pushing, Popping, Taking
  <2> QED  BY <1>1, <2>2, <2>3, RegistersAlone
<1>14. ASSUME NEW t \in Threads, Lose(t)
      PROVE  RegistersOK'
  <2>1. /\ pc[t] \in {"take", "take_if"} /\ pc'[t] \in {"pop", "pop_if"}
        /\ onto'[t] = Null /\ succ'[t] = Null /\ new'[t] = new[t]
    BY <1>1, <1>14 DEF Lose, Goto, TypeInv
  <2>2. Alone(t)
    BY <1>1, <1>14 DEF Alone, Lose, Goto, TypeInv
  <2>3. RegistersAt(t)'
    BY <1>2, <2>1 DEF RegistersAt, Holding, Ahead, Pushing, Popping, Taking
  <2> QED  BY <1>1, <2>2, <2>3, RegistersAlone
<1>15. ASSUME NEW t \in Threads, PopTail(t)
      PROVE  RegistersOK'
  <2>1. /\ pc[t] = "pop_tail" /\ pc'[t] \in {"advance", "retire"}
        /\ onto'[t] = onto[t] /\ succ'[t] = succ[t] /\ new'[t] = new[t]
    BY <1>1, <1>15 DEF PopTail, Goto, local, TypeInv
  <2>2. Alone(t)
    BY <1>1, <1>15 DEF Alone, PopTail, Goto, local, TypeInv
  <2>3. RegistersAt(t)'
    BY <1>2, <2>1 DEF RegistersAt, Holding, Ahead, Pushing, Popping, Taking
  <2> QED  BY <1>1, <2>2, <2>3, RegistersAlone
<1>16. ASSUME NEW t \in Threads, PopAdvance(t)
      PROVE  RegistersOK'
  <2>1. /\ pc[t] = "advance" /\ pc'[t] = "retire"
        /\ onto'[t] = onto[t] /\ succ'[t] = succ[t] /\ new'[t] = new[t]
    BY <1>1, <1>16 DEF PopAdvance, Goto, local, TypeInv
  <2>2. Alone(t)
    BY <1>1, <1>16 DEF Alone, PopAdvance, Goto, local, TypeInv
  <2>3. RegistersAt(t)'
    BY <1>2, <2>1 DEF RegistersAt, Holding, Ahead, Pushing, Popping, Taking
  <2> QED  BY <1>1, <2>2, <2>3, RegistersAlone
<1>17. ASSUME NEW t \in Threads, Retire(t)
      PROVE  RegistersOK'
  <2>1. /\ pc[t] = "retire" /\ pc'[t] = "in"
        /\ onto'[t] = Null /\ succ'[t] = Null /\ new'[t] = new[t]
    BY <1>1, <1>17 DEF Retire, Goto, TypeInv
  <2>2. Alone(t)
    BY <1>1, <1>17 DEF Alone, Retire, Goto, TypeInv
  <2>3. RegistersAt(t)'
    BY <1>2, <2>1 DEF RegistersAt, Holding, Ahead, Pushing, Popping, Taking
  <2> QED  BY <1>1, <2>2, <2>3, RegistersAlone
<1>18. ASSUME NEW n \in Nodes, Free(n)
      PROVE  RegistersOK'
  BY <1>1, <1>18 DEF RegistersOK, Free, local
<1>19. CASE DropQueue
  BY <1>1, <1>19 DEF RegistersOK, DropQueue, local
<1> QED  BY <1>3, <1>4, <1>5, <1>6, <1>7, <1>8, <1>9, <1>10, <1>11, <1>12, <1>13, <1>14, <1>15, <1>16, <1>17, <1>18, <1>19 DEF Next, Call

\* The queue is dropped when nobody is left.
LEMMA DroppedStep ==
  ASSUME QInv, head # Null, Next
  PROVE  DroppedOK'
<1>1. TypeInv /\ RegistersOK
  BY DEF QInv, LocalOK
<1>2. head' # Null \/ DropQueue
  BY <1>1 DEF Next, Call, Pin, Unpin, Seal, Free, PushStart, PushTail, PushNext, Help, Link,
     Swing, PopHead, PopNext, PopNone, Take, Lose, PopTail, PopAdvance, Retire, queue,
     RegistersOK, Ahead
<1>3. CASE DropQueue
  <2>1. Last(tails) \in Nodes /\ mem[Last(tails)] \in {"used", "deferred"} /\ MineOK
    BY TailUsed DEF QInv, LocalOK
  <2>2. mem[Last(tails)] # "deferred"
    BY <1>3, <2>1 DEF MineOK, DropQueue
  <2>3. mem'[Last(tails)] \in {"free", mem[Last(tails)]} /\ tails' = tails /\ pc' = pc
    BY <1>3, <2>1 DEF DropQueue
  <2> QED  BY <1>3, <2>1, <2>2, <2>3 DEF DropQueue, DroppedOK
<1> QED  BY <1>2, <1>3 DEF DroppedOK

\* Who is pushing, and what.
LEMMA NewStep ==
  ASSUME QInv, head # Null, Next
  PROVE  NewOK'
<1>1. TypeInv /\ RegistersOK /\ NewOK /\ MineOK /\ ListOK
  BY DEF QInv, LocalOK
<1>2. ASSUME NEW t \in Threads, mem' = mem, new'[t] = new[t] \/ pc'[t] \notin Pushing,
             \A u \in Threads \ {t} : pc'[u] = pc[u] /\ new'[u] = new[u],
             pc'[t] \in Pushing => pc[t] \in Pushing
      PROVE  NewOK'
  BY <1>1, <1>2 DEF NewOK
<1>3. ASSUME NEW t \in Threads, Pin(t) \/ Unpin(t) \/ PushTail(t) \/ PushNext(t) \/ Help(t) \/ Swing(t)
      PROVE  NewOK'
  <2>1. mem' = mem /\ pc' = [pc EXCEPT ![t] = pc'[t]] /\ \A u \in Threads \ {t} : new'[u] = new[u]
    BY <1>1, <1>3 DEF Pin, Unpin, PushTail, PushNext, Help, Swing, memory, local, Goto, TypeInv
  <2>2. new'[t] = new[t] \/ pc'[t] \notin Pushing
    BY <1>1, <1>3 DEF Pin, Unpin, PushTail, PushNext, Help, Swing, memory, local, Goto, TypeInv, Pushing
  <2>3. pc'[t] \in Pushing => pc[t] \in Pushing
    BY <1>1, <1>3 DEF Pin, Unpin, PushTail, PushNext, Help, Swing, Goto, TypeInv, Pushing
  <2> QED  BY <1>1, <1>2, <2>1, <2>2, <2>3 DEF TypeInv
<1>4. ASSUME NEW t \in Threads, PopHead(t) \/ PopNext(t) \/ PopNone(t) \/ Take(t) \/ Lose(t) \/ PopTail(t) \/ PopAdvance(t)
      PROVE  NewOK'
  <2>1. mem' = mem /\ pc' = [pc EXCEPT ![t] = pc'[t]] /\ new' = new
    BY <1>1, <1>4 DEF PopHead, PopNext, PopNone, Take, Lose, PopTail, PopAdvance, memory, local, Goto, TypeInv
  <2>2. pc'[t] \notin Pushing
    BY <1>1, <1>4 DEF PopHead, PopNext, PopNone, Take, Lose, PopTail, PopAdvance, Goto, TypeInv, Pushing
  <2> QED  BY <1>1, <1>2, <2>1, <2>2 DEF TypeInv
<1>5. ASSUME NEW t \in Threads, Seal(t)
      PROVE  NewOK'
  <2>1. new' = new /\ pc' = pc /\ mem' = [n \in Nodes |-> IF n \in mine[t] THEN "retired" ELSE mem[n]]
    BY <1>5 DEF Seal, local
  <2>2. \A n \in mine[t] : mem[n] # "held"
    BY <1>1 DEF MineOK
  <2>3. \A u \in Threads : pc[u] \in Pushing => new[u] \in Nodes
    BY <1>1 DEF RegistersOK, TypeInv
  <2> QED  BY <1>1, <2>1, <2>2, <2>3 DEF NewOK
<1>6. ASSUME NEW t \in Threads, PushStart(t)
      PROVE  NewOK'
  BY <1>1, <1>6 DEF PushStart, Goto, NewOK, TypeInv, Pushing
<1>7. ASSUME NEW t \in Threads, Link(t)
      PROVE  NewOK'
  <2>1. new' = new /\ pc[t] = "link" /\ (mem' = mem \/ mem' = [mem EXCEPT ![new[t]] = "used"])
    BY <1>7 DEF Link
  <2>2. \/ mem' = mem /\ pc' = [pc EXCEPT ![t] = "push"]
        \/ mem' = [mem EXCEPT ![new[t]] = "used"] /\ pc' = [pc EXCEPT ![t] = "swing"]
    BY <1>7 DEF Link, Goto
  <2>3. \A u \in Threads \ {t} : pc[u] \in Pushing => new[u] # new[t]
    BY <1>1, <2>1 DEF NewOK, Pushing
  <2>4. \A u \in Threads : pc[u] \in Pushing => new[u] \in Nodes
    BY <1>1 DEF RegistersOK, TypeInv
  <2>5. CASE mem' = mem /\ pc' = [pc EXCEPT ![t] = "push"]
    <3>1. \A u \in Threads : pc'[u] \in Pushing => pc[u] \in Pushing
      BY <1>1, <2>1, <2>5 DEF TypeInv, Pushing
    <3> QED  BY <1>1, <2>1, <2>5, <3>1 DEF NewOK
  <2>6. CASE mem' = [mem EXCEPT ![new[t]] = "used"] /\ pc' = [pc EXCEPT ![t] = "swing"]
    <3>1. \A u \in Threads : pc'[u] \in Pushing => u # t /\ pc[u] \in Pushing
      BY <1>1, <2>6 DEF TypeInv, Pushing
    <3>2. \A u \in Threads \ {t} : pc[u] \in Pushing => mem'[new[u]] = mem[new[u]]
      BY <1>1, <2>3, <2>4, <2>6 DEF TypeInv
    <3> QED  BY <1>1, <2>1, <3>1, <3>2 DEF NewOK
  <2> QED  BY <2>2, <2>5, <2>6
<1>8. ASSUME NEW t \in Threads, Retire(t)
      PROVE  NewOK'
  <2>1. mem[onto[t]] = "used" /\ pc[t] = "retire"
    BY <1>1, <1>8 DEF Retire, ListOK, TakenOK, Taken
  <2>2. mem' = [mem EXCEPT ![onto[t]] = "deferred"] /\ new' = new /\ pc' = [pc EXCEPT ![t] = "in"]
    BY <1>8 DEF Retire, Goto
  <2>3. \A u \in Threads : pc[u] \in Pushing => new[u] \in Nodes /\ mem'[new[u]] = mem[new[u]]
    BY <1>1, <2>1, <2>2 DEF RegistersOK, NewOK, TypeInv
  <2>4. \A u \in Threads : pc'[u] \in Pushing => pc[u] \in Pushing
    BY <1>1, <2>2 DEF TypeInv, Pushing
  <2> QED  BY <1>1, <2>2, <2>3, <2>4 DEF NewOK
<1>9. ASSUME NEW n \in Nodes, Free(n)
      PROVE  NewOK'
  BY <1>1, <1>9 DEF Free, local, NewOK, TypeInv, Pushing
<1>10. CASE DropQueue
  BY <1>1, <1>10 DEF DropQueue, local, NewOK, Pushing
<1> QED  BY <1>3, <1>4, <1>5, <1>6, <1>7, <1>8, <1>9, <1>10 DEF Next, Call

\* Whose bag a deferred node is in.
LEMMA MineStep ==
  ASSUME QInv, head # Null, Next
  PROVE  MineOK'
<1>1. TypeInv /\ RegistersOK /\ NewOK /\ MineOK /\ ListOK
  BY DEF QInv, LocalOK
<1>2. CASE mem' = mem /\ mine' = mine
  BY <1>1, <1>2 DEF MineOK
<1>3. ASSUME NEW t \in Threads, Seal(t)
      PROVE  MineOK'
  <2>1. mine' = [mine EXCEPT ![t] = {}] /\ mem' = [n \in Nodes |-> IF n \in mine[t] THEN "retired" ELSE mem[n]]
    BY <1>3 DEF Seal
  <2> QED  BY <1>1, <2>1 DEF MineOK, TypeInv
<1>4. ASSUME NEW t \in Threads, PushStart(t)
      PROVE  MineOK'
  BY <1>1, <1>4 DEF PushStart, MineOK, TypeInv
<1>5. ASSUME NEW t \in Threads, Link(t)
      PROVE  MineOK'
  <2>1. mem' = mem \/ mem' = [mem EXCEPT ![new[t]] = "used"]
    BY <1>5 DEF Link
  <2>2. mem[new[t]] = "held" /\ mine' = mine
    BY <1>1, <1>5 DEF Link, NewOK, Pushing
  <2>3. new[t] \in Nodes
    BY <1>1, <1>5 DEF Link, RegistersOK, Pushing, TypeInv
  <2>4. \A n \in Nodes : mem'[n] = mem[n] \/ (n = new[t] /\ mem'[n] = "used")
    BY <1>1, <2>1, <2>3 DEF TypeInv
  <2>5. \A u \in Threads : new[t] \notin mine[u]
    BY <1>1, <2>2 DEF MineOK
  <2>6. \A u \in Threads : mine[u] \subseteq Nodes
    BY <1>1 DEF TypeInv
  <2> QED  BY <1>1, <2>2, <2>4, <2>5, <2>6 DEF MineOK
<1>6. ASSUME NEW t \in Threads, Retire(t)
      PROVE  MineOK'
  <2>1. mem[onto[t]] = "used" /\ onto[t] \in Nodes
    BY <1>1, <1>6 DEF Retire, ListOK, TakenOK, Taken, RegistersOK, TypeInv, Holding, Taking
  <2>2. mem' = [mem EXCEPT ![onto[t]] = "deferred"] /\ mine' = [mine EXCEPT ![t] = mine[t] \cup {onto[t]}]
    BY <1>6 DEF Retire
  <2>3. \A n \in Nodes : IF n = onto[t] THEN mem'[n] = "deferred" ELSE mem'[n] = mem[n]
    BY <1>1, <2>1, <2>2 DEF TypeInv
  <2>4. \A u \in Threads : onto[t] \notin mine[u] /\ mine[u] \subseteq Nodes
    BY <1>1, <2>1 DEF MineOK, TypeInv
  <2>5. \A u \in Threads : mine'[u] = IF u = t THEN mine[t] \cup {onto[t]} ELSE mine[u]
    BY <1>1, <2>2 DEF TypeInv
  <2>6. \A u \in Threads : \A n \in mine'[u] : mem'[n] = "deferred"
    BY <1>1, <2>1, <2>3, <2>4, <2>5 DEF MineOK
  <2>7. \A n \in Nodes : mem'[n] = "deferred" => \E u \in Threads : n \in mine'[u]
    BY <1>1, <2>3, <2>5 DEF MineOK
  <2>8. \A u, v \in Threads : \A n \in mine'[u] : n \in mine'[v] => u = v
    BY <1>1, <2>4, <2>5 DEF MineOK
  <2> QED  BY <2>6, <2>7, <2>8 DEF MineOK
<1>7. ASSUME NEW n \in Nodes, Free(n)
      PROVE  MineOK'
  BY <1>1, <1>7 DEF Free, MineOK, TypeInv
<1>8. CASE DropQueue
  BY <1>1, <1>8 DEF DropQueue, MineOK, TypeInv
<1>9. (mem' = mem /\ mine' = mine) \/ DropQueue \/ (\E n \in Nodes : Free(n))
      \/ (\E t \in Threads : Seal(t) \/ PushStart(t) \/ Link(t) \/ Retire(t))
  BY DEF Next, Call, Pin, Unpin, PushTail, PushNext, Help, Swing, PopHead, PopNext, PopNone,
     Take, Lose, PopTail, PopAdvance, memory
<1> QED  BY <1>2, <1>3, <1>4, <1>5, <1>6, <1>7, <1>8, <1>9

-------------------------------------------------------------------------------
(* ListOK is kept by what a thread does on its own. *)

\* t may move on in its code, learn of tail, and load nodes.
Moves(t) ==
  /\ Linked' = Linked /\ head' = head
  /\ UNCHANGED <<next, mem, wait, mine, lview, rview>>
  /\ \E v \in Nat : v >= view[t] /\ view' = [view EXCEPT ![t] = v]
  /\ pc' = [pc EXCEPT ![t] = pc'[t]]
  /\ pc'[t] # "out" /\ (pc[t] = "out" => rview <= view'[t])
  /\ \A u \in Threads \ {t} : onto'[u] = onto[u] /\ succ'[u] = succ[u] /\ new'[u] = new[u]
  /\ pc[t] \in Taking <=> pc'[t] \in Taking
  /\ pc[t] \in Taking => onto'[t] = onto[t]
  /\ pc'[t] = "retire" => \A i \in view'[t] .. Size : Linked[i] # onto[t]

\* A window that begins later is part of the one that began earlier.
LEMMA Shorter ==
  ASSUME TypeInv, NEW i \in Nat, NEW j \in Nat, i <= j, i >= 1
  PROVE  /\ Distinct(Linked, i) => Distinct(Linked, j)
         /\ \A k \in j .. Size : k \in i .. Size /\ k \in 1 .. Size /\ Linked[k] \in Nodes
<1>1. LinkedFacts
  BY LinkedLemma
<1>2. Linked \in Seq(Nodes) /\ i \in Int /\ j \in Int /\ Size \in Nat
  BY <1>1 DEF LinkedFacts
<1>3. Distinct(Linked, i) => Distinct(Linked, j)
  BY <1>2, DistinctTail
<1> QED  BY <1>1, <1>2, <1>3 DEF LinkedFacts

\* The place of a node is one at which it is.
LEMMA PlaceOf ==
  ASSUME TypeInv, NEW n, Occurs(Linked, n)
  PROVE  /\ Place(n) \in 1 .. Size /\ Linked[Place(n)] = n /\ n \in Nodes
         /\ \A j \in Place(n) + 1 .. Size : Linked[j] # n
<1>1. LinkedFacts
  BY LinkedLemma
<1>2. At(Linked, n, Place(n)) /\ Place(n) \in 1 .. Size /\ Linked[Place(n)] = n
  BY <1>1, PosOf DEF LinkedFacts, Place, Size
<1> QED  BY <1>1, <1>2 DEF LinkedFacts, At, Size

LEMMA PlaceIs ==
  ASSUME TypeInv, NEW i \in 1 .. Size, Distinct(Linked, i), NEW j \in i .. Size
  PROVE  Place(Linked[j]) = j /\ Occurs(Linked, Linked[j]) /\ Linked[j] \in Nodes
<1>1. Linked \in Seq(Nodes)
  BY LinkedLemma DEF LinkedFacts
<1> QED  BY <1>1, PosDistinct DEF Place, Size

LEMMA MovesLemma ==
  ASSUME QInv, head # Null, NEW t \in Threads, Moves(t), pc'[t] \in Holding => LoadedAt(t)'
  PROVE  ListOK'
<1>1. TypeInv /\ LinkedFacts /\ NodesOK /\ FrontOK /\ ViewsOK /\ LoadedOK /\ TakenOK
  BY LinkedLemma DEF QInv, LocalOK, ListOK
<1>2. /\ Linked' = Linked /\ head' = head /\ next' = next /\ mem' = mem /\ wait' = wait
      /\ mine' = mine /\ lview' = lview /\ rview' = rview
      /\ Size' = Size /\ \A n : Place(n)' = Place(n)
  BY DEF Moves, Size, Place
<1>3. PICK v \in Nat : v >= view[t] /\ view' = [view EXCEPT ![t] = v]
  BY DEF Moves
<1>4. /\ view[t] \in Nat /\ view[t] >= 1 /\ view'[t] = v /\ rview \in Nat /\ rview >= 1
      /\ \A u \in Threads \ {t} : view'[u] = view[u]
  BY <1>1, <1>3 DEF TypeInv
<1>5. /\ \A u \in Threads \ {t} : pc'[u] = pc[u]
      /\ \A u \in Threads \ {t} : onto'[u] = onto[u] /\ succ'[u] = succ[u] /\ new'[u] = new[u]
  BY <1>1 DEF Moves, TypeInv
<1>6. \A u \in Threads : Taken(u)' = Taken(u) /\ (Taken(u) => onto'[u] = onto[u])
  BY <1>5 DEF Moves, Taken, Taking
<1>7. NodesOK'
  BY <1>1, <1>2 DEF NodesOK, Kept
<1>8. FrontOK'
  BY <1>1, <1>2, <1>6 DEF FrontOK, Start
<1>9. ViewsOK'
  <2>1. Distinct(Linked, v) /\ \A i \in v .. Size : Safe(t, Linked[i])
    <3>1. CASE pc[t] # "out"
      <4>1. Distinct(Linked, view[t]) /\ \A i \in view[t] .. Size : Safe(t, Linked[i])
        BY <1>1, <3>1 DEF ViewsOK, Active
      <4> QED  BY <1>1, <1>3, <1>4, <4>1, Shorter
    <3>2. CASE pc[t] = "out"
      <4>1. Distinct(Linked, rview) /\ \A i \in rview .. Size : Safe(t, Linked[i])
        BY <1>1 DEF ViewsOK, Safe
      <4>2. rview <= v
        BY <1>4, <3>2 DEF Moves
      <4> QED  BY <1>1, <1>4, <4>1, <4>2, Shorter
    <3> QED  BY <3>1, <3>2
  <2>2. \A u \in Active' : Distinct(Linked, view'[u]) /\ \A i \in view'[u] .. Size : Safe(u, Linked[i])
    <3>1. \A u \in Active' \ {t} : u \in Active
      BY <1>5 DEF Active
    <3> QED  BY <1>1, <1>4, <2>1, <3>1 DEF ViewsOK, Active
  <2>3. \A u \in Threads : \A i \in view'[u] .. Size : Linked[i] \notin mine[u]
    <3>1. \A i \in v .. Size : Linked[i] \notin mine[t]
      BY <1>1, <1>3, <1>4, Shorter DEF ViewsOK
    <3> QED  BY <1>1, <1>4, <3>1 DEF ViewsOK
  <2> QED  BY <1>1, <1>2, <2>2, <2>3 DEF ViewsOK, Safe
<1>10. LoadedOK'
  <2>1. ASSUME NEW u \in Threads \ {t}, pc'[u] \in Holding
        PROVE  LoadedAt(u)'
    <3>1. LoadedAt(u) /\ pc'[u] = pc[u] /\ onto'[u] = onto[u] /\ succ'[u] = succ[u]
          /\ new'[u] = new[u] /\ view'[u] = view[u]
      BY <1>1, <1>4, <1>5, <2>1 DEF LoadedOK
    <3> QED  BY <1>2, <3>1 DEF LoadedAt, Safe, Place, Start, Size
  <2> QED  BY <2>1 DEF LoadedOK
<1>11. TakenOK'
  <2>1. \A u \in Threads : pc'[u] = "retire" => \A i \in view'[u] .. Size : Linked[i] # onto'[u]
    <3>1. pc'[t] = "retire" => onto'[t] = onto[t]
      BY DEF Moves, Taking
    <3>2. pc'[t] = "retire" => \A i \in view'[t] .. Size : Linked[i] # onto'[t]
      BY <3>1 DEF Moves
    <3> QED  BY <1>1, <1>4, <1>5, <3>2 DEF TakenOK
  <2>2. \A u \in Threads : Taken(u)' => Place(onto'[u]) < Start /\ mem[onto'[u]] = "used"
    BY <1>1, <1>6 DEF TakenOK
  <2>3. \A u, w \in Threads : Taken(u)' /\ Taken(w)' /\ onto'[u] = onto'[w] => u = w
    BY <1>1, <1>6 DEF TakenOK
  <2> QED  BY <1>2, <2>1, <2>2, <2>3 DEF TakenOK, Place, Start
<1> QED  BY <1>7, <1>8, <1>9, <1>10, <1>11 DEF ListOK

LEMMA Growth ==
  ASSUME TypeInv, NEW t \in Threads, Grows(t)
  PROVE  /\ view'[t] \in Nat /\ view'[t] >= view[t]
         /\ \E v \in Nat : v >= view[t] /\ view' = [view EXCEPT ![t] = v]
<1>1. PICK w \in 1 .. Len(tails') : w >= view[t] /\ view' = [view EXCEPT ![t] = w]
  BY DEF Grows
<1>2. w \in Nat /\ view'[t] = w
  BY <1>1 DEF Grows, TypeInv
<1> QED  BY <1>1, <1>2

LEMMA LearnedValue ==
  ASSUME TypeInv, NEW t \in Threads, NEW v \in 1 .. Len(tails), Learn(t, v)
  PROVE  view'[t] >= v
<1>1. PICK w \in 1 .. Len(tails) : w >= v /\ w >= view[t] /\ view' = [view EXCEPT ![t] = w]
  BY Learned
<1>2. view'[t] = w
  BY <1>1 DEF TypeInv
<1> QED  BY <1>1, <1>2

\* What is known of a thread that has loaded a node.
LEMMA Loaded ==
  ASSUME QInv, head # Null, NEW t \in Threads, pc[t] \in Holding
  PROVE  /\ TypeInv /\ LinkedFacts /\ LoadedAt(t) /\ onto[t] \in Nodes /\ Kept(onto[t])
         /\ Place(onto[t]) \in 1 .. Size /\ Linked[Place(onto[t])] = onto[t]
         /\ \A j \in Place(onto[t]) + 1 .. Size : Linked[j] # onto[t]
         /\ next[onto[t]] = After(Linked, Place(onto[t])) /\ view[t] \in Nat /\ view[t] >= 1
<1>1. TypeInv /\ LinkedFacts /\ LoadedAt(t) /\ onto[t] \in Nodes /\ NodesOK
  BY LinkedLemma DEF QInv, LocalOK, ListOK, LoadedOK, RegistersOK, TypeInv
<1>2. /\ Place(onto[t]) \in 1 .. Size /\ Linked[Place(onto[t])] = onto[t]
      /\ \A j \in Place(onto[t]) + 1 .. Size : Linked[j] # onto[t]
  BY <1>1, PlaceOf DEF LoadedAt
<1>3. Safe(t, onto[t])
  <2>1. Place(onto[t]) \in Place(onto[t]) .. Size
    BY <1>2
  <2>2. \A i \in Place(onto[t]) .. Size : Safe(t, Linked[i])
    BY <1>1 DEF LoadedAt
  <2> QED  BY <1>2, <2>1, <2>2
<1>4. Kept(onto[t])
  BY <1>3 DEF Safe, Kept
<1>5. next[onto[t]] = After(Linked, Place(onto[t]))
  BY <1>1, <1>4 DEF NodesOK
<1>6. view[t] \in Nat /\ view[t] >= 1
  BY <1>1 DEF TypeInv
<1> QED  BY <1>1, <1>2, <1>4, <1>5, <1>6

\* The next node, if any, is the one that was linked after it.
LEMMA NextLoaded ==
  ASSUME QInv, head # Null, NEW t \in Threads, pc[t] \in Holding
  PROVE  /\ next[onto[t]] = Null <=> Place(onto[t]) = Size
         /\ next[onto[t]] # Null =>
              /\ Place(onto[t]) < Size /\ Linked[Place(onto[t]) + 1] = next[onto[t]]
              /\ next[onto[t]] \in Nodes /\ Place(next[onto[t]]) = Place(onto[t]) + 1
              /\ Occurs(Linked, next[onto[t]])
              /\ lview[next[onto[t]]] >= Place(onto[t])
<1> DEFINE p == Place(onto[t])
           n == next[onto[t]]
<1>1. TypeInv /\ LinkedFacts /\ LoadedAt(t) /\ p \in 1 .. Size /\ n = After(Linked, p) /\ NodesOK
  BY Loaded DEF QInv, ListOK
<1>2. Size \in Nat /\ Null \notin Nodes
  BY <1>1, NullAssumption DEF LinkedFacts
<1>3. CASE p = Size
  BY <1>1, <1>2, <1>3 DEF After, Size
<1>4. CASE p < Size
  <2>1. n = Linked[p + 1] /\ p + 1 \in p .. Size /\ Distinct(Linked, p)
    BY <1>1, <1>2, <1>4 DEF After, Size, LoadedAt
  <2>2. Place(n) = p + 1 /\ Occurs(Linked, n) /\ n \in Nodes
    BY <1>1, <2>1, PlaceIs
  <2>3. Safe(t, n)
    BY <1>1, <2>1 DEF LoadedAt
  <2>4. lview[n] >= Place(n) - 1 /\ lview[n] \in Nat
    <3>1. Kept(n)
      BY <2>3 DEF Safe, Kept
    <3>2. lview[n] \in Nat
      BY <1>1, <2>2 DEF TypeInv
    <3> QED  BY <1>1, <2>2, <3>1, <3>2 DEF NodesOK
  <2>5. lview[n] >= p
    BY <1>1, <1>2, <2>2, <2>4
  <2> QED  BY <1>2, <1>4, <2>1, <2>2, <2>5
<1> QED  BY <1>1, <1>2, <1>3, <1>4

LEMMA PinStep ==
  ASSUME QInv, head # Null, NEW t \in Threads, Pin(t)
  PROVE  ListOK'
<1>1. TypeInv /\ Grows(t)
  BY ViewStep DEF QInv, LocalOK
<1>2. pc' = [pc EXCEPT ![t] = "in"] /\ pc'[t] = "in" /\ pc[t] = "out"
  BY <1>1 DEF Pin, Goto, TypeInv
<1>3. rview <= view'[t]
  <2>1. rview \in 1 .. Len(tails) /\ Learn(t, rview)
    BY <1>1 DEF Pin, TypeInv
  <2>2. view'[t] >= rview
    BY <1>1, <2>1, LearnedValue
  <2> QED  BY <1>1, <2>1, <2>2, Growth
<1>4. Moves(t)
  BY <1>1, <1>2, <1>3, Growth DEF Moves, Pin, Linked, queue, memory, local, Taking
<1> QED  BY <1>2, <1>4, MovesLemma DEF Holding, Popping, Taking

LEMMA PushTailStep ==
  ASSUME QInv, head # Null, NEW t \in Threads, PushTail(t)
  PROVE  ListOK'
<1>1. TypeInv /\ LinkedFacts /\ ViewsOK /\ Grows(t)
  BY ViewStep, LinkedLemma DEF QInv, LocalOK, ListOK, Call
<1>2. pc' = [pc EXCEPT ![t] = "push_next"] /\ pc'[t] = "push_next" /\ pc[t] = "push"
  BY <1>1 DEF PushTail, Goto, TypeInv
<1>3. PICK i \in view[t] .. Len(tails) : onto' = [onto EXCEPT ![t] = tails[i]] /\ Learn(t, i)
  BY DEF PushTail, Visible
<1>4. view[t] \in Nat /\ view[t] >= 1 /\ Size \in Nat /\ Len(tails) <= Size /\ Len(tails) \in Nat
  <2>1. view[t] \in 1 .. Len(tails) /\ Len(tails) \in Nat
    BY <1>1 DEF TypeInv, LinkedFacts
  <2>2. Size \in {Len(tails), Len(tails) + 1}
    BY <1>1 DEF LinkedFacts
  <2> QED  BY <2>1, <2>2
<1>5. i \in 1 .. Len(tails) /\ i \in view[t] .. Size /\ i >= view[t] /\ tails[i] = Linked[i] /\ i \in Nat
  BY <1>1, <1>3, <1>4 DEF LinkedFacts
<1>6. Linked' = Linked
  BY DEF PushTail, queue, Linked
<1>7. Moves(t)
  <2>1. \A u \in Threads \ {t} : onto'[u] = onto[u]
    BY <1>3
  <2> QED  BY <1>1, <1>2, <1>6, <2>1, Growth DEF Moves, PushTail, queue, memory, Taking
<1>8. Distinct(Linked, view[t]) /\ \A j \in view[t] .. Size : Safe(t, Linked[j])
  BY <1>1, <1>2 DEF ViewsOK, Active
<1>9. onto'[t] = Linked[i]
  BY <1>1, <1>3, <1>5 DEF TypeInv
<1>10. Place(Linked[i]) = i /\ Occurs(Linked, Linked[i])
  BY <1>1, <1>4, <1>5, <1>8, PlaceIs
<1>11. Distinct(Linked, i) /\ \A j \in i .. Size : Safe(t, Linked[j])
  BY <1>1, <1>4, <1>5, <1>8, Shorter
<1>12. view'[t] \in Nat /\ i <= view'[t]
  BY <1>1, <1>3, <1>5, LearnedValue, Growth
<1>13. LoadedAt(t)'
  <2>1. mem' = mem /\ wait' = wait
    BY DEF PushTail, memory
  <2> QED  BY <1>2, <1>6, <1>9, <1>10, <1>11, <1>12, <2>1 DEF LoadedAt, Place, Size, Safe, Ahead, Popping, Taking
<1> QED  BY <1>7, <1>13, MovesLemma

LEMMA PushNextStep ==
  ASSUME QInv, head # Null, NEW t \in Threads, PushNext(t)
  PROVE  ListOK'
<1>1. pc[t] = "push_next" /\ pc[t] \in Holding
  BY DEF PushNext, Holding
<1>2. /\ TypeInv /\ LinkedFacts /\ LoadedAt(t) /\ onto[t] \in Nodes /\ Grows(t)
      /\ view[t] \in Nat /\ view[t] >= 1
  BY <1>1, Loaded, ViewStep DEF Call
<1>3. \/ next[onto[t]] = Null /\ pc' = [pc EXCEPT ![t] = "link"] /\ pc'[t] = "link"
      \/ next[onto[t]] # Null /\ pc' = [pc EXCEPT ![t] = "help"] /\ pc'[t] = "help"
  BY <1>2 DEF PushNext, Goto, TypeInv
<1>4. succ' = [succ EXCEPT ![t] = next[onto[t]]] /\ succ'[t] = next[onto[t]] /\ onto' = onto /\ new' = new
  BY <1>2 DEF PushNext, TypeInv
<1>5. Linked' = Linked /\ mem' = mem /\ wait' = wait
  BY DEF PushNext, queue, memory, Linked
<1>6. Moves(t)
  BY <1>1, <1>2, <1>3, <1>4, <1>5, Growth DEF Moves, PushNext, queue, memory, Taking
<1>7. view'[t] >= view[t] /\ view'[t] \in Nat
  BY <1>2, Growth
<1>8. Place(onto[t]) <= view[t] /\ Place(onto[t]) \in Nat
  BY <1>1, <1>2, Loaded DEF LoadedAt
<1>9. Place(onto[t]) <= view'[t]
  BY <1>2, <1>7, <1>8
<1>10. next[onto[t]] # Null => Place(onto[t]) < Size /\ Linked[Place(onto[t]) + 1] = next[onto[t]]
  BY <1>1, NextLoaded
<1>11. LoadedAt(t)'
  BY <1>2, <1>3, <1>4, <1>5, <1>9, <1>10 DEF LoadedAt, Place, Size, Safe, Ahead, Popping, Taking
<1> QED  BY <1>6, <1>11, MovesLemma

\* A push that starts over, or returns: it lets go of the nodes it has loaded.
LEMMA HelpSwingStep ==
  ASSUME QInv, head # Null, NEW t \in Threads, Help(t) \/ Swing(t)
  PROVE  ListOK'
<1>1. TypeInv /\ Grows(t) /\ Linked' = Linked
  BY ViewStep, TailMoves DEF QInv, LocalOK, Call
<1>2. /\ pc' = [pc EXCEPT ![t] = pc'[t]] /\ pc'[t] \in {"push", "in"} /\ pc[t] \in {"help", "swing"}
      /\ \A u \in Threads \ {t} : onto'[u] = onto[u] /\ succ'[u] = succ[u] /\ new'[u] = new[u]
  BY <1>1 DEF Help, Swing, Goto, TypeInv
<1>3. Moves(t)
  BY <1>1, <1>2, Growth DEF Moves, Help, Swing, memory, Taking
<1> QED  BY <1>2, <1>3, MovesLemma DEF Holding, Popping, Taking

LEMMA LinkFailedStep ==
  ASSUME QInv, head # Null, NEW t \in Threads, Link(t), next[onto[t]] # Null
  PROVE  ListOK'
<1>1. TypeInv /\ Grows(t)
  BY ViewStep DEF QInv, LocalOK, Call
<1>2. /\ pc' = [pc EXCEPT ![t] = "push"] /\ pc'[t] = "push" /\ pc[t] = "link"
      /\ \A u \in Threads \ {t} : onto'[u] = onto[u] /\ succ'[u] = succ[u] /\ new'[u] = new[u]
  BY <1>1 DEF Link, Goto, TypeInv
<1>3. Moves(t)
  BY <1>1, <1>2, Growth DEF Moves, Link, Linked, Taking
<1> QED  BY <1>2, <1>3, MovesLemma DEF Holding, Popping, Taking

LEMMA PopHeadStep ==
  ASSUME QInv, head # Null, NEW t \in Threads, PopHead(t)
  PROVE  ListOK'
<1>1. TypeInv /\ FrontOK /\ Grows(t)
  BY ViewStep DEF QInv, LocalOK, ListOK, Call
<1>2. /\ pc' = [pc EXCEPT ![t] = pc'[t]] /\ pc'[t] \in {"pop_next", "pop_if_next"}
      /\ pc[t] \in {"in", "pop", "pop_if"}
  BY <1>1 DEF PopHead, Goto, TypeInv
<1>3. onto' = [onto EXCEPT ![t] = head] /\ onto'[t] = head /\ \A u \in Threads \ {t} : onto'[u] = onto[u]
  BY <1>1 DEF PopHead, TypeInv
<1>4. Linked' = Linked /\ mem' = mem /\ wait' = wait /\ head' = head
  BY DEF PopHead, queue, memory, Linked
<1>5. Moves(t)
  BY <1>1, <1>2, <1>3, <1>4, Growth DEF Moves, PopHead, queue, memory, Taking
<1>6. \A i \in Start .. Size : Safe(t, Linked[i])
  BY <1>1 DEF FrontOK, Safe
<1>7. Start \in Nat
  BY <1>1, PlaceOf DEF FrontOK, Start
<1>8. LoadedAt(t)'
  BY <1>1, <1>2, <1>3, <1>4, <1>6, <1>7 DEF LoadedAt, FrontOK, Start, Place, Size, Safe, Ahead, Popping, Taking
<1> QED  BY <1>5, <1>8, MovesLemma

LEMMA PopNextStep ==
  ASSUME QInv, head # Null, NEW t \in Threads, PopNext(t)
  PROVE  ListOK'
<1>1. pc[t] \in {"pop_next", "pop_if_next"} /\ pc[t] \in Holding /\ pc[t] \in Popping
  BY DEF PopNext, Holding, Popping
<1>2. /\ TypeInv /\ LinkedFacts /\ LoadedAt(t) /\ onto[t] \in Nodes /\ Grows(t)
      /\ Place(onto[t]) \in 1 .. Size
  BY <1>1, Loaded, ViewStep DEF Call
<1>3. pc' = [pc EXCEPT ![t] = pc'[t]] /\ pc'[t] \in {"take", "take_if"}
  BY <1>2 DEF PopNext, Goto, TypeInv
<1>4. succ' = [succ EXCEPT ![t] = next[onto[t]]] /\ succ'[t] = next[onto[t]] /\ onto' = onto /\ new' = new
  BY <1>2 DEF PopNext, TypeInv
<1>5. Linked' = Linked /\ mem' = mem /\ wait' = wait /\ head' = head
  BY DEF PopNext, queue, memory, Linked
<1>6. Moves(t)
  BY <1>1, <1>2, <1>3, <1>4, <1>5, Growth DEF Moves, PopNext, queue, memory, Taking
<1>7. /\ next[onto[t]] # Null /\ Place(onto[t]) < Size /\ Linked[Place(onto[t]) + 1] = next[onto[t]]
      /\ lview[next[onto[t]]] >= Place(onto[t]) /\ next[onto[t]] \in Nodes
  BY <1>1, NextLoaded DEF PopNext
<1>8. Place(onto[t]) <= view'[t]
  <2>1. lview[next[onto[t]]] \in 1 .. Len(tails) /\ Learn(t, lview[next[onto[t]]])
    BY <1>2, <1>7 DEF PopNext, TypeInv
  <2>2. view'[t] >= lview[next[onto[t]]] /\ view'[t] \in Nat
    BY <1>2, <2>1, LearnedValue, Growth
  <2> QED  BY <1>2, <1>7, <2>1, <2>2 DEF LinkedFacts
<1>9. Place(onto[t]) <= Start
  BY <1>1, <1>2 DEF LoadedAt
<1>10. LoadedAt(t)'
  BY <1>2, <1>3, <1>4, <1>5, <1>7, <1>8, <1>9 DEF LoadedAt, Start, Place, Size, Safe, Ahead, Popping, Taking
<1> QED  BY <1>6, <1>10, MovesLemma

\* A pop that starts over, or returns None.
LEMMA PopNoneLoseStep ==
  ASSUME QInv, head # Null, NEW t \in Threads, PopNone(t) \/ Lose(t)
  PROVE  ListOK'
<1>1. TypeInv /\ Grows(t)
  BY ViewStep DEF QInv, LocalOK, Call
<1>2. /\ pc' = [pc EXCEPT ![t] = pc'[t]] /\ pc'[t] \in {"in", "pop", "pop_if"}
      /\ pc[t] \in Popping /\ \A u \in Threads \ {t} : onto'[u] = onto[u] /\ succ'[u] = succ[u] /\ new'[u] = new[u]
  BY <1>1 DEF PopNone, Lose, Goto, TypeInv, Popping
<1>3. Moves(t)
  BY <1>1, <1>2, Growth DEF Moves, PopNone, Lose, queue, memory, views, Linked, Popping, Taking
<1> QED  BY <1>2, <1>3, MovesLemma DEF Holding, Popping, Taking

\* Once tail was seen elsewhere it does not come back to a node.
LEMMA PopTailStep ==
  ASSUME QInv, head # Null, NEW t \in Threads, PopTail(t)
  PROVE  ListOK'
<1>1. pc[t] = "pop_tail" /\ pc[t] \in Holding /\ pc[t] \in Ahead /\ pc[t] \in Taking
  BY DEF PopTail, Holding, Taking, Ahead
<1>2. /\ TypeInv /\ LinkedFacts /\ LoadedAt(t) /\ onto[t] \in Nodes /\ Grows(t)
      /\ Place(onto[t]) \in 1 .. Size /\ Linked[Place(onto[t])] = onto[t]
      /\ \A j \in Place(onto[t]) + 1 .. Size : Linked[j] # onto[t]
      /\ Size \in Nat /\ Len(tails) \in Nat
  BY <1>1, Loaded, ViewStep DEF Call, LinkedFacts
<1>3. PICK i \in Visible(t) : Learn(t, i) /\ Goto(t, IF tails[i] = onto[t] THEN "advance" ELSE "retire")
  BY DEF PopTail
<1>4. view[t] \in 1 .. Len(tails) /\ i \in view[t] .. Len(tails) /\ i \in 1 .. Len(tails) /\ tails[i] = Linked[i]
  BY <1>2, <1>3 DEF Visible, TypeInv, LinkedFacts
<1>5. /\ pc' = [pc EXCEPT ![t] = pc'[t]] /\ pc'[t] \in {"advance", "retire"}
      /\ pc'[t] = "retire" => Linked[i] # onto[t]
  BY <1>2, <1>3, <1>4 DEF Goto, TypeInv
<1>6. view'[t] \in Nat /\ view'[t] >= view[t] /\ view'[t] >= i
  BY <1>2, <1>3, <1>4, LearnedValue, Growth
<1>7. Place(onto[t]) <= view[t]
  BY <1>1, <1>2 DEF LoadedAt
<1>8. pc'[t] = "retire" => \A j \in view'[t] .. Size : Linked[j] # onto[t]
  <2>1. SUFFICES ASSUME pc'[t] = "retire", NEW j \in view'[t] .. Size PROVE Linked[j] # onto[t]
    OBVIOUS
  <2>2. i # Place(onto[t])
    BY <1>2, <1>5, <2>1
  <2>3. j \in Place(onto[t]) + 1 .. Size
    BY <1>2, <1>4, <1>6, <1>7, <2>1, <2>2
  <2> QED  BY <1>2, <2>3
<1>9. Linked' = Linked /\ mem' = mem /\ wait' = wait /\ head' = head
      /\ onto' = onto /\ succ' = succ /\ new' = new
  BY DEF PopTail, queue, memory, local, Linked
<1>10. Moves(t)
  BY <1>1, <1>2, <1>5, <1>8, <1>9, Growth DEF Moves, PopTail, queue, memory, Taking
<1>11. Place(onto[t]) <= view'[t]
  BY <1>2, <1>4, <1>6, <1>7
<1>12. LoadedAt(t)'
  BY <1>1, <1>2, <1>5, <1>9, <1>11 DEF LoadedAt, Place, Size, Safe, Ahead, Popping, Taking
<1> QED  BY <1>10, <1>12, MovesLemma

LEMMA PopAdvanceStep ==
  ASSUME QInv, head # Null, NEW t \in Threads, PopAdvance(t)
  PROVE  ListOK'
<1>1. pc[t] = "advance" /\ pc[t] \in Holding /\ pc[t] \in Ahead /\ pc[t] \in Taking
  BY DEF PopAdvance, Holding, Taking, Ahead
<1>2. /\ TypeInv /\ LoadedAt(t) /\ onto[t] \in Nodes /\ Grows(t)
      /\ Place(onto[t]) \in 1 .. Size
      /\ \A j \in Place(onto[t]) + 1 .. Size : Linked[j] # onto[t]
      /\ Size \in Nat
  BY <1>1, Loaded, ViewStep DEF Call, LinkedFacts
<1>3. pc' = [pc EXCEPT ![t] = "retire"] /\ pc'[t] = "retire"
  BY <1>2 DEF PopAdvance, Goto, TypeInv
<1>4. Linked' = Linked /\ view'[t] \in Nat /\ view'[t] > Place(onto[t])
  <2>1. /\ Linked' = Linked
        /\ \E v \in 1 .. Len(tails') : v >= view[t] /\ v > Place(onto[t]) /\ view' = [view EXCEPT ![t] = v]
    BY TailMoves
  <2> QED  BY <1>2, <2>1 DEF Grows, TypeInv
<1>5. \A j \in view'[t] .. Size : Linked[j] # onto[t]
  BY <1>2, <1>4
<1>6. mem' = mem /\ wait' = wait /\ head' = head /\ onto' = onto /\ succ' = succ /\ new' = new
  BY DEF PopAdvance, memory, local
<1>7. Moves(t)
  BY <1>1, <1>2, <1>3, <1>4, <1>5, <1>6, Growth DEF Moves, PopAdvance, memory, Taking
<1>8. Place(onto[t]) <= view'[t]
  BY <1>2, <1>4
<1>9. LoadedAt(t)'
  BY <1>1, <1>2, <1>3, <1>4, <1>6, <1>8 DEF LoadedAt, Place, Size, Safe, Ahead, Popping, Taking
<1> QED  BY <1>7, <1>9, MovesLemma

-------------------------------------------------------------------------------
(* ListOK is kept by what changes the queue or the memory of its nodes. *)

\* The front moves by one node, which is now taken.
LEMMA TakeStep ==
  ASSUME QInv, head # Null, NEW t \in Threads, Take(t)
  PROVE  ListOK'
<1>1. pc[t] \in {"take", "take_if"} /\ pc[t] \in Holding /\ pc[t] \in Ahead /\ head = onto[t]
  BY DEF Take, Holding, Popping, Ahead
<1>2. /\ TypeInv /\ LinkedFacts /\ LoadedAt(t) /\ onto[t] \in Nodes
      /\ Start \in 1 .. Size /\ Linked[Start] = head
      /\ \A j \in Start + 1 .. Size : Linked[j] # head
      /\ Size \in Nat
  BY <1>1, Loaded DEF LinkedFacts, Start
<1>3. NodesOK /\ FrontOK /\ ViewsOK /\ LoadedOK /\ TakenOK
  BY DEF QInv, ListOK
<1>4. /\ head' = succ[t] /\ pc' = [pc EXCEPT ![t] = "pop_tail"] /\ pc'[t] = "pop_tail"
      /\ next' = next /\ tails' = tails /\ mem' = mem /\ wait' = wait /\ mine' = mine
      /\ view' = view /\ lview' = lview /\ rview' = rview
      /\ onto' = onto /\ succ' = succ /\ new' = new
  BY <1>2 DEF Take, Goto, memory, local, TypeInv
<1>5. \A u \in Threads \ {t} : pc'[u] = pc[u]
  BY <1>2, <1>4 DEF TypeInv
<1>6. Linked' = Linked /\ Size' = Size /\ \A n : Place(n)' = Place(n)
  BY <1>4 DEF Linked, Size, Place
<1>7. Start < Size /\ Linked[Start + 1] = succ[t] /\ Start + 1 \in Start .. Size
  BY <1>1, <1>2 DEF LoadedAt, Start
<1>8. Start' = Start + 1 /\ Occurs(Linked, succ[t])
  <2>1. Place(succ[t]) = Start + 1 /\ Occurs(Linked, succ[t])
    BY <1>2, <1>3, <1>7, PlaceIs DEF FrontOK
  <2> QED  BY <1>4, <1>6, <2>1 DEF Start
<1>9. NodesOK'
  BY <1>3, <1>4, <1>6 DEF NodesOK, Kept
<1>10. FrontOK'
  <2>1. Distinct(Linked, Start + 1) /\ \A i \in Start + 1 .. Size : mem[Linked[i]] = "used"
    BY <1>2, <1>3, Shorter DEF FrontOK
  <2>2. ASSUME NEW n \in Nodes, mem[n] = "used", Place(n) < Start + 1
        PROVE  \E u \in Threads : Taken(u)' /\ onto[u] = n
    <3>1. Occurs(Linked, n)
      BY <1>3, <2>2 DEF NodesOK, Kept
    <3>2. Place(n) \in 1 .. Size /\ Linked[Place(n)] = n
      BY <1>2, <3>1, PlaceOf
    <3>3. CASE Place(n) < Start
      <4>1. PICK u \in Threads : Taken(u) /\ onto[u] = n
        BY <1>3, <2>2, <3>3 DEF FrontOK
      <4>2. u # t
        BY <1>1, <4>1 DEF Taken
      <4> QED  BY <1>5, <4>1, <4>2 DEF Taken
    <3>4. CASE Place(n) = Start
      <4>1. onto[t] = n /\ Taken(t)'
        BY <1>1, <1>2, <1>4, <3>2, <3>4 DEF Taken
      <4> QED  BY <4>1
    <3> QED  BY <1>2, <2>2, <3>2, <3>3, <3>4
  <2> QED  BY <1>4, <1>6, <1>8, <2>1, <2>2 DEF FrontOK
<1>11. ViewsOK'
  <2>1. Active' = Active
    BY <1>1, <1>4, <1>5 DEF Active
  <2> QED  BY <1>3, <1>4, <1>6, <2>1 DEF ViewsOK, Safe
<1>12. LoadedOK'
  <2>1. ASSUME NEW u \in Threads, pc'[u] \in Holding
        PROVE  LoadedAt(u)'
    <3>1. LoadedAt(u) /\ (pc'[u] = pc[u] \/ u = t)
      BY <1>1, <1>2, <1>3, <1>5, <2>1 DEF LoadedOK
    <3>2. Place(onto[u]) \in 1 .. Size
      BY <1>2, <3>1, PlaceOf DEF LoadedAt
    <3>3. pc[u] \in Popping => Place(onto[u]) <= Start + 1
      BY <1>2, <3>1, <3>2 DEF LoadedAt
    <3>4. pc'[t] \in Ahead /\ pc'[t] # "swing" /\ pc'[t] \notin Popping
      BY <1>4 DEF Ahead, Taking, Popping
    <3> QED  BY <1>1, <1>4, <1>6, <1>8, <3>1, <3>3, <3>4 DEF LoadedAt, Safe, Place, Size
  <2> QED  BY <2>1 DEF LoadedOK
<1>13. TakenOK'
  <2>1. \A u \in Threads : Taken(u)' => u = t \/ (Taken(u) /\ u # t)
    BY <1>5 DEF Taken
  <2>2. \A u \in Threads : Taken(u) => Place(onto[u]) < Start /\ mem[onto[u]] = "used" /\ onto[u] # onto[t]
    BY <1>1, <1>2, <1>3 DEF TakenOK, Start
  <2>3. mem[onto[t]] = "used" /\ Place(onto[t]) = Start
    BY <1>1, <1>2, <1>3 DEF FrontOK, Start
  <2>4. \A u \in Threads : Taken(u) => Place(onto[u]) \in 1 .. Size
    <3>1. \A u \in Threads : Taken(u) => LoadedAt(u)
      BY <1>3 DEF LoadedOK, Taken, Holding, Taking
    <3> QED  BY <1>2, <3>1, PlaceOf DEF LoadedAt
  <2>5. \A u \in Threads : Taken(u)' => Place(onto[u]) < Start + 1 /\ mem[onto[u]] = "used"
    BY <1>2, <2>1, <2>2, <2>3, <2>4
  <2>6. \A u, w \in Threads : Taken(u)' /\ Taken(w)' /\ onto[u] = onto[w] => u = w
    BY <1>3, <2>1, <2>2 DEF TakenOK
  <2>7. \A u \in Threads : pc'[u] = "retire" => \A i \in view[u] .. Size : Linked[i] # onto[u]
    BY <1>3, <1>4, <1>5 DEF TakenOK
  <2> QED  BY <1>4, <1>6, <1>8, <2>5, <2>6, <2>7 DEF TakenOK
<1> QED  BY <1>9, <1>10, <1>11, <1>12, <1>13 DEF ListOK

\* Every other step that leaves the order of nodes as it is, and the thread that
\* takes it without a node: all that is safe stays so.
Keeps ==
  /\ Linked' = Linked /\ head' = head /\ view' = view
  /\ \A u \in Threads : pc'[u] \in Holding =>
       pc[u] = pc'[u] /\ new'[u] = new[u] /\ onto'[u] = onto[u] /\ succ'[u] = succ[u]
  /\ \A u \in Threads : pc'[u] \in Taking => mem'[onto[u]] = "used"
  /\ \A u \in Active' : u \in Active /\ \A n \in Nodes : Safe(u, n) => Safe(u, n)'
LEMMA KeepsLemma ==
  ASSUME QInv, head # Null, Keeps, TypeInv'
  PROVE  LoadedOK' /\ TakenOK' /\ \A u \in Active' :
           Distinct(Linked', view'[u]) /\ \A i \in view'[u] .. Size' : Safe(u, Linked[i])'
<1>1. TypeInv /\ LinkedFacts /\ NodesOK /\ FrontOK /\ ViewsOK /\ LoadedOK /\ TakenOK
  BY LinkedLemma DEF QInv, LocalOK, ListOK
<1>2. /\ Linked' = Linked /\ head' = head /\ view' = view
      /\ Size' = Size /\ Start' = Start /\ \A n : Place(n)' = Place(n)
  BY DEF Keeps, Size, Place, Start
<1>3. LoadedOK'
  <2>1. ASSUME NEW u \in Threads, pc'[u] \in Holding
        PROVE  LoadedAt(u)'
    <3>1. LoadedAt(u) /\ pc'[u] = pc[u] /\ new'[u] = new[u] /\ u \in Active'
          /\ onto'[u] = onto[u] /\ succ'[u] = succ[u]
      BY <1>1, <2>1 DEF LoadedOK, Keeps, Active, Holding, Popping, Taking
    <3>2. Place(onto[u]) \in 1 .. Size
      BY <1>1, <3>1, PlaceOf DEF LoadedAt
    <3>3. \A i \in Place(onto[u]) .. Size : Linked[i] \in Nodes /\ Safe(u, Linked[i])
      BY <1>1, <3>1, <3>2 DEF LoadedAt, LinkedFacts
    <3>4. \A i \in Place(onto[u]) .. Size : Safe(u, Linked[i])'
      BY <1>2, <3>1, <3>3 DEF Keeps, Safe
    <3> QED  BY <1>2, <3>1, <3>4 DEF LoadedAt, Safe, Place, Size, Start
  <2> QED  BY <2>1 DEF LoadedOK
<1>4. TakenOK'
  <2>1. \A u \in Threads : Taken(u)' => Taken(u) /\ pc'[u] = pc[u] /\ onto'[u] = onto[u] /\ mem'[onto[u]] = "used"
    BY DEF Taken, Holding, Taking, Keeps
  <2>2. \A u \in Threads : Taken(u)' => Place(onto[u]) < Start
    BY <1>1, <2>1 DEF TakenOK
  <2>3. \A u, w \in Threads : Taken(u)' /\ Taken(w)' /\ onto'[u] = onto'[w] => u = w
    BY <1>1, <2>1 DEF TakenOK
  <2>4. \A u \in Threads : pc'[u] = "retire" => \A i \in view[u] .. Size : Linked[i] # onto'[u]
    BY <1>1, <2>1 DEF TakenOK, Taken
  <2>5. \A u \in Threads : Taken(u)' => Place(onto'[u]) < Start /\ mem'[onto'[u]] = "used"
    BY <2>1, <2>2
  <2> QED  BY <1>2, <2>3, <2>4, <2>5 DEF TakenOK, Place, Start
<1>5. ASSUME NEW u \in Active'
      PROVE  Distinct(Linked', view'[u]) /\ \A i \in view'[u] .. Size' : Safe(u, Linked[i])'
  <2>1. u \in Active /\ view[u] \in 1 .. Len(tails) /\ \A n \in Nodes : Safe(u, n) => Safe(u, n)'
    BY <1>1, <1>5 DEF Keeps, TypeInv, Active
  <2>2. Distinct(Linked, view[u]) /\ \A i \in view[u] .. Size : Safe(u, Linked[i])
    BY <1>1, <2>1 DEF ViewsOK
  <2>3. \A i \in view[u] .. Size : Linked[i] \in Nodes
    BY <1>1, <2>1 DEF LinkedFacts
  <2> QED  BY <1>2, <2>1, <2>2, <2>3 DEF Safe
<1> QED  BY <1>3, <1>4, <1>5

LEMMA UnpinStep ==
  ASSUME QInv, head # Null, NEW t \in Threads, Unpin(t), TypeInv'
  PROVE  ListOK'
<1>1. TypeInv /\ NodesOK /\ FrontOK /\ ViewsOK /\ LoadedOK /\ TakenOK
  BY DEF QInv, LocalOK, ListOK
<1>2. /\ pc' = [pc EXCEPT ![t] = "out"] /\ pc'[t] = "out" /\ \A u \in Threads \ {t} : pc'[u] = pc[u]
      /\ \A n \in Nodes : wait'[n] = wait[n] \ {t}
      /\ mem' = mem /\ mine' = mine /\ head' = head /\ next' = next /\ tails' = tails
      /\ onto' = onto /\ succ' = succ /\ new' = new /\ view' = view /\ lview' = lview /\ rview' = rview
      /\ pc[t] = "in"
  BY <1>1 DEF Unpin, Goto, queue, local, views, TypeInv
<1>3. Linked' = Linked /\ Size' = Size /\ Start' = Start /\ \A n : Place(n)' = Place(n)
  BY <1>2 DEF Linked, Size, Place, Start
<1>4. Keeps
  <2>1. \A u \in Active' : u \in Active /\ u # t
    BY <1>2 DEF Active
  <2>2. \A u \in Threads : pc'[u] \in Taking => mem'[onto[u]] = "used"
    BY <1>1, <1>2 DEF TakenOK, Taken, Taking
  <2> QED  BY <1>2, <1>3, <2>1, <2>2 DEF Keeps, Safe, Holding, Popping, Taking
<1>5. NodesOK'
  BY <1>1, <1>2, <1>3 DEF NodesOK, Kept
<1>6. FrontOK'
  <2>1. \A u \in Threads : Taken(u) <=> Taken(u)'
    BY <1>2 DEF Taken
  <2> QED  BY <1>1, <1>2, <1>3, <2>1 DEF FrontOK
<1>7. ViewsOK'
  BY <1>1, <1>2, <1>3, <1>4, KeepsLemma DEF ViewsOK
<1> QED  BY <1>4, <1>5, <1>6, <1>7, KeepsLemma DEF ListOK

LEMMA SealStep ==
  ASSUME QInv, head # Null, NEW t \in Threads, Seal(t), TypeInv'
  PROVE  ListOK'
<1>1. TypeInv /\ MineOK /\ NodesOK /\ FrontOK /\ ViewsOK /\ LoadedOK /\ TakenOK /\ LinkedFacts
  BY LinkedLemma DEF QInv, LocalOK, ListOK
<1>2. /\ pc' = pc /\ head' = head /\ next' = next /\ tails' = tails
      /\ onto' = onto /\ succ' = succ /\ new' = new /\ view' = view /\ lview' = lview
      /\ rview' = Later(rview, view[t]) /\ mine' = [mine EXCEPT ![t] = {}]
      /\ \A n \in Nodes : mem'[n] = IF n \in mine[t] THEN "retired" ELSE mem[n]
      /\ \A n \in Nodes : wait'[n] = IF n \in mine[t] THEN Active ELSE wait[n]
  BY <1>1 DEF Seal, queue, local
<1>3. Linked' = Linked /\ Size' = Size /\ Start' = Start /\ \A n : Place(n)' = Place(n)
  BY <1>2 DEF Linked, Size, Place, Start
<1>4. \A n \in Nodes : IF n \in mine[t] THEN mem[n] = "deferred" /\ mem'[n] = "retired" ELSE mem'[n] = mem[n]
  BY <1>1, <1>2 DEF MineOK
<1>5. Active' = Active
  BY <1>2 DEF Active
<1>6. Keeps
  <2>1. \A u \in Threads : pc'[u] \in Taking => mem'[onto[u]] = "used"
    BY <1>1, <1>2, <1>4 DEF QInv, LocalOK, RegistersOK, TypeInv, TakenOK, Taken, Taking, Holding
  <2>2. \A u \in Active : \A n \in Nodes : Safe(u, n) => Safe(u, n)'
    BY <1>2, <1>4 DEF Safe
  <2> QED  BY <1>2, <1>3, <1>5, <2>1, <2>2 DEF Keeps
<1>7. NodesOK'
  <2>1. \A n \in Nodes : Kept(n)' <=> Kept(n)
    BY <1>4 DEF Kept
  <2> QED  BY <1>1, <1>2, <1>3, <2>1 DEF NodesOK
<1>8. FrontOK'
  <2>1. \A n \in Nodes : mem'[n] = "used" <=> mem[n] = "used"
    BY <1>4
  <2>2. \A u \in Threads : Taken(u) <=> Taken(u)'
    BY <1>2 DEF Taken
  <2>3. Start \in 1 .. Size
    BY <1>1, PlaceOf DEF FrontOK, Start
  <2>4. \A i \in Start .. Size : mem'[Linked[i]] = "used"
    BY <1>1, <2>1, <2>3 DEF FrontOK, LinkedFacts
  <2>5. \A n \in Nodes : mem'[n] = "used" /\ Place(n) < Start => \E u \in Threads : Taken(u)' /\ onto[u] = n
    BY <1>1, <2>1, <2>2 DEF FrontOK
  <2> QED  BY <1>1, <1>2, <1>3, <2>4, <2>5 DEF FrontOK
<1>9. ViewsOK'
  <2>1. rview \in Nat /\ view[t] \in Nat /\ rview >= 1 /\ view[t] >= 1
    BY <1>1 DEF TypeInv
  <2>2. rview' \in Nat /\ rview' >= rview /\ rview' >= view[t]
    BY <1>2, <2>1 DEF Later
  <2>3. Distinct(Linked, rview')
    BY <1>1, <2>1, <2>2, Shorter DEF ViewsOK
  <2>4. \A i \in rview' .. Size : mem'[Linked[i]] \in {"used", "deferred"}
    <3>1. SUFFICES ASSUME NEW i \in rview' .. Size PROVE mem'[Linked[i]] \in {"used", "deferred"}
      OBVIOUS
    <3>2. i \in rview .. Size /\ i \in view[t] .. Size /\ Linked[i] \in Nodes
      BY <1>1, <2>1, <2>2, <3>1, Shorter
    <3>3. mem[Linked[i]] \in {"used", "deferred"} /\ Linked[i] \notin mine[t]
      BY <1>1, <3>2 DEF ViewsOK
    <3> QED  BY <1>4, <3>2, <3>3
  <2>5. \A u \in Threads : \A n : n \in mine'[u] => n \in mine[u]
    BY <1>1, <1>2 DEF TypeInv
  <2>6. \A u \in Threads : \A i \in view[u] .. Size : Linked[i] \notin mine'[u]
    BY <1>1, <2>5 DEF ViewsOK
  <2> QED  BY <1>2, <1>3, <1>6, <2>3, <2>4, <2>6, KeepsLemma DEF ViewsOK
<1> QED  BY <1>6, <1>7, <1>8, <1>9, KeepsLemma DEF ListOK

\* Nobody waits for a node that is freed, and tail is elsewhere.
LEMMA FreeStep ==
  ASSUME QInv, head # Null, NEW m \in Nodes, Free(m), TypeInv'
  PROVE  ListOK'
<1>1. TypeInv /\ NodesOK /\ FrontOK /\ ViewsOK /\ LoadedOK /\ TakenOK /\ LinkedFacts
  BY LinkedLemma DEF QInv, LocalOK, ListOK
<1>2. /\ pc' = pc /\ head' = head /\ tails' = tails /\ wait' = wait /\ mine' = mine
      /\ onto' = onto /\ succ' = succ /\ new' = new /\ view' = view /\ rview' = rview
      /\ mem[m] = "retired" /\ wait[m] = {} /\ mem'[m] = "free" /\ next'[m] = Null
      /\ \A n \in Nodes \ {m} : mem'[n] = mem[n] /\ next'[n] = next[n] /\ lview'[n] = lview[n]
  BY <1>1 DEF Free, local, TypeInv
<1>4. Linked' = Linked
  BY FreeLinked
<1>5. Size' = Size /\ Start' = Start /\ \A n : Place(n)' = Place(n)
  BY <1>2, <1>4 DEF Size, Place, Start
<1>6. \A n \in Nodes : mem[n] = "used" => mem'[n] = "used"
  BY <1>2
<1>7. Active' = Active
  BY <1>2 DEF Active
<1>8. Keeps
  <2>1. \A u \in Threads : pc'[u] \in Taking => mem'[onto[u]] = "used"
    BY <1>1, <1>2, <1>6 DEF QInv, LocalOK, RegistersOK, TypeInv, TakenOK, Taken, Taking, Holding
  <2>2. \A u \in Active : \A n \in Nodes : Safe(u, n) => Safe(u, n)'
    BY <1>2 DEF Safe
  <2> QED  BY <1>2, <1>4, <1>7, <2>1, <2>2 DEF Keeps
<1>9. NodesOK'
  <2>1. \A n \in Nodes \ {m} : Kept(n)' <=> Kept(n)
    BY <1>2 DEF Kept
  <2>2. ~Kept(m)'
    BY <1>2 DEF Kept
  <2> QED  BY <1>1, <1>2, <1>4, <1>5, <2>1, <2>2 DEF NodesOK
<1>10. FrontOK'
  <2>1. \A n \in Nodes : mem'[n] = "used" <=> mem[n] = "used"
    BY <1>2
  <2>2. \A u \in Threads : Taken(u) <=> Taken(u)'
    BY <1>2 DEF Taken
  <2>3. Start \in 1 .. Size
    BY <1>1, PlaceOf DEF FrontOK, Start
  <2>4. \A i \in Start .. Size : mem'[Linked[i]] = "used"
    BY <1>1, <2>1, <2>3 DEF FrontOK, LinkedFacts
  <2>5. \A n \in Nodes : mem'[n] = "used" /\ Place(n) < Start => \E u \in Threads : Taken(u)' /\ onto[u] = n
    BY <1>1, <2>1, <2>2 DEF FrontOK
  <2> QED  BY <1>1, <1>2, <1>4, <1>5, <2>4, <2>5 DEF FrontOK
<1>11. ViewsOK'
  <2>1. \A i \in rview .. Size : Linked[i] \in Nodes
    BY <1>1 DEF TypeInv, LinkedFacts
  <2>2. \A i \in rview .. Size : mem'[Linked[i]] \in {"used", "deferred"}
    BY <1>1, <1>2, <2>1 DEF ViewsOK
  <2> QED  BY <1>1, <1>2, <1>4, <1>5, <1>8, <2>2, KeepsLemma DEF ViewsOK
<1> QED  BY <1>8, <1>9, <1>10, <1>11, KeepsLemma DEF ListOK

LEMMA PushStartStep ==
  ASSUME QInv, head # Null, NEW t \in Threads, PushStart(t), TypeInv'
  PROVE  ListOK'
<1>1. TypeInv /\ NodesOK /\ FrontOK /\ ViewsOK /\ LoadedOK /\ TakenOK /\ LinkedFacts
  BY LinkedLemma DEF QInv, LocalOK, ListOK
<1>2. PICK m \in Nodes : mem[m] = "free" /\ mem' = [mem EXCEPT ![m] = "held"]
                         /\ data' = [data EXCEPT ![m] = pushed + 1] /\ new' = [new EXCEPT ![t] = m]
  BY DEF PushStart
<1>3. /\ pc' = [pc EXCEPT ![t] = "push"] /\ pc'[t] = "push" /\ pc[t] = "in"
      /\ \A u \in Threads \ {t} : pc'[u] = pc[u] /\ new'[u] = new[u]
      /\ head' = head /\ next' = next /\ tails' = tails /\ wait' = wait /\ mine' = mine
      /\ onto' = onto /\ succ' = succ /\ view' = view /\ lview' = lview /\ rview' = rview
      /\ mem'[m] = "held" /\ \A n \in Nodes \ {m} : mem'[n] = mem[n]
  BY <1>1, <1>2 DEF PushStart, Goto, views, TypeInv
<1>4. Linked' = Linked /\ Size' = Size /\ Start' = Start /\ \A n : Place(n)' = Place(n)
  BY <1>3 DEF Linked, Size, Place, Start
<1>5. \A n \in Nodes : mem'[n] = mem[n] \/ (mem[n] = "free" /\ mem'[n] = "held")
  BY <1>2, <1>3
<1>6. Active' = Active
  BY <1>3 DEF Active
<1>7. Keeps
  <2>1. \A u \in Threads : pc'[u] \in Taking => mem'[onto[u]] = "used"
    <3>1. \A u \in Threads : pc'[u] \in Taking => pc[u] \in Taking
      BY <1>3 DEF Taking
    <3>2. \A u \in Threads : pc[u] \in Taking => mem[onto[u]] = "used" /\ onto[u] \in Nodes
      BY <1>1 DEF QInv, LocalOK, RegistersOK, TypeInv, TakenOK, Taken, Taking, Holding
    <3> QED  BY <1>5, <3>1, <3>2
  <2>2. \A u \in Active : \A n \in Nodes : Safe(u, n) => Safe(u, n)'
    BY <1>3, <1>5 DEF Safe
  <2> QED  BY <1>3, <1>4, <1>6, <2>1, <2>2 DEF Keeps, Holding, Popping, Taking
<1>8. NodesOK'
  <2>1. \A n \in Nodes : Kept(n)' <=> Kept(n)
    BY <1>5 DEF Kept
  <2> QED  BY <1>1, <1>3, <1>4, <2>1 DEF NodesOK
<1>9. FrontOK'
  <2>1. \A n \in Nodes : mem'[n] = "used" <=> mem[n] = "used"
    BY <1>5
  <2>2. \A u \in Threads : Taken(u) <=> Taken(u)'
    BY <1>3 DEF Taken
  <2>3. Start \in 1 .. Size
    BY <1>1, PlaceOf DEF FrontOK, Start
  <2>4. \A i \in Start .. Size : mem'[Linked[i]] = "used"
    BY <1>1, <2>1, <2>3 DEF FrontOK, LinkedFacts
  <2>5. \A n \in Nodes : mem'[n] = "used" /\ Place(n) < Start => \E u \in Threads : Taken(u)' /\ onto[u] = n
    BY <1>1, <2>1, <2>2 DEF FrontOK
  <2> QED  BY <1>1, <1>3, <1>4, <2>4, <2>5 DEF FrontOK
<1>10. ViewsOK'
  <2>1. \A i \in rview .. Size : Linked[i] \in Nodes
    BY <1>1 DEF TypeInv, LinkedFacts
  <2>2. \A i \in rview .. Size : mem'[Linked[i]] \in {"used", "deferred"}
    BY <1>1, <1>5, <2>1 DEF ViewsOK
  <2> QED  BY <1>1, <1>3, <1>4, <1>7, <2>2, KeepsLemma DEF ViewsOK
<1> QED  BY <1>7, <1>8, <1>9, <1>10, KeepsLemma DEF ListOK

\* A node is retired by the thread that took it, when tail has left it.
LEMMA RetireStep ==
  ASSUME QInv, head # Null, NEW t \in Threads, Retire(t), TypeInv'
  PROVE  ListOK'
<1>1. TypeInv /\ NodesOK /\ FrontOK /\ ViewsOK /\ LoadedOK /\ TakenOK /\ LinkedFacts
  BY LinkedLemma DEF QInv, LocalOK, ListOK
<1>2. pc[t] = "retire" /\ pc[t] \in Taking /\ pc[t] \in Holding
  BY DEF Retire, Taking, Holding
<1>3. /\ onto[t] \in Nodes /\ mem[onto[t]] = "used" /\ Place(onto[t]) < Start
      /\ Place(onto[t]) \in 1 .. Size /\ \A j \in Place(onto[t]) + 1 .. Size : Linked[j] # onto[t]
  BY <1>1, <1>2, Loaded DEF TakenOK, Taken
<1>4. /\ pc' = [pc EXCEPT ![t] = "in"] /\ pc'[t] = "in"
      /\ \A u \in Threads \ {t} : pc'[u] = pc[u] /\ onto'[u] = onto[u] /\ succ'[u] = succ[u] /\ mine'[u] = mine[u]
      /\ head' = head /\ next' = next /\ tails' = tails /\ wait' = wait /\ new' = new
      /\ view' = view /\ lview' = lview /\ rview' = rview
      /\ mine'[t] = mine[t] \cup {onto[t]}
      /\ mem'[onto[t]] = "deferred" /\ \A n \in Nodes \ {onto[t]} : mem'[n] = mem[n]
  BY <1>1, <1>3 DEF Retire, Goto, views, TypeInv
<1>5. Linked' = Linked /\ Size' = Size /\ Start' = Start /\ \A n : Place(n)' = Place(n)
  BY <1>4 DEF Linked, Size, Place, Start
<1>6. Active' = Active
  BY <1>2, <1>4 DEF Active, Taking
<1>7. Keeps
  <2>1. ASSUME NEW u \in Threads, pc'[u] \in Taking
        PROVE  mem'[onto[u]] = "used"
    <3>1. u # t /\ Taken(u) /\ pc[u] \in Holding
      BY <1>4, <2>1 DEF Taken, Taking, Holding
    <3>2. onto[u] # onto[t] /\ mem[onto[u]] = "used" /\ onto[u] \in Nodes
      BY <1>1, <1>2, <3>1 DEF TakenOK, Taken, Taking, QInv, LocalOK, RegistersOK, TypeInv
    <3> QED  BY <1>4, <3>2
  <2>2. \A u \in Active : \A n \in Nodes : Safe(u, n) => Safe(u, n)'
    BY <1>3, <1>4 DEF Safe
  <2>3. \A u \in Threads : pc'[u] \in Holding => u # t
    BY <1>4 DEF Holding, Popping, Taking
  <2> QED  BY <1>4, <1>5, <1>6, <2>1, <2>2, <2>3 DEF Keeps
<1>8. NodesOK'
  <2>1. \A n \in Nodes : Kept(n)' <=> Kept(n)
    BY <1>3, <1>4 DEF Kept
  <2> QED  BY <1>1, <1>4, <1>5, <2>1 DEF NodesOK
<1>9. FrontOK'
  <2>1. Start \in 1 .. Size
    BY <1>1, PlaceOf DEF FrontOK, Start
  <2>2. \A i \in Start .. Size : mem'[Linked[i]] = "used"
    <3>1. \A i \in Start .. Size : Linked[i] # onto[t] /\ Linked[i] \in Nodes
      BY <1>1, <1>3, <2>1 DEF LinkedFacts
    <3> QED  BY <1>1, <1>4, <3>1 DEF FrontOK
  <2>3. ASSUME NEW n \in Nodes, mem'[n] = "used", Place(n) < Start
        PROVE  \E u \in Threads : Taken(u)' /\ onto'[u] = n
    <3>1. n # onto[t] /\ mem[n] = "used"
      BY <1>4, <2>3
    <3>2. PICK u \in Threads : Taken(u) /\ onto[u] = n
      BY <1>1, <2>3, <3>1 DEF FrontOK
    <3> QED  BY <1>4, <3>1, <3>2 DEF Taken
  <2> QED  BY <1>1, <1>4, <1>5, <2>2, <2>3 DEF FrontOK
<1>10. ViewsOK'
  <2>1. \A i \in rview .. Size : Linked[i] \in Nodes
    BY <1>1 DEF TypeInv, LinkedFacts
  <2>2. \A i \in rview .. Size : mem'[Linked[i]] \in {"used", "deferred"}
    BY <1>1, <1>3, <1>4, <2>1 DEF ViewsOK
  <2>3. \A u \in Threads : \A i \in view[u] .. Size : Linked[i] \notin mine'[u]
    <3>1. \A i \in view[t] .. Size : Linked[i] # onto[t]
      BY <1>1, <1>2 DEF TakenOK
    <3> QED  BY <1>1, <1>4, <3>1 DEF ViewsOK
  <2> QED  BY <1>1, <1>4, <1>5, <1>7, <2>2, <2>3, KeepsLemma DEF ViewsOK
<1> QED  BY <1>7, <1>8, <1>9, <1>10, KeepsLemma DEF ListOK

\* The new node is linked to the last one, to which tail has been moved.
LEMMA LinkFacts ==
  ASSUME QInv, head # Null, NEW t \in Threads, Link(t), next[onto[t]] = Null
  PROVE  /\ Size = Len(tails) /\ Place(onto[t]) = Size /\ Last(tails) = onto[t] /\ view[t] = Size
         /\ new[t] \in Nodes /\ mem[new[t]] = "held"
         /\ Linked' = Append(Linked, new[t]) /\ Size' = Size + 1
<1>1. pc[t] = "link" /\ pc[t] \in Holding /\ pc[t] \in Pushing
  BY DEF Link, Holding, Pushing
<1>2. /\ TypeInv /\ LinkedFacts /\ LoadedAt(t) /\ onto[t] \in Nodes /\ Kept(onto[t])
      /\ Place(onto[t]) = Size /\ Linked[Size] = onto[t]
  BY <1>1, Loaded, NextLoaded
<1>3. new[t] \in Nodes /\ mem[new[t]] = "held"
  BY <1>1, <1>2 DEF QInv, LocalOK, RegistersOK, NewOK, TypeInv
<1>4. view[t] \in 1 .. Len(tails) /\ Place(onto[t]) <= view[t]
  BY <1>1, <1>2 DEF TypeInv, LoadedAt
<1>5. Size = Len(tails) /\ view[t] = Size
  BY <1>2, <1>4 DEF LinkedFacts
<1>6. Last(tails) = onto[t] /\ Linked = tails
  BY <1>2, <1>5 DEF LinkedFacts
<1>7. next'[onto[t]] = new[t] /\ tails' = tails
  BY <1>2 DEF Link, TypeInv
<1>8. Linked' = Append(Linked, new[t])
  BY <1>3, <1>6, <1>7, NullAssumption DEF Linked
<1>9. Size' = Size + 1
  BY <1>2, <1>3, <1>8 DEF Size, LinkedFacts
<1> QED  BY <1>2, <1>3, <1>5, <1>6, <1>8, <1>9

LEMMA LinkedStep ==
  ASSUME QInv, head # Null, NEW t \in Threads, Link(t), next[onto[t]] = Null, TypeInv'
  PROVE  ListOK'
<1>1. TypeInv /\ NodesOK /\ FrontOK /\ ViewsOK /\ LoadedOK /\ TakenOK /\ LinkedFacts
  BY LinkedLemma DEF QInv, LocalOK, ListOK
<1>2. /\ pc[t] = "link" /\ pc[t] \in Holding /\ onto[t] \in Nodes /\ Kept(onto[t])
      /\ Linked[Place(onto[t])] = onto[t] /\ LoadedAt(t)
  BY Loaded DEF Link, Holding
<1>3. PICK m \in Nodes :
      /\ Size = Len(tails) /\ Place(onto[t]) = Size /\ Last(tails) = onto[t] /\ view[t] = Size
      /\ m = new[t] /\ mem[m] = "held"
      /\ Linked' = Append(Linked, m) /\ Size' = Size + 1
  BY LinkFacts
<1>4. /\ pc' = [pc EXCEPT ![t] = "swing"] /\ pc'[t] = "swing"
      /\ \A u \in Threads \ {t} : pc'[u] = pc[u]
      /\ head' = head /\ tails' = tails /\ wait' = wait /\ mine' = mine
      /\ onto' = onto /\ succ' = succ /\ new' = new /\ view' = view /\ rview' = rview
      /\ mem'[m] = "used" /\ \A n \in Nodes \ {m} : mem'[n] = mem[n]
      /\ next'[onto[t]] = m /\ \A n \in Nodes \ {onto[t]} : next'[n] = next[n]
      /\ lview'[m] = Size /\ \A n \in Nodes \ {m} : lview'[n] = lview[n]
  BY <1>1, <1>2, <1>3 DEF Link, Goto, TypeInv
<1>5. Linked \in Seq(Nodes) /\ Size = Len(Linked) /\ Size \in Nat /\ Size >= 1
  BY <1>1 DEF LinkedFacts, Size
<1>6. /\ \A i \in 1 .. Size : Linked'[i] = Linked[i] /\ Linked[i] \in Nodes
      /\ Linked'[Size + 1] = m
  BY <1>1, <1>3, <1>5 DEF LinkedFacts
<1>7. ~Kept(m) /\ m # onto[t] /\ \A u \in Threads : ~Safe(u, m)
  BY <1>2, <1>3 DEF Kept, Safe
<1>8. /\ \A n \in Nodes : n # m /\ Occurs(Linked, n) => Occurs(Linked', n) /\ Place(n)' = Place(n)
      /\ Occurs(Linked', m) /\ Place(m)' = Size + 1
  <2>1. /\ \A n \in Nodes \ {m} : Occurs(Linked, n) =>
             Occurs(Append(Linked, m), n) /\ Pos(Append(Linked, m), n) = Pos(Linked, n)
        /\ Occurs(Append(Linked, m), m) /\ Pos(Append(Linked, m), m) = Len(Linked) + 1
    BY <1>3, <1>5, AppendPos
  <2> QED  BY <1>3, <1>5, <2>1 DEF Place
<1>9. ASSUME NEW i \in 1 .. Size, Distinct(Linked, i), \A j \in i .. Size : Linked[j] # m
      PROVE  Distinct(Linked', i)
  <2>1. i \in 1 .. Len(Linked) + 1 /\ \A j \in i .. Len(Linked) : Linked[j] # m
    BY <1>5, <1>9
  <2> QED  BY <1>3, <1>5, <1>9, <2>1, AppendDistinct
<1>10. NodesOK'
  <2>1. \A n \in Nodes : n # m => (Kept(n)' <=> Kept(n))
    BY <1>4 DEF Kept
  <2>2. ASSUME NEW n \in Nodes, Kept(n)', n # m
        PROVE  Occurs(Linked', n) /\ next'[n] = After(Linked', Place(n)') /\ lview'[n] >= Place(n)' - 1
    <3>1. /\ Kept(n) /\ Occurs(Linked, n) /\ next[n] = After(Linked, Place(n)) /\ lview[n] >= Place(n) - 1
          /\ Place(n)' = Place(n) /\ Occurs(Linked', n)
      BY <1>1, <1>8, <2>1, <2>2 DEF NodesOK
    <3>2. Place(n) \in 1 .. Size /\ Linked[Place(n)] = n
      BY <1>1, <3>1, PlaceOf
    <3>3. CASE n = onto[t]
      <4>1. After(Linked', Size) = m
        BY <1>3, <1>5, <1>6 DEF After, Size
      <4> QED  BY <1>3, <1>4, <1>7, <3>1, <3>3, <4>1
    <3>4. CASE n # onto[t]
      <4>1. Place(n) < Size
        BY <1>2, <1>3, <1>5, <3>2, <3>4
      <4>2. After(Linked', Place(n)) = After(Linked, Place(n))
        <5>1. Place(n) + 1 \in 1 .. Size /\ Place(n) < Size + 1
          BY <1>5, <3>2, <4>1
        <5>2. Len(Linked') = Size + 1 /\ Len(Linked) = Size
          BY <1>3 DEF Size
        <5> QED  BY <1>6, <4>1, <5>1, <5>2 DEF After
      <4> QED  BY <1>4, <2>2, <3>1, <3>4, <4>2
    <3> QED  BY <3>3, <3>4
  <2>3. Occurs(Linked', m) /\ next'[m] = After(Linked', Place(m)') /\ lview'[m] >= Place(m)' - 1
    <3>1. After(Linked', Size + 1) = Null
      BY <1>3, <1>5 DEF After, Size
    <3>2. next'[m] = Null
      BY <1>1, <1>3, <1>4, <1>7 DEF NodesOK
    <3> QED  BY <1>4, <1>5, <1>8, <3>1, <3>2
  <2>4. ASSUME NEW n \in Nodes, ~Kept(n)'
        PROVE  next'[n] = Null
    <3>1. n # m /\ ~Kept(n)
      BY <1>4, <2>1, <2>4 DEF Kept
    <3> QED  BY <1>1, <1>2, <1>4, <3>1 DEF NodesOK
  <2>5. \A n \in Nodes : Kept(n)' =>
          Occurs(Linked', n) /\ next'[n] = After(Linked', Place(n)') /\ lview'[n] >= Place(n)' - 1
    BY <2>2, <2>3
  <2> QED  BY <2>4, <2>5 DEF NodesOK
<1>11. Start \in 1 .. Size /\ Start' = Start /\ Linked[Start] = head /\ head # m
  <2>1. Start \in 1 .. Size /\ Linked[Start] = head /\ Occurs(Linked, head) /\ head \in Nodes
    BY <1>1, PlaceOf DEF FrontOK, Start
  <2>2. mem[Linked[Start]] = "used"
    BY <1>1, <2>1 DEF FrontOK
  <2>3. head # m
    BY <1>3, <2>1, <2>2
  <2> QED  BY <1>4, <1>8, <2>1, <2>3 DEF Start
<1>12. FrontOK'
  <2>1. \A i \in Start .. Size : Linked[i] # m /\ mem[Linked[i]] = "used"
    BY <1>1, <1>3 DEF FrontOK
  <2>2. Distinct(Linked', Start)
    BY <1>1, <1>9, <1>11, <2>1 DEF FrontOK
  <2>3. ASSUME NEW i \in Start .. Size + 1
        PROVE  mem'[Linked'[i]] = "used"
    <3>1. CASE i = Size + 1
      BY <1>4, <1>6, <3>1
    <3>2. CASE i # Size + 1
      <4>1. i \in Start .. Size /\ i \in 1 .. Size
        BY <1>5, <1>11, <2>3, <3>2
      <4> QED  BY <1>4, <1>6, <2>1, <4>1
    <3> QED  BY <3>1, <3>2
  <2>4. ASSUME NEW n \in Nodes, mem'[n] = "used", Place(n)' < Start
        PROVE  \E u \in Threads : Taken(u)' /\ onto[u] = n
    <3>1. n # m
      BY <1>5, <1>8, <1>11, <2>4
    <3>2. mem[n] = "used"
      BY <1>4, <2>4, <3>1
    <3>3. Occurs(Linked, n)
      BY <1>1, <3>2 DEF NodesOK, Kept
    <3>4. Place(n) < Start
      BY <1>8, <2>4, <3>1, <3>3
    <3>5. PICK u \in Threads : Taken(u) /\ onto[u] = n
      BY <1>1, <3>2, <3>4 DEF FrontOK
    <3>6. u # t
      BY <1>2, <3>5 DEF Taken
    <3> QED  BY <1>4, <3>5, <3>6 DEF Taken
  <2>5. Occurs(Linked', head)
    <3>1. Occurs(Linked, head) /\ head \in Nodes
      BY <1>1, PlaceOf DEF FrontOK
    <3> QED  BY <1>8, <1>11, <3>1
  <2> QED  BY <1>3, <1>4, <1>11, <2>2, <2>3, <2>4, <2>5 DEF FrontOK
<1>13. \A u \in Threads : \A n \in Nodes : Safe(u, n) => Safe(u, n)'
  BY <1>4, <1>7 DEF Safe
<1>14. ASSUME NEW u \in Threads, NEW i \in 1 .. Size, Distinct(Linked, i),
              \A j \in i .. Size : Safe(u, Linked[j])
       PROVE  Distinct(Linked', i) /\ \A j \in i .. Size + 1 : Safe(u, Linked[j])'
  <2>1. \A j \in i .. Size : Linked[j] # m
    BY <1>7, <1>14
  <2>2. Distinct(Linked', i)
    BY <1>9, <1>14, <2>1
  <2>3. ASSUME NEW j \in i .. Size + 1 PROVE Safe(u, Linked[j])'
    <3>1. CASE j = Size + 1
      BY <1>4, <1>6, <3>1 DEF Safe
    <3>2. CASE j # Size + 1
      <4>1. j \in i .. Size /\ j \in 1 .. Size
        BY <1>5, <2>3, <3>2
      <4>2. Linked[j] \in Nodes /\ Safe(u, Linked[j]) /\ Linked'[j] = Linked[j]
        BY <1>6, <1>14, <4>1
      <4>3. mem'[Linked[j]] = mem[Linked[j]]
        BY <1>4, <2>1, <4>1, <4>2
      <4> QED  BY <1>4, <4>2, <4>3 DEF Safe
    <3> QED  BY <3>1, <3>2
  <2> QED  BY <2>2, <2>3
<1>15. \A u \in Threads : view[u] \in 1 .. Size
  BY <1>1, <1>3 DEF TypeInv
<1>16. ViewsOK'
  <2>1. ASSUME NEW u \in Active'
        PROVE  Distinct(Linked', view[u]) /\ \A j \in view[u] .. Size + 1 : Safe(u, Linked[j])'
    <3>1. u \in Active /\ u \in Threads
      BY <1>2, <1>4, <2>1 DEF Active
    <3> QED  BY <1>1, <1>14, <1>15, <3>1 DEF ViewsOK
  <2>2. rview \in 1 .. Size
    BY <1>1, <1>3 DEF TypeInv
  <2>3. Distinct(Linked', rview)
    <3>1. \A j \in rview .. Size : Linked[j] # m
      BY <1>1, <1>3 DEF ViewsOK
    <3> QED  BY <1>1, <1>9, <2>2, <3>1 DEF ViewsOK
  <2>4. ASSUME NEW i \in rview .. Size + 1
        PROVE  mem'[Linked'[i]] \in {"used", "deferred"}
    <3>1. CASE i = Size + 1
      BY <1>4, <1>6, <3>1
    <3>2. CASE i # Size + 1
      <4>1. i \in rview .. Size /\ i \in 1 .. Size
        BY <1>5, <2>2, <2>4, <3>2
      <4>2. mem[Linked[i]] \in {"used", "deferred"} /\ Linked[i] # m
        BY <1>1, <1>3, <4>1 DEF ViewsOK
      <4> QED  BY <1>4, <1>6, <4>1, <4>2
    <3> QED  BY <3>1, <3>2
  <2>5. ASSUME NEW u \in Threads, NEW i \in view[u] .. Size + 1
        PROVE  Linked'[i] \notin mine[u]
    <3>1. CASE i = Size + 1
      BY <1>3, <1>6, <3>1 DEF QInv, LocalOK, MineOK
    <3>2. CASE i # Size + 1
      <4>1. i \in view[u] .. Size /\ i \in 1 .. Size
        BY <1>5, <1>15, <2>5, <3>2
      <4> QED  BY <1>1, <1>6, <4>1 DEF ViewsOK
    <3> QED  BY <3>1, <3>2
  <2> QED  BY <1>3, <1>4, <2>1, <2>3, <2>4, <2>5 DEF ViewsOK
<1>17. ASSUME NEW u \in Threads, pc[u] \in Holding
       PROVE  /\ LoadedAt(u) /\ onto[u] \in Nodes /\ onto[u] # m
              /\ Place(onto[u]) \in 1 .. Size /\ Place(onto[u])' = Place(onto[u])
              /\ Occurs(Linked', onto[u]) /\ Linked[Place(onto[u])] = onto[u]
  <2>1. LoadedAt(u) /\ onto[u] \in Nodes /\ Kept(onto[u]) /\ Place(onto[u]) \in 1 .. Size
        /\ Linked[Place(onto[u])] = onto[u]
    BY <1>17, Loaded
  <2>2. onto[u] # m /\ Occurs(Linked, onto[u])
    BY <1>7, <2>1 DEF LoadedAt
  <2>3. Occurs(Linked', onto[u]) /\ Pos(Linked', onto[u]) = Pos(Linked, onto[u])
    BY <1>3, <1>5, <2>1, <2>2, AppendPos
  <2> QED  BY <1>4, <2>1, <2>2, <2>3 DEF Place
<1>18. LoadedOK'
  <2>1. ASSUME NEW u \in Threads, pc'[u] \in Holding
        PROVE  LoadedAt(u)'
    <3> DEFINE p == Place(onto[u])
    <3>1. pc[u] \in Holding /\ (u = t \/ pc'[u] = pc[u])
      BY <1>2, <1>4, <2>1
    <3>2. /\ LoadedAt(u) /\ p \in 1 .. Size /\ Place(onto[u])' = p
          /\ Occurs(Linked', onto[u])
      BY <1>17, <3>1
    <3>3. Distinct(Linked', p) /\ \A j \in p .. Size + 1 : Safe(u, Linked[j])'
      BY <1>14, <3>2 DEF LoadedAt
    <3>4. p < Size => Linked'[p + 1] = Linked[p + 1]
      BY <1>5, <1>6, <3>2
    <3>5. p < Size => p < Size + 1
      BY <1>5, <3>2
    <3>6. pc'[u] \in Ahead => p < Size + 1 /\ Linked'[p + 1] = succ[u]
      BY <1>4, <3>1, <3>2, <3>4, <3>5 DEF LoadedAt, Ahead, Taking
    <3>7. pc'[u] = "swing" => p < Size + 1 /\ Linked'[p + 1] = new[u]
      <4>1. CASE u = t
        BY <1>3, <1>5, <1>6, <4>1 
      <4>2. CASE u # t
        BY <1>4, <3>2, <3>4, <3>5, <4>2 DEF LoadedAt
      <4> QED  BY <4>1, <4>2
    <3>8. pc'[u] \in Ahead \cup {"push_next", "link", "swing"} => p <= view[u]
      BY <1>2, <1>4, <3>1, <3>2 DEF LoadedAt
    <3>9. pc'[u] \in Popping => p <= Start
      BY <1>4, <3>1, <3>2 DEF LoadedAt, Popping
    <3> HIDE DEF p
    <3> QED  BY <1>3, <1>4, <1>11, <3>2, <3>3, <3>6, <3>7, <3>8, <3>9 DEF LoadedAt
  <2> QED  BY <2>1 DEF LoadedOK
<1>19. TakenOK'
  <2>1. \A u \in Threads : Taken(u)' => Taken(u) /\ u # t /\ pc'[u] = pc[u] /\ pc[u] \in Holding
    BY <1>2, <1>4 DEF Taken, Holding, Taking
  <2>2. ASSUME NEW u \in Threads, Taken(u)'
        PROVE  Place(onto[u])' < Start /\ mem'[onto[u]] = "used"
    <3>1. Taken(u) /\ pc[u] \in Holding /\ Place(onto[u]) < Start /\ mem[onto[u]] = "used"
      BY <1>1, <2>1, <2>2 DEF TakenOK
    <3>2. Place(onto[u])' = Place(onto[u]) /\ onto[u] # m /\ onto[u] \in Nodes
      BY <1>17, <3>1
    <3> QED  BY <1>4, <3>1, <3>2
  <2>3. \A u, w \in Threads : Taken(u)' /\ Taken(w)' /\ onto[u] = onto[w] => u = w
    BY <1>1, <2>1 DEF TakenOK
  <2>4. ASSUME NEW u \in Threads, pc'[u] = "retire", NEW i \in view[u] .. Size + 1
        PROVE  Linked'[i] # onto[u]
    <3>1. pc[u] = "retire" /\ pc[u] \in Holding
      BY <2>1, <2>4 DEF Taken
    <3>2. CASE i = Size + 1
      BY <1>6, <1>17, <3>1, <3>2
    <3>3. CASE i # Size + 1
      <4>1. i \in view[u] .. Size /\ i \in 1 .. Size
        BY <1>5, <1>15, <2>4, <3>3
      <4> QED  BY <1>1, <1>6, <3>1, <4>1 DEF TakenOK
    <3> QED  BY <3>2, <3>3
  <2> QED  BY <1>3, <1>4, <1>11, <2>2, <2>3, <2>4 DEF TakenOK
<1> QED  BY <1>10, <1>12, <1>16, <1>18, <1>19 DEF ListOK

-------------------------------------------------------------------------------
(* The invariant. *)

LEMMA LocalStep ==
  ASSUME QInv, head # Null, Next
  PROVE  LocalOK'
BY TypeStep, RegistersStep, DroppedStep, NewStep, MineStep DEF LocalOK

LEMMA ListStep ==
  ASSUME QInv, head # Null, Next, ~DropQueue
  PROVE  ListOK'
<1>1. TypeInv'
  BY TypeStep
<1>2. ASSUME NEW t \in Threads, Pin(t) \/ Unpin(t) \/ Seal(t) \/ PushStart(t)
      PROVE  ListOK'
  BY <1>1, <1>2, PinStep, UnpinStep, SealStep, PushStartStep
<1>3. ASSUME NEW t \in Threads, PushTail(t) \/ PushNext(t) \/ Help(t) \/ Link(t) \/ Swing(t)
      PROVE  ListOK'
  BY <1>1, <1>3, PushTailStep, PushNextStep, HelpSwingStep, LinkFailedStep, LinkedStep
<1>4. ASSUME NEW t \in Threads, PopHead(t) \/ PopNext(t) \/ PopNone(t) \/ Take(t) \/ Lose(t)
      PROVE  ListOK'
  BY <1>1, <1>4, PopHeadStep, PopNextStep, PopNoneLoseStep, TakeStep
<1>5. ASSUME NEW t \in Threads, PopTail(t) \/ PopAdvance(t) \/ Retire(t)
      PROVE  ListOK'
  BY <1>1, <1>5, PopTailStep, PopAdvanceStep, RetireStep
<1>6. ASSUME NEW n \in Nodes, Free(n)
      PROVE  ListOK'
  BY <1>1, <1>6, FreeStep
<1> QED  BY <1>2, <1>3, <1>4, <1>5, <1>6 DEF Next, Call

\* After the drop of the queue only memory is freed.
LEMMA GoneStep ==
  ASSUME QInv, head = Null, Next
  PROVE  LocalOK' /\ head' = Null
<1>1. TypeInv /\ RegistersOK /\ DroppedOK /\ NewOK /\ MineOK /\ LinkedFacts
  BY LinkedLemma DEF QInv, LocalOK
<1>2. (\E n \in Nodes : Free(n)) \/ \E t \in Threads : Seal(t) \/ Unpin(t) \/ PushStart(t) \/ Call(t)
  BY DEF Next, Pin, DropQueue
<1>3. \A t \in Threads : ~Seal(t) /\ ~Unpin(t) /\ ~PushStart(t) /\ ~Call(t)
  BY <1>1 DEF DroppedOK, Seal, Unpin, PushStart, Call, PushTail, PushNext, Help, Link, Swing,
     PopHead, PopNext, PopNone, Take, Lose, PopTail, PopAdvance, Retire
<1>4. PICK n \in Nodes : Free(n)
  BY <1>2, <1>3
<1>5. TypeInv'
  BY <1>1, <1>4 DEF TypeInv, LinkedFacts, Free, local
<1>6. RegistersOK' /\ NewOK' /\ head' = Null
  BY <1>1, <1>4 DEF RegistersOK, DroppedOK, NewOK, Free, local, Pushing
<1>8. DroppedOK'
  BY <1>1, <1>4 DEF DroppedOK, Free, TypeInv, LinkedFacts
<1>7. MineOK'
  BY <1>1, <1>4 DEF Free, MineOK, TypeInv
<1> QED  BY <1>5, <1>6, <1>7, <1>8 DEF LocalOK

LEMMA InitQueue == Init => QInv
<1> SUFFICES ASSUME Init PROVE QInv
  OBVIOUS
<1>1. head \in Nodes /\ head # Null /\ Null \notin Nodes
  BY NodesAssumption, NullAssumption DEF Init
<1>2. /\ tails = <<head>> /\ Len(tails) = 1 /\ tails[1] = head /\ tails \in Seq(Nodes) /\ Last(tails) = head
      /\ next = [n \in Nodes |-> Null] /\ mem = [n \in Nodes |-> IF n = head THEN "used" ELSE "free"]
      /\ pc = [t \in Threads |-> "out"] /\ mine = [t \in Threads |-> {}]
      /\ view = [t \in Threads |-> 1] /\ lview = [n \in Nodes |-> 1] /\ rview = 1 /\ hview = 1
      /\ onto = [t \in Threads |-> Null] /\ succ = onto /\ new = onto
  BY <1>1 DEF Init, Last
<1>3. TypeInv
  BY <1>1, <1>2 DEF Init, TypeInv, Points
<1>4. RegistersOK /\ DroppedOK /\ NewOK /\ MineOK
  BY <1>1, <1>2 DEF RegistersOK, DroppedOK, NewOK, MineOK, Holding, Ahead, Pushing, Popping, Taking
<1>5. Linked = <<head>> /\ Size = 1 /\ Linked[1] = head
  BY <1>1, <1>2 DEF Linked, Size
<1>6. Occurs(Linked, head) /\ Place(head) = 1 /\ Start = 1
  <2>1. At(Linked, head, 1)
    BY <1>5 DEF At, Size
  <2>2. Linked \in Seq(Nodes)
    BY <1>1, <1>5
  <2>3. Pos(Linked, head) = 1
    BY <2>1, <2>2, PosAt
  <2> QED  BY <1>5, <2>3 DEF Occurs, Place, Start, Size
<1>7. Distinct(Linked, 1) /\ \A i \in 1 .. Size : i = 1
  BY <1>5 DEF Distinct, Size
<1>8. NodesOK
  BY <1>2, <1>5, <1>6 DEF NodesOK, Kept, After, Size
<1>9. FrontOK
  BY <1>1, <1>2, <1>5, <1>6, <1>7 DEF FrontOK, Taken
<1>10. ViewsOK
  BY <1>1, <1>2, <1>5, <1>7 DEF ViewsOK, Active
<1>11. LoadedOK /\ TakenOK
  BY <1>2 DEF LoadedOK, TakenOK, Taken, Holding, Popping, Taking
<1> QED  BY <1>3, <1>4, <1>8, <1>9, <1>10, <1>11 DEF QInv, LocalOK, ListOK

LEMMA NextQueue == QInv /\ [Next]_vars => QInv'
<1> SUFFICES ASSUME QInv, [Next]_vars PROVE QInv'
  OBVIOUS
<1>1. CASE Next /\ head # Null
  <2>1. LocalOK'
    BY <1>1, LocalStep
  <2>2. CASE DropQueue
    BY <2>1, <2>2 DEF DropQueue, QInv
  <2>3. CASE ~DropQueue
    BY <1>1, <2>1, <2>3, ListStep DEF QInv
  <2> QED  BY <2>2, <2>3
<1>2. CASE Next /\ head = Null
  BY <1>2, GoneStep DEF QInv
<1>3. CASE UNCHANGED vars
  <2>1. /\ head' = head /\ next' = next /\ data' = data /\ tails' = tails /\ mem' = mem
        /\ wait' = wait /\ mine' = mine /\ pc' = pc /\ onto' = onto /\ succ' = succ
        /\ new' = new /\ pushed' = pushed /\ view' = view /\ hview' = hview
        /\ lview' = lview /\ rview' = rview
    BY <1>3 DEF vars, queue, memory, local, views
  <2>2. LocalOK'
    BY <2>1 DEF QInv, LocalOK, TypeInv, RegistersOK, DroppedOK, NewOK, MineOK
  <2>3. Linked' = Linked
    BY <2>1 DEF Linked
  <2>4. head # Null => ListOK'
    BY <2>1, <2>3 DEF QInv, ListOK, NodesOK, FrontOK, ViewsOK, LoadedOK, LoadedAt, TakenOK,
       Taken, Kept, Safe, Active, Place, Size, Start
  <2> QED  BY <2>1, <2>2, <2>4 DEF QInv
<1> QED  BY <1>1, <1>2, <1>3

\* The invariant holds in every state of every behaviour.
THEOREM QueueInvariant == Spec => []QInv
BY InitQueue, NextQueue, PTL DEF Spec

-------------------------------------------------------------------------------
(* What can be reached from head. *)

Part(j) == [x \in 1 .. j - Start + 1 |-> Linked[Start + x - 1]]
\* How far From gets in k steps.
Upto(k) == IF Start + k < Size THEN Start + k ELSE Size

\* No node is linked twice from head on, so there are no more than there are nodes.
LEMMA FewNodes ==
  ASSUME QInv, head # Null
  PROVE  Cardinality(Nodes) \in Nat /\ Size - Start + 1 <= Cardinality(Nodes) /\ Start \in 1 .. Size
<1>1. LinkedFacts /\ FrontOK /\ Start \in 1 .. Size /\ Size \in Nat
  BY LinkedLemma, PlaceOf DEF QInv, LocalOK, ListOK, FrontOK, Start, LinkedFacts
<1> DEFINE f == [i \in Start .. Size |-> Linked[i]]
<1>2. f \in Injection(Start .. Size, Nodes)
  <2>1. f \in [Start .. Size -> Nodes]
    BY <1>1 DEF LinkedFacts
  <2>2. \A i, j \in Start .. Size : f[i] = f[j] => i = j
    BY <1>1 DEF FrontOK, Distinct, Size
  <2> QED  BY <2>1, <2>2 DEF Injection, IsInjective
<1>3. IsFiniteSet(Nodes)
  BY NodesAssumption
<1>4. Cardinality(Start .. Size) <= Cardinality(Nodes)
  BY <1>2, <1>3, FS_Injection
<1>5. Cardinality(Start .. Size) = Size - Start + 1
  BY <1>1, FS_Interval
<1>6. Cardinality(Nodes) \in Nat
  BY <1>3, FS_CardinalityType
<1> QED  BY <1>1, <1>4, <1>5, <1>6

LEMMA SeqIs ==
  ASSUME NEW s \in Seq(Nodes), NEW k \in Nat, Len(s) = k
  PROVE  s \in [1 .. k -> Nodes]
OBVIOUS

LEMMA AppendIs ==
  ASSUME NEW s \in Seq(Nodes), NEW n \in Nodes, NEW k \in Nat, Len(s) = k
  PROVE  /\ DOMAIN Append(s, n) = 1 .. k + 1 /\ Append(s, n) \in [1 .. k + 1 -> Nodes]
         /\ Append(s, n)[k + 1] = n /\ \A x \in 1 .. k : Append(s, n)[x] = s[x]
<1>1. Append(s, n) \in Seq(Nodes) /\ Len(Append(s, n)) = k + 1
  OBVIOUS
<1>2. Append(s, n)[k + 1] = n /\ \A x \in 1 .. k : Append(s, n)[x] = s[x]
  OBVIOUS
<1>3. Append(s, n) \in [1 .. k + 1 -> Nodes]
  <2>1. k + 1 \in Nat
    OBVIOUS
  <2> QED  BY ONLY <1>1, <2>1, SeqIs
<1> QED  BY <1>2, <1>3

LEMMA PartFacts ==
  ASSUME QInv, head # Null, NEW j \in Start .. Size
  PROVE  /\ Part(j) \in Seq(Nodes) /\ Len(Part(j)) = j - Start + 1 /\ Last(Part(j)) = Linked[j]
         /\ next[Linked[j]] = Null <=> j = Size
         /\ j < Size => Append(Part(j), next[Linked[j]]) = Part(j + 1)
<1>1. LinkedFacts /\ FrontOK /\ NodesOK /\ Start \in 1 .. Size /\ Size \in Nat /\ TypeInv
  BY LinkedLemma, PlaceOf DEF QInv, LocalOK, ListOK, FrontOK, Start, LinkedFacts
<1>2. j \in 1 .. Size /\ j \in Nat /\ Start \in Nat
  BY <1>1
<1>3. \A x \in 1 .. j - Start + 1 : Start + x - 1 \in 1 .. Size /\ Linked[Start + x - 1] \in Nodes
  BY <1>1, <1>2 DEF LinkedFacts
<1>4. Part(j) \in [1 .. j - Start + 1 -> Nodes]
  BY <1>3 DEF Part
<1>5. Part(j) \in Seq(Nodes) /\ Len(Part(j)) = j - Start + 1
  BY <1>2, <1>4
<1>6. Last(Part(j)) = Linked[j]
  <2>1. j - Start + 1 \in 1 .. j - Start + 1 /\ Start + (j - Start + 1) - 1 = j
    BY <1>1, <1>2
  <2>2. Part(j)[j - Start + 1] = Linked[j]
    BY <2>1 DEF Part
  <2> QED  BY <1>5, <2>2 DEF Last
<1>7. next[Linked[j]] = After(Linked, j)
  <2>1. Place(Linked[j]) = j /\ Linked[j] \in Nodes
    BY <1>1, PlaceIs DEF FrontOK
  <2>2. mem[Linked[j]] = "used"
    BY <1>1 DEF FrontOK
  <2> QED  BY <1>1, <2>1, <2>2 DEF NodesOK, Kept
<1>8. next[Linked[j]] = Null <=> j = Size
  <2>1. CASE j = Size
    BY <1>7, <2>1 DEF After, Size
  <2>2. CASE j < Size
    <3>1. Linked[j + 1] \in Nodes /\ After(Linked, j) = Linked[j + 1]
      BY <1>1, <1>2, <2>2 DEF After, Size, LinkedFacts
    <3> QED  BY <1>7, <2>2, <3>1, NullAssumption
  <2> QED  BY <1>1, <1>2, <2>1, <2>2
<1>9. ASSUME j < Size PROVE Append(Part(j), next[Linked[j]]) = Part(j + 1)
  <2>1. next[Linked[j]] = Linked[j + 1]
    BY <1>1, <1>2, <1>7, <1>9 DEF After, Size
  <2> DEFINE a == Append(Part(j), Linked[j + 1])
             b == Part(j + 1)
             k == j - Start + 1
  <2>2. Linked[j + 1] \in Nodes /\ k \in Nat
    BY <1>1, <1>2, <1>9 DEF LinkedFacts
  <2>3. DOMAIN a = 1 .. k + 1 /\ a \in [1 .. k + 1 -> Nodes] /\ a[k + 1] = Linked[j + 1]
        /\ \A x \in 1 .. k : a[x] = Part(j)[x]
    <3>1. Part(j) \in Seq(Nodes) /\ Len(Part(j)) = k
      BY <1>5
    <3> HIDE DEF k
    <3> QED  BY <2>2, <3>1, AppendIs
  <2>4. 1 .. (j + 1) - Start + 1 = 1 .. k + 1
    BY <1>1, <1>2
  <2>5. b = [x \in 1 .. k + 1 |-> Linked[Start + x - 1]]
    BY <2>4 DEF Part
  <2>6. \A x \in 1 .. k + 1 : a[x] = b[x]
    <3>1. \A x \in 1 .. k : a[x] = Linked[Start + x - 1]
      BY <2>3 DEF Part
    <3>2. Start + (k + 1) - 1 = j + 1
      BY <1>1, <1>2
    <3>3. \A x \in 1 .. k + 1 : x = k + 1 \/ x \in 1 .. k
      BY <2>2
    <3> HIDE DEF a, b, k
    <3>4. k + 1 \in 1 .. k + 1 /\ \A x \in 1 .. k : x \in 1 .. k + 1
      BY <2>2
    <3>5. \A x \in 1 .. k : b[x] = Linked[Start + x - 1]
      BY <2>5, <3>4
    <3>6. b[k + 1] = Linked[j + 1]
      BY <2>5, <3>2, <3>4
    <3> QED  BY <2>3, <3>1, <3>3, <3>5, <3>6
  <2>7. a = [x \in 1 .. k + 1 |-> a[x]]
    BY <2>3
  <2> HIDE DEF a, b, k
  <2>8. a = b
    BY <2>5, <2>6, <2>7
  <2> QED  BY <2>1, <2>8 DEF a, b
<1> QED  BY <1>5, <1>6, <1>8, <1>9

LEMMA FromIs ==
  ASSUME QInv, head # Null
  PROVE  \A k \in Nat : From[k] = Part(Upto(k))
<1>1. Start \in 1 .. Size /\ Size \in Nat /\ Linked[Start] = head
  BY FewNodes, LinkedLemma, PlaceOf DEF QInv, LocalOK, ListOK, FrontOK, Start, LinkedFacts
<1> DEFINE Body(f, k) ==
      IF k = 0 THEN <<head>>
      ELSE LET Nearer == f[k - 1]
           IN  IF next[Last(Nearer)] = Null THEN Nearer ELSE Append(Nearer, next[Last(Nearer)])
           G == [k \in Nat |-> Part(Upto(k))]
<1>2. Part(Upto(0)) = <<head>>
  <2>1. Upto(0) = Start
    BY <1>1 DEF Upto
  <2>2. Part(Start) = [x \in 1 .. 1 |-> head]
    <3>1. Start - Start + 1 = 1 /\ \A x \in 1 .. 1 : Start + x - 1 = Start
      BY <1>1
    <3> QED  BY <1>1, <3>1 DEF Part
  <2>3. [x \in 1 .. 1 |-> head] = <<head>>
    OBVIOUS
  <2> QED  BY <2>1, <2>2, <2>3
<1>3. ASSUME NEW k \in Nat, k # 0 PROVE Part(Upto(k)) = Body(G, k)
  <2> DEFINE j == Upto(k - 1)
  <2>1. k - 1 \in Nat /\ G[k - 1] = Part(j)
    BY <1>3
  <2>2. j \in Start .. Size /\ Upto(k) = (IF j < Size THEN j + 1 ELSE j) /\ Size \in Nat
    BY <1>1, <1>3 DEF Upto
  <2> HIDE DEF j
  <2>3. /\ Last(Part(j)) = Linked[j]
        /\ next[Linked[j]] = Null <=> j = Size
        /\ j < Size => Append(Part(j), next[Linked[j]]) = Part(j + 1)
    BY <2>2, PartFacts
  <2>4. CASE j = Size
    BY <1>3, <2>1, <2>2, <2>3, <2>4
  <2>5. CASE j < Size
    <3>1. next[Last(G[k - 1])] # Null /\ Append(G[k - 1], next[Last(G[k - 1])]) = Part(j + 1)
      BY <2>1, <2>2, <2>3, <2>5
    <3>2. Upto(k) = j + 1
      BY <2>2, <2>5
    <3> HIDE DEF G
    <3> QED  BY <1>3, <3>1, <3>2
  <2> QED  BY <1>1, <2>2, <2>4, <2>5
<1>4. G = [k \in Nat |-> Body(G, k)]
  <2>1. \A k \in Nat : G[k] = Body(G, k)
    BY <1>2, <1>3
  <2> QED  BY <2>1
<1>5. From = [k \in Nat |-> Body(From, k)]
  <2>1. From = CHOOSE f : f = [k \in Nat |-> Body(f, k)]
    BY DEF From
  <2>2. \E f : f = [k \in Nat |-> Body(f, k)]
    BY <1>4
  <2> HIDE DEF Body
  <2> QED  BY <2>1, <2>2
<1> DEFINE S == {k \in Nat : From[k] = Part(Upto(k))}
<1>6. 0 \in S
  BY <1>2, <1>5
<1>7. ASSUME NEW k \in Nat, k \in S PROVE k + 1 \in S
  <2>1. k + 1 \in Nat /\ k + 1 # 0 /\ (k + 1) - 1 = k
    OBVIOUS
  <2>2. From[k + 1] = Body(From, k + 1)
    BY <1>5, <2>1
  <2>3. From[k] = G[k]
    BY <1>7
  <2>4. Body(From, k + 1) = Body(G, k + 1)
    BY <2>1, <2>3
  <2>5. Part(Upto(k + 1)) = Body(G, k + 1)
    BY <1>3, <2>1
  <2> QED  BY <2>1, <2>2, <2>4, <2>5
<1>8. Nat \subseteq S
  <2> HIDE DEF S
  <2> QED  BY <1>6, <1>7, Induction
<1> QED  BY <1>8

\* The chain is what was linked from head on.
ChainFacts ==
  /\ Chain \in Seq(Nodes) /\ Len(Chain) = Size - Start + 1 /\ Start \in 1 .. Size /\ Size \in Nat
  /\ \A i \in 1 .. Len(Chain) : Chain[i] = Linked[Start + i - 1]
  /\ \A n : n \in ToSet(Chain) <=> \E j \in Start .. Size : Linked[j] = n
LEMMA ChainLemma == QInv /\ head # Null => ChainFacts
<1> SUFFICES ASSUME QInv, head # Null PROVE ChainFacts
  OBVIOUS
<1>1. Cardinality(Nodes) \in Nat /\ Size - Start + 1 <= Cardinality(Nodes) /\ Start \in 1 .. Size /\ Size \in Nat
  BY FewNodes, LinkedLemma DEF QInv, LocalOK, LinkedFacts
<1>2. Upto(Cardinality(Nodes)) = Size
  BY <1>1 DEF Upto
<1>3. Chain = Part(Size)
  BY <1>1, <1>2, FromIs DEF Chain
<1>4. Chain \in Seq(Nodes) /\ Len(Chain) = Size - Start + 1
  BY <1>1, <1>3, PartFacts
<1>5. \A i \in 1 .. Len(Chain) : Chain[i] = Linked[Start + i - 1]
  BY <1>3, <1>4 DEF Part
<1>6. \A n : n \in ToSet(Chain) <=> \E i \in 1 .. Len(Chain) : Chain[i] = n
  BY <1>4 DEF ToSet
<1>7. ASSUME NEW n PROVE n \in ToSet(Chain) <=> \E j \in Start .. Size : Linked[j] = n
  <2>1. ASSUME NEW i \in 1 .. Len(Chain), Chain[i] = n PROVE \E j \in Start .. Size : Linked[j] = n
    <3>1. Start + i - 1 \in Start .. Size /\ Linked[Start + i - 1] = n
      BY <1>1, <1>4, <1>5, <2>1
    <3> QED  BY <3>1
  <2>2. ASSUME NEW j \in Start .. Size, Linked[j] = n PROVE \E i \in 1 .. Len(Chain) : Chain[i] = n
    <3>1. j - Start + 1 \in 1 .. Len(Chain) /\ Start + (j - Start + 1) - 1 = j
      BY <1>1, <1>4, <2>2
    <3>2. Chain[j - Start + 1] = n
      BY <1>5, <2>2, <3>1
    <3> QED  BY <3>1, <3>2
  <2> QED  BY <1>6, <2>1, <2>2
<1> QED  BY <1>1, <1>4, <1>5, <1>7 DEF ChainFacts

-------------------------------------------------------------------------------
(* Safety. *)

LEMMA NodesKept == QInv => NoUseAfterFree
<1> SUFFICES ASSUME QInv PROVE NoUseAfterFree
  OBVIOUS
<1>1. TypeInv /\ RegistersOK /\ DroppedOK
  BY DEF QInv, LocalOK
<1>2. head # Null => mem[Last(tails)] # "free"
  BY TailUsed
<1>3. ASSUME NEW t \in Threads, onto[t] # Null
      PROVE  mem[onto[t]] # "free"
  <2>1. pc[t] \in Holding /\ head # Null
    BY <1>1, <1>3 DEF RegistersOK, DroppedOK, Holding, Popping, Taking
  <2> QED  BY <2>1, Loaded DEF Kept
<1>4. ASSUME NEW t \in Threads, succ[t] # Null
      PROVE  mem[succ[t]] # "free"
  <2>1. pc[t] \in Ahead
    BY <1>1, <1>4 DEF RegistersOK
  <2>2. pc[t] \in Holding /\ head # Null
    BY <1>1, <2>1 DEF DroppedOK, Ahead, Holding, Popping, Taking
  <2>3. LoadedAt(t) /\ Place(onto[t]) \in 1 .. Size /\ Size \in Nat
    BY <2>2, Loaded DEF LinkedFacts
  <2>4. Place(onto[t]) < Size /\ Linked[Place(onto[t]) + 1] = succ[t]
    BY <2>1, <2>3 DEF LoadedAt
  <2>5. Place(onto[t]) + 1 \in Place(onto[t]) .. Size
    BY <2>3, <2>4
  <2>6. Safe(t, succ[t])
    BY <2>3, <2>4, <2>5 DEF LoadedAt
  <2> QED  BY <2>6 DEF Safe
<1> QED  BY <1>2, <1>3, <1>4 DEF NoUseAfterFree

\* No call touches a node that was freed.
THEOREM NodesSafe == Spec => []NoUseAfterFree
BY QueueInvariant, NodesKept, PTL

LEMMA RetiredGone == QInv => RetiredUnreachable
<1> SUFFICES ASSUME QInv, NEW n \in Nodes
             PROVE  /\ mem[n] \in {"deferred", "retired"} =>
                         n # Last(tails) /\ (head # Null => n \notin ToSet(Chain))
                    /\ mem[n] = "used" /\ head # Null =>
                         \/ n \in ToSet(Chain) /\ \A t \in Threads : Taken(t) => onto[t] # n
                         \/ n \notin ToSet(Chain) /\ \E t \in Threads : Taken(t) /\ onto[t] = n
  BY DEF RetiredUnreachable
<1>1. CASE head = Null
  BY <1>1 DEF QInv, LocalOK, DroppedOK
<1>2. CASE head # Null
  <2>1. TypeInv /\ MineOK /\ FrontOK /\ NodesOK /\ TakenOK /\ ChainFacts
    BY <1>2, ChainLemma DEF QInv, LocalOK, ListOK
  <2>2. \A m : m \in ToSet(Chain) <=> \E j \in Start .. Size : Linked[j] = m
    BY <2>1 DEF ChainFacts
  <2>3. n \in ToSet(Chain) => mem[n] = "used"
    BY <2>1, <2>2 DEF FrontOK
  <2>4. mem[n] \in {"deferred", "retired"} => n # Last(tails)
    BY <1>2, <2>1, TailUsed DEF MineOK
  <2>5. ASSUME mem[n] = "used"
        PROVE  \/ n \in ToSet(Chain) /\ \A t \in Threads : Taken(t) => onto[t] # n
               \/ n \notin ToSet(Chain) /\ \E t \in Threads : Taken(t) /\ onto[t] = n
    <3>1. /\ Place(n) \in 1 .. Size /\ Linked[Place(n)] = n
          /\ \A j \in Place(n) + 1 .. Size : Linked[j] # n
      BY <2>1, <2>5, PlaceOf DEF NodesOK, Kept
    <3>2. Start \in 1 .. Size /\ Size \in Nat
      BY <2>1 DEF ChainFacts
    <3>3. CASE Place(n) < Start
      <4>1. \A j \in Start .. Size : Linked[j] # n
        BY <3>1, <3>2, <3>3
      <4>2. \E t \in Threads : Taken(t) /\ onto[t] = n
        BY <2>1, <2>5, <3>3 DEF FrontOK
      <4> QED  BY <2>2, <4>1, <4>2
    <3>4. CASE ~(Place(n) < Start)
      <4>1. Place(n) \in Start .. Size
        BY <3>1, <3>2, <3>4
      <4>2. \A t \in Threads : Taken(t) => onto[t] # n
        BY <2>1, <3>4 DEF TakenOK
      <4> QED  BY <2>2, <3>1, <4>1, <4>2
    <3> QED  BY <3>3, <3>4
  <2> QED  BY <2>3, <2>4, <2>5
<1> QED  BY <1>1, <1>2

\* A node is retired only when neither head nor tail leads to it, by the thread
\* that took it.
THEOREM RetiredSafe == Spec => []RetiredUnreachable
BY QueueInvariant, RetiredGone, PTL

-------------------------------------------------------------------------------
(* The queue implements BagQueue. *)

Row(s, i, j, d) == [k \in 1 .. j - i |-> d[s[i + k]]]
RowOfBags == head # Null => Bags = Row(Linked, Start, Size, data)
LEMMA BagsLemma == QInv => RowOfBags
<1> SUFFICES ASSUME QInv, head # Null PROVE Bags = Row(Linked, Start, Size, data)
  BY DEF RowOfBags
<1>1. ChainFacts
  BY ChainLemma
<1>2. Len(Chain) - 1 = Size - Start
  BY <1>1 DEF ChainFacts
<1>3. \A k \in 1 .. Size - Start : Chain[k + 1] = Linked[Start + k]
  <2>1. ASSUME NEW k \in 1 .. Size - Start PROVE Chain[k + 1] = Linked[Start + k]
    <3>1. k + 1 \in 1 .. Len(Chain) /\ Start + (k + 1) - 1 = Start + k
      BY <1>1, <2>1 DEF ChainFacts
    <3> QED  BY <1>1, <3>1 DEF ChainFacts
  <2> QED  BY <2>1
<1> QED  BY <1>2, <1>3 DEF Bags, Row

LEMMA BagsNext == QInv' => RowOfBags'
BY BagsLemma, PTL

\* The bags stay what they are as long as the nodes and their data do.
LEMMA SameBags ==
  ASSUME QInv, QInv', head # Null, head' = head, Linked' = Linked,
         \A j \in Start + 1 .. Size : data'[Linked[j]] = data[Linked[j]]
  PROVE  Bags' = Bags
<1>1. Bags = Row(Linked, Start, Size, data)
  BY BagsLemma DEF RowOfBags
<1>2. Size' = Size /\ Start' = Start
  BY DEF Size, Start, Place
<1>3. Bags' = Row(Linked, Start, Size, data')
  BY <1>2, BagsNext DEF RowOfBags
<1>4. Start \in Nat /\ Size \in Nat
  BY FewNodes, LinkedLemma DEF QInv, LocalOK, LinkedFacts
<1>5. \A k \in 1 .. Size - Start : Start + k \in Start + 1 .. Size
  BY <1>4
<1> QED  BY <1>1, <1>3, <1>5 DEF Row

\* A thread keeps its call while it, and the data of its nodes, stay as they are.
LEMMA SameCall ==
  ASSUME NEW u \in Threads, pc'[u] = pc[u], new'[u] = new[u], succ'[u] = succ[u],
         pc[u] \in Pushing => data'[new[u]] = data[new[u]],
         Taken(u) => data'[succ[u]] = data[succ[u]]
  PROVE  CallOf(u)' = CallOf(u) /\ BagOf(u)' = BagOf(u)
<1>1. CallOf(u)' = CallOf(u) /\ (Taken(u)' <=> Taken(u))
  BY DEF CallOf, Taken, Plain
<1>2. CallOf(u) = "push" => pc[u] \in Pushing
  BY DEF CallOf, Taken, Plain, Pushing
<1> QED  BY <1>1, <1>2 DEF BagOf

\* The bags that calls hold are in nodes of their own.
LEMMA HeldBags ==
  ASSUME QInv, NEW t \in Threads
  PROVE  /\ pc[t] \in Pushing => new[t] \in Nodes /\ mem[new[t]] = "held"
         /\ Taken(t) => /\ succ[t] \in Nodes /\ Safe(t, succ[t]) /\ onto[t] \in Nodes
                        /\ head # Null /\ Start \in Nat /\ Size \in Nat
                        /\ Place(onto[t]) \in 1 .. Size /\ Place(onto[t]) < Start
                        /\ Place(onto[t]) < Size /\ succ[t] = Linked[Place(onto[t]) + 1]
                        /\ Distinct(Linked, Place(onto[t]))
<1>1. TypeInv /\ RegistersOK /\ NewOK /\ DroppedOK
  BY DEF QInv, LocalOK
<1>2. ASSUME Taken(t)
      PROVE  /\ succ[t] \in Nodes /\ Safe(t, succ[t]) /\ onto[t] \in Nodes
             /\ head # Null /\ Start \in Nat /\ Size \in Nat
             /\ Place(onto[t]) \in 1 .. Size /\ Place(onto[t]) < Start
             /\ Place(onto[t]) < Size /\ succ[t] = Linked[Place(onto[t]) + 1]
             /\ Distinct(Linked, Place(onto[t]))
  <2>1. pc[t] \in Holding /\ pc[t] \in Ahead /\ head # Null
    BY <1>1, <1>2 DEF Taken, Holding, Ahead, Taking, DroppedOK
  <2>2. LoadedAt(t) /\ onto[t] \in Nodes /\ Place(onto[t]) \in 1 .. Size /\ Size \in Nat
    BY <2>1, Loaded DEF LinkedFacts
  <2>3. Place(onto[t]) < Size /\ Linked[Place(onto[t]) + 1] = succ[t] /\ Distinct(Linked, Place(onto[t]))
    BY <2>1, <2>2 DEF LoadedAt
  <2>4. Place(onto[t]) + 1 \in Place(onto[t]) .. Size
    BY <2>2, <2>3
  <2>5. Safe(t, succ[t])
    BY <2>2, <2>3, <2>4 DEF LoadedAt
  <2>6. succ[t] \in Nodes
    BY <1>1, <2>1 DEF RegistersOK, TypeInv
  <2>7. Place(onto[t]) < Start /\ Start \in Nat
    BY <1>2, <2>1, FewNodes DEF QInv, ListOK, TakenOK
  <2> QED  BY <2>1, <2>2, <2>3, <2>5, <2>6, <2>7
<1>3. pc[t] \in Pushing => new[t] \in Nodes /\ mem[new[t]] = "held"
  BY <1>1 DEF RegistersOK, NewOK, TypeInv
<1> QED  BY <1>2, <1>3

Stutter == UNCHANGED Abstract!vars
LEMMA Stutters ==
  ASSUME Bags' = Bags, pushed' = pushed,
         \A u \in Threads : CallOf(u)' = CallOf(u) /\ BagOf(u)' = BagOf(u)
  PROVE  Stutter
BY DEF Stutter, Abstract!vars

\* What one thread does to its call, and no other.
Others(t) == \A u \in Threads \ {t} : CallOf(u)' = CallOf(u) /\ BagOf(u)' = BagOf(u)
LEMMA CallStep ==
  ASSUME NEW t \in Threads, Others(t)
  PROVE  /\ [u \in Threads |-> CallOf(u)]' = [[u \in Threads |-> CallOf(u)] EXCEPT ![t] = CallOf(t)']
         /\ [u \in Threads |-> BagOf(u)]' = [[u \in Threads |-> BagOf(u)] EXCEPT ![t] = BagOf(t)']
         /\ BagOf(t)' = BagOf(t) => [u \in Threads |-> BagOf(u)]' = [u \in Threads |-> BagOf(u)]
BY DEF Others

\* Most steps of a call are not seen from outside.
Quiet(t) ==
  /\ head' = head /\ data' = data /\ pushed' = pushed /\ new' = new /\ Linked' = Linked
  /\ \A u \in Threads \ {t} : pc'[u] = pc[u] /\ succ'[u] = succ[u]
  /\ CallOf(t)' = CallOf(t) /\ (Taken(t)' <=> Taken(t))
  /\ Taken(t) => succ'[t] = succ[t]
LEMMA QuietLemma ==
  ASSUME QInv, QInv', head # Null, NEW t \in Threads, Quiet(t)
  PROVE  Stutter
<1>1. Bags' = Bags
  BY SameBags DEF Quiet
<1>2. \A u \in Threads \ {t} : CallOf(u)' = CallOf(u) /\ BagOf(u)' = BagOf(u)
  BY SameCall DEF Quiet
<1>3. BagOf(t)' = BagOf(t)
  BY DEF Quiet, BagOf
<1> QED  BY <1>1, <1>2, <1>3, Stutters DEF Quiet

LEMMA QuietSteps ==
  ASSUME QInv, QInv', head # Null, NEW t \in Threads,
         \/ Pin(t) \/ Unpin(t) \/ Seal(t) \/ PushTail(t) \/ PushNext(t) \/ Help(t)
         \/ Link(t) /\ next[onto[t]] # Null
         \/ PopHead(t) /\ pc[t] # "in"
         \/ PopNext(t) \/ Lose(t) \/ PopTail(t) \/ PopAdvance(t)
  PROVE  Stutter
<1>1. TypeInv
  BY DEF QInv, LocalOK
<1>2. CASE Pin(t) \/ Unpin(t) \/ Seal(t)
  <2>1. Quiet(t)
    BY <1>1, <1>2 DEF Quiet, Pin, Unpin, Seal, Goto, queue, memory, local, Linked, TypeInv, CallOf, Plain, Taken
  <2> QED  BY <2>1, QuietLemma
<1>3. CASE PushTail(t)
  <2>1. Quiet(t)
    BY <1>1, <1>3 DEF Quiet, PushTail, Goto, queue, Linked, TypeInv, CallOf, Plain, Taken
  <2> QED  BY <2>1, QuietLemma
<1>4. CASE PushNext(t)
  <2>1. Quiet(t)
    BY <1>1, <1>4 DEF Quiet, PushNext, Goto, queue, Linked, TypeInv, CallOf, Plain, Taken
  <2> QED  BY <2>1, QuietLemma
<1>5. CASE Help(t)
  <2>1. Linked' = Linked
    BY <1>5, TailMoves
  <2>2. Quiet(t)
    BY <1>1, <1>5, <2>1 DEF Quiet, Help, Goto, TypeInv, CallOf, Plain, Taken
  <2> QED  BY <2>2, QuietLemma
<1>6. CASE Link(t) /\ next[onto[t]] # Null
  <2>1. Quiet(t)
    BY <1>1, <1>6 DEF Quiet, Link, Goto, Linked, TypeInv, CallOf, Plain, Taken
  <2> QED  BY <2>1, QuietLemma
<1>7. CASE PopHead(t) /\ pc[t] # "in"
  <2>1. Quiet(t)
    BY <1>1, <1>7 DEF Quiet, PopHead, Goto, queue, Linked, TypeInv, CallOf, Plain, Taken
  <2> QED  BY <2>1, QuietLemma
<1>8. CASE PopNext(t)
  <2>1. Quiet(t)
    BY <1>1, <1>8 DEF Quiet, PopNext, Goto, queue, Linked, TypeInv, CallOf, Plain, Taken
  <2> QED  BY <2>1, QuietLemma
<1>9. CASE Lose(t)
  <2>1. Quiet(t)
    BY <1>1, <1>9 DEF Quiet, Lose, Goto, queue, Linked, TypeInv, CallOf, Plain, Taken
  <2> QED  BY <2>1, QuietLemma
<1>10. CASE PopTail(t)
  <2>1. Quiet(t)
    BY <1>1, <1>10 DEF Quiet, PopTail, Goto, queue, local, Linked, TypeInv, CallOf, Plain, Taken
  <2> QED  BY <2>1, QuietLemma
<1>11. CASE PopAdvance(t)
  <2>1. Linked' = Linked
    BY <1>11, TailMoves
  <2>2. Quiet(t)
    BY <1>1, <1>11, <2>1 DEF Quiet, PopAdvance, Goto, local, TypeInv, CallOf, Plain, Taken
  <2> QED  BY <2>2, QuietLemma
<1> QED  BY <1>2, <1>3, <1>4, <1>5, <1>6, <1>7, <1>8, <1>9, <1>10, <1>11

\* A node that is freed is in nobody's hands.
LEMMA FreeQuiet ==
  ASSUME QInv, QInv', NEW m \in Nodes, Free(m)
  PROVE  Stutter
<1>1. TypeInv /\ mem[m] = "retired" /\ wait[m] = {}
  BY DEF QInv, LocalOK, Free
<1>2. /\ head' = head /\ tails' = tails /\ pushed' = pushed /\ pc' = pc /\ new' = new /\ succ' = succ
      /\ \A n \in Nodes \ {m} : data'[n] = data[n] /\ next'[n] = next[n]
  BY <1>1 DEF Free, local, TypeInv
<1>3. Bags' = Bags
  <2>1. CASE head = Null
    BY <1>2, <2>1 DEF Bags
  <2>2. CASE head # Null
    <3>1. Linked' = Linked
      BY <2>2, FreeLinked
    <3>2. FrontOK /\ LinkedFacts /\ Start \in 1 .. Size /\ Size \in Nat
      BY <2>2, FewNodes, LinkedLemma DEF QInv, ListOK, LocalOK, LinkedFacts
    <3>3. \A j \in Start + 1 .. Size : data'[Linked[j]] = data[Linked[j]]
      <4>1. \A j \in Start + 1 .. Size : j \in Start .. Size /\ Linked[j] \in Nodes
        BY <3>2 DEF LinkedFacts
      <4>2. \A j \in Start + 1 .. Size : Linked[j] # m
        BY <1>1, <3>2, <4>1 DEF FrontOK
      <4> QED  BY <1>2, <4>1, <4>2
    <3> QED  BY <1>2, <2>2, <3>1, <3>3, SameBags
  <2> QED  BY <2>1, <2>2
<1>4. ASSUME NEW u \in Threads
      PROVE  CallOf(u)' = CallOf(u) /\ BagOf(u)' = BagOf(u)
  <2>1. pc[u] \in Pushing => data'[new[u]] = data[new[u]]
    BY <1>1, <1>2, HeldBags
  <2>2. Taken(u) => data'[succ[u]] = data[succ[u]]
    BY <1>1, <1>2, HeldBags DEF Safe
  <2> QED  BY <1>2, <2>1, <2>2, SameCall
<1> QED  BY <1>2, <1>3, <1>4, Stutters

LEMMA CallPushStep ==
  ASSUME QInv, QInv', head # Null, NEW t \in Threads, PushStart(t)
  PROVE  Abstract!CallPush(t)
<1>1. TypeInv
  BY DEF QInv, LocalOK
<1>2. PICK m \in Nodes : mem[m] = "free" /\ data' = [data EXCEPT ![m] = pushed + 1] /\ new' = [new EXCEPT ![t] = m]
  BY DEF PushStart
<1>3. /\ pc[t] = "in" /\ pc'[t] = "push" /\ \A u \in Threads \ {t} : pc'[u] = pc[u] /\ new'[u] = new[u]
      /\ head' = head /\ Linked' = Linked /\ pushed' = pushed + 1 /\ succ' = succ /\ new'[t] = m
      /\ data'[m] = pushed + 1 /\ \A n \in Nodes \ {m} : data'[n] = data[n]
  BY <1>1, <1>2 DEF PushStart, Goto, Linked, TypeInv
<1>4. Bags' = Bags
  <2>1. FrontOK /\ LinkedFacts /\ Start \in 1 .. Size /\ Size \in Nat
    BY FewNodes, LinkedLemma DEF QInv, ListOK, LocalOK, LinkedFacts
  <2>2. \A j \in Start + 1 .. Size : j \in Start .. Size /\ Linked[j] \in Nodes
    BY <2>1 DEF LinkedFacts
  <2>3. \A j \in Start + 1 .. Size : Linked[j] # m
    BY <1>2, <2>1, <2>2 DEF FrontOK
  <2> QED  BY <1>3, <2>2, <2>3, SameBags
<1>5. Others(t)
  <2>1. ASSUME NEW u \in Threads \ {t} PROVE CallOf(u)' = CallOf(u) /\ BagOf(u)' = BagOf(u)
    <3>1. pc[u] \in Pushing => data'[new[u]] = data[new[u]]
      BY <1>2, <1>3, HeldBags
    <3>2. Taken(u) => data'[succ[u]] = data[succ[u]]
      BY <1>2, <1>3, HeldBags DEF Safe
    <3> QED  BY <1>3, <3>1, <3>2, SameCall
  <2> QED  BY <2>1 DEF Others
<1>6. CallOf(t) = "none" /\ CallOf(t)' = "push" /\ BagOf(t)' = pushed + 1
  BY <1>3 DEF CallOf, BagOf, Taken
<1> QED  BY <1>3, <1>4, <1>5, <1>6, CallStep DEF Abstract!CallPush

\* A push takes effect when the node is linked.
LEMMA PushStep ==
  ASSUME QInv, QInv', head # Null, NEW t \in Threads, Link(t), next[onto[t]] = Null
  PROVE  Abstract!Push(t)
<1>1. TypeInv /\ LinkedFacts /\ Start \in 1 .. Size /\ Size \in Nat /\ FrontOK
  BY FewNodes, LinkedLemma DEF QInv, LocalOK, LinkedFacts, ListOK
<1>2. new[t] \in Nodes /\ mem[new[t]] = "held" /\ Linked' = Append(Linked, new[t]) /\ Size' = Size + 1
  BY LinkFacts
<1>3. /\ pc[t] = "link" /\ pc'[t] = "swing" /\ \A u \in Threads \ {t} : pc'[u] = pc[u]
      /\ head' = head /\ data' = data /\ pushed' = pushed /\ succ' = succ /\ new' = new
  BY <1>1 DEF Link, Goto, TypeInv
<1>4. Start' = Start
  <2>1. Occurs(Linked, head) /\ head \in Nodes /\ Linked[Start] = head
    BY <1>1, PlaceOf DEF FrontOK, Start
  <2>2. mem[Linked[Start]] = "used"
    BY <1>1 DEF FrontOK
  <2>3. head \in Nodes \ {new[t]} /\ Linked \in Seq(Nodes)
    BY <1>1, <1>2, <2>1, <2>2 DEF LinkedFacts
  <2>4. Pos(Append(Linked, new[t]), head) = Pos(Linked, head)
    BY <1>2, <2>1, <2>3, AppendPos
  <2> QED  BY <1>2, <1>3, <2>4 DEF Start, Place
<1>5. Bags' = Append(Bags, data[new[t]])
  <2> DEFINE w == Size - Start
             a == Row(Linked, Start, Size, data)
             b == Row(Linked', Start, Size + 1, data)
  <2>1. Bags = a /\ Bags' = b
    BY <1>2, <1>3, <1>4, BagsLemma, BagsNext DEF RowOfBags
  <2>2. w \in Nat /\ (Size + 1) - Start = w + 1
    BY <1>1
  <2>3. Linked'[Size + 1] = new[t] /\ \A j \in 1 .. Size : Linked'[j] = Linked[j]
    BY <1>1, <1>2 DEF LinkedFacts, Size
  <2>4. \A k \in 1 .. w : Start + k \in 1 .. Size
    BY <1>1
  <2>5. \A k \in 1 .. w : Linked'[Start + k] = Linked[Start + k]
    BY <2>3, <2>4
  <2>6. Linked'[Start + (w + 1)] = new[t]
    BY <1>1, <2>3
  <2>7. b = [k \in 1 .. w + 1 |-> data[Linked'[Start + k]]] /\ a = [k \in 1 .. w |-> data[Linked[Start + k]]]
    BY <2>2 DEF Row
  <2> HIDE DEF a, b, w
  <2>8. b = Append(a, data[new[t]])
    BY <2>2, <2>5, <2>6, <2>7
  <2> QED  BY <2>1, <2>8
<1>6. Others(t)
  BY <1>3, SameCall DEF Others
<1>7. CallOf(t) = "push" /\ CallOf(t)' = "done" /\ BagOf(t) = data[new[t]] /\ BagOf(t)' = NoBag
  BY <1>3 DEF CallOf, BagOf, Taken
<1> QED  BY <1>3, <1>5, <1>6, <1>7, CallStep DEF Abstract!Push, Abstract!Effect

LEMMA PushReturns ==
  ASSUME QInv, QInv', head # Null, NEW t \in Threads, Swing(t)
  PROVE  Abstract!Return(t)
<1>1. TypeInv /\ Linked' = Linked
  BY TailMoves DEF QInv, LocalOK
<1>2. /\ pc[t] = "swing" /\ pc'[t] = "in" /\ \A u \in Threads \ {t} : pc'[u] = pc[u] /\ new'[u] = new[u]
      /\ head' = head /\ data' = data /\ pushed' = pushed /\ succ' = succ
  BY <1>1 DEF Swing, Goto, TypeInv
<1>3. Bags' = Bags
  BY <1>1, <1>2, SameBags
<1>4. Others(t)
  BY <1>2, SameCall DEF Others
<1>5. CallOf(t) = "done" /\ CallOf(t)' = "none" /\ BagOf(t)' = NoBag
  BY <1>2 DEF CallOf, BagOf, Taken
<1> QED  BY <1>2, <1>3, <1>4, <1>5, CallStep DEF Abstract!Return

LEMMA CallPopStep ==
  ASSUME QInv, QInv', head # Null, NEW t \in Threads, PopHead(t), pc[t] = "in"
  PROVE  Abstract!CallPop(t)
<1>1. TypeInv
  BY DEF QInv, LocalOK
<1>2. /\ pc'[t] \in {"pop_next", "pop_if_next"} /\ \A u \in Threads \ {t} : pc'[u] = pc[u]
      /\ head' = head /\ data' = data /\ pushed' = pushed /\ succ' = succ /\ new' = new /\ Linked' = Linked
  BY <1>1 DEF PopHead, Goto, TypeInv, queue, Linked
<1>3. Bags' = Bags
  BY <1>2, SameBags
<1>4. Others(t)
  BY <1>2, SameCall DEF Others
<1>5. CallOf(t) = "none" /\ CallOf(t)' \in {"pop", "pop_if"} /\ BagOf(t)' = BagOf(t)
  BY <1>2 DEF CallOf, BagOf, Taken, Plain
<1> QED  BY <1>2, <1>3, <1>4, <1>5, CallStep DEF Abstract!CallPop

\* Only an empty queue makes try_pop return None, and only an empty queue or the
\* condition try_pop_if.
LEMMA NoneStep ==
  ASSUME QInv, QInv', head # Null, NEW t \in Threads, PopNone(t)
  PROVE  Abstract!Empty(t) \/ Abstract!Reject(t)
<1>1. TypeInv /\ pc[t] \in Holding /\ pc[t] \in Popping
  BY DEF QInv, LocalOK, PopNone, Holding, Popping
<1>2. /\ pc[t] \in {"pop_next", "pop_if_next"} /\ pc'[t] = "in" /\ \A u \in Threads \ {t} : pc'[u] = pc[u]
      /\ head' = head /\ data' = data /\ pushed' = pushed /\ succ' = succ /\ new' = new /\ Linked' = Linked
      /\ next[onto[t]] = Null \/ ~Plain(t)
  BY <1>1 DEF PopNone, Goto, TypeInv, queue, Linked
<1>3. Bags' = Bags
  BY <1>2, SameBags
<1>4. Others(t)
  BY <1>2, SameCall DEF Others
<1>5. CallOf(t)' = "none" /\ BagOf(t)' = BagOf(t) /\ CallOf(t) = IF Plain(t) THEN "pop" ELSE "pop_if"
  BY <1>2 DEF CallOf, BagOf, Taken, Plain
<1>6. Abstract!None(t)
  BY <1>2, <1>3, <1>4, <1>5, CallStep DEF Abstract!None
<1>7. CASE next[onto[t]] = Null
  <2>1. Place(onto[t]) = Size /\ LoadedAt(t)
    BY <1>1, <1>7, Loaded, NextLoaded
  <2>2. Start \in 1 .. Size /\ Size \in Nat /\ Size <= Start
    BY <1>1, <2>1, FewNodes, LinkedLemma DEF LoadedAt, QInv, LocalOK, LinkedFacts
  <2>3. Bags = Row(Linked, Size, Size, data)
    BY <2>2, BagsLemma DEF RowOfBags
  <2>4. 1 .. Size - Size = {}
    BY <2>2
  <2>5. Bags = <<>>
    BY <2>3, <2>4 DEF Row
  <2> QED  BY <1>5, <1>6, <2>5 DEF Abstract!Empty
<1>8. CASE ~Plain(t)
  BY <1>5, <1>6, <1>8 DEF Abstract!Reject
<1> QED  BY <1>2, <1>7, <1>8

\* A pop takes effect when head is moved: it takes the oldest bag.
LEMMA PopStep ==
  ASSUME QInv, QInv', head # Null, NEW t \in Threads, Take(t)
  PROVE  Abstract!Pop(t)
<1>1. /\ TypeInv /\ LinkedFacts /\ Start \in 1 .. Size /\ Size \in Nat /\ FrontOK
      /\ pc[t] \in Holding /\ pc[t] \in Ahead
  BY FewNodes, LinkedLemma DEF QInv, LocalOK, LinkedFacts, ListOK, Take, Holding, Popping, Ahead
<1>2. /\ pc[t] \in {"take", "take_if"} /\ pc'[t] = "pop_tail" /\ \A u \in Threads \ {t} : pc'[u] = pc[u]
      /\ head = onto[t] /\ head' = succ[t] /\ data' = data /\ pushed' = pushed
      /\ succ' = succ /\ new' = new /\ Linked' = Linked /\ Size' = Size
  BY <1>1 DEF Take, Goto, TypeInv, memory, local, Linked, Size
<1>3. Start < Size /\ Linked[Start + 1] = succ[t]
  BY <1>1, <1>2, Loaded DEF LoadedAt, Start
<1>4. Start' = Start + 1 /\ head' # Null
  <2>1. Start + 1 \in Start .. Size
    BY <1>1, <1>3
  <2>2. Place(succ[t]) = Start + 1 /\ succ[t] \in Nodes
    BY <1>1, <1>3, <2>1, PlaceIs DEF FrontOK
  <2> QED  BY <1>2, <2>2, NullAssumption DEF Start, Place
<1>5. Bags # <<>> /\ Bags' = Tail(Bags) /\ Head(Bags) = data[succ[t]]
  <2> DEFINE w == Size - Start
             a == Row(Linked, Start, Size, data)
             b == Row(Linked, Start + 1, Size, data)
  <2>1. Bags = a /\ Bags' = b
    BY <1>2, <1>4, BagsLemma, BagsNext DEF RowOfBags
  <2>2. w \in Nat /\ w >= 1 /\ Size - (Start + 1) = w - 1
    BY <1>1, <1>3
  <2>3. a = [k \in 1 .. w |-> data[Linked[Start + k]]]
        /\ b = [k \in 1 .. w - 1 |-> data[Linked[(Start + 1) + k]]]
    BY <2>2 DEF Row
  <2>4. \A k \in 1 .. w - 1 : (Start + 1) + k = Start + (k + 1)
    BY <1>1
  <2> HIDE DEF a, b, w
  <2>5. Len(a) = w /\ a # <<>> /\ Head(a) = data[Linked[Start + 1]]
    BY <2>2, <2>3
  <2>6. Tail(a) = [k \in 1 .. w - 1 |-> a[k + 1]]
    BY <2>2, <2>3
  <2>7. \A k \in 1 .. w - 1 : a[k + 1] = b[k]
    BY <2>2, <2>3, <2>4
  <2>8. b = Tail(a)
    BY <2>3, <2>6, <2>7
  <2> QED  BY <1>3, <2>1, <2>5, <2>8
<1>6. Others(t)
  BY <1>2, SameCall DEF Others
<1>7. CallOf(t) \in {"pop", "pop_if"} /\ CallOf(t)' = "done" /\ BagOf(t)' = data[succ[t]]
  BY <1>2 DEF CallOf, BagOf, Taken, Plain
<1> QED  BY <1>2, <1>5, <1>6, <1>7, CallStep DEF Abstract!Pop, Abstract!Effect

\* Two threads that took nodes do not move a bag out of the same one.
LEMMA TakersApart ==
  ASSUME QInv, NEW t \in Threads, NEW u \in Threads, t # u, Taken(t), Taken(u)
  PROVE  succ[t] # succ[u]
<1>1. /\ LinkedFacts /\ TakenOK /\ TypeInv
      /\ onto[t] # onto[u] /\ Linked \in Seq(Nodes) /\ Size = Len(Linked)
  BY HeldBags, LinkedLemma DEF QInv, LocalOK, ListOK, TakenOK, LinkedFacts, Size
<1> DEFINE p == Place(onto[t])
           q == Place(onto[u])
<1>2. /\ p \in 1 .. Size /\ p < Size /\ succ[t] = Linked[p + 1] /\ Distinct(Linked, p) /\ Size \in Nat
      /\ q \in 1 .. Size /\ q < Size /\ succ[u] = Linked[q + 1] /\ Distinct(Linked, q)
  BY HeldBags
<1>3. p # q
  <2>1. Occurs(Linked, onto[t]) /\ Occurs(Linked, onto[u])
    BY <1>1, HeldBags DEF QInv, ListOK, NodesOK, TakenOK, Kept
  <2>2. Linked[p] = onto[t] /\ Linked[q] = onto[u]
    BY <1>1, <2>1, PlaceOf
  <2> QED  BY <1>1, <2>2
<1> HIDE DEF p, q
<1>4. CASE p < q
  <2>1. p + 1 \in p .. Size /\ q + 1 \in p .. Size /\ p + 1 # q + 1
    BY <1>2, <1>4
  <2> QED  BY <1>1, <1>2, <2>1 DEF Distinct
<1>5. CASE q < p
  <2>1. p + 1 \in q .. Size /\ q + 1 \in q .. Size /\ p + 1 # q + 1
    BY <1>2, <1>5
  <2> QED  BY <1>1, <1>2, <2>1 DEF Distinct
<1> QED  BY <1>2, <1>3, <1>4, <1>5

LEMMA PopReturns ==
  ASSUME QInv, QInv', head # Null, NEW t \in Threads, Retire(t)
  PROVE  Abstract!Return(t)
<1>1. /\ TypeInv /\ LinkedFacts /\ Start \in 1 .. Size /\ Size \in Nat /\ FrontOK
      /\ pc[t] = "retire" /\ Taken(t)
  BY FewNodes, LinkedLemma DEF QInv, LocalOK, LinkedFacts, ListOK, Retire, Taken
<1>2. succ[t] \in Nodes /\ Safe(t, succ[t])
  BY <1>1, HeldBags
<1>3. /\ pc'[t] = "in" /\ \A u \in Threads \ {t} : pc'[u] = pc[u] /\ succ'[u] = succ[u]
      /\ head' = head /\ pushed' = pushed /\ new' = new /\ Linked' = Linked
      /\ \A n \in Nodes \ {succ[t]} : data'[n] = data[n]
  BY <1>1, <1>2 DEF Retire, Goto, TypeInv, Linked
<1>4. Bags' = Bags
  <2>1. Place(onto[t]) \in Nat /\ Place(onto[t]) < Start /\ succ[t] = Linked[Place(onto[t]) + 1]
        /\ Distinct(Linked, Place(onto[t])) /\ Place(onto[t]) < Size
    BY <1>1, HeldBags
  <2>2. \A j \in Start + 1 .. Size : Linked[j] # succ[t] /\ Linked[j] \in Nodes
    <3>1. ASSUME NEW j \in Start + 1 .. Size PROVE Linked[j] # succ[t] /\ Linked[j] \in Nodes
      <4>1. j \in Place(onto[t]) .. Size /\ Place(onto[t]) + 1 \in Place(onto[t]) .. Size
            /\ j # Place(onto[t]) + 1 /\ j \in 1 .. Size
        BY <1>1, <2>1, <3>1
      <4> QED  BY <1>1, <2>1, <4>1 DEF Distinct, Size, LinkedFacts
    <3> QED  BY <3>1
  <2> QED  BY <1>3, <2>2, SameBags
<1>5. Others(t)
  <2>1. ASSUME NEW u \in Threads \ {t} PROVE CallOf(u)' = CallOf(u) /\ BagOf(u)' = BagOf(u)
    <3>1. pc[u] \in Pushing => data'[new[u]] = data[new[u]]
      <4>1. pc[u] \in Pushing => new[u] \in Nodes /\ mem[new[u]] = "held"
        BY HeldBags
      <4>2. mem[succ[t]] # "held"
        BY <1>2 DEF Safe
      <4> QED  BY <1>3, <4>1, <4>2
    <3>2. Taken(u) => data'[succ[u]] = data[succ[u]]
      <4>1. Taken(u) => succ[u] \in Nodes /\ succ[u] # succ[t]
        BY <1>1, HeldBags, TakersApart
      <4> QED  BY <1>3, <4>1
    <3> QED  BY <1>3, <3>1, <3>2, SameCall
  <2> QED  BY <2>1 DEF Others
<1>6. CallOf(t) = "done" /\ CallOf(t)' = "none" /\ BagOf(t)' = NoBag
  BY <1>1, <1>3 DEF CallOf, BagOf, Taken
<1> QED  BY <1>3, <1>4, <1>5, <1>6, CallStep DEF Abstract!Return

LEMMA DropStep ==
  ASSUME QInv, DropQueue
  PROVE  Abstract!DropAll
<1>1. /\ \A t \in Threads : pc[t] = "out"
      /\ head' = Null /\ data' = data /\ pushed' = pushed /\ pc' = pc /\ succ' = succ /\ new' = new
  BY DEF DropQueue, local
<1>2. Bags' = <<>>
  BY <1>1 DEF Bags
<1>3. \A t \in Threads : CallOf(t) = "none" /\ CallOf(t)' = "none" /\ BagOf(t) = NoBag /\ BagOf(t)' = NoBag
  BY <1>1 DEF CallOf, BagOf, Taken
<1> QED  BY <1>1, <1>2, <1>3 DEF Abstract!DropAll

LEMMA AbstractInit == Init => Abstract!Init
<1> SUFFICES ASSUME Init PROVE Abstract!Init
  OBVIOUS
<1>1. QInv
  BY InitQueue
<1>2. /\ tails = <<head>> /\ head \in Nodes /\ next = [n \in Nodes |-> Null]
      /\ pc = [t \in Threads |-> "out"] /\ pushed = 0
  BY NodesAssumption DEF Init
<1>3. head # Null /\ Linked = <<head>> /\ Size = 1
  BY <1>2, NullAssumption DEF Linked, Size, Last
<1>4. Start = 1
  BY <1>1, <1>3, FewNodes
<1>5. Bags = Row(Linked, 1, 1, data)
  BY <1>1, <1>3, <1>4, BagsLemma DEF RowOfBags
<1>6. Bags = <<>>
  BY <1>5 DEF Row
<1>7. \A t \in Threads : CallOf(t) = "none" /\ BagOf(t) = NoBag
  BY <1>2 DEF CallOf, BagOf, Taken
<1> QED  BY <1>2, <1>6, <1>7 DEF Abstract!Init

LEMMA AbstractStep == QInv /\ QInv' /\ [Next]_vars => [Abstract!Next]_(Abstract!vars)
<1> SUFFICES ASSUME QInv, QInv', [Next]_vars PROVE Abstract!Next \/ Stutter
  BY DEF Stutter
<1>1. CASE UNCHANGED vars
  <2>1. /\ head' = head /\ next' = next /\ data' = data /\ pushed' = pushed
        /\ pc' = pc /\ succ' = succ /\ new' = new
    BY <1>1 DEF vars, queue, local
  <2>2. Bags' = Bags
    BY <2>1 DEF Bags, Chain, From
  <2>3. \A u \in Threads : CallOf(u)' = CallOf(u) /\ BagOf(u)' = BagOf(u)
    BY <2>1 DEF CallOf, BagOf, Taken, Plain
  <2> QED  BY <2>1, <2>2, <2>3, Stutters
<1>2. CASE \E n \in Nodes : Free(n)
  BY <1>2, FreeQuiet
<1>3. CASE DropQueue
  BY <1>3, DropStep DEF Abstract!Next
<1>4. ASSUME NEW t \in Threads, Pin(t) \/ Unpin(t) \/ Seal(t) \/ PushStart(t) \/ Call(t)
      PROVE  Abstract!Next \/ Stutter
  <2>1. head # Null
    BY <1>4 DEF QInv, LocalOK, DroppedOK, Pin, Unpin, Seal, PushStart, Call, PushTail, PushNext,
       Help, Link, Swing, PopHead, PopNext, PopNone, Take, Lose, PopTail, PopAdvance, Retire
  <2>2. CASE PushStart(t)
    BY <2>1, <2>2, CallPushStep DEF Abstract!Next
  <2>3. CASE Link(t) /\ next[onto[t]] = Null
    BY <2>1, <2>3, PushStep DEF Abstract!Next
  <2>4. CASE Swing(t)
    BY <2>1, <2>4, PushReturns DEF Abstract!Next
  <2>5. CASE PopHead(t) /\ pc[t] = "in"
    BY <2>1, <2>5, CallPopStep DEF Abstract!Next
  <2>6. CASE PopNone(t)
    BY <2>1, <2>6, NoneStep DEF Abstract!Next
  <2>7. CASE Take(t)
    BY <2>1, <2>7, PopStep DEF Abstract!Next
  <2>8. CASE Retire(t)
    BY <2>1, <2>8, PopReturns DEF Abstract!Next
  <2>9. CASE \/ Pin(t) \/ Unpin(t) \/ Seal(t) \/ PushTail(t) \/ PushNext(t) \/ Help(t)
             \/ Link(t) /\ next[onto[t]] # Null
             \/ PopHead(t) /\ pc[t] # "in"
             \/ PopNext(t) \/ Lose(t) \/ PopTail(t) \/ PopAdvance(t)
    BY <2>1, <2>9, QuietSteps
  <2> QED  BY <1>4, <2>2, <2>3, <2>4, <2>5, <2>6, <2>7, <2>8, <2>9 DEF Call
<1> QED  BY <1>1, <1>2, <1>3, <1>4 DEF Next

\* The queue is a FIFO queue whose calls are atomic.
THEOREM QueueRefines == Spec => Refinement
<1>1. Init => Abstract!Init
  BY AbstractInit
<1>2. QInv /\ QInv' /\ [Next]_vars => [Abstract!Next]_(Abstract!vars)
  BY AbstractStep
<1>3. Spec => []QInv
  BY QueueInvariant
<1> QED  BY <1>1, <1>2, <1>3, PTL DEF Spec, Refinement, Abstract!Spec
====
