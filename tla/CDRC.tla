--------------------------------- MODULE CDRC ---------------------------------
(***************************************************************************)
(* Concurrent deferred reference counting: the objects (Counted), the      *)
(* owners of their strong and weak counts (AtomicRc and Rc, AtomicWeak and *)
(* Weak), Snapshot, and the deferred decrements and disposals of Cs.       *)
(*                                                                         *)
(* AtomicRc/Rc and AtomicWeak/Weak are the same code over two counters, so *)
(* one action serves both, with the kind k.  A counter is the one that     *)
(* StickyCountSpec promises.  The reclamation scheme is a parameter: what  *)
(* is retired waits for a set of guards, which under EBR are the threads   *)
(* in a critical section (as Reclamation promises) and under HP the hazard *)
(* slots that have not been scanned yet, one for each Snapshot variable.   *)
(* Addresses are not reused and tags are left out.                         *)
(***************************************************************************)
EXTENDS Naturals, FiniteSets, Bags
INSTANCE BagsExt

CONSTANTS Threads, Objs,
          Null,
          AtomicRcs, AtomicWeaks,   \* the shared cells outside any object
          Snaps,                    \* Snapshot variables of a thread
          Clients                   \* the programs that may use the library

\* Of a client: the type parameter C, the calls it makes, the shared cells it
\* has, whether its objects have an AtomicRc field, and two bounds: how many
\* objects it creates and how many references of one kind an object can have.
ASSUME ClientAssumption ==
  \A c \in Clients : /\ c.scheme \in {"EBR", "HP"} /\ c.fields \in BOOLEAN
                     /\ c.cells \subseteq AtomicRcs \cup AtomicWeaks
                     /\ c.objs \in Nat /\ c.count \in Nat
ASSUME NullAssumption   == Null \notin Objs
ASSUME CellsAssumption  == Objs \cap AtomicWeaks = {}
\* The state counts references, so what holds and protects them is finite.
ASSUME FiniteAssumption == /\ IsFiniteSet(Threads) /\ IsFiniteSet(Snaps) /\ IsFiniteSet(Objs)
                           /\ IsFiniteSet(AtomicRcs) /\ IsFiniteSet(AtomicWeaks)

Ptr    == Objs \cup {Null}
Kinds  == {"strong", "weak"}
Kind(c) == IF c \in AtomicWeaks THEN "weak" ELSE "strong"

VARIABLES
  life,      \* of an object: not created, live, disposed (value dropped), freed
  cnt,       \* cnt[k][o]: the count, as long as it is counting
  flag,      \* flag[k][o]: counting, pending (zero, credit due) or zero
  cell,      \* the pointer in each AtomicRc and AtomicWeak
  own,       \* own[k][t]: the Rc and the Weak variable of a thread
  snap,      \* snap[t][s]: a Snapshot, and the kind of cell it came from
  cs,        \* the threads inside a critical section (EBR)
  retired,   \* bag of retired work: object, RetireType, guards waited for
  pc,        \* control point of each thread
  client     \* the program that is run

vars == <<life, cnt, flag, cell, own, snap, cs, retired, pc, client>>
heap == <<life, cnt, flag>>

Scheme   == client.scheme
Calls    == client.calls
MaxCount == client.count
\* The objects with an AtomicRc field: it is the cell named after the object.
Nodes    == IF client.fields THEN Objs ELSE {}
Cells    == client.cells \cup Nodes

Idle      == [at |-> "idle"]
Free(t)   == pc[t] = Idle
NoSnap    == [o |-> Null, k |-> "strong"]
Goto(t, p) == pc' = [pc EXCEPT ![t] = p]

Init == /\ life = [o \in Objs |-> "none"]
        /\ cnt  = [k \in Kinds |-> [o \in Objs |-> 0]]
        /\ flag = [k \in Kinds |-> [o \in Objs |-> "counting"]]
        /\ client \in Clients /\ cell = [c \in Cells |-> Null]
        /\ own  = [k \in Kinds |-> [t \in Threads |-> Null]]
        /\ snap = [t \in Threads |-> [s \in Snaps |-> NoSnap]]
        /\ cs = {} /\ retired = EmptyBag
        /\ pc = [t \in Threads |-> Idle]

-------------------------------------------------------------------------------
(* Counters (Count, as promised by StickyCountSpec). *)

\* `increment`: fails, without effect, on a counter that is zero for good.
CanInc(k, o)  == flag[k][o] = "counting"
Inc(k, o)     == cnt' = IF o = Null \/ ~CanInc(k, o) THEN cnt
                        ELSE [cnt EXCEPT ![k][o] = @ + 1]
Dec(k, o)     == cnt' = IF ~CanInc(k, o) THEN cnt ELSE [cnt EXCEPT ![k][o] = @ - 1]
\* This decrement brought the count to zero, so it goes on to settle it.
Drained(k, o) == CanInc(k, o) /\ cnt[k][o] = 1
\* `load` found zero, and makes it final if it was not.
ReadsZero(o)  == flag["strong"][o] # "counting" \/ cnt["strong"][o] = 0
Observe(o)    == flag' = IF CanInc("strong", o) /\ cnt["strong"][o] = 0
                         THEN [flag EXCEPT !["strong"][o] = "pending"] ELSE flag

-------------------------------------------------------------------------------
(* Reclamation. *)

\* What a retired entry waits for: critical sections, named by their threads, or
\* the slots of all Snapshot variables.
Guards    == Threads \cup (Threads \X Snaps)
Witnesses == IF Scheme = "EBR" THEN cs ELSE Threads \X Snaps
Entry(o, k) == [o |-> o, k |-> k, wait |-> Witnesses]
\* Cs::retire through a guard or a hazard-pointer thread.
Retire(o, k) == retired' = IF o = Null THEN retired ELSE BagAdd(retired, Entry(o, k))

\* The caller has a Cs, which under HP costs nothing.
Guarded(t) == Scheme = "EBR" => t \in cs

Enter(t) == /\ Scheme = "EBR" /\ Free(t) /\ t \notin cs
            /\ cs' = cs \cup {t}
            /\ UNCHANGED <<heap, cell, own, snap, retired, pc, client>>

\* The bag B after nothing in it waits for t any more.
Times(e, B)  == IF BagIn(e, B) THEN B[e] ELSE 0
Forget(t, B) == [e \in {[d EXCEPT !.wait = @ \ {t}] : d \in BagToSet(B)}
                   |-> Times(e, B) + Times([e EXCEPT !.wait = @ \cup {t}], B)]

\* The end of a critical section; its snapshots are not used any more.
Exit(t) == /\ Scheme = "EBR" /\ Free(t) /\ t \in cs
           /\ cs' = cs \ {t}
           /\ snap' = [snap EXCEPT ![t] = [s \in Snaps |-> NoSnap]]
           /\ retired' = Forget(t, retired)
           /\ UNCHANGED <<heap, cell, own, pc, client>>

Shields(u) == {snap[u][s].o : s \in Snaps}

\* A scan, after it took the entry, does not find the object in the slot of u's
\* snapshot s; it reads the slots one by one.
Scan(e, u, s) ==
  /\ Scheme = "HP" /\ <<u, s>> \in e.wait /\ e.o # snap[u][s].o
  /\ retired' = BagAdd(BagRemove(retired, e), [e EXCEPT !.wait = @ \ {<<u, s>>}])
  /\ UNCHANGED <<heap, cell, own, snap, cs, pc, client>>

\* Dropping the value drops its AtomicRc field, which retires the child.
DropField(o)   == cell' = IF o \in Nodes THEN [cell EXCEPT ![o] = Null] ELSE cell
FieldNone(o)   == Null              \* mutant: the field is not dropped
FieldOf(o)     == IF o \in Nodes THEN cell[o] ELSE Null
SetLife(o, l)  == life' = [life EXCEPT ![o] = l]

\* Cs::dispose, then release_weak.
Dispose(t, o, rest) ==
  /\ SetLife(o, "disposed") /\ DropField(o)
  /\ retired' = IF FieldOf(o) = Null THEN rest
                ELSE BagAdd(rest, Entry(FieldOf(o), "strong"))
  /\ Dec("weak", o)
  /\ Goto(t, IF Drained("weak", o) THEN [at |-> "settle", k |-> "weak", o |-> o] ELSE Idle)
  /\ UNCHANGED <<flag, own, snap, cs, client>>

\* Cs::eject of an entry whose grace period has passed.  An EBR collection
\* runs under the guard of the thread; an HP one protects nothing.
Eject(t, e) ==
  /\ Free(t) /\ Guarded(t) /\ e.wait = {}
  /\ IF e.k = "dispose" THEN Dispose(t, e.o, BagRemove(retired, e))
     ELSE /\ retired' = BagRemove(retired, e)
          /\ Dec(e.k, e.o)
          /\ Goto(t, IF Drained(e.k, e.o) THEN [at |-> "settle", k |-> e.k, o |-> e.o]
                     ELSE Idle)
          /\ UNCHANGED <<life, flag, cell, own, snap, cs, client>>

\* Mutant: a decrementer that saw zero believes it brought the count there.
SettleTrusting(t) ==
  LET p == pc[t] IN
      /\ p.at = "settle"
      /\ flag' = [flag EXCEPT ![p.k][p.o] = "zero"]
      /\ IF p.k = "weak" THEN SetLife(p.o, "freed") ELSE UNCHANGED life
      /\ Goto(t, IF p.k = "strong" THEN [at |-> "release", o |-> p.o] ELSE Idle)
      /\ UNCHANGED <<cnt, cell, own, snap, cs, retired, client>>

\* Mutant: it does not look for the credit that a reader left.
SettleCasOnly(t) ==
  LET p == pc[t]
      credit == CanInc(p.k, p.o) /\ cnt[p.k][p.o] = 0
  IN  /\ p.at = "settle"
      /\ flag' = IF credit THEN [flag EXCEPT ![p.k][p.o] = "zero"] ELSE flag
      /\ IF credit /\ p.k = "weak" THEN SetLife(p.o, "freed") ELSE UNCHANGED life
      /\ Goto(t, IF credit /\ p.k = "strong" THEN [at |-> "release", o |-> p.o] ELSE Idle)
      /\ UNCHANGED <<cnt, cell, own, snap, cs, retired, client>>

\* `decrement` after the count reached zero: it may have been revived, and of
\* several decrementers one takes the credit.
Settle(t) ==
  LET p == pc[t]
      credit == \/ flag[p.k][p.o] = "pending"
                \/ CanInc(p.k, p.o) /\ cnt[p.k][p.o] = 0
  IN  /\ p.at = "settle"
      /\ flag' = IF credit THEN [flag EXCEPT ![p.k][p.o] = "zero"] ELSE flag
      /\ IF credit /\ p.k = "weak" THEN SetLife(p.o, "freed") ELSE UNCHANGED life
      /\ Goto(t, IF credit /\ p.k = "strong" THEN [at |-> "release", o |-> p.o] ELSE Idle)
      /\ UNCHANGED <<cnt, cell, own, snap, cs, retired, client>>

\* Counted::release_ref found no weak reference: drop the value and free.
ReleaseLast(t) ==
  LET o == pc[t].o IN
  /\ pc[t].at = "release" /\ cnt["weak"][o] = 1
  /\ SetLife(o, "freed") /\ DropField(o) /\ Retire(FieldOf(o), "strong")
  /\ Goto(t, Idle)
  /\ UNCHANGED <<cnt, flag, own, snap, cs, client>>

\* Counted::release_ref answered Delay: a deferred Dispose under HP; under EBR
\* the inner guard is unprotected, so Dispose is ejected at once.
ReleaseDelay(t) ==
  LET o == pc[t].o IN
  /\ pc[t].at = "release" /\ cnt["weak"][o] # 1
  /\ IF Scheme = "HP"
     THEN /\ Retire(o, "dispose") /\ Goto(t, Idle)
          /\ UNCHANGED <<heap, cell, own, snap, cs, client>>
     ELSE Dispose(t, o, retired)

-------------------------------------------------------------------------------
(* Rc and Weak. *)

May(t, call) == call \in Calls /\ Free(t)
Room(k, o)  == o # Null => cnt[k][o] < MaxCount

New(t, o) == /\ May(t, "new") /\ life[o] = "none" /\ own["strong"][t] = Null
             /\ Cardinality({p \in Objs : life[p] # "none"}) < client.objs
             /\ SetLife(o, "live")
             /\ cnt' = [k \in Kinds |-> [cnt[k] EXCEPT ![o] = 1]]
             /\ own' = [own EXCEPT !["strong"][t] = o]
             /\ UNCHANGED <<flag, cell, snap, cs, retired, pc, client>>

\* Mutant: the variable survives its drop.
DropKeeps(t, k) == /\ May(t, "drop") /\ own[k][t] # Null
                   /\ Retire(own[k][t], k)
                   /\ UNCHANGED <<heap, cell, own, snap, cs, pc, client>>

\* Also finalize: the count is given up once everyone who may be using it left.
Drop(t, k) == /\ May(t, "drop") /\ own[k][t] # Null
              /\ own' = [own EXCEPT ![k][t] = Null]
              /\ Retire(own[k][t], k)
              /\ UNCHANGED <<heap, cell, snap, cs, pc, client>>

\* A new reference to o in t's variable, whatever increment answers.
Take(t, k, o) == /\ o # Null /\ own[k][t] = Null /\ Room(k, o) /\ Guarded(t)
                 /\ Inc(k, o) /\ own' = [own EXCEPT ![k][t] = o]
                 /\ UNCHANGED <<life, flag, cell, snap, cs, retired, pc, client>>

Clone(t, u, k) == May(t, "clone") /\ t # u /\ Take(t, k, own[k][u])

\* A Snapshot of a weak cell or a Weak may be turned into an Rc, too.
Promotable(n) == n.k = "strong" \/ "promote" \in Calls
FromSnapshot(t, s) == /\ May(t, "from_snapshot") /\ Promotable(snap[t][s])
                      /\ Take(t, "strong", snap[t][s].o)

FromStrong(t) == /\ May(t, "from_strong")
                 /\ \E o \in {own["strong"][t]} \cup Shields(t) : Take(t, "weak", o)

Upgrade(t) == /\ May(t, "upgrade")
              /\ own["weak"][t] # Null /\ CanInc("strong", own["weak"][t])
              /\ Take(t, "strong", own["weak"][t])

-------------------------------------------------------------------------------
(* AtomicRc and AtomicWeak. *)

\* Mutant: a field is read through the very snapshot that is overwritten.
NamesOverwritten(t, s, c) == \/ c \notin Nodes
                             \/ c = own["strong"][t]
                             \/ \E r \in Snaps : snap[t][r].o = c

\* The cells t can name: the shared ones and the fields of what it protects,
\* other than by the snapshot s that the call overwrites.
Names(t, s, c) == \/ c \notin Nodes
                  \/ c = own["strong"][t]
                  \/ \E r \in Snaps \ {s} : snap[t][r].o = c

\* Of these, the ones that can be named while t's own Rc is moved into the call.
NamesMoving(t, s, c) == c = own["strong"][t] => \E r \in Snaps \ {s} : snap[t][r].o = c

\* store of an Rc or Weak, null included.
Store(t, c) == LET k == Kind(c) IN
  /\ May(t, "store") /\ Guarded(t) /\ Names(t, Null, c) /\ NamesMoving(t, Null, c)
  /\ cell' = [cell EXCEPT ![c] = own[k][t]]
  /\ own'  = [own EXCEPT ![k][t] = Null]
  /\ Retire(cell[c], k)
  /\ UNCHANGED <<heap, snap, cs, pc, client>>

\* swap, and a compare_exchange with an Rc or Weak that succeeds.
Swap(t, c) == LET k == Kind(c) IN
  /\ May(t, "swap") /\ Guarded(t) /\ Names(t, Null, c) /\ NamesMoving(t, Null, c)
  /\ cell[c] # own[k][t]
  /\ cell' = [cell EXCEPT ![c] = own[k][t]]
  /\ own'  = [own EXCEPT ![k][t] = cell[c]]
  /\ UNCHANGED <<heap, snap, cs, retired, pc, client>>

\* store of a &Snapshot: increment first ...
StoreSnap(t, s, c) == LET k == Kind(c)  o == snap[t][s].o IN
  /\ May(t, "store_snap") /\ Guarded(t) /\ Names(t, Null, c) /\ o # Null /\ Room(k, o)
  /\ k = "strong" => Promotable(snap[t][s])
  /\ Inc(k, o)
  /\ Goto(t, [at |-> "swap", c |-> c, o |-> o])
  /\ UNCHANGED <<life, flag, cell, own, snap, cs, retired, client>>

\* ... then swap it in.
StoreSwap(t) == LET c == pc[t].c IN
  /\ pc[t].at = "swap"
  /\ cell' = [cell EXCEPT ![c] = pc[t].o] /\ Retire(cell[c], Kind(c))
  /\ Goto(t, Idle)
  /\ UNCHANGED <<heap, own, snap, cs, client>>

\* compare_exchange with a &Snapshot: swap first ...
CasSnap(t, s, c) == LET k == Kind(c)  o == snap[t][s].o IN
  /\ May(t, "cas_snap") /\ Guarded(t) /\ Names(t, Null, c) /\ o # Null /\ Room(k, o)
  /\ k = "strong" => Promotable(snap[t][s])
  /\ own[k][t] = Null
  /\ cell' = [cell EXCEPT ![c] = o] /\ own' = [own EXCEPT ![k][t] = cell[c]]
  /\ Goto(t, [at |-> "inc", s |-> s, k |-> k, o |-> o])
  /\ UNCHANGED <<heap, snap, cs, retired, client>>

\* Mutant: a successful compare_exchange takes no count for the snapshot.
CasIncNone(t) == /\ pc[t].at = "inc" /\ Goto(t, Idle)
                 /\ UNCHANGED <<heap, cell, own, snap, cs, retired, client>>

\* ... then increment.
CasInc(t) == /\ pc[t].at = "inc" /\ Inc(pc[t].k, pc[t].o) /\ Goto(t, Idle)
             /\ UNCHANGED <<life, flag, cell, own, snap, cs, retired, client>>

-------------------------------------------------------------------------------
(* Snapshot. *)

SetSnap(t, s, n) == snap' = [snap EXCEPT ![t][s] = n]
Clear(t, s) == /\ Free(t) /\ snap[t][s] # NoSnap /\ SetSnap(t, s, NoSnap)
               /\ UNCHANGED <<heap, cell, own, cs, retired, pc, client>>

\* protect_snapshot reads the link.  Under EBR that is all; under HP the hazard
\* has to be published, ...  `want` holds what a compare_exchange_protecting_current
\* that has to load again expects.
ReadLink(t, s, c, want) ==
  IF Scheme = "HP"
  THEN /\ Goto(t, [at |-> "publish", s |-> s, c |-> c, want |-> want, o |-> cell[c]])
       /\ UNCHANGED snap
  ELSE /\ SetSnap(t, s, [o |-> cell[c], k |-> Kind(c)])
       /\ Goto(t, [at |-> "check", s |-> s, c |-> c, want |-> want])
Load(t, s, c) ==
  /\ May(t, "load") /\ Guarded(t) /\ Names(t, s, c)
  /\ Kind(c) = "weak" => "load_from_weak" \in Calls
  /\ ReadLink(t, s, c, {})
  /\ UNCHANGED <<heap, cell, own, cs, retired, client>>

Publish(t) == LET p == pc[t] IN
  /\ p.at = "publish"
  /\ SetSnap(t, p.s, [o |-> p.o, k |-> Kind(p.c)])
  /\ Goto(t, [at |-> "validate", s |-> p.s, c |-> p.c, want |-> p.want])
  /\ UNCHANGED <<heap, cell, own, cs, retired, client>>

\* Mutant: the hazard is trusted without reading the link again.
ValidateNone(t) == /\ pc[t].at = "validate"
                   /\ Goto(t, [pc[t] EXCEPT !.at = "check"])
                   /\ UNCHANGED <<heap, cell, own, snap, cs, retired, client>>

\* ... and the link read again, until it agrees with the hazard.
Validate(t) == LET p == pc[t] IN
  /\ p.at = "validate"
  /\ IF cell[p.c] = snap[t][p.s].o
     THEN Goto(t, [p EXCEPT !.at = "check"]) /\ UNCHANGED snap
     ELSE ReadLink(t, p.s, p.c, p.want)
  /\ UNCHANGED <<heap, cell, own, cs, retired, client>>

\* compare_exchange_protecting_current, whose desired pointer is t's Rc, begins
\* as a load; it goes on if that gives the pointer it expects.
MayCas(t) == LET p == pc[t] IN
  /\ "cas_protecting" \in Calls /\ p.c \in Cells /\ Kind(p.c) = "strong"
  /\ NamesMoving(t, p.s, p.c)
CasProtecting(t) == LET p == pc[t]  o == snap'[t][p.s].o IN
  /\ IF p.want = {} THEN MayCas(t) ELSE p.want = {o}
  /\ Goto(t, [p EXCEPT !.at = "cas", !.want = {o}])

\* ref_count() == 0: the snapshot is refused.
Check(t) == LET s == pc[t].s  o == snap[t][s].o IN
  /\ pc[t].at = "check"
  /\ IF o = Null THEN UNCHANGED <<flag, snap>>
     ELSE /\ Observe(o)
          /\ IF ReadsZero(o) THEN SetSnap(t, s, NoSnap) ELSE UNCHANGED snap
  /\ UNCHANGED <<life, cnt, cell, own, cs, retired, client>>
  /\ \/ pc[t].want # {snap'[t][s].o} /\ Goto(t, Idle)
     \/ CasProtecting(t)

\* Mutant: it takes the pointer that it loaded for the one it replaces.
CasSwapBlind(t) == LET p == pc[t] IN
  /\ p.at = "cas" /\ Goto(t, Idle)
  /\ cell' = [cell EXCEPT ![p.c] = own["strong"][t]]
  /\ own'  = [own EXCEPT !["strong"][t] = snap[t][p.s].o]
  /\ UNCHANGED <<heap, snap, cs, retired, client>>

\* ... exchange it, or load again if it has changed.
CasSwap(t) == LET p == pc[t] IN
  /\ p.at = "cas"
  /\ \/ /\ cell[p.c] = snap[t][p.s].o /\ Goto(t, Idle)
        /\ cell' = [cell EXCEPT ![p.c] = own["strong"][t]]
        /\ own'  = [own EXCEPT !["strong"][t] = cell[p.c]]
        /\ UNCHANGED snap
     \/ /\ cell[p.c] # snap[t][p.s].o
        /\ ReadLink(t, p.s, p.c, p.want) /\ UNCHANGED <<cell, own>>
  /\ UNCHANGED <<heap, cs, retired, client>>

\* protect of an Rc, which is enough, and protect_weak, which has to check.
Protect(t, s, k) ==
  /\ May(t, "protect") /\ Guarded(t) /\ own[k][t] # Null
  /\ k = "weak" => "load_from_weak" \in Calls
  /\ SetSnap(t, s, [o |-> own[k][t], k |-> k])
  /\ Goto(t, IF k = "weak" THEN [at |-> "check", s |-> s, c |-> Null, want |-> {}]
             ELSE Idle)
  /\ UNCHANGED <<heap, cell, own, cs, retired, client>>

-------------------------------------------------------------------------------
Owning(t)   == \/ \E o \in Objs : New(t, o)
               \/ \E k \in Kinds : Drop(t, k)
               \/ \E u \in Threads, k \in Kinds : Clone(t, u, k)
               \/ \E s \in Snaps : FromSnapshot(t, s)
               \/ FromStrong(t) \/ Upgrade(t)
Updating(t) == \/ \E c \in Cells : Store(t, c) \/ Swap(t, c)
               \/ \E s \in Snaps, c \in Cells : StoreSnap(t, s, c) \/ CasSnap(t, s, c)
Reading(t)  == \E s \in Snaps : \/ \E c \in Cells : Load(t, s, c)
                                \/ \E k \in Kinds : Protect(t, s, k)
\* What a thread does without being asked by its client.
Continue(t) == \/ StoreSwap(t) \/ CasInc(t) \/ Publish(t) \/ Validate(t) \/ Check(t)
               \/ CasSwap(t)
               \/ Settle(t) \/ ReleaseLast(t) \/ ReleaseDelay(t)
Leaving(t)  == Exit(t) \/ \E s \in Snaps : Clear(t, s)
Collect(t)  == \E e \in BagToSet(retired) : Eject(t, e)
Scanning    == \E e \in BagToSet(retired), u \in Threads, s \in Snaps : Scan(e, u, s)

Next == \/ \E t \in Threads : \/ Enter(t) \/ Leaving(t) \/ Owning(t) \/ Updating(t)
                              \/ Reading(t) \/ Continue(t) \/ Collect(t)
        \/ Scanning

Spec == Init /\ [][Next]_vars

\* Calls return; and clients go on using the library: they end critical
\* sections, drop snapshots, and come back, which is what makes it collect.
Fairness == /\ \A t \in Threads : /\ WF_vars(Continue(t)) /\ WF_vars(Enter(t))
                                  /\ SF_vars(Leaving(t))  /\ SF_vars(Collect(t))
            /\ SF_vars(Scanning)
FairSpec == Spec /\ Fairness

-------------------------------------------------------------------------------
(* Properties. *)

Entries == [o : Objs, k : Kinds \cup {"dispose"}, wait : SUBSET Guards]
Controls == {Idle} \cup [at : {"settle"}, k : Kinds, o : Objs]
                   \cup [at : {"inc"}, s : Snaps, k : Kinds, o : Objs]
                   \cup [at : {"release"}, o : Objs]
                   \cup [at : {"swap"}, c : Cells, o : Objs]
                   \cup [at : {"publish"}, s : Snaps, c : Cells, o : Ptr,
                           want : SUBSET Ptr]
                   \cup [at : {"validate", "check", "cas"}, s : Snaps, c : Cells,
                           want : SUBSET Ptr]
                   \cup [at : {"check"}, s : Snaps, c : {Null}, want : {{}}]

\* The types of the variables; a count stays within its bound.
TypeOK == /\ life \in [Objs -> {"none", "live", "disposed", "freed"}]
          /\ cnt  \in [Kinds -> [Objs -> 0 .. MaxCount + Cardinality(Threads)]]
          /\ flag \in [Kinds -> [Objs -> {"counting", "pending", "zero"}]]
          /\ cell \in [Cells -> Ptr]
          /\ own  \in [Kinds -> [Threads -> Ptr]]
          /\ snap \in [Threads -> [Snaps -> [o : Ptr, k : Kinds]]]
          /\ cs \subseteq Threads
          /\ IsABag(retired) /\ BagToSet(retired) \subseteq Entries
          /\ pc \in [Threads -> Controls]

\* t may dereference its snapshot s: the call that filled it has returned.
Usable(t, s) == ~ (pc[t].at \in {"publish", "validate", "check"} /\ pc[t].s = s)
\* The copies of the entries of a bag, told apart by a number.
Copies(B) == UNION {{e} \X (1 .. B[e]) : e \in BagToSet(B)}
Pending(o, k) == Cardinality({x \in Copies(retired) : x[1].o = o /\ x[1].k = k})
At(l, k, o) == {t \in Threads : /\ pc[t].at = l /\ pc[t].o = o
                                /\ k = IF l = "swap" THEN Kind(pc[t].c) ELSE pc[t].k}
\* References to o of kind k: in cells and variables, in a store under way and
\* in decrements not ejected yet; less those compare_exchange has to count yet.
Owners(k, o) == Cardinality({c \in Cells : Kind(c) = k /\ cell[c] = o})
              + Cardinality({t \in Threads : own[k][t] = o})
              + Pending(o, k) + Cardinality(At("swap", k, o))
Uncounted(k, o) == Cardinality(At("inc", k, o))
Disposers(o) == Cardinality({t \in Threads : pc[t].at = "release" /\ pc[t].o = o})
              + Pending(o, "dispose")
Settlers(k, o) == At("settle", k, o)

\* The value of an object is not dropped while a Snapshot that a client may
\* dereference points to it (the promise of Cs::protect_snapshot and reserve).
SnapshotsSafe == \A t \in Threads, s \in Snaps :
                   snap[t][s].o # Null /\ Usable(t, s) => life[snap[t][s].o] = "live"

\* The value of an object is not dropped while an Rc or an AtomicRc that is
\* itself in a live place points to it.
StrongSafe == \A o \in Objs :
                (\/ \E t \in Threads : own["strong"][t] = o
                 \/ \E c \in Cells : Kind(c) = "strong" /\ cell[c] = o)
                => life[o] = "live"

\* An object is not freed while any code still has to touch its counters: a
\* Weak, an AtomicWeak, a retired entry, or a call under way; and a value is not
\* dropped while a call under way has still to access its AtomicRc field.
Held(t)  == IF pc[t].at \in {"settle", "release", "inc", "swap"} THEN pc[t].o ELSE Null
Field(t) == IF pc[t].at \in {"publish", "validate", "swap", "cas"} THEN pc[t].c ELSE Null
FieldsSafe == \A t \in Threads : Field(t) \in Nodes => life[Field(t)] = "live"
ReferencesSafe ==
  \A o \in Objs : life[o] = "freed" =>
      /\ \A t \in Threads : own["weak"][t] # o
      /\ \A c \in Cells : cell[c] # o
      /\ \A e \in BagToSet(retired) : e.o # o
      /\ \A t \in Threads : pc[t].at = "check" => snap[t][pc[t].s].o # o
CallSafe(t)    == Held(t) \in Objs => life[Held(t)] # "freed"
NoUseAfterFree == FieldsSafe /\ ReferencesSafe /\ \A t \in Threads : CallSafe(t)

\* A count equals the number of its owners, and a counter that is zero for
\* good has none; the weak count has one more for the value (release_ref and
\* dispose give it up).
CountsExact ==
  \A o \in Objs, k \in Kinds : life[o] \in {"live", "disposed"} =>
    LET extra == IF k = "weak" /\ life[o] = "live" THEN 1 ELSE 0
    IN  (IF flag[k][o] = "counting" THEN cnt[k][o] ELSE 0) + Uncounted(k, o)
          = Owners(k, o) + extra

\* Nothing leaks: an object without strong owners has someone who will drop
\* its value, and one without weak owners someone who will free it.
NoLeak == \A o \in Objs :
            /\ life[o] = "live" /\ Owners("strong", o) = 0
                 => Disposers(o) = 1 \/ Settlers("strong", o) # {}
            /\ life[o] = "disposed" /\ Owners("weak", o) = 0
                 => Settlers("weak", o) # {}

\* No client can reach o any more; only retired entries and calls know it.
Abandoned(o) == /\ life[o] \in {"live", "disposed"}
                /\ \A k \in Kinds, t \in Threads : own[k][t] # o
                /\ \A c \in Cells : cell[c] # o
                /\ \A t \in Threads, s \in Snaps : snap[t][s].o # o
                /\ \A t \in Threads : pc[t].at # "swap" \/ pc[t].o # o

\* What nobody can reach is freed in the end, however the decrements, the
\* disposal and the loads that race with them are interleaved.
Reclaimed == \A o \in Objs : Abandoned(o) ~> life[o] = "freed"

\* Snapshot::load of an AtomicRc never finds the count zero (its debug_assert).
LoadSucceeds == \A t \in Threads :
                  pc[t].at = "check" =>
                    LET n == snap[t][pc[t].s]
                    IN  n.k = "strong" /\ n.o # Null => ~ReadsZero(n.o)
===============================================================================
