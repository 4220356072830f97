--------------------------------- MODULE EBR ---------------------------------
(***************************************************************************)
(* The epoch-based collector of ebr_impl: Global (epoch, list of Locals,   *)
(* queue of sealed bags), Local (local epoch, bag, guard count, handle)    *)
(* and Guard.  Every access to shared memory is an action of its own;      *)
(* thread-local work is merged into the access next to it.  The list and   *)
(* the queue are taken as atomic objects.  A Local is named after its      *)
(* owner thread, and a deferred function is an item that runs once.        *)
(***************************************************************************)
EXTENDS Integers, Sequences, FiniteSets

CONSTANTS Threads,     \* participants (Locals) that may ever register
          Items,       \* deferred functions
          Nodes,       \* those of them that free a node of the queue, for as many pops
          NoItem,      \* "no item" in arg
          H,           \* half the number of epochs; 2^62 in the code
          MAX_OBJECTS, \* bag capacity; 64 by default
          TRIALS,      \* COLLECTS_MIN_TRIALS; 8 in the code
          MaxGuards,   \* nesting of guards in one thread
          Writers,     \* threads that defer and flush; the others only read
          Calls        \* calls clients make, of those a client can do without

ASSUME EpochAssumption == H \in Nat /\ H >= 4
ASSUME ItemAssumption  == NoItem \notin Items /\ Nodes \subseteq Items
ASSUME SizeAssumption  == /\ MAX_OBJECTS \in Nat \ {0} /\ TRIALS \in Nat \ {0}
                          /\ MaxGuards \in Nat \ {0}

M        == 2 * H
Epochs   == 0 .. M - 1
Unpinned == -1                  \* the local epoch `starting()`, pin bit clear

Succ(e)    == IF e + 1 = M THEN 0 ELSE e + 1
\* wrapping_sub: the signed distance, in -H .. H-1.
Dist(a, b) == LET d == IF a >= b THEN a - b ELSE a - b + M
              IN  IF d < H THEN d ELSE d - M

VARIABLES
  global,         \* Global.epoch
  reg,            \* reg[t]: Local not yet inserted, in the list, or deleted
  handle,         \* handle_count > 0
  guards,         \* guard_count
  local,          \* Local.epoch
  pc, mode,       \* control point, and the call it belongs to
  gr,             \* the global epoch that pin, repin or try_advance read
  todo,           \* Locals the scan of try_advance has still to look at
  bag, arg,       \* Local.bag, and the item that found it full
  sealed,         \* the SealedBag push_bag is about to push
  queue,          \* Global.queue
  collecting,     \* Local.collecting
  cgr, trials,    \* collect: the epoch it works with, pops left
  run,            \* functions of the popped bag, not executed yet
  owes,           \* collect has still to take the popped bag off the count
  garbage,        \* GLOBAL_GARBAGE_COUNT
  deferred, wit, done   \* history, as in Reclamation

thr    == <<reg, handle, guards, local, pc, mode, gr, todo>>
bags   == <<bag, arg, sealed, queue, garbage>>
coll   == <<collecting, cgr, trials, run, owes>>
hist   == <<deferred, wit, done>>
vars   == <<global, thr, bags, coll, hist>>

\* Inside a critical section: pinned, validated and not giving up its pointers.
InGuard(t) == guards[t] > 0 /\ pc[t] \notin {"pin", "loaded", "stored", "undo", "repin"}
Guarded    == {t \in Threads : InGuard(t)}
Forget(t)  == wit' = [i \in Items |-> wit[i] \ {t}]
Goto(t, l) == pc' = [pc EXCEPT ![t] = l]

\* Where a call returns to: the user, or the pop or the bag that collect is at.
Ret(t) == IF ~collecting[t] THEN "idle" ELSE IF owes[t] THEN "discount" ELSE "run"
\* A thread that may call the collector through a guard.
Ready(t) == pc[t] = "run" \/ (pc[t] = "idle" /\ guards[t] > 0)

Init ==
  /\ global = 0
  /\ reg = [t \in Threads |-> "out"]
  /\ handle = [t \in Threads |-> FALSE]
  /\ guards = [t \in Threads |-> 0]
  /\ local = [t \in Threads |-> Unpinned]
  /\ pc = [t \in Threads |-> "idle"] /\ mode = [t \in Threads |-> "defer"]
  /\ gr = [t \in Threads |-> 0] /\ todo = [t \in Threads |-> {}]
  /\ bag = [t \in Threads |-> {}] /\ arg = [t \in Threads |-> NoItem]
  /\ sealed = [t \in Threads |-> [epoch |-> 0, items |-> {}]]
  /\ queue = <<>> /\ garbage = 0
  /\ collecting = [t \in Threads |-> FALSE]
  /\ cgr = [t \in Threads |-> 0] /\ trials = [t \in Threads |-> 0]
  /\ run = [t \in Threads |-> {}] /\ owes = [t \in Threads |-> FALSE]
  /\ deferred = {} /\ wit = [i \in Items |-> {}] /\ done = {}

------------------------------------------------------------------------------
\* Mutants: plausible slips in the code, used to show that the properties can
\* fail.

\* pin does not look at the global epoch again after its store.
PinCheckNone(t) ==
  /\ pc[t] = "stored" /\ Goto(t, IF mode[t] = "fin" THEN "fin" ELSE "idle")
  /\ UNCHANGED <<global, reg, handle, guards, local, mode, gr, todo, bags, coll, hist>>

\* finalize does not push the bag of the exiting thread.
FinUnpinKeepsBag(t) ==
  /\ pc[t] = "fin" /\ local' = [local EXCEPT ![t] = Unpinned] /\ Forget(t)
  /\ guards' = [guards EXCEPT ![t] = 0] /\ Goto(t, "delete")
  /\ UNCHANGED <<global, reg, handle, mode, gr, todo, bags, coll, deferred, done>>

\* push_bag seals with the epoch of the pushing thread.
SealLocal(t) ==
  /\ pc[t] = "epoch"
  /\ sealed' = [sealed EXCEPT ![t] = [epoch |-> local[t], items |-> bag[t]]]
  /\ bag' = [bag EXCEPT ![t] = {}] /\ Goto(t, "push")
  /\ UNCHANGED <<global, reg, handle, guards, local, mode, gr, todo, arg, queue, garbage, coll,
                 hist>>

\* collect subtracts the length of the bag when Bag::drop has emptied it.
DiscountLate(t) ==
  /\ pc[t] = "discount" /\ Goto(t, "run")
  /\ owes' = [owes EXCEPT ![t] = FALSE]
  /\ UNCHANGED <<global, reg, handle, guards, local, mode, gr, todo, bags, collecting, cgr,
                 trials, run, hist>>

\* try_advance does not compare the epochs of pinned participants.
MayPassAny(t, u) == TRUE

\* is_expired takes the distance without its sign.
ExpiredUnsigned(b, e) == (IF e >= b.epoch THEN e - b.epoch ELSE e - b.epoch + M) >= 3
------------------------------------------------------------------------------
\* Local::register.
Register(t) ==
  /\ reg[t] = "out"
  /\ reg' = [reg EXCEPT ![t] = "in"] /\ handle' = [handle EXCEPT ![t] = TRUE]
  /\ UNCHANGED <<global, guards, local, pc, mode, gr, todo, bags, coll, hist>>

\* Local::pin of an unpinned Local: the loop load, store, check, undo.
Pin(t) ==
  /\ handle[t] /\ pc[t] = "idle" /\ guards[t] = 0
  /\ guards' = [guards EXCEPT ![t] = 1] /\ Goto(t, "pin")
  /\ mode' = [mode EXCEPT ![t] = "defer"]
  /\ UNCHANGED <<global, reg, handle, local, gr, todo, bags, coll, hist>>

PinLoad(t) ==
  /\ pc[t] = "pin"
  /\ gr' = [gr EXCEPT ![t] = global] /\ Goto(t, "loaded")
  /\ UNCHANGED <<global, reg, handle, guards, local, mode, todo, bags, coll, hist>>

PinStore(t) ==
  /\ pc[t] = "loaded"
  /\ local' = [local EXCEPT ![t] = gr[t]] /\ Goto(t, "stored")
  /\ UNCHANGED <<global, reg, handle, guards, mode, gr, todo, bags, coll, hist>>

PinCheck(t) ==
  /\ pc[t] = "stored"
  /\ Goto(t, IF local[t] # global THEN "undo" ELSE IF mode[t] = "fin" THEN "fin" ELSE "idle")
  /\ UNCHANGED <<global, reg, handle, guards, local, mode, gr, todo, bags, coll, hist>>

PinUndo(t) ==
  /\ pc[t] = "undo"
  /\ local' = [local EXCEPT ![t] = Unpinned] /\ Goto(t, "pin")
  /\ UNCHANGED <<global, reg, handle, guards, mode, gr, todo, bags, coll, hist>>

\* Local::pin of a pinned Local only counts.
PinNested(t) ==
  /\ handle[t] /\ pc[t] = "idle" /\ guards[t] \in 1 .. MaxGuards - 1
  /\ guards' = [guards EXCEPT ![t] = @ + 1]
  /\ UNCHANGED <<global, reg, handle, local, pc, mode, gr, todo, bags, coll, hist>>

\* Local::unpin that leaves another guard.
UnpinNested(t) ==
  /\ pc[t] = "idle" /\ guards[t] > 1
  /\ guards' = [guards EXCEPT ![t] = @ - 1]
  /\ UNCHANGED <<global, reg, handle, local, pc, mode, gr, todo, bags, coll, hist>>

\* Local::finalize begins: its own pin, which sets guard_count to 1 again.
StartFinalize(t) ==
  /\ guards' = [guards EXCEPT ![t] = 1] /\ Goto(t, "pin")
  /\ mode' = [mode EXCEPT ![t] = "fin"]

\* Local::unpin of the last guard.
Unpin(t) ==
  /\ pc[t] = "idle" /\ guards[t] = 1
  /\ local' = [local EXCEPT ![t] = Unpinned] /\ Forget(t)
  /\ IF handle[t] THEN guards' = [guards EXCEPT ![t] = 0] /\ UNCHANGED <<pc, mode>>
                  ELSE StartFinalize(t)
  /\ UNCHANGED <<global, reg, handle, gr, todo, bags, coll, deferred, done>>

\* Guard::repin_after(|| {}), CsEBR::clear: unpin and pin under an extra handle.
RepinAfter(t) ==
  /\ "repin_after" \in Calls /\ pc[t] = "idle" /\ guards[t] = 1
  /\ local' = [local EXCEPT ![t] = Unpinned] /\ Forget(t)
  /\ Goto(t, "pin") /\ mode' = [mode EXCEPT ![t] = "defer"]
  /\ UNCHANGED <<global, reg, handle, guards, gr, todo, bags, coll, deferred, done>>

\* Local::repin: move the local epoch without leaving the pinned state.
Repin(t) ==
  /\ "repin" \in Calls /\ pc[t] = "idle" /\ guards[t] = 1
  /\ gr' = [gr EXCEPT ![t] = global] /\ Goto(t, "repin") /\ Forget(t)
  /\ UNCHANGED <<global, reg, handle, guards, local, mode, todo, bags, coll, deferred, done>>

RepinStore(t) ==
  /\ pc[t] = "repin"
  /\ local' = [local EXCEPT ![t] = gr[t]] /\ Goto(t, "idle")
  /\ UNCHANGED <<global, reg, handle, guards, mode, gr, todo, bags, coll, hist>>

\* Local::release_handle, by LocalHandle::drop.
ReleaseHandle(t) ==
  /\ "exit" \in Calls /\ handle[t] /\ pc[t] = "idle"
  /\ handle' = [handle EXCEPT ![t] = FALSE]
  /\ IF guards[t] = 0 THEN StartFinalize(t) ELSE UNCHANGED <<guards, pc, mode>>
  /\ UNCHANGED <<global, reg, local, gr, todo, bags, coll, hist>>

\* Local::finalize, once pinned: push_to_global, unpin, delete the list entry.
FinPush(t) ==
  /\ pc[t] = "fin" /\ bag[t] # {}
  /\ Goto(t, "seal")
  /\ UNCHANGED <<global, reg, handle, guards, local, mode, gr, todo, bags, coll, hist>>

FinUnpin(t) ==
  /\ pc[t] = "fin" /\ bag[t] = {}
  /\ local' = [local EXCEPT ![t] = Unpinned] /\ Forget(t)
  /\ guards' = [guards EXCEPT ![t] = 0] /\ Goto(t, "delete")
  /\ UNCHANGED <<global, reg, handle, mode, gr, todo, bags, coll, deferred, done>>

FinDelete(t) ==
  /\ pc[t] = "delete"
  /\ reg' = [reg EXCEPT ![t] = "gone"] /\ Goto(t, "idle")
  /\ UNCHANGED <<global, handle, guards, local, mode, gr, todo, bags, coll, hist>>
------------------------------------------------------------------------------
\* Local::defer: into the bag, or push the full bag first.
PutInBag(t, i) ==
  /\ i \notin deferred
  /\ deferred' = deferred \union {i} /\ wit' = [wit EXCEPT ![i] = Guarded]
  /\ mode' = [mode EXCEPT ![t] = "defer"]
  /\ IF Cardinality(bag[t]) < MAX_OBJECTS
       THEN bag' = [bag EXCEPT ![t] = @ \union {i}] /\ arg' = arg /\ Goto(t, "count")
       ELSE bag' = bag /\ arg' = [arg EXCEPT ![t] = i] /\ Goto(t, "seal")
  /\ UNCHANGED <<global, reg, handle, guards, local, gr, todo, sealed, queue, garbage,
                 coll, done>>

Defer(t, i) == t \in Writers /\ Ready(t) /\ i \notin Nodes /\ PutInBag(t, i)

\* Local::flush and Local::push_to_global: an empty bag is not pushed.
FlushBag(t, m, next) ==
  /\ t \in Writers /\ Ready(t)
  /\ mode' = [mode EXCEPT ![t] = m]
  /\ Goto(t, IF bag[t] = {} THEN next ELSE "seal")
  /\ UNCHANGED <<global, reg, handle, guards, local, gr, todo, bags, coll, hist>>

Flush(t)        == FlushBag(t, "flush", "count")
PushToGlobal(t) == "push" \in Calls /\ bag[t] # {} /\ FlushBag(t, "push", Ret(t))

\* push_bag: count, ...
CountBag(t) ==
  /\ pc[t] = "seal"
  /\ garbage' = garbage + Cardinality(bag[t])
  /\ Goto(t, "epoch")
  /\ UNCHANGED <<global, reg, handle, guards, local, mode, gr, todo, bag, arg, sealed, queue,
                 coll, hist>>

\* ... take the bag, read the global epoch and seal with it, ...
Seal(t) ==
  /\ pc[t] = "epoch"
  /\ sealed' = [sealed EXCEPT ![t] = [epoch |-> global, items |-> bag[t]]]
  /\ bag' = [bag EXCEPT ![t] = {}]
  /\ Goto(t, "push")
  /\ UNCHANGED <<global, reg, handle, guards, local, mode, gr, todo, arg, queue, garbage, coll,
                 hist>>

\* ... and push it; then the item that found the bag full goes in.
Push(t) ==
  /\ pc[t] = "push"
  /\ queue' = Append(queue, sealed[t])
  /\ sealed' = [sealed EXCEPT ![t] = [epoch |-> 0, items |-> {}]]
  /\ bag' = [bag EXCEPT ![t] = {arg[t]} \ {NoItem}]
  /\ arg' = [arg EXCEPT ![t] = NoItem]
  /\ Goto(t, CASE mode[t] = "fin" -> "fin" [] mode[t] = "push" -> Ret(t) [] OTHER -> "count")
  /\ UNCHANGED <<global, reg, handle, guards, local, mode, gr, todo, garbage, coll, hist>>

\* incr_counts.  Its counters are compared modulo MAX_OBJECTS, a `static mut`
\* that set_bag_capacity may change at any time, so any outcome is possible,
\* except that flush always does one of the two.
CountNothing(t) ==
  /\ pc[t] = "count" /\ mode[t] = "defer"
  /\ Goto(t, Ret(t))
  /\ UNCHANGED <<global, reg, handle, guards, local, mode, gr, todo, bags, coll, hist>>

\* try_advance, alone or for collect, reads the global epoch and starts to
\* iterate over the Locals in the list.
Count(t) ==
  /\ pc[t] = "count"
  /\ \E m \in {"advance", "collect"} : mode' = [mode EXCEPT ![t] = m]
  /\ gr' = [gr EXCEPT ![t] = global]
  /\ todo' = [todo EXCEPT ![t] = {u \in Threads : reg[u] = "in"}]
  /\ Goto(t, "scan")
  /\ UNCHANGED <<global, reg, handle, guards, local, bags, coll, hist>>

\* try_advance returned e: collect begins its loop unless it is already running.
Advanced(t, e) ==
  IF mode[t] = "advance" \/ collecting[t]
    THEN Goto(t, Ret(t)) /\ UNCHANGED <<collecting, cgr, trials>>
    ELSE /\ collecting' = [collecting EXCEPT ![t] = TRUE]
         /\ cgr' = [cgr EXCEPT ![t] = e] /\ trials' = [trials EXCEPT ![t] = TRIALS]
         /\ Goto(t, "loop")

\* One Local of the scan: deleted, unpinned or pinned in the epoch read: go on;
\* pinned in another epoch: give up.
MayPass(t, u) == reg[u] = "gone" \/ local[u] \in {Unpinned, gr[t]}

Scan(t, u) ==
  /\ pc[t] = "scan" /\ u \in todo[t] /\ MayPass(t, u)
  /\ todo' = [todo EXCEPT ![t] = @ \ {u}]
  /\ UNCHANGED <<global, reg, handle, guards, local, pc, mode, gr, bags, coll, hist>>

\* The iterator may report Stalled only while a deleted Local is around.
ScanFail(t) ==
  /\ pc[t] = "scan"
  /\ \/ \E u \in todo[t] : ~MayPass(t, u)
     \/ \E u \in Threads : reg[u] = "gone"
  /\ todo' = [todo EXCEPT ![t] = {}]
  /\ Advanced(t, gr[t])
  /\ UNCHANGED <<global, reg, handle, guards, local, mode, gr, bags, run, owes, hist>>

\* try_advance, the blind store of the successor epoch.
Advance(t) ==
  /\ pc[t] = "scan" /\ todo[t] = {}
  /\ global' = Succ(gr[t])
  /\ Advanced(t, Succ(gr[t]))
  /\ UNCHANGED <<reg, handle, guards, local, mode, gr, todo, bags, run, owes, hist>>

\* SealedBag::is_expired.
Expired(b, e) == Dist(e, b.epoch) >= 3

\* collect: try_pop_if takes the head of the queue if it has expired.
CanPop(t) == trials[t] > 0 /\ queue # <<>> /\ Expired(Head(queue), cgr[t])

Pop(t) ==
  /\ pc[t] = "loop" /\ CanPop(t)
  /\ queue' = Tail(queue)
  /\ run' = [run EXCEPT ![t] = Head(queue).items] /\ owes' = [owes EXCEPT ![t] = TRUE]
  /\ trials' = [trials EXCEPT ![t] = @ - 1]
  /\ Goto(t, "popped")
  /\ UNCHANGED <<global, reg, handle, guards, local, mode, gr, todo, bag, arg, sealed, garbage,
                 collecting, cgr, hist>>

\* The pop defers the destruction of the node that was the head before it, in
\* the middle of collect.  A bound: when all of Nodes are used, it does not.
DeferNode(t, i) == pc[t] = "popped" /\ PutInBag(t, i)

LeakNode(t) ==
  /\ pc[t] = "popped" /\ Nodes \subseteq deferred
  /\ Goto(t, "discount")
  /\ UNCHANGED <<global, reg, handle, guards, local, mode, gr, todo, bags, coll, hist>>

\* Then collect takes the bag off the count.
Discount(t) ==
  /\ pc[t] = "discount"
  /\ garbage' = garbage - Cardinality(run[t])
  /\ owes' = [owes EXCEPT ![t] = FALSE]
  /\ Goto(t, "run")
  /\ UNCHANGED <<global, reg, handle, guards, local, mode, gr, todo, bag, arg, sealed, queue,
                 collecting, cgr, trials, run, hist>>

CollectEnd(t) ==
  /\ pc[t] = "loop" /\ ~CanPop(t)
  /\ collecting' = [collecting EXCEPT ![t] = FALSE]
  /\ Goto(t, "idle")
  /\ UNCHANGED <<global, reg, handle, guards, local, mode, gr, todo, bags, cgr, trials,
                 run, owes, hist>>

\* Bag::drop: call the deferred functions, then on to the next bag.
Execute(t, i) ==
  /\ pc[t] = "run" /\ i \in run[t]
  /\ run' = [run EXCEPT ![t] = @ \ {i}] /\ done' = done \union {i}
  /\ UNCHANGED <<global, thr, bags, collecting, cgr, trials, owes, deferred, wit>>

BagDropped(t) ==
  /\ pc[t] = "run" /\ run[t] = {}
  /\ Goto(t, "loop")
  /\ UNCHANGED <<global, reg, handle, guards, local, mode, gr, todo, bags, coll, hist>>
------------------------------------------------------------------------------
Pinning(t)  == Pin(t) \/ PinLoad(t) \/ PinStore(t) \/ PinCheck(t) \/ PinUndo(t) \/ PinNested(t)
Unpinning(t) == UnpinNested(t) \/ Unpin(t) \/ RepinAfter(t) \/ Repin(t) \/ RepinStore(t)
Lifetime(t) == Register(t) \/ ReleaseHandle(t) \/ FinPush(t) \/ FinUnpin(t) \/ FinDelete(t)
Deferring(t) == \/ \E i \in Items : Defer(t, i)
                \/ Flush(t) \/ PushToGlobal(t) \/ CountBag(t) \/ Seal(t) \/ Push(t)
                \/ CountNothing(t) \/ Count(t)
Collecting(t) == \/ \E u \in Threads : Scan(t, u)
                 \/ ScanFail(t) \/ Advance(t) \/ Pop(t)
                 \/ \E i \in Nodes : DeferNode(t, i)
                 \/ LeakNode(t) \/ Discount(t) \/ CollectEnd(t)
                 \/ \E i \in Items : Execute(t, i)
                 \/ BagDropped(t)

Step(t) == Pinning(t) \/ Unpinning(t) \/ Lifetime(t) \/ Deferring(t) \/ Collecting(t)
Next    == \E t \in Threads : Step(t)

Spec == Init /\ [][Next]_vars
------------------------------------------------------------------------------
PCs   == {"idle", "pin", "loaded", "stored", "undo", "repin", "fin", "delete",
          "seal", "epoch", "push", "count", "scan", "loop", "popped", "discount", "run"}
Modes == {"defer", "flush", "push", "fin", "advance", "collect"}
SealedBag == [epoch : Epochs, items : SUBSET Items]

\* Every variable keeps its type.
TypeOK ==
  /\ global \in Epochs
  /\ reg \in [Threads -> {"out", "in", "gone"}]
  /\ handle \in [Threads -> BOOLEAN] /\ collecting \in [Threads -> BOOLEAN]
  /\ owes \in [Threads -> BOOLEAN]
  /\ guards \in [Threads -> Nat] /\ trials \in [Threads -> Nat]
  /\ local \in [Threads -> Epochs \union {Unpinned}]
  /\ pc \in [Threads -> PCs] /\ mode \in [Threads -> Modes]
  /\ gr \in [Threads -> Epochs] /\ cgr \in [Threads -> Epochs]
  /\ todo \in [Threads -> SUBSET Threads]
  /\ bag \in [Threads -> SUBSET Items] /\ run \in [Threads -> SUBSET Items]
  /\ arg \in [Threads -> Items \union {NoItem}]
  /\ sealed \in [Threads -> SealedBag] /\ queue \in Seq(SealedBag)
  /\ deferred \subseteq Items /\ done \subseteq Items
  /\ wit \in [Items -> SUBSET Threads]

\* "A pinned participant can witness at most one epoch advancement"
\* (is_expired), although the pin loop reads, stores and re-reads the epoch in
\* three steps and try_advance stores an epoch it read long before.
EpochSkew == \A t \in Threads : InGuard(t) => global \in {local[t], Succ(local[t])}

\* The grace period: when collect calls a deferred function, every thread that
\* was in a critical section when it was deferred has left that section.
GracePeriod == \A t \in Threads : \A i \in run[t] : wit[i] = {}

\* "after two advancements no participant will hold a reference to it": of a
\* bag sealed in epoch s nothing is in use two epochs later, one epoch before
\* is_expired lets it go, also when the epoch wraps around.
TwoAdvancements ==
  \A k \in 1 .. Len(queue) :
    Dist(global, queue[k].epoch) >= 2 => \A i \in queue[k].items : wit[i] = {}

\* The inductive invariant behind the three properties above.
PinLoop  == {"pin", "loaded", "stored", "undo"}
Working  == {"seal", "epoch", "push", "count", "scan", "loop", "popped", "discount", "run"}
\* The local epoch binds the collector: in a critical section or changing it.
Binding(t) == InGuard(t) \/ pc[t] = "repin"
Near(e, t) == e \in {local[t], Succ(local[t])}

ControlOK ==
  \A t \in Threads :
    /\ pc[t] \in PinLoop \union Working \union {"fin", "repin"} => guards[t] > 0
    /\ pc[t] = "delete" => guards[t] = 0
    /\ guards[t] > 0 \/ handle[t] \/ pc[t] = "delete" => reg[t] = "in"
    /\ \/ pc[t] \in {"fin", "delete"}
       \/ pc[t] \in PinLoop \union {"seal", "epoch", "push"} /\ mode[t] = "fin"
       => ~handle[t] /\ ~collecting[t]
    /\ pc[t] \in {"loop", "popped", "discount", "run"} => collecting[t]
    /\ collecting[t] => pc[t] \in Working
SkewOK == \A t \in Threads : Binding(t) => local[t] \in Epochs /\ Near(global, t)
\* An epoch read under a pin is near it, and is not ahead of the global epoch.
ReadOK(t) == Near(gr[t], t) /\ (gr[t] # local[t] => global = gr[t])
ScanOK ==
  \A t \in Threads : pc[t] = "scan" =>
    /\ ReadOK(t)
    /\ t \notin todo[t] => gr[t] = local[t]
    /\ global = gr[t] => \A u \in Threads \ todo[t] : Binding(u) => local[u] = gr[t]
RepinOK   == \A t \in Threads : pc[t] = "repin" => ReadOK(t)
CollectOK == \A t \in Threads : collecting[t] => Near(cgr[t], t)
WitnessOK == \A i \in Items : \A t \in wit[i] : InGuard(t)
BagOK(b)  == \A i \in b.items : i \in deferred /\ \A t \in wit[i] : Near(b.epoch, t)
SealOK    == (\A t \in Threads : BagOK(sealed[t])) /\ (\A k \in 1 .. Len(queue) : BagOK(queue[k]))
FreshOK   == \A t \in Threads : /\ run[t] \union bag[t] \subseteq deferred
                                /\ arg[t] \in deferred \union {NoItem}

IInv == /\ TypeOK /\ ControlOK /\ SkewOK /\ ScanOK /\ RepinOK /\ CollectOK
        /\ WitnessOK /\ SealOK /\ FreshOK /\ GracePeriod

\* The blind store of try_advance never moves the epoch back nor by two.
EpochStep == [][global' \in {global, Succ(global)}]_vars

\* The places a deferred function can be in, of threads that still run.
Alive  == {t \in Threads : reg[t] = "in"}
Places(i) ==
  Cardinality({t \in Alive : i \in bag[t]}) + Cardinality({t \in Alive : arg[t] = i})
  + Cardinality({t \in Alive : i \in sealed[t].items}) + Cardinality({t \in Alive : i \in run[t]})
  + Cardinality({k \in 1 .. Len(queue) : i \in queue[k].items})

\* A deferred function is in exactly one place until it is executed and in none
\* after: nothing is lost when a bag is full, when bags change hands or when a
\* thread exits, and nothing runs twice.
EachItemOnce == \A i \in Items : Places(i) = IF i \in deferred \ done THEN 1 ELSE 0

\* GLOBAL_GARBAGE_COUNT, which pusher and popper update away from the queue, is
\* the size of the bags a push has counted and no collect has taken off again,
\* wherever they are on the way; so it never wraps below zero, also when the pop
\* itself pushes another bag before it gets to the count.
Counted(i) == \/ \E t \in Threads : \/ pc[t] = "epoch" /\ i \in bag[t]
                                    \/ i \in sealed[t].items
                                    \/ owes[t] /\ i \in run[t]
              \/ \E k \in 1 .. Len(queue) : i \in queue[k].items
GarbageExact == garbage = Cardinality({i \in Items : Counted(i)})

\* The collector keeps the promise the reference counts are built on.
R == INSTANCE Reclamation WITH guarded <- Guarded
Refinement == R!Spec
==============================================================================
