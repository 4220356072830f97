# A verification development of cdrc-rs

cdrc-rs is concurrent deferred reference counting (CDRC): `AtomicRc`, `Rc`,
`AtomicWeak` and `Weak` count references, `Snapshot` reads an object without
counting it, and a decrement is *retired* to a safe-memory-reclamation scheme
(EBR or hazard pointers) and executed once nobody can be using the object
through a snapshot any more. This directory holds TLA+ models of the counter,
of the reference-counting layer, of both schemes and of the lock-free list and
queue under EBR, the TLC runs that check them, and TLAPS proofs about the
counter, the reference counts, the epoch-based collector, the hazard-pointer
domain and the queue.

Contents: [1 Inventory](#1-inventory), [2 Plan](#2-plan),
[3 Modules and code](#3-modules-and-code), [4 Runs](#4-runs),
[5 Disagreements found](#5-disagreements-found), [6 Proofs](#6-proofs),
[7 Not modelled](#7-not-modelled), [8 Running it](#8-running-it).

Paths below are relative to the repository's `src/`.

## 1 Inventory

### 1.1 Components

| component | code | state | operations | correct when |
|---|---|---|---|---|
| Counter | `internal/utils.rs` `Count` | one word: count, zero flag, zero-pending flag | `increment`, `decrement`, `load` | zero is final; exactly one decrement learns of it; no increment is lost |
| Counted objects | `internal/utils.rs` `Counted`, `internal/smr_common.rs` `Cs` | strong and weak counter, value | `add_ref`, `release_ref`, `add_weak`, `release_weak`, `dispose`, `destroy`, `eject`, delayed decrements | the value is dropped once and the memory freed once, neither early nor never |
| Strong references | `strongs.rs` | the link of an `AtomicRc`, the pointer of an `Rc`, the shield of a `Snapshot` | `store`, `swap`, `compare_exchange*`, `clone`, `from_snapshot`, drop; `Snapshot::load`, `load_from_weak`, `protect*`, `clear`, `swap`, `copy_to` | counts equal owners; no snapshot outlives the value it shows |
| Weak references | `weaks.rs` | the same over the weak counter | the same, `from_strong`, `upgrade` | `upgrade` succeeds only on an object that stays alive |
| EBR binding | `internal/smr/ebr.rs` `CsEBR` | a guard or none | `new`, `retire`, `protect_snapshot`, `reserve`, `clear`, `eager_reclaim` | a retired decrement waits for every critical section it must wait for |
| Collector | `internal/smr/ebr_impl/{internal,guard,epoch,collector,default}.rs` | global epoch, list of participants, queue of sealed bags; per thread: epoch, bag, guard and handle counts | `register`, `pin`, `unpin`, `repin`, `repin_after`, `defer`, `flush`, `push_to_global`, `try_advance`, `collect`, `finalize` | the grace period: what is deferred runs once, after every guard of that moment is gone |
| HP binding | `internal/smr/hp.rs` `CsHP`, `AcquiredHP` | a thread; per shield a slot and a pointer | `retire`, `protect_snapshot`, `reserve`, shield `clear`, `swap`, `copy_to` | a protected pointer is not reclaimed |
| Hazard domain | `internal/smr/hp_impl/*.rs` | list of thread records, slot arrays, list of retired pointers, garbage counter; per thread: free slots, local batch, flags | start, exit, `acquire`, `grow_array`, `defer`, `eager_reclaim`, `do_reclamation`, scan | as above, while arrays grow and records are recycled |
| Participant list | `.../ebr_impl/sync/list.rs` | the head word; per entry a link with a mark | `insert`, `delete`, iteration with unlinking and stalls, drop | an iteration misses no pinned participant; each entry is finalized once, and not under an iterator |
| Bag queue | `.../ebr_impl/sync/queue.rs` | head, tail that may lag, linked nodes | `push`, `try_pop`, `try_pop_if`, drop | FIFO, nothing lost or popped twice; no node in use is freed; lock-free |
| Tagged pointers | `.../ebr_impl/atomic.rs` | a word: address and tag | `compose_tag`, `decompose_tag`, `compare_exchange`, `fetch_or` | a tag never changes the address |
| Once cell, closures, typed pointers | `sync/once_lock.rs`, `deferred.rs`, `retire.rs`, the rest of `atomic.rs`, `Tagged` | - | layout and typing | not a matter of control |

### 1.2 How they interact

* A client holds `Rc`, `Weak` and `Snapshot` values and calls them with a `Cs`.
* Giving up a reference calls `Cs::retire` (`smr_common.rs:115-125`), which
  stores a closure in the scheme. The scheme calls it back on whatever thread
  happens to collect: `Cs::eject` decrements, and may dispose or destroy.
* Disposing drops the value, which drops its `AtomicRc` fields, which retires
  again, in the middle of the collection: schemes are reentrant.
* The collector and the hazard domain read every thread's state without locks.
  There is no background thread: reclamation happens inside clients' calls.

### 1.3 What is hard

Everything here is interleaving. Decrements, increments and loads race over the
moment a counter becomes zero; a link is read, then protected, then read again;
epochs are read, published and re-read; a scan passes slots one by one while
they change; functions that run in a collection start another one. There are no
messages, no persistence and no timeouts. `PROJECT.json` lists each hazard with
its line and the properties that would catch it.

## 2 Plan

The order follows how much of the system rests on a part.

1. `StickyCountSpec`, `StickyCount`: the counter, and the promise made about it. *Done, proved.*
2. `Reclamation`, `EBR`: the collector, and the promise CDRC needs. *Done; the
   grace period, the single place of each function, the garbage count and the
   refinement are proved.*
3. `CDRC`: counted objects and every reference type over both schemes. *Done; the
   counts, the safety of strong references and snapshots, the absence of leaks
   and of accesses to freed objects are proved.*
4. `HPDomain`: the hazard domain slot by slot. *Done; types, the slot
   discipline, the protection of hazards and arrays, the single place of each
   entry and the garbage count are proved.*
5. `TaggedPtr`, `ParticipantList`: the list `try_advance` scans, over tagged
   words. *Done, proved.*
6. `BagQueue`, `MSQueue`: the queue of sealed bags with its lagging tail, shown
   to implement the atomic queue `EBR` uses. *Done; the safety of nodes and the
   refinement are proved.*
7. Next: a module for the promise of a hazard domain ("an entry is called when a
   scan that began after it was retired has met its pointer nowhere"), with
   `HPDomain` shown to implement it, as `EBR` implements `Reclamation`.

Composition: `StickyCount` implements `StickyCountSpec`, which is the counter
inside `CDRC`; `EBR` implements `Reclamation`, whose witness sets are the
`wait` sets of `CDRC` with `Scheme = "EBR"`; `HPDomain` does the same for
`Scheme = "HP"`. `MSQueue` implements `BagQueue`, the queue that `EBR` holds in
one variable; `IterationComplete` and `EachFinalizedOnce` of `ParticipantList`
are what the scan of `EBR` takes from the list. Both take in turn from the
collector that a retired entry or node is freed after the guards of that moment.

## 3 Modules and code

`PROJECT.json` maps every definition to its lines. All modules assume
sequentially consistent memory: where the code uses weaker orderings and fences
(`membarrier`, `fence(SeqCst)`), the models take them to be strong enough. The
tail in `MSQueue` is the exception, because the code argues about it.
Definitions under a comment that begins "Mutant" are plausible slips; they are
not part of any specification and exist to show that the properties can fail.

### 3.1 StickyCountSpec and StickyCount

Every access to the word `x` is one action: `Increment` is the `fetch_add`,
`DecSub` / `DecCas` / `DecSwap` the three accesses of `decrement`, `Load` /
`LoadCas` those of `load`. Widths are parameters: `PENDING` is 2^30 in the code.
A failed increment changes `x` as it does in the code. `held`, `credits`,
`zeroSeen` and `failed` are history. `StickyCountSpec` has no word and no flags:
references come and go, the counter dies when there is none, and the death is
credited to one decrement, at once or, if a reader settled it, later.

### 3.2 Reclamation and EBR

`Reclamation` has four actions: enter, exit, defer, execute. `wit[i]` is the set
of threads that were in a critical section when `i` was deferred and are still
in it; `Execute` needs it empty.

`EBR` is `internal.rs`, one action per access to shared memory. `pin` is
`Pin`, `PinLoad`, `PinStore`, `PinCheck`, `PinUndo`; `try_advance` reads the
epoch and the list (`Count`), looks at one participant per `Scan`, and stores
blindly (`Advance`); `push_bag` counts (`CountBag`), reads the epoch and seals
(`Seal`), then pushes (`Push`). `collect` pops a bag (`Pop`), takes it off the
count (`Discount`) and calls its functions one by one (`Execute`), which may
defer, flush and pin in turn (`Ready` includes the control point `run`), and goes
on. Between `Pop` and `Discount` the queue defers the destruction of the node
that was its head (`DeferNode`, `queue.rs:167`), which may fill the thread's bag
and so push it, and try to collect, before the popped bag leaves the count.
`owes` says that a popped bag is still on it. `finalize` is `StartFinalize` to
`FinDelete`. Details:

* `Nodes` are those functions that free a node of the queue. There are only so
  many in a model: when all are used, a pop defers none (`LeakNode`).
* `try_advance` may also unlink a `Local` that left and defer its destruction
  (`list.rs:260`), one more re-entrant `defer` like that of `DeferNode`. It is not
  in `EBR`, whose list is a set; `ParticipantList` has it (`Finalize`), with the
  grace period that `Reclamation` promises.

* Epochs are numbers modulo `2*H` and `Dist` is the signed distance of
  `wrapping_sub`. In the code the modulus is 2^63; nothing depends on more than
  `H >= 4`.
* A participant is named by its owner; a thread that exits does not come back
  under the same name.
* `incr_counts` compares counters modulo a `static mut` that may be changed at
  any time, so `Count` and `CountNothing` leave the outcome open.
* `RepinAfter` is `Guard::repin_after(|| {})`, which is `Cs::clear`. Its
  `acquire_handle` has a debug assertion that the fallback handle of
  `default.rs:40-47` does not meet (hazard list); the model is the release build.
* The list iterator may report `Stalled` when a deleted participant is around
  (`ScanFail`). List and queue are atomic here; 3.5 and 3.6 take them apart.
* `incr_manual_collection` is a `Flush` at times a counter chooses, and
  `CsEBR::eager_reclaim` a `RepinAfter` and a `Flush`.

### 3.3 CDRC

Strong and weak references are the same code over two counters, so an action
serves both with the kind `k`. A counter is `cnt` and `flag` and behaves as
`StickyCountSpec`; the gap between the `fetch_sub` that reaches zero and what
follows is kept (`Settle`), because that is where upgrades, loads and other
decrements get in. `retired` is a bag of entries, each with the set of guards
(`Guards`) it still waits for: under EBR the threads in a critical section when
it was retired (`Reclamation`), under HP the hazard slots, one for each Snapshot
variable of each thread, that have not been scanned yet. `Scan` removes one slot
that does not hold the object; the slots of a thread are read one by one, in any
order and with steps of the thread in between, so a snapshot may be taken in a
slot that was passed already. Any thread may execute an entry whose set is empty
(`Eject`); under EBR only inside its own guard, as `collect` runs under one.
Details:

* `store`, `swap` and a successful `compare_exchange` with an owned pointer are
  one atomic access. With a `&Snapshot` they are two, in the two orders of the
  code: `StoreSnap` increments and then swaps, `CasSnap` swaps and then
  increments. A failing `compare_exchange` or `upgrade` changes nothing.
* `compare_exchange_protecting_current` is the loop of the code: load and protect
  the current pointer (`ReadLink` and what follows it), compare it with the
  expected one (`CasProtecting`), then swap, or begin again if the link has
  changed (`CasSwap`). The desired pointer is an owned one.
* `client` is the program: the scheme, the calls it makes, its cells, whether
  objects have a field, and two bounds. It is chosen in `Init` from the clients
  of `MCCDRC` and never changes, so one run covers several programs.
* Under HP `protect_snapshot` is `Load`, `Publish`, `Validate`, `Check`; under
  EBR it is `Load` and `Check`. `Check` is the `ref_count() == 0` test that
  makes `load_from_weak` fail.
* `ReleaseDelay` executes the disposal at once under EBR and retires it under
  HP, as the code does (see 5).
* Dropping a shared `AtomicRc` is `store` of null; a field is dropped with its
  object. The guard that drops open for themselves (`C::new()`) is left out: it
  could only add threads to wait for.
* A thread reads a field of an object it protects by an `Rc` or by a snapshot
  other than the one it overwrites (`Names`), which is what Rust's borrows of
  `&mut self` and `&AtomicRc` leave possible.
* The end of a critical section removes the thread from every entry's set
  (`Forget`), in the one step in which the guard is dropped.
* The sets of threads, Snapshot variables, objects and cells are finite
  (`FiniteAssumption`), since references and guards are counted, and no object is an `AtomicWeak` (`CellsAssumption`),
  since an object stands for its own `AtomicRc` field.
* Addresses are not reused and tags are left out.

### 3.4 HPDomain

`client` is the program: who holds hazard pointers, who swaps the link and drops
references, who calls `eager_reclaim`, who exits; it is chosen in `Init` and never
changes. `CsHP::retire` is called for each reference that is given up
(`smr_common.rs:115-125`), so what is retired is named after the counted
*reference* whose decrement it is (`Refs`), and several references have one
*pointer* (`Ptr`, `PtrOf`), which is what slots hold and what the scan compares.
`Swap` puts a reference in the link and takes the one there out, which may be put
in again; `Drop` gives one up, by `Defer`, also while other references to the
object are linked, owned or waiting. So one pointer is retired many times, and is
validated while older entries of it wait or have been passed over by a scan. Such
an entry may be called under the hazard, and that is right: the decrement of a
reference that was dropped before the hazard was published is not what the hazard
holds back. `hp[t][n].held` is history and says what it does hold back: at
`Publish` every reference to the object that was not dropped yet, and at `Validate`
the reference found in the link. `HazardsHold` says that none of their entries is
called while the hazard stands.

Every access to a slot, to `hazptrs`, to the record list and to the domain is an
action. A slot array has an address like an object, is retired when it is
replaced, and is protected by the slot a scan takes for itself, which may make
the scanner's own array grow (`ReadArrayGrow`), which may flush. A scan is
`Pop`, `ReadHead`, `Record`, `ReadArray`, `GuardArray`, `Recheck`, `ReadSlot`,
`EndArray`, and then `Call` or `PutBack`. `Child` makes a called entry retire
another, which is how nested reclamations (`must_retry`) come about. Details:

* `RetiredList` is an atomic bag; a reference is dropped once, so sets of entries
  stand for lists. `count` is kept modulo `2 * FLUSH`, which is all the code compares.
* A thread-local pool of indices is a set: the order in which `release` pushes
  them is that of the client's drops, so any index may come next.
* `copy_up` is `copy_to` restricted to a higher slot than the one copied from.
* `called[t]` holds the entries that the running round of `do_reclamation` has
  called, whose number `Discount` subtracts at the end of the round.
* Assumed of the constants: arrays begin with a slot and a batch is flushed at
  some positive size (`SizeAssumption`), pointers to objects, addresses of arrays and
  null are distinct (`NullAssumption`, `AddrAssumption`), and a reference sits in
  at most one object (`ChildAssumption`), with which it is dropped. Any number of
  references may have the same pointer.

### 3.5 TaggedPtr and ParticipantList

`TaggedPtr` holds words as numbers, with the bit operations of `atomic.rs`;
`&` and `|` are constants, which `MCParticipantList` takes from `Bitwise`:
`compare_exchange` compares the whole word, tag included, and its weak form may
fail on an equal one. `MCParticipantList` checks these operations against what
they mean for every address and tag of a small word.

`ParticipantList` is `sync/list.rs` with the callers in `internal.rs`, one action
per access to a shared word: `Register` is `Local::register` up to the first look
at the head, `InsertTry` a turn of the loop of `insert`; `Delete` and `Release`
are the end of `finalize`, which marks the entry and then lets go of the
`Global`, and the last to do so drops the list (`DropList`). An iteration is
`Iterate`, then `Yield` for an unmarked entry, or `Meet` and `Unlink` for a
marked one, with `Finalize` by whoever unlinked it, and `Restart` after a stall.
`Leave` is the end of the guard. An address is used again once the entry there
has been destroyed (`Destroy`), which waits as `Reclamation` promises; this is
where an ABA problem would show. `missing` is history: what an iteration still
has to return.

### 3.6 BagQueue and MSQueue

`BagQueue` is a sequence with calls that take effect at one moment. `MSQueue` is
`sync/queue.rs`, one action per access, with the addresses of freed nodes used
again. A push is `PushStart`, `PushTail`, `PushNext`, then `Help` or `Link`, and
`Swing`; a pop is `PopHead`, `PopNext` or `PopNone`, `Take` or `Lose`, `PopTail`,
`PopAdvance`, `Retire`. It takes effect when the node is linked and when head is
moved, which is the refinement mapping (`Bags`, `CallOf`, `BagOf`).

`pop` decides with a `Relaxed` load of the tail whether the tail has to be moved
before the old head is retired, so the order of memory accesses matters here.
`tails` is the modification order of the tail; a load may return any value from
`view[t]` on, and a failing compare-and-swap is such a load. `view` grows by the
thread's own accesses, by acquire loads of what was stored with release (`hview`
for head, `lview` for a link), and by the fences of `pin` and `push_bag`
(`rview`). Head and links are sequentially consistent. `NodesAssumption` is that
memory is finite and holds the sentinel. `is_empty` changes
nothing and has no caller that decides by it; it is left out.

## 4 Runs

| run | instance | shows |
|---|---|---|
| `counter` | 4 threads, `PENDING` 4, 3 references, 3 failed increments | the counter's safety, `DeathIsCredited`, and that it implements `StickyCountSpec` |
| `ebr` | 2 threads, 2 functions and 1 that a pop defers, bags of 1, 1 pop per collect, nesting 2, 8 epochs, all calls | the inductive invariant of the proofs, grace period, epoch order, bags neither lost nor run twice, garbage count exact although it changes before a push and after a pop, `Reclamation` implemented |
| `hp_domain` | a reader and a writer, five programs, arrays that grow from 1 to 2, flush at every retirement, 2 records, 3 references to one object, of which one is dropped by the call of another | no hazard overlooked, no array read after it is reclaimed, slots consistent, nothing lost, requests for another round honoured |
| `cdrc_hp` | 2 threads, 1 object, an `AtomicRc` and an `AtomicWeak`, every call but `compare_exchange_protecting_current` and the promotion of a weak snapshot | counts exact, snapshots and references safe, no leak, `Snapshot::load` never fails |
| `cdrc_nodes` | 2 threads, three clients: 2 objects that may point to each other under HP, with weak references, and with `compare_exchange_protecting_current`; 1 object that may point to itself under EBR, all calls but `load_from_weak` | hand-over-hand reading against unlinking; no counter touched after the free |
| `cdrc_hp_live` | 2 threads, 1 object, fair | what nobody can reach is freed in the end |
| `queue` | 3 threads: one pushes, one pops, one does both and may stop anywhere; 3 nodes, 2 pushes | `BagQueue` implemented, no node freed in use, the other threads' calls return |
| `participants` | 3 threads, 5 registrations at 3 addresses | no participant missed, each entry finalized once, no iterator dangles, `List::drop` finds every entry marked |
| `cdrc_ebr_dispose`, `cdrc_hp_settle`, `cdrc_promote`, `hp_copy` | small | the four disagreements of section 5 |

**Bounds.** Two threads suffice for every race in the code between a reader and
a reclaimer, and a third adds a second reader; the counter, where three calls
really meet (two decrements and a load), has four. `count` of a client bounds
references of a kind to an object, `MaxGuards` the nesting, `Bound` (in `MCEBR`,
a state constraint) lets only one thread exit, and one at a time nest guards,
none once the other exits or a second function is deferred, `MaxRefs` and
`MaxFailed` the history of a counter, `MaxRecs` and `MaxSize` records and growth
of a domain, `MaxReg` the registrations and `MaxPush` the pushes: addresses are
used again, an entry is unlinked by several iterations at once, the tail lags
and is overtaken. Each is large enough for the case it bounds to happen: a bag
overflows after one function, an array after one slot, the epoch wraps around, a
count goes from zero to one and back. The queue and the list have three threads,
since a lagging tail and a marked predecessor need one thread to be late and two
to race. What two threads in `ebr` cannot show is covered by the theorems, which
hold for any number.

**Symmetry and view.** Threads, objects and items are model values; symmetry is
used only in runs without liveness (`Refinement` and `EpochStep` of `ebr` are
safety properties, and the permutations leave `Reclamation` unchanged). The view
of `ebr` identifies states that differ by a rotation of the epochs, with which
every action commutes since `Succ` and `Dist` do, and by registers that are
written before they are read again.

**Deadlock.** Runs switch the deadlock check off: functions, objects and pointers are not
reused, so clients do come to an end. Waiting never happens in this code, which
is lock-free; what would be a deadlock shows as a leak (`NoLeak`) or in the
liveness properties (`DeathIsCredited`, `Reclaimed`, `CallsReturn`).

**Fairness.** `counter`: a call that began goes on (weak fairness of
`Pending(p)`); no client is obliged to call. `queue`: the same for the threads
outside `Slow`; the thread in `Slow` has no fairness at all, so `CallsReturn`
says that the others help themselves, as lock-freedom promises. `cdrc_hp_live`: calls go on
(`Continue`); clients end their critical sections, drop snapshots and come back,
so that reclamation is attempted again and again (strong fairness of `Leaving`,
`Collect` and `Scanning`, since another call of the thread may come between).
The last is an assumption about clients, not something the library guarantees:
without calls nothing is ever collected. `Drop` is not fair: a client may keep
an `Rc` for ever, and `Abandoned` asks for freed memory only when nobody does.

**Mutants.** Every property of a passing run has a mutant, a plausible slip in
the definition of one action, under which TLC finds the property violated in
the same configuration.

## 5 Disagreements found

Each is a run that expects a violation; `PROJECT.json` quotes both sides.

* `cdrc_ebr_dispose`: under EBR the disposal that `release_ref` says must be
  deferred is executed at once, because `ebr.rs:115` ejects through an
  unprotected `Cs`; a `Snapshot` from `load_from_weak` loses its value.
  The EBR client of `cdrc_nodes` therefore leaves out `load_from_weak` and `protect_weak`.
* `cdrc_hp_settle`: under HP a decrement between its `fetch_sub` and its
  `compare_exchange` holds no hazard; if the object is revived by `upgrade`,
  dies again and is freed, the counter is accessed after the free.
  The HP clients of `cdrc_nodes`, which checks `NoUseAfterFree`, leave out
  `upgrade`.
* `cdrc_promote`: making a strong reference of a snapshot ignores that
  `increment` may fail; a snapshot from a weak pointer can outlive the strong
  count. The other runs promote only snapshots of strong cells (`Promotable`).
* `hp_copy`: `copy_to` writes a hazard to a slot a scan may have passed. Indices
  are handed out from the end of the array, so copying from an older snapshot to
  a younger one is the dangerous direction. The reference was linked when the
  source was validated, so both shields hold it back; it is dropped afterwards,
  and its entry called under the copy (a trace of 40 states). `hp_domain` uses
  `copy_up`.

One more limit is assumed away and not a run: failed increments add up in a dead
counter, and 2^30 of them would carry into its flags. `NoOverflow` bounds them.

## 6 Proofs

`StickyCount_proofs`, for any set of processes and any `PENDING`, assuming
`NoOverflow` (fewer than `PENDING` references and failed increments):

* `Invariance`: `IInv`. Exactness of the count alone is not inductive. The
  strengthening says in which of two phases the word is: *undecided*, `x` equals
  the references, nobody swaps, and if it is zero some decrement is about to
  compare; or *decided*, where either the pending flag is up, no credit was
  given and some decrement is on its way to find it, or one credit was given.
  The bound of `x` by the failed increments keeps the flags readable.
* `CreditedOnce`, `ZeroForGood`, `ExactCount`: `AtMostOneCredit` and
  `CreditNotLost`, `ZeroIsSticky`, `CountIsExact`.
* `Implements`: every step is one of `StickyCountSpec` or a stutter (its safety
  part; the fairness is checked by TLC).

`EBR_proofs`, for any threads, items, bag capacity, nesting and `H >= 4`:

* `Invariance`: `IInv`. The grace period is not inductive. The chain is: a
  validated pin is at most one epoch behind (`SkewOK`); so the epoch an
  unfinished `try_advance` or `repin` read is near the thread's own (`ScanOK`,
  `RepinOK`), and a scan that has passed everybody with the epoch unchanged
  knows that all are in it, while if it has changed the store is a no-op; so a
  bag's seal is near the epoch of every thread that may still use its content
  (`SealOK`) and a collector's epoch near its own pin (`CollectOK`); two pins near the
  same global epoch are less than three apart (`DistNear`), so no expired bag
  has a user. `H >= 4` keeps distances up to three unambiguous.
* `Safety`, `TwoAreEnough`: `GracePeriod` and `EpochSkew`, `TwoAdvancements`.
* `EpochOrder`: the blind store moves the epoch by at most one, never back.

For the functions themselves, under the same assumptions and on top of `IInv`:

* `Ownership`: `OInv`. That every function is in one place is not inductive,
  because a move may overwrite what was there: `EmptyOK` says when a place is
  empty (the bag before the queue push returns, the running bag between two
  pops, everything of a thread that is gone). `ApartOK` and `KeptOK` are the two
  halves of "exactly one". There is a lemma for each of the five moves (`PutInBag`,
  `Seal`, `Push`, `Pop`, `Execute`), and `Unmoved` for all other steps.
* `OncePlaced`: `EachItemOnce`, by counting the places.
* `ExactGarbage`: `GarbageExact`. A function is counted (`Counted`) from
  `CountBag` on, while its bag is about to be sealed, is sealed or is queued, and
  after the pop until `Discount`, while `owes` holds. The proof needs `ApartOK`, so
  that what `push_bag` adds was not counted and what `collect` subtracts was;
  `EmptyOK`, so that the bag whose length is subtracted is still the popped one
  although the pop may push another in between (`owes` only up to `discount`, and
  nested collections do not pop); and that bags are finite (`GInv`).
* `Implements`: `Refinement`, that is `Spec => R!Spec`. A validated pin is `Enter`, a store
  of the unpinned epoch or the start of `repin` is `Exit`, deferring and executing
  are themselves, and all else stutters; `Execute` is allowed by `GracePeriod`
  (nobody is waited for) and `ApartOK` (it has not run before).

`HPDomain_proofs`, for any threads, records, references, objects, clients and handles, any
initial size of arrays and any size of a batch:

* `SlotDiscipline`: `SInv`. That arrays agree with hazard pointers is not
  inductive: it does not say whose the other slots are. `SlotsOK` shares out the
  slots of an array without overlap among the free list, the hazard pointers,
  the slot a scan has taken for the array it reads, and what growing has added
  and not handed out yet; there are two such remainders when growing flushes,
  the flush reclaims, and the scan has to grow the array again. All but the
  scan's hold null when nobody owns them. `RecordsOK` gives a record in use
  one owner, `ArraysOK` empties the arrays of the others, `ControlOK` says when
  the reclamation loop runs and where a thread that grows or flushes returns to,
  and `HandlesOK` what a hazard pointer without a slot does not have.
* `TypeCorrect`, `RetryIsHonoured`, `SlotsAgree`: `TypeOK`, `RetryHonoured`,
  `SlotsMatch`. The last counts: indices that differ are as many as the handles
  that hold them.

`HPDomain_hazards_proofs`, on top of `SInv`:

* `HInv` is the argument for hazard pointers, about pairs of a slot and an entry
  that it holds back. If a reclaimer has popped such an entry, then either it has
  seen the entry's pointer already (it is in `guarded`), or its scan has still to
  come to that slot (`Ahead`: to the record, to its array, or to a slot of it from
  `j` on), which publishes the pointer (`HeldOK`). A scan may read an array that
  was replaced meanwhile; the pointer is then in some slot of the copy that the
  scan has not passed, whoever owns its index now. `GoneOK` adds that what was
  retired is not linked again and is not the array in use: a reference is dropped
  once, while its pointer may be linked by another. So neither a hazard that is
  published nor one that is validated begins to hold back an entry that somebody
  has popped, and a protection that begins behind a scan, in a record added
  meanwhile or in a slot it has passed, is of nothing that the scan judges.
* `ProtectedNotFreed`: `HazardsHold`, for every client that does not call
  `copy_to` towards a lower slot; pointers may be retired, unlinked and linked
  again any number of times. The condition is the finding `hp_copy`: such a
  copy goes behind the scan, and TLC shows the violation. `client` never
  changes, so this is a condition on the program, not on a moment.
* `ArrayNotFreed`: `ArraysHold`, for every client.

`HPDomain_items_proofs`, on top of `HInv`:

* `OInv`: an entry is in one of the places `retireds`, `retired[t]`,
  `popped[t]` and, once its entry was called, `called[t]` (`ApartOK`, `KeptOK`).
  That calling an entry retires the child for the first time needs `ParentOK`:
  nothing else retires it. `HInv` is needed for arrays: an array that growing
  retires was not retired before.
* `OncePerEntry`, `GarbageCounted`: `EachOnce`; `GarbageExact`, and that the
  counter is a natural number, so the subtraction does not underflow.

`MSQueue_proofs`, for any threads, any finite set of nodes and any number of
calls (`MaxPush` bounds the runs only):

* `QueueInvariant`: `QInv`. `Linked` is the order in which nodes were linked:
  the nodes tail has been at, and the one after the last of them, if any. Only a
  successful `Link` changes it: a compare-and-swap that moves tail moves it to
  the node that was linked there already (`CasTailLemma`), and a node that is
  freed is never the last (`FreeLinked`). An address that is used again occurs
  again, so places are last occurrences, and `Distinct` says from where on there
  are no others. `NodesOK` says that links follow that order; `FrontOK` that what
  is in the queue is in use and what was popped belongs to one thread; `ViewsOK`
  that whatever tail value a thread may still load is safe for it and not in its
  own bag; `LoadedOK` where in the order a loaded node is; `TakenOK` that a
  thread which is about to retire a node cannot see tail there any more. This is
  the argument of the comment on moving the tail in `pop_internal`, with the
  fences of `pin` and `push_bag` as the two other premises it takes.
* `NodesSafe`, `RetiredSafe`: `NoUseAfterFree`, `RetiredUnreachable`. The second
  speaks of `Chain`, which is recursive. Induction over its length is done over
  a set of numbers, with the well-foundedness of the naturals from the library
  (`Least`, `Induction`), because the theorem with a predicate as a parameter
  cannot be used; `ChainLemma` is the result.
* `QueueRefines`: `Refinement`, that is `Spec => Abstract!Spec`. `TakersApart`
  and `HeldBags` are what keeps bags apart while nodes are reused.

`CDRC_proofs`, for any finite sets of threads, Snapshot variables, objects and
cells and any bounds, and for both schemes:

* `SafeClients` is the hypothesis of its theorems: no client makes a strong
  reference of a weak snapshot, and none under EBR loads from weak references.
  These two calls are the findings `cdrc_promote` and `cdrc_ebr_dispose`, so with
  them the theorems are false. It is a condition on programs (`client` never
  changes), and every passing run meets it.
* `CountInvariant`: `CountInv`. That counts are exact is not inductive, because
  an increment is right only if the counter still counts, and that follows from
  something else for each kind of caller. Per object and kind (`Books`):
  `Balanced` is exactness, with the increments that `compare_exchange` still owes
  on the side of the count; `Covered` is the argument for snapshots. A snapshot
  owns no count, but the reference it was read from does, or did; if it was given
  up since, its decrement waits for the guard of the snapshot: its thread under EBR,
  its slot under HP. `Covered` says so of all sets `V` of guards at once: among
  the owners that are left when every entry that waits for nobody in `V` has been
  ejected there is one for each increment that is owed under a guard of `V` and
  one more for what `V` protects. Speaking of one guard at a time would not do,
  since two of them may rely on one owner, and one thread may swap it out and
  drop it before the other counts its own; for `V` the set of both the books
  still balance. It is enough that a hazard was validated, that is, that the link
  was read again under it: the owner that was there at that moment had not been
  given up, so if it is, the entry waits for the reader's slot.
  `Bounded` keeps counts within `MaxCount` and one for each thread.
* `ProtectedOK` and `LifeOK` tie counters and lives: an object that is protected
  by a strong snapshot is live, a live object whose strong counter is zero for good
  has one disposal, under way or retired, and a freed one keeps at most the one
  weak reference that its value had. `SettlersOK` gives every counter that came to
  zero a decrementer that will settle it, also after loads and upgrades.
  `ThreadOK` says what a call under way knows; its `Undisposed` is why disposals
  wait: a snapshot of an object whose disposal was retired is among those the
  disposal waits for, or it was taken later and refused.
* `CountTypes`, `CountsAreExact`, `StrongKeeps`, `SnapshotsKeep`, `NothingLeaks`,
  `LoadsSucceed`: `TypeOK`, `CountsExact`, `StrongSafe`, `SnapshotsSafe`, `NoLeak`,
  `LoadSucceeds`.
* `UseBeforeFree`: the parts `FieldsSafe` and `ReferencesSafe` of
  `NoUseAfterFree`, and `CallSafe` for every call but one at `settle`.
* `NeverUsedAfterFree`: all of `NoUseAfterFree`, for the clients of
  `SettledClients`, which besides do not `upgrade` under HP. With that call the
  claim is false (`cdrc_hp_settle`); every client of `cdrc_nodes` does without it.
  `SettleInv` adds to `CountInv` what a decrementer `t` knows that has brought a
  count to zero and has not yet set the flag: it is the only one for that counter,
  so nobody else can dispose of the object or free it. For the weak counter this
  is because the value is gone, nobody has a weak reference and nobody can make
  one, and for the strong counter under HP because only `upgrade` revives a zero.
  Under EBR an upgrade may revive it, but whatever decrements it again was retired
  after `t` entered its critical section, so it waits for `t`
  (`Loose("strong", o, {t}) = 0`).

`ParticipantList_proofs`, for any threads, any addresses and any number of
registrations (`MaxReg` bounds the runs only). Of words it assumes only
`WordAssumption`, what tagging an aligned address means; TLC evaluates it for the
`&` and `|` of the run, and no proof looks at bits.

* `ListInvariant`: `ListInv`. That an entry is finalized once is not inductive: it
  needs that a `compare_exchange` that succeeds unlinks just the entry it names,
  although addresses are used again. `OwnersOK` gives each thread in the list an
  entry that nobody else has, and every unmarked entry an owner. `ChainOK` says
  that no two links of the list lead to the same entry, so that unlinking one
  loses no other. By `MetOK` the link of a marked entry does not change any more,
  so the successor an iterator read is still the right one when it unlinks; since
  the whole word is compared, `pred` is not marked at that moment, so it is in the
  list (`UnmarkedReachable`). By `UnlinkedOK` who unlinked is alone.
* `KeptOK` is why nothing dangles: there is a set of entries that holds the head
  and the iterator's two places, that no link leads out of, and whose members are
  listed or retired while the iterator's guard was already there. It shows at once
  that what a later link leads to is kept too.
* `MissingOK` is why an iteration is complete: every set that no link leads out of
  and that holds the iterator's place holds what it has still to return. When the
  place is null the empty set is one, so nothing is missing.
* Lists are described by such closed sets throughout, as `Reachable` is. That
  replaces induction along the list, which the prover does not do: inserting,
  unlinking and going on (`FromInsert`, `FromUnlink`, `FromNext`) are lemmas about
  the least closed set.
* `ListTypes`, `IterationsComplete`, `FinalizedOnce`, `IteratorsSafe`, `DropsClean`:
  `TypeOK`, `IterationComplete`, `EachFinalizedOnce`, `NoDangling`, `DropClean`.

Only model-checked: the liveness properties `DeathIsCredited`, `Reclaimed` and
`CallsReturn`, and the fairness of `StickyCountSpec` in the `Refinement` of
`counter`, since temporal reasoning under fairness is out of the prover's reach.
All other properties of the passing runs are stated by a theorem, `HazardsHold`
and those of `CDRC` for the clients named above.

## 7 Not modelled

* Memory orderings weaker than sequential consistency, but for the tail of
  `MSQueue`.
* In `EBR`, the deferral of a `Local` that `try_advance` unlinks (`list.rs:260`);
  `ParticipantList` has it. The debug assertion in `acquire_handle`
  (`internal.rs:554`): the models are of the release build.
* In `CDRC`, address reuse (ABA) and pointer tags: `with_tag`, `fetch_or`,
  `compare_exchange_tag`; `into_inner`, which needs exclusive ownership;
  `compare_exchange_protecting_current` with a snapshot as the desired pointer.
* The destruction of a `Domain` (all threads are gone by then), thread-local
  storage and its fallback handle.
* The Treiber list of retired pointers and the list of thread records of the
  hazard domain are atomic. `OnceLock`, closures stored in place and the typed
  pointer wrappers are layout and typing.
* The example structures under `tests/`, read for the call sequences they make.

## 8 Running it

    tlc -workers 2 -config StickyCount.cfg StickyCount
    tlc -workers 2 -config EBR.cfg         MCEBR
    tlc -workers 2 -config HPDomain.cfg    MCHPDomain
    tlc -workers 2 -config CDRCHp.cfg      MCCDRC      # and the other CDRC*.cfg
    tlc -workers 2 -config ParticipantList.cfg MCParticipantList
    tlc -workers 2 -config MSQueue.cfg     MCMSQueue
    tlapm StickyCount_proofs.tla
    tlapm EBR_proofs.tla
    tlapm HPDomain_proofs.tla
    tlapm HPDomain_hazards_proofs.tla
    tlapm HPDomain_items_proofs.tla
    tlapm MSQueue_proofs.tla
    tlapm ParticipantList_proofs.tla
    tlapm CDRC_proofs.tla                              # about seven minutes

`ebr`, `hp_domain` and `cdrc_nodes` take up to three minutes, the other runs less.
