------------------------------- MODULE HPDomain -------------------------------
(***************************************************************************)
(* The hazard-pointer domain of hp_impl: thread records that are recycled, *)
(* hazard slots in arrays that grow, retired pointers that are flushed in  *)
(* batches, and the scan that decides which of them are called.            *)
(*                                                                         *)
(* CsHP retires a pointer for each reference that is dropped, so an entry  *)
(* is named after the reference it drops: several entries may have one     *)
(* pointer, which may be linked while older entries of it still wait.  A   *)
(* reference is dropped once, so a set of entries stands for a list of     *)
(* Retired.  A slot array is retired too, and a scan protects the array it *)
(* reads as a client protects an object.  Every access to a slot, a link   *)
(* or the domain is an action; RetiredList is an atomic bag, and           *)
(* thread-local work is merged into the access next to it.                 *)
(***************************************************************************)
EXTENDS Integers, Sequences, FiniteSets

CONSTANTS Threads, Null,
          Refs,         \* counted references to objects
          Ptr,          \* Ptr[o]: the pointer of a reference
          Handles,      \* HazardPointer variables of a client
          Clients,      \* what the threads of a program call; a set of records
          Child,        \* Child[o]: the reference the call of o's entry drops, or Null
          INIT_SIZE,    \* HAZARD_ARRAY_INIT_SIZE; 64 in the code
          FLUSH,        \* COUNTS_BETWEEN_FLUSH; 64 in the code
          MaxRecs,      \* records that may be created
          MaxSize       \* size beyond which no client makes an array grow

\* What can be retired, references and slot arrays, and the pointers in slots.
Addrs    == (1 .. MaxRecs) \X Nat
Entries  == Refs \cup Addrs
Ptrs     == {Ptr[o] : o \in Refs}
PtrOf(e) == IF e \in Refs THEN Ptr[e] ELSE e

ASSUME SizeAssumption  == INIT_SIZE \in Nat \ {0} /\ FLUSH \in Nat \ {0} /\ MaxRecs \in Nat
ASSUME NullAssumption  == Null \notin Refs \cup Ptrs
ASSUME AddrAssumption  == \A o \in Refs \cup Ptrs \cup {Null} : o \notin Addrs
\* A reference that sits in an object is dropped with it, by one entry: once.
ASSUME ChildAssumption == /\ Child \in [Refs -> Refs \cup {Null}]
                          /\ \A o, q \in Refs : Child[o] = Child[q] /\ Child[o] # Null => o = q

\* The threads that hold hazard pointers, swap links and drop references, call
\* eager_reclaim and exit, the references and the hazard pointers they use, and
\* what they call on the latter besides.
Client == [readers : SUBSET Threads, writers : SUBSET Threads, eager : SUBSET Threads,
           exiting : SUBSET Threads, refs : SUBSET Refs, handles : SUBSET Handles,
           calls : SUBSET {"load", "swap", "copy_up", "copy_to"}]
ASSUME ClientAssumption == Clients \subseteq Client

VARIABLES
  client,       \* the program; it does not change
  link,         \* the reference in the AtomicRc that clients protect, or Null
  nrec,         \* records 1 .. nrec; the list starts at nrec and ends at 1
  avail,        \* ThreadRecord.available
  arrays,       \* the arrays a record has had; the last is its hazptrs
  retireds,     \* Domain.retireds
  garbage,      \* Domain.num_garbages
  rec,          \* record of a thread; 0 before Thread::new and after its drop
  free,         \* Thread.available_indices; releases bring it in any order
  hp,           \* AcquiredHP: slot index (0: none), pointer; and as history
                \* the references whose entries it holds back
  retired,      \* Thread.retired
  count,        \* Thread.count, modulo 2 * FLUSH
  in_recl, must_retry,
  back,         \* where the outermost do_reclamation returns to
  popped,       \* do_reclamation_inner: entries neither called nor put back
  guarded,      \* do_reclamation_inner: the pointers seen in slots
  called,       \* do_reclamation_inner: the entries called
  gone, freed,  \* history: what was retired, and what was called
  pc

env     == <<client, link>>
records == <<nrec, avail>>
pool    == <<retireds, garbage>>
domain  == <<records, arrays, pool>>
slot    == <<rec, free, hp>>
batch   == <<retired, count>>
loop    == <<in_recl, must_retry, back>>
judging == <<popped, guarded, called>>
recl    == <<loop, judging>>
history == <<gone, freed>>
vars    == <<env, domain, slot, batch, recl, history, pc>>

Idle        == [at |-> "idle"]
Goto(t, p)  == pc' = [pc EXCEPT ![t] = p]
Ready(t)    == pc[t] = Idle /\ rec[t] # 0
Hazard(i, p, held) == [i |-> i, p |-> p, held |-> held]
NoHp        == Hazard(0, Null, {})

\* The array that hazptrs of record k points to, and its address.
Last(k)     == Len(arrays[k])
Array(k)    == arrays[k][Last(k)]
Addr(k, g)  == <<k, g>>
Put(t, i, p) == arrays' = [arrays EXCEPT ![rec[t]][Last(rec[t])][i] = p]
\* References that clients own or link, and those not dropped yet.
Roots       == Refs \ {Child[o] : o \in Refs}
Undropped(p) == {o \in Refs \ gone : Ptr[o] = p}

Init == /\ client \in Clients
        /\ link = Null /\ nrec = 0 /\ retireds = {} /\ garbage = 0
        /\ avail  = [k \in 1 .. MaxRecs |-> FALSE]
        /\ arrays = [k \in 1 .. MaxRecs |-> <<[i \in 1 .. INIT_SIZE |-> Null]>>]
        /\ rec  = [t \in Threads |-> 0] /\ free = [t \in Threads |-> {}]
        /\ hp   = [t \in Threads |-> [n \in Handles |-> NoHp]]
        /\ retired = [t \in Threads |-> {}] /\ count = [t \in Threads |-> 0]
        /\ in_recl = [t \in Threads |-> FALSE] /\ must_retry = [t \in Threads |-> FALSE]
        /\ back = [t \in Threads |-> Idle] /\ popped = [t \in Threads |-> {}]
        /\ guarded = [t \in Threads |-> {}] /\ called = [t \in Threads |-> {}]
        /\ gone = {} /\ freed = {} /\ pc = [t \in Threads |-> Idle]

-------------------------------------------------------------------------------
(* Thread records. *)

\* Thread::new looks for a record that was released, ...
Start(t) == /\ pc[t] = Idle /\ rec[t] = 0 /\ Goto(t, [at |-> "search", k |-> nrec])
            /\ UNCHANGED <<env, domain, slot, batch, recl, history>>
Skip(t)  == /\ pc[t].at = "search" /\ pc[t].k # 0 /\ ~avail[pc[t].k]
            /\ Goto(t, [at |-> "search", k |-> pc[t].k - 1])
            /\ UNCHANGED <<env, domain, slot, batch, recl, history>>

Take(t, k) == /\ rec'   = [rec EXCEPT ![t] = k]
              /\ free'  = [free EXCEPT ![t] = DOMAIN Array(k)]
              /\ count' = [count EXCEPT ![t] = 0]
              /\ Goto(t, Idle)

\* ... takes it over ...
Recycle(t) == LET k == pc[t].k IN
  /\ pc[t].at = "search" /\ k # 0 /\ avail[k]
  /\ avail' = [avail EXCEPT ![k] = FALSE] /\ Take(t, k)
  /\ UNCHANGED <<env, nrec, arrays, pool, hp, retired, recl, history>>

\* Mutant: the new record is not pushed.
NewRecordUnlinked(t) ==
  /\ pc[t].at = "search" /\ pc[t].k = 0 /\ nrec < MaxRecs /\ Take(t, nrec + 1)
  /\ UNCHANGED <<env, nrec, avail, arrays, pool, hp, retired, recl, history>>

\* ... or pushes a new one.
NewRecord(t) ==
  /\ pc[t].at = "search" /\ pc[t].k = 0
  /\ nrec < MaxRecs /\ nrec' = nrec + 1 /\ Take(t, nrec + 1)
  /\ UNCHANGED <<env, avail, arrays, pool, hp, retired, recl, history>>

\* Thread::drop, when its hazard pointers are gone: flush, then release.
Exit(t) == /\ t \in client.exiting /\ Ready(t) /\ \A n \in Handles : hp[t][n].i = 0
           /\ Goto(t, [at |-> "flush", to |-> [at |-> "release"]])
           /\ UNCHANGED <<env, domain, slot, batch, recl, history>>

Release(t) == /\ pc[t].at = "release"
              /\ avail' = [avail EXCEPT ![rec[t]] = TRUE]
              /\ rec' = [rec EXCEPT ![t] = 0] /\ free' = [free EXCEPT ![t] = {}]
              /\ Goto(t, Idle)
              /\ UNCHANGED <<env, nrec, arrays, pool, hp, batch, recl, history>>

-------------------------------------------------------------------------------
(* Retiring. *)

\* Thread::defer, then on to p: every FLUSH-th time by way of flush_retireds.
Defer(t, e, p) ==
  /\ retired' = [retired EXCEPT ![t] = @ \cup {e}] /\ gone' = gone \cup {e}
  /\ count' = [count EXCEPT ![t] = (@ + 1) % (2 * FLUSH)]
  /\ Goto(t, IF count'[t] % FLUSH = 0 THEN [at |-> "flush", to |-> p] ELSE p)

\* A client swaps a reference it owns, or none, for the one in the link, which
\* it may link again ...
Swap(t, o) == /\ t \in client.writers /\ Ready(t) /\ o # link /\ o \notin gone
              /\ o \in client.refs \cup {Null} /\ link' = o
              /\ UNCHANGED <<client, domain, slot, batch, recl, history, pc>>

\* ... or drop, also while other references to the object are linked.
Drop(t, o) == /\ t \in client.writers /\ Ready(t) /\ o # link /\ o \notin gone
              /\ o \in client.refs
              /\ Defer(t, o, Idle)
              /\ UNCHANGED <<env, domain, slot, recl, freed>>

\* Thread::eager_reclaim.
EagerReclaim(t) == /\ t \in client.eager /\ Ready(t)
                   /\ count' = [count EXCEPT ![t] = 0]
                   /\ Goto(t, [at |-> "flush", to |-> Idle])
                   /\ UNCHANGED <<env, domain, slot, retired, recl, history>>

\* flush_retireds counts first ...
Flush(t) == /\ pc[t].at = "flush"
            /\ garbage' = garbage + Cardinality(retired[t])
            /\ Goto(t, [at |-> "push", to |-> pc[t].to])
            /\ UNCHANGED <<env, records, arrays, retireds, slot, batch, recl, history>>

\* ... and pushes then.  Every second flush goes on to do_reclamation, which
\* one that is already running postpones.
Push(t) == LET collect == count[t] = 0 /\ pc[t].to.at # "release" IN
  /\ pc[t].at = "push"
  /\ retireds' = retireds \cup retired[t] /\ retired' = [retired EXCEPT ![t] = {}]
  /\ must_retry' = [must_retry EXCEPT ![t] = @ \/ (collect /\ in_recl[t])]
  /\ IF collect /\ ~in_recl[t]
       THEN /\ in_recl' = [in_recl EXCEPT ![t] = TRUE]
            /\ back' = [back EXCEPT ![t] = pc[t].to] /\ Goto(t, [at |-> "pop"])
       ELSE UNCHANGED <<in_recl, back>> /\ Goto(t, pc[t].to)
  /\ UNCHANGED <<env, records, arrays, garbage, slot, count, judging, history>>

-------------------------------------------------------------------------------
(* Hazard slots. *)

\* Mutant: the slots in use are not copied.
GrownEmpty(a) == [i \in 1 .. 2 * Len(a) |-> Null]
Grown(a)      == [i \in 1 .. 2 * Len(a) |-> IF i <= Len(a) THEN a[i] ELSE Null]

\* grow_array: publish an array twice as long and retire the old one, which may
\* run a whole reclamation before the new indices are available (Extend).
Grow(t, p) == LET k == rec[t] IN
  /\ free[t] = {}
  /\ arrays' = [arrays EXCEPT ![k] = Append(@, Grown(Array(k)))]
  /\ Defer(t, Addr(k, Last(k)), [at |-> "extend", n |-> Len(Array(k)), to |-> p])
  /\ UNCHANGED <<env, records, pool, slot, recl, freed>>

Extend(t) == LET n == pc[t].n IN
  /\ pc[t].at = "extend"
  /\ free' = [free EXCEPT ![t] = @ \cup (n + 1 .. 2 * n)]
  /\ Goto(t, pc[t].to)
  /\ UNCHANGED <<env, domain, rec, hp, batch, recl, history>>

Wants(t, n) == Ready(t) /\ t \in client.readers /\ n \in client.handles

\* Snapshot::new acquires a slot, after it made room for it if there is none.
Acquire(t, n, i) == /\ pc[t] = [at |-> "acquire", h |-> n] \/ Wants(t, n)
                    /\ hp[t][n].i = 0 /\ i \in free[t]
                    /\ free' = [free EXCEPT ![t] = @ \ {i}]
                    /\ hp' = [hp EXCEPT ![t][n] = Hazard(i, Null, {})] /\ Goto(t, Idle)
                    /\ UNCHANGED <<env, domain, rec, batch, recl, history>>
AcquireGrow(t, n) == /\ Wants(t, n) /\ hp[t][n].i = 0
                     /\ Len(Array(rec[t])) < MaxSize
                     /\ Grow(t, [at |-> "acquire", h |-> n])

\* HazardPointer::drop: reset the protection and release the slot.
DropHandle(t, n) == LET i == hp[t][n].i IN
  /\ Ready(t) /\ i # 0 /\ Put(t, i, Null)
  /\ free' = [free EXCEPT ![t] = @ \cup {i}] /\ hp' = [hp EXCEPT ![t][n] = NoHp]
  /\ UNCHANGED <<env, records, pool, rec, batch, recl, history, pc>>

\* protect_snapshot (and HazardPointer::protect): read the link, ...
Load(t, n) == /\ "load" \in client.calls /\ Ready(t) /\ hp[t][n].i # 0
              /\ Goto(t, [at |-> "publish", h |-> n, o |-> link])
              /\ UNCHANGED <<env, domain, slot, batch, recl, history>>

\* ... publish the hazard, which holds back what is dropped from now on, ...
Publish(t) == LET n == pc[t].h  p == PtrOf(pc[t].o) IN
  /\ pc[t].at = "publish"
  /\ Put(t, hp[t][n].i, p) /\ hp' = [hp EXCEPT ![t][n] = Hazard(@.i, p, Undropped(p))]
  /\ Goto(t, [at |-> "validate", h |-> n, o |-> pc[t].o])
  /\ UNCHANGED <<env, records, pool, rec, free, batch, recl, history>>

\* The hazard is trusted to hold back the reference it was read from, too.
Trust(t, n, o) == hp' = [hp EXCEPT ![t][n].held = @ \cup ({o} \ {Null})] /\ Goto(t, Idle)

\* Mutant: the link is not read again.
ValidateNone(t) == /\ pc[t].at = "validate" /\ Trust(t, pc[t].h, pc[t].o)
                   /\ UNCHANGED <<env, domain, rec, free, batch, recl, history>>

\* ... and read the link again, until its pointer has not changed.
Validate(t) == LET n == pc[t].h IN
  /\ pc[t].at = "validate"
  /\ IF PtrOf(link) = hp[t][n].p
       THEN Trust(t, n, link)
       ELSE UNCHANGED hp /\ Goto(t, [at |-> "publish", h |-> n, o |-> link])
  /\ UNCHANGED <<env, domain, rec, free, batch, recl, history>>

\* AcquiredHP::clear, swap, and copy_to; "copy_up" leaves out its calls that
\* copy into a slot before the one they copy from.
Clear(t, n) == /\ Ready(t) /\ hp[t][n].i # 0 /\ Put(t, hp[t][n].i, Null)
               /\ hp' = [hp EXCEPT ![t][n] = Hazard(@.i, Null, {})]
               /\ UNCHANGED <<env, records, pool, rec, free, batch, recl, history, pc>>
SwapHandles(t, n, m) ==
  /\ "swap" \in client.calls /\ Ready(t) /\ hp[t][n].i # 0 /\ hp[t][m].i # 0
  /\ hp' = [hp EXCEPT ![t][n] = hp[t][m], ![t][m] = hp[t][n]]
  /\ UNCHANGED <<env, domain, rec, free, batch, recl, history, pc>>
Copy(t, n, m) ==
  /\ "copy_to" \in client.calls \/ ("copy_up" \in client.calls /\ hp[t][n].i < hp[t][m].i)
  /\ Ready(t) /\ hp[t][n].i # 0 /\ hp[t][m].i # 0
  /\ Put(t, hp[t][m].i, hp[t][n].p)
  /\ hp' = [hp EXCEPT ![t][m] = Hazard(@.i, hp[t][n].p, hp[t][n].held)]
  /\ UNCHANGED <<env, records, pool, rec, free, batch, recl, history, pc>>

-------------------------------------------------------------------------------
(* do_reclamation. *)

\* Mutant: nobody looks whether a nested call asked for more.
AgainNever(t) == /\ in_recl' = [in_recl EXCEPT ![t] = FALSE]
                 /\ Goto(t, back[t]) /\ back' = [back EXCEPT ![t] = Idle] /\ UNCHANGED must_retry

\* The loop of do_reclamation: once more if a nested call asked for it.
Again(t) == IF must_retry[t]
              THEN /\ must_retry' = [must_retry EXCEPT ![t] = FALSE]
                   /\ Goto(t, [at |-> "pop"]) /\ UNCHANGED <<in_recl, back>>
              ELSE /\ in_recl' = [in_recl EXCEPT ![t] = FALSE]
                   /\ Goto(t, back[t]) /\ back' = [back EXCEPT ![t] = Idle] /\ UNCHANGED must_retry

Pop(t) == /\ pc[t].at = "pop"
          /\ popped' = [popped EXCEPT ![t] = retireds] /\ retireds' = {}
          /\ IF retireds = {} THEN Again(t)
             ELSE Goto(t, [at |-> "head"]) /\ UNCHANGED <<loop>>
          /\ UNCHANGED <<env, records, arrays, garbage, slot, batch, guarded, called, history>>

\* collect_guarded_ptrs: the list of records, of which the available are skipped.
ReadHead(t) == /\ pc[t].at = "head" /\ Goto(t, [at |-> "record", k |-> nrec])
               /\ UNCHANGED <<env, domain, slot, batch, recl, history>>
Record(t) == LET k == pc[t].k IN
  /\ pc[t].at = "record" /\ k # 0
  /\ Goto(t, IF avail[k] THEN [at |-> "record", k |-> k - 1] ELSE [at |-> "array", k |-> k])
  /\ UNCHANGED <<env, domain, slot, batch, recl, history>>

\* ThreadRecord::iter takes a slot of the reclaimer's own and reads hazptrs, ...
ReadArray(t, i) == LET k == pc[t].k IN
  /\ pc[t].at = "array" /\ i \in free[t] /\ free' = [free EXCEPT ![t] = @ \ {i}]
  /\ Goto(t, [at |-> "guard", k |-> k, g |-> Last(k), i |-> i])
  /\ UNCHANGED <<env, domain, rec, hp, batch, recl, history>>
ReadArrayGrow(t) == pc[t].at = "array" /\ Grow(t, pc[t])

Look(at, p, g) == [at |-> at, k |-> p.k, g |-> g, i |-> p.i]
Slot(p, j)     == [at |-> "slots", k |-> p.k, g |-> p.g, i |-> p.i, j |-> j]

\* ... protects the array, ...
GuardArray(t) == LET p == pc[t] IN
  /\ p.at = "guard" /\ Put(t, p.i, Addr(p.k, p.g))
  /\ Goto(t, Look("recheck", p, p.g))
  /\ UNCHANGED <<env, records, pool, slot, batch, recl, history>>

\* Mutant: the array is read without a second look at hazptrs.
RecheckNone(t) == LET p == pc[t] IN
  /\ p.at = "recheck"
  /\ Goto(t, Slot(p, 1))
  /\ UNCHANGED <<env, domain, slot, batch, recl, history>>

\* ... and validates it.
Recheck(t) == LET p == pc[t] IN
  /\ p.at = "recheck"
  /\ Goto(t, IF Last(p.k) = p.g
             THEN Slot(p, 1) ELSE Look("guard", p, Last(p.k)))
  /\ UNCHANGED <<env, domain, slot, batch, recl, history>>

\* Then it reads the slots in ascending order ...
ReadSlot(t) == LET p == pc[t]  a == arrays[p.k][p.g] IN
  /\ p.at = "slots" /\ p.j <= Len(a)
  /\ guarded' = [guarded EXCEPT ![t] = @ \cup ({a[p.j]} \ {Null})]
  /\ Goto(t, Slot(p, p.j + 1))
  /\ UNCHANGED <<env, domain, slot, batch, loop, popped, called, history>>

\* ... and drops its hazard pointer.
EndArray(t) == LET p == pc[t] IN
  /\ p.at = "slots" /\ p.j > Len(arrays[p.k][p.g])
  /\ Put(t, p.i, Null) /\ free' = [free EXCEPT ![t] = @ \cup {p.i}]
  /\ Goto(t, [at |-> "record", k |-> p.k - 1])
  /\ UNCHANGED <<env, records, pool, rec, hp, batch, recl, history>>

\* An entry whose pointer nobody guards is called; what that drops is retired in
\* turn.
Judging(t) == pc[t].at = "judge" \/ (pc[t].at = "record" /\ pc[t].k = 0)
Call(t, e) == LET c == IF e \in Refs THEN Child[e] ELSE Null IN
  /\ Judging(t) /\ e \in popped[t] /\ PtrOf(e) \notin guarded[t]
  /\ popped' = [popped EXCEPT ![t] = @ \ {e}] /\ called' = [called EXCEPT ![t] = @ \cup {e}]
  /\ freed' = freed \cup {e}
  /\ IF c = Null THEN Goto(t, [at |-> "judge"]) /\ UNCHANGED <<batch, gone>>
                 ELSE Defer(t, c, [at |-> "judge"])
  /\ UNCHANGED <<env, domain, slot, loop, guarded>>

\* Mutant: the counter is corrected by what stays.
DiscountKept(t) == /\ Judging(t) /\ \A e \in popped[t] : PtrOf(e) \in guarded[t]
                   /\ garbage' = garbage - Cardinality(popped[t])
                   /\ called' = [called EXCEPT ![t] = {}]
                   /\ Goto(t, [at |-> "putback"])
                   /\ UNCHANGED <<env, records, arrays, retireds, slot, batch, loop, popped,
                                  guarded, history>>

\* The others are put back, after the counter was corrected.
Discount(t) == /\ Judging(t) /\ \A e \in popped[t] : PtrOf(e) \in guarded[t]
               /\ garbage' = garbage - Cardinality(called[t])
               /\ called' = [called EXCEPT ![t] = {}]
               /\ Goto(t, [at |-> "putback"])
               /\ UNCHANGED <<env, records, arrays, retireds, slot, batch, loop, popped,
                              guarded, history>>

\* Mutant: what is still guarded is forgotten.
PutBackNone(t) == /\ pc[t].at = "putback" /\ popped' = [popped EXCEPT ![t] = {}]
                  /\ guarded' = [guarded EXCEPT ![t] = {}] /\ Again(t)
                  /\ UNCHANGED <<env, domain, slot, batch, called, history>>

PutBack(t) == /\ pc[t].at = "putback"
              /\ retireds' = retireds \cup popped[t]
              /\ popped' = [popped EXCEPT ![t] = {}]
              /\ guarded' = [guarded EXCEPT ![t] = {}] /\ Again(t)
              /\ UNCHANGED <<env, records, arrays, garbage, slot, batch, called, history>>

-------------------------------------------------------------------------------
Living(t)    == Start(t) \/ Skip(t) \/ Recycle(t) \/ NewRecord(t) \/ Exit(t) \/ Release(t)
Retiring(t)  == \/ \E o \in Roots \cup {Null} : Swap(t, o)
                \/ \E o \in Roots : Drop(t, o)
                \/ EagerReclaim(t) \/ Flush(t) \/ Push(t)
Slots(t)     == \/ Extend(t)
                \/ \E n \in Handles : AcquireGrow(t, n) \/ \E i \in free[t] : Acquire(t, n, i)
Protecting(t) == \/ Publish(t) \/ Validate(t)
                 \/ \E n \in Handles : \/ DropHandle(t, n) \/ Load(t, n) \/ Clear(t, n)
                                       \/ \E m \in Handles \ {n} :
                                            SwapHandles(t, n, m) \/ Copy(t, n, m)
Scanning(t)  == \/ Pop(t) \/ ReadHead(t) \/ Record(t) \/ \E i \in free[t] : ReadArray(t, i)
                \/ ReadArrayGrow(t) \/ GuardArray(t) \/ Recheck(t) \/ ReadSlot(t) \/ EndArray(t)
Judgement(t) == (\E e \in popped[t] : Call(t, e)) \/ Discount(t) \/ PutBack(t)

Step(t) == \/ Living(t) \/ Retiring(t) \/ Slots(t) \/ Protecting(t)
           \/ Scanning(t) \/ Judgement(t)
Next == \E t \in Threads : Step(t)
Spec == Init /\ [][Next]_vars

-------------------------------------------------------------------------------
(* Properties. *)

\* What the variables hold, and where a thread can be: a flush returns to what
\* retired, growing to what needed a slot.  Freed arrays stay in "arrays".
Growing  == [at : {"extend"}, n : Nat,
             to : [at : {"acquire"}, h : Handles] \cup [at : {"array"}, k : 1 .. MaxRecs]]
Return   == [at : {"idle", "release", "judge"}] \cup Growing
Reading  == [at : {"guard", "recheck"}, k : 1 .. MaxRecs, g : Nat, i : Nat \ {0}]
            \cup [at : {"slots"}, k : 1 .. MaxRecs, g : Nat, i : Nat \ {0}, j : Nat \ {0}]
PCs      == [at : {"idle", "release", "pop", "head", "judge", "putback"}]
            \cup [at : {"search", "record"}, k : 0 .. MaxRecs]
            \cup [at : {"array"}, k : 1 .. MaxRecs] \cup Reading
            \cup [at : {"flush", "push"}, to : Return] \cup Growing
            \cup [at : {"acquire"}, h : Handles]
            \cup [at : {"publish", "validate"}, h : Handles, o : Refs \cup {Null}]
SharedType ==
  /\ client \in Clients /\ link \in Roots \cup {Null} /\ nrec \in 0 .. MaxRecs
  /\ avail \in [1 .. MaxRecs -> BOOLEAN]
  /\ arrays \in [1 .. MaxRecs -> Seq(Seq(Ptrs \cup Addrs \cup {Null}))]
  /\ retireds \subseteq Entries /\ gone \subseteq Entries /\ freed \subseteq Entries
ThreadType ==
  /\ rec \in [Threads -> 0 .. nrec] /\ free \in [Threads -> SUBSET (Nat \ {0})]
  /\ hp \in [Threads -> [Handles -> [i : Nat, p : Ptrs \cup {Null}, held : SUBSET Refs]]]
  /\ retired \in [Threads -> SUBSET Entries] /\ count \in [Threads -> 0 .. 2 * FLUSH - 1]
  /\ in_recl \in [Threads -> BOOLEAN] /\ must_retry \in [Threads -> BOOLEAN]
  /\ back \in [Threads -> {Idle} \cup Growing]
  /\ popped \in [Threads -> SUBSET Entries] /\ guarded \in [Threads -> SUBSET (Ptrs \cup Addrs)]
  /\ called \in [Threads -> SUBSET Entries]
TypeOK == SharedType /\ ThreadType /\ pc \in [Threads -> PCs]

\* What the counts of CDRC rest on: no entry is called under a hazard to its
\* pointer that was published before the entry was retired, nor under one that
\* was validated while the reference was linked, whatever grows, exits or is
\* recycled while a scan reads the slots one by one, and however often the
\* pointer was retired, unlinked and linked before.
HazardsHold == \A t \in Threads, n \in Handles : hp[t][n].held \cap freed = {}

\* A slot array is not reclaimed while a scan still reads it.
ArraysHold == \A t \in Threads : pc[t].at = "slots" => Addr(pc[t].k, pc[t].g) \notin freed

\* A record in use has one owner; its array holds just what the owner's hazard
\* pointers say, and no slot belongs to two of them or to one and the free
\* list: growing, recycling a record and a reclamation in the middle of growing
\* neither lose a hazard nor leave one behind.
Held(t)     == {n \in Handles : hp[t][n].i # 0}
Scanner(t)  == IF pc[t].at \in {"guard", "recheck", "slots"} THEN {pc[t].i} ELSE {}
Says(t, i)  == IF i \in Scanner(t) THEN Addr(pc[t].k, pc[t].g)
               ELSE IF \E n \in Held(t) : hp[t][n].i = i
                    THEN hp[t][CHOOSE n \in Held(t) : hp[t][n].i = i].p ELSE Null
SlotsMatch ==
  /\ \A k \in 1 .. nrec :
       LET owners == {t \in Threads : rec[t] = k} IN
         IF avail[k] THEN owners = {} /\ \A i \in DOMAIN Array(k) : Array(k)[i] = Null
         ELSE Cardinality(owners) = 1
  /\ \A t \in Threads : rec[t] # 0 =>
       LET a == Array(rec[t])  taken == {hp[t][n].i : n \in Held(t)} IN
         /\ Cardinality(taken) = Cardinality(Held(t))
         /\ Scanner(t) \cap taken = {} /\ free[t] \cap (taken \cup Scanner(t)) = {}
         /\ free[t] \cup taken \cup Scanner(t) \subseteq DOMAIN a
         /\ \A i \in DOMAIN a : (pc[t].at = "guard" /\ pc[t].i = i) \/ a[i] = Says(t, i)

\* What was retired is in exactly one place until its entry is called, and in
\* none after that: an exit or a nested reclamation does not lose it, and it is
\* not called twice.
EachOnce ==
  \A e \in gone : (IF e \in retireds THEN 1 ELSE 0)
                  + Cardinality({t \in Threads : e \in retired[t]})
                  + Cardinality({t \in Threads : e \in popped[t]}) = IF e \in freed THEN 0 ELSE 1

\* num_garbages counts what was flushed and is not called, and the batches under
\* way; it never wraps below zero.
Counted(e) == \/ e \in retireds
              \/ \E t \in Threads : e \in popped[t] \cup called[t]
              \/ \E t \in Threads : pc[t].at = "push" /\ e \in retired[t]
GarbageExact == garbage = Cardinality({e \in gone : Counted(e)})

\* A reclamation that was asked for while one ran is not forgotten: the flag is
\* up only while the loop that will look at it runs, and a thread leaves the
\* outermost reclamation with both flags down.
RetryHonoured == \A t \in Threads : /\ must_retry[t] => in_recl[t]
                                    /\ pc[t] = Idle => ~in_recl[t]
===============================================================================
