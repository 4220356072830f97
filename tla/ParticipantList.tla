---------------------------- MODULE ParticipantList ----------------------------
(***************************************************************************)
(* The list of participants, sync/list.rs, as Global and Local use it: a   *)
(* thread registers by inserting its entry at the head, iterates over the  *)
(* list in try_advance while it is pinned, and in finalize marks its entry *)
(* and lets go of the Global.  Iterations unlink marked entries and retire *)
(* them; the last to let go destroys the list.  Every access to a shared   *)
(* word is an action.  The memory of an entry that was reclaimed may be    *)
(* used for the next one.                                                  *)
(***************************************************************************)
EXTENDS TaggedPtr, FiniteSets

CONSTANTS Threads,
          Entries,   \* addresses an entry can be allocated at
          MaxReg     \* a bound: times that entries are inserted in all

ASSUME NullAssumption == 0 \notin Entries
\* An address that is aligned leaves room for the mark and keeps apart from it.
ASSUME WordAssumption ==
  \A a \in Entries \union {0} : \A t \in {0, 1} :
    /\ as_raw(with_tag(a, t)) = a /\ tag(with_tag(a, t)) = t /\ with_tag(a, 0) = a
    /\ with_tag(with_tag(a, t), 0) = a /\ fetch_or(with_tag(a, t), 1) = with_tag(a, 1)
ASSUME BoundAssumption == MaxReg \in Nat

HEAD == 0            \* pred: the word is List.head, and not some entry's next

VARIABLES
  head,      \* List.head
  next,      \* next[a]: Entry.next of the entry at a
  mem,       \* mem[a]: free, local (not inserted yet), listed, or retired
  wait,      \* wait[a]: of a retired entry, the guards it still waits for
  pc,        \* control point of a thread
  entry,     \* the entry of a thread (0: none)
  tmp,       \* insert: what head is expected to be; iteration: succ
  pred, curr,\* Iter.pred (an entry or HEAD) and Iter.curr
  missing,   \* history: entries an iteration under way has still to return
  inserted,  \* history: number of insertions so far
  closed,    \* the Collector is gone, so that Locals hold the only references
  dropped    \* the list is gone; whether the assertion in its drop held

iter  == <<pred, curr, missing>>
vars  == <<head, next, mem, wait, pc, entry, tmp, iter, inserted, closed, dropped>>

Goto(t, l)  == pc' = [pc EXCEPT ![t] = l]
\* The threads that hold the guard of an iteration.
Pinned      == {t \in Threads : pc[t] \in {"iter", "unlink", "finalize", "stalled"}}
Marked(a)   == tag(next[a]) = 1
\* The word pred points to.
Word(p)     == IF p = HEAD THEN head ELSE next[p]

\* The entries of the list: whatever contains the head's and, with an entry, the
\* one it leads to, contains them.
Closed(S) == \A a \in S : as_raw(next[a]) \in S \union {0}
Reachable ==
  {a \in Entries : \A S \in SUBSET Entries : head \in S \union {0} /\ Closed(S) => a \in S}

Init == /\ head = 0 /\ next = [a \in Entries |-> 0]
        /\ mem = [a \in Entries |-> "free"] /\ wait = [a \in Entries |-> {}]
        /\ pc = [t \in Threads |-> "out"] /\ entry = [t \in Threads |-> 0]
        /\ tmp = [t \in Threads |-> 0]
        /\ pred = [t \in Threads |-> HEAD] /\ curr = [t \in Threads |-> 0]
        /\ missing = [t \in Threads |-> {}]
        /\ inserted = 0 /\ closed = FALSE /\ dropped = "no"

\* List::drop, with every thread gone: check that each entry is marked, and
\* finalize it at once.  With the queue of the Global goes what was retired.
DropList ==
  IF \A a \in Reachable : Marked(a)
    THEN /\ dropped' = "clean" /\ head' = 0
         /\ LET Gone == Reachable \union {a \in Entries : mem[a] = "retired"}
            IN  mem' = [a \in Entries |-> IF a \in Gone THEN "free" ELSE mem[a]]
         /\ UNCHANGED <<next, wait>>
    ELSE dropped' = "panicked" /\ UNCHANGED <<head, next, mem, wait>>

------------------------------------------------------------------------------
(* Mutants. *)

\* insert gives up the successor it has stored when it tries again.
InsertTryStale(t) ==
  /\ pc[t] = "insert"
  /\ next' = [next EXCEPT ![entry[t]] = IF @ = 0 THEN tmp[t] ELSE @]
  /\ \E r \in compare_exchange_weak(head, tmp[t], entry[t]) :
       /\ head' = r.data
       /\ tmp' = [tmp EXCEPT ![t] = IF r.ok THEN 0 ELSE r.current]
       /\ IF r.ok THEN mem' = [mem EXCEPT ![entry[t]] = "listed"] /\ Goto(t, "in")
                  ELSE UNCHANGED <<mem, pc>>
  /\ UNCHANGED <<wait, entry, iter, inserted, closed, dropped>>

\* finalize drops the reference to the Global before it marks the entry.
DeleteLast(t) ==
  /\ pc[t] = "in" /\ Goto(t, "release")
  /\ IF closed /\ \A u \in Threads \ {t} : pc[u] = "out"
       THEN DropList
       ELSE /\ next' = [next EXCEPT ![entry[t]] = fetch_or(@, 1)]
            /\ UNCHANGED <<head, mem, wait, dropped>>
  /\ missing' = [u \in Threads |-> missing[u] \ {entry[t]}]
  /\ UNCHANGED <<entry, tmp, pred, curr, inserted, closed>>

\* Whoever met a marked entry finalizes it, also if another thread unlinked it.
UnlinkAlways(t) ==
  LET r == compare_exchange(Word(pred[t]), curr[t], tmp[t]) IN
  /\ pc[t] = "unlink" /\ Goto(t, "finalize")
  /\ IF pred[t] = HEAD THEN head' = r.data /\ UNCHANGED next
                       ELSE next' = [next EXCEPT ![pred[t]] = r.data] /\ UNCHANGED head
  /\ UNCHANGED <<mem, wait, entry, tmp, iter, inserted, closed, dropped>>

\* The iteration goes on from a predecessor that is itself marked.
UnlinkNoStall(t) ==
  LET r == compare_exchange(Word(pred[t]), curr[t], tmp[t]) IN
  /\ pc[t] = "unlink" /\ Goto(t, IF r.ok THEN "finalize" ELSE "iter")
  /\ IF pred[t] = HEAD THEN head' = r.data /\ UNCHANGED next
                       ELSE next' = [next EXCEPT ![pred[t]] = r.data] /\ UNCHANGED head
  /\ curr' = [curr EXCEPT ![t] = IF r.ok THEN @ ELSE r.current]
  /\ UNCHANGED <<mem, wait, entry, tmp, pred, missing, inserted, closed, dropped>>

\* The end of the guard is not waited for.
FinalizeNow(t) ==
  /\ pc[t] = "finalize" /\ Goto(t, "iter")
  /\ mem' = [mem EXCEPT ![curr[t]] = "retired"]
  /\ curr' = [curr EXCEPT ![t] = tmp[t]] /\ tmp' = [tmp EXCEPT ![t] = 0]
  /\ UNCHANGED <<head, next, wait, entry, pred, missing, inserted, closed, dropped>>
------------------------------------------------------------------------------
(* Registration and removal of an entry. *)

\* Local::register: a new Local, and insert's first look at the head.
Register(t) ==
  /\ pc[t] = "out" /\ ~closed /\ inserted < MaxReg
  /\ \E a \in Entries :
       /\ mem[a] = "free"
       /\ mem' = [mem EXCEPT ![a] = "local"] /\ entry' = [entry EXCEPT ![t] = a]
       /\ next' = [next EXCEPT ![a] = 0]
  /\ tmp' = [tmp EXCEPT ![t] = head] /\ inserted' = inserted + 1
  /\ Goto(t, "insert")
  /\ UNCHANGED <<head, wait, iter, closed, dropped>>

\* insert: link the entry in front of what was the head, or learn of a new one.
InsertTry(t) ==
  /\ pc[t] = "insert"
  /\ next' = [next EXCEPT ![entry[t]] = tmp[t]]
  /\ \E r \in compare_exchange_weak(head, tmp[t], entry[t]) :
       /\ head' = r.data
       /\ tmp' = [tmp EXCEPT ![t] = IF r.ok THEN 0 ELSE r.current]
       /\ IF r.ok THEN mem' = [mem EXCEPT ![entry[t]] = "listed"] /\ Goto(t, "in")
                  ELSE UNCHANGED <<mem, pc>>
  /\ UNCHANGED <<wait, entry, iter, inserted, closed, dropped>>

\* Local::finalize: Entry::delete, ...
Delete(t) ==
  /\ pc[t] = "in"
  /\ next' = [next EXCEPT ![entry[t]] = fetch_or(@, 1)]
  /\ missing' = [u \in Threads |-> missing[u] \ {entry[t]}]
  /\ Goto(t, "release")
  /\ UNCHANGED <<head, mem, wait, entry, tmp, pred, curr, inserted, closed, dropped>>

\* ... then drop(collector), which may be the last reference to the Global.
Release(t) ==
  /\ pc[t] = "release" /\ Goto(t, "out") /\ entry' = [entry EXCEPT ![t] = 0]
  /\ IF closed /\ \A u \in Threads \ {t} : pc[u] = "out"
       THEN DropList ELSE UNCHANGED <<head, next, mem, wait, dropped>>
  /\ UNCHANGED <<tmp, iter, inserted, closed>>

\* The Collector itself is dropped; no thread can register any more.
Close ==
  /\ ~closed /\ closed' = TRUE
  /\ IF \A t \in Threads : pc[t] = "out"
       THEN DropList ELSE UNCHANGED <<head, next, mem, wait, dropped>>
  /\ UNCHANGED <<pc, entry, tmp, iter, inserted>>
------------------------------------------------------------------------------
(* Iteration. *)

\* List::iter, under a guard.
Iterate(t) ==
  /\ pc[t] = "in" /\ Goto(t, "iter")
  /\ pred' = [pred EXCEPT ![t] = HEAD] /\ curr' = [curr EXCEPT ![t] = head]
  /\ missing' = [missing EXCEPT ![t] = {a \in Entries : mem[a] = "listed" /\ ~Marked(a)}]
  /\ UNCHANGED <<head, next, mem, wait, entry, tmp, inserted, closed, dropped>>

\* Iter::next on an entry that is not marked: return it.
Yield(t) ==
  /\ pc[t] = "iter" /\ curr[t] # 0 /\ ~Marked(curr[t])
  /\ pred' = [pred EXCEPT ![t] = curr[t]] /\ curr' = [curr EXCEPT ![t] = next[curr[t]]]
  /\ missing' = [missing EXCEPT ![t] = @ \ {curr[t]}]
  /\ UNCHANGED <<head, next, mem, wait, pc, entry, tmp, inserted, closed, dropped>>

\* Iter::next on a marked entry: ...
Meet(t) ==
  /\ pc[t] = "iter" /\ curr[t] # 0 /\ Marked(curr[t])
  /\ tmp' = [tmp EXCEPT ![t] = with_tag(next[curr[t]], 0)] /\ Goto(t, "unlink")
  /\ UNCHANGED <<head, next, mem, wait, entry, iter, inserted, closed, dropped>>

\* ... unlink it, or go where the predecessor leads now, unless that is marked.
Unlink(t) ==
  LET r == compare_exchange(Word(pred[t]), curr[t], tmp[t]) IN
  /\ pc[t] = "unlink"
  /\ IF pred[t] = HEAD THEN head' = r.data /\ UNCHANGED next
                       ELSE next' = [next EXCEPT ![pred[t]] = r.data] /\ UNCHANGED head
  /\ \/ r.ok /\ Goto(t, "finalize") /\ UNCHANGED <<curr, tmp>>
     \/ /\ ~r.ok /\ tag(r.current) = 0 /\ Goto(t, "iter")
        /\ curr' = [curr EXCEPT ![t] = r.current] /\ tmp' = [tmp EXCEPT ![t] = 0]
     \/ /\ ~r.ok /\ tag(r.current) # 0 /\ Goto(t, "stalled")
        /\ curr' = [curr EXCEPT ![t] = 0] /\ tmp' = [tmp EXCEPT ![t] = 0]
  /\ UNCHANGED <<mem, wait, entry, pred, missing, inserted, closed, dropped>>

\* Local's IsElement::finalize: defer the destruction of the unlinked entry.
Finalize(t) ==
  /\ pc[t] = "finalize" /\ Goto(t, "iter")
  /\ mem' = [mem EXCEPT ![curr[t]] = "retired"]
  /\ wait' = [wait EXCEPT ![curr[t]] = Pinned]
  /\ curr' = [curr EXCEPT ![t] = tmp[t]] /\ tmp' = [tmp EXCEPT ![t] = 0]
  /\ UNCHANGED <<head, next, entry, pred, missing, inserted, closed, dropped>>

\* Report Stalled; a caller that asks for the next element starts over.
Restart(t) ==
  /\ pc[t] = "stalled" /\ Goto(t, "iter")
  /\ pred' = [pred EXCEPT ![t] = HEAD] /\ curr' = [curr EXCEPT ![t] = head]
  /\ UNCHANGED <<head, next, mem, wait, entry, tmp, missing, inserted, closed, dropped>>

\* The caller has enough (try_advance returns), and its guard ends.
Leave(t) ==
  /\ pc[t] \in {"iter", "stalled"} /\ Goto(t, "in")
  /\ pred' = [pred EXCEPT ![t] = HEAD] /\ curr' = [curr EXCEPT ![t] = 0]
  /\ missing' = [missing EXCEPT ![t] = {}]
  /\ wait' = [a \in Entries |-> wait[a] \ {t}]
  /\ UNCHANGED <<head, next, mem, entry, tmp, inserted, closed, dropped>>

\* The collector destroys a Local once the grace period is over.
Destroy(a) ==
  /\ mem[a] = "retired" /\ wait[a] = {}
  /\ mem' = [mem EXCEPT ![a] = "free"] /\ next' = [next EXCEPT ![a] = 0]
  /\ UNCHANGED <<head, wait, pc, entry, tmp, iter, inserted, closed, dropped>>
------------------------------------------------------------------------------
Iterating(t) == \/ Iterate(t) \/ Yield(t) \/ Meet(t) \/ Unlink(t) \/ Finalize(t)
                \/ Restart(t) \/ Leave(t)
Next == \/ \E t \in Threads : \/ Register(t) \/ InsertTry(t) \/ Delete(t) \/ Release(t)
                              \/ Iterating(t)
        \/ \E a \in Entries : Destroy(a)
        \/ Close
Spec == Init /\ [][Next]_vars
------------------------------------------------------------------------------
PCs == {"out", "insert", "in", "release", "iter", "unlink", "finalize", "stalled"}
Words == UNION {{a, with_tag(a, 1)} : a \in Entries \union {0}}

\* Every variable keeps its type; only the words in `next` carry tags, as next
\* asserts of curr ("The tag should always be zero").
TypeOK ==
  /\ head \in Entries \union {0} /\ next \in [Entries -> Words]
  /\ mem \in [Entries -> {"free", "local", "listed", "retired"}]
  /\ wait \in [Entries -> SUBSET Threads] /\ pc \in [Threads -> PCs]
  /\ \A f \in {entry, tmp, pred, curr} : f \in [Threads -> Entries \union {0}]
  /\ missing \in [Threads -> SUBSET Entries]
  /\ inserted \in 0 .. MaxReg /\ closed \in BOOLEAN
  /\ dropped \in {"no", "clean", "panicked"}

\* "Every object that is inserted at the moment this function is called and
\* persists at least until the end of iteration will be returned" (List::iter):
\* when an iteration comes to the end it has returned every entry that was in
\* the list when it began and is not marked, also if it was stalled in between.
\* This is what try_advance relies on to meet every pinned participant.
IterationComplete == \A t \in Threads : pc[t] = "iter" /\ curr[t] = 0 => missing[t] = {}

\* No entry is lost and none is finalized twice: what was inserted and not yet
\* retired is in the list, or unlinked by exactly one thread that goes on to
\* finalize it; what is retired has been marked and cannot be reached from head.
Finalizers(a) == {t \in Threads : pc[t] = "finalize" /\ curr[t] = a}
EachFinalizedOnce ==
  \A a \in Entries :
    /\ mem[a] = "listed" =>
         Cardinality(Finalizers(a)) = IF a \in Reachable THEN 0 ELSE 1
    /\ mem[a] # "listed" => a \notin Reachable /\ Finalizers(a) = {}
    /\ mem[a] = "retired" => Marked(a)

\* What an iterator points to is not destroyed under it, and so not used for
\* another entry either: it may be marked, unlinked and retired, not freed.
NoDangling == \A t \in Pinned : \A a \in {pred[t], curr[t], tmp[t]} \ {0} : mem[a] # "free"

\* List::drop: "Verify that all elements have been removed from the list".
DropClean == dropped # "panicked"
==============================================================================
