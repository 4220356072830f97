-------------------------------- MODULE MSQueue --------------------------------
(***************************************************************************)
(* The Michael-Scott queue of sealed bags, sync/queue.rs, used as the      *)
(* collector uses it: under a guard, with popped nodes deferred to the     *)
(* collector itself.  The memory of a node is used again after it is       *)
(* freed.                                                                  *)
(*                                                                         *)
(* head and the links are sequentially consistent here, the tail is not:   *)
(* pop loads it Relaxed and push may be late to move it.  `tails` is the   *)
(* modification order of Queue.tail; a load returns any of its values that *)
(* is not older than what the thread knows of, a successful compare-and-   *)
(* swap acts on the last.  What a thread knows (`view`) grows by its own   *)
(* accesses, by Acquire loads of what was stored Release, and by the       *)
(* fences of pin and push_bag.                                             *)
(***************************************************************************)
EXTENDS Naturals, Sequences, FiniteSets, SequencesExt

CONSTANTS Threads,
          Nodes,      \* addresses of nodes
          Null,
          NoBag,
          MaxPush,    \* a bound: calls of push in all
          Pushers, Poppers,  \* threads that call push; that call try_pop and try_pop_if
          Slow        \* threads that may stop at any point

ASSUME NullAssumption == Null \notin Nodes /\ Slow \subseteq Threads
\* There is a sentinel from the beginning on.
ASSUME NodesAssumption == Nodes # {} /\ IsFiniteSet(Nodes)

VARIABLES
  head, next, data,   \* Queue.head, and next and data of each node
  tails,              \* the modification order of Queue.tail
  mem,                \* mem[n]: free, held by push, in use, deferred, or retired
  wait,               \* wait[n]: of a retired node, the guards it waits for
  pc, onto, succ,     \* control point; the node loaded from tail or head; its next
  new, pushed,        \* push: its node; bags pushed so far
  mine,               \* nodes in the local bag of a thread, not sealed yet
  view,               \* view[t]: the oldest value in tails that t may still see
  hview, lview,       \* what head, and the link to a node, tell of tails
  rview               \* what the fences of push_bag tell

queue == <<head, next, data, tails>>
memory == <<mem, wait, mine>>
local == <<onto, succ, new, pushed>>
views == <<view, hview, lview, rview>>
vars  == <<queue, memory, pc, local, views>>

Goto(t, l)   == pc' = [pc EXCEPT ![t] = l]
Learn(t, v)  == view' = [view EXCEPT ![t] = IF v > @ THEN v ELSE @]
Later(v, w)  == IF v > w THEN v ELSE w
Visible(t)   == view[t] .. Len(tails)
Plain(t)     == pc[t] \in {"pop", "pop_next", "take"}    \* try_pop, not try_pop_if
Active       == {t \in Threads : pc[t] # "out"}

\* The nodes from head on: the sentinel, then one for every bag in the queue.
From[k \in Nat] ==
  IF k = 0 THEN <<head>>
  ELSE LET Nearer == From[k - 1]
       IN  IF next[Last(Nearer)] = Null THEN Nearer ELSE Append(Nearer, next[Last(Nearer)])
Chain == From[Cardinality(Nodes)]

\* Queue::new.
Init ==
  /\ head = (CHOOSE sentinel \in Nodes : TRUE) /\ tails = <<head>>
  /\ mem = [n \in Nodes |-> IF n = head THEN "used" ELSE "free"]
  /\ next = [n \in Nodes |-> Null] /\ data = [n \in Nodes |-> NoBag]
  /\ wait = [n \in Nodes |-> {}] /\ mine = [t \in Threads |-> {}]
  /\ pc = [t \in Threads |-> "out"]
  /\ onto = [t \in Threads |-> Null] /\ succ = onto /\ new = onto
  /\ pushed = 0
  /\ view = [t \in Threads |-> 1] /\ hview = 1 /\ rview = 1
  /\ lview = [n \in Nodes |-> 1]

\* compare_exchange on tail.  A failing one is a load, of an older value even.
CasTail(t, current, value) ==
  \/ Last(tails) = current /\ tails' = Append(tails, value) /\ Learn(t, Len(tails) + 1)
  \/ /\ \E i \in Visible(t) : tails[i] # current /\ Learn(t, i)
     /\ UNCHANGED tails
------------------------------------------------------------------------------
(* The guard that the calls are made under. *)

\* Local::pin, with its fence.
Pin(t) == /\ head # Null /\ pc[t] = "out" /\ Goto(t, "in") /\ Learn(t, rview)
          /\ UNCHANGED <<queue, memory, local, hview, lview, rview>>

Unpin(t) == /\ pc[t] = "in" /\ Goto(t, "out")
            /\ wait' = [n \in Nodes |-> wait[n] \ {t}]
            /\ UNCHANGED <<queue, mem, mine, local, views>>

\* Global::push_bag, with its fence, seals the bag that holds retired nodes.
Seal(t) ==
  /\ pc[t] = "in" /\ mine[t] # {}
  /\ mem' = [n \in Nodes |-> IF n \in mine[t] THEN "retired" ELSE mem[n]]
  /\ wait' = [n \in Nodes |-> IF n \in mine[t] THEN Active ELSE wait[n]]
  /\ mine' = [mine EXCEPT ![t] = {}] /\ rview' = Later(rview, view[t])
  /\ UNCHANGED <<queue, pc, local, view, hview, lview>>

\* The collector frees what it was given when all those guards are gone.
Free(n) ==
  /\ mem[n] = "retired" /\ wait[n] = {} /\ mem' = [mem EXCEPT ![n] = "free"]
  /\ next' = [next EXCEPT ![n] = Null] /\ data' = [data EXCEPT ![n] = NoBag]
  /\ lview' = [lview EXCEPT ![n] = 1]
  /\ UNCHANGED <<head, tails, wait, mine, pc, local, view, hview, rview>>
------------------------------------------------------------------------------
(* Mutants. *)

\* The loser of the race for the tail does not help, but waits for the winner.
HelpNot(t) ==
  /\ pc[t] = "help" /\ Goto(t, "push")
  /\ onto' = [onto EXCEPT ![t] = Null] /\ succ' = [succ EXCEPT ![t] = Null]
  /\ UNCHANGED <<queue, memory, new, pushed, views>>

\* The new node is stored into the link, not swapped for null.
LinkBlind(t) ==
  /\ pc[t] = "link" /\ Goto(t, "swing")
  /\ next' = [next EXCEPT ![onto[t]] = new[t]]
  /\ lview' = [lview EXCEPT ![new[t]] = view[t]]
  /\ mem' = [mem EXCEPT ![new[t]] = "used"]
  /\ UNCHANGED <<head, data, tails, wait, mine, local, view, hview, rview>>

\* pop loads the next node Relaxed.
PopNextRelaxed(t) ==
  /\ pc[t] \in {"pop_next", "pop_if_next"} /\ next[onto[t]] # Null
  /\ Goto(t, IF Plain(t) THEN "take" ELSE "take_if")
  /\ succ' = [succ EXCEPT ![t] = next[onto[t]]]
  /\ UNCHANGED <<queue, memory, onto, new, pushed, views>>

\* pop leaves a tail that lags behind to the push that is responsible.
PopTailIgnored(t) ==
  /\ pc[t] = "pop_tail" /\ Goto(t, "retire")
  /\ UNCHANGED <<queue, memory, local, views>>
------------------------------------------------------------------------------
(* push *)

PushStart(t) ==
  /\ t \in Pushers /\ pc[t] = "in" /\ pushed < MaxPush /\ Goto(t, "push")
  /\ \E n \in Nodes :
       /\ mem[n] = "free" /\ mem' = [mem EXCEPT ![n] = "held"]
       /\ data' = [data EXCEPT ![n] = pushed + 1]
       /\ new' = [new EXCEPT ![t] = n]
  /\ pushed' = pushed + 1
  /\ UNCHANGED <<head, next, tails, wait, mine, onto, succ, views>>

\* tail.load(Acquire)
PushTail(t) ==
  /\ pc[t] = "push" /\ Goto(t, "push_next")
  /\ \E i \in Visible(t) : onto' = [onto EXCEPT ![t] = tails[i]] /\ Learn(t, i)
  /\ UNCHANGED <<queue, memory, succ, new, pushed, hview, lview, rview>>

\* push_internal: is `onto` the actual tail?
PushNext(t) ==
  LET n == next[onto[t]] IN
  /\ pc[t] = "push_next" /\ succ' = [succ EXCEPT ![t] = n]
  /\ \/ n = Null /\ Goto(t, "link") /\ UNCHANGED view
     \/ n # Null /\ Goto(t, "help") /\ Learn(t, lview[n])
  /\ UNCHANGED <<queue, memory, onto, new, pushed, hview, lview, rview>>

\* ... if not, move the tail forward and start over ...
Help(t) ==
  /\ pc[t] = "help" /\ Goto(t, "push") /\ CasTail(t, onto[t], succ[t])
  /\ onto' = [onto EXCEPT ![t] = Null] /\ succ' = [succ EXCEPT ![t] = Null]
  /\ UNCHANGED <<head, next, data, memory, new, pushed, hview, lview, rview>>

\* ... if so, link in the new node, unless another thread was faster.
Link(t) ==
  /\ pc[t] = "link"
  /\ IF next[onto[t]] = Null
       THEN /\ next' = [next EXCEPT ![onto[t]] = new[t]]
            /\ lview' = [lview EXCEPT ![new[t]] = view[t]]
            /\ mem' = [mem EXCEPT ![new[t]] = "used"]
            /\ Goto(t, "swing") /\ UNCHANGED onto
       ELSE /\ onto' = [onto EXCEPT ![t] = Null] /\ Goto(t, "push")
            /\ UNCHANGED <<next, lview, mem>>
  /\ UNCHANGED <<head, data, tails, wait, mine, succ, new, pushed, view, hview, rview>>

\* Move the tail to the node that was linked, and return.
Swing(t) ==
  /\ pc[t] = "swing" /\ Goto(t, "in") /\ CasTail(t, onto[t], new[t])
  /\ onto' = [onto EXCEPT ![t] = Null] /\ new' = [new EXCEPT ![t] = Null]
  /\ UNCHANGED <<head, next, data, memory, succ, pushed, hview, lview, rview>>
------------------------------------------------------------------------------
(* try_pop and try_pop_if *)

\* head.load(Acquire)
PopHead(t) ==
  /\ t \in Poppers
  /\ \/ pc[t] \in {"in", "pop"}    /\ Goto(t, "pop_next")
     \/ pc[t] \in {"in", "pop_if"} /\ Goto(t, "pop_if_next")
  /\ onto' = [onto EXCEPT ![t] = head] /\ Learn(t, hview)
  /\ UNCHANGED <<queue, memory, succ, new, pushed, hview, lview, rview>>

\* next.load(Acquire), of a bag that meets the condition.
PopNext(t) ==
  LET n == next[onto[t]] IN
  /\ pc[t] \in {"pop_next", "pop_if_next"} /\ n # Null
  /\ Goto(t, IF Plain(t) THEN "take" ELSE "take_if")
  /\ succ' = [succ EXCEPT ![t] = n] /\ Learn(t, lview[n])
  /\ UNCHANGED <<queue, memory, onto, new, pushed, hview, lview, rview>>

\* ... but if there is none, or the condition rejects it, the pop returns None.
PopNone(t) ==
  LET n == next[onto[t]] IN
  /\ pc[t] \in {"pop_next", "pop_if_next"} /\ Goto(t, "in")
  /\ \/ n = Null /\ UNCHANGED view
     \/ n # Null /\ ~Plain(t) /\ Learn(t, lview[n])
  /\ onto' = [onto EXCEPT ![t] = Null]
  /\ UNCHANGED <<queue, memory, succ, new, pushed, hview, lview, rview>>

\* The compare_exchange on head ...
Take(t) ==
  /\ pc[t] \in {"take", "take_if"} /\ head = onto[t] /\ Goto(t, "pop_tail")
  /\ head' = succ[t] /\ hview' = Later(hview, view[t])
  /\ UNCHANGED <<next, data, tails, memory, local, view, lview, rview>>

\* ... whose loser starts over.
Lose(t) ==
  /\ pc[t] \in {"take", "take_if"} /\ head # onto[t]
  /\ Goto(t, IF Plain(t) THEN "pop" ELSE "pop_if")
  /\ onto' = [onto EXCEPT ![t] = Null] /\ succ' = [succ EXCEPT ![t] = Null]
  /\ UNCHANGED <<queue, memory, new, pushed, views>>

\* tail.load(Relaxed)
PopTail(t) ==
  /\ pc[t] = "pop_tail"
  /\ \E i \in Visible(t) :
       /\ Learn(t, i) /\ Goto(t, IF tails[i] = onto[t] THEN "advance" ELSE "retire")
  /\ UNCHANGED <<queue, memory, local, hview, lview, rview>>

\* "Advance the tail so that we don't retire a pointer to a reachable node".
PopAdvance(t) ==
  /\ pc[t] = "advance" /\ Goto(t, "retire") /\ CasTail(t, onto[t], succ[t])
  /\ UNCHANGED <<head, next, data, memory, local, hview, lview, rview>>

\* defer_destroy(head), and move the bag out of the node that is the head now.
Retire(t) ==
  /\ pc[t] = "retire" /\ Goto(t, "in")
  /\ mem' = [mem EXCEPT ![onto[t]] = "deferred"]
  /\ mine' = [mine EXCEPT ![t] = @ \union {onto[t]}]
  /\ data' = [data EXCEPT ![succ[t]] = NoBag]
  /\ onto' = [onto EXCEPT ![t] = Null] /\ succ' = [succ EXCEPT ![t] = Null]
  /\ UNCHANGED <<head, next, tails, wait, new, pushed, views>>

\* Queue::drop, when no participant is left: pop what there is, each node being
\* destroyed at once, and destroy the sentinel.
DropQueue ==
  /\ head # Null /\ \A t \in Threads : pc[t] = "out" /\ mine[t] = {}
  /\ head' = Null
  /\ mem' = [n \in Nodes |-> IF n \in ToSet(Chain) THEN "free" ELSE mem[n]]
  /\ UNCHANGED <<next, data, tails, wait, mine, pc, local, views>>
------------------------------------------------------------------------------
Call(t) == \/ PushTail(t) \/ PushNext(t) \/ Help(t) \/ Link(t) \/ Swing(t)
           \/ PopHead(t) \/ PopNext(t) \/ PopNone(t) \/ Take(t) \/ Lose(t)
           \/ PopTail(t) \/ PopAdvance(t) \/ Retire(t)
Next == \/ \E t \in Threads : \/ Pin(t) \/ Unpin(t) \/ Seal(t)
                              \/ PushStart(t) \/ Call(t)
        \/ \E n \in Nodes : Free(n)
        \/ DropQueue

\* A thread that is not suspended goes on with the call it has begun.
Spec == Init /\ [][Next]_vars /\ \A t \in Threads \ Slow : WF_vars(pc[t] # "in" /\ Call(t))
------------------------------------------------------------------------------
Taken(t) == pc[t] \in {"pop_tail", "advance", "retire"}

\* No call touches memory that was freed: the node a thread has loaded from tail
\* or head, and the next of it, stay allocated until the call is done with them,
\* and so does the node that tail itself points to.
NoUseAfterFree ==
  /\ \A t \in Threads : \A n \in {onto[t], succ[t]} \ {Null} : mem[n] # "free"
  /\ head # Null => mem[Last(tails)] # "free"

\* A node is retired only when neither head nor tail can lead to it any more
\* ("so that we don't retire a pointer to a reachable node"), and by the one
\* thread that moved head past it; no other node leaves the queue.
RetiredUnreachable ==
  \A n \in Nodes :
    /\ mem[n] \in {"deferred", "retired"} =>
         n # Last(tails) /\ (head # Null => n \notin ToSet(Chain))
    /\ mem[n] = "used" /\ head # Null =>
         \/ n \in ToSet(Chain) /\ \A t \in Threads : Taken(t) => onto[t] # n
         \/ n \notin ToSet(Chain) /\ \E t \in Threads : Taken(t) /\ onto[t] = n

\* The queue is a FIFO queue whose calls are atomic: BagQueue, where a push takes
\* effect when the node is linked and a pop when head is moved.
Bags == IF head = Null THEN <<>> ELSE [i \in 1 .. Len(Chain) - 1 |-> data[Chain[i + 1]]]
CallOf(t) == IF pc[t] \in {"out", "in"} THEN "none"
             ELSE IF pc[t] = "swing" \/ Taken(t) THEN "done"
             ELSE IF pc[t] \in {"push", "push_next", "help", "link"} THEN "push"
             ELSE IF Plain(t) THEN "pop" ELSE "pop_if"
BagOf(t)  == IF CallOf(t) = "push" THEN data[new[t]]
             ELSE IF Taken(t) THEN data[succ[t]] ELSE NoBag
Abstract  == INSTANCE BagQueue WITH q <- Bags, call <- [t \in Threads |-> CallOf(t)],
                                    bag <- [t \in Threads |-> BagOf(t)]
Refinement == Abstract!Spec

\* The queue is lock-free, whatever a suspended thread has left half done: while
\* the calls of others are bounded in number, a thread's own calls come to an end.
CallsReturn ==
  \A t \in Threads \ Slow : CallOf(t) # "none" ~> CallOf(t) = "none"
==============================================================================
