------------------------------- MODULE BagQueue -------------------------------
(***************************************************************************)
(* What the queue of sealed bags promises the collector: a bag goes in     *)
(* once, at the back; it comes out at most once, from the front; and each  *)
(* call takes effect at one moment between its beginning and its end.      *)
(***************************************************************************)
EXTENDS Naturals, Sequences

CONSTANTS Threads, NoBag

VARIABLES q,         \* the bags in the queue, the oldest first
          call,      \* call[t]: none, push, pop, pop_if, or done (about to return)
          bag,       \* bag[t]: what push was given, or what pop took out
          pushed     \* bags given to push so far

vars == <<q, call, bag, pushed>>

Init == /\ q = <<>> /\ call = [t \in Threads |-> "none"]
        /\ bag = [t \in Threads |-> NoBag] /\ pushed = 0

\* Bags are told apart by their number.
CallPush(t) ==
  /\ call[t] = "none" /\ call' = [call EXCEPT ![t] = "push"]
  /\ pushed' = pushed + 1
  /\ bag' = [bag EXCEPT ![t] = pushed + 1] /\ UNCHANGED q
CallPop(t) == /\ call[t] = "none" /\ UNCHANGED <<q, bag, pushed>>
              /\ \E c \in {"pop", "pop_if"} : call' = [call EXCEPT ![t] = c]

Effect(t)  == call' = [call EXCEPT ![t] = "done"] /\ UNCHANGED pushed
Push(t)    == /\ call[t] = "push" /\ Effect(t) /\ q' = Append(q, bag[t])
              /\ bag' = [bag EXCEPT ![t] = NoBag]
Pop(t)     == /\ call[t] \in {"pop", "pop_if"} /\ q # <<>> /\ Effect(t)
              /\ q' = Tail(q) /\ bag' = [bag EXCEPT ![t] = Head(q)]
\* Only an empty queue, or a condition that is not met, makes a pop return None.
None(t)    == call' = [call EXCEPT ![t] = "none"] /\ UNCHANGED <<q, bag, pushed>>
Empty(t)   == call[t] \in {"pop", "pop_if"} /\ q = <<>> /\ None(t)
Reject(t)  == call[t] = "pop_if" /\ None(t)

Return(t)  == /\ call[t] = "done" /\ call' = [call EXCEPT ![t] = "none"]
              /\ bag' = [bag EXCEPT ![t] = NoBag] /\ UNCHANGED <<q, pushed>>

\* The queue is dropped, and with it the bags in it.
DropAll    == /\ \A t \in Threads : call[t] = "none"
              /\ q' = <<>> /\ UNCHANGED <<call, bag, pushed>>

Next == \/ DropAll
        \/ \E t \in Threads : \/ CallPush(t) \/ CallPop(t) \/ Push(t) \/ Pop(t)
                              \/ Empty(t) \/ Reject(t) \/ Return(t)
Spec == Init /\ [][Next]_vars
==============================================================================
