-------------------------------- MODULE MCEBR --------------------------------
(***************************************************************************)
(* The collector for TLC.  Succ and Dist, and so every action, commute     *)
(* with a rotation of the epochs: the view identifies two states that      *)
(* differ by one, and by registers no later step reads.                    *)
(***************************************************************************)
EXTENDS EBR, TLC

Rel(e) == IF e = Unpinned THEN e ELSE Dist(e, global)
Live(f, S, dead) == [t \in Threads |-> IF pc[t] \in S THEN f[t] ELSE dead]
Coll(f) == [t \in Threads |-> IF collecting[t] THEN f[t] ELSE 0]
RelAll(f) == [t \in Threads |-> Rel(f[t])]
RelBag(b) == IF b.items = {} THEN {} ELSE <<Rel(b.epoch), b.items>>

View ==
  << reg, handle, guards, RelAll(local), pc,
     Live(mode, {"pin", "loaded", "stored", "undo", "seal", "epoch", "push", "count", "scan", "fin"}, ""),
     Live(RelAll(gr), {"loaded", "repin", "scan"}, 0), todo, bag, arg,
     [t \in Threads |-> RelBag(sealed[t])], [k \in 1 .. Len(queue) |-> RelBag(queue[k])],
     garbage, collecting, [t \in Threads |-> IF collecting[t] /\ trials[t] > 0 THEN Rel(cgr[t]) ELSE 0],
     Coll(trials), run, owes,
     deferred, wit, done >>

\* A bound: one thread exits, and one at a time nests guards, none once the other
\* exits or a second function is deferred.
Exits(t) == reg[t] # "out" /\ ~handle[t]
Bound == \A t, u \in Threads : t # u =>
           /\ Exits(t) => ~Exits(u)
           /\ guards[u] > 1 => /\ guards[t] <= 1 /\ ~Exits(t)
                               /\ Cardinality(deferred) <= 1

Symmetry == Permutations(Writers) \union Permutations(Threads \ Writers)
            \union Permutations(Items \ Nodes)
==============================================================================
