------------------------------- MODULE MCCDRC --------------------------------
(* The clients that TLC runs CDRC with.  Threads and objects of a client are   *)
(* interchangeable: all its objects have the same fields.                      *)
EXTENDS CDRC, TLC

Shared == AtomicRcs \cup AtomicWeaks
Basic  == {"new", "drop", "store", "load", "from_strong"}
Most   == Basic \cup {"clone", "from_snapshot", "swap", "store_snap", "cas_snap", "protect",
                      "upgrade"}

\* One object under HP, and every call but what findings are about.
HpClient   == [scheme |-> "HP", calls |-> Most \cup {"load_from_weak"},
               cells |-> Shared, fields |-> FALSE, objs |-> 1, count |-> 2]
\* Two objects that can be linked, under HP.
ListClient == [scheme |-> "HP", calls |-> Basic \cup {"protect", "load_from_weak"},
               cells |-> AtomicRcs, fields |-> TRUE, objs |-> 2, count |-> 2]
\* The same with compare_exchange_protecting_current, and without weak references.
StackClient == [ListClient EXCEPT !.calls = {"new", "drop", "store", "load", "protect",
                                             "from_snapshot", "cas_protecting"}]
\* An object that can be linked to itself, under EBR.
EbrClient  == [scheme |-> "EBR", calls |-> Most \cup {"cas_protecting"},
               cells |-> Shared, fields |-> TRUE, objs |-> 1, count |-> 3]
HpClients   == {HpClient}
NodeClients == {ListClient, StackClient, EbrClient}

\* A client whose objects are abandoned in the end.
LiveClients == {[HpClient EXCEPT !.calls = Basic \cup {"upgrade", "load_from_weak"}]}

\* The clients of the disagreements.
DisposeClients == {[EbrClient EXCEPT !.calls = Basic \cup {"load_from_weak"}, !.fields = FALSE]}
SettleClients  == {[HpClient EXCEPT !.calls = {"new", "drop", "from_strong", "upgrade"},
                                    !.cells = {}, !.count = 3]}
PromoteClients == {[HpClient EXCEPT !.calls = Basic \cup {"load_from_weak", "from_snapshot",
                                                         "promote"}]}

Symmetry == Permutations(Threads) \cup Permutations(Objs)
==============================================================================
