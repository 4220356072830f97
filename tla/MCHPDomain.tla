----------------------------- MODULE MCHPDomain ------------------------------
(***************************************************************************)
(* Instances of HPDomain: a reader and a writer.  Three references are to  *)
(* one object, of which two can be linked; calling the entry of "parent"   *)
(* retires "child", as a decrement to zero retires the disposal.           *)
(***************************************************************************)
EXTENDS HPDomain

CONSTANTS reader, writer, parent, child, object
Fields  == [o \in Refs |-> IF o = parent THEN child ELSE Null]
Targets == [o \in Refs |-> object]

Program(eager, exiting, refs, handles, calls) ==
  [readers |-> {reader}, writers |-> {writer}, eager |-> eager, exiting |-> exiting,
   refs |-> refs, handles |-> handles, calls |-> calls]

\* Two reclaimers: that exit and start again; with every reference; and while an
\* array grows that the other one reads.
OneHandle  == {CHOOSE h \in Handles : TRUE}
Reclaimers == {Program(Threads, Threads, {parent}, OneHandle, {"load"}),
               Program(Threads, {reader}, Refs, OneHandle, {"load"}),
               Program(Threads, {}, {parent}, Handles, {})}

\* One reclaimer, and a reader that uses every hazard pointer: with every
\* reference; and with one, when it exits, too.
Readers(exiting, refs, calls) ==
  {Program({writer}, exiting, refs, Handles, {"load"} \cup calls)}

Programs == Reclaimers \cup Readers({}, Refs, {"swap", "copy_up"})
                       \cup Readers({reader}, {parent}, {"swap", "copy_up"})
Copying  == Readers({reader}, {parent}, {"copy_to"})
==============================================================================
