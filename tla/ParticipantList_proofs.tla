------------------------ MODULE ParticipantList_proofs ------------------------
(***************************************************************************)
(* The list of participants for any number of threads and entries, and any *)
(* words that keep an address apart from a mark: each entry is finalized   *)
(* by the one thread that unlinked it, nothing an iterator points to is    *)
(* destroyed, and an iteration that ends has returned every entry that     *)
(* stayed.  Lists are reasoned about by the sets that their links do not   *)
(* leave, so no induction along a list is needed.                          *)
(***************************************************************************)
EXTENDS ParticipantList, FiniteSetTheorems, TLAPS

Null(S)  == S \union {0}
Raw      == [a \in Entries |-> as_raw(next[a])]
\* The links do not lead out of S; the entries they lead to from h.
Stays(links, S) == \A a \in S : links[a] \in Null(S)
From(h, links)  ==
  {a \in Entries : \A S \in SUBSET Entries : h \in Null(S) /\ Stays(links, S) => a \in S}

Active == {"in", "iter", "unlink", "finalize", "stalled"}   \* with an entry in the list
Met    == {"unlink", "finalize"}
Owns(t) == pc[t] \notin {"out", "release"}
Finalizing(t, a) == pc[t] = "finalize" /\ curr[t] = a
Keeper(t, a)     == pc[t] \in Active /\ entry[t] = a

\* A thread that is in the list has an entry of its own there that is not marked,
\* and there are no others that are not marked.
OwnerOK(t) == /\ Owns(t) => entry[t] \in Entries
              /\ pc[t] = "insert" => mem[entry[t]] = "local"
              /\ pc[t] \in Active => mem[entry[t]] = "listed" /\ ~Marked(entry[t])
OwnersOK ==
  /\ \A t \in Threads : OwnerOK(t)
  /\ \A t, u \in Threads : Owns(t) /\ Owns(u) /\ entry[t] = entry[u] => t = u
  /\ \A a \in Entries : mem[a] = "listed" /\ ~Marked(a) => \E t \in Threads : Keeper(t, a)

\* No two links of the list lead to the same entry.
ChainOK ==
  /\ \A a \in Reachable : mem[a] = "listed" /\ as_raw(next[a]) # head
  /\ \A a, b \in Reachable : as_raw(next[a]) = as_raw(next[b]) /\ as_raw(next[a]) # 0 => a = b

\* Who has unlinked an entry and goes on to finalize it is alone.
UnlinkerOK(t) ==
  \A a \in Entries : Finalizing(t, a) => /\ mem[a] = "listed" /\ a \notin Reachable
                                         /\ \A u \in Threads : Finalizing(u, a) => u = t
UnlinkedOK ==
  /\ \A a \in Entries :
       /\ mem[a] = "listed" => a \in Reachable \/ \E t \in Threads : Finalizing(t, a)
       /\ mem[a] = "retired" => Marked(a)
  /\ \A t \in Threads : UnlinkerOK(t)

\* The link of a marked entry does not change any more.
MetOK(t) == /\ pc[t] \in Met => /\ curr[t] \in Entries /\ Marked(curr[t])
                                /\ tmp[t] = as_raw(next[curr[t]])
            /\ pc[t] \notin Met \union {"insert"} => tmp[t] = 0

\* What t may come to is in the list, or was retired under the guard of t.
Kept(t, S) == /\ Stays(Raw, S) /\ head \in Null(S) /\ pred[t] \in Null(S) /\ curr[t] \in Null(S)
              /\ \A a \in S : mem[a] = "listed" \/ (mem[a] = "retired" /\ t \in wait[a])
KeptOK(t)  == t \in Pinned => \E S \in SUBSET Entries : Kept(t, S)

\* What an iteration has still to return lies ahead of it, both by the link it
\* came along and by the entry it is at.
Ahead(links, M, x) == \A S \in SUBSET Entries : x \in Null(S) /\ Stays(links, S) => M \subseteq S
MissingOK(t) ==
  /\ \A a \in missing[t] : mem[a] = "listed" /\ ~Marked(a)
  /\ t \notin Pinned => missing[t] = {}
  /\ pc[t] \in Met \union {"iter"} => /\ Ahead(Raw, missing[t], as_raw(Word(pred[t])))
                                     /\ Ahead(Raw, missing[t], curr[t])

IteratorOK(t) == MetOK(t) /\ KeptOK(t) /\ MissingOK(t)
ListInv == /\ TypeOK /\ OwnersOK /\ ChainOK /\ UnlinkedOK
           /\ \A t \in Threads : IteratorOK(t)
           /\ DropClean
-------------------------------------------------------------------------------
(* Words and links. *)

LEMMA WordFacts ==
  /\ \A a \in Null(Entries) : a \in Words /\ as_raw(a) = a /\ tag(a) = 0
  /\ \A w \in Words : /\ as_raw(w) \in Null(Entries) /\ with_tag(w, 0) = as_raw(w)
                      /\ tag(w) \in {0, 1} /\ (tag(w) = 0 => w = as_raw(w))
                      /\ fetch_or(w, 1) \in Words /\ as_raw(fetch_or(w, 1)) = as_raw(w)
                      /\ tag(fetch_or(w, 1)) = 1
<1>1. ASSUME NEW a \in Null(Entries) PROVE a \in Words /\ as_raw(a) = a /\ tag(a) = 0
  <2>1. with_tag(a, 0) = a /\ as_raw(with_tag(a, 0)) = a /\ tag(with_tag(a, 0)) = 0
    BY <1>1, WordAssumption DEF Null
  <2>2. a \in {a, with_tag(a, 1)}
    OBVIOUS
  <2> QED  BY <1>1, <2>1, <2>2 DEF Words, Null
<1>2. ASSUME NEW w \in Words
      PROVE  /\ as_raw(w) \in Null(Entries) /\ with_tag(w, 0) = as_raw(w)
             /\ tag(w) \in {0, 1} /\ (tag(w) = 0 => w = as_raw(w))
             /\ fetch_or(w, 1) \in Words /\ as_raw(fetch_or(w, 1)) = as_raw(w)
             /\ tag(fetch_or(w, 1)) = 1
  <2>1. PICK a \in Null(Entries), t \in {0, 1} : w = with_tag(a, t)
    <3>1. PICK a \in Null(Entries) : w \in {a, with_tag(a, 1)}
      BY <1>2 DEF Words, Null
    <3>2. with_tag(a, 0) = a
      BY <3>1, WordAssumption DEF Null
    <3> QED  BY <3>1, <3>2
  <2>2. /\ as_raw(w) = a /\ tag(w) = t /\ with_tag(w, 0) = a
        /\ fetch_or(w, 1) = with_tag(a, 1) /\ with_tag(a, 0) = a
        /\ as_raw(with_tag(a, 1)) = a /\ tag(with_tag(a, 1)) = 1
    BY <2>1, WordAssumption DEF Null
  <2>3. with_tag(a, 1) \in {a, with_tag(a, 1)}
    OBVIOUS
  <2>4. with_tag(a, 1) \in Words
    BY <2>1, <2>3 DEF Words, Null
  <2>5. t = 0 => w = a
    BY <2>1, <2>2
  <2> QED  BY <2>1, <2>2, <2>4, <2>5
<1> QED  BY <1>1, <1>2

Linking(links) == links \in [Entries -> Null(Entries)]

\* What can be reached from h is in every set that h is in and links stay in.
LEMMA FromLeast ==
  ASSUME NEW h, NEW links, NEW S \in SUBSET Entries, h \in Null(S), Stays(links, S)
  PROVE  From(h, links) \subseteq S
BY DEF From

\* It is such a set itself.
LEMMA FromStays ==
  ASSUME NEW links, Linking(links), NEW h \in Null(Entries)
  PROVE  /\ From(h, links) \in SUBSET Entries /\ h \in Null(From(h, links))
         /\ Stays(links, From(h, links))
<1> DEFINE R == From(h, links)
<1>1. R \in SUBSET Entries /\ h \in Null(R)
  BY DEF From, Null
<1>2. ASSUME NEW a \in R PROVE links[a] \in Null(R)
  <2>1. a \in Entries /\ links[a] \in Null(Entries)
    BY <1>1, <1>2 DEF Linking
  <2>2. CASE links[a] # 0
    <3>1. links[a] \in Entries
      BY <2>1, <2>2 DEF Null
    <3>2. ASSUME NEW S \in SUBSET Entries, h \in Null(S), Stays(links, S)
          PROVE  links[a] \in S
      BY <1>2, <2>2, <3>2 DEF From, Stays, Null
    <3> QED  BY <3>1, <3>2 DEF From, Null
  <2> QED  BY <2>2 DEF Null
<1> QED  BY <1>1, <1>2 DEF Stays

\* Links of other entries do not matter.
LEMMA FromSame ==
  ASSUME NEW links, Linking(links), NEW links2, Linking(links2), NEW h \in Null(Entries),
         \A a \in From(h, links) : links2[a] = links[a]
  PROVE  From(h, links2) = From(h, links)
<1> DEFINE R == From(h, links)
<1>1. R \in SUBSET Entries /\ h \in Null(R) /\ Stays(links, R)
  BY FromStays
<1>2. From(h, links2) \subseteq R
  BY <1>1, FromLeast DEF Stays
<1>3. ASSUME NEW S \in SUBSET Entries, h \in Null(S), Stays(links2, S) PROVE R \subseteq S
  <2>1. S \cap R \in SUBSET Entries /\ h \in Null(S \cap R)
    BY <1>1, <1>3 DEF Null
  <2>2. Stays(links, S \cap R)
    BY <1>1, <1>3 DEF Stays, Null
  <2>3. R \subseteq S \cap R
    BY <2>1, <2>2, FromLeast
  <2> QED  BY <2>3
<1>4. R \subseteq From(h, links2)
  BY <1>1, <1>3 DEF From
<1> QED  BY <1>2, <1>4

\* An entry e in front of the list.
LEMMA FromInsert ==
  ASSUME NEW links, Linking(links), NEW links2, Linking(links2), NEW h \in Null(Entries),
         NEW e \in Entries, e \notin From(h, links), links2[e] = h,
         \A a \in From(h, links) : links2[a] = links[a]
  PROVE  From(e, links2) = From(h, links) \union {e}
<1> DEFINE R == From(h, links)
<1>1. R \in SUBSET Entries /\ h \in Null(R) /\ Stays(links, R)
  BY FromStays
<1>2. e \in Null(R \union {e}) /\ Stays(links2, R \union {e})
  BY <1>1 DEF Stays, Null
<1>3. From(e, links2) \subseteq R \union {e}
  BY <1>1, <1>2, FromLeast
<1>4. From(h, links2) = R
  BY FromSame
<1>5. ASSUME NEW S \in SUBSET Entries, e \in Null(S), Stays(links2, S)
      PROVE  R \union {e} \subseteq S
  <2>1. e \in S
    BY <1>5, NullAssumption DEF Null
  <2>2. h \in Null(S)
    BY <1>5, <2>1 DEF Stays
  <2> QED  BY <1>4, <1>5, <2>1, <2>2, FromLeast
<1>6. R \union {e} \subseteq From(e, links2)
  BY <1>1, <1>5 DEF From
<1> QED  BY <1>3, <1>6

\* The entry c that p alone leads to is left out.
LEMMA FromUnlink ==
  ASSUME NEW links, Linking(links), NEW links2, Linking(links2), NEW h \in Null(Entries),
         NEW p \in From(h, links), NEW c \in Entries, links[p] = c, h # c,
         \A a \in From(h, links) : links[a] = c => a = p,
         links2[p] = links[c], \A a \in Entries \ {p} : links2[a] = links[a]
  PROVE  From(h, links2) = From(h, links) \ {c}
<1> DEFINE R == From(h, links)
<1>1. R \in SUBSET Entries /\ h \in Null(R) /\ Stays(links, R)
  BY FromStays
<1>2. c \in R /\ c # 0
  BY <1>1, NullAssumption DEF Stays, Null
<1>3. h \in Null(R \ {c})
  BY <1>1 DEF Null
<1>4. Stays(links2, R \ {c})
  <2> SUFFICES ASSUME NEW a \in R \ {c} PROVE links2[a] \in Null(R \ {c})
    BY DEF Stays
  <2>1. CASE a = p
    <3>1. links[c] \in Null(R) /\ links[c] # c
      BY <1>1, <1>2, <2>1 DEF Stays
    <3> QED  BY <2>1, <3>1 DEF Null
  <2>2. CASE a # p
    <3>1. links2[a] = links[a] /\ links[a] \in Null(R) /\ links[a] # c
      BY <1>1, <2>2 DEF Stays
    <3> QED  BY <3>1 DEF Null
  <2> QED  BY <2>1, <2>2
<1>5. From(h, links2) \subseteq R \ {c}
  BY <1>1, <1>3, <1>4, FromLeast
<1>6. ASSUME NEW S \in SUBSET Entries, h \in Null(S), Stays(links2, S) PROVE R \ {c} \subseteq S
  <2>1. CASE p \in S
    <3>1. Stays(links, S \union {c})
      BY <1>6, <2>1 DEF Stays, Null
    <3>2. S \union {c} \in SUBSET Entries /\ h \in Null(S \union {c})
      BY <1>6 DEF Null
    <3> QED  BY <3>1, <3>2, FromLeast
  <2>2. CASE p \notin S
    <3>1. Stays(links, S)
      BY <1>6, <2>2 DEF Stays
    <3> QED  BY <1>6, <3>1, FromLeast
  <2> QED  BY <2>1, <2>2
<1>7. R \ {c} \subseteq From(h, links2)
  BY <1>1, <1>6 DEF From
<1> QED  BY <1>5, <1>7

\* The first entry c of the list is left out.
LEMMA FromNext ==
  ASSUME NEW links, Linking(links), NEW c \in Entries,
         \A a \in From(c, links) : links[a] # c
  PROVE  From(links[c], links) = From(c, links) \ {c}
<1> DEFINE R == From(c, links)
<1>1. R \in SUBSET Entries /\ c \in R /\ Stays(links, R)
  BY FromStays, NullAssumption DEF Null
<1>2. links[c] \in Null(R \ {c}) /\ Stays(links, R \ {c})
  BY <1>1 DEF Stays, Null
<1>3. From(links[c], links) \subseteq R \ {c}
  BY <1>1, <1>2, FromLeast
<1>4. ASSUME NEW S \in SUBSET Entries, links[c] \in Null(S), Stays(links, S)
      PROVE  R \ {c} \subseteq S
  <2>1. Stays(links, S \union {c}) /\ c \in Null(S \union {c})
    BY <1>4 DEF Stays, Null
  <2>2. R \subseteq S \union {c}
    BY <1>4, <2>1, FromLeast
  <2> QED  BY <2>2
<1>5. R \ {c} \subseteq From(links[c], links)
  BY <1>1, <1>4 DEF From
<1> QED  BY <1>3, <1>5

\* The sets of both invariants about links are those of the list.
LEMMA ReachableFrom == Reachable = From(head, Raw)
<1>1. \A S \in SUBSET Entries : Closed(S) <=> Stays(Raw, S)
  BY DEF Closed, Stays, Raw, Null
<1> QED  BY <1>1 DEF Reachable, From, Null

LEMMA RawLinks == ASSUME TypeOK PROVE Linking(Raw) /\ head \in Null(Entries)
BY WordFacts DEF TypeOK, Linking, Raw, Null

\* The same of the state after a step.
LEMMA NextLinks ==
  /\ Reachable' = From(head', Raw')
  /\ TypeOK' => Linking(Raw') /\ head' \in Null(Entries)
<1>1. \A S \in SUBSET Entries : Closed(S)' <=> Stays(Raw', S)
  BY DEF Closed, Stays, Raw, Null
<1>2. TypeOK' => Linking(Raw') /\ head' \in Null(Entries)
  BY WordFacts DEF TypeOK, Linking, Raw, Null
<1> QED  BY <1>1, <1>2 DEF Reachable, From, Null

LEMMA FromNull == ASSUME NEW links PROVE From(0, links) = {}
<1>1. {} \in SUBSET Entries /\ 0 \in Null({}) /\ Stays(links, {})
  BY DEF Null, Stays
<1>2. From(0, links) \subseteq {}
  BY <1>1, FromLeast
<1> QED  BY <1>2
-------------------------------------------------------------------------------
(* What the operations on shared words come to. *)

LEMMA TypeFacts ==
  ASSUME TypeOK
  PROVE  /\ head \in Null(Entries) /\ next \in [Entries -> Words]
         /\ mem \in [Entries -> {"free", "local", "listed", "retired"}]
         /\ wait \in [Entries -> SUBSET Threads] /\ pc \in [Threads -> PCs]
         /\ entry \in [Threads -> Null(Entries)] /\ tmp \in [Threads -> Null(Entries)]
         /\ pred \in [Threads -> Null(Entries)] /\ curr \in [Threads -> Null(Entries)]
         /\ missing \in [Threads -> SUBSET Entries]
         /\ inserted \in 0 .. MaxReg /\ closed \in BOOLEAN
         /\ dropped \in {"no", "clean", "panicked"}
BY DEF TypeOK, Null

LEMMA WordType == ASSUME TypeOK, NEW p \in Null(Entries) PROVE Word(p) \in Words
<1>1. CASE p = HEAD
  BY <1>1, TypeFacts, WordFacts DEF Word
<1>2. CASE p # HEAD
  BY <1>2, TypeFacts DEF Word, HEAD, Null
<1> QED  BY <1>1, <1>2

\* An entry that is listed or retired and not marked is in the list.
LEMMA UnmarkedReachable ==
  ASSUME ListInv, NEW a \in Entries, mem[a] \in {"listed", "retired"}, ~Marked(a)
  PROVE  a \in Reachable
BY DEF ListInv, UnlinkedOK, IteratorOK, MetOK, Finalizing, Met

\* The two outcomes of the compare_exchange_weak in insert.
LEMMA InsertCases ==
  ASSUME TypeOK, NEW t \in Threads, InsertTry(t)
  PROVE  /\ pc[t] = "insert" /\ next' = [next EXCEPT ![entry[t]] = tmp[t]]
         /\ \/ /\ head = tmp[t] /\ head' = entry[t] /\ tmp' = [tmp EXCEPT ![t] = 0]
               /\ mem' = [mem EXCEPT ![entry[t]] = "listed"]
               /\ pc' = [pc EXCEPT ![t] = "in"]
            \/ /\ head' = head /\ tmp' = [tmp EXCEPT ![t] = head] /\ UNCHANGED <<mem, pc>>
<1>1. PICK r \in compare_exchange_weak(head, tmp[t], entry[t]) :
        /\ head' = r.data
        /\ tmp' = [tmp EXCEPT ![t] = IF r.ok THEN 0 ELSE r.current]
        /\ IF r.ok THEN mem' = [mem EXCEPT ![entry[t]] = "listed"] /\ Goto(t, "in")
                   ELSE UNCHANGED <<mem, pc>>
  BY DEF InsertTry
<1>2. \/ r.ok /\ head = tmp[t] /\ r.data = entry[t]
      \/ ~r.ok /\ r.data = head /\ r.current = head
  BY DEF compare_exchange_weak, compare_exchange
<1>3. pc[t] = "insert" /\ next' = [next EXCEPT ![entry[t]] = tmp[t]]
  BY DEF InsertTry
<1>4. CASE r.ok
  BY <1>1, <1>2, <1>3, <1>4 DEF Goto
<1>5. CASE ~r.ok
  BY <1>1, <1>2, <1>3, <1>5 DEF Goto
<1> QED  BY <1>4, <1>5

\* The outcomes of the compare_exchange in Iter::next.
Unlinks(t) ==
  /\ Word(pred[t]) = curr[t]
  /\ IF pred[t] = HEAD THEN head' = tmp[t] /\ next' = next
                       ELSE head' = head /\ next' = [next EXCEPT ![pred[t]] = tmp[t]]
  /\ pc' = [pc EXCEPT ![t] = "finalize"] /\ curr' = curr /\ tmp' = tmp
Skips(t) ==
  /\ head' = head /\ next' = next /\ tmp' = [tmp EXCEPT ![t] = 0]
  /\ \/ /\ tag(Word(pred[t])) = 0 /\ pc' = [pc EXCEPT ![t] = "iter"]
        /\ curr' = [curr EXCEPT ![t] = Word(pred[t])]
     \/ /\ pc' = [pc EXCEPT ![t] = "stalled"] /\ curr' = [curr EXCEPT ![t] = 0]

LEMMA UnlinkCases ==
  ASSUME TypeOK, NEW t \in Threads, Unlink(t)
  PROVE  /\ pc[t] = "unlink" /\ (Unlinks(t) \/ Skips(t))
         /\ UNCHANGED <<mem, wait, entry, pred, missing, inserted, closed, dropped>>
<1>1. /\ pred \in [Threads -> Null(Entries)] /\ next \in [Entries -> Words]
  BY TypeFacts
<1> DEFINE p == pred[t]
           r == compare_exchange(Word(p), curr[t], tmp[t])
<1>2. r.ok => Word(p) = curr[t] /\ r.data = tmp[t]
  BY DEF compare_exchange
<1>3. ~r.ok => r.data = Word(p)
  BY DEF compare_exchange
<1>4. r.current = Word(p)
  BY DEF compare_exchange
<1>5. /\ pc[t] = "unlink"
      /\ IF p = HEAD THEN head' = r.data /\ UNCHANGED next
                     ELSE next' = [next EXCEPT ![p] = r.data] /\ UNCHANGED head
      /\ \/ r.ok /\ Goto(t, "finalize") /\ UNCHANGED <<curr, tmp>>
         \/ /\ ~r.ok /\ tag(r.current) = 0 /\ Goto(t, "iter")
            /\ curr' = [curr EXCEPT ![t] = r.current] /\ tmp' = [tmp EXCEPT ![t] = 0]
         \/ /\ ~r.ok /\ Goto(t, "stalled")
            /\ curr' = [curr EXCEPT ![t] = 0] /\ tmp' = [tmp EXCEPT ![t] = 0]
      /\ UNCHANGED <<mem, wait, entry, pred, missing, inserted, closed, dropped>>
  BY DEF Unlink, iter
<1> HIDE DEF r
<1>6. CASE r.ok
  BY <1>2, <1>5, <1>6 DEF Unlinks, Goto
<1>7. CASE ~r.ok
  <2>1. head' = head /\ next' = next
    <3>1. CASE p = HEAD
      BY <1>3, <1>5, <1>7, <3>1 DEF Word
    <3>2. CASE p # HEAD
      <4>1. Word(p) = next[p]
        BY <3>2 DEF Word
      <4>2. [next EXCEPT ![p] = next[p]] = next
        BY <1>1
      <4> QED  BY <1>3, <1>5, <1>7, <3>2, <4>1, <4>2
    <3> QED  BY <3>1, <3>2
  <2> QED  BY <1>4, <1>5, <1>7, <2>1 DEF Skips, Goto
<1> QED  BY <1>5, <1>6, <1>7

-------------------------------------------------------------------------------
(* Types. *)

LEMMA DropTypes ==
  ASSUME TypeOK, DropList
  PROVE  /\ head' \in Null(Entries) /\ next' \in [Entries -> Words]
         /\ mem' \in [Entries -> {"free", "local", "listed", "retired"}]
         /\ wait' \in [Entries -> SUBSET Threads] /\ dropped' \in {"no", "clean", "panicked"}
BY TypeFacts DEF DropList, Null

LEMMA TypesStep == ASSUME ListInv, [Next]_vars PROVE TypeOK'
<1> DEFINE N == Null(Entries)
<1>0. TypeOK
  BY DEF ListInv
<1>1. /\ head \in N /\ next \in [Entries -> Words]
      /\ mem \in [Entries -> {"free", "local", "listed", "retired"}]
      /\ wait \in [Entries -> SUBSET Threads] /\ pc \in [Threads -> PCs]
      /\ entry \in [Threads -> N] /\ tmp \in [Threads -> N]
      /\ pred \in [Threads -> N] /\ curr \in [Threads -> N]
      /\ missing \in [Threads -> SUBSET Entries]
      /\ inserted \in 0 .. MaxReg /\ closed \in BOOLEAN
      /\ dropped \in {"no", "clean", "panicked"}
  BY <1>0, TypeFacts
<1>2. SUFFICES
        /\ head' \in N /\ next' \in [Entries -> Words]
        /\ mem' \in [Entries -> {"free", "local", "listed", "retired"}]
        /\ wait' \in [Entries -> SUBSET Threads] /\ pc' \in [Threads -> PCs]
        /\ entry' \in [Threads -> N] /\ tmp' \in [Threads -> N]
        /\ pred' \in [Threads -> N] /\ curr' \in [Threads -> N]
        /\ missing' \in [Threads -> SUBSET Entries]
        /\ inserted' \in 0 .. MaxReg /\ closed' \in BOOLEAN
        /\ dropped' \in {"no", "clean", "panicked"}
  BY DEF TypeOK, Null
<1>3. /\ N \subseteq Words /\ 0 \in N /\ Entries \subseteq N
      /\ \A w \in Words : /\ as_raw(w) \in N /\ with_tag(w, 0) = as_raw(w)
                          /\ fetch_or(w, 1) \in Words /\ (tag(w) = 0 => w \in N)
  BY WordFacts DEF Null
<1>4. \A a \in N : a = 0 \/ a \in Entries
  BY DEF Null
<1> HIDE DEF N
<1>5. ASSUME NEW t \in Threads, Register(t) PROVE <1>2!1
  BY <1>1, <1>3, <1>5, BoundAssumption DEF Register, Goto, PCs, iter
<1>6. ASSUME NEW t \in Threads, InsertTry(t) PROVE <1>2!1
  <2>1. entry[t] \in N
    BY <1>1
  <2>2. UNCHANGED <<wait, entry, pred, curr, missing, inserted, closed, dropped>>
    BY <1>6 DEF InsertTry, iter
  <2>3. next' \in [Entries -> Words]
    BY <1>0, <1>1, <1>3, <1>6, InsertCases
  <2> QED  BY <1>0, <1>1, <1>3, <1>6, <2>1, <2>2, <2>3, InsertCases DEF PCs
<1>7. ASSUME NEW t \in Threads, Delete(t) PROVE <1>2!1
  BY <1>1, <1>3, <1>7 DEF Delete, Goto, PCs
<1>8. ASSUME NEW t \in Threads, Release(t) PROVE <1>2!1
  <2>1. /\ pc' \in [Threads -> PCs] /\ entry' \in [Threads -> N]
        /\ UNCHANGED <<tmp, pred, curr, missing, inserted, closed>>
        /\ DropList \/ UNCHANGED <<head, next, mem, wait, dropped>>
    BY <1>1, <1>3, <1>8 DEF Release, Goto, PCs, iter
  <2> QED  BY <1>0, <1>1, <2>1, DropTypes DEF N
<1>9. ASSUME Close PROVE <1>2!1
  <2>1. /\ closed' = TRUE /\ UNCHANGED <<pc, entry, tmp, pred, curr, missing, inserted>>
        /\ DropList \/ UNCHANGED <<head, next, mem, wait, dropped>>
    BY <1>9 DEF Close, iter
  <2> QED  BY <1>0, <1>1, <2>1, DropTypes DEF N
<1>10. ASSUME NEW t \in Threads, Iterate(t) PROVE <1>2!1
  BY <1>1, <1>3, <1>10 DEF Iterate, Goto, PCs, HEAD
<1>11. ASSUME NEW t \in Threads, Yield(t) PROVE <1>2!1
  <2>1. next[curr[t]] \in N
    <3>1. tag(next[curr[t]]) \in {0, 1}
      BY <1>1, <1>4, <1>11, WordFacts DEF Yield
    <3> QED  BY <1>1, <1>3, <1>4, <1>11, <3>1 DEF Yield, Marked
  <2> QED  BY <1>1, <1>3, <1>11, <2>1 DEF Yield
<1>12. ASSUME NEW t \in Threads, Meet(t) PROVE <1>2!1
  <2>1. with_tag(next[curr[t]], 0) \in N
    BY <1>1, <1>3, <1>4, <1>12 DEF Meet
  <2> QED  BY <1>1, <1>12, <2>1 DEF Meet, Goto, PCs, iter
<1>13. ASSUME NEW t \in Threads, Unlink(t) PROVE <1>2!1
  <2>1. UNCHANGED <<mem, wait, entry, pred, missing, inserted, closed, dropped>>
    BY <1>0, <1>13, UnlinkCases
  <2>2. CASE Unlinks(t)
    BY <1>1, <1>3, <2>1, <2>2 DEF Unlinks, PCs
  <2>3. CASE Skips(t)
    <3>1. Word(pred[t]) \in Words
      BY <1>0, <1>1, WordType DEF N
    <3> QED  BY <1>1, <1>3, <2>1, <2>3, <3>1 DEF Skips, PCs
  <2> QED  BY <1>0, <1>13, <2>2, <2>3, UnlinkCases
<1>14. ASSUME NEW t \in Threads, Finalize(t) PROVE <1>2!1
  <2>1. Pinned \subseteq Threads
    BY DEF Pinned
  <2> QED  BY <1>1, <1>3, <1>14, <2>1 DEF Finalize, Goto, PCs
<1>15. ASSUME NEW t \in Threads, Restart(t) PROVE <1>2!1
  BY <1>1, <1>3, <1>15 DEF Restart, Goto, PCs, HEAD
<1>16. ASSUME NEW t \in Threads, Leave(t) PROVE <1>2!1
  BY <1>1, <1>3, <1>16 DEF Leave, Goto, PCs, HEAD
<1>17. ASSUME NEW a \in Entries, Destroy(a) PROVE <1>2!1
  BY <1>1, <1>3, <1>17 DEF Destroy, iter
<1>18. CASE UNCHANGED vars
  BY <1>1, <1>18 DEF vars, iter
<1> QED
  BY <1>5, <1>6, <1>7, <1>8, <1>9, <1>10, <1>11, <1>12, <1>13, <1>14, <1>15, <1>16, <1>17,
     <1>18 DEF Next, Iterating
-------------------------------------------------------------------------------
(* What lies ahead. *)

LEMMA AheadSame ==
  ASSUME NEW links, NEW links2, NEW K \in SUBSET Entries, Stays(links, K),
         \A a \in K : links2[a] = links[a], NEW x \in Null(K), NEW M, Ahead(links, M, x)
  PROVE  Ahead(links2, M, x)
<1> SUFFICES ASSUME NEW S \in SUBSET Entries, x \in Null(S), Stays(links2, S)
             PROVE  M \subseteq S
  BY DEF Ahead
<1>1. Stays(links, S \cap K)
  BY DEF Stays, Null
<1>2. x \in Null(S \cap K)
  BY DEF Null
<1>3. M \subseteq S \cap K
  BY <1>1, <1>2 DEF Ahead
<1> QED  BY <1>3

LEMMA AheadUnlink ==
  ASSUME NEW links, NEW links2, NEW c \in Entries, NEW M, c \notin M, NEW x,
         \A a \in Entries : links2[a] = links[a] \/ (links[a] = c /\ links2[a] = links[c]),
         Ahead(links, M, x)
  PROVE  Ahead(links2, M, x) /\ (x = c /\ links2[c] = links[c] => Ahead(links2, M, links[c]))
<1>1. ASSUME NEW S \in SUBSET Entries, links[c] \in Null(S), Stays(links2, S)
      PROVE  Stays(links, S \union {c})
  BY <1>1 DEF Stays, Null
<1>2. ASSUME NEW S \in SUBSET Entries, x \in Null(S), Stays(links2, S) PROVE M \subseteq S
  <2>1. CASE links[c] \in Null(S)
    <3>1. Stays(links, S \union {c}) /\ x \in Null(S \union {c})
      BY <1>1, <1>2, <2>1 DEF Null
    <3>2. M \subseteq S \union {c}
      BY <3>1 DEF Ahead
    <3> QED  BY <3>2
  <2>2. CASE links[c] \notin Null(S)
    <3>1. Stays(links, S)
      BY <1>2, <2>2 DEF Stays
    <3> QED  BY <1>2, <3>1 DEF Ahead
  <2> QED  BY <2>1, <2>2
<1>3. ASSUME x = c, NEW S \in SUBSET Entries, links[c] \in Null(S), Stays(links2, S)
      PROVE  M \subseteq S
  <2>1. Stays(links, S \union {c}) /\ x \in Null(S \union {c})
    BY <1>1, <1>3 DEF Null
  <2>2. M \subseteq S \union {c}
    BY <2>1 DEF Ahead
  <2> QED  BY <2>2
<1> QED  BY <1>2, <1>3 DEF Ahead

LEMMA AheadPast ==
  ASSUME NEW links, NEW c \in Entries, NEW M, NEW M2, M \subseteq M2 \union {c}, c \notin M,
         M \subseteq M2, Ahead(links, M2, c)
  PROVE  Ahead(links, M, links[c])
<1> SUFFICES ASSUME NEW S \in SUBSET Entries, links[c] \in Null(S), Stays(links, S)
             PROVE  M \subseteq S
  BY DEF Ahead
<1>1. Stays(links, S \union {c}) /\ c \in Null(S \union {c})
  BY DEF Stays, Null
<1>2. M2 \subseteq S \union {c}
  BY <1>1 DEF Ahead
<1> QED  BY <1>2

-------------------------------------------------------------------------------
(* Steps of one iterator that others do not see. *)

LEMMA SameList ==
  ASSUME UNCHANGED <<head, next>>
  PROVE  /\ Raw' = Raw /\ Reachable' = Reachable
         /\ \A a : Marked(a)' = Marked(a)
BY DEF Raw, Reachable, Closed, Marked

LEMMA PrivateStep ==
  ASSUME ListInv, TypeOK', NEW t \in Threads, UNCHANGED <<head, next, mem, entry, dropped>>,
         pc[t] \in Active \ {"finalize"}, pc'[t] \in Active \ {"finalize"},
         \A u \in Threads \ {t} : /\ pc'[u] = pc[u] /\ curr'[u] = curr[u] /\ pred'[u] = pred[u]
                                  /\ tmp'[u] = tmp[u] /\ missing'[u] = missing[u],
         \A a \in Entries : wait[a] \ {t} \subseteq wait'[a], IteratorOK(t)'
  PROVE  ListInv'
<1>1. /\ Raw' = Raw /\ Reachable' = Reachable /\ \A a : Marked(a)' = Marked(a)
  BY SameList
<1>2. /\ \A u \in Threads : pc'[u] \in Active <=> pc[u] \in Active
      /\ \A u \in Threads : u # t => pc'[u] = pc[u]
      /\ \A u \in Threads, a \in Entries : Finalizing(u, a)' <=> Finalizing(u, a)
  BY DEF Finalizing
<1>3. OwnersOK'
  BY <1>1, <1>2 DEF ListInv, OwnersOK, OwnerOK, Owns, Keeper, Active
<1>4. ChainOK'
  BY <1>1 DEF ListInv, ChainOK
<1>5. UnlinkedOK'
  BY <1>1, <1>2 DEF ListInv, UnlinkedOK, UnlinkerOK
<1>6. ASSUME NEW u \in Threads \ {t} PROVE IteratorOK(u)'
  <2>1. /\ pc'[u] = pc[u] /\ curr'[u] = curr[u] /\ pred'[u] = pred[u]
        /\ tmp'[u] = tmp[u] /\ missing'[u] = missing[u]
        /\ \A a \in Entries : u \in wait[a] => u \in wait'[a]
    OBVIOUS
  <2>2. IteratorOK(u)
    BY DEF ListInv
  <2>3. MetOK(u)'
    BY <1>1, <2>1, <2>2 DEF IteratorOK, MetOK
  <2>4. KeptOK(u)'
    BY <1>1, <2>1, <2>2 DEF IteratorOK, KeptOK, Kept, Pinned
  <2>5. MissingOK(u)'
    <3>1. Word(pred[u])' = Word(pred[u])
      BY <2>1 DEF Word
    <3> QED  BY <1>1, <2>1, <2>2, <3>1 DEF IteratorOK, MissingOK, Pinned
  <2> QED  BY <2>3, <2>4, <2>5 DEF IteratorOK
<1> QED  BY <1>3, <1>4, <1>5, <1>6 DEF ListInv, DropClean

\* The list itself is a set to keep to, and has all that a new iteration must return.
LEMMA FromHead ==
  ASSUME ListInv
  PROVE  /\ Reachable \in SUBSET Entries /\ head \in Null(Reachable) /\ Stays(Raw, Reachable)
         /\ \A M : M \subseteq Reachable => Ahead(Raw, M, head)
<1>1. Reachable = From(head, Raw) /\ Linking(Raw) /\ head \in Null(Entries)
  BY ReachableFrom, RawLinks DEF ListInv
<1>2. /\ Reachable \in SUBSET Entries /\ head \in Null(Reachable) /\ Stays(Raw, Reachable)
  BY <1>1, FromStays
<1>3. ASSUME NEW M, M \subseteq Reachable, NEW S \in SUBSET Entries, head \in Null(S), Stays(Raw, S)
      PROVE  M \subseteq S
  BY <1>1, <1>3, FromLeast
<1> QED  BY <1>2, <1>3 DEF Ahead

LEMMA MissingListed == ASSUME ListInv, NEW t \in Threads PROVE missing[t] \subseteq Reachable
<1>1. missing[t] \subseteq Entries
  BY DEF ListInv, TypeOK
<1> QED  BY <1>1, UnmarkedReachable DEF ListInv, IteratorOK, MissingOK

\* Where the predecessor leads is something to keep to.
LEMMA WordKept ==
  ASSUME ListInv, NEW t \in Threads, NEW K \in SUBSET Entries, Kept(t, K)
  PROVE  as_raw(Word(pred[t])) \in Null(K)
<1>1. CASE pred[t] = HEAD
  <2>1. as_raw(head) = head
    BY WordFacts, TypeFacts DEF ListInv
  <2> QED  BY <1>1, <2>1 DEF Kept, Word
<1>2. CASE pred[t] # HEAD
  BY <1>2 DEF Kept, Word, Stays, Raw, Null, HEAD
<1> QED  BY <1>1, <1>2

LEMMA IterateStep == ASSUME ListInv, TypeOK', NEW t \in Threads, Iterate(t) PROVE ListInv'
<1>1. /\ pc[t] = "in" /\ pc' = [pc EXCEPT ![t] = "iter"]
      /\ pred' = [pred EXCEPT ![t] = HEAD] /\ curr' = [curr EXCEPT ![t] = head]
      /\ missing' = [missing EXCEPT ![t] = {a \in Entries : mem[a] = "listed" /\ ~Marked(a)}]
      /\ UNCHANGED <<head, next, mem, wait, entry, tmp, dropped>>
  BY DEF Iterate, Goto
<1>2. /\ pc \in [Threads -> PCs] /\ pred \in [Threads -> Null(Entries)]
      /\ curr \in [Threads -> Null(Entries)] /\ missing \in [Threads -> SUBSET Entries]
      /\ head \in Null(Entries)
  BY TypeFacts DEF ListInv
<1>3. /\ pc'[t] = "iter" /\ pred'[t] = HEAD /\ curr'[t] = head
      /\ missing'[t] = {a \in Entries : mem[a] = "listed" /\ ~Marked(a)}
  BY <1>1, <1>2
<1>4. Raw' = Raw /\ \A a : Marked(a)' = Marked(a)
  BY <1>1, SameList
<1>5. MetOK(t)'
  BY <1>1, <1>3 DEF ListInv, IteratorOK, MetOK, Met
<1>6. KeptOK(t)'
  <2>1. /\ Reachable \in SUBSET Entries /\ Stays(Raw, Reachable) /\ head \in Null(Reachable)
        /\ \A a \in Reachable : mem[a] = "listed"
    BY FromHead DEF ListInv, ChainOK
  <2>2. \E S \in SUBSET Entries : Kept(t, S)'
    BY <1>1, <1>3, <1>4, <2>1 DEF Kept, HEAD, Null
  <2> QED  BY <2>2 DEF KeptOK
<1>7. MissingOK(t)'
  <2>1. missing'[t] \subseteq Reachable
    BY <1>3, UnmarkedReachable
  <2>2. Ahead(Raw, missing'[t], head)
    BY <2>1, FromHead
  <2>3. as_raw(Word(pred[t]))' = head
    BY <1>1, <1>2, <1>3, WordFacts DEF Word
  <2> QED  BY <1>1, <1>3, <1>4, <2>2, <2>3 DEF MissingOK, Pinned
<1>8. IteratorOK(t)'
  BY <1>5, <1>6, <1>7 DEF IteratorOK
<1> QED  BY <1>1, <1>3, <1>8, PrivateStep DEF Active

LEMMA YieldStep == ASSUME ListInv, TypeOK', NEW t \in Threads, Yield(t) PROVE ListInv'
<1> DEFINE c == curr[t]
<1>1. /\ pc[t] = "iter" /\ c # 0 /\ ~Marked(c)
      /\ pred' = [pred EXCEPT ![t] = c] /\ curr' = [curr EXCEPT ![t] = next[c]]
      /\ missing' = [missing EXCEPT ![t] = @ \ {c}]
      /\ UNCHANGED <<head, next, mem, wait, pc, entry, tmp, dropped>>
  BY DEF Yield
<1>2. /\ pred \in [Threads -> Null(Entries)] /\ next \in [Entries -> Words]
      /\ curr \in [Threads -> Null(Entries)] /\ missing \in [Threads -> SUBSET Entries]
  BY TypeFacts DEF ListInv
<1>3. c \in Entries /\ next[c] = as_raw(next[c]) /\ Raw[c] = next[c]
  BY <1>1, <1>2, WordFacts DEF Raw, Marked, Null
<1>4. /\ pred'[t] = c /\ curr'[t] = Raw[c] /\ missing'[t] = missing[t] \ {c}
  BY <1>1, <1>2, <1>3
<1>5. Raw' = Raw /\ \A a : Marked(a)' = Marked(a)
  BY <1>1, SameList
<1>6. IteratorOK(t) /\ t \in Pinned
  BY <1>1 DEF ListInv, Pinned
<1>7. MetOK(t)'
  BY <1>1, <1>6 DEF IteratorOK, MetOK, Met
<1>8. KeptOK(t)'
  <2>1. PICK K \in SUBSET Entries : Kept(t, K)
    BY <1>6 DEF IteratorOK, KeptOK
  <2>2. c \in K /\ Raw[c] \in Null(K)
    BY <1>1, <2>1 DEF Kept, Stays, Null
  <2>3. Kept(t, K)'
    BY <1>1, <1>4, <1>5, <2>1, <2>2 DEF Kept, Null
  <2> QED  BY <2>3 DEF KeptOK
<1>9. MissingOK(t)'
  <2>1. Ahead(Raw, missing[t] \ {c}, Raw[c])
    BY <1>1, <1>3, <1>6, AheadPast DEF IteratorOK, MissingOK
  <2>2. as_raw(Word(pred[t]))' = Raw[c]
    BY <1>1, <1>3, <1>4, NullAssumption DEF Word, HEAD
  <2>3. \A a \in missing'[t] : mem'[a] = "listed" /\ ~Marked(a)'
    BY <1>1, <1>4, <1>5, <1>6 DEF IteratorOK, MissingOK
  <2> QED  BY <1>1, <1>4, <1>5, <1>6, <2>1, <2>2, <2>3 DEF MissingOK, Pinned
<1>10. IteratorOK(t)'
  BY <1>7, <1>8, <1>9 DEF IteratorOK
<1> QED  BY <1>1, <1>10, PrivateStep DEF Active

LEMMA MeetStep == ASSUME ListInv, TypeOK', NEW t \in Threads, Meet(t) PROVE ListInv'
<1> DEFINE c == curr[t]
<1>1. /\ pc[t] = "iter" /\ c # 0 /\ Marked(c)
      /\ tmp' = [tmp EXCEPT ![t] = with_tag(next[c], 0)] /\ pc' = [pc EXCEPT ![t] = "unlink"]
      /\ UNCHANGED <<head, next, mem, wait, entry, pred, curr, missing, dropped>>
  BY DEF Meet, Goto, iter
<1>2. /\ pc \in [Threads -> PCs] /\ tmp \in [Threads -> Null(Entries)]
      /\ next \in [Entries -> Words] /\ curr \in [Threads -> Null(Entries)]
  BY TypeFacts DEF ListInv
<1>3. c \in Entries /\ with_tag(next[c], 0) = as_raw(next[c])
  BY <1>1, <1>2, WordFacts DEF Null
<1>4. pc'[t] = "unlink" /\ tmp'[t] = as_raw(next[c])
  BY <1>1, <1>2, <1>3
<1>5. Raw' = Raw /\ \A a : Marked(a)' = Marked(a)
  BY <1>1, SameList
<1>6. IteratorOK(t) /\ t \in Pinned
  BY <1>1 DEF ListInv, Pinned
<1>7. MetOK(t)'
  BY <1>1, <1>3, <1>4, <1>5 DEF MetOK, Met
<1>8. KeptOK(t)'
  BY <1>1, <1>5, <1>6 DEF IteratorOK, KeptOK, Kept
<1>9. MissingOK(t)'
  <2>1. Word(pred[t])' = Word(pred[t])
    BY <1>1 DEF Word
  <2> QED  BY <1>1, <1>4, <1>5, <1>6, <2>1 DEF IteratorOK, MissingOK, Pinned, Met
<1>10. IteratorOK(t)'
  BY <1>7, <1>8, <1>9 DEF IteratorOK
<1> QED  BY <1>1, <1>4, <1>10, PrivateStep DEF Active

LEMMA SkipStep ==
  ASSUME ListInv, TypeOK', NEW t \in Threads, pc[t] = "unlink", Skips(t),
         UNCHANGED <<mem, wait, entry, pred, missing, dropped>>
  PROVE  ListInv'
<1>1. /\ pc \in [Threads -> PCs] /\ tmp \in [Threads -> Null(Entries)]
      /\ curr \in [Threads -> Null(Entries)] /\ pred \in [Threads -> Null(Entries)]
  BY TypeFacts DEF ListInv
<1>2. UNCHANGED <<head, next>> /\ tmp'[t] = 0
  BY <1>1 DEF Skips
<1>3. Raw' = Raw /\ \A a : Marked(a)' = Marked(a)
  BY <1>2, SameList
<1>4. IteratorOK(t) /\ t \in Pinned
  BY DEF ListInv, Pinned
<1>5. PICK K \in SUBSET Entries : Kept(t, K)
  BY <1>4 DEF IteratorOK, KeptOK
<1>6. Word(pred[t])' = Word(pred[t])
  BY <1>2 DEF Word
<1>7. \/ /\ pc'[t] = "iter" /\ curr'[t] = as_raw(Word(pred[t]))
      \/ pc'[t] = "stalled" /\ curr'[t] = 0
  <2>1. Word(pred[t]) \in Words
    BY <1>1, WordType DEF ListInv
  <2>2. tag(Word(pred[t])) = 0 => Word(pred[t]) = as_raw(Word(pred[t]))
    BY <2>1, WordFacts
  <2> QED  BY <1>1, <2>2 DEF Skips
<1>8. MetOK(t)'
  BY <1>2, <1>7 DEF MetOK, Met
<1>9. KeptOK(t)'
  <2>1. curr'[t] \in Null(K)
    BY <1>5, <1>7, WordKept DEF Null
  <2>2. Kept(t, K)'
    BY <1>2, <1>3, <1>5, <2>1 DEF Kept
  <2> QED  BY <2>2 DEF KeptOK
<1>10. MissingOK(t)'
  BY <1>3, <1>4, <1>6, <1>7 DEF IteratorOK, MissingOK, Pinned, Met
<1>11. IteratorOK(t)'
  BY <1>8, <1>9, <1>10 DEF IteratorOK
<1>12. \A u \in Threads \ {t} : pc'[u] = pc[u] /\ curr'[u] = curr[u] /\ tmp'[u] = tmp[u]
  BY <1>1 DEF Skips
<1> QED  BY <1>2, <1>7, <1>11, <1>12, PrivateStep DEF Active

LEMMA RestartStep == ASSUME ListInv, TypeOK', NEW t \in Threads, Restart(t) PROVE ListInv'
<1>1. /\ pc[t] = "stalled" /\ pc' = [pc EXCEPT ![t] = "iter"]
      /\ pred' = [pred EXCEPT ![t] = HEAD] /\ curr' = [curr EXCEPT ![t] = head]
      /\ UNCHANGED <<head, next, mem, wait, entry, tmp, missing, dropped>>
  BY DEF Restart, Goto
<1>2. /\ pc \in [Threads -> PCs] /\ pred \in [Threads -> Null(Entries)]
      /\ curr \in [Threads -> Null(Entries)] /\ head \in Null(Entries)
  BY TypeFacts DEF ListInv
<1>3. pc'[t] = "iter" /\ pred'[t] = HEAD /\ curr'[t] = head
  BY <1>1, <1>2
<1>4. Raw' = Raw /\ \A a : Marked(a)' = Marked(a)
  BY <1>1, SameList
<1>5. IteratorOK(t) /\ t \in Pinned
  BY <1>1 DEF ListInv, Pinned
<1>6. MetOK(t)'
  BY <1>1, <1>3, <1>5 DEF IteratorOK, MetOK, Met
<1>7. KeptOK(t)'
  <2>1. PICK K \in SUBSET Entries : Kept(t, K)
    BY <1>5 DEF IteratorOK, KeptOK
  <2>2. Kept(t, K)'
    BY <1>1, <1>3, <1>4, <2>1 DEF Kept, HEAD, Null
  <2> QED  BY <2>2 DEF KeptOK
<1>8. MissingOK(t)'
  <2>1. Ahead(Raw, missing[t], head)
    BY MissingListed, FromHead
  <2>2. as_raw(Word(pred[t]))' = head
    BY <1>1, <1>2, <1>3, WordFacts DEF Word
  <2> QED  BY <1>1, <1>3, <1>4, <1>5, <2>1, <2>2 DEF IteratorOK, MissingOK, Pinned
<1>9. IteratorOK(t)'
  BY <1>6, <1>7, <1>8 DEF IteratorOK
<1> QED  BY <1>1, <1>3, <1>9, PrivateStep DEF Active

LEMMA LeaveStep == ASSUME ListInv, TypeOK', NEW t \in Threads, Leave(t) PROVE ListInv'
<1>1. /\ pc[t] \in {"iter", "stalled"} /\ pc' = [pc EXCEPT ![t] = "in"]
      /\ pred' = [pred EXCEPT ![t] = HEAD] /\ curr' = [curr EXCEPT ![t] = 0]
      /\ missing' = [missing EXCEPT ![t] = {}] /\ wait' = [a \in Entries |-> wait[a] \ {t}]
      /\ UNCHANGED <<head, next, mem, entry, tmp, dropped>>
  BY DEF Leave, Goto
<1>2. /\ pc \in [Threads -> PCs] /\ pred \in [Threads -> Null(Entries)]
      /\ curr \in [Threads -> Null(Entries)] /\ missing \in [Threads -> SUBSET Entries]
  BY TypeFacts DEF ListInv
<1>3. pc'[t] = "in" /\ missing'[t] = {} /\ tmp'[t] = 0
  BY <1>1, <1>2 DEF ListInv, IteratorOK, MetOK, Met
<1>4. IteratorOK(t)'
  BY <1>3 DEF IteratorOK, MetOK, KeptOK, MissingOK, Met, Pinned
<1> QED  BY <1>1, <1>2, <1>3, <1>4, PrivateStep DEF Active
-------------------------------------------------------------------------------
(* Steps that insert, mark, or destroy an entry. *)

\* Of an entry that an iterator may come to, nothing changes but that it is marked.
Settled(a) == mem[a] = "listed" \/ (mem[a] = "retired" /\ wait[a] # {})
SettledSame == \A a \in Entries : Settled(a) => /\ mem'[a] = mem[a] /\ wait'[a] = wait[a]
                                                /\ Raw'[a] = Raw[a] /\ (Marked(a) => Marked(a)')

LEMMA IteratorFrame ==
  ASSUME ListInv, TypeOK', SettledSame, NEW u \in Threads,
         pc'[u] = pc[u], curr'[u] = curr[u], pred'[u] = pred[u], tmp'[u] = tmp[u],
         missing'[u] \subseteq missing[u], \A a \in missing'[u] : ~Marked(a)',
         \/ head' = head
         \/ head' \in Entries /\ mem'[head'] = "listed" /\ Raw'[head'] = head
  PROVE  IteratorOK(u)'
<1>1. IteratorOK(u)
  BY DEF ListInv
<1>2. CASE u \notin Pinned
  <2>1. pc'[u] \notin Met \union {"iter"} /\ u \notin Pinned' /\ missing'[u] = {}
    BY <1>1, <1>2 DEF Pinned, Met, IteratorOK, MissingOK
  <2>2. MetOK(u)'
    BY <1>1, <2>1 DEF IteratorOK, MetOK
  <2> QED  BY <2>1, <2>2 DEF IteratorOK, KeptOK, MissingOK
<1>3. CASE u \in Pinned
  <2>1. PICK K \in SUBSET Entries : Kept(u, K)
    BY <1>1, <1>3 DEF IteratorOK, KeptOK
  <2>2. \A a \in K : Settled(a)
    BY <2>1 DEF Kept, Settled
  <2>3. \A a \in K : /\ mem'[a] = mem[a] /\ wait'[a] = wait[a] /\ Raw'[a] = Raw[a]
                     /\ (Marked(a) => Marked(a)')
    BY <2>2 DEF SettledSame
  <2>4. MetOK(u)'
    <3>1. CASE pc[u] \in Met
      <4>1. curr[u] \in K /\ Marked(curr[u]) /\ tmp[u] = Raw[curr[u]]
        BY <1>1, <2>1, <3>1, NullAssumption DEF IteratorOK, MetOK, Kept, Null, Raw
      <4>2. Raw'[curr[u]] = as_raw(next'[curr[u]])
        BY <4>1 DEF Raw
      <4> QED  BY <2>3, <3>1, <4>1, <4>2 DEF MetOK
    <3>2. CASE pc[u] \notin Met
      BY <1>1, <3>2 DEF IteratorOK, MetOK
    <3> QED  BY <3>1, <3>2
  <2>5. Stays(Raw', K)
    BY <2>1, <2>3 DEF Kept, Stays
  <2>6. KeptOK(u)'
    <3>1. CASE head' = head
      <4>1. Kept(u, K)'
        BY <2>1, <2>3, <2>5, <3>1 DEF Kept
      <4> QED  BY <4>1 DEF KeptOK
    <3>2. CASE head' \in Entries /\ mem'[head'] = "listed" /\ Raw'[head'] = head
      <4>1. \E S \in SUBSET Entries : Kept(u, S)'
        <5>1. K \union {head'} \in SUBSET Entries
          BY <3>2
        <5>2. Stays(Raw', K \union {head'})
          BY <2>1, <2>5, <3>2 DEF Kept, Stays, Null
        <5>3. \A a \in K \union {head'} :
                 mem'[a] = "listed" \/ (mem'[a] = "retired" /\ u \in wait'[a])
          BY <2>1, <2>3, <3>2 DEF Kept
        <5>4. ASSUME NEW S, S = K \union {head'} PROVE Kept(u, S)'
          BY <2>1, <5>2, <5>3, <5>4 DEF Kept, Null
        <5> QED  BY <5>1, <5>4
      <4> QED  BY <4>1 DEF KeptOK
    <3> QED  BY <3>1, <3>2
  <2>7. MissingOK(u)'
    <3>1. /\ \A a \in missing[u] : mem[a] = "listed" /\ a \in Entries
          /\ u \in Pinned'
      BY <1>1, <1>3 DEF IteratorOK, MissingOK, Pinned, ListInv, TypeOK
    <3>2. \A a \in missing'[u] : mem'[a] = "listed" /\ ~Marked(a)'
      BY <3>1 DEF SettledSame, Settled
    <3>3. ASSUME NEW x \in Null(K), Ahead(Raw, missing[u], x) PROVE Ahead(Raw', missing'[u], x)
      <4>1. Ahead(Raw', missing[u], x)
        BY <2>1, <2>3, <3>3, AheadSame DEF Kept
      <4> QED  BY <4>1 DEF Ahead
    <3>4. ASSUME pc[u] \in Met \union {"iter"}
          PROVE  Ahead(Raw', missing'[u], curr'[u])
      BY <1>1, <2>1, <3>3, <3>4 DEF IteratorOK, MissingOK, Kept
    <3>5. ASSUME pc[u] \in Met \union {"iter"}
          PROVE  Ahead(Raw', missing'[u], as_raw(Word(pred[u]))')
      <4>1. Ahead(Raw', missing'[u], as_raw(Word(pred[u])))
        BY <1>1, <2>1, <3>3, <3>5, WordKept DEF IteratorOK, MissingOK
      <4>2. CASE pred[u] # HEAD
        <5>1. pred[u] \in K
          BY <2>1, <4>2 DEF Kept, Null, HEAD
        <5>2. as_raw(Word(pred[u]))' = Raw'[pred[u]] /\ as_raw(Word(pred[u])) = Raw[pred[u]]
          BY <4>2, <5>1 DEF Word, Raw
        <5> QED  BY <2>3, <4>1, <5>1, <5>2
      <4>3. CASE pred[u] = HEAD
        <5>1. as_raw(Word(pred[u]))' = head' /\ as_raw(Word(pred[u])) = head
          <6>1. head \in Null(Entries) /\ head' \in Null(Entries)
            BY NextLinks, TypeFacts DEF ListInv
          <6> QED  BY <4>3, <6>1, WordFacts DEF Word
        <5>2. CASE head' = head
          BY <4>1, <5>1, <5>2
        <5>3. CASE head' \in Entries /\ Raw'[head'] = head
          <6>1. ASSUME NEW S \in SUBSET Entries, head' \in Null(S), Stays(Raw', S)
                PROVE  head \in Null(S)
            BY <5>3, <6>1, NullAssumption DEF Stays, Null
          <6> QED  BY <4>1, <5>1, <6>1 DEF Ahead
        <5> QED  BY <5>2, <5>3
      <4> QED  BY <4>2, <4>3
    <3> QED  BY <3>1, <3>2, <3>4, <3>5 DEF MissingOK
  <2> QED  BY <2>4, <2>6, <2>7 DEF IteratorOK
<1> QED  BY <1>2, <1>3

\* Of a thread without a guard there is little to know.
LEMMA OutsideOK ==
  ASSUME NEW t \in Threads, t \notin Pinned', missing'[t] = {},
         pc'[t] = "insert" \/ tmp'[t] = 0
  PROVE  IteratorOK(t)'
BY DEF IteratorOK, MetOK, KeptOK, MissingOK, Pinned, Met

\* The list stays what it was if the links of its entries do.
LEMMA ListSame ==
  ASSUME ListInv, TypeOK', head' = head, \A a \in Reachable : Raw'[a] = Raw[a]
  PROVE  Reachable' = Reachable
<1>1. Reachable = From(head, Raw) /\ Linking(Raw) /\ head \in Null(Entries)
  BY ReachableFrom, RawLinks DEF ListInv
<1>2. Reachable' = From(head', Raw') /\ Linking(Raw')
  BY NextLinks
<1> QED  BY <1>1, <1>2, FromSame

\* What both of the next steps leave of the list if it stays what it was.
LEMMA ChainSame ==
  ASSUME ListInv, TypeOK', head' = head,
         \A a \in Reachable : Raw'[a] = Raw[a] /\ mem'[a] = "listed"
  PROVE  ChainOK' /\ Reachable' = Reachable
<1>1. Reachable' = Reachable
  BY ListSame
<1>2. \A a \in Reachable : as_raw(next[a])' = as_raw(next[a])
  BY FromHead DEF Raw
<1> QED  BY <1>1, <1>2 DEF ListInv, ChainOK

LEMMA RegisterStep == ASSUME ListInv, TypeOK', NEW t \in Threads, Register(t) PROVE ListInv'
<1>1. PICK a \in Entries :
        /\ mem[a] = "free" /\ mem' = [mem EXCEPT ![a] = "local"]
        /\ entry' = [entry EXCEPT ![t] = a] /\ next' = [next EXCEPT ![a] = 0]
  BY DEF Register
<1>2. /\ pc[t] = "out" /\ pc' = [pc EXCEPT ![t] = "insert"] /\ tmp' = [tmp EXCEPT ![t] = head]
      /\ UNCHANGED <<head, wait, pred, curr, missing, dropped>>
  BY DEF Register, Goto, iter
<1>3. /\ pc \in [Threads -> PCs] /\ entry \in [Threads -> Null(Entries)]
      /\ next \in [Entries -> Words] /\ tmp \in [Threads -> Null(Entries)]
      /\ mem \in [Entries -> {"free", "local", "listed", "retired"}]
  BY TypeFacts DEF ListInv
<1>4. /\ pc'[t] = "insert" /\ entry'[t] = a /\ mem'[a] = "local"
      /\ \A u \in Threads \ {t} : pc'[u] = pc[u] /\ entry'[u] = entry[u] /\ tmp'[u] = tmp[u]
      /\ \A b \in Entries \ {a} : /\ mem'[b] = mem[b] /\ Raw'[b] = Raw[b]
                                  /\ Marked(b)' = Marked(b)
  BY <1>1, <1>2, <1>3 DEF Raw, Marked
<1>5. \A b \in Reachable : b \in Entries \ {a} /\ mem[b] = "listed"
  BY <1>1, FromHead DEF ListInv, ChainOK
<1>6. ChainOK' /\ Reachable' = Reachable
  BY <1>2, <1>4, <1>5, ChainSame
<1>7. OwnersOK'
  <2>1. \A u \in Threads : Owns(u) => entry[u] \in Entries \ {a}
    BY <1>1, <1>3 DEF ListInv, OwnersOK, OwnerOK, Owns, PCs, Active
  <2>2. ASSUME NEW u \in Threads PROVE OwnerOK(u)'
    <3>1. CASE u = t
      BY <1>4, <3>1 DEF OwnerOK, Active
    <3>2. CASE u # t
      <4>1. Owns(u)' <=> Owns(u)
        BY <1>4, <3>2 DEF Owns
      <4>2. Owns(u) => mem'[entry'[u]] = mem[entry[u]] /\ Marked(entry[u])' = Marked(entry[u])
        BY <1>4, <2>1, <3>2
      <4>3. OwnerOK(u)
        BY DEF ListInv, OwnersOK
      <4>4. Marked(entry[u])' <=> tag(next'[entry'[u]]) = 1
        BY DEF Marked
      <4>5. pc[u] \in Active \union {"insert"} => Owns(u)
        BY DEF Active, Owns
      <4>6. Owns(u) => Marked(entry[u])' <=> Marked(entry[u])
        BY <4>2
      <4> QED  BY <1>4, <2>1, <3>2, <4>1, <4>2, <4>3, <4>4, <4>5 DEF OwnerOK, Marked
    <3> QED  BY <3>1, <3>2
  <2>3. \A u, v \in Threads : (Owns(u) /\ Owns(v) /\ entry[u] = entry[v] => u = v)'
    BY <1>4, <2>1 DEF ListInv, OwnersOK, Owns
  <2>4. ASSUME NEW b \in Entries, mem'[b] = "listed", ~Marked(b)'
        PROVE  \E u \in Threads : Keeper(u, b)'
    <3>1. b # a /\ mem[b] = "listed" /\ ~Marked(b)
      BY <1>4, <2>4
    <3>2. PICK u \in Threads : Keeper(u, b)
      BY <3>1 DEF ListInv, OwnersOK
    <3>3. u # t
      BY <1>2, <3>2 DEF Keeper, Active
    <3> QED  BY <1>4, <3>2, <3>3 DEF Keeper
  <2> QED  BY <2>2, <2>3, <2>4 DEF OwnersOK
<1>8. UnlinkedOK'
  <2>1. \A u \in Threads, b \in Entries : Finalizing(u, b)' <=> Finalizing(u, b)
    BY <1>2, <1>4 DEF Finalizing
  <2>2. \A u \in Threads, b \in Entries : Finalizing(u, b) => mem[b] = "listed" /\ b # a
    BY <1>1 DEF ListInv, UnlinkedOK, UnlinkerOK
  <2>3. \A u \in Threads : UnlinkerOK(u)'
    BY <1>4, <1>6, <2>1, <2>2 DEF ListInv, UnlinkedOK, UnlinkerOK
  <2>4. ASSUME NEW b \in Entries, mem'[b] = "listed"
        PROVE  b \in Reachable \/ \E u \in Threads : Finalizing(u, b)'
    BY <1>4, <2>1, <2>4 DEF ListInv, UnlinkedOK
  <2>5. \A b \in Entries : mem'[b] = "retired" => Marked(b)'
    BY <1>4 DEF ListInv, UnlinkedOK
  <2> QED  BY <1>6, <2>3, <2>4, <2>5 DEF UnlinkedOK
<1>9. SettledSame
  BY <1>1, <1>2, <1>4 DEF SettledSame, Settled
<1>10. ASSUME NEW u \in Threads PROVE IteratorOK(u)'
  <2>1. CASE u = t
    <3>1. missing'[t] = {}
      BY <1>2 DEF ListInv, IteratorOK, MissingOK, Pinned
    <3> QED  BY <1>4, <2>1, <3>1, OutsideOK DEF Pinned
  <2>2. CASE u # t
    <3>1. \A b \in missing[u] : b \in Entries /\ mem[b] = "listed" /\ ~Marked(b)
      BY DEF ListInv, IteratorOK, MissingOK, TypeOK
    <3>2. \A b \in missing[u] : ~Marked(b)'
      BY <1>1, <1>4, <3>1
    <3> QED  BY <1>2, <1>4, <1>9, <2>2, <3>2, IteratorFrame
  <2> QED  BY <2>1, <2>2
<1> QED  BY <1>2, <1>6, <1>7, <1>8, <1>10 DEF ListInv, DropClean

LEMMA DestroyStep == ASSUME ListInv, TypeOK', NEW a \in Entries, Destroy(a) PROVE ListInv'
<1>1. /\ mem[a] = "retired" /\ wait[a] = {}
      /\ mem' = [mem EXCEPT ![a] = "free"] /\ next' = [next EXCEPT ![a] = 0]
      /\ UNCHANGED <<head, wait, pc, entry, tmp, pred, curr, missing, dropped>>
  BY DEF Destroy, iter
<1>2. /\ next \in [Entries -> Words]
      /\ mem \in [Entries -> {"free", "local", "listed", "retired"}]
  BY TypeFacts DEF ListInv
<1>3. /\ mem'[a] = "free"
      /\ \A b \in Entries \ {a} : /\ mem'[b] = mem[b] /\ Raw'[b] = Raw[b]
                                  /\ Marked(b)' = Marked(b)
  BY <1>1, <1>2 DEF Raw, Marked
<1>4. \A b \in Reachable : b \in Entries \ {a} /\ mem[b] = "listed"
  BY <1>1, FromHead DEF ListInv, ChainOK
<1>5. ChainOK' /\ Reachable' = Reachable
  BY <1>1, <1>3, <1>4, ChainSame
<1>6. OwnersOK'
  <2>1. ASSUME NEW u \in Threads PROVE OwnerOK(u)'
    <3>1. OwnerOK(u) /\ (pc[u] \in Active \union {"insert"} => entry[u] \in Entries \ {a})
      BY <1>1 DEF ListInv, OwnersOK, OwnerOK, Owns, Active
    <3>2. pc[u] \in Active => ~Marked(entry[u])'
      BY <1>1, <1>2, <3>1 DEF OwnerOK, Marked
    <3>3. Marked(entry[u])' <=> tag(next'[entry[u]]) = 1
      BY <1>1 DEF Marked
    <3> QED  BY <1>1, <1>3, <3>1, <3>2, <3>3 DEF OwnerOK, Owns, Marked
  <2>2. ASSUME NEW b \in Entries, mem'[b] = "listed", ~Marked(b)'
        PROVE  \E u \in Threads : Keeper(u, b)'
    <3>1. mem[b] = "listed" /\ ~Marked(b)
      BY <1>3, <2>2
    <3> QED  BY <1>1, <3>1 DEF ListInv, OwnersOK, Keeper
  <2> QED  BY <1>1, <2>1, <2>2 DEF ListInv, OwnersOK, Owns
<1>7. UnlinkedOK'
  <2>1. \A u \in Threads, b \in Entries : Finalizing(u, b)' <=> Finalizing(u, b)
    BY <1>1 DEF Finalizing
  <2>2. \A u \in Threads, b \in Entries : Finalizing(u, b) => mem[b] = "listed" /\ b # a
    BY <1>1 DEF ListInv, UnlinkedOK, UnlinkerOK
  <2>3. \A u \in Threads : UnlinkerOK(u)'
    BY <1>3, <1>5, <2>1, <2>2 DEF ListInv, UnlinkedOK, UnlinkerOK
  <2>4. ASSUME NEW b \in Entries, mem'[b] = "listed"
        PROVE  b \in Reachable \/ \E u \in Threads : Finalizing(u, b)'
    BY <1>3, <2>1, <2>4 DEF ListInv, UnlinkedOK
  <2>5. \A b \in Entries : mem'[b] = "retired" => Marked(b)'
    BY <1>3 DEF ListInv, UnlinkedOK
  <2> QED  BY <1>5, <2>3, <2>4, <2>5 DEF UnlinkedOK
<1>8. SettledSame
  BY <1>1, <1>3 DEF SettledSame, Settled
<1>9. ASSUME NEW u \in Threads PROVE IteratorOK(u)'
  <2>1. \A b \in missing[u] : b \in Entries /\ mem[b] = "listed" /\ ~Marked(b)
    BY DEF ListInv, IteratorOK, MissingOK, TypeOK
  <2>2. \A b \in missing'[u] : ~Marked(b)'
    BY <1>1, <1>3, <2>1
  <2> QED  BY <1>1, <1>8, <2>2, IteratorFrame
<1> QED  BY <1>1, <1>5, <1>6, <1>7, <1>9 DEF ListInv, DropClean

LEMMA DeleteStep == ASSUME ListInv, TypeOK', NEW t \in Threads, Delete(t) PROVE ListInv'
<1> DEFINE e == entry[t]
<1>1. /\ pc[t] = "in" /\ pc' = [pc EXCEPT ![t] = "release"]
      /\ next' = [next EXCEPT ![e] = fetch_or(@, 1)]
      /\ missing' = [u \in Threads |-> missing[u] \ {e}]
      /\ UNCHANGED <<head, mem, wait, entry, tmp, pred, curr, dropped>>
  BY DEF Delete, Goto
<1>2. pc \in [Threads -> PCs] /\ next \in [Entries -> Words]
  BY TypeFacts DEF ListInv
<1>3. e \in Entries /\ mem[e] = "listed" /\ Owns(t)
  BY <1>1 DEF ListInv, OwnersOK, OwnerOK, Owns, Active
<1>4. /\ Marked(e)' /\ \A b \in Entries \ {e} : Marked(b)' = Marked(b)
      /\ \A b \in Entries : Raw'[b] = Raw[b]
      /\ pc'[t] = "release" /\ \A u \in Threads \ {t} : pc'[u] = pc[u]
  BY <1>1, <1>2, <1>3, WordFacts DEF Raw, Marked
<1>5. ChainOK' /\ Reachable' = Reachable
  BY <1>1, <1>4, FromHead, ChainSame DEF ListInv, ChainOK
<1>6. OwnersOK'
  <2>1. \A u \in Threads \ {t} : Owns(u) => entry[u] \in Entries \ {e}
    BY <1>3 DEF ListInv, OwnersOK, OwnerOK
  <2>2. ASSUME NEW u \in Threads PROVE OwnerOK(u)'
    <3>1. CASE u = t
      BY <1>4, <3>1 DEF OwnerOK, Owns, Active
    <3>2. CASE u # t
      <4>1. OwnerOK(u) /\ (pc[u] \in Active => Owns(u))
        BY DEF ListInv, OwnersOK, Active, Owns
      <4>2. pc[u] \in Active => ~Marked(entry[u])'
        BY <1>1, <1>2, <2>1, <3>2, <4>1 DEF OwnerOK, Marked
      <4>3. Marked(entry[u])' <=> tag(next'[entry[u]]) = 1
        BY <1>1 DEF Marked
      <4> QED  BY <1>1, <1>4, <3>2, <4>1, <4>2, <4>3 DEF OwnerOK, Owns, Marked
    <3> QED  BY <3>1, <3>2
  <2>3. ASSUME NEW b \in Entries, mem'[b] = "listed", ~Marked(b)'
        PROVE  \E u \in Threads : Keeper(u, b)'
    <3>1. mem[b] = "listed" /\ ~Marked(b) /\ b # e
      BY <1>1, <1>4, <2>3
    <3>2. PICK u \in Threads : Keeper(u, b)
      BY <3>1 DEF ListInv, OwnersOK
    <3>3. u # t
      BY <3>1, <3>2 DEF Keeper
    <3> QED  BY <1>1, <1>4, <3>2, <3>3 DEF Keeper
  <2> QED  BY <1>1, <1>4, <2>2, <2>3 DEF ListInv, OwnersOK, Owns
<1>7. UnlinkedOK'
  <2>1. \A u \in Threads, b \in Entries : Finalizing(u, b)' <=> Finalizing(u, b)
    BY <1>1, <1>4 DEF Finalizing
  <2>2. \A u \in Threads : UnlinkerOK(u)'
    BY <1>1, <1>5, <2>1 DEF ListInv, UnlinkedOK, UnlinkerOK
  <2>3. \A b \in Entries : mem[b] = "retired" => Marked(b)'
    BY <1>3, <1>4 DEF ListInv, UnlinkedOK
  <2> QED  BY <1>1, <1>5, <2>1, <2>2, <2>3 DEF ListInv, UnlinkedOK
<1>8. SettledSame
  BY <1>1, <1>4 DEF SettledSame
<1>9. ASSUME NEW u \in Threads PROVE IteratorOK(u)'
  <2>1. CASE u = t
    <3>1. missing[t] = {} /\ tmp[t] = 0
      BY <1>1 DEF ListInv, IteratorOK, MissingOK, MetOK, Met, Pinned
    <3>2. missing'[t] = {} /\ tmp'[t] = 0
      BY <1>1, <3>1
    <3> QED  BY <1>4, <2>1, <3>2, OutsideOK DEF Pinned
  <2>2. CASE u # t
    <3>1. \A b \in missing[u] : b \in Entries /\ ~Marked(b)
      BY DEF ListInv, IteratorOK, MissingOK, TypeOK
    <3>2. missing'[u] = missing[u] \ {e}
      BY <1>1
    <3>3. \A b \in missing'[u] : ~Marked(b)'
      BY <1>4, <3>1, <3>2
    <3> QED  BY <1>1, <1>4, <1>8, <2>2, <3>2, <3>3, IteratorFrame
  <2> QED  BY <2>1, <2>2
<1> QED  BY <1>1, <1>5, <1>6, <1>7, <1>9 DEF ListInv, DropClean

LEMMA InsertStep == ASSUME ListInv, TypeOK', NEW t \in Threads, InsertTry(t) PROVE ListInv'
<1> DEFINE e == entry[t]
<1>1. /\ pc[t] = "insert" /\ next' = [next EXCEPT ![e] = tmp[t]]
      /\ UNCHANGED <<wait, entry, pred, curr, missing, dropped>>
  BY InsertCases DEF ListInv, InsertTry, iter
<1>2. \/ /\ head = tmp[t] /\ head' = e /\ tmp' = [tmp EXCEPT ![t] = 0]
         /\ mem' = [mem EXCEPT ![e] = "listed"] /\ pc' = [pc EXCEPT ![t] = "in"]
      \/ /\ head' = head /\ tmp' = [tmp EXCEPT ![t] = head] /\ UNCHANGED <<mem, pc>>
  BY InsertCases DEF ListInv
<1>3. /\ pc \in [Threads -> PCs] /\ next \in [Entries -> Words]
      /\ tmp \in [Threads -> Null(Entries)] /\ head \in Null(Entries)
      /\ mem \in [Entries -> {"free", "local", "listed", "retired"}]
  BY TypeFacts DEF ListInv
<1>4. e \in Entries /\ mem[e] = "local" /\ Owns(t)
  BY <1>1 DEF ListInv, OwnersOK, OwnerOK, Owns
<1>5. /\ Raw'[e] = tmp[t] /\ ~Marked(e)'
      /\ \A b \in Entries \ {e} : /\ mem'[b] = mem[b] /\ Raw'[b] = Raw[b]
                                  /\ Marked(b)' = Marked(b)
      /\ \A u \in Threads \ {t} : pc'[u] = pc[u] /\ tmp'[u] = tmp[u]
  <2>1. as_raw(tmp[t]) = tmp[t] /\ tag(tmp[t]) = 0
    BY <1>3, WordFacts
  <2> QED  BY <1>1, <1>2, <1>3, <1>4, <2>1 DEF Raw, Marked
<1>6. /\ Reachable \in SUBSET Entries
      /\ \A b \in Reachable : b \in Entries \ {e} /\ mem[b] = "listed"
  BY <1>4, FromHead DEF ListInv, ChainOK
<1>7. ChainOK' /\ Reachable' = IF head' = e THEN Reachable \union {e} ELSE Reachable
  <2>1. CASE head' = head
    <3>1. head' # e
      <4>1. head \in Null(Reachable)
        BY FromHead
      <4> QED  BY <1>4, <1>6, <2>1, <4>1, NullAssumption DEF Null
    <3> QED  BY <1>5, <1>6, <2>1, <3>1, ChainSame
  <2>2. CASE head' = e /\ head = tmp[t] /\ mem' = [mem EXCEPT ![e] = "listed"]
    <3>1. /\ Reachable = From(head, Raw) /\ Linking(Raw) /\ head \in Null(Entries)
          /\ Reachable' = From(e, Raw') /\ Linking(Raw')
      BY <2>2, ReachableFrom, RawLinks, NextLinks DEF ListInv
    <3>2. Reachable' = Reachable \union {e}
      BY <1>4, <1>5, <1>6, <2>2, <3>1, FromInsert
    <3>3. head \in Null(Reachable) /\ Stays(Raw, Reachable) /\ e # 0
      BY <1>4, FromHead, NullAssumption
    <3>4. \A a \in Reachable : /\ mem[a] = "listed" /\ Raw[a] # head
                               /\ \A b \in Reachable : Raw[a] = Raw[b] /\ Raw[a] # 0 => a = b
      BY <1>6 DEF ListInv, ChainOK, Raw
    <3>5. \A a \in Reachable \union {e} : mem'[a] = "listed" /\ Raw'[a] # e
      <4>1. \A a \in Reachable : Raw[a] # e
        BY <1>6, <3>3 DEF Stays, Null
      <4>2. head # e
        BY <1>6, <3>3 DEF Null
      <4> QED  BY <1>3, <1>4, <1>5, <1>6, <2>2, <4>1, <4>2
    <3>6. \A a, b \in Reachable \union {e} : Raw'[a] = Raw'[b] /\ Raw'[a] # 0 => a = b
      BY <1>5, <1>6, <2>2, <3>4
    <3>7. \A a \in Reachable' : a \in Entries /\ Raw'[a] = as_raw(next[a])'
      BY <1>4, <1>6, <3>2 DEF Raw
    <3> QED  BY <2>2, <3>2, <3>5, <3>6, <3>7 DEF ChainOK
  <2> QED  BY <1>2, <2>1, <2>2
<1>8. head' = e <=> mem'[e] = "listed"
  <2>1. head \in Null(Reachable)
    BY FromHead
  <2>2. head # e
    BY <1>4, <1>6, <2>1, NullAssumption DEF Null
  <2> QED  BY <1>2, <1>3, <1>4, <2>2
<1>9. OwnersOK'
  <2>1. \A u \in Threads \ {t} : Owns(u) => entry[u] \in Entries \ {e}
    BY <1>4 DEF ListInv, OwnersOK, OwnerOK
  <2>2. ASSUME NEW u \in Threads PROVE OwnerOK(u)' /\ (Owns(u)' <=> Owns(u))
    <3>1. CASE u = t
      <4>1. tag(next'[e]) # 1
        BY <1>1, <1>5 DEF Marked
      <4>2. \/ pc'[t] = "in" /\ mem'[e] = "listed"
            \/ pc'[t] = "insert" /\ mem'[e] = "local"
        BY <1>1, <1>2, <1>3, <1>4
      <4> QED  BY <1>1, <1>4, <3>1, <4>1, <4>2 DEF OwnerOK, Owns, Active, Marked
    <3>2. CASE u # t
      <4>1. OwnerOK(u) /\ (pc[u] \in Active \union {"insert"} => Owns(u))
        BY DEF ListInv, OwnersOK, Active, Owns
      <4>2. pc[u] \in Active => ~Marked(entry[u])'
        BY <1>1, <1>3, <2>1, <3>2, <4>1 DEF OwnerOK, Marked
      <4>3. pc[u] \in Active \union {"insert"} => mem'[entry[u]] = mem[entry[u]]
        BY <1>5, <2>1, <3>2, <4>1
      <4>4. Marked(entry[u])' <=> tag(next'[entry[u]]) = 1
        BY <1>1 DEF Marked
      <4> QED  BY <1>1, <1>5, <3>2, <4>1, <4>2, <4>3, <4>4 DEF OwnerOK, Owns, Marked
    <3> QED  BY <3>1, <3>2
  <2>3. ASSUME NEW b \in Entries, mem'[b] = "listed", ~Marked(b)'
        PROVE  \E u \in Threads : Keeper(u, b)'
    <3>1. CASE b = e
      <4>1. pc'[t] = "in"
        BY <1>2, <1>3, <1>4, <2>3, <3>1
      <4> QED  BY <1>1, <3>1, <4>1 DEF Keeper, Active
    <3>2. CASE b # e
      <4>1. PICK u \in Threads : Keeper(u, b)
        BY <1>5, <2>3, <3>2 DEF ListInv, OwnersOK
      <4>2. u # t
        BY <3>2, <4>1 DEF Keeper
      <4> QED  BY <1>1, <1>5, <4>1, <4>2 DEF Keeper
    <3> QED  BY <3>1, <3>2
  <2> QED  BY <1>1, <2>2, <2>3 DEF ListInv, OwnersOK
<1>10. UnlinkedOK'
  <2>1. \A u \in Threads, b \in Entries : Finalizing(u, b)' <=> Finalizing(u, b)
    BY <1>1, <1>2, <1>3 DEF Finalizing
  <2>2. \A u \in Threads, b \in Entries : Finalizing(u, b) => mem[b] = "listed" /\ b # e
    BY <1>4 DEF ListInv, UnlinkedOK, UnlinkerOK
  <2>3. \A u \in Threads : UnlinkerOK(u)'
    BY <1>5, <1>7, <2>1, <2>2 DEF ListInv, UnlinkedOK, UnlinkerOK
  <2>4. ASSUME NEW b \in Entries, mem'[b] = "listed"
        PROVE  b \in Reachable' \/ \E u \in Threads : Finalizing(u, b)'
    BY <1>5, <1>7, <1>8, <2>1, <2>4 DEF ListInv, UnlinkedOK
  <2>5. \A b \in Entries : mem'[b] = "retired" => Marked(b)'
    <3>1. mem'[e] # "retired"
      BY <1>2, <1>3, <1>4
    <3> QED  BY <1>5, <3>1 DEF ListInv, UnlinkedOK
  <2> QED  BY <2>3, <2>4, <2>5 DEF UnlinkedOK
<1>11. SettledSame
  BY <1>1, <1>4, <1>5 DEF SettledSame, Settled
<1>12. head' = head \/ (head' \in Entries /\ mem'[head'] = "listed" /\ Raw'[head'] = head)
  BY <1>2, <1>4, <1>5, <1>8
<1>13. ASSUME NEW u \in Threads PROVE IteratorOK(u)'
  <2>1. CASE u = t
    <3>1. missing'[t] = {}
      BY <1>1 DEF ListInv, IteratorOK, MissingOK, Pinned
    <3>2. pc'[t] = "insert" \/ (pc'[t] = "in" /\ tmp'[t] = 0)
      BY <1>1, <1>2, <1>3
    <3> QED  BY <2>1, <3>1, <3>2, OutsideOK DEF Pinned
  <2>2. CASE u # t
    <3>1. \A b \in missing[u] : b \in Entries /\ mem[b] = "listed" /\ ~Marked(b)
      BY DEF ListInv, IteratorOK, MissingOK, TypeOK
    <3>2. \A b \in missing'[u] : ~Marked(b)'
      BY <1>1, <1>4, <1>5, <3>1
    <3> QED  BY <1>1, <1>5, <1>11, <1>12, <2>2, <3>2, IteratorFrame
  <2> QED  BY <2>1, <2>2
<1> QED  BY <1>1, <1>7, <1>9, <1>10, <1>13 DEF ListInv, DropClean

-------------------------------------------------------------------------------
(* Steps that unlink an entry, retire it, or end the list. *)

LEMMA FinalizeStep == ASSUME ListInv, TypeOK', NEW t \in Threads, Finalize(t) PROVE ListInv'
<1> DEFINE c == curr[t]
<1>1. /\ pc[t] = "finalize" /\ pc' = [pc EXCEPT ![t] = "iter"]
      /\ mem' = [mem EXCEPT ![c] = "retired"] /\ wait' = [wait EXCEPT ![c] = Pinned]
      /\ curr' = [curr EXCEPT ![t] = tmp[t]] /\ tmp' = [tmp EXCEPT ![t] = 0]
      /\ UNCHANGED <<head, next, entry, pred, missing, dropped>>
  BY DEF Finalize, Goto
<1>2. /\ pc \in [Threads -> PCs] /\ curr \in [Threads -> Null(Entries)]
      /\ tmp \in [Threads -> Null(Entries)] /\ wait \in [Entries -> SUBSET Threads]
      /\ mem \in [Entries -> {"free", "local", "listed", "retired"}]
  BY TypeFacts DEF ListInv
<1>3. c \in Entries /\ Marked(c) /\ tmp[t] = Raw[c] /\ t \in Pinned
  BY <1>1 DEF ListInv, IteratorOK, MetOK, Met, Raw, Pinned
<1>4. /\ mem[c] = "listed" /\ c \notin Reachable
      /\ \A u \in Threads : Finalizing(u, c) => u = t
  BY <1>1, <1>3 DEF ListInv, UnlinkedOK, UnlinkerOK, Finalizing
<1>5. /\ Raw' = Raw /\ Reachable' = Reachable /\ \A a : Marked(a)' = Marked(a)
  BY <1>1, SameList
<1>6. /\ mem'[c] = "retired" /\ wait'[c] = Pinned
      /\ \A b \in Entries \ {c} : mem'[b] = mem[b] /\ wait'[b] = wait[b]
      /\ pc'[t] = "iter" /\ curr'[t] = Raw[c] /\ tmp'[t] = 0
      /\ \A u \in Threads \ {t} : pc'[u] = pc[u] /\ curr'[u] = curr[u] /\ tmp'[u] = tmp[u]
  BY <1>1, <1>2, <1>3
<1>7. \A u \in Threads : /\ pc'[u] \in Active <=> pc[u] \in Active
                         /\ Owns(u)' <=> Owns(u)
                         /\ pc'[u] = "insert" <=> pc[u] = "insert"
  BY <1>1, <1>6 DEF Active, Owns
<1>8. OwnersOK'
  <2>1. \A u \in Threads : /\ pc[u] = "insert" => entry[u] \in Entries \ {c}
                           /\ pc[u] \in Active => entry[u] \in Entries \ {c}
    BY <1>3, <1>4 DEF ListInv, OwnersOK, OwnerOK, Owns, Active
  <2>2. ASSUME NEW u \in Threads PROVE OwnerOK(u)'
    BY <1>1, <1>6, <1>7, <2>1 DEF ListInv, OwnersOK, OwnerOK, Marked
  <2>3. \A b \in Entries : mem'[b] = "listed" => mem[b] = "listed"
    BY <1>6
  <2> QED  BY <1>1, <1>5, <1>7, <2>2, <2>3 DEF ListInv, OwnersOK, Keeper
<1>9. ChainOK'
  <2>1. \A a \in Reachable : mem'[a] = "listed"
    BY <1>4, <1>6, FromHead DEF ListInv, ChainOK
  <2> QED  BY <1>1, <1>5, <2>1 DEF ListInv, ChainOK
<1>10. UnlinkedOK'
  <2>1. \A u \in Threads, b \in Entries : Finalizing(u, b)' <=> Finalizing(u, b) /\ b # c
    BY <1>1, <1>4, <1>6 DEF Finalizing
  <2>2. \A u \in Threads : UnlinkerOK(u)'
    BY <1>5, <1>6, <2>1 DEF ListInv, UnlinkedOK, UnlinkerOK
  <2>3. ASSUME NEW b \in Entries, mem'[b] = "listed"
        PROVE  b \in Reachable \/ \E u \in Threads : Finalizing(u, b)'
    <3>1. b # c /\ mem[b] = "listed"
      BY <1>6, <2>3
    <3> QED  BY <2>1, <3>1 DEF ListInv, UnlinkedOK
  <2>4. \A b \in Entries : mem'[b] = "retired" => Marked(b)
    BY <1>3, <1>6 DEF ListInv, UnlinkedOK
  <2> QED  BY <1>5, <2>2, <2>3, <2>4 DEF UnlinkedOK
<1>11. ASSUME NEW u \in Threads PROVE IteratorOK(u)'
  <2>1. IteratorOK(u) /\ pred'[u] = pred[u] /\ missing'[u] = missing[u]
    BY <1>1 DEF ListInv
  <2>2. u \in Pinned' <=> u \in Pinned
    BY <1>1, <1>6 DEF Pinned
  <2>3. MetOK(u)'
    <3>1. CASE u = t
      BY <1>6, <3>1 DEF MetOK, Met
    <3>2. CASE u # t
      BY <1>5, <1>6, <2>1, <3>2, SameList, <1>1 DEF IteratorOK, MetOK
    <3> QED  BY <3>1, <3>2
  <2>4. ASSUME u \in Pinned PROVE \E S \in SUBSET Entries : Kept(u, S)'
    <3>1. PICK K \in SUBSET Entries : Kept(u, K)
      BY <2>1, <2>4 DEF IteratorOK, KeptOK
    <3>2. \A a \in K : mem'[a] = "listed" \/ (mem'[a] = "retired" /\ u \in wait'[a])
      BY <1>6, <2>4, <3>1 DEF Kept
    <3>3. curr'[u] \in Null(K)
      <4>1. CASE u = t
        BY <1>3, <1>6, <3>1, <4>1, NullAssumption DEF Kept, Stays, Null
      <4>2. CASE u # t
        BY <1>6, <3>1, <4>2 DEF Kept
      <4> QED  BY <4>1, <4>2
    <3>4. Kept(u, K)'
      BY <1>1, <1>5, <3>1, <3>2, <3>3 DEF Kept
    <3> QED  BY <3>4
  <2>5. MissingOK(u)'
    <3>1. \A a \in missing[u] : a \in Entries /\ mem[a] = "listed" /\ ~Marked(a)
      BY <2>1 DEF IteratorOK, MissingOK, ListInv, TypeOK
    <3>2. \A a \in missing[u] : a # c /\ mem'[a] = "listed" /\ ~Marked(a)'
      BY <1>3, <1>5, <1>6, <3>1
    <3>3. Word(pred[u])' = Word(pred[u])
      BY <1>1 DEF Word
    <3>4. pc'[u] \in Met \union {"iter"} => pc[u] \in Met \union {"iter"}
      BY <1>1, <1>6 DEF Met
    <3>5. ASSUME pc[u] \in Met \union {"iter"} PROVE Ahead(Raw, missing[u], curr'[u])
      <4>1. Ahead(Raw, missing[u], curr[u])
        BY <2>1, <3>5 DEF IteratorOK, MissingOK
      <4>2. CASE u = t
        <5>1. Ahead(Raw, missing[t], Raw[c])
          BY <1>3, <3>2, <4>1, <4>2, AheadPast
        <5> QED  BY <1>6, <4>2, <5>1
      <4> QED  BY <1>6, <4>1, <4>2
    <3> QED  BY <1>5, <2>1, <2>2, <3>2, <3>3, <3>4, <3>5 DEF IteratorOK, MissingOK
  <2> QED  BY <2>2, <2>3, <2>4, <2>5 DEF IteratorOK, KeptOK
<1> QED  BY <1>1, <1>8, <1>9, <1>10, <1>11 DEF ListInv, DropClean

LEMMA UnlinkStep ==
  ASSUME ListInv, TypeOK', NEW t \in Threads, pc[t] = "unlink", Unlinks(t),
         UNCHANGED <<mem, wait, entry, pred, missing, dropped>>
  PROVE  ListInv'
<1> DEFINE c == curr[t]
           p == pred[t]
<1>1. /\ Word(p) = c /\ pc' = [pc EXCEPT ![t] = "finalize"] /\ curr' = curr /\ tmp' = tmp
      /\ IF p = HEAD THEN head' = tmp[t] /\ next' = next
                     ELSE head' = head /\ next' = [next EXCEPT ![p] = tmp[t]]
  BY DEF Unlinks
<1>2. /\ pc \in [Threads -> PCs] /\ next \in [Entries -> Words] /\ head \in Null(Entries)
      /\ tmp \in [Threads -> Null(Entries)] /\ pred \in [Threads -> Null(Entries)]
  BY TypeFacts DEF ListInv
<1>3. c \in Entries /\ c # 0 /\ Marked(c) /\ tmp[t] = Raw[c] /\ t \in Pinned
  BY NullAssumption DEF ListInv, IteratorOK, MetOK, Met, Raw, Pinned
<1>4. PICK K \in SUBSET Entries : Kept(t, K)
  BY <1>3 DEF ListInv, IteratorOK, KeptOK
<1>5. as_raw(c) = c /\ tag(c) = 0 /\ as_raw(tmp[t]) = Raw[c] /\ tag(tmp[t]) = 0
  BY <1>2, <1>3, WordFacts DEF Null
<1>6. /\ Reachable \in SUBSET Entries /\ head \in Null(Reachable) /\ Stays(Raw, Reachable)
      /\ \A a \in Reachable : /\ mem[a] = "listed" /\ Raw[a] # head
                              /\ \A b \in Reachable : Raw[a] = Raw[b] /\ Raw[a] # 0 => a = b
  BY FromHead DEF ListInv, ChainOK, Raw
\* The predecessor is not marked, so it is in the list, and so is the entry.
<1>7. \/ p = HEAD /\ head = c /\ head' = Raw[c] /\ next' = next
      \/ /\ p # HEAD /\ p \in Reachable /\ ~Marked(p) /\ Raw[p] = c
         /\ head' = head /\ next' = [next EXCEPT ![p] = tmp[t]]
  <2>1. CASE p = HEAD
    BY <1>1, <1>3, <2>1 DEF Word
  <2>2. CASE p # HEAD
    <3>1. p \in K /\ p \in Entries
      BY <1>4, <2>2 DEF Kept, Null, HEAD
    <3>2. next[p] = c /\ ~Marked(p) /\ Raw[p] = c
      BY <1>1, <1>5, <2>2, <3>1 DEF Word, Marked, Raw
    <3>3. p \in Reachable
      BY <1>4, <3>1, <3>2, UnmarkedReachable DEF Kept
    <3> QED  BY <1>1, <2>2, <3>2, <3>3
  <2> QED  BY <2>1, <2>2
<1>8. c \in Reachable
  BY <1>3, <1>6, <1>7 DEF Stays, Null
<1>9. /\ \A a \in Entries : Marked(a)' <=> Marked(a)
      /\ \A a \in Entries : Raw'[a] = IF p # HEAD /\ a = p THEN Raw[c] ELSE Raw[a]
  <2>1. CASE p = HEAD
    BY <1>7, <2>1 DEF Marked, Raw
  <2>2. CASE p # HEAD
    BY <1>2, <1>5, <1>6, <1>7, <2>2 DEF Marked, Raw
  <2> QED  BY <2>1, <2>2
<1>10. Reachable' = Reachable \ {c}
  <2>1. /\ Reachable = From(head, Raw) /\ Linking(Raw)
        /\ Reachable' = From(head', Raw') /\ Linking(Raw')
    BY ReachableFrom, RawLinks, NextLinks DEF ListInv
  <2>2. CASE p = HEAD
    <3>1. Raw' = Raw /\ \A a \in Reachable : Raw[a] # c
      BY <1>6, <1>7, <2>2 DEF Raw
    <3> QED  BY <1>3, <1>7, <2>1, <2>2, <3>1, FromNext
  <2>3. CASE p # HEAD
    <3>1. head # c /\ \A a \in Reachable : Raw[a] = c => a = p
      BY <1>3, <1>6, <1>7, <2>3
    <3>2. Raw'[p] = Raw[c] /\ \A a \in Entries \ {p} : Raw'[a] = Raw[a]
      BY <1>6, <1>7, <1>9, <2>3
    <3> QED  BY <1>2, <1>3, <1>7, <2>1, <2>3, <3>1, <3>2, FromUnlink
  <2> QED  BY <2>2, <2>3
<1>11. pc'[t] = "finalize" /\ \A u \in Threads \ {t} : pc'[u] = pc[u]
  BY <1>1, <1>2
<1>12. OwnersOK'
  <2>1. ASSUME NEW u \in Threads PROVE OwnerOK(u)' /\ (Owns(u)' <=> Owns(u))
    <3>1. OwnerOK(u) /\ (pc[u] \in Active => Owns(u))
      BY DEF ListInv, OwnersOK, Active, Owns
    <3>2. pc[u] \in Active => entry[u] \in Entries /\ ~Marked(entry[u])
      BY <3>1 DEF OwnerOK
    <3>3. ASSUME NEW a, a = entry[u] PROVE Marked(entry[u])' <=> Marked(a)'
      BY <3>3 DEF Marked
    <3>4. pc[u] \in Active => ~Marked(entry[u])'
      BY <1>9, <3>2, <3>3
    <3> QED  BY <1>11, <3>1, <3>4 DEF OwnerOK, Owns, Active
  <2>2. ASSUME NEW b \in Entries, mem'[b] = "listed", ~Marked(b)'
        PROVE  \E u \in Threads : Keeper(u, b)'
    <3>1. PICK u \in Threads : Keeper(u, b)
      BY <1>9, <2>2 DEF ListInv, OwnersOK
    <3> QED  BY <1>11, <3>1 DEF Keeper, Active
  <2> QED  BY <2>1, <2>2 DEF ListInv, OwnersOK
<1>13. ChainOK'
  <2>1. \A a \in Reachable' : /\ mem'[a] = "listed" /\ a \in Entries
                              /\ Raw'[a] = as_raw(next[a])'
    BY <1>6, <1>10 DEF Raw
  <2>2. \A a, b \in Reachable' : Raw'[a] = Raw'[b] /\ Raw'[a] # 0 => a = b
    BY <1>6, <1>7, <1>8, <1>9, <1>10
  <2>3. \A a \in Reachable' : Raw'[a] # head'
    <3>1. CASE p # HEAD
      BY <1>6, <1>7, <1>8, <1>9, <1>10, <3>1
    <3>2. CASE p = HEAD /\ head' # 0
      BY <1>6, <1>7, <1>8, <1>9, <1>10, <3>2
    <3>3. CASE head' = 0
      <4>1. Reachable' = From(head', Raw')
        BY NextLinks
      <4> QED  BY <3>3, <4>1, FromNull
    <3> QED  BY <3>1, <3>2, <3>3
  <2> QED  BY <2>1, <2>2, <2>3 DEF ChainOK
<1>14. UnlinkedOK'
  <2>1. \A u \in Threads, b \in Entries : Finalizing(u, b) => b # c /\ u # t
    BY <1>8 DEF ListInv, UnlinkedOK, UnlinkerOK, Finalizing
  <2>2. \A u \in Threads, b \in Entries :
           Finalizing(u, b)' <=> Finalizing(u, b) \/ (u = t /\ b = c)
    BY <1>1, <1>11, <2>1 DEF Finalizing
  <2>3. ASSUME NEW u \in Threads PROVE UnlinkerOK(u)'
    BY <1>6, <1>8, <1>10, <2>1, <2>2 DEF ListInv, UnlinkedOK, UnlinkerOK
  <2>4. ASSUME NEW b \in Entries, mem[b] = "listed"
        PROVE  b \in Reachable' \/ \E u \in Threads : Finalizing(u, b)'
    BY <1>10, <2>2, <2>4 DEF ListInv, UnlinkedOK
  <2>5. \A b \in Entries : mem[b] = "retired" => Marked(b)'
    BY <1>9 DEF ListInv, UnlinkedOK
  <2> QED  BY <2>3, <2>4, <2>5 DEF UnlinkedOK
<1>15. ASSUME NEW u \in Threads PROVE IteratorOK(u)'
  <2>1. /\ IteratorOK(u) /\ (pc'[u] \in Met <=> pc[u] \in Met)
        /\ (pc'[u] = "insert" <=> pc[u] = "insert") /\ (pc'[u] = "iter" <=> pc[u] = "iter")
        /\ (u \in Pinned' <=> u \in Pinned)
    BY <1>11 DEF ListInv, Met, Pinned
  <2>2. MetOK(u)'
    <3>1. CASE pc[u] \in Met
      <4>1. curr[u] \in Entries /\ Marked(curr[u]) /\ tmp[u] = Raw[curr[u]]
        BY <2>1, <3>1 DEF IteratorOK, MetOK, Raw
      <4>2. Raw'[curr[u]] = Raw[curr[u]]
        BY <1>7, <1>9, <4>1
      <4>3. Raw'[curr[u]] = as_raw(next'[curr[u]])
        BY <4>1 DEF Raw
      <4>4. ASSUME NEW a, a = curr[u] PROVE Marked(curr[u])' <=> Marked(a)'
        BY <1>1, <4>4 DEF Marked
      <4>5. Marked(curr[u])'
        BY <1>9, <4>1, <4>4
      <4> QED  BY <1>1, <2>1, <3>1, <4>1, <4>2, <4>3, <4>5 DEF MetOK
    <3>2. CASE pc[u] \notin Met
      BY <1>1, <2>1, <3>2 DEF IteratorOK, MetOK
    <3> QED  BY <3>1, <3>2
  <2>3. ASSUME u \in Pinned PROVE \E S \in SUBSET Entries : Kept(u, S)'
    <3>1. PICK J \in SUBSET Entries : Kept(u, J)
      BY <2>1, <2>3 DEF IteratorOK, KeptOK
    <3>2. c \in J => Raw[c] \in Null(J)
      BY <3>1 DEF Kept, Stays
    <3>3. Stays(Raw', J)
      BY <1>3, <1>7, <1>9, <3>1, <3>2 DEF Kept, Stays, Null
    <3>4. head' \in Null(J)
      BY <1>3, <1>7, <3>1, <3>2 DEF Kept, Null
    <3>5. Kept(u, J)'
      BY <1>1, <3>1, <3>3, <3>4 DEF Kept
    <3> QED  BY <3>5
  <2>4. MissingOK(u)'
    <3>1. \A a \in missing[u] : a \in Entries /\ mem[a] = "listed" /\ ~Marked(a)
      BY <2>1 DEF IteratorOK, MissingOK, ListInv, TypeOK
    <3>2. c \notin missing[u] /\ \A a \in missing[u] : mem'[a] = "listed" /\ ~Marked(a)'
      BY <1>3, <1>9, <3>1
    <3>3. \A a \in Entries : Raw'[a] = Raw[a] \/ (Raw[a] = c /\ Raw'[a] = Raw[c])
      BY <1>7, <1>9
    <3>4. Raw'[c] = Raw[c]
      BY <1>3, <1>7, <1>9
    <3>5. ASSUME NEW x, Ahead(Raw, missing[u], x)
          PROVE  Ahead(Raw', missing[u], x) /\ (x = c => Ahead(Raw', missing[u], Raw[c]))
      BY <1>3, <3>2, <3>3, <3>4, <3>5, AheadUnlink
    <3>6. \/ Word(pred[u])' = Word(pred[u])
          \/ Word(pred[u]) = c /\ Word(pred[u])' = tmp[t]
      <4>1. pred'[u] = pred[u]
        OBVIOUS
      <4>2. CASE pred[u] = p
        <5>1. Word(p)' = tmp[t]
          <6>1. p # HEAD => p \in Entries
            BY <1>6, <1>7
          <6> QED  BY <1>2, <1>7, <6>1, <1>1 DEF Word
        <5>2. Word(pred[u])' = Word(p)'
          BY <4>1, <4>2 DEF Word
        <5> QED  BY <1>1, <4>2, <5>1, <5>2
      <4>3. CASE pred[u] # p
        <5>1. pred[u] = HEAD => head' = head
          BY <1>7, <4>3
        <5>2. pred[u] # HEAD => next'[pred[u]] = next[pred[u]]
          BY <1>2, <1>7, <4>3 DEF Null, HEAD
        <5> QED  BY <4>1, <5>1, <5>2 DEF Word
      <4> QED  BY <4>2, <4>3
    <3>7. ASSUME pc[u] \in Met \union {"iter"}
          PROVE  Ahead(Raw', missing[u], curr[u])
                 /\ Ahead(Raw', missing[u], as_raw(Word(pred[u]))')
      <4>1. Ahead(Raw, missing[u], curr[u]) /\ Ahead(Raw, missing[u], as_raw(Word(pred[u])))
        BY <2>1, <3>7 DEF IteratorOK, MissingOK
      <4> QED  BY <1>5, <3>5, <3>6, <4>1
    <3> QED  BY <1>1, <2>1, <3>2, <3>7 DEF IteratorOK, MissingOK
  <2> QED  BY <2>1, <2>2, <2>3, <2>4 DEF IteratorOK, KeptOK
<1> QED  BY <1>12, <1>13, <1>14, <1>15 DEF ListInv, DropClean

\* With every thread gone each entry of the list is marked, so the drop is clean.
LEMMA DropStep ==
  ASSUME ListInv, TypeOK', DropList, UNCHANGED <<tmp, pred, curr, missing>>,
         \A u \in Threads : pc[u] \in {"out", "release"} /\ pc'[u] = "out"
  PROVE  ListInv'
<1>1. \A a \in Entries : ~(mem[a] = "listed" /\ ~Marked(a))
  BY DEF ListInv, OwnersOK, Keeper, Active
<1>2. Reachable \in SUBSET Entries /\ \A a \in Reachable : mem[a] = "listed" /\ Marked(a)
  BY <1>1, FromHead DEF ListInv, ChainOK
<1>3. /\ dropped' = "clean" /\ head' = 0 /\ next' = next
      /\ mem' = [a \in Entries |->
                   IF a \in Reachable \union {b \in Entries : mem[b] = "retired"}
                     THEN "free" ELSE mem[a]]
  BY <1>2 DEF DropList
<1>4. \A a \in Entries : mem[a] = "listed" => a \in Reachable
  BY DEF ListInv, UnlinkedOK, Finalizing
<1>5. \A a \in Entries : mem'[a] \notin {"listed", "retired"}
  BY <1>3, <1>4
<1>6. Reachable' = {}
  <2>1. Reachable' = From(head', Raw')
    BY NextLinks
  <2> QED  BY <1>3, <2>1, FromNull
<1>7. OwnersOK'
  BY <1>5 DEF OwnersOK, OwnerOK, Owns, Active
<1>8. UnlinkedOK'
  BY <1>5 DEF UnlinkedOK, UnlinkerOK, Finalizing
<1>9. ASSUME NEW u \in Threads PROVE IteratorOK(u)'
  <2>1. missing'[u] = {} /\ tmp'[u] = 0 /\ u \notin Pinned'
    BY DEF ListInv, IteratorOK, MetOK, MissingOK, Met, Pinned
  <2> QED  BY <2>1, OutsideOK
<1> QED  BY <1>3, <1>6, <1>7, <1>8, <1>9 DEF ListInv, ChainOK, DropClean

LEMMA ReleaseStep == ASSUME ListInv, TypeOK', NEW t \in Threads, Release(t) PROVE ListInv'
<1>1. /\ pc[t] = "release" /\ pc' = [pc EXCEPT ![t] = "out"] /\ entry' = [entry EXCEPT ![t] = 0]
      /\ UNCHANGED <<tmp, pred, curr, missing>>
      /\ \/ (\A u \in Threads \ {t} : pc[u] = "out") /\ DropList
         \/ UNCHANGED <<head, next, mem, wait, dropped>>
  BY DEF Release, Goto, iter
<1>2. /\ pc \in [Threads -> PCs] /\ entry \in [Threads -> Null(Entries)]
  BY TypeFacts DEF ListInv
<1>3. /\ pc'[t] = "out"
      /\ \A u \in Threads \ {t} : pc'[u] = pc[u] /\ entry'[u] = entry[u]
  BY <1>1, <1>2
<1>4. CASE DropList /\ \A u \in Threads \ {t} : pc[u] = "out"
  BY <1>1, <1>3, <1>4, DropStep
<1>5. CASE UNCHANGED <<head, next, mem, wait, dropped>>
  <2>1. /\ Raw' = Raw /\ Reachable' = Reachable /\ \A a : Marked(a)' = Marked(a)
    BY <1>5, SameList
  <2>2. OwnersOK'
    <3>1. ASSUME NEW u \in Threads PROVE OwnerOK(u)'
      BY <1>3, <1>5 DEF ListInv, OwnersOK, OwnerOK, Owns, Active, Marked
    <3>2. \A u, v \in Threads : (Owns(u) /\ Owns(v) /\ entry[u] = entry[v] => u = v)'
      BY <1>3 DEF ListInv, OwnersOK, Owns
    <3>3. \A u \in Threads, a \in Entries : Keeper(u, a) => Keeper(u, a)'
      BY <1>1, <1>3 DEF Keeper, Active
    <3> QED  BY <1>5, <2>1, <3>1, <3>2, <3>3 DEF ListInv, OwnersOK
  <2>3. UnlinkedOK'
    <3>1. \A u \in Threads, a \in Entries : Finalizing(u, a)' <=> Finalizing(u, a)
      BY <1>1, <1>3 DEF Finalizing
    <3> QED  BY <1>5, <2>1, <3>1 DEF ListInv, UnlinkedOK, UnlinkerOK
  <2>4. SettledSame
    BY <1>5, <2>1 DEF SettledSame
  <2>5. ASSUME NEW u \in Threads PROVE IteratorOK(u)'
    <3>1. CASE u = t
      <4>1. missing'[t] = {} /\ tmp'[t] = 0
        BY <1>1 DEF ListInv, IteratorOK, MetOK, MissingOK, Met, Pinned
      <4> QED  BY <1>3, <3>1, <4>1, OutsideOK DEF Pinned
    <3>2. CASE u # t
      <4>1. \A b \in missing'[u] : ~Marked(b)'
        BY <1>1, <2>1 DEF ListInv, IteratorOK, MissingOK
      <4> QED  BY <1>1, <1>3, <1>5, <2>4, <3>2, <4>1, IteratorFrame
    <3> QED  BY <3>1, <3>2
  <2> QED  BY <1>5, <2>1, <2>2, <2>3, <2>5 DEF ListInv, ChainOK, DropClean
<1> QED  BY <1>1, <1>4, <1>5

LEMMA SameStep ==
  ASSUME ListInv, TypeOK',
         UNCHANGED <<head, next, mem, wait, pc, entry, tmp, pred, curr, missing, dropped>>
  PROVE  ListInv'
<1>1. /\ Raw' = Raw /\ Reachable' = Reachable /\ \A a : Marked(a)' = Marked(a)
  BY SameList
<1>2. OwnersOK' /\ UnlinkedOK' /\ ChainOK'
  BY <1>1 DEF ListInv, OwnersOK, OwnerOK, Owns, Keeper, UnlinkedOK, UnlinkerOK, Finalizing,
              ChainOK, Marked
<1>3. SettledSame
  BY <1>1 DEF SettledSame
<1>4. ASSUME NEW u \in Threads PROVE IteratorOK(u)'
  <2>1. \A b \in missing'[u] : ~Marked(b)'
    BY <1>1 DEF ListInv, IteratorOK, MissingOK
  <2> QED  BY <1>3, <2>1, IteratorFrame
<1> QED  BY <1>2, <1>4 DEF ListInv, DropClean

LEMMA CloseStep == ASSUME ListInv, TypeOK', Close PROVE ListInv'
<1>1. /\ UNCHANGED <<pc, entry, tmp, pred, curr, missing>>
      /\ \/ (\A u \in Threads : pc[u] = "out") /\ DropList
         \/ UNCHANGED <<head, next, mem, wait, dropped>>
  BY DEF Close, iter
<1>2. CASE DropList /\ \A u \in Threads : pc[u] = "out"
  BY <1>1, <1>2, DropStep
<1>3. CASE UNCHANGED <<head, next, mem, wait, dropped>>
  BY <1>1, <1>3, SameStep
<1> QED  BY <1>1, <1>2, <1>3

-------------------------------------------------------------------------------
(* The results. *)

LEMMA InitListInv == Init => ListInv
<1> SUFFICES ASSUME Init PROVE ListInv
  OBVIOUS
<1>1. TypeOK
  <2>1. 0 \in Words
    BY WordFacts DEF Null
  <2>2. \A f \in {entry, tmp, pred, curr} : f \in [Threads -> Entries \union {0}]
    BY DEF Init, HEAD
  <2>3. next \in [Entries -> Words] /\ inserted \in 0 .. MaxReg
    BY <2>1, BoundAssumption DEF Init
  <2> QED  BY <2>2, <2>3 DEF Init, TypeOK, PCs
<1>2. Reachable = {}
  <2>1. head = 0
    BY DEF Init
  <2> QED  BY <2>1, ReachableFrom, FromNull
<1>3. OwnersOK /\ UnlinkedOK /\ ChainOK
  BY <1>2 DEF Init, OwnersOK, OwnerOK, Owns, Active, UnlinkedOK, UnlinkerOK, Finalizing, ChainOK
<1>4. \A t \in Threads : IteratorOK(t)
  BY DEF Init, IteratorOK, MetOK, KeptOK, MissingOK, Pinned, Met
<1> QED  BY <1>1, <1>3, <1>4 DEF ListInv, DropClean, Init

LEMMA NextListInv == ListInv /\ [Next]_vars => ListInv'
<1> SUFFICES ASSUME ListInv, [Next]_vars PROVE ListInv'
  OBVIOUS
<1>1. TypeOK'
  BY TypesStep
<1>2. ASSUME NEW t \in Threads, Register(t) \/ InsertTry(t) \/ Delete(t) \/ Release(t)
      PROVE  ListInv'
  BY <1>1, <1>2, RegisterStep, InsertStep, DeleteStep, ReleaseStep
<1>3. ASSUME NEW t \in Threads, Iterating(t) PROVE ListInv'
  <2>1. CASE Unlink(t)
    <3>1. /\ pc[t] = "unlink" /\ (Unlinks(t) \/ Skips(t))
          /\ UNCHANGED <<mem, wait, entry, pred, missing, dropped>>
      BY <2>1, UnlinkCases DEF ListInv
    <3> QED  BY <1>1, <3>1, UnlinkStep, SkipStep
  <2>2. CASE ~Unlink(t)
    BY <1>1, <1>3, <2>2, IterateStep, YieldStep, MeetStep, FinalizeStep, RestartStep, LeaveStep
       DEF Iterating
  <2> QED  BY <2>1, <2>2
<1>4. ASSUME NEW a \in Entries, Destroy(a) PROVE ListInv'
  BY <1>1, <1>4, DestroyStep
<1>5. CASE Close
  BY <1>1, <1>5, CloseStep
<1>6. CASE UNCHANGED vars
  BY <1>1, <1>6, SameStep DEF vars, iter
<1> QED  BY <1>2, <1>3, <1>4, <1>5, <1>6 DEF Next

\* The inductive invariant holds in every reachable state.
THEOREM ListInvariant == Spec => []ListInv
BY InitListInv, NextListInv, PTL DEF Spec

\* Every variable has its type: only the words of entries carry marks.
THEOREM ListTypes == Spec => []TypeOK
<1>1. ListInv => TypeOK
  BY DEF ListInv
<1> QED  BY <1>1, ListInvariant, PTL

\* An iteration that comes to the end has returned every entry that was in the
\* list when it began and is not marked (List::iter), so that try_advance has seen
\* every participant that was pinned all the while.
THEOREM IterationsComplete == Spec => []IterationComplete
<1>1. ASSUME ListInv, NEW t \in Threads, pc[t] = "iter", curr[t] = 0 PROVE missing[t] = {}
  <2>1. Ahead(Raw, missing[t], 0)
    BY <1>1 DEF ListInv, IteratorOK, MissingOK
  <2>2. {} \in SUBSET Entries /\ 0 \in Null({}) /\ Stays(Raw, {})
    BY DEF Null, Stays
  <2>3. missing[t] \subseteq {}
    BY <2>1, <2>2 DEF Ahead
  <2> QED  BY <2>3
<1>2. ListInv => IterationComplete
  BY <1>1 DEF IterationComplete
<1> QED  BY <1>2, ListInvariant, PTL

\* Every entry is in the list, or unlinked by one thread that will finalize it, or
\* retired once, marked and out of reach.
THEOREM FinalizedOnce == Spec => []EachFinalizedOnce
<1>1. ASSUME ListInv, NEW a \in Entries
      PROVE  /\ mem[a] = "listed" =>
                  Cardinality(Finalizers(a)) = IF a \in Reachable THEN 0 ELSE 1
             /\ mem[a] # "listed" => a \notin Reachable /\ Finalizers(a) = {}
             /\ mem[a] = "retired" => Marked(a)
  <2>1. \A t \in Threads : t \in Finalizers(a) <=> Finalizing(t, a)
    BY DEF Finalizers, Finalizing
  <2>2. a \in Reachable => mem[a] = "listed" /\ Finalizers(a) = {}
    BY <1>1, <2>1 DEF ListInv, ChainOK, UnlinkedOK, UnlinkerOK, Finalizers
  <2>3. ASSUME mem[a] = "listed", a \notin Reachable PROVE Cardinality(Finalizers(a)) = 1
    <3>1. PICK t \in Threads : Finalizing(t, a)
      BY <1>1, <2>3 DEF ListInv, UnlinkedOK
    <3>2. Finalizers(a) = {t}
      BY <1>1, <2>1, <3>1 DEF ListInv, UnlinkedOK, UnlinkerOK, Finalizers
    <3> QED  BY <3>2, FS_Singleton
  <2>4. mem[a] # "listed" => Finalizers(a) = {}
    BY <1>1, <2>1 DEF ListInv, UnlinkedOK, UnlinkerOK, Finalizers
  <2>5. mem[a] = "retired" => Marked(a)
    BY <1>1 DEF ListInv, UnlinkedOK
  <2> QED  BY <2>2, <2>3, <2>4, <2>5, FS_EmptySet
<1>2. ListInv => EachFinalizedOnce
  BY <1>1 DEF EachFinalizedOnce
<1> QED  BY <1>2, ListInvariant, PTL

\* What an iterator points to is not destroyed under it.
THEOREM IteratorsSafe == Spec => []NoDangling
<1>1. ASSUME ListInv, NEW t \in Pinned, NEW a \in {pred[t], curr[t], tmp[t]} \ {0}
      PROVE  mem[a] # "free"
  <2>1. t \in Threads /\ IteratorOK(t)
    BY <1>1 DEF ListInv, Pinned
  <2>2. PICK K \in SUBSET Entries : Kept(t, K)
    BY <1>1, <2>1 DEF IteratorOK, KeptOK
  <2>3. tmp[t] \in Null(K)
    <3>1. CASE pc[t] \in Met
      <4>1. curr[t] \in K /\ tmp[t] = Raw[curr[t]]
        BY <2>1, <2>2, <3>1, NullAssumption DEF IteratorOK, MetOK, Kept, Null, Raw
      <4> QED  BY <2>2, <4>1 DEF Kept, Stays
    <3>2. CASE pc[t] \notin Met
      BY <1>1, <2>1, <3>2 DEF IteratorOK, MetOK, Met, Pinned, Null
    <3> QED  BY <3>1, <3>2
  <2>4. a \in K
    BY <2>2, <2>3 DEF Kept, Null
  <2> QED  BY <2>2, <2>4 DEF Kept
<1>2. ListInv => NoDangling
  BY <1>1 DEF NoDangling
<1> QED  BY <1>2, ListInvariant, PTL

\* "Verify that all elements have been removed from the list": the assertion in the
\* drop of the list holds, whoever lets go of the Global last.
THEOREM DropsClean == Spec => []DropClean
<1>1. ListInv => DropClean
  BY DEF ListInv
<1> QED  BY <1>1, ListInvariant, PTL
====
