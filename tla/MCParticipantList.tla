--------------------------- MODULE MCParticipantList ---------------------------
(***************************************************************************)
(* The participant list for TLC, and a check of the word operations        *)
(* against what they mean for an address and a tag.                        *)
(***************************************************************************)
EXTENDS ParticipantList, Bitwise, TLC

AndWords(a, b) == a & b
OrWords(a, b)  == a | b

Addresses == {w \in 0 .. WORD - 1 : w % ALIGN = 0}
ASSUME WordsAreTaggedAddresses ==
  \A a \in Addresses : \A t, u \in 0 .. ALIGN - 1 :
    LET w == compose_tag(a, t) IN
    /\ w = a + t /\ decompose_tag(w) = <<a, t>> /\ (is_null(w) <=> a = 0)
    /\ with_tag(w, u) = a + u
    /\ as_raw(fetch_or(w, u)) = a /\ (tag(fetch_or(w, u)) = t <=> t | u = t)
    /\ compose_tag(a, t + ALIGN) = w

Symmetry == Permutations(Threads)
==============================================================================
