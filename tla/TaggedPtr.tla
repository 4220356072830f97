------------------------------- MODULE TaggedPtr -------------------------------
(***************************************************************************)
(* The words of ebr_impl/atomic.rs: an aligned address with a tag in its   *)
(* low bits, and what the atomic operations do to such a word.             *)
(***************************************************************************)
EXTENDS Naturals

CONSTANTS ALIGN,     \* Pointable::ALIGN, a power of two
          WORD,      \* 2 to the width of usize
          bit_and(_, _), bit_or(_, _)   \* & and | on words

low_bits == ALIGN - 1
Bang(x)  == WORD - 1 - x                     \* !x

compose_tag(data, tag) == bit_or(bit_and(data, Bang(low_bits)), bit_and(tag, low_bits))
decompose_tag(data)    == <<bit_and(data, Bang(low_bits)), bit_and(data, low_bits)>>

as_raw(p)         == decompose_tag(p)[1]
tag(p)            == decompose_tag(p)[2]
with_tag(p, t)    == compose_tag(p, t)
is_null(p)        == as_raw(p) = 0

\* compare_exchange compares and replaces the whole word, tag included.  The
\* outcome is the word left behind and what the caller is told.
compare_exchange(data, current, new) ==
  IF data = current THEN [data |-> new, ok |-> TRUE, current |-> data]
                    ELSE [data |-> data, ok |-> FALSE, current |-> data]
\* The weak form may also fail on a word that is equal.
compare_exchange_weak(data, current, new) ==
  {compare_exchange(data, current, new), [data |-> data, ok |-> FALSE, current |-> data]}

fetch_or(data, val)  == bit_or(data, bit_and(val, low_bits))
==============================================================================
