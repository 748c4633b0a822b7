----------------------------- MODULE V4Padding -----------------------------
(***************************************************************************)
(* The padding in front of the first v4 record                             *)
(* (crates/snell-protocol/src/codec/v4/padding.rs): fill_v4_padding picks  *)
(* how many one bits the padding gets so that the whole body reaches a     *)
(* target ratio, fill_padding_bits places that many at random positions,   *)
(* and BitRng draws the positions from a block of random words.            *)
(*                                                                         *)
(* The padding is the set of its one bits. Ratios are fractions of 1000.   *)
(***************************************************************************)
EXTENDS Integers, FiniteSets

CONSTANTS Bodies,   \* [padding, cipher, ones]: lengths in bytes, and the one bits counted
          Jitters,  \* jitters drawn, in thousandths: at most 0.1
          Words     \* BIT_RNG_WORDS

\* count_ones looks at whole groups of four bytes.
CountedBits(cipher) == 8 * 4 * (cipher \div 4)

ASSUME PaddingAssumption ==
  /\ Bodies \subseteq [padding : Nat, cipher : Nat, ones : Nat]
  /\ \A b \in Bodies : b.ones <= CountedBits(b.cipher)
  /\ Jitters \subseteq 0..100
  /\ Words \in Nat \ {0}

VARIABLES body,     \* the body being padded
          filling,  \* "start", "ones", "zeros", "done" or "failed"
          uniform,  \* the padding was left to the entropy source
          target,   \* target_ones
          set,      \* the one bits of the padding
          j,        \* loop variable of fill_padding_bits
          word      \* BitRng.next

paddingVars == <<body, filling, uniform, target, set, j, word>>

PaddingInit ==
  /\ body \in Bodies
  /\ filling = "start" /\ uniform = FALSE
  /\ target = 0 /\ set = {} /\ j = 0 /\ word = Words
-----------------------------------------------------------------------------
Bits == 8 * body.padding
Zeros == 8 * body.cipher - body.ones
AllBits == 0..(Bits - 1)

\* The ratio of ones to zeros is in 0.5..=1.6.
RatioInRange == 1000 * body.ones >= 500 * Zeros /\ 1000 * body.ones <= 1600 * Zeros

TargetRatio(jitter) == (IF Zeros < body.ones THEN 400 ELSE 1600) + jitter

\* total_bits * ratio / (ratio + 1) - ones, as a fraction of Scale(ratio).
Scale(ratio) == ratio + 1000
TargetScaled(ratio) ==
  8 * (body.padding + body.cipher) * ratio - body.ones * Scale(ratio)

\* Random bytes fill the whole padding: the set is any set, and not tracked.
FillUniform ==
  /\ filling' = "done" /\ uniform' = TRUE
  /\ UNCHANGED <<body, target, set, j, word>>

EntropyFails ==
  /\ filling' = "failed"
  /\ UNCHANGED <<body, uniform, target, set, j, word>>

\* fill_padding_bits up to its loop: the rarer value is placed on the other.
StartOnes(ones) ==
  /\ filling' = "ones" /\ target' = ones
  /\ set' = {} /\ j' = Bits - ones
StartZeros(ones) ==
  /\ filling' = "zeros" /\ target' = ones
  /\ set' = AllBits /\ j' = ones

FillPaddingBits(ones) ==
  /\ IF ones <= Bits - ones THEN StartOnes(ones) ELSE StartZeros(ones)
  /\ word' = Words
  /\ UNCHANGED <<body, uniform>>

\* fill_v4_padding, up to fill_padding_bits. Drawing the jitter may fail too.
FillV4Padding ==
  /\ filling = "start"
  /\ IF body.padding = 0 THEN filling' = "done" /\ UNCHANGED <<body, uniform, target, set, j, word>>
     ELSE \/ EntropyFails
          \/ Zeros = 0 /\ FillUniform
          \/ Zeros # 0 /\ ~RatioInRange /\ FillUniform
          \/ /\ Zeros # 0 /\ RatioInRange
             /\ \E jitter \in Jitters :
                  LET ratio == TargetRatio(jitter)
                      scaled == TargetScaled(ratio)
                  IN  IF scaled < 0 \/ scaled > Bits * Scale(ratio)
                      THEN FillUniform
                      ELSE FillPaddingBits(scaled \div Scale(ratio))
-----------------------------------------------------------------------------
(* BitRng::pick and the loops of fill_padding_bits.                        *)

Looping == filling \in {"ones", "zeros"} /\ j < Bits

\* The words are used up: draw a new block, or fail.
Refill ==
  /\ Looping /\ word = Words
  /\ \/ word' = 0 /\ UNCHANGED <<body, filling, uniform, target, set, j>>
     \/ EntropyFails

\* A word beyond the last multiple of the span is passed over.
Reject ==
  /\ Looping /\ word < Words
  /\ word' = word + 1
  /\ UNCHANGED <<body, filling, uniform, target, set, j>>

\* Mutant: a position already taken is drawn as if it were free.
PlaceAgain(candidate) ==
  /\ Looping /\ word < Words
  /\ set' = IF filling = "ones" THEN set \cup {candidate} ELSE set \ {candidate}
  /\ j' = j + 1 /\ word' = word + 1
  /\ UNCHANGED <<body, filling, uniform, target>>

\* One step of the loop: the candidate, or j when the candidate is taken.
Place(candidate) ==
  /\ Looping /\ word < Words
  /\ set' = IF filling = "ones"
            THEN set \cup {IF candidate \in set THEN j ELSE candidate}
            ELSE set \ {IF candidate \notin set THEN j ELSE candidate}
  /\ j' = j + 1 /\ word' = word + 1
  /\ UNCHANGED <<body, filling, uniform, target>>

PlaceOne == \E candidate \in 0..j : Place(candidate)

\* The loop is over.
Finish ==
  /\ filling \in {"ones", "zeros"} /\ j = Bits
  /\ filling' = "done"
  /\ UNCHANGED <<body, uniform, target, set, j, word>>

PaddingNext == FillV4Padding \/ Refill \/ Reject \/ PlaceOne \/ Finish

PaddingSpec == PaddingInit /\ [][PaddingNext]_paddingVars
-----------------------------------------------------------------------------
\* The padding that fill_padding_bits leaves has exactly the target number of
\* one bits, whatever positions the random source repeats: a repeated position
\* is replaced by one that cannot have been taken before.
OnesExact == filling = "done" /\ ~uniform => Cardinality(set) = target

\* Every draw of the loop adds one position: the invariant behind OnesExact.
DrawsDistinct ==
  /\ filling = "ones" =>
       set \subseteq 0..(j - 1) /\ Cardinality(set) = j - (Bits - target)
  /\ filling = "zeros" =>
       AllBits \ set \subseteq 0..(j - 1) /\ Cardinality(AllBits \ set) = j - target
=============================================================================
