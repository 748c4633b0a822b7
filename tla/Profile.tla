------------------------------ MODULE Profile ------------------------------
(***************************************************************************)
(* The traffic profile of the v6 shaped codec                              *)
(* (crates/snell-protocol/src/codec/v6/profile/mod.rs): how it is derived  *)
(* from the PSK, and what it says about the lengths of records and about   *)
(* the bytes exchanged between padding and payload.                        *)
(*                                                                         *)
(* The profile's PRF is any function: a raw output is any natural number,  *)
(* reduced by pick to the range the code gives it. Lengths are in bytes.   *)
(***************************************************************************)
EXTENDS Integers, FiniteSets

SALT_LEN == 16
TAG_LEN == 16
HEADER_CIPHER_LEN == 23
MAX_PACKET_SIZE == 16383
MAX_PACKET_SIZE_V6 == 65535
V6_MAX_PREFIX_LEN == 128
MAX_EXTRA_TARGET_PADDING == 730
MAX_SALT_BLOCK_LEN == 256
MTU_CAP == 1460
DIRECT_LIMIT == 1459
U16_LIMIT == 65534

\* u32::MAX as a target: further than any length, which is all that is asked.
NO_TARGET == 2147483647

Lesser(a, b) == IF a <= b THEN a ELSE b
Greater(a, b) == IF a >= b THEN a ELSE b

\* pick_usize and pick_u32.
Pick(raw, lo, hi) == IF hi <= lo THEN lo ELSE lo + (raw % (hi - lo + 1))

\* The bucket arrays.
Buckets(raw, lo, hi) == [i \in 0..7 |-> Pick(raw[i], lo, hi)]
-----------------------------------------------------------------------------
(* Profile::derive. The argument holds the PRF's outputs by label.         *)

RawProfile ==
  [prefix_min_handshake : Nat, prefix_max_handshake : Nat, record_prefix_handshake : Nat,
   pad_min : Nat, pad_max : Nat, pad_count : Nat, pad_interval : Nat, small_limit : Nat,
   prefix_min : Nat, prefix_max : Nat,
   mix_mode : Nat, mix_rounds : Nat, mix_stride : Nat, mix_offset_base : Nat, mix_block : Nat,
   chunk_policy : Nat, chunk_initial : Nat, chunk_first_cap : Nat, chunk_max : Nat,
   chunk_step : Nat, chunk_jitter : Nat, chunk_bucket : [0..7 -> Nat], idle_reset : Nat,
   write_policy : Nat, write_first : Nat, write_jitter : Nat, write_percent : Nat,
   write_bucket : [0..7 -> Nat], write_seq : [0..7 -> Nat]]

SaltBlockLen(r) ==
  LET least == Pick(r.prefix_min_handshake, 16, 96)
      most == Lesser(least + Pick(r.prefix_max_handshake, 16, 160), V6_MAX_PREFIX_LEN)
  IN  SALT_LEN + Pick(r.record_prefix_handshake, least, most)

Clamp(x, lo, hi) == IF x < lo THEN lo ELSE IF x > hi THEN hi ELSE x

\* Mutant: the cap on the padding is left out.
PadMaxUncapped(r, pad_min) == pad_min + Pick(r.pad_max, 160, 960)

PadMax(r, pad_min) == Lesser(pad_min + Pick(r.pad_max, 160, 960), MAX_EXTRA_TARGET_PADDING)

Derive(r) ==
  LET pad_min == Pick(r.pad_min, 24, 160)
      prefix_min == Pick(r.prefix_min, 8, 80)
      chunk_initial == Pick(r.chunk_initial, 512, MTU_CAP)
      chunk_max == Pick(r.chunk_max, 8192, MAX_PACKET_SIZE)
  IN  [salt_block_len   |-> SaltBlockLen(r),
       pad_min          |-> pad_min,
       pad_max          |-> PadMax(r, pad_min),
       pad_count        |-> Pick(r.pad_count, 2, 8),
       pad_interval     |-> Pick(r.pad_interval, 2, 11),
       small_limit      |-> Pick(r.small_limit, 96, 768),
       prefix_min       |-> prefix_min,
       prefix_max       |-> Lesser(prefix_min + Pick(r.prefix_max, 16, 160), V6_MAX_PREFIX_LEN),
       mix_mode         |-> r.mix_mode % 3,
       mix_rounds       |-> Pick(r.mix_rounds, 1, 3),
       mix_stride       |-> Pick(r.mix_stride, 2, 13),
       mix_offset_base  |-> Pick(r.mix_offset_base, 0, 15),
       mix_block        |-> Pick(r.mix_block, 8, 64),
       chunk_policy     |-> r.chunk_policy % 3,
       chunk_initial    |-> chunk_initial,
       first_record_cap |-> Clamp(Pick(r.chunk_first_cap, 256, 768), 256, Lesser(chunk_initial, 768)),
       chunk_max        |-> chunk_max,
       chunk_step       |-> Lesser(Pick(r.chunk_step, 1024, 4096), 2920),
       chunk_jitter     |-> Lesser(Pick(r.chunk_jitter, 16, 192), 182),
       idle_reset_secs  |-> Pick(r.idle_reset, 12, 90),
       chunk_buckets    |-> Buckets(r.chunk_bucket, 4096, chunk_max),
       write_policy     |-> r.write_policy % 3,
       write_first      |-> Pick(r.write_first, 4, 8),
       write_buckets    |-> Buckets(r.write_bucket, 320, MTU_CAP),
       write_seq        |-> Buckets(r.write_seq, 360, MTU_CAP),
       write_jitter     |-> Pick(r.write_jitter, 8, 96),
       write_jitter_percent |-> Pick(r.write_percent, 8, 48)]
-----------------------------------------------------------------------------
(* Payload budgets.                                                        *)

\* The value a draw in -bound..bound moves x to, at least least.
Jittered(x, raw, bound, least) == Greater(x + (raw % (2 * bound + 1)) - bound, least)

ChunkLimit(p, size, raw) ==
  LET cur == IF size = 0 THEN p.chunk_initial ELSE size
      moved == CASE p.chunk_policy = 1 -> p.chunk_buckets[raw % 8]
                 [] p.chunk_policy = 2 -> Jittered(cur, raw, p.chunk_jitter, 64)
                 [] OTHER -> cur
  IN  Clamp(moved, 64, p.chunk_max)

AdvanceChunkSize(p, size) ==
  IF size = 0 THEN p.chunk_initial ELSE Lesser(size + p.chunk_step, p.chunk_max)
-----------------------------------------------------------------------------
(* The padding of a record (final_padding_len, write_target_len).          *)

BasePad(p, seq, payload, raw) ==
  IF \/ seq < p.pad_count
     \/ payload # 0 /\ payload <= p.small_limit
     \/ p.pad_interval # 0 /\ seq % p.pad_interval = 0
  THEN Pick(raw, p.pad_min, p.pad_max)
  ELSE 0

BodyLenOf(payload) == IF payload > 0 THEN payload + TAG_LEN ELSE 0

CurrentLen(p, prefix, pad, payload, first) ==
  prefix + HEADER_CIPHER_LEN + pad + BodyLenOf(payload) + (IF first THEN p.salt_block_len ELSE 0)

\* The target before the loop that raises it to the length, by draws for the
\* bucket, for the jitter, and for its sign.
FirstTarget(p, seq, current, draw) ==
  LET picked == IF seq < p.write_first THEN p.write_seq[seq] ELSE p.write_buckets[draw.bucket % 8]
      moved == IF p.write_policy = 2 THEN Jittered(picked, draw.jitter, p.write_jitter, 1) ELSE picked
      bound == Lesser(MAX_EXTRA_TARGET_PADDING, (p.write_jitter_percent * current) \div 100)
  IN  CASE current > U16_LIMIT -> NO_TARGET
        [] current > DIRECT_LIMIT /\ current <= U16_LIMIT -> current
        [] current <= DIRECT_LIMIT /\ draw.sign % 2 = 0 -> moved + bound
        [] OTHER -> IF moved > bound \div 2 THEN moved - bound \div 2 ELSE moved

\* Mutant: a bucket that is not larger is taken all the same.
RaisedAny(p, target, raw) == p.write_buckets[raw % 8]

\* One step of the loop: to a larger bucket, or up by pad_max.
Raised(p, target, raw) ==
  LET candidate == p.write_buckets[raw % 8]
  IN  IF target < candidate THEN candidate ELSE target + p.pad_max

\* What is added to reach the target, at most MAX_EXTRA_TARGET_PADDING.
ExtraPad(current, target) ==
  IF current < target THEN Lesser(MAX_EXTRA_TARGET_PADDING, target - current) ELSE 0

MaxPaddingLen(p) == p.pad_max + MAX_EXTRA_TARGET_PADDING
-----------------------------------------------------------------------------
(* mix_padding_payload: the bytes at these indices change sides, once a    *)
(* round, between the padding and the sealed payload, of which n overlap.  *)

\* swap_strided.
Strided(i, offset, stride) == i >= offset /\ (i - offset) % stride = 0

\* Whole blocks only, every other one, after skip of them.
InBlock(i, n, block, skip) == i \div block < n \div block /\ (i \div block) % 2 = skip

MixedInRound(p, n, round, raw, i) ==
  LET stride == p.mix_stride + (round % 3)
  IN  CASE p.mix_mode = 1 -> InBlock(i, n, p.mix_block, round % 2)
        [] p.mix_mode = 2 -> Strided(i, (raw + p.mix_offset_base) % stride, stride)
        [] OTHER -> Strided(i, p.mix_offset_base % stride, stride)

\* The first most bytes of the overlap that changed sides in an odd number of
\* rounds, by the draws of the rounds.
Mixed(p, n, raw, most) ==
  {i \in 0..(Lesser(n, most) - 1) :
     Cardinality({r \in 0..(p.mix_rounds - 1) : MixedInRound(p, n, r, raw[r], i)}) % 2 = 1}

\* swap_even_indices of v4: words of eight bytes under a mask, then the tail.
SwappedEven(n, most) ==
  {i \in 0..(Lesser(n, most) - 1) :
     IF i < 8 * (n \div 8) THEN i % 8 \in {0, 2, 4, 6} ELSE (i - 8 * (n \div 8)) % 2 = 0}
=============================================================================
