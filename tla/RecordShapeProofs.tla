------------------------- MODULE RecordShapeProofs -------------------------
(***************************************************************************)
(* The lengths of records and the bytes exchanged in them, the salt block, *)
(* and the padding of the first v4 record, for every profile, every draw   *)
(* and every sequence of records.                                          *)
(***************************************************************************)
EXTENDS RecordShape, V4Padding, SaltBlock, TLAPS

-----------------------------------------------------------------------------
(* The lengths of records.                                                 *)

\* What the lengths need to know of a profile.
IsProfile(p) ==
  /\ p.salt_block_len \in Nat /\ p.salt_block_len <= MAX_SALT_BLOCK_LEN
  /\ p.pad_min \in Nat /\ p.pad_max \in Nat /\ p.pad_min <= p.pad_max /\ p.pad_max <= MAX_EXTRA_TARGET_PADDING
  /\ p.prefix_min \in Nat /\ p.prefix_max \in Nat /\ p.prefix_min <= p.prefix_max /\ p.prefix_max <= V6_MAX_PREFIX_LEN
  /\ p.chunk_initial \in Nat /\ p.first_record_cap \in Nat /\ p.first_record_cap >= 64
  /\ p.chunk_max \in Nat /\ p.chunk_max >= 64 /\ p.chunk_step \in Nat /\ p.chunk_jitter \in Nat
  /\ p.chunk_buckets \in [0..7 -> Nat] /\ p.write_buckets \in [0..7 -> Nat] /\ p.write_seq \in [0..7 -> Nat]
  /\ p.write_first \in 0..8 /\ p.write_jitter \in Nat /\ p.write_jitter_percent \in Nat

\* A length that stays within the packets of v4.
Chunk(n) == n \in Nat /\ 64 <= n /\ n <= MAX_PACKET_SIZE

RecordFields == DOMAIN NewRecord("stream", 0)

\* A record under way, with the payload it has room for.
IsRecord(r) ==
  /\ r = [f \in RecordFields |-> r[f]]
  /\ r.kind \in {"stream", "datagram"}
  /\ r.hint \in Nat /\ r.max \in Nat /\ r.room \in Nat /\ r.salt \in Nat /\ r.prefix \in Nat
  /\ r.pad \in Nat /\ r.payload \in Nat /\ r.current \in Nat /\ r.target \in Int
  /\ r.payload <= r.max
  /\ r.max >= IF r.kind = "stream" THEN Lesser(r.hint, 64) ELSE r.hint

\* The room of a record is enough for the padding it may still get.
HasRoom(r) ==
  IF V4 THEN /\ Chunk(r.budget)
             /\ r.pad <= MAX_PACKET_SIZE /\ r.max <= MAX_PACKET_SIZE /\ r.prefix = 0
             /\ r.salt + HEADER_CIPHER_LEN + r.pad + r.max + TAG_LEN <= r.room
             /\ r.room <= V4_WIRE_CAP
  ELSE /\ r.draw \in Draws
       /\ r.pad <= MaxPaddingLen(profile) /\ r.max <= MAX_PACKET_SIZE_V6
       /\ r.salt + r.prefix + HEADER_CIPHER_LEN + MaxPaddingLen(profile) + r.max + TAG_LEN <= r.room
       /\ r.room <= V6_WIRE_CAP

\* A record of v4 is padded when it is reserved, and keeps no padding when it
\* turns out to be empty; the target of a shaped one is chosen on the padding
\* that its profile gives it.
LInv ==
  /\ V4 => initial \in InitialPaddings
  /\ ~V4 => IsProfile(profile)
  /\ size \in Nat /\ seq \in Nat
  /\ V4 /\ sent => Chunk(size)
  /\ phase \in {"reserved", "target", "sealed"} => IsRecord(rec) /\ HasRoom(rec)
  /\ phase = "target" => ~V4 /\ rec.pad <= profile.pad_max
  /\ phase = "sealed" /\ V4 /\ rec.payload = 0 => rec.pad = 0

LEMMA PickRange ==
  ASSUME NEW raw \in Nat, NEW lo \in Nat, NEW hi \in Nat, lo <= hi
  PROVE  Pick(raw, lo, hi) \in lo..hi
<1>1. CASE hi <= lo
  BY <1>1 DEF Pick
<1>2. CASE ~(hi <= lo)
  <2>1. hi - lo + 1 \in Nat \ {0}
    BY <1>2
  <2>2. raw % (hi - lo + 1) \in 0..(hi - lo)
    BY <2>1
  <2>. QED  BY <1>2, <2>2 DEF Pick
<1>. QED  BY <1>1, <1>2

LEMMA BucketsRange ==
  ASSUME NEW raw \in [0..7 -> Nat], NEW lo \in Nat, NEW hi \in Nat, lo <= hi
  PROVE  Buckets(raw, lo, hi) \in [0..7 -> Nat]
<1>1. \A i \in 0..7 : Pick(raw[i], lo, hi) \in Nat
  <2>. TAKE i \in 0..7
  <2>1. raw[i] \in Nat
    OBVIOUS
  <2>2. Pick(raw[i], lo, hi) \in lo..hi
    BY <2>1, PickRange, Zenon
  <2>. QED  BY <2>2
<1>. QED  BY <1>1 DEF Buckets

\* Profile::derive keeps every length in the range the codec relies on.
LEMMA DerivedProfile ==
  ASSUME NEW r \in RawProfile
  PROVE  IsProfile(Derive(r))
<1>. SUFFICES ASSUME NEW p, p = Derive(r) PROVE IsProfile(p)
  OBVIOUS
<1>0. /\ r.prefix_min_handshake \in Nat /\ r.prefix_max_handshake \in Nat /\ r.record_prefix_handshake \in Nat
      /\ r.pad_min \in Nat /\ r.pad_max \in Nat /\ r.prefix_min \in Nat /\ r.prefix_max \in Nat
      /\ r.chunk_initial \in Nat /\ r.chunk_first_cap \in Nat /\ r.chunk_max \in Nat
      /\ r.chunk_step \in Nat /\ r.chunk_jitter \in Nat
      /\ r.write_first \in Nat /\ r.write_jitter \in Nat /\ r.write_percent \in Nat
  BY DEF RawProfile
<1>1. p.salt_block_len \in Nat /\ p.salt_block_len <= MAX_SALT_BLOCK_LEN
  <2>. DEFINE least == Pick(r.prefix_min_handshake, 16, 96)
              most == Lesser(least + Pick(r.prefix_max_handshake, 16, 160), V6_MAX_PREFIX_LEN)
              x == Pick(r.record_prefix_handshake, least, most)
  <2>1. p.salt_block_len = SALT_LEN + x
    BY SMTT(60) DEF Derive, SaltBlockLen
  <2>2. least \in Nat /\ Pick(r.prefix_max_handshake, 16, 160) \in Nat /\ least <= 96
    BY <1>0 DEF Pick
  <2>3. most \in Nat /\ least <= most /\ most <= 128
    BY <2>2 DEF Lesser, V6_MAX_PREFIX_LEN
  <2>. HIDE DEF least, most
  <2>4. x \in Nat /\ x <= most
    <3>. DEFINE raw == r.record_prefix_handshake
    <3>1. raw \in Nat
      BY <1>0
    <3>. HIDE DEF raw
    <3>2. Pick(raw, least, most) \in least..most
      BY <2>2, <2>3, <3>1, PickRange, Zenon
    <3>. QED  BY <2>2, <2>3, <3>2 DEF raw
  <2>. HIDE DEF x
  <2>. QED  BY <2>1, <2>3, <2>4 DEF SALT_LEN, MAX_SALT_BLOCK_LEN
<1>2. p.pad_min \in Nat /\ p.pad_max \in Nat /\ p.pad_min <= p.pad_max /\ p.pad_max <= MAX_EXTRA_TARGET_PADDING
  <2>. DEFINE a == Pick(r.pad_min, 24, 160)
              b == Pick(r.pad_max, 160, 960)
  <2>1. p.pad_min = a /\ p.pad_max = Lesser(a + b, MAX_EXTRA_TARGET_PADDING)
    BY SMTT(60) DEF Derive, PadMax
  <2>2. a \in Nat /\ b \in Nat /\ a <= 160
    BY <1>0 DEF Pick
  <2>. HIDE DEF a, b
  <2>. QED  BY <2>1, <2>2 DEF Lesser, MAX_EXTRA_TARGET_PADDING
<1>3. /\ p.prefix_min \in Nat /\ p.prefix_max \in Nat /\ p.prefix_min <= p.prefix_max
      /\ p.prefix_max <= V6_MAX_PREFIX_LEN
  <2>. DEFINE a == Pick(r.prefix_min, 8, 80)
              b == Pick(r.prefix_max, 16, 160)
  <2>1. p.prefix_min = a /\ p.prefix_max = Lesser(a + b, V6_MAX_PREFIX_LEN)
    BY SMTT(60) DEF Derive
  <2>2. a \in Nat /\ b \in Nat /\ a <= 80
    BY <1>0 DEF Pick
  <2>. HIDE DEF a, b
  <2>. QED  BY <2>1, <2>2 DEF Lesser, V6_MAX_PREFIX_LEN
<1>4. /\ p.chunk_initial \in Nat /\ p.first_record_cap \in Nat /\ p.first_record_cap >= 64
      /\ p.chunk_max \in Nat /\ p.chunk_max >= 4096
  <2>. DEFINE a == Pick(r.chunk_initial, 512, MTU_CAP)
              b == Pick(r.chunk_first_cap, 256, 768)
              d == Pick(r.chunk_max, 8192, MAX_PACKET_SIZE)
  <2>1. p.chunk_initial = a /\ p.chunk_max = d /\ p.first_record_cap = Clamp(b, 256, Lesser(a, 768))
    BY SMTT(60) DEF Derive
  <2>2. a \in Nat /\ a >= 512
    BY <1>0 DEF Pick, MTU_CAP
  <2>3. b \in Nat
    BY <1>0 DEF Pick
  <2>4. d \in Nat /\ d >= 8192
    BY <1>0 DEF Pick, MAX_PACKET_SIZE
  <2>. HIDE DEF a, b, d
  <2>. QED  BY <2>1, <2>2, <2>3, <2>4 DEF Lesser, Clamp
<1>5. p.chunk_step \in Nat /\ p.chunk_jitter \in Nat
  <2>. DEFINE a == Pick(r.chunk_step, 1024, 4096)
              b == Pick(r.chunk_jitter, 16, 192)
  <2>1. p.chunk_step = Lesser(a, 2920) /\ p.chunk_jitter = Lesser(b, 182)
    BY SMTT(60) DEF Derive
  <2>2. a \in Nat /\ b \in Nat
    BY <1>0 DEF Pick
  <2>. HIDE DEF a, b
  <2>. QED  BY <2>1, <2>2 DEF Lesser
<1>6. /\ p.chunk_buckets \in [0..7 -> Nat] /\ p.write_buckets \in [0..7 -> Nat] /\ p.write_seq \in [0..7 -> Nat]
  <2>1. /\ p.chunk_buckets = Buckets(r.chunk_bucket, 4096, p.chunk_max)
        /\ p.write_buckets = Buckets(r.write_bucket, 320, MTU_CAP)
        /\ p.write_seq = Buckets(r.write_seq, 360, MTU_CAP)
    <3>1. p.chunk_buckets = Buckets(r.chunk_bucket, 4096, p.chunk_max)
      BY SMTT(60) DEF Derive
    <3>2. p.write_buckets = Buckets(r.write_bucket, 320, MTU_CAP)
      BY SMTT(60) DEF Derive
    <3>3. p.write_seq = Buckets(r.write_seq, 360, MTU_CAP)
      BY SMTT(60) DEF Derive
    <3>. QED  BY <3>1, <3>2, <3>3
  <2>2. /\ r.chunk_bucket \in [0..7 -> Nat] /\ r.write_bucket \in [0..7 -> Nat] /\ r.write_seq \in [0..7 -> Nat]
    BY DEF RawProfile
  <2>3. MTU_CAP \in Nat
    BY DEF MTU_CAP
  <2>. DEFINE a == 4096
              b == 320
              d == 360
  <2>4. a \in Nat /\ b \in Nat /\ d \in Nat /\ b <= MTU_CAP /\ d <= MTU_CAP
    BY DEF MTU_CAP
  <2>5. p.chunk_max \in Nat /\ a <= p.chunk_max
    BY <1>4
  <2>. HIDE DEF a, b, d
  <2>6. /\ Buckets(r.chunk_bucket, a, p.chunk_max) \in [0..7 -> Nat]
        /\ Buckets(r.write_bucket, b, MTU_CAP) \in [0..7 -> Nat]
        /\ Buckets(r.write_seq, d, MTU_CAP) \in [0..7 -> Nat]
    BY <2>2, <2>3, <2>4, <2>5, BucketsRange, Zenon
  <2>. QED  BY <2>1, <2>6 DEF a, b, d
<1>7. p.write_first \in 0..8 /\ p.write_jitter \in Nat /\ p.write_jitter_percent \in Nat
  <2>1. /\ p.write_first = Pick(r.write_first, 4, 8) /\ p.write_jitter = Pick(r.write_jitter, 8, 96)
        /\ p.write_jitter_percent = Pick(r.write_percent, 8, 48)
    BY SMTT(60) DEF Derive
  <2>2. /\ Pick(r.write_first, 4, 8) \in 0..8 /\ Pick(r.write_jitter, 8, 96) \in Nat
        /\ Pick(r.write_percent, 8, 48) \in Nat
    BY <1>0 DEF Pick
  <2>. QED  BY <2>1, <2>2, Zenon
<1>8. p.chunk_max >= 64
  BY <1>4
<1>9. IsProfile(p)
  BY <1>1, <1>2, <1>3, <1>4, <1>5, <1>6, <1>7, <1>8 DEF IsProfile
<1>. QED  BY <1>9

LEMMA ChunkLimitRange ==
  ASSUME NEW p, IsProfile(p), NEW s \in Nat, NEW raw \in Nat
  PROVE  ChunkLimit(p, s, raw) \in Nat /\ ChunkLimit(p, s, raw) >= 64
<1>. DEFINE cur == IF s = 0 THEN p.chunk_initial ELSE s
            moved == CASE p.chunk_policy = 1 -> p.chunk_buckets[raw % 8]
                       [] p.chunk_policy = 2 -> Jittered(cur, raw, p.chunk_jitter, 64)
                       [] OTHER -> cur
<1>1. /\ p.chunk_initial \in Nat /\ p.chunk_jitter \in Nat /\ p.chunk_buckets \in [0..7 -> Nat]
      /\ p.chunk_max \in Nat /\ p.chunk_max >= 64
  BY DEF IsProfile
<1>2. cur \in Nat
  BY <1>1
<1>. HIDE DEF cur
<1>3. Jittered(cur, raw, p.chunk_jitter, 64) \in Int
  <2>1. 2 * p.chunk_jitter + 1 \in Nat \ {0}
    BY <1>1
  <2>2. raw % (2 * p.chunk_jitter + 1) \in Int
    BY <2>1
  <2>. QED  BY <1>1, <1>2, <2>2 DEF Jittered, Greater
<1>4. p.chunk_buckets[raw % 8] \in Nat
  <2>1. raw % 8 \in 0..7
    OBVIOUS
  <2>. QED  BY <1>1, <2>1
<1>5. moved \in Int
  BY <1>2, <1>3, <1>4
<1>6. ChunkLimit(p, s, raw) = Clamp(moved, 64, p.chunk_max)
  BY DEF ChunkLimit, cur
<1>. HIDE DEF moved
<1>. QED  BY <1>1, <1>5, <1>6 DEF Clamp

LEMMA AdvanceNat ==
  ASSUME NEW p, IsProfile(p), NEW s \in Nat
  PROVE  AdvanceChunkSize(p, s) \in Nat
<1>1. p.chunk_initial \in Nat /\ p.chunk_step \in Nat /\ p.chunk_max \in Nat
  BY DEF IsProfile
<1>. QED  BY <1>1 DEF AdvanceChunkSize, Lesser

LEMMA BasePadRange ==
  ASSUME NEW p, IsProfile(p), NEW n, NEW payload, NEW raw \in Nat
  PROVE  BasePad(p, n, payload, raw) \in Nat /\ BasePad(p, n, payload, raw) <= p.pad_max
<1>. DEFINE lo == p.pad_min
            hi == p.pad_max
<1>1. lo \in Nat /\ hi \in Nat /\ lo <= hi
  BY DEF IsProfile
<1>. HIDE DEF lo, hi
<1>2. Pick(raw, lo, hi) \in lo..hi
  BY <1>1, PickRange
<1>3. BasePad(p, n, payload, raw) \in {Pick(raw, lo, hi), 0}
  BY DEF BasePad, lo, hi
<1>4. BasePad(p, n, payload, raw) \in Nat /\ BasePad(p, n, payload, raw) <= hi
  BY <1>1, <1>2, <1>3
<1>. QED  BY <1>4 DEF hi

LEMMA TargetInt ==
  ASSUME NEW p, IsProfile(p), NEW n \in Nat, NEW current \in Nat, NEW draw \in RecordDraw
  PROVE  FirstTarget(p, n, current, draw) \in Int
<1>. DEFINE picked == IF n < p.write_first THEN p.write_seq[n] ELSE p.write_buckets[draw.bucket % 8]
            moved == IF p.write_policy = 2 THEN Jittered(picked, draw.jitter, p.write_jitter, 1) ELSE picked
            part == (p.write_jitter_percent * current) \div 100
            bound == Lesser(MAX_EXTRA_TARGET_PADDING, part)
<1>1. /\ p.write_first \in 0..8 /\ p.write_seq \in [0..7 -> Nat] /\ p.write_buckets \in [0..7 -> Nat]
      /\ p.write_jitter \in Nat /\ p.write_jitter_percent \in Nat
  BY DEF IsProfile
<1>2. draw.bucket \in Nat /\ draw.jitter \in Nat
  BY DEF RecordDraw
<1>3. picked \in Nat
  <2>1. n < p.write_first => n \in 0..7
    BY <1>1
  <2>2. draw.bucket % 8 \in 0..7
    BY <1>2
  <2>. QED  BY <1>1, <2>1, <2>2
<1>. HIDE DEF picked
<1>4. moved \in Int
  <2>1. 2 * p.write_jitter + 1 \in Nat \ {0}
    BY <1>1
  <2>2. draw.jitter % (2 * p.write_jitter + 1) \in Int
    BY <1>2, <2>1
  <2>. QED  BY <1>1, <1>3, <2>2 DEF Jittered, Greater
<1>5. bound \in Int
  <2>1. p.write_jitter_percent * current \in Int
    BY <1>1
  <2>2. part \in Int
    BY <2>1
  <2>. HIDE DEF part
  <2>. QED  BY <2>2 DEF Lesser, MAX_EXTRA_TARGET_PADDING
<1>6. bound \div 2 \in Int
  <2>. HIDE DEF bound
  <2>. QED  BY <1>5
<1>7. FirstTarget(p, n, current, draw) \in {NO_TARGET, current, moved + bound, moved - bound \div 2, moved}
  <2>1. FirstTarget(p, n, current, draw) =
          CASE current > U16_LIMIT -> NO_TARGET
            [] current > DIRECT_LIMIT /\ current <= U16_LIMIT -> current
            [] current <= DIRECT_LIMIT /\ draw.sign % 2 = 0 -> moved + bound
            [] OTHER -> IF moved > bound \div 2 THEN moved - bound \div 2 ELSE moved
    BY Zenon DEF FirstTarget, picked
  <2>. HIDE DEF moved, bound
  <2>. QED  BY <2>1
<1>8. NO_TARGET \in Int
  BY DEF NO_TARGET
<1>. HIDE DEF moved, bound
<1>. QED  BY <1>4, <1>5, <1>6, <1>7, <1>8

LEMMA RaisedInt ==
  ASSUME NEW p, IsProfile(p), NEW aim \in Int, NEW raw \in Nat
  PROVE  Raised(p, aim, raw) \in Int
<1>1. p.write_buckets \in [0..7 -> Nat] /\ p.pad_max \in Nat /\ raw % 8 \in 0..7
  BY DEF IsProfile
<1>. QED  BY <1>1 DEF Raised

LEMMA Caps ==
  /\ HEADER_CIPHER_LEN = 23 /\ TAG_LEN = 16 /\ SALT_LEN = 16
  /\ MAX_PACKET_SIZE = 16383 /\ MAX_PACKET_SIZE_V6 = 65535
  /\ V4_WIRE_CAP = 32821 /\ V6_WIRE_CAP = 67418
BY DEF HEADER_CIPHER_LEN, TAG_LEN, SALT_LEN, MAX_PACKET_SIZE, MAX_PACKET_SIZE_V6, V4_WIRE_CAP, V6_WIRE_CAP,
       MAX_SALT_BLOCK_LEN, V6_MAX_PREFIX_LEN, MAX_EXTRA_TARGET_PADDING

LEMMA MaxPaddingRange ==
  ASSUME NEW p, IsProfile(p)
  PROVE  MaxPaddingLen(p) \in Nat /\ p.pad_max \in Nat /\ MaxPaddingLen(p) = p.pad_max + 730 /\ p.pad_max <= 730
BY DEF IsProfile, MaxPaddingLen, MAX_EXTRA_TARGET_PADDING

\* A step that leaves no record under way, and one that leaves rec'.
LEMMA RecordGone ==
  ASSUME LInv, profile' = profile, initial' = initial, size' \in Nat, seq' \in Nat,
         V4 /\ sent' => Chunk(size'), phase' \notin {"reserved", "target", "sealed"}
  PROVE  LInv'
BY DEF LInv, V4, Chunk

LEMMA RecordMade ==
  ASSUME LInv, profile' = profile, initial' = initial, size' \in Nat, seq' \in Nat,
         V4 /\ sent' => Chunk(size'), IsRecord(rec'), HasRoom(rec'),
         phase' = "target" => ~V4 /\ rec'.pad <= profile.pad_max,
         phase' = "sealed" /\ V4 /\ rec'.payload = 0 => rec'.pad = 0
  PROVE  LInv'
<1>1. V4' = V4
  BY DEF V4
<1>2. HasRoom(rec)' = HasRoom(rec') /\ IsRecord(rec)' = IsRecord(rec')
  BY <1>1 DEF HasRoom, IsRecord
<1>. QED  BY <1>1, <1>2 DEF LInv, Chunk

\* V4ChunkState::record_budget leaves room for data in every window.
LEMMA BudgetRange ==
  ASSUME LInv, V4
  PROVE  Chunk(RecordBudget)
<1>1. initial \in InitialPaddings /\ (sent => Chunk(size))
  BY DEF LInv
<1>2. initial \in Nat /\ initial <= 511
  BY <1>1 DEF InitialPaddings
<1>3. CASE ~sent
  BY <1>2, <1>3 DEF RecordBudget, Chunk, Greater, V4_MSS_BASE, V4_FIRST_RECORD_OVERHEAD, MAX_PACKET_SIZE
<1>4. CASE sent
  BY <1>1, <1>4 DEF RecordBudget, Chunk, V4_MSS_BASE, V4_RESET_OVERHEAD, MAX_PACKET_SIZE
<1>. QED  BY <1>3, <1>4

\* V4Encoder::reserve.
LEMMA ReserveV4Room ==
  ASSUME LInv, NEW kind \in {"stream", "datagram"}, NEW hint \in Hints, ReserveV4(kind, hint)
  PROVE  IsRecord(rec') /\ HasRoom(rec') /\ size' = size
<1>. DEFINE budget == RecordBudget
            max == PayloadLen(kind, hint, budget)
            pad == IF ~sent /\ max > 0 THEN initial ELSE 0
            lead == IF sent THEN 0 ELSE SALT_LEN
<1>1. /\ V4 /\ size' = size
      /\ kind = "datagram" => hint <= MAX_PACKET_SIZE
      /\ rec' = [kind |-> kind, hint |-> hint, budget |-> budget, draw |-> None, max |-> max,
                 room |-> lead + HEADER_CIPHER_LEN + pad + max + TAG_LEN,
                 salt |-> lead, prefix |-> 0, pad |-> pad, payload |-> 0, current |-> 0, target |-> 0]
  BY Zenon DEF ReserveV4, NewRecord
<1>2. Chunk(budget) /\ hint \in Nat
  <2>1. 0..MAX_PACKET_SIZE_V6 \subseteq Nat
    OBVIOUS
  <2>. QED  BY <1>1, <2>1, BudgetRange, ShapeAssumption, Zenon
<1>3. pad \in Nat /\ pad <= 511 /\ lead \in Nat /\ lead <= 16
  <2>1. initial \in Nat /\ initial <= 511
    BY <1>1 DEF LInv, InitialPaddings
  <2>. QED  BY <2>1 DEF SALT_LEN
<1>. HIDE DEF budget
<1>4. /\ max \in Nat /\ max <= MAX_PACKET_SIZE
      /\ max >= IF kind = "stream" THEN Lesser(hint, 64) ELSE hint
  BY <1>1, <1>2 DEF PayloadLen, Chunk, Lesser, MAX_PACKET_SIZE
<1>. HIDE DEF max, pad, lead
<1>5. /\ rec' = [f \in RecordFields |-> rec'[f]]
      /\ rec'.kind = kind /\ rec'.hint = hint /\ rec'.budget = budget /\ rec'.max = max /\ rec'.salt = lead
      /\ rec'.prefix = 0 /\ rec'.pad = pad /\ rec'.payload = 0 /\ rec'.current = 0 /\ rec'.target = 0
      /\ rec'.room = lead + HEADER_CIPHER_LEN + pad + max + TAG_LEN
  BY <1>1 DEF RecordFields, NewRecord
<1>. HIDE DEF RecordFields
<1>6. IsRecord(rec')
  BY <1>2, <1>3, <1>4, <1>5, Caps DEF IsRecord
<1>7. HasRoom(rec')
  <2>. DEFINE room == lead + HEADER_CIPHER_LEN + pad + max + TAG_LEN
  <2>1. room <= room /\ room <= V4_WIRE_CAP /\ pad <= MAX_PACKET_SIZE
    BY <1>3, <1>4, Caps
  <2>. HIDE DEF room
  <2>2. rec'.room = room /\ rec'.salt + HEADER_CIPHER_LEN + rec'.pad + rec'.max + TAG_LEN = room
    BY <1>5, Zenon DEF room
  <2>. QED  BY <1>1, <1>2, <1>4, <1>5, <2>1, <2>2, Zenon DEF HasRoom
<1>. QED  BY <1>1, <1>6, <1>7

\* payload_budget leaves room for data in every window, for every draw.
LEMMA ShapedBudget ==
  ASSUME LInv, ~V4, NEW raw \in Nat
  PROVE  /\ ChunkSize \in Nat
         /\ PayloadBudget(raw) \in Nat /\ 64 <= PayloadBudget(raw) /\ PayloadBudget(raw) <= MAX_PACKET_SIZE_V6
<1>1. /\ IsProfile(profile) /\ size \in Nat /\ profile.chunk_initial \in Nat
      /\ profile.first_record_cap \in Nat /\ profile.first_record_cap >= 64
  BY DEF LInv, IsProfile
<1>2. ChunkSize \in Nat
  BY <1>1 DEF ChunkSize
<1>. DEFINE chunk == ChunkLimit(profile, ChunkSize, raw)
<1>3. chunk \in Nat /\ chunk >= 64
  BY <1>1, <1>2, ChunkLimitRange, Zenon
<1>. HIDE DEF chunk
<1>4. PayloadBudget(raw) =
        LET limit == Lesser(chunk, MAX_PACKET_SIZE_V6)
        IN  IF seq = 0 THEN Lesser(limit, profile.first_record_cap) ELSE limit
  BY DEF PayloadBudget, chunk
<1>. QED  BY <1>1, <1>2, <1>3, <1>4 DEF Lesser, MAX_PACKET_SIZE_V6

\* V6ShapedEncoder::reserve.
LEMMA ReserveShapedRoom ==
  ASSUME LInv, NEW kind \in {"stream", "datagram"}, NEW hint \in Hints, NEW draw \in Draws,
         ReserveShaped(kind, hint, draw)
  PROVE  ~V4 /\ IsRecord(rec') /\ HasRoom(rec') /\ size' \in Nat
<1>. DEFINE budget == PayloadBudget(draw.chunk)
            max == PayloadLen(kind, hint, budget)
            lead == IF sent THEN 0 ELSE profile.salt_block_len
            prefix == Pick(draw.prefix, profile.prefix_min, profile.prefix_max)
            padding == MaxPaddingLen(profile)
<1>1. /\ ~V4 /\ size' = IF kind = "stream" THEN ChunkSize ELSE size
      /\ rec' = [kind |-> kind, hint |-> hint, budget |-> 0, draw |-> draw, max |-> max,
                 room |-> lead + prefix + HEADER_CIPHER_LEN + padding + max + TAG_LEN,
                 salt |-> lead, prefix |-> prefix, pad |-> 0, payload |-> 0, current |-> 0, target |-> 0]
  BY Zenon DEF ReserveShaped, NewRecord
<1>2. /\ IsProfile(profile) /\ size \in Nat
      /\ profile.salt_block_len \in Nat /\ profile.salt_block_len <= 256
  BY <1>1, Zenon DEF LInv, IsProfile, MAX_SALT_BLOCK_LEN
<1>3. draw.chunk \in Nat /\ draw.prefix \in Nat
  BY ShapeAssumption DEF RecordDraw
<1>4. hint \in Nat /\ hint <= MAX_PACKET_SIZE_V6
  <2>1. \A h \in 0..MAX_PACKET_SIZE_V6 : h \in Nat /\ h <= MAX_PACKET_SIZE_V6
    OBVIOUS
  <2>. QED  BY <2>1, ShapeAssumption, Zenon
<1>5. budget \in Nat /\ 64 <= budget /\ budget <= MAX_PACKET_SIZE_V6 /\ ChunkSize \in Nat
  BY <1>1, <1>3, ShapedBudget, Zenon
<1>6. prefix \in Nat /\ prefix <= 128
  <2>. DEFINE raw == draw.prefix
              lo == profile.prefix_min
              hi == profile.prefix_max
  <2>1. raw \in Nat /\ lo \in Nat /\ hi \in Nat /\ lo <= hi /\ hi <= 128
    BY <1>2, <1>3 DEF IsProfile, V6_MAX_PREFIX_LEN
  <2>. HIDE DEF raw, lo, hi
  <2>2. Pick(raw, lo, hi) \in lo..hi
    BY <2>1, PickRange
  <2>3. Pick(raw, lo, hi) \in Nat /\ Pick(raw, lo, hi) <= 128
    BY <2>1, <2>2
  <2>. QED  BY <2>3 DEF raw, lo, hi
<1>7. lead \in Nat /\ lead <= 256
  BY <1>2
<1>8. padding \in Nat /\ padding <= 1460
  BY <1>2, MaxPaddingRange
<1>. HIDE DEF budget, lead, prefix
<1>9. /\ max \in Nat /\ max <= MAX_PACKET_SIZE_V6
      /\ max >= IF kind = "stream" THEN Lesser(hint, 64) ELSE hint
  BY <1>4, <1>5 DEF PayloadLen, Lesser, MAX_PACKET_SIZE_V6
<1>. HIDE DEF max, padding
<1>10. /\ rec' = [f \in RecordFields |-> rec'[f]]
       /\ rec'.kind = kind /\ rec'.hint = hint /\ rec'.max = max /\ rec'.salt = lead /\ rec'.draw = draw
       /\ rec'.prefix = prefix /\ rec'.pad = 0 /\ rec'.payload = 0 /\ rec'.current = 0 /\ rec'.target = 0
       /\ rec'.room = lead + prefix + HEADER_CIPHER_LEN + padding + max + TAG_LEN
  BY <1>1, Zenon DEF RecordFields, NewRecord
<1>. HIDE DEF RecordFields
<1>11. IsRecord(rec')
  BY <1>4, <1>6, <1>7, <1>8, <1>9, <1>10, Caps DEF IsRecord
<1>12. HasRoom(rec')
  <2>. DEFINE room == lead + prefix + HEADER_CIPHER_LEN + padding + max + TAG_LEN
  <2>1. room <= room /\ room <= V6_WIRE_CAP /\ 0 <= padding
    BY <1>6, <1>7, <1>8, <1>9, Caps
  <2>. HIDE DEF room
  <2>2. rec'.room = room /\ rec'.salt + rec'.prefix + HEADER_CIPHER_LEN + padding + rec'.max + TAG_LEN = room
    BY <1>10, Zenon DEF room
  <2>. QED  BY <1>1, <1>9, <1>10, <2>1, <2>2, Zenon DEF HasRoom, padding
<1>. QED  BY <1>1, <1>2, <1>5, <1>11, <1>12

LEMMA Fields ==
  RecordFields = {"kind", "hint", "budget", "draw", "max", "room", "salt", "prefix", "pad", "payload",
                  "current", "target"}
BY Zenon DEF RecordFields, NewRecord

\* What a record keeps while it is sealed.
Keeps(q, r) ==
  /\ r = [f \in RecordFields |-> r[f]]
  /\ r.kind = q.kind /\ r.hint = q.hint /\ r.budget = q.budget /\ r.draw = q.draw /\ r.max = q.max
  /\ r.room = q.room /\ r.salt = q.salt /\ r.prefix = q.prefix

LEMMA KeptRecord ==
  ASSUME NEW q, IsRecord(q), NEW r, Keeps(q, r), r.pad \in Nat, r.payload \in Nat, r.payload <= q.max,
         r.current \in Nat, r.target \in Int
  PROVE  IsRecord(r)
BY DEF IsRecord, Keeps

LEMMA KeptRoom ==
  ASSUME NEW q, IsRecord(q), HasRoom(q), NEW r, Keeps(q, r), r.pad \in Nat,
         IF V4 THEN r.pad <= q.pad ELSE r.pad <= MaxPaddingLen(profile)
  PROVE  HasRoom(r)
<1>1. /\ q.salt \in Nat /\ q.prefix \in Nat /\ q.max \in Nat /\ q.room \in Nat /\ q.pad \in Nat
      /\ r.budget = q.budget /\ r.draw = q.draw /\ r.max = q.max
      /\ r.room = q.room /\ r.salt = q.salt /\ r.prefix = q.prefix
  BY DEF IsRecord, Keeps
<1>2. CASE V4
  <2>1. /\ Chunk(q.budget) /\ q.pad <= MAX_PACKET_SIZE /\ q.max <= MAX_PACKET_SIZE /\ q.prefix = 0
        /\ q.salt + HEADER_CIPHER_LEN + q.pad + q.max + TAG_LEN <= q.room /\ q.room <= V4_WIRE_CAP
        /\ r.pad <= q.pad
    BY <1>2, Zenon DEF HasRoom
  <2>2. /\ r.pad <= MAX_PACKET_SIZE /\ q.salt + HEADER_CIPHER_LEN + r.pad + q.max + TAG_LEN <= q.room
    BY <1>1, <2>1, Caps
  <2>. QED  BY <1>1, <1>2, <2>1, <2>2, Zenon DEF HasRoom
<1>3. CASE ~V4
  BY <1>1, <1>3, Zenon DEF HasRoom
<1>. QED  BY <1>2, <1>3

\* V4Encoder::finish.
LEMMA SealV4Fits ==
  ASSUME LInv, NEW n \in Payloads, SealV4(n)
  PROVE  LInv' /\ Keeps(rec, rec')
<1>1. /\ V4 /\ IsRecord(rec) /\ HasRoom(rec) /\ profile' = profile /\ initial' = initial /\ seq' = seq
      /\ size' = NextChunkLimit(rec.budget) /\ phase' = "sealed" /\ seq \in Nat
  BY DEF LInv, SealV4, codec
<1>2. rec' = [rec EXCEPT !.payload = n, !.pad = IF n = 0 THEN 0 ELSE rec.pad] /\ rec = [f \in RecordFields |-> rec[f]]
  BY <1>1, Zenon DEF SealV4, IsRecord
<1>3. Keeps(rec, rec') /\ rec'.payload = n /\ rec'.pad = (IF n = 0 THEN 0 ELSE rec.pad)
      /\ rec'.current = rec.current /\ rec'.target = rec.target
  BY <1>2, Fields, Zenon DEF Keeps
<1>4. /\ rec.max \in Nat /\ rec.pad \in Nat /\ Chunk(rec.budget) /\ rec.current \in Nat /\ rec.target \in Int
  BY <1>1 DEF IsRecord, HasRoom
<1>5. n \in Nat /\ n <= rec.max
  BY <1>4 DEF Payloads
<1>6. Chunk(size')
  BY <1>1, <1>4 DEF Chunk, NextChunkLimit, Lesser, V4_MSS_BASE, V4_RESET_OVERHEAD, MAX_PACKET_SIZE
<1>7. rec'.pad \in Nat /\ rec'.pad <= rec.pad
  BY <1>3, <1>4
<1>8. IsRecord(rec')
  BY <1>1, <1>3, <1>4, <1>5, <1>7, KeptRecord
<1>9. HasRoom(rec')
  BY <1>1, <1>3, <1>7, KeptRoom
<1>10. rec'.payload = 0 => rec'.pad = 0
  BY <1>3
<1>. QED  BY <1>1, <1>3, <1>6, <1>8, <1>9, <1>10, RecordMade DEF Chunk

\* final_padding_len up to its loop.
LEMMA ChooseFits ==
  ASSUME LInv, NEW n \in Payloads, ChooseTarget(n)
  PROVE  LInv' /\ Keeps(rec, rec')
<1>. DEFINE base == BasePad(profile, seq, n, rec.draw.pad)
            current == CurrentLen(profile, rec.prefix, base, n, ~sent)
            aim == FirstTarget(profile, seq, current, rec.draw)
<1>1. /\ ~V4 /\ IsRecord(rec) /\ HasRoom(rec) /\ profile' = profile /\ initial' = initial /\ seq' = seq
      /\ size' = size /\ sent' = sent /\ phase' = "target" /\ seq \in Nat /\ size \in Nat /\ IsProfile(profile)
  BY DEF LInv, ChooseTarget, codec
<1>2. /\ rec' = [rec EXCEPT !.payload = n, !.pad = base, !.current = current, !.target = aim]
      /\ rec = [f \in RecordFields |-> rec[f]]
  BY <1>1, Zenon DEF ChooseTarget, IsRecord
<1>3. rec.max \in Nat /\ rec.prefix \in Nat /\ rec.draw \in RecordDraw /\ rec.draw.pad \in Nat
  BY <1>1, ShapeAssumption DEF IsRecord, HasRoom, RecordDraw
<1>4. n \in Nat /\ n <= rec.max
  BY <1>3 DEF Payloads
<1>5. base \in Nat /\ base <= profile.pad_max /\ profile.pad_max \in Nat /\ base <= MaxPaddingLen(profile)
  <2>1. base \in Nat /\ base <= profile.pad_max
    BY <1>1, <1>3, BasePadRange, Zenon
  <2>. HIDE DEF base
  <2>. QED  BY <1>1, <2>1, MaxPaddingRange
<1>. HIDE DEF base
<1>6. current \in Nat
  <2>1. profile.salt_block_len \in Nat
    BY <1>1 DEF IsProfile
  <2>. QED  BY <1>3, <1>4, <1>5, <2>1 DEF CurrentLen, BodyLenOf, HEADER_CIPHER_LEN, TAG_LEN
<1>. HIDE DEF current
<1>7. aim \in Int
  BY <1>1, <1>3, <1>6, TargetInt, Zenon
<1>. HIDE DEF aim
<1>8. Keeps(rec, rec') /\ rec'.payload = n /\ rec'.pad = base /\ rec'.current = current /\ rec'.target = aim
  BY <1>2, Fields, Zenon DEF Keeps
<1>9. IsRecord(rec')
  BY <1>1, <1>4, <1>5, <1>6, <1>7, <1>8, KeptRecord
<1>10. HasRoom(rec')
  BY <1>1, <1>5, <1>8, KeptRoom
<1>. QED  BY <1>1, <1>5, <1>8, <1>9, <1>10, RecordMade

\* The loop of write_target_len.
LEMMA RaiseFits ==
  ASSUME LInv, RaiseTarget
  PROVE  LInv' /\ Keeps(rec, rec')
<1>1. /\ ~V4 /\ IsRecord(rec) /\ HasRoom(rec) /\ profile' = profile /\ initial' = initial /\ seq' = seq
      /\ size' = size /\ sent' = sent /\ phase' = "target" /\ seq \in Nat /\ size \in Nat /\ IsProfile(profile)
      /\ rec.pad <= profile.pad_max
  BY DEF LInv, RaiseTarget, codec
<1>2. PICK draw \in Draws :
        LET up == Raised(profile, rec.target, draw.next)
        IN  rec' = [rec EXCEPT !.target = IF up > MAX_PACKET_SIZE_V6 THEN NO_TARGET ELSE up]
  BY Zenon DEF RaiseTarget
<1>. DEFINE up == Raised(profile, rec.target, draw.next)
            aim == IF up > MAX_PACKET_SIZE_V6 THEN NO_TARGET ELSE up
<1>3. /\ rec = [f \in RecordFields |-> rec[f]]
      /\ rec.max \in Nat /\ rec.pad \in Nat /\ rec.payload \in Nat /\ rec.payload <= rec.max
      /\ rec.current \in Nat /\ rec.target \in Int
  BY <1>1 DEF IsRecord
<1>4. draw.next \in Nat
  BY ShapeAssumption DEF RecordDraw
<1>5. up \in Int
  BY <1>1, <1>3, <1>4, RaisedInt, Zenon
<1>. HIDE DEF up
<1>6. aim \in Int
  BY <1>5 DEF NO_TARGET
<1>7. rec' = [rec EXCEPT !.target = aim]
  BY <1>2, Zenon DEF up
<1>. HIDE DEF aim
<1>8. /\ Keeps(rec, rec') /\ rec'.payload = rec.payload /\ rec'.pad = rec.pad /\ rec'.current = rec.current
      /\ rec'.target = aim
  BY <1>3, <1>7, Fields, Zenon DEF Keeps
<1>9. IsRecord(rec')
  BY <1>1, <1>3, <1>6, <1>8, KeptRecord
<1>10. HasRoom(rec')
  <2>1. rec.pad <= MaxPaddingLen(profile)
    BY <1>1 DEF HasRoom
  <2>. QED  BY <1>1, <1>3, <1>8, <2>1, KeptRoom
<1>. QED  BY <1>1, <1>8, <1>9, <1>10, RecordMade

\* The rest of V6ShapedEncoder::finish.
LEMMA SealShapedFits ==
  ASSUME LInv, SealShaped
  PROVE  LInv' /\ Keeps(rec, rec')
<1>. DEFINE pad == rec.pad + ExtraPad(rec.current, rec.target)
<1>1. /\ ~V4 /\ IsRecord(rec) /\ HasRoom(rec) /\ profile' = profile /\ initial' = initial
      /\ seq' = (seq + 1) % SeqModulus /\ size' = AdvanceChunkSize(profile, size) /\ phase' = "sealed"
      /\ seq \in Nat /\ size \in Nat /\ IsProfile(profile) /\ rec.pad <= profile.pad_max
  BY DEF LInv, SealShaped, codec
<1>2. rec' = [rec EXCEPT !.pad = pad] /\ rec = [f \in RecordFields |-> rec[f]]
  BY <1>1, Zenon DEF SealShaped, IsRecord
<1>3. /\ rec.max \in Nat /\ rec.pad \in Nat /\ rec.payload \in Nat /\ rec.payload <= rec.max
      /\ rec.current \in Nat /\ rec.target \in Int
  BY <1>1 DEF IsRecord
<1>4. pad \in Nat /\ pad <= MaxPaddingLen(profile)
  BY <1>1, <1>3, MaxPaddingRange DEF ExtraPad, Lesser, MAX_EXTRA_TARGET_PADDING
<1>. HIDE DEF pad
<1>5. /\ Keeps(rec, rec') /\ rec'.payload = rec.payload /\ rec'.pad = pad /\ rec'.current = rec.current
      /\ rec'.target = rec.target
  BY <1>2, Fields, Zenon DEF Keeps
<1>6. IsRecord(rec')
  BY <1>1, <1>3, <1>4, <1>5, KeptRecord
<1>7. HasRoom(rec')
  BY <1>1, <1>4, <1>5, KeptRoom
<1>8. seq' \in Nat /\ size' \in Nat
  BY <1>1, AdvanceNat, ShapeAssumption
<1>. QED  BY <1>1, <1>5, <1>6, <1>7, <1>8, RecordMade

LEMMA LengthsInit == Init => LInv
<1>. SUFFICES ASSUME Init  PROVE LInv
  OBVIOUS
<1>1. size = 0 /\ seq = 0 /\ sent = FALSE /\ phase = "ready"
  BY DEF Init
<1>2. CASE profile = None /\ initial \in Paddings
  <2>1. initial \in InitialPaddings
    BY <1>2, ShapeAssumption, Zenon
  <2>. QED  BY <1>1, <1>2, <2>1 DEF LInv, V4
<1>3. CASE profile \in {Derive(r) : r \in RawProfiles}
  <2>1. ~V4
    BY <1>3, ShapeAssumption, Zenon DEF V4
  <2>2. IsProfile(profile)
    BY <1>3, ShapeAssumption, DerivedProfile, Zenon
  <2>. QED  BY <1>1, <2>1, <2>2 DEF LInv
<1>. QED  BY <1>2, <1>3, Zenon DEF Init

LEMMA LengthsStep == LInv /\ [Next]_vars => LInv'
<1>. SUFFICES ASSUME LInv, [Next]_vars  PROVE LInv'
  OBVIOUS
<1>1. /\ size \in Nat /\ seq \in Nat
      /\ V4 /\ sent => Chunk(size)
  BY DEF LInv
<1>2. CASE Tick \/ UNCHANGED vars
  <2>1. UNCHANGED <<profile, initial, size, seq, sent, phase, rec>>
    BY <1>2, Zenon DEF Tick, vars, codec
  <2>. QED  BY <2>1 DEF LInv, V4, Chunk, HasRoom, IsRecord
<1>3. CASE Cancel \/ SealFails \/ OpenV4 \/ \E draw \in Draws : OpenShaped(draw)
  <2>1. /\ UNCHANGED <<profile, initial, size, seq, sent>>
        /\ phase' \notin {"reserved", "target", "sealed"}
    BY <1>3, Zenon DEF Cancel, SealFails, OpenV4, OpenShaped, codec
  <2>. QED  BY <1>1, <2>1, RecordGone
<1>4. ASSUME NEW kind \in {"stream", "datagram"}, NEW hint \in Hints, Reserve(kind, hint)
      PROVE  LInv'
  <2>1. UNCHANGED <<profile, initial, seq, sent>> /\ phase' = "reserved"
    BY <1>4, Zenon DEF Reserve, codec
  <2>2. CASE ReserveV4(kind, hint)
    BY <1>1, <2>1, <2>2, ReserveV4Room, RecordMade
  <2>3. ASSUME NEW draw \in Draws, ReserveShaped(kind, hint, draw)  PROVE LInv'
    BY <2>1, <2>3, <1>1, ReserveShapedRoom, RecordMade
  <2>. QED  BY <1>4, <2>2, <2>3, Zenon DEF Reserve
<1>5. ASSUME NEW n \in Payloads, SealV4(n) \/ ChooseTarget(n)
      PROVE  LInv'
  BY <1>5, SealV4Fits, ChooseFits, Zenon
<1>6. CASE RaiseTarget \/ SealShaped
  BY <1>6, RaiseFits, SealShapedFits, Zenon
<1>. QED  BY <1>2, <1>3, <1>4, <1>5, <1>6, Zenon DEF Next

LEMMA LengthsFit == LInv => Fits
<1>. SUFFICES ASSUME LInv  PROVE Fits
  OBVIOUS
<1>1. phase = "reserved" => rec.max >= IF rec.kind = "stream" THEN Lesser(rec.hint, 64) ELSE rec.hint
  BY DEF LInv, IsRecord
<1>2. ASSUME phase = "sealed"
      PROVE  /\ WireLen(rec) <= rec.room
             /\ rec.room <= IF V4 THEN V4_WIRE_CAP ELSE V6_WIRE_CAP
             /\ IF V4 THEN /\ rec.pad <= MAX_PACKET_SIZE /\ rec.payload <= MAX_PACKET_SIZE
                           /\ rec.payload = 0 => rec.pad = 0
                      ELSE rec.pad <= MaxPaddingLen(profile) /\ rec.payload <= MAX_PACKET_SIZE_V6
  <2>1. /\ HasRoom(rec) /\ (V4 /\ rec.payload = 0 => rec.pad = 0) /\ (~V4 => IsProfile(profile))
        /\ rec.max \in Nat /\ rec.room \in Nat /\ rec.salt \in Nat /\ rec.prefix \in Nat
        /\ rec.pad \in Nat /\ rec.payload \in Nat /\ rec.payload <= rec.max
    BY <1>2 DEF LInv, IsRecord
  <2>2. BodyLenOf(rec.payload) \in Nat /\ BodyLenOf(rec.payload) <= rec.max + TAG_LEN
    BY <2>1 DEF BodyLenOf, TAG_LEN
  <2>3. CASE V4
    BY <2>1, <2>2, <2>3, Caps DEF HasRoom, WireLen
  <2>4. CASE ~V4
    BY <2>1, <2>2, <2>4, Caps, MaxPaddingRange DEF HasRoom, WireLen
  <2>. QED  BY <2>3, <2>4
<1>. QED  BY <1>1, <1>2, Zenon DEF Fits

-----------------------------------------------------------------------------
(* Both ends exchange the same bytes.                                      *)

\* The bytes of the sealed record that are on the wrong side, by the draws of
\* the encoder's sequence number.
Exchanged ==
  IF V4 THEN SwappedEven(Overlap(rec), Tracked) ELSE Mixed(profile, Overlap(rec), rec.draw.offset, Tracked)

\* The peer is one record behind while a record is on its way.
EInv ==
  /\ peer \in Nat
  /\ phase = "sealed" => swapped = Exchanged /\ (~V4 => seq = (peer + 1) % SeqModulus)
  /\ phase # "sealed" => swapped = {}
  /\ phase # "sealed" \/ V4 => peer = seq

LEMMA ExchangeInit == Init => EInv
BY DEF Init, EInv

\* A record is sealed with the draws of its sequence number and opened with them.
LEMMA ExchangeStep == LInv /\ EInv /\ [Next]_vars => EInv'
<1>. SUFFICES ASSUME LInv, EInv, [Next]_vars  PROVE EInv'
  OBVIOUS
<1>1. seq \in Nat /\ peer \in Nat /\ (peer + 1) % SeqModulus \in Nat
  BY ShapeAssumption DEF LInv, EInv
<1>2. CASE Tick \/ UNCHANGED vars
  <2>1. UNCHANGED <<profile, seq, phase, rec, peer, swapped>>
    BY <1>2, Zenon DEF Tick, vars, codec
  <2>. QED  BY <2>1 DEF EInv, Exchanged, V4, Overlap
<1>3. CASE \/ Cancel \/ SealFails \/ RaiseTarget
           \/ \E kind \in {"stream", "datagram"}, hint \in Hints : Reserve(kind, hint)
           \/ \E n \in Payloads : ChooseTarget(n)
  <2>1. UNCHANGED <<seq, peer, swapped>> /\ phase # "sealed" /\ phase' # "sealed"
    BY <1>3, Zenon DEF Cancel, SealFails, RaiseTarget, Reserve, ChooseTarget
  <2>. QED  BY <2>1 DEF EInv
<1>4. ASSUME NEW n \in Payloads, SealV4(n)  PROVE EInv'
  <2>1. /\ phase # "sealed" /\ phase' = "sealed" /\ V4 /\ V4' /\ UNCHANGED <<seq, peer>>
        /\ swapped' = SwappedEven(Overlap(rec'), Tracked)
    BY <1>4, Zenon DEF SealV4, V4, codec
  <2>2. swapped' = Exchanged'
    BY <2>1 DEF Exchanged, Overlap
  <2>. QED  BY <2>1, <2>2 DEF EInv
<1>5. CASE SealShaped
  <2>1. /\ phase = "target" /\ phase' = "sealed" /\ UNCHANGED <<profile, peer>> /\ seq' = (seq + 1) % SeqModulus
        /\ swapped' = Mixed(profile, Overlap(rec'), rec.draw.offset, Tracked)
    BY <1>5, Zenon DEF SealShaped, codec
  <2>2. ~V4 /\ ~V4' /\ peer = seq
    BY <2>1 DEF LInv, EInv, V4
  <2>3. rec'.draw = rec.draw
    BY <1>5, SealShapedFits DEF Keeps
  <2>4. swapped' = Exchanged'
    BY <2>1, <2>2, <2>3, Zenon DEF Exchanged, Overlap
  <2>. QED  BY <1>1, <2>1, <2>2, <2>4 DEF EInv
<1>6. CASE OpenV4
  <2>1. /\ phase = "sealed" /\ V4 /\ phase' = "ready" /\ UNCHANGED <<seq, peer>>
        /\ swapped' = SymmetricDiff(swapped, SwappedEven(Overlap(rec), Tracked))
    BY <1>6, Zenon DEF OpenV4
  <2>2. swapped = SwappedEven(Overlap(rec), Tracked) /\ peer = seq
    BY <2>1 DEF EInv, Exchanged
  <2>3. swapped' = {}
    BY <2>1, <2>2 DEF SymmetricDiff
  <2>. QED  BY <1>1, <2>1, <2>2, <2>3 DEF EInv
<1>7. ASSUME NEW draw \in Draws, OpenShaped(draw)  PROVE EInv'
  <2>1. /\ phase = "sealed" /\ ~V4 /\ phase' = "ready" /\ seq' = seq /\ peer' = (peer + 1) % SeqModulus
        /\ (peer + 1) % SeqModulus = seq => draw = rec.draw
        /\ swapped' = SymmetricDiff(swapped, Mixed(profile, Overlap(rec), draw.offset, Tracked))
    BY <1>7, Zenon DEF OpenShaped, NextRecord
  <2>2. (peer + 1) % SeqModulus = seq /\ swapped = Mixed(profile, Overlap(rec), rec.draw.offset, Tracked)
    BY <2>1, Zenon DEF EInv, Exchanged
  <2>3. swapped' = {}
    BY <2>1, <2>2 DEF SymmetricDiff
  <2>. QED  BY <1>1, <2>1, <2>2, <2>3 DEF EInv
<1>. QED  BY <1>2, <1>3, <1>4, <1>5, <1>6, <1>7, Zenon DEF Next

-----------------------------------------------------------------------------
(* The salt block.                                                         *)

Turns == 0..(Rounds - 1)

Perms == {p \in [Positions -> Positions] : \A i, k \in Positions : p[i] = p[k] => i = k}

\* The sender draws as it goes; the receiver finds every draw made.
SaltType ==
  /\ len \in Nat /\ SaltLen <= len /\ rounds \in Nat
  /\ host \in {"sender", "receiver", "done"} /\ perm \in Perms
  /\ round \in 0..Rounds /\ at \in 0..len /\ (round = Rounds => at = 0)
  /\ draws \in [Turns -> [Positions -> Nat \cup {NoDraw}]]
  /\ \A r \in Turns, a \in Positions :
       draws[r][a] # NoDraw <=> host # "sender" \/ r < round \/ (r = round /\ a < at)
  /\ block = [i \in Positions |-> block[i]]

\* A history of the shuffle: the permutation before each of its swaps.
Histories == [0..Rounds -> [0..len -> Perms]]

Explains(H) ==
  /\ H[0][0] = Identity
  /\ \A r \in Turns, a \in Positions :
       draws[r][a] # NoDraw => H[r][a + 1] = Swapped(H[r][a], a, a + draws[r][a])
  /\ \A r \in Turns : host # "sender" \/ r < round => H[r + 1][0] = H[r][len]
  /\ perm = H[round][at]
  /\ host = "receiver" => \A k \in 0..(SaltLen - 1) : block[H[Rounds][0][k]] = Masked(k, SaltByte(k))

\* The receiver goes through the sender's history again.
SaltInv == SaltType /\ SaltSurvives /\ \E H \in Histories : Explains(H)

LEMMA RoundsNat ==
  ASSUME rounds \in Nat
  PROVE  Rounds \in Nat /\ Rounds >= 1 /\ Turns \subseteq 0..Rounds
BY DEF Rounds, Turns

LEMMA SwapPermutes ==
  ASSUME NEW p \in Perms, NEW i \in Positions, NEW k \in Positions
  PROVE  Swapped(p, i, k) \in Perms
<1>. DEFINE q == Swapped(p, i, k)
            V(x) == IF x = k THEN p[i] ELSE IF x = i THEN p[k] ELSE p[x]
<1>1. p \in [Positions -> Positions] /\ \A x, y \in Positions : p[x] = p[y] => x = y
  BY Zenon DEF Perms
<1>2. q \in [Positions -> Positions] /\ \A x \in Positions : q[x] = V(x)
  BY <1>1, Zenon DEF Swapped
<1>. HIDE DEF q
<1>3. ASSUME NEW x \in Positions, NEW y \in Positions, q[x] = q[y]  PROVE x = y
  BY <1>1, <1>2, <1>3, Zenon
<1>4. q \in Perms
  BY <1>2, <1>3, Zenon DEF Perms
<1>. QED  BY <1>4 DEF q

LEMMA SaltStart == SaltInit => SaltInv
<1>. SUFFICES ASSUME SaltInit  PROVE SaltInv
  OBVIOUS
<1>1. /\ len \in Nat /\ SaltLen <= len /\ rounds \in Nat /\ host = "sender" /\ perm = Identity
      /\ round = 0 /\ at = 0 /\ draws = [r \in Turns |-> [i \in Positions |-> NoDraw]]
      /\ block = [i \in Positions |-> Filler]
  BY SaltAssumption DEF SaltInit, Turns
<1>2. Rounds \in Nat /\ Rounds >= 1
  BY <1>1, RoundsNat
<1>3. Identity \in Perms
  BY DEF Identity, Perms
<1>4. SaltType
  <2>1. round \in 0..Rounds /\ at \in 0..len /\ (round = Rounds => at = 0)
    BY <1>1, <1>2
  <2>2. draws \in [Turns -> [Positions -> Nat \cup {NoDraw}]]
    BY <1>1
  <2>3. \A r \in Turns, a \in Positions :
          draws[r][a] # NoDraw <=> host # "sender" \/ r < round \/ (r = round /\ a < at)
    <3>. TAKE r \in Turns, a \in Positions
    <3>1. draws[r][a] = NoDraw
      BY <1>1
    <3>2. ~(r < 0) /\ ~(a < 0)
      BY DEF Turns, Positions
    <3>. QED  BY <1>1, <3>1, <3>2
  <2>4. block = [i \in Positions |-> block[i]]
    BY <1>1
  <2>. QED  BY <1>1, <1>3, <2>1, <2>2, <2>3, <2>4 DEF SaltType
<1>. DEFINE H == [r \in 0..Rounds |-> [a \in 0..len |-> Identity]]
<1>5. H \in Histories
  BY <1>3 DEF Histories
<1>6. Explains(H)
  <2>1. H[0][0] = Identity /\ 0 \in 0..Rounds /\ 0 \in 0..len
    BY <1>1, <1>2
  <2>2. \A r \in Turns, a \in Positions : draws[r][a] = NoDraw
    BY <1>1
  <2>3. \A r \in Turns : ~(r < round)
    BY <1>1 DEF Turns
  <2>. QED  BY <1>1, <2>1, <2>2, <2>3 DEF Explains
<1>. QED  BY <1>1, <1>4, <1>5, <1>6 DEF SaltInv, SaltSurvives

\* One swap: the sender adds to the history, the receiver follows it.
LEMMA SwapExplained ==
  ASSUME SaltInv, NEW d, Swap(d)
  PROVE  SaltInv'
<1>1. PICK H \in Histories : Explains(H)
  BY DEF SaltInv
<1>2. /\ host # "done" /\ round < Rounds /\ at < len /\ d \in 0..(len - at - 1)
      /\ draws[round][at] \in {NoDraw, d} /\ perm' = Swapped(perm, at, at + d)
      /\ draws' = [draws EXCEPT ![round][at] = d] /\ at' = at + 1
      /\ UNCHANGED <<len, rounds, host, round, block, salt>>
  BY DEF Swap
<1>3. /\ SaltType /\ len \in Nat /\ rounds \in Nat /\ perm \in Perms /\ round \in 0..Rounds /\ at \in 0..len
      /\ draws \in [Turns -> [Positions -> Nat \cup {NoDraw}]] /\ Rounds \in Nat
  BY RoundsNat DEF SaltInv, SaltType
<1>4. round \in Turns /\ at \in Positions /\ at + d \in Positions /\ d \in Nat /\ d # NoDraw
  BY <1>2, <1>3, SaltAssumption DEF Turns, Positions
<1>5. /\ Rounds' = Rounds /\ Turns' = Turns /\ Positions' = Positions /\ Perms' = Perms
      /\ Histories' = Histories /\ Identity' = Identity
  BY <1>2, Zenon DEF Rounds, Turns, Positions, Perms, Histories, Identity
<1>6. perm' \in Perms
  BY <1>2, <1>3, <1>4, SwapPermutes
<1>7. /\ draws' \in [Turns -> [Positions -> Nat \cup {NoDraw}]] /\ draws'[round][at] = d
      /\ \A r \in Turns, a \in Positions : r # round \/ a # at => draws'[r][a] = draws[r][a]
  BY <1>2, <1>3, <1>4, Zenon
<1>8. SaltType'
  <2>1. round' \in 0..Rounds /\ at' \in 0..len /\ round' # Rounds
    BY <1>2, <1>3
  <2>2. \A r \in Turns, a \in Positions :
          draws'[r][a] # NoDraw <=> host # "sender" \/ r < round \/ (r = round /\ a < at + 1)
    <3>. TAKE r \in Turns, a \in Positions
    <3>1. r \in Int /\ a \in Int /\ round \in Int /\ at \in Int
      BY <1>3 DEF Turns, Positions
    <3>2. draws[r][a] # NoDraw <=> host # "sender" \/ r < round \/ (r = round /\ a < at)
      BY <1>3, Zenon DEF SaltType
    <3>3. CASE r = round /\ a = at
      BY <1>4, <1>7, <3>1, <3>3
    <3>4. CASE r # round \/ a # at
      <4>1. draws'[r][a] = draws[r][a]
        BY <1>7, <3>4, Zenon
      <4>2. (r = round /\ a < at) <=> (r = round /\ a < at + 1)
        BY <3>1, <3>4
      <4>. QED  BY <3>2, <4>1, <4>2, Zenon
    <3>. QED  BY <3>3, <3>4, Zenon
  <2>3. /\ len' = len /\ rounds' = rounds /\ host' = host /\ round' = round /\ at' = at + 1
        /\ block' = block
    BY <1>2, Zenon
  <2>4. /\ SaltLen <= len /\ host \in {"sender", "receiver", "done"}
        /\ block = [i \in Positions |-> block[i]]
    BY <1>3, Zenon DEF SaltType
  <2>. QED  BY <1>3, <1>5, <1>6, <1>7, <2>1, <2>2, <2>3, <2>4, Zenon DEF SaltType
<1>9. SaltSurvives'
  BY <1>2 DEF SaltSurvives
<1>10. CASE host = "receiver"
  <2>1. draws[round][at] # NoDraw
    BY <1>3, <1>4, <1>10, Zenon DEF SaltType
  <2>2. draws[round][at] = d /\ draws' = draws
    <3>1. draws[round][at] = d
      BY <1>2, <2>1
    <3>. QED  BY <1>2, <1>3, <1>4, <3>1
  <2>3. perm' = H[round][at + 1]
    BY <1>1, <1>2, <1>4, <2>1, <2>2, Zenon DEF Explains
  <2>4. Explains(H)'
    <3>1. /\ len' = len /\ host' = host /\ round' = round /\ at' = at + 1 /\ block' = block
          /\ rounds' = rounds /\ salt' = salt
      BY <1>2, Zenon
    <3>. QED  BY <1>1, <1>5, <2>2, <2>3, <3>1, Zenon DEF Explains, Masked, SaltByte
  <2>. QED  BY <1>1, <1>5, <1>8, <1>9, <2>4 DEF SaltInv
<1>11. CASE host = "sender"
  <2>1. /\ round \in 0..Rounds /\ at \in 0..len /\ at + 1 \in 0..len /\ 0 \in 0..Rounds /\ 0 \in 0..len
    BY <1>2, <1>3
  <2>2. PICK G \in Histories :
          /\ G[round][at + 1] = perm'
          /\ \A r \in 0..Rounds, a \in 0..len : r # round \/ a # at + 1 => G[r][a] = H[r][a]
    <3>. DEFINE F == [H EXCEPT ![round][at + 1] = perm']
    <3>1. /\ F \in Histories /\ F[round][at + 1] = perm'
          /\ \A r \in 0..Rounds, a \in 0..len : r # round \/ a # at + 1 => F[r][a] = H[r][a]
      BY <1>1, <1>6, <2>1, Zenon DEF Histories
    <3>. HIDE DEF F
    <3>. QED  BY <3>1, Zenon
  <2>3. G[0][0] = Identity
    <3>1. at + 1 # 0
      BY <1>3
    <3>. QED  BY <1>1, <2>1, <2>2, <3>1, Zenon DEF Explains
  <2>4. ASSUME NEW r \in Turns, NEW a \in Positions, draws'[r][a] # NoDraw
        PROVE  G[r][a + 1] = Swapped(G[r][a], a, a + draws'[r][a])
    <3>1. r \in 0..Rounds /\ a \in 0..len /\ a + 1 \in 0..len
      BY <1>3, RoundsNat DEF Turns, Positions
    <3>2. CASE r = round /\ a = at
      <4>1. G[r][a] = H[r][a] /\ H[r][a] = perm
        <5>1. at # at + 1
          BY <1>3
        <5>. QED  BY <1>1, <2>2, <3>1, <3>2, <5>1, Zenon DEF Explains
      <4>. QED  BY <1>2, <1>7, <2>2, <3>2, <4>1, Zenon
    <3>3. CASE r # round \/ a # at
      <4>1. draws'[r][a] = draws[r][a]
        BY <1>7, <3>3, Zenon
      <4>2. r < round \/ (r = round /\ a < at)
        BY <1>3, <1>11, <2>4, <4>1, Zenon DEF SaltType
      <4>3. (r # round \/ a + 1 # at + 1) /\ (r # round \/ a # at + 1)
        BY <1>3, <3>1, <4>2
      <4>4. G[r][a + 1] = H[r][a + 1] /\ G[r][a] = H[r][a]
        BY <2>2, <3>1, <4>3, Zenon
      <4>. QED  BY <1>1, <2>4, <4>1, <4>4, Zenon DEF Explains
    <3>. QED  BY <3>2, <3>3, Zenon
  <2>5. ASSUME NEW r \in Turns, r < round  PROVE G[r + 1][0] = G[r][len]
    <3>1. r \in 0..Rounds /\ r + 1 \in 0..Rounds /\ len \in 0..len /\ r # round /\ 0 # at + 1
      BY <1>3, <2>5 DEF Turns
    <3>2. G[r + 1][0] = H[r + 1][0] /\ G[r][len] = H[r][len]
      BY <2>1, <2>2, <3>1, Zenon
    <3>. QED  BY <1>1, <2>5, <3>2, Zenon DEF Explains
  <2>6. Explains(G)'
    BY <1>2, <1>5, <1>11, <2>2, <2>3, <2>4, <2>5, Zenon DEF Explains
  <2>. QED  BY <1>5, <1>8, <1>9, <2>2, <2>6, Zenon DEF SaltInv
<1>. QED  BY <1>2, <1>3, <1>10, <1>11 DEF SaltType


\* The end of a round.
LEMMA RoundExplained ==
  ASSUME SaltInv, NextRound
  PROVE  SaltInv'
<1>1. PICK H \in Histories : Explains(H)
  BY DEF SaltInv
<1>2. /\ host # "done" /\ round < Rounds /\ at = len /\ round' = round + 1 /\ at' = 0
      /\ UNCHANGED <<len, rounds, host, perm, draws, block, salt>>
  BY DEF NextRound
<1>3. /\ SaltType /\ len \in Nat /\ rounds \in Nat /\ perm \in Perms /\ round \in 0..Rounds /\ Rounds \in Nat
  BY RoundsNat DEF SaltInv, SaltType
<1>4. round \in Turns /\ round + 1 \in 0..Rounds /\ 0 \in 0..len /\ 0 \in 0..Rounds /\ len \in 0..len
  BY <1>2, <1>3 DEF Turns
<1>5. /\ Rounds' = Rounds /\ Turns' = Turns /\ Positions' = Positions /\ Perms' = Perms
      /\ Histories' = Histories /\ Identity' = Identity
  BY <1>2, Zenon DEF Rounds, Turns, Positions, Perms, Histories, Identity
<1>6. SaltType'
  <2>1. \A r \in Turns, a \in Positions :
          (r < round \/ (r = round /\ a < at)) <=> (r < round + 1 \/ (r = round + 1 /\ a < 0))
    BY <1>2, <1>3 DEF Turns, Positions
  <2>2. \A r \in Turns, a \in Positions :
          draws[r][a] # NoDraw <=> host # "sender" \/ r < round + 1 \/ (r = round + 1 /\ a < 0)
    BY <1>3, <2>1, Zenon DEF SaltType
  <2>. QED  BY <1>2, <1>3, <1>4, <1>5, <2>2 DEF SaltType
<1>7. SaltSurvives'
  BY <1>2 DEF SaltSurvives
<1>8. CASE host = "receiver"
  <2>1. perm = H[round + 1][0]
    BY <1>1, <1>2, <1>4, <1>8, Zenon DEF Explains
  <2>2. Explains(H)'
    BY <1>1, <1>2, <1>5, <1>8, <2>1, Zenon DEF Explains
  <2>. QED  BY <1>1, <1>5, <1>6, <1>7, <2>2 DEF SaltInv
<1>9. CASE host = "sender"
  <2>1. PICK G \in Histories :
          /\ G[round + 1][0] = perm
          /\ \A r \in 0..Rounds, a \in 0..len : r # round + 1 \/ a # 0 => G[r][a] = H[r][a]
    <3>. DEFINE F == [H EXCEPT ![round + 1][0] = perm]
    <3>1. /\ F \in Histories /\ F[round + 1][0] = perm
          /\ \A r \in 0..Rounds, a \in 0..len : r # round + 1 \/ a # 0 => F[r][a] = H[r][a]
      BY <1>1, <1>3, <1>4, Zenon DEF Histories
    <3>. HIDE DEF F
    <3>. QED  BY <3>1, Zenon
  <2>2. G[0][0] = Identity
    <3>1. round + 1 # 0
      BY <1>3
    <3>. QED  BY <1>1, <1>4, <2>1, <3>1, Zenon DEF Explains
  <2>3. ASSUME NEW r \in Turns, NEW a \in Positions, draws[r][a] # NoDraw
        PROVE  G[r][a + 1] = Swapped(G[r][a], a, a + draws[r][a])
    <3>1. r \in 0..Rounds /\ a \in 0..len /\ a + 1 \in 0..len
      BY <1>3, RoundsNat DEF Turns, Positions
    <3>2. r < round \/ (r = round /\ a < at)
      BY <1>3, <1>9, <2>3, Zenon DEF SaltType
    <3>3. r # round + 1
      BY <1>3, <3>1, <3>2
    <3>4. G[r][a + 1] = H[r][a + 1] /\ G[r][a] = H[r][a]
      BY <2>1, <3>1, <3>3, Zenon
    <3>. QED  BY <1>1, <2>3, <3>4, Zenon DEF Explains
  <2>4. ASSUME NEW r \in Turns, r < round + 1  PROVE G[r + 1][0] = G[r][len]
    <3>1. r \in 0..Rounds /\ r + 1 \in 0..Rounds /\ r # round + 1 /\ (r < round \/ r = round)
      BY <1>3, <2>4 DEF Turns
    <3>2. G[r][len] = H[r][len]
      BY <1>4, <2>1, <3>1, Zenon
    <3>3. CASE r = round
      BY <1>1, <1>2, <2>1, <3>2, <3>3, Zenon DEF Explains
    <3>4. CASE r < round
      <4>1. r + 1 # round + 1
        BY <1>3, <3>1, <3>4
      <4>2. G[r + 1][0] = H[r + 1][0]
        BY <1>4, <2>1, <3>1, <4>1, Zenon
      <4>. QED  BY <1>1, <3>2, <3>4, <4>2, Zenon DEF Explains
    <3>. QED  BY <3>1, <3>3, <3>4, Zenon
  <2>5. Explains(G)'
    BY <1>2, <1>5, <1>9, <2>1, <2>2, <2>3, <2>4, Zenon DEF Explains
  <2>. QED  BY <1>5, <1>6, <1>7, <2>1, <2>5, Zenon DEF SaltInv
<1>. QED  BY <1>2, <1>3, <1>8, <1>9 DEF SaltType

\* write puts each byte of the salt at a position of its own.
LEMMA WriteExplained ==
  ASSUME SaltInv, WriteSalt
  PROVE  SaltInv'
<1>1. PICK H \in Histories : Explains(H)
  BY DEF SaltInv
<1>2. /\ host = "sender" /\ round = Rounds /\ block' = Written /\ host' = "receiver" /\ perm' = Identity
      /\ round' = 0 /\ at' = 0 /\ UNCHANGED <<len, rounds, draws, salt>>
  BY DEF WriteSalt, Shuffled
<1>3. /\ SaltType /\ len \in Nat /\ SaltLen <= len /\ rounds \in Nat /\ perm \in Perms /\ Rounds \in Nat
      /\ Rounds >= 1 /\ at = 0 /\ SaltLen \in Nat
  BY <1>2, RoundsNat, SaltAssumption DEF SaltInv, SaltType
<1>4. /\ Rounds' = Rounds /\ Turns' = Turns /\ Positions' = Positions /\ Perms' = Perms
      /\ Histories' = Histories /\ Identity' = Identity
  BY <1>2 DEF Rounds, Turns, Positions, Perms, Histories, Identity
<1>5. Identity \in Perms
  BY DEF Identity, Perms
<1>6. \A r \in Turns : r < round
  BY <1>2, <1>3 DEF Turns
<1>7. SaltType'
  <2>1. \A r \in Turns, a \in Positions : draws[r][a] # NoDraw
    BY <1>3, <1>6, Zenon DEF SaltType
  <2>2. block' = [i \in Positions |-> block'[i]]
    BY <1>2, Zenon DEF Written
  <2>3. round' \in 0..Rounds /\ at' \in 0..len
    BY <1>2, <1>3
  <2>. QED  BY <1>2, <1>3, <1>4, <1>5, <2>1, <2>2, <2>3, Zenon DEF SaltType
<1>8. ASSUME NEW k \in 0..(SaltLen - 1)
      PROVE  block'[perm[k]] = Masked(k, SaltByte(k))
  <2>1. 0..(SaltLen - 1) \subseteq Positions
    BY <1>3 DEF Positions
  <2>2. perm[k] \in Positions /\ \A i \in 0..(SaltLen - 1) : perm[i] = perm[k] => i = k
    BY <1>3, <2>1, Zenon DEF Perms
  <2>. DEFINE m == CHOOSE m \in 0..(SaltLen - 1) : perm[m] = perm[k]
  <2>3. m = k
    <3>1. m \in 0..(SaltLen - 1) /\ perm[m] = perm[k]
      BY Zenon
    <3>. QED  BY <2>2, <3>1, Zenon
  <2>4. block'[perm[k]] = Masked(m, SaltByte(m))
    BY <1>2, <2>2, Zenon DEF Written
  <2>. HIDE DEF m
  <2>. QED  BY <2>3, <2>4, Zenon
<1>9. Explains(H)'
  <2>1. perm = H[Rounds][0] /\ H[0][0] = Identity
    BY <1>1, <1>2, <1>3, Zenon DEF Explains
  <2>2. \A r \in Turns : H[r + 1][0] = H[r][len]
    BY <1>1, <1>6, Zenon DEF Explains
  <2>. QED  BY <1>1, <1>2, <1>4, <1>8, <2>1, <2>2, Zenon DEF Explains
<1>10. SaltSurvives'
  BY <1>2 DEF SaltSurvives
<1>. QED  BY <1>1, <1>4, <1>7, <1>9, <1>10 DEF SaltInv

\* extract_salt reads them back from where the same shuffle puts them.
LEMMA ExtractExplained ==
  ASSUME SaltInv, ExtractSalt
  PROVE  SaltInv'
<1>1. PICK H \in Histories : Explains(H)
  BY DEF SaltInv
<1>2. /\ host = "receiver" /\ round = Rounds /\ host' = "done"
      /\ salt' = [i \in 0..(SaltLen - 1) |-> Unmasked(i, block[perm[i]])]
      /\ UNCHANGED <<len, rounds, perm, round, at, draws, block>>
  BY Zenon DEF ExtractSalt, Shuffled
<1>3. SaltType /\ at = 0
  BY <1>2 DEF SaltInv, SaltType
<1>4. /\ Rounds' = Rounds /\ Turns' = Turns /\ Positions' = Positions /\ Perms' = Perms
      /\ Histories' = Histories /\ Identity' = Identity
  BY <1>2, Zenon DEF Rounds, Turns, Positions, Perms, Histories, Identity
<1>5. SaltType'
  BY <1>2, <1>3, <1>4, Zenon DEF SaltType
<1>6. \A k \in 0..(SaltLen - 1) : block[perm[k]] = Masked(k, SaltByte(k))
  BY <1>1, <1>2, <1>3, Zenon DEF Explains
<1>7. \A k \in 0..(SaltLen - 1) : Unmasked(k, block[perm[k]]) = SaltByte(k)
  BY <1>6 DEF Unmasked, Masked
<1>8. SaltSurvives'
  BY <1>2, <1>7, Zenon DEF SaltSurvives
<1>9. Explains(H)'
  BY <1>1, <1>2, <1>4, Zenon DEF Explains
<1>. QED  BY <1>1, <1>4, <1>5, <1>8, <1>9 DEF SaltInv
-----------------------------------------------------------------------------
(* The padding of the first v4 record. Its bits are counted.               *)

INSTANCE FiniteSetTheorems

\* The types the argument needs; before the loops nothing has been placed.
PaddingType ==
  /\ body \in Bodies
  /\ filling \in {"start", "ones", "zeros", "done", "failed"}
  /\ uniform \in BOOLEAN
  /\ target \in 0..Bits /\ j \in 0..Bits /\ set \subseteq AllBits
  /\ filling = "start" => target = 0 /\ set = {}

PInv == PaddingType /\ DrawsDistinct /\ OnesExact

\* The padding has finitely many bits, and so has what is set of them.
LEMMA BitsFinite ==
  ASSUME body \in Bodies
  PROVE  /\ Bits \in Nat /\ IsFiniteSet(AllBits) /\ Cardinality(AllBits) = Bits
         /\ \A S \in SUBSET AllBits :
              /\ IsFiniteSet(S) /\ Cardinality(S) \in Nat
              /\ Cardinality(AllBits \ S) = Bits - Cardinality(S)
<1>1. Bits \in Nat
  BY PaddingAssumption DEF Bits
<1>2. IsFiniteSet(AllBits) /\ Cardinality(AllBits) = Bits
  BY <1>1, FS_Interval DEF AllBits
<1>3. ASSUME NEW S \in SUBSET AllBits
      PROVE  /\ IsFiniteSet(S) /\ Cardinality(S) \in Nat
             /\ Cardinality(AllBits \ S) = Bits - Cardinality(S)
  <2>1. IsFiniteSet(S) /\ Cardinality(S) \in Nat
    BY <1>2, FS_Subset, FS_CardinalityType
  <2>2. AllBits \cap S = S
    OBVIOUS
  <2>3. Cardinality(AllBits \ S) = Cardinality(AllBits) - Cardinality(AllBits \cap S)
    BY <1>2, FS_Difference, Zenon
  <2>. QED  BY <1>2, <2>1, <2>2, <2>3
<1>. QED  BY <1>1, <1>2, <1>3, Zenon

\* A quotient of a number up to b times the divisor is at most b.
LEMMA Quotient ==
  ASSUME NEW s \in Nat, NEW b \in Nat, NEW d \in Nat \ {0}, s <= b * d
  PROVE  s \div d \in 0..b
<1>. DEFINE q == s \div d
            r == s % d
<1>1. q \in Int /\ r \in 0..(d - 1) /\ s = d * q + r
  OBVIOUS
<1>. HIDE DEF q, r
<1>2. q >= 0
  <2>. SUFFICES ASSUME q < 0  PROVE FALSE
    BY <1>1
  <2>1. q <= -1
    BY <1>1
  <2>2. d * q <= -d
    BY <1>1, <2>1
  <2>. QED  BY <1>1, <2>2
<1>3. q <= b
  <2>. SUFFICES ASSUME q > b  PROVE FALSE
    BY <1>1
  <2>1. q >= b + 1
    BY <1>1
  <2>2. d * q >= d * (b + 1)
    BY <1>1, <2>1
  <2>3. d * (b + 1) = b * d + d
    OBVIOUS
  <2>. QED  BY <1>1, <2>2, <2>3
<1>. QED  BY <1>1, <1>2, <1>3 DEF q

\* fill_padding_bits starts its loops with nothing placed.
LEMMA FillStarts ==
  ASSUME PInv, NEW ones \in 0..Bits, FillPaddingBits(ones)
  PROVE  PInv'
<1>1. body \in Bodies /\ body' = body /\ uniform' = uniform
  BY DEF PInv, PaddingType, FillPaddingBits
<1>2. Bits \in Nat /\ Bits' = Bits /\ AllBits' = AllBits
  BY <1>1, BitsFinite DEF Bits, AllBits
<1>3. Cardinality({}) = 0
  BY FS_EmptySet
<1>4. CASE StartOnes(ones)
  <2>1. filling' = "ones" /\ target' = ones /\ set' = {} /\ j' = Bits - ones
    BY <1>4 DEF StartOnes
  <2>2. PaddingType'
    BY <1>1, <1>2, <2>1 DEF PInv, PaddingType
  <2>3. DrawsDistinct'
    BY <1>2, <1>3, <2>1 DEF DrawsDistinct
  <2>. QED  BY <2>1, <2>2, <2>3 DEF PInv, OnesExact
<1>5. CASE StartZeros(ones)
  <2>1. filling' = "zeros" /\ target' = ones /\ set' = AllBits /\ j' = ones
    BY <1>5 DEF StartZeros
  <2>2. PaddingType'
    BY <1>1, <1>2, <2>1 DEF PInv, PaddingType
  <2>3. AllBits' \ set' = {}
    BY <1>2, <2>1
  <2>4. DrawsDistinct'
    BY <1>2, <1>3, <2>1, <2>3 DEF DrawsDistinct
  <2>. QED  BY <2>1, <2>2, <2>4 DEF PInv, OnesExact
<1>. QED  BY <1>4, <1>5 DEF FillPaddingBits

\* One turn of a loop places one position more, and none at j or behind it.
LEMMA PlacePreserves ==
  ASSUME PInv, NEW candidate \in 0..j, Place(candidate)
  PROVE  PInv'
<1>1. /\ body \in Bodies /\ body' = body /\ uniform' = uniform /\ target' = target
      /\ filling' = filling /\ filling \in {"ones", "zeros"} /\ j < Bits /\ j' = j + 1
      /\ target \in 0..Bits /\ j \in 0..Bits /\ set \subseteq AllBits /\ uniform \in BOOLEAN
  BY DEF PInv, PaddingType, Place, Looping
<1>2. Bits \in Nat /\ Bits' = Bits /\ AllBits' = AllBits
  BY <1>1, BitsFinite, Zenon DEF Bits, AllBits
<1>3. 0..j \subseteq AllBits
  BY <1>1, <1>2 DEF AllBits
<1>4. CASE filling = "ones"
  <2>. DEFINE x == IF candidate \in set THEN j ELSE candidate
  <2>1. set \subseteq 0..(j - 1) /\ Cardinality(set) = j - (Bits - target)
    BY <1>4 DEF PInv, DrawsDistinct
  <2>2. x \notin set /\ x \in 0..j
    BY <1>1, <1>2, <2>1
  <2>. HIDE DEF x
  <2>3. set' = set \cup {x}
    BY <1>4 DEF Place, x
  <2>4. Cardinality(set') = Cardinality(set) + 1
    BY <1>1, <2>2, <2>3, BitsFinite, FS_AddElement, Zenon
  <2>5. set' \subseteq 0..j
    BY <1>1, <1>2, <2>1, <2>2, <2>3
  <2>6. DrawsDistinct'
    <3>1. set' \subseteq 0..(j' - 1) /\ Cardinality(set') = j' - (Bits' - target')
      <4>1. j \in Int /\ Bits \in Int /\ target \in Int
        BY <1>1, <1>2
      <4>2. (j + 1) - 1 = j /\ j - (Bits - target) + 1 = (j + 1) - (Bits - target)
        BY <4>1
      <4>. QED  BY <1>1, <1>2, <2>1, <2>4, <2>5, <4>2, Zenon
    <3>2. filling' = "ones"
      BY <1>1, <1>4, Zenon
    <3>. QED  BY <3>1, <3>2, Zenon DEF DrawsDistinct
  <2>7. PaddingType'
    <3>1. set' \subseteq AllBits' /\ j' \in 0..Bits'
      BY <1>1, <1>2, <1>3, <2>5
    <3>. QED  BY <1>1, <1>2, <1>4, <3>1 DEF PaddingType
  <2>. QED  BY <1>1, <2>6, <2>7 DEF PInv, OnesExact
<1>5. CASE filling = "zeros"
  <2>. DEFINE x == IF candidate \notin set THEN j ELSE candidate
              C == AllBits \ set
  <2>1. C \subseteq 0..(j - 1) /\ Cardinality(C) = j - target
    BY <1>5 DEF PInv, DrawsDistinct
  <2>2. x \in set /\ x \in 0..j /\ x \in AllBits
    BY <1>1, <1>2, <1>3, <2>1
  <2>. HIDE DEF x
  <2>3. set' = set \ {x}
    BY <1>5 DEF Place, x
  <2>4. AllBits' \ set' = C \cup {x} /\ x \notin C
    BY <1>2, <2>2, <2>3
  <2>5. IsFiniteSet(C)
    BY <1>1, BitsFinite
  <2>6. Cardinality(AllBits' \ set') = Cardinality(C) + 1
    BY <2>4, <2>5, FS_AddElement
  <2>7. AllBits' \ set' \subseteq 0..j
    <3>1. 0..(j - 1) \subseteq 0..j
      BY <1>1, <1>2
    <3>. QED  BY <2>1, <2>2, <2>4, <3>1, Zenon
  <2>8. DrawsDistinct'
    <3>1. AllBits' \ set' \subseteq 0..(j' - 1) /\ Cardinality(AllBits' \ set') = j' - target'
      <4>1. j \in Int /\ target \in Int
        BY <1>1, <1>2
      <4>2. (j + 1) - 1 = j /\ j - target + 1 = (j + 1) - target
        BY <4>1
      <4>. QED  BY <1>1, <2>1, <2>6, <2>7, <4>2, Zenon
    <3>2. filling' = "zeros"
      BY <1>1, <1>5, Zenon
    <3>. QED  BY <3>1, <3>2, Zenon DEF DrawsDistinct
  <2>9. PaddingType'
    <3>1. set' \subseteq AllBits' /\ j' \in 0..Bits'
      BY <1>1, <1>2, <2>3
    <3>. QED  BY <1>1, <1>2, <1>5, <3>1 DEF PaddingType
  <2>. QED  BY <1>1, <2>8, <2>9 DEF PInv, OnesExact
<1>. QED  BY <1>1, <1>4, <1>5

\* The loops end with the target reached.
LEMMA FinishExact ==
  ASSUME PInv, Finish
  PROVE  PInv'
<1>1. /\ body \in Bodies /\ set \subseteq AllBits /\ target \in 0..Bits
      /\ body' = body /\ set' = set /\ target' = target /\ j' = j /\ uniform' = uniform
      /\ filling \in {"ones", "zeros"} /\ filling' = "done" /\ j = Bits
  BY DEF PInv, PaddingType, Finish
<1>2. Bits \in Nat /\ Bits' = Bits /\ AllBits' = AllBits
  BY <1>1, BitsFinite DEF Bits, AllBits
<1>3. Cardinality(set) \in Nat /\ Cardinality(AllBits \ set) = Bits - Cardinality(set)
  BY <1>1, BitsFinite
<1>4. Cardinality(set) = target
  <2>1. CASE filling = "ones"
    BY <1>1, <1>2, <2>1 DEF PInv, DrawsDistinct
  <2>2. CASE filling = "zeros"
    <3>1. Cardinality(AllBits \ set) = Bits - target
      BY <1>1, <2>2 DEF PInv, DrawsDistinct
    <3>. QED  BY <1>1, <1>2, <1>3, <3>1
  <2>. QED  BY <1>1, <2>1, <2>2
<1>5. PaddingType'
  BY <1>1, <1>2 DEF PInv, PaddingType
<1>. QED  BY <1>1, <1>4, <1>5 DEF PInv, DrawsDistinct, OnesExact

\* A step that ends the filling otherwise, or places nothing.
LEMMA OtherSteps ==
  ASSUME PInv,
         body' = body /\ set' = set /\ target' = target /\ j' = j,
         \/ uniform' = uniform /\ filling' \in {filling, "failed"}
         \/ uniform' = TRUE /\ filling' = "done"
  PROVE  PInv'
<1>1. Bits' = Bits /\ AllBits' = AllBits
  BY DEF Bits, AllBits
<1>2. PaddingType'
  BY <1>1, Zenon DEF PInv, PaddingType
<1>3. DrawsDistinct'
  BY <1>1 DEF PInv, PaddingType, DrawsDistinct
<1>. QED  BY <1>2, <1>3 DEF PInv, PaddingType, OnesExact

\* fill_v4_padding as a whole: the target it asks for fits the padding.
LEMMA FillPreserves ==
  ASSUME PInv, FillV4Padding
  PROVE  PInv'
<1>1. body \in Bodies /\ Bits \in Nat /\ filling = "start" /\ target = 0 /\ set = {}
  BY BitsFinite DEF PInv, PaddingType, FillV4Padding
<1>2. body.padding \in Nat /\ body.cipher \in Nat /\ body.ones \in Nat
  BY <1>1, PaddingAssumption
<1>3. CASE body.padding = 0
  <2>1. /\ filling' = "done" /\ UNCHANGED <<body, uniform, target, set, j, word>>
    BY <1>3 DEF FillV4Padding
  <2>2. Bits' = Bits /\ AllBits' = AllBits
    BY <2>1 DEF Bits, AllBits
  <2>3. PaddingType'
    BY <2>1, <2>2 DEF PInv, PaddingType
  <2>. QED  BY <1>1, <2>1, <2>3, FS_EmptySet, Zenon DEF PInv, DrawsDistinct, OnesExact
<1>4. CASE EntropyFails
  BY <1>4, OtherSteps DEF EntropyFails
<1>5. CASE FillUniform
  BY <1>5, OtherSteps DEF FillUniform
<1>6. ASSUME NEW jitter \in Jitters,
             TargetScaled(TargetRatio(jitter)) >= 0,
             TargetScaled(TargetRatio(jitter)) <= Bits * Scale(TargetRatio(jitter)),
             FillPaddingBits(TargetScaled(TargetRatio(jitter)) \div Scale(TargetRatio(jitter)))
      PROVE  PInv'
  <2>. DEFINE scaled == TargetScaled(TargetRatio(jitter))
              scale == Scale(TargetRatio(jitter))
  <2>1. TargetRatio(jitter) \in Nat
    BY <1>2, PaddingAssumption DEF TargetRatio
  <2>2. scale \in Nat \ {0} /\ scaled \in Int
    BY <1>2, <2>1 DEF Scale, TargetScaled
  <2>. HIDE DEF scaled, scale
  <2>3. scaled \in Nat /\ scaled <= Bits * scale
    BY <1>6, <2>2 DEF scaled, scale
  <2>4. scaled \div scale \in 0..Bits
    BY <1>1, <2>2, <2>3, Quotient
  <2>. QED  BY <1>6, <2>4, FillStarts DEF scaled, scale
<1>7. CASE body.padding # 0 /\ ~EntropyFails /\ ~FillUniform
  <2>1. PICK jitter \in Jitters :
          LET ratio == TargetRatio(jitter)
              scaled == TargetScaled(ratio)
          IN  IF scaled < 0 \/ scaled > Bits * Scale(ratio)
              THEN FillUniform
              ELSE FillPaddingBits(scaled \div Scale(ratio))
    BY <1>7 DEF FillV4Padding
  <2>2. TargetRatio(jitter) \in Nat
    BY <1>2, PaddingAssumption DEF TargetRatio
  <2>3. TargetScaled(TargetRatio(jitter)) \in Int /\ Bits * Scale(TargetRatio(jitter)) \in Int
    BY <1>1, <1>2, <2>2 DEF TargetScaled, Scale
  <2>. QED  BY <1>6, <1>7, <2>1, <2>3
<1>. QED  BY <1>3, <1>4, <1>5, <1>7
-----------------------------------------------------------------------------
\* A sealed record lies in the room it reserved and in the peer's buffer, with
\* lengths the peer accepts, and a record has room for the data it was asked
\* for, for every profile that Profile::derive can give, every draw, every hint
\* and every order of reservations, seals and idle times (V4Encoder and
\* V6ShapedEncoder, reserve and finish).
THEOREM RecordsFit == Spec => []Fits
<1>1. LInv /\ [Next]_vars => LInv'
  BY LengthsStep
<1>. QED  BY <1>1, LengthsInit, LengthsFit, PTL DEF Spec

\* Once the peer has opened a record every byte that seal_record exchanged is
\* back on its side, for every profile, overlap and draw, through empty records,
\* cancelled reservations and the wrap of the sequence number
\* (V4Decoder::decode, V6ShapedDecoder::decode).
THEOREM BytesRestored == Spec => []Restored
<1>1. LInv /\ EInv /\ [Next]_vars => LInv' /\ EInv'
  BY LengthsStep, ExchangeStep
<1>2. EInv => Restored
  BY DEF EInv, Restored
<1>. QED  BY <1>1, <1>2, LengthsInit, ExchangeInit, PTL DEF Spec

\* The receiver extracts the sender's salt, each byte in its place, for every
\* length of the salt block, every number of rounds and every sequence of draws
\* (shuffle_perm, write_salt_block and extract_salt).
THEOREM SaltExtracted == SaltSpec => []SaltSurvives
<1>1. SaltInv /\ [SaltNext]_saltVars => SaltInv'
  <2>. SUFFICES ASSUME SaltInv, [SaltNext]_saltVars  PROVE SaltInv'
    OBVIOUS
  <2>1. CASE UNCHANGED saltVars
    <3>1. UNCHANGED <<len, rounds, host, perm, round, at, draws, block, salt>>
      BY <2>1, Zenon DEF saltVars
    <3>2. SaltType' /\ SaltSurvives'
      BY <3>1, Zenon DEF SaltInv, SaltType, SaltSurvives, Turns, Rounds, Positions, Perms
    <3>3. PICK H \in Histories : Explains(H)
      BY DEF SaltInv
    <3>4. H \in Histories'
      BY <3>1, <3>3, Zenon DEF Histories, Turns, Rounds, Positions, Perms
    <3>5. Explains(H)'
      BY <3>1, <3>3, Zenon DEF Explains, Turns, Rounds, Positions, Perms, Identity
    <3>. QED  BY <3>2, <3>4, <3>5, Zenon DEF SaltInv
  <2>. QED  BY <2>1, SwapExplained, RoundExplained, WriteExplained, ExtractExplained, Zenon DEF SaltNext
<1>2. SaltInv => SaltSurvives
  BY DEF SaltInv
<1>. QED  BY <1>1, <1>2, SaltStart, PTL DEF SaltSpec

\* The padding of the first v4 record has exactly the number of one bits that
\* fill_v4_padding chose for it, unless it was left to the entropy source, for
\* every body, every jitter and every sequence of draws.
THEOREM PaddingOnesExact == PaddingSpec => []OnesExact
<1>1. PaddingInit => PInv
  <2>. SUFFICES ASSUME PaddingInit  PROVE PInv
    OBVIOUS
  <2>1. Bits \in Nat
    BY BitsFinite DEF PaddingInit
  <2>2. PaddingType
    <3>1. 0 \in 0..Bits
      BY <2>1
    <3>. QED  BY <3>1, Zenon DEF PaddingInit, PaddingType
  <2>. QED  BY <2>2 DEF PaddingInit, PInv, DrawsDistinct, OnesExact
<1>2. PInv /\ [PaddingNext]_paddingVars => PInv'
  <2>. SUFFICES ASSUME PInv, [PaddingNext]_paddingVars  PROVE PInv'
    OBVIOUS
  <2>1. CASE FillV4Padding
    BY <2>1, FillPreserves
  <2>2. CASE Refill \/ Reject
    BY <2>2, OtherSteps, Zenon DEF Refill, Reject, EntropyFails
  <2>3. CASE PlaceOne
    BY <2>3, PlacePreserves DEF PlaceOne
  <2>4. CASE Finish
    BY <2>4, FinishExact
  <2>5. CASE UNCHANGED paddingVars
    BY <2>5, OtherSteps DEF paddingVars
  <2>. QED  BY <2>1, <2>2, <2>3, <2>4, <2>5 DEF PaddingNext
<1>3. PInv => OnesExact
  BY DEF PInv
<1>. QED  BY <1>1, <1>2, <1>3, PTL DEF PaddingSpec
=============================================================================
