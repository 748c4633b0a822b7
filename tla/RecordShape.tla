---------------------------- MODULE RecordShape ----------------------------
(***************************************************************************)
(* The lengths of the records an encoder seals, over its lifetime: the     *)
(* chunk window of v4 and v5 (crates/snell-protocol/src/codec/v4/chunk.rs) *)
(* and the shaped codec's budgets and padding (codec/v6/shaped.rs, with    *)
(* the Profile). A record is reserved, then sealed or cancelled, and the   *)
(* peer opens it, undoing the exchange of padding and payload bytes. Time  *)
(* passes between any two steps, so a budget may be old when it is used.   *)
(*                                                                         *)
(* Time is kept relative (the age of the last write, and how long the      *)
(* reservation is held) and only around the idle limit, where the code     *)
(* tells times apart. No caller gives reserve a prefix.                    *)
(***************************************************************************)
EXTENDS Profile

CONSTANTS RawProfiles,  \* PRF outputs that profiles are derived from
          Paddings,     \* initial_padding_len of v4 encoders
          Hints,        \* bytes a caller asks for
          Commits,      \* bytes a caller commits, besides all of the room
          Draws,        \* PRF outputs for one record
          SeqModulus,   \* sequence numbers wrap here (u32)
          Tracked,      \* bytes of the overlap of padding and payload tracked
          None

V4_MSS_BASE == 1460
V4_FIRST_RECORD_OVERHEAD == 55
V4_RESET_OVERHEAD == 39
V4_IDLE_RESET_SECS == 30
V4_WIRE_CAP == SALT_LEN + HEADER_CIPHER_LEN + MAX_PACKET_SIZE + MAX_PACKET_SIZE + TAG_LEN
V6_WIRE_CAP ==
  MAX_SALT_BLOCK_LEN + V6_MAX_PREFIX_LEN + HEADER_CIPHER_LEN + 2 * MAX_EXTRA_TARGET_PADDING
    + MAX_PACKET_SIZE_V6 + TAG_LEN

\* V4_INITIAL_PADDING_MIN plus a draw below V4_INITIAL_PADDING_SPAN.
InitialPaddings == 256..511

RecordDraw ==
  [chunk : Nat, prefix : Nat, pad : Nat, bucket : Nat, jitter : Nat, sign : Nat, next : Nat,
   offset : [0..2 -> Nat]]

ASSUME ShapeAssumption ==
  /\ Paddings \subseteq InitialPaddings
  /\ Hints \subseteq 0..MAX_PACKET_SIZE_V6
  /\ Draws \subseteq RecordDraw /\ RawProfiles \subseteq RawProfile
  /\ SeqModulus \in Nat \ {0} /\ Tracked \in Nat
  /\ None \notin {Derive(r) : r \in RawProfiles}

VARIABLES profile,  \* the profile of the PSK, None for v4
          initial,  \* initial_padding_len, None for the shaped codec
          size,     \* limit of the v4 window, or chunk_size
          seq,      \* sequence number of the next record
          sent,     \* a record was sealed: the salt is sent
          age,      \* seconds since the last write, to just past the idle limit
          held,     \* seconds since the record was reserved
          phase,    \* "ready", "reserved", "target", "sealed" or "failed"
          rec,      \* the record under way
          peer,     \* the peer's sequence number
          swapped   \* tracked bytes of the last record on the wrong side

codec == <<profile, initial>>
vars == <<codec, size, seq, sent, age, held, phase, rec, peer, swapped>>

V4 == profile = None
IdleReset == IF V4 THEN V4_IDLE_RESET_SECS ELSE profile.idle_reset_secs

Init ==
  /\ \/ profile = None /\ initial \in Paddings
     \/ profile \in {Derive(r) : r \in RawProfiles} /\ initial = None
  /\ size = 0 /\ seq = 0 /\ sent = FALSE /\ age = 0 /\ held = 0
  /\ phase = "ready" /\ rec = None /\ peer = 0 /\ swapped = {}

\* Time passes to the idle limit of the last write, or beyond it.
Tick ==
  /\ sent /\ phase \in {"ready", "reserved"}
  /\ \E a \in {IdleReset, IdleReset + 1} :
       /\ a > age /\ age' = a
       /\ held' = IF phase = "reserved" THEN held + a - age ELSE 0
  /\ UNCHANGED <<codec, size, seq, sent, phase, rec, peer, swapped>>
-----------------------------------------------------------------------------
(* Reserving a record.                                                     *)

\* Mutant: one byte of a stream is held back.
PayloadLenShort(kind, hint, limit) ==
  IF kind = "stream" THEN Greater(Lesser(hint, limit) - 1, 0) ELSE hint

\* RecordSize::payload_len; a datagram must fit whole.
PayloadLen(kind, hint, limit) == IF kind = "stream" THEN Lesser(hint, limit) ELSE hint

NextChunkLimit(limit) == Lesser(limit + V4_MSS_BASE - V4_RESET_OVERHEAD, MAX_PACKET_SIZE)

\* V4ChunkState::record_budget.
RecordBudget ==
  CASE ~sent -> Greater(V4_MSS_BASE - (V4_FIRST_RECORD_OVERHEAD + initial), 0)
    [] sent /\ age > V4_IDLE_RESET_SECS -> V4_MSS_BASE - V4_RESET_OVERHEAD
    [] OTHER -> size

NewRecord(kind, hint) ==
  [kind |-> kind, hint |-> hint, budget |-> 0, draw |-> None, max |-> 0, room |-> 0,
   salt |-> 0, prefix |-> 0, pad |-> 0, payload |-> 0, current |-> 0, target |-> 0]

\* V4Encoder::reserve.
ReserveV4(kind, hint) ==
  LET max == PayloadLen(kind, hint, RecordBudget)
      pad == IF ~sent /\ max > 0 THEN initial ELSE 0
      salt == IF sent THEN 0 ELSE SALT_LEN
  IN  /\ V4
      /\ kind = "datagram" => hint <= MAX_PACKET_SIZE
      /\ rec' = [NewRecord(kind, hint) EXCEPT
                   !.budget = RecordBudget, !.max = max, !.salt = salt, !.pad = pad,
                   !.room = salt + HEADER_CIPHER_LEN + pad + max + TAG_LEN]
      /\ UNCHANGED size

\* payload_budget: the window starts over after an idle time.
ChunkSize ==
  IF size = 0 \/ (sent /\ age > profile.idle_reset_secs) THEN profile.chunk_initial ELSE size

PayloadBudget(raw) ==
  LET limit == Lesser(ChunkLimit(profile, ChunkSize, raw), MAX_PACKET_SIZE_V6)
  IN  IF seq = 0 THEN Lesser(limit, profile.first_record_cap) ELSE limit

\* V6ShapedEncoder::reserve. Only a stream record looks at the window.
ReserveShaped(kind, hint, draw) ==
  LET max == PayloadLen(kind, hint, PayloadBudget(draw.chunk))
      salt == IF sent THEN 0 ELSE profile.salt_block_len
      prefix == Pick(draw.prefix, profile.prefix_min, profile.prefix_max)
  IN  /\ ~V4
      /\ rec' = [NewRecord(kind, hint) EXCEPT
                   !.draw = draw, !.max = max, !.salt = salt, !.prefix = prefix,
                   !.room = salt + prefix + HEADER_CIPHER_LEN + MaxPaddingLen(profile) + max + TAG_LEN]
      /\ size' = IF kind = "stream" THEN ChunkSize ELSE size

Reserve(kind, hint) ==
  /\ phase = "ready"
  /\ ReserveV4(kind, hint) \/ \E draw \in Draws : ReserveShaped(kind, hint, draw)
  /\ phase' = "reserved" /\ held' = 0
  /\ UNCHANGED <<codec, seq, sent, age, peer, swapped>>

\* The reservation is dropped; what it did to the window stays.
Cancel ==
  /\ phase = "reserved"
  /\ phase' = "ready" /\ rec' = None /\ held' = 0
  /\ UNCHANGED <<codec, size, seq, sent, age, peer, swapped>>
-----------------------------------------------------------------------------
(* Sealing it with n bytes of payload.                                     *)

\* The bytes of padding and of sealed payload that lie side by side.
Overlap(r) == Lesser(r.pad, BodyLenOf(r.payload))

\* V4Encoder::finish, with V4ChunkState::commit_write: an empty record has no
\* padding, and the window counts from the reservation.
SealV4(n) ==
  /\ phase = "reserved" /\ V4
  /\ rec' = [rec EXCEPT !.payload = n, !.pad = IF n = 0 THEN 0 ELSE @]
  /\ swapped' = SwappedEven(Overlap(rec'), Tracked)
  /\ size' = NextChunkLimit(rec.budget)
  /\ age' = held
  /\ phase' = "sealed" /\ sent' = TRUE /\ held' = 0
  /\ UNCHANGED <<codec, seq, peer>>

\* fill_v4_padding fails for want of entropy: the nonce has moved, so the
\* encoder is poisoned and the window stays.
SealFails ==
  /\ phase = "reserved" /\ V4 /\ rec.pad > 0
  /\ phase' = "failed" /\ rec' = None /\ held' = 0
  /\ UNCHANGED <<codec, size, seq, sent, age, peer, swapped>>

\* final_padding_len up to the loop of write_target_len.
ChooseTarget(n) ==
  /\ phase = "reserved" /\ ~V4
  /\ LET base == BasePad(profile, seq, n, rec.draw.pad)
         current == CurrentLen(profile, rec.prefix, base, n, ~sent)
     IN  rec' = [rec EXCEPT !.payload = n, !.pad = base, !.current = current,
                            !.target = FirstTarget(profile, seq, current, rec.draw)]
  /\ phase' = "target"
  /\ UNCHANGED <<codec, size, seq, sent, age, held, peer, swapped>>

\* The loop of write_target_len; a target beyond u16 ends it.
RaiseTarget ==
  /\ phase = "target" /\ rec.current > rec.target
  /\ \E draw \in Draws :
       LET up == Raised(profile, rec.target, draw.next)
       IN  rec' = [rec EXCEPT !.target = IF up > MAX_PACKET_SIZE_V6 THEN NO_TARGET ELSE up]
  /\ UNCHANGED <<codec, size, seq, sent, age, held, phase, peer, swapped>>

\* The rest of V6ShapedEncoder::finish: seal_record, and the window advances.
SealShaped ==
  /\ phase = "target" /\ rec.current <= rec.target
  /\ rec' = [rec EXCEPT !.pad = @ + ExtraPad(rec.current, rec.target)]
  /\ swapped' = Mixed(profile, Overlap(rec'), rec.draw.offset, Tracked)
  /\ size' = AdvanceChunkSize(profile, size)
  /\ seq' = (seq + 1) % SeqModulus
  /\ sent' = TRUE /\ age' = 0 /\ held' = 0 /\ phase' = "sealed"
  /\ UNCHANGED <<codec, peer>>
-----------------------------------------------------------------------------
(* The peer's decoder.                                                     *)

\* Mutant: a record without payload is not counted.
NextRecordOfData == IF rec.payload = 0 THEN peer ELSE (peer + 1) % SeqModulus

\* V6ShapedDecoder::next_record.
NextRecord == (peer + 1) % SeqModulus

SymmetricDiff(a, b) == (a \ b) \cup (b \ a)

\* V4Decoder::decode exchanges the bytes again.
OpenV4 ==
  /\ phase = "sealed" /\ V4
  /\ swapped' = SymmetricDiff(swapped, SwappedEven(Overlap(rec), Tracked))
  /\ phase' = "ready" /\ rec' = None
  /\ UNCHANGED <<codec, size, seq, sent, age, held, peer>>

\* V6ShapedDecoder::decode, with the draws of its own sequence number.
OpenShaped(draw) ==
  /\ phase = "sealed" /\ ~V4
  /\ (peer + 1) % SeqModulus = seq => draw = rec.draw
  /\ swapped' = SymmetricDiff(swapped, Mixed(profile, Overlap(rec), draw.offset, Tracked))
  /\ peer' = NextRecord
  /\ phase' = "ready" /\ rec' = None
  /\ UNCHANGED <<codec, size, seq, sent, age, held>>

\* Payload lengths a caller commits. The code takes any up to the room there
\* is, which is Commits = Nat; an instance may take fewer.
Payloads == (Commits \cap 0..rec.max) \cup {rec.max}

Next ==
  \/ Tick \/ Cancel \/ SealFails \/ RaiseTarget \/ SealShaped \/ OpenV4
  \/ \E kind \in {"stream", "datagram"}, hint \in Hints : Reserve(kind, hint)
  \/ phase = "reserved" /\ \E n \in Payloads : SealV4(n) \/ ChooseTarget(n)
  \/ \E draw \in Draws : OpenShaped(draw)

Fairness == WF_vars(RaiseTarget) /\ WF_vars(SealShaped)

Spec == Init /\ [][Next]_vars /\ Fairness
-----------------------------------------------------------------------------
WireLen(r) == r.salt + r.prefix + HEADER_CIPHER_LEN + r.pad + BodyLenOf(r.payload)

\* A sealed record lies in the room it reserved and in the decoder's buffer,
\* and its lengths are ones the peer's header check accepts: the padding is
\* chosen only after the room, from the final payload, and in v4 was counted
\* into the room before it turned out that the record is empty. And a record
\* asked for to carry stream data has room for some, a datagram for all of it,
\* in every window, for every profile and draw: the callers that read into the
\* room take an empty read for the end of the stream, and write_plain_records
\* gives up on an empty one.
Fits ==
  /\ phase = "reserved" =>
       rec.max >= (IF rec.kind = "stream" THEN Lesser(rec.hint, 64) ELSE rec.hint)
  /\ phase = "sealed" =>
       /\ WireLen(rec) <= rec.room
       /\ rec.room <= IF V4 THEN V4_WIRE_CAP ELSE V6_WIRE_CAP
       /\ IF V4 THEN /\ rec.pad <= MAX_PACKET_SIZE /\ rec.payload <= MAX_PACKET_SIZE
                     /\ rec.payload = 0 => rec.pad = 0
                ELSE rec.pad <= MaxPaddingLen(profile) /\ rec.payload <= MAX_PACKET_SIZE_V6

\* Once the peer has opened a record every byte is back on its side: both ends
\* agree on the overlap, on the rounds and on the sequence number that the
\* draws are made for, through empty records, cancelled reservations and the
\* wrap of the sequence number.
Restored == phase = "ready" => swapped = {}

\* The loop that raises the target length ends, for every profile and draw.
TargetEnds == phase = "target" ~> phase = "sealed"
=============================================================================
