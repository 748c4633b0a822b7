---------------------------- MODULE RecordCodec ----------------------------
(***************************************************************************)
(* A record encoder and the decoder of its peer, with the two Buffers they *)
(* work in (crates/snell-protocol/src: buffer.rs, codec/v4, codec/v6). The *)
(* encoder reserves a record in its buffer, has the payload written into   *)
(* it, and seals it in place; a reservation may be cancelled and a seal    *)
(* may fail. The decoder opens records in place and may decode ahead of    *)
(* what is consumed.                                                       *)
(*                                                                         *)
(* Buffers hold tokens: the salt, a header with its tag, the profile's     *)
(* record prefix, padding, payload bytes and the payload's tag are one     *)
(* token each. A sealed token carries the nonce and sequence number it was *)
(* sealed under, and opens under these only.                               *)
(***************************************************************************)
EXTENDS Integers, Sequences, SequencesExt

CONSTANTS Flavors,     \* codecs: a subset of {"v4", "shaped", "unshaped", "raw"}
          Attempts,    \* bound on the records reserved
          MaxPayload,  \* largest payload reserved
          MaxPadding,  \* initial_padding_len of v4, max_padding_len of a profile
          SeqModulus,  \* sequence numbers wrap here (u32)
          OutMax,      \* max of the encoder's buffer
          InMax,       \* max of the decoder's buffer
          None

ASSUME BoundsAssumption ==
  /\ Attempts \in Nat /\ MaxPayload \in Nat /\ MaxPadding \in Nat
  /\ SeqModulus \in Nat \ {0} /\ OutMax \in Nat /\ InMax \in Nat

VARIABLES flavor,
          out,       \* the encoder's buffer
          enc,       \* the encoder
          slot,      \* the outstanding reservation
          attempts,  \* reservations so far
          splits,    \* records in out, as (split, length)
          wire,      \* tokens written and not yet read
          inb,       \* the decoder's buffer
          dec,       \* the decoder
          ready,     \* records decoded and not consumed, as ranges of filled()
          used,      \* history: the nonces records were sealed under
          emitted,   \* history: what was sealed, payload bytes and zero chunks
          got        \* history: what was read from decoded records

encoder == <<out, enc, slot, attempts, splits, used, emitted>>
decoder == <<inb, dec, ready, got>>
vars == <<flavor, encoder, wire, decoder>>
-----------------------------------------------------------------------------
(* Buffer.                                                                 *)

EmptyBuffer == [data |-> <<>>, start |-> 0]
Live(b) == Len(b.data) - b.start
Filled(b) == SubSeq(b.data, b.start + 1, Len(b.data))

Compacted(b) == [data |-> Filled(b), start |-> 0]

\* spare_capacity_mut for n tokens that fit: compacts when the tail is short.
Spare(b, max, n) == IF max - Len(b.data) < n THEN Compacted(b) ELSE b

Zeros(n) == [i \in 1..n |-> [kind |-> "zero"]]

Truncated(b, len) == [b EXCEPT !.data = SubSeq(@, 1, len)]

\* set_record_end: zero-fills reserved capacity or drops unused bytes.
SetEnd(b, end) ==
  IF end > Len(b.data) THEN [b EXCEPT !.data = @ \o Zeros(end - Len(@))] ELSE Truncated(b, end)

\* Writing into range_mut(at, at + Len(tokens)).
Overwrite(b, at, tokens) ==
  [b EXCEPT !.data = [i \in DOMAIN @ |->
     IF i \in (at + 1)..(at + Len(tokens)) THEN tokens[i - at] ELSE @[i]]]

\* consume: an emptied buffer starts over.
Consumed(b, n) ==
  IF b.start + n = Len(b.data) THEN EmptyBuffer ELSE [b EXCEPT !.start = @ + n]
-----------------------------------------------------------------------------
(* The tokens of a record.                                                 *)

Salt == <<[kind |-> "salt"]>>
Prefix(seq) == [i \in 1..(seq % 2) |-> [kind |-> "prefix", seq |-> seq]]
Header(nonce, seq, padding, payload) ==
  <<[kind |-> "header", nonce |-> nonce, seq |-> seq, padding |-> padding, payload |-> payload]>>
Padding(n, seq) == [i \in 1..n |-> [kind |-> "padding", seq |-> seq]]
Bytes(bytes, nonce, seq) ==
  [i \in DOMAIN bytes |-> [kind |-> "byte", nonce |-> nonce, seq |-> seq, byte |-> bytes[i]]]
Tag(nonce, seq) == <<[kind |-> "tag", nonce |-> nonce, seq |-> seq]>>
Cipher(bytes, nonce, seq) == Bytes(bytes, nonce, seq) \o Tag(nonce, seq)

\* Only the shaped codec keys a record to its sequence number.
SaltLen == IF flavor = "raw" THEN 0 ELSE 1
TagLen == IF flavor = "raw" THEN 0 ELSE 1
EncodeSeq == IF flavor = "shaped" THEN enc.seq ELSE 0
PrefixLen(seq) == IF flavor = "shaped" THEN seq % 2 ELSE 0
First == IF enc.salted THEN 0 ELSE SaltLen
-----------------------------------------------------------------------------
(* What reserve asks for: total tokens, of which fixed are committed before *)
(* the payload.                                                            *)

V4Reserve(payload) ==
  LET padding == IF First = 1 /\ payload > 0 THEN MaxPadding ELSE 0
      fixed == First + 1 + padding
  IN  [total |-> fixed + payload + 1, fixed |-> fixed, padding |-> padding]

UnshapedReserve(payload) ==
  LET fixed == First + 1
  IN  [total |-> fixed + payload + 1, fixed |-> fixed, padding |-> 0]

RawReserve(payload) == [total |-> 1 + payload, fixed |-> 1, padding |-> 0]

\* The payload goes first; the padding is drawn when the record is sealed.
ShapedReserve(payload) ==
  [total |-> First + PrefixLen(enc.seq) + 1 + MaxPadding + payload + 1, fixed |-> 0, padding |-> 0]

Layout(payload) ==
  CASE flavor = "v4" -> V4Reserve(payload)
    [] flavor = "unshaped" -> UnshapedReserve(payload)
    [] flavor = "raw" -> RawReserve(payload)
    [] flavor = "shaped" -> ShapedReserve(payload)
-----------------------------------------------------------------------------
(* The buffer after the record in slot is sealed around its payload.       *)

V4Sealed(bytes, padding) ==
  LET n == Len(bytes)
      header == slot.start + First
      record == SetEnd(out, IF n = 0 THEN header + 1 ELSE slot.payload + n + 1)
      opened == Overwrite(record, header, Header(enc.nonce, 0, padding, n))
  IN  IF n = 0 THEN opened
      ELSE Overwrite(Overwrite(opened, header + 1, Padding(padding, 0)),
                     slot.payload, Cipher(bytes, enc.nonce + 1, 0))

UnshapedSealed(bytes) ==
  LET n == Len(bytes)
      record == SetEnd(out, IF n = 0 THEN slot.payload ELSE slot.payload + n + 1)
      opened == Overwrite(record, slot.payload - 1, Header(enc.nonce, 0, 0, n))
  IN  IF n = 0 THEN opened
      ELSE Overwrite(opened, slot.payload, Cipher(bytes, enc.nonce + 1, 0))

RawSealed(bytes) ==
  LET record == SetEnd(out, slot.payload + Len(bytes))
  IN  Overwrite(Overwrite(record, slot.payload, Bytes(bytes, 0, 0)),
                slot.start, Header(0, 0, 0, Len(bytes)))

ShapedSealed(bytes, padding) ==
  LET n == Len(bytes)
      seq == enc.seq
      body == IF n = 0 THEN <<>> ELSE Cipher(bytes, enc.nonce + 1, seq)
      front == (IF First = 1 THEN Salt ELSE <<>>) \o Prefix(seq)
                 \o Header(enc.nonce, seq, padding, n) \o Padding(padding, seq)
      record == SetEnd(SetEnd(out, slot.payload + n), slot.start + Len(body) + Len(front))
  IN  Overwrite(Overwrite(record, slot.start, body), slot.start + Len(body), front)

Sealed(bytes, padding) ==
  CASE flavor = "v4" -> V4Sealed(bytes, padding)
    [] flavor = "unshaped" -> UnshapedSealed(bytes)
    [] flavor = "raw" -> RawSealed(bytes)
    [] flavor = "shaped" -> ShapedSealed(bytes, padding)

\* The padding of a record: fixed at reserve, or final_padding_len of a profile.
Paddings(n) ==
  CASE flavor = "v4" -> {IF n = 0 THEN 0 ELSE slot.padding}
    [] flavor = "shaped" -> 0..MaxPadding
    [] OTHER -> {0}

\* The length of payload and tag, which the shaped codec puts in front.
Split(n) == IF flavor = "shaped" /\ n > 0 THEN n + 1 ELSE 0
-----------------------------------------------------------------------------
InitEncoder == [state |-> "Ready", nonce |-> 0, seq |-> 0, salted |-> FALSE]
InitDecoder ==
  [step |-> IF flavor = "raw" THEN "header" ELSE "salt", nonce |-> 0, seq |-> 0,
   salted |-> FALSE, pending |-> 0, header |-> None]

Init ==
  /\ flavor \in Flavors
  /\ out = EmptyBuffer /\ enc = InitEncoder /\ slot = None /\ attempts = 0
  /\ inb = EmptyBuffer /\ dec = InitDecoder
  /\ splits = <<>> /\ wire = <<>> /\ ready = <<>>
  /\ used = <<>> /\ emitted = <<>> /\ got = <<>>

(* The encoder.                                                            *)

\* RecordEncoder::reserve and Reservation::new.
Reserve(payload) ==
  /\ enc.state = "Ready" /\ attempts < Attempts
  /\ LET need == Layout(payload)
         buf == Spare(out, OutMax, need.total)
         start == Len(buf.data)
         fixed == SetEnd(buf, start + need.fixed)
     IN  /\ Live(out) + need.total <= OutMax
         /\ out' = IF First = 1 /\ need.fixed > 0 THEN Overwrite(fixed, start, Salt) ELSE fixed
         /\ slot' = [start |-> start, payload |-> start + need.fixed, max |-> payload,
                     padding |-> need.padding, end |-> start + need.total]
  /\ enc' = [enc EXCEPT !.state = "Reserving"]
  /\ attempts' = attempts + 1
  /\ UNCHANGED <<flavor, splits, used, emitted, wire, decoder>>

\* payload_mut commits the whole payload as zeros before it is written.
PayloadMut ==
  /\ slot # None /\ Len(out.data) = slot.payload /\ slot.max > 0
  /\ out' = SetEnd(out, slot.payload + slot.max)
  /\ UNCHANGED <<flavor, enc, slot, attempts, splits, used, emitted, wire, decoder>>

\* Mutant: a cancelled record stays in the buffer.
CancelKeeps ==
  /\ slot # None
  /\ enc' = [enc EXCEPT !.state = "Ready"]
  /\ slot' = None
  /\ UNCHANGED <<flavor, out, attempts, splits, used, emitted, wire, decoder>>

\* A reservation dropped before it is sealed.
Cancel ==
  /\ slot # None
  /\ enc' = [enc EXCEPT !.state = "Ready"]
  /\ out' = Truncated(out, slot.start)
  /\ slot' = None
  /\ UNCHANGED <<flavor, attempts, splits, used, emitted, wire, decoder>>

\* AEAD seals of a record: its header and, unless a zero chunk, its payload.
Seals(n) == IF flavor = "raw" THEN 0 ELSE IF n = 0 THEN 1 ELSE 2
Nonces(k) == [i \in 1..k |-> enc.nonce + i - 1]
NewBytes(n) == [i \in 1..n |-> Len(SelectSeq(emitted, LAMBDA b : b > 0)) + i]

\* The encoder after a record is sealed.
Advanced(n) ==
  [state |-> "Ready", nonce |-> enc.nonce + Seals(n),
   seq |-> (enc.seq + 1) % SeqModulus, salted |-> TRUE]

\* Reservation::seal and finish: the payload is n new bytes.
Seal(n, padding) ==
  /\ slot # None /\ n <= slot.max /\ padding \in Paddings(n)
  /\ out' = Sealed(NewBytes(n), padding)
  /\ splits' = Append(splits, [split |-> Split(n), len |-> Len(out'.data) - slot.start])
  /\ enc' = Advanced(n)
  /\ used' = used \o Nonces(Seals(n))
  /\ emitted' = emitted \o (IF n = 0 THEN <<0>> ELSE NewBytes(n))
  /\ slot' = None
  /\ UNCHANGED <<flavor, attempts, wire, decoder>>

\* Mutant: the encoder goes on after a seal that failed half way.
AfterSealReady(advanced) == "Ready"

\* EncoderState::after_seal.
AfterSeal(advanced) == IF advanced THEN "Poisoned" ELSE "Ready"

\* Mutant: a failed seal also takes its nonces back.
SealFailsRewinds(n, k) ==
  /\ slot # None /\ n <= slot.max
  /\ k < Seals(n) \/ (flavor = "v4" /\ n > 0 /\ slot.padding > 0 /\ k = Seals(n))
  /\ enc' = [enc EXCEPT !.state = "Ready"]
  /\ used' = used \o Nonces(k)
  /\ out' = Truncated(out, slot.start)
  /\ slot' = None
  /\ UNCHANGED <<flavor, attempts, splits, emitted, wire, decoder>>

\* finish when sealing fails after k seals: in an AEAD, or filling v4 padding.
SealFails(n, k) ==
  /\ slot # None /\ n <= slot.max
  /\ k < Seals(n) \/ (flavor = "v4" /\ n > 0 /\ slot.padding > 0 /\ k = Seals(n))
  /\ enc' = [enc EXCEPT !.state = AfterSeal(k > 0), !.nonce = @ + k]
  /\ used' = used \o Nonces(k)
  /\ out' = Truncated(out, slot.start)
  /\ slot' = None
  /\ UNCHANGED <<flavor, attempts, splits, emitted, wire, decoder>>

\* One record at the front of out, rotated to wire order.
WireOrder(buf, split, len) ==
  SubSeq(buf, split + 1, len) \o SubSeq(buf, 1, split)

\* The first record of out is written and consumed. The relay consumes whole
\* batches, which is several of these steps.
WriteRecord ==
  /\ slot = None /\ splits # <<>>
  /\ LET record == Head(splits)
     IN  /\ wire' = wire \o WireOrder(Filled(out), record.split, record.len)
         /\ out' = Consumed(out, record.len)
  /\ splits' = Tail(splits)
  /\ UNCHANGED <<flavor, enc, slot, attempts, used, emitted, decoder>>
-----------------------------------------------------------------------------
(* The decoder.                                                            *)

\* Tokens arrive in the decoder's buffer, once decoded records are consumed.
Read(k) ==
  /\ ready = <<>> /\ k \in 1..Len(wire) /\ Live(inb) + k <= InMax
  /\ inb' = LET buf == Spare(inb, InMax, k) IN [buf EXCEPT !.data = @ \o SubSeq(wire, 1, k)]
  /\ wire' = SubSeq(wire, k + 1, Len(wire))
  /\ UNCHANGED <<flavor, encoder, dec, ready, got>>

\* Mutant: the pending records are counted against the buffer.
NeedCounted(minimum) ==
  CASE minimum > InMax -> "error"
    [] minimum <= InMax /\ Live(inb) < minimum -> "more"
    [] OTHER -> "enough"

\* Pending::need.
Need(minimum) ==
  CASE minimum - dec.pending > InMax -> "error"
    [] minimum - dec.pending <= InMax /\ Live(inb) < minimum -> "more"
    [] OTHER -> "enough"

HeaderOffset == dec.pending + (IF dec.salted THEN 0 ELSE SaltLen)
DecodeSeq == IF flavor = "shaped" THEN dec.seq ELSE 0
Span(from, to) == SubSeq(Filled(inb), from + 1, to)

\* Aes128Gcm::open: this range was sealed as a whole under this nonce.
Opens(from, end, nonce, seq) ==
  /\ from < end /\ end <= Live(inb)
  /\ Span(end - 1, end) = Tag(nonce, seq)
  /\ \A token \in ToSet(Span(from, end - 1)) :
       token.kind = "byte" /\ token.nonce = nonce /\ token.seq = seq

\* Payload plus its tag; a zero-length payload carries no tag.
BodyLen(payload) == IF payload = 0 THEN 0 ELSE payload + TagLen

\* A record of each codec, given its header and where its body starts:
\* whether the header is valid, where the record ends, where its payload
\* starts, and whether the payload opens.
V4Record(header, at) ==
  LET from == at + header.padding
      end == from + BodyLen(header.payload)
  IN  [valid |-> header.payload > 0 \/ header.padding = 0, from |-> from, end |-> end,
       opens |-> Opens(from, end, dec.nonce, 0)]

UnshapedRecord(header, at) ==
  LET end == at + BodyLen(header.payload)
  IN  [valid |-> header.padding = 0, from |-> at, end |-> end,
       opens |-> Opens(at, end, dec.nonce, 0)]

RawRecord(header, at) ==
  [valid |-> header.padding = 0, from |-> at, end |-> at + BodyLen(header.payload), opens |-> TRUE]

\* The padding is mixed with the payload by sequence number and authenticated.
ShapedRecord(header, at) ==
  LET from == at + header.padding
      end == from + BodyLen(header.payload)
  IN  [valid |-> TRUE, from |-> from, end |-> end,
       opens |-> /\ Opens(from, end, dec.nonce, dec.seq)
                 /\ Span(at, from) = Padding(header.padding, dec.seq)]

Record(header, at) ==
  CASE flavor = "v4" -> V4Record(header, at)
    [] flavor = "unshaped" -> UnshapedRecord(header, at)
    [] flavor = "raw" -> RawRecord(header, at)
    [] flavor = "shaped" -> ShapedRecord(header, at)

\* An error ends the stream: the decoder is not called again.
DecodeError ==
  /\ dec' = [dec EXCEPT !.step = "error"]
  /\ UNCHANGED ready

\* The decoder at the header of the next record.
NextRecord(end, opened) ==
  [step |-> "header", nonce |-> dec.nonce + opened, seq |-> (dec.seq + 1) % SeqModulus,
   salted |-> TRUE, pending |-> end, header |-> None]

\* Pending::emit: the record ends at end, its payload is in from..to.
Emit(end, from, to, opened) ==
  /\ ready' = Append(ready, [len |-> end - dec.pending, from |-> from, to |-> to])
  /\ dec' = NextRecord(end, opened)

\* ReadStep::Salt.
DecodeSalt ==
  /\ dec.step = "salt" /\ Need(dec.pending + SaltLen) # "more"
  /\ IF Need(dec.pending + SaltLen) = "error" \/ Span(0, 1) # Salt THEN DecodeError
     ELSE dec' = [dec EXCEPT !.step = "header"] /\ UNCHANGED ready
  /\ UNCHANGED <<flavor, encoder, wire, inb, got>>

\* ReadStep::Header.
DecodeHeader ==
  LET at == HeaderOffset + PrefixLen(dec.seq)
      need == Need(at + 1)
      token == Filled(inb)[at + 1]
      opens == /\ token.kind = "header" /\ token.nonce = dec.nonce /\ token.seq = DecodeSeq
               /\ flavor = "shaped" => Span(HeaderOffset, at) = Prefix(dec.seq)
      record == Record(token, at + 1)
      sealed == IF flavor = "raw" THEN 0 ELSE 1
  IN  /\ dec.step = "header" /\ need # "more"
      /\ CASE need = "error" -> DecodeError
           [] need = "enough" /\ ~opens -> DecodeError
           [] need = "enough" /\ opens /\ ~record.valid -> DecodeError
           [] need = "enough" /\ opens /\ record.valid /\ record.end = at + 1 ->
                Emit(at + 1, 0, 0, sealed)
           [] OTHER -> /\ dec' = [dec EXCEPT !.step = "body", !.header = token, !.nonce = @ + sealed]
                       /\ UNCHANGED ready
      /\ UNCHANGED <<flavor, encoder, wire, inb, got>>

\* ReadStep::Body.
DecodeBody ==
  LET at == HeaderOffset + PrefixLen(dec.seq) + 1
      record == Record(dec.header, at)
      need == Need(record.end)
      payload == dec.header.payload
  IN  /\ dec.step = "body" /\ need # "more"
      /\ CASE need = "error" -> DecodeError
           [] need = "enough" /\ payload = 0 -> Emit(record.end, 0, 0, 0)
           [] need = "enough" /\ payload > 0 /\ ~record.opens -> DecodeError
           [] OTHER -> Emit(record.end, record.from, record.from + payload,
                            IF flavor = "raw" THEN 0 ELSE 1)
      /\ UNCHANGED <<flavor, encoder, wire, inb, got>>

\* What a range of filled() holds, a zero chunk as 0.
Plaintext(r) ==
  IF r.from = r.to THEN <<0>> ELSE [i \in 1..(r.to - r.from) |-> Span(r.from, r.to)[i].byte]

\* The decoded records are written on and then consumed, in decode order.
Drain ==
  /\ ready # <<>>
  /\ got' = got \o FlattenSeq([i \in DOMAIN ready |-> Plaintext(ready[i])])
  /\ LET total == SumFunction([i \in DOMAIN ready |-> ready[i].len])
     IN  /\ inb' = Consumed(inb, total)
         /\ dec' = [dec EXCEPT !.pending = @ - total]
  /\ ready' = <<>>
  /\ UNCHANGED <<flavor, encoder, wire>>
-----------------------------------------------------------------------------
Encode ==
  \/ \E n \in 0..MaxPayload : Reserve(n)
  \/ PayloadMut
  \/ Cancel
  \/ \E n \in 0..MaxPayload, p \in 0..MaxPadding : Seal(n, p)
  \/ \E n \in 0..MaxPayload, k \in 0..2 : SealFails(n, k)
Decode == DecodeSalt \/ DecodeHeader \/ DecodeBody
Next ==
  \/ Encode
  \/ WriteRecord
  \/ \E k \in 1..InMax : Read(k)
  \/ Decode
  \/ Drain

Safety == Init /\ [][Next]_vars

\* Fairness: a sealed record is flushed, and the reader keeps reading.
Spec == Safety /\ WF_vars(WriteRecord \/ (\E k \in 1..InMax : Read(k)) \/ Decode \/ Drain)
-----------------------------------------------------------------------------
\* No nonce seals twice: a failed seal that used one poisons the encoder
\* (EncoderState::after_seal), so what it used is never followed by a record
\* the peer would open under another nonce, nor used again.
FreshNonces ==
  /\ \A i, j \in DOMAIN used : used[i] = used[j] => i = j
  /\ \A i \in DOMAIN used : used[i] < enc.nonce

\* The peer decodes what was sealed: it never fails on the stream, and reads
\* every payload byte and zero chunk once and in order, whatever records were
\* cancelled or failed in between and wherever the buffers were compacted.
\* Between reservations the encoder's buffer holds sealed records and nothing
\* else: cancelling and failing leave no byte behind.
InSync ==
  /\ dec.step # "error"
  /\ IsPrefix(got, emitted)
  /\ slot = None => Live(out) = SumFunction([i \in DOMAIN splits |-> splits[i].len])

\* Every record sealed is read: the decoder never waits for room that its own
\* decoded records take (Pending::need, DecodeStatus::NeedMore).
Delivered == <>[](slot = None) => <>[](got = emitted)
=============================================================================
