------------------------------- MODULE Relay -------------------------------
(***************************************************************************)
(* One direction of a relayed tunnel (crates/snell-runtime/src/session.rs, *)
(* relay): pump_plain_to_snell on one host seals what it reads from the    *)
(* application into records and writes them in batches; on the other host  *)
(* pump_snell_to_plain decodes records ahead into a batch, writes their    *)
(* plaintext, and only then consumes them. Every write may be short, every *)
(* read returns some of what is there, and a record may arrive in pieces.  *)
(*                                                                         *)
(* A record is a header token, its padding and its payload, one token per  *)
(* byte; salts and tags count as part of the header. A pump that returns   *)
(* Pending is polled again from the top and comes to the same place, so it *)
(* is a pump that waits in front of the action it was about to take.       *)
(***************************************************************************)
EXTENDS Integers, Sequences, SequencesExt, FiniteSetsExt

CONSTANTS Size,           \* bound on the bytes the application sends
          Budget,         \* payload a reservation asks for: the chunk budget
          EncodeCap,      \* maximum of the encode lease (V6_WIRE_CAP)
          EncodeBatchMax, \* ENCODE_BATCH_MAX
          WireCap,        \* what the sockets in between hold
          RecvCap,        \* maximum of the receive lease
          WriteBatchMax   \* WRITE_BATCH_MAX

\* Any single record fits both leases (the wire caps of snell-protocol).
ASSUME CapsAssumption == EncodeCap >= 2 + Budget /\ RecvCap >= 2 + Budget

VARIABLES conn,     \* per connection: is the codec shaped, is Snell kept open
          put,      \* bytes the application has written
          closed,   \* the application has closed its side
          taken,    \* bytes read from the application
          phase,    \* Phase
          filling,  \* the sending pump is in its read loop
          encode,   \* the encode lease
          ebatch,   \* EncodeBatch.records
          ewritten, \* EncodeBatch.written
          wire,     \* tokens between the hosts
          line,     \* "open", "eof" behind the tokens, or "reset"
          damaged,  \* history: a token was damaged on the way
          recv,     \* the receive lease
          pending,  \* Pending: decoded and not consumed tokens of recv
          step,     \* ReadStep of the decoder
          dbatch,   \* DecodeBatch.records
          dwritten, \* DecodeBatch.written
          end,      \* DecodeBatch.end
          pump,     \* where the receiving pump is
          sink      \* bytes the receiving application has

source == <<put, closed>>
sender == <<taken, phase, filling, encode, ebatch, ewritten>>
receiver == <<recv, pending, step, dbatch, dwritten, end, pump, sink>>
net == <<wire, line, damaged>>
vars == <<conn, source, sender, net, receiver>>

Header(n) == [kind |-> "header", n |-> n, ok |-> TRUE]
Byte(i) == [kind |-> "byte", n |-> i, ok |-> TRUE]
Padding == IF conn.shaped THEN <<[kind |-> "pad", n |-> 0, ok |-> TRUE]>> ELSE <<>>

Init ==
  /\ conn \in [shaped : BOOLEAN, keep : BOOLEAN]
  /\ put = 0 /\ closed = FALSE
  /\ taken = 0 /\ phase = "Reading" /\ filling = TRUE
  /\ encode = <<>> /\ ebatch = <<>> /\ ewritten = 0
  /\ wire = <<>> /\ line = "open" /\ damaged = FALSE
  /\ recv = <<>> /\ pending = 0 /\ step = "Header"
  /\ dbatch = <<>> /\ dwritten = 0 /\ end = "none"
  /\ pump = "decode" /\ sink = <<>>
-----------------------------------------------------------------------------
(* The application and the network.                                        *)

AppWrite ==
  /\ ~closed /\ put < Size
  /\ put' = put + 1
  /\ UNCHANGED <<conn, closed, sender, net, receiver>>

AppClose ==
  /\ ~closed
  /\ closed' = TRUE
  /\ UNCHANGED <<conn, put, sender, net, receiver>>

\* The sending host's relay ends early (an I/O error, or the other direction
\* failed in try_join!) and drops the connection: what is written still arrives.
Drop ==
  /\ line = "open" /\ phase \notin {"Finished", "Dropped"}
  /\ phase' = "Dropped" /\ line' = "eof"
  /\ UNCHANGED <<conn, source, taken, filling, encode, ebatch, ewritten, wire, damaged, receiver>>

\* The same with a reset: what is on the way is lost.
Reset ==
  /\ line = "open" /\ phase \notin {"Finished", "Dropped"}
  /\ phase' = "Dropped" /\ line' = "reset" /\ wire' = <<>>
  /\ UNCHANGED <<conn, source, taken, filling, encode, ebatch, ewritten, damaged, receiver>>

Intact(tokens) == \A i \in DOMAIN tokens : tokens[i].ok

\* A token that does not authenticate reaches the receiver.
Damage ==
  /\ line = "open" /\ phase # "Finished"
  /\ ~damaged /\ damaged' = TRUE
  /\ \E i \in DOMAIN wire : wire' = [wire EXCEPT ![i].ok = FALSE]
  /\ UNCHANGED <<conn, source, sender, line, receiver>>

\* A kept connection carries the next session's request behind the zero chunk:
\* the client pools it once both directions have ended on its side.
NextSession ==
  /\ phase = "Finished" /\ conn.keep /\ line = "open"
  /\ Len(wire) + 1 < WireCap
  /\ ~\E i \in DOMAIN wire \cup DOMAIN recv :
        \/ i \in DOMAIN wire /\ wire[i].n = Size + 1
        \/ i \in DOMAIN recv /\ recv[i].n = Size + 1
  /\ wire' = wire \o <<Header(1), Byte(Size + 1)>>
  /\ UNCHANGED <<conn, source, sender, line, damaged, receiver>>
-----------------------------------------------------------------------------
(* pump_plain_to_snell.                                                    *)

HasRoom(records) == Len(records) < EncodeBatchMax

\* reserve succeeds for a payload of n: it asks for the whole record, padding
\* at its largest; the lease is at its maximum.
Fits(n) == Len(encode) + 1 + Len(Padding) + n <= EncodeCap

\* EncodeBatch::push: an unsplit record extends an unsplit last entry.
Push(records, stop, split) ==
  IF split = 0 /\ records # <<>> /\ Last(records).split = 0
  THEN [records EXCEPT ![Len(records)].stop = stop]
  ELSE Append(records, [split |-> split, stop |-> stop])

\* A sealed record as it lies in the buffer: a shaped payload comes first.
Sealed(payload) ==
  IF conn.shaped
  THEN payload \o <<Header(Len(payload))>> \o Padding
  ELSE <<Header(Len(payload))>> \o payload

Split(payload) == IF conn.shaped THEN Len(payload) ELSE 0

Readable == taken < put \/ closed

\* The read loop reads n bytes into a reservation and seals them.
ReadRecord(n) ==
  LET payload == [i \in 1..n |-> Byte(taken + i)]
  IN  /\ phase = "Reading" /\ filling
      /\ taken < put /\ Fits(Budget)
      /\ encode' = encode \o Sealed(payload)
      /\ ebatch' = Push(ebatch, Len(encode'), Split(payload))
      /\ taken' = taken + n
      /\ filling' = HasRoom(ebatch')
      /\ UNCHANGED <<conn, source, phase, ewritten, net, receiver>>

\* Mutant: the batch is written only when it is full.
StopReadingWhenFull ==
  /\ phase = "Reading" /\ filling /\ ebatch # <<>>
  /\ ~Fits(Budget)
  /\ filling' = FALSE
  /\ UNCHANGED <<conn, source, taken, phase, encode, ebatch, ewritten, net, receiver>>

\* The read loop ends with records to write: the application has nothing ready,
\* or the next reservation is PayloadTooLarge.
StopReading ==
  /\ phase = "Reading" /\ filling /\ ebatch # <<>>
  /\ ~Readable \/ ~Fits(Budget)
  /\ filling' = FALSE
  /\ UNCHANGED <<conn, source, taken, phase, encode, ebatch, ewritten, net, receiver>>

\* Mutant: the zero chunk is forgotten.
ReadEofSilently ==
  /\ phase = "Reading" /\ filling
  /\ closed /\ taken = put /\ Fits(Budget)
  /\ phase' = "Draining" /\ filling' = FALSE
  /\ UNCHANGED <<conn, source, taken, encode, ebatch, ewritten, net, receiver>>

\* The application's end of file: the reservation is cancelled.
ReadEof ==
  /\ phase = "Reading" /\ filling
  /\ closed /\ taken = put /\ Fits(Budget)
  /\ phase' = "SendZeroChunk" /\ filling' = FALSE
  /\ UNCHANGED <<conn, source, taken, encode, ebatch, ewritten, net, receiver>>

ZeroChunkFits == phase = "SendZeroChunk" /\ HasRoom(ebatch) /\ Fits(0)

SealZeroChunk ==
  /\ ZeroChunkFits
  /\ encode' = encode \o Sealed(<<>>)
  /\ ebatch' = Push(ebatch, Len(encode'), 0)
  /\ phase' = "Draining"
  /\ UNCHANGED <<conn, source, taken, filling, ewritten, net, receiver>>

\* EncodeBatch::poll_write: the batch's tokens in wire order.
Gathered ==
  LET start(i) == IF i = 1 THEN 0 ELSE ebatch[i - 1].stop
      turned(i) == SubSeq(encode, start(i) + ebatch[i].split + 1, ebatch[i].stop)
                     \o SubSeq(encode, start(i) + 1, start(i) + ebatch[i].split)
  IN  FlattenSeq([i \in DOMAIN ebatch |-> turned(i)])

\* Mutant: a write after a short write starts over.
WriteWireAgain(k) ==
  /\ ~filling /\ ebatch # <<>> /\ ~ZeroChunkFits
  /\ line = "open" /\ Len(wire) + k <= WireCap
  /\ ewritten + k <= Len(Gathered)
  /\ wire' = wire \o SubSeq(Gathered, 1, k)
  /\ IF ewritten + k = Len(Gathered)
     THEN ewritten' = 0 /\ ebatch' = <<>> /\ encode' = <<>> /\ filling' = (phase = "Reading")
     ELSE ewritten' = ewritten + k /\ UNCHANGED <<ebatch, encode, filling>>
  /\ UNCHANGED <<conn, source, taken, phase, line, damaged, receiver>>

\* One vectored write of k tokens. When it is the last one the batch is
\* cleared, the lease is consumed and the loop starts over.
WriteWire(k) ==
  /\ ~filling /\ ebatch # <<>> /\ ~ZeroChunkFits
  /\ line = "open" /\ Len(wire) + k <= WireCap
  /\ ewritten + k <= Len(Gathered)
  /\ wire' = wire \o SubSeq(Gathered, ewritten + 1, ewritten + k)
  /\ IF ewritten + k = Len(Gathered)
     THEN ewritten' = 0 /\ ebatch' = <<>> /\ encode' = <<>> /\ filling' = (phase = "Reading")
     ELSE ewritten' = ewritten + k /\ UNCHANGED <<ebatch, encode, filling>>
  /\ UNCHANGED <<conn, source, taken, phase, line, damaged, receiver>>

\* Everything is written: keep the connection, or shut its write half down.
FinishSending ==
  /\ phase = "Draining" /\ ebatch = <<>>
  /\ phase' = "Finished"
  /\ line' = IF conn.keep THEN line ELSE "eof"
  /\ UNCHANGED <<conn, source, taken, filling, encode, ebatch, ewritten, wire, damaged, receiver>>
-----------------------------------------------------------------------------
(* pump_snell_to_plain.                                                    *)

\* The header in front of the decoder, and the length of its record.
Current == recv[pending + 1]
RecordLen == 1 + Len(Padding) + Current.n

\* decode returns NeedMore { minimum }.
NeedMore ==
  IF step = "Header" THEN Len(recv) < pending + 1 ELSE Len(recv) < pending + RecordLen

Decoding == pump = "decode" /\ ~NeedMore

\* decode opens a header that has a body and goes on with the body.
OpenHeader ==
  /\ Decoding /\ step = "Header"
  /\ Current.ok /\ RecordLen > 1
  /\ step' = "Body"
  /\ UNCHANGED <<conn, source, sender, net, recv, pending, dbatch, dwritten, end, pump, sink>>

Record(from, size) == [from |-> from, size |-> size, len |-> RecordLen]

\* decode returns a data record: it joins the batch.
OpenBody ==
  /\ Decoding /\ step = "Body" /\ Current.n > 0
  /\ Intact(SubSeq(recv, pending + 1, pending + RecordLen))
  /\ dbatch' = Append(dbatch, Record(pending + 1 + Len(Padding), Current.n))
  /\ pending' = pending + RecordLen
  /\ step' = "Header"
  /\ pump' = IF Len(dbatch') = WriteBatchMax THEN "write" ELSE "decode"
  /\ UNCHANGED <<conn, source, sender, net, recv, dwritten, end, sink>>

\* Mutant: the zero chunk's padding stays in the receive lease.
OpenZeroChunkKeepsPadding ==
  /\ Decoding /\ Current.n = 0 /\ Current.ok
  /\ step = "Body" \/ RecordLen = 1
  /\ step' = "Header"
  /\ IF dbatch = <<>>
     THEN /\ recv' = SubSeq(recv, pending + 2, Len(recv))
          /\ pump' = "closing"
          /\ UNCHANGED <<pending, dbatch, end>>
     ELSE /\ dbatch' = Append(dbatch, Record(0, 0))
          /\ pending' = pending + RecordLen
          /\ end' = "zero"
          /\ pump' = "write"
          /\ UNCHANGED recv
  /\ UNCHANGED <<conn, source, sender, net, dwritten, sink>>

\* Mutant: the end does not wait for the batch.
OpenZeroChunkAtOnce ==
  /\ Decoding /\ Current.n = 0 /\ Current.ok
  /\ step = "Body" \/ RecordLen = 1
  /\ step' = "Header"
  /\ recv' = SubSeq(recv, pending + RecordLen + 1, Len(recv))
  /\ pump' = "closing"
  /\ UNCHANGED <<conn, source, sender, net, pending, dbatch, end, dwritten, sink>>

\* decode returns a zero chunk, whose padding is skipped unopened: the end of
\* the stream, behind the records of the batch if there are any.
OpenZeroChunk ==
  /\ Decoding /\ Current.n = 0 /\ Current.ok
  /\ step = "Body" \/ RecordLen = 1
  /\ step' = "Header"
  /\ IF dbatch = <<>>
     THEN /\ recv' = SubSeq(recv, pending + RecordLen + 1, Len(recv))
          /\ pump' = "closing"
          /\ UNCHANGED <<pending, dbatch, end>>
     ELSE /\ dbatch' = Append(dbatch, Record(0, 0))
          /\ pending' = pending + RecordLen
          /\ end' = "zero"
          /\ pump' = "write"
          /\ UNCHANGED recv
  /\ UNCHANGED <<conn, source, sender, net, dwritten, sink>>

\* Mutant: the error does not wait for the batch.
OpenFailsAtOnce ==
  /\ Decoding
  /\ \/ step = "Header" /\ ~Current.ok
     \/ step = "Body" /\ Current.n > 0
          /\ ~Intact(SubSeq(recv, pending + 1, pending + RecordLen))
  /\ pump' = "failed"
  /\ UNCHANGED <<conn, source, sender, net, recv, pending, step, dbatch, dwritten, end, sink>>

\* decode fails; the records decoded before it are written first.
OpenFails ==
  /\ Decoding
  /\ \/ step = "Header" /\ ~Current.ok
     \/ step = "Body" /\ Current.n > 0
          /\ ~Intact(SubSeq(recv, pending + 1, pending + RecordLen))
  /\ IF dbatch = <<>>
     THEN pump' = "failed" /\ UNCHANGED end
     ELSE pump' = "write" /\ end' = "error"
  /\ UNCHANGED <<conn, source, sender, net, recv, pending, step, dbatch, dwritten, sink>>

\* More is needed and there is a batch: write it before reading.
StopDecoding ==
  /\ pump = "decode" /\ NeedMore /\ dbatch # <<>>
  /\ pump' = "write"
  /\ UNCHANGED <<conn, source, sender, net, recv, pending, step, dbatch, dwritten, end, sink>>

ReadWire(k) ==
  /\ pump = "decode" /\ NeedMore /\ dbatch = <<>>
  /\ k <= Len(wire) /\ Len(recv) + k <= RecvCap
  /\ recv' = recv \o SubSeq(wire, 1, k)
  /\ wire' = SubSeq(wire, k + 1, Len(wire))
  /\ UNCHANGED <<conn, source, sender, line, damaged, pending, step, dbatch, dwritten, end, pump, sink>>

\* End of file between records ends the stream, within one it is an error; so
\* is a reset.
ReadWireEof ==
  /\ pump = "decode" /\ NeedMore /\ dbatch = <<>>
  /\ line # "open" /\ wire = <<>>
  /\ pump' = IF line = "reset" THEN "lost" ELSE IF recv = <<>> THEN "closing" ELSE "failed"
  /\ UNCHANGED <<conn, source, sender, net, recv, pending, step, dbatch, dwritten, end, sink>>

\* DecodeBatch::poll_write: the plaintext of the batch's records.
Plain ==
  FlattenSeq([i \in DOMAIN dbatch |->
    SubSeq(recv, dbatch[i].from + 1, dbatch[i].from + dbatch[i].size)])

\* One vectored write of k bytes. After the last one DecodeBatch::consume takes
\* the records off the receive lease and tells how the stream goes on.
WritePlain(k) ==
  /\ pump = "write"
  /\ dwritten + k <= Len(Plain)
  /\ sink' = sink \o [i \in 1..k |-> Plain[dwritten + i].n]
  /\ IF dwritten + k = Len(Plain)
     THEN /\ recv' = SubSeq(recv, FoldLeft(LAMBDA a, r : a + r.len, 0, dbatch) + 1, Len(recv))
          /\ pending' = pending - FoldLeft(LAMBDA a, r : a + r.len, 0, dbatch)
          /\ dbatch' = <<>> /\ dwritten' = 0 /\ end' = "none"
          /\ pump' = CASE end = "none" -> "decode"
                       [] end = "zero" -> "closing"
                       [] end = "error" -> "failed"
     ELSE dwritten' = dwritten + k /\ UNCHANGED <<recv, pending, dbatch, end, pump>>
  /\ UNCHANGED <<conn, source, sender, net, step>>

\* The application's socket is shut down for writing: it reads the end.
ClosePlain ==
  /\ pump = "closing"
  /\ pump' = "done"
  /\ UNCHANGED <<conn, source, sender, net, recv, pending, step, dbatch, dwritten, end, sink>>
-----------------------------------------------------------------------------
Send ==
  \/ \E n \in 1..Min({Budget, put - taken}) : ReadRecord(n)
  \/ StopReading
  \/ ReadEof
  \/ SealZeroChunk
  \/ \E k \in 1..WireCap : WriteWire(k)
  \/ FinishSending

Receive ==
  \/ OpenHeader
  \/ OpenBody
  \/ OpenZeroChunk
  \/ OpenFails
  \/ StopDecoding
  \/ \E k \in 1..RecvCap : ReadWire(k)
  \/ ReadWireEof
  \/ \E k \in 1..RecvCap : WritePlain(k)
  \/ ClosePlain

Environment == AppWrite \/ AppClose \/ Drop \/ Reset \/ Damage \/ NextSession

Next == Environment \/ Send \/ Receive

\* A woken task is polled, and the receiving application reads what it is sent.
Fairness == WF_vars(Send) /\ WF_vars(Receive)

Spec == Init /\ [][Next]_vars /\ Fairness
-----------------------------------------------------------------------------
\* The application's bytes among some tokens, in order.
Bytes(tokens) ==
  LET bytes == SelectSeq(tokens, LAMBDA t : t.kind = "byte" /\ t.n <= Size)
  IN  [i \in DOMAIN bytes |-> bytes[i].n]

Broken == phase = "Dropped" \/ damaged

\* Nothing is lost, duplicated or reordered on the way: what the application
\* has, the records decoded or received, the tokens on the wire and the unsent
\* rest of the encode batch are, in this order, all the bytes the sending pump
\* has read. It rests on the split of shaped records, the batch offsets, the
\* written counts and the decode-ahead offset (EncodeBatch, DecodeBatch,
\* Pending) all agreeing after short reads and writes.
Conserved ==
  /\ Len(sink) <= taken /\ \A i \in DOMAIN sink : sink[i] = i
  /\ line # "reset" =>
       Bytes(SubSeq(Gathered, ewritten + 1, Len(Gathered)))
         = LET undelivered == Bytes(recv)
               written == IF pump = "write" THEN dwritten ELSE 0
               before == sink \o SubSeq(undelivered, written + 1, Len(undelivered)) \o Bytes(wire)
           IN  [i \in 1..(taken - Len(before)) |-> Len(before) + i]

\* How a stream ends comes behind everything in front of it (batch.end). The
\* application sees a clean end only behind the last byte sent, or where the
\* connection was dropped between two records. An error is reported only once
\* the records in front of it are written: what is left starts with a record
\* that is damaged or incomplete. A kept connection is handed on at a record
\* boundary: decoding ahead stops at the zero chunk, and what is received behind
\* it is untouched (RecordKind::ZeroChunk breaks the decode loop).
EndComesLast ==
  /\ pump \in {"closing", "done"} =>
       \/ closed /\ Len(sink) = put
       \/ phase = "Dropped" /\ recv = <<>> /\ wire = <<>>
  /\ pump = "failed" =>
       /\ pending = 0 /\ recv # <<>>
       /\ Current.ok /\ Len(recv) >= RecordLen => ~Intact(SubSeq(recv, 1, RecordLen))
  /\ pump \in {"closing", "done"} /\ phase = "Finished" =>
       /\ pending = 0 /\ step = "Header"
       /\ recv \o wire \in {<<>>, <<Header(1), Byte(Size + 1)>>}

\* No byte is held back by batching or by decoding ahead: once the application
\* has written it, it arrives although nothing follows it. (The application may
\* stop writing at any byte.)
Delivered == []<>(Len(sink) = put \/ Broken)

\* Both pumps finish once the application closes: the zero chunk is sent even
\* behind a full batch or a full lease.
Ends == closed ~> (pump = "done" /\ phase = "Finished") \/ Broken

\* One direction of the relay is a byte stream.
Stream == INSTANCE ByteStream WITH
            got <- Len(sink),
            ended <- pump \in {"done", "failed", "lost"},
            broken <- Broken
StreamSpec == Stream!Spec
=============================================================================
