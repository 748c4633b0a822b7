------------------------- MODULE MCServerHandshake -------------------------
(***************************************************************************)
(* ServerHandshake with the streams of its instance.                       *)
(***************************************************************************)
EXTENDS ServerHandshake

CONSTANTS s1, s2

Stream(kind, salt, ends, reqs, udp, zero, total) ==
  [kind |-> kind, salt |-> salt, ends |-> ends, reqs |-> reqs, udp |-> udp, zero |-> zero, total |-> total]

\* Requests in one record and in two, with early payload, a zero chunk and part
\* of a record behind them, past the prefix and past the early payload limit; a
\* request that does not parse. Each protocol also meets the streams of the other. Streams
\* share their salts.
MCStreams ==
  {Stream("v4", s1, <<2, 3, 4>>, 1, FALSE, 0, 4), Stream("v6", s1, <<3, 4, 5>>, 2, FALSE, 3, 6),
   Stream("v6", s2, <<3, 5>>, 2, TRUE, 0, 5), Stream("v6", s2, <<3>>, 0, FALSE, 0, 3)}
=============================================================================
