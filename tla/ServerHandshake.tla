-------------------------- MODULE ServerHandshake --------------------------
(***************************************************************************)
(* The server from the accept loop to an authenticated session             *)
(* (crates/snell-runtime/src: server/mod.rs, server/auto.rs, session.rs,   *)
(* platform/accept.rs): admission by handshake permits, automatic protocol *)
(* detection or an exact protocol, the replay check, the derivation of the *)
(* response key, all under one timeout.                                    *)
(*                                                                         *)
(* What a connection sends is a stream of tokens, numbered from 1: its     *)
(* protocol, its salt, where its records end, how many of them make up the *)
(* first request (0: they never do) and whether it asks for UDP, which     *)
(* record behind it is a zero chunk (0: none), and how many tokens there   *)
(* are.                                                                    *)
(***************************************************************************)
EXTENDS Integers, Sequences, FiniteSets

CONSTANTS Conns,
          Streams,     \* what a connection may send
          Selections,  \* protocol selections: a subset of {"auto", "v4", "v6"}
          Permits,     \* values of SERVER_MAX_HANDSHAKES
          PrefixMax,   \* AUTO_DETECT_PREFIX_MAX
          EarlyMax,    \* SERVER_EARLY_PAYLOAD_MAX, in records
          ShiftMax     \* accept errors in a row after which the delay no longer doubles

ASSUME BoundsAssumption ==
  /\ Permits \subseteq Nat \ {0} /\ PrefixMax \in Nat \ {0}
  /\ EarlyMax \in Nat /\ ShiftMax \in Nat
ASSUME ConnsAssumption == IsFiniteSet(Conns)
ASSUME StreamsAssumption ==
  \A s \in Streams :
    /\ s.ends \in Seq(Nat \ {0}) /\ \A i \in 1..(Len(s.ends) - 1) : s.ends[i] < s.ends[i + 1]
    /\ s.reqs \in Nat /\ s.total \in Nat
ASSUME SelectionsAssumption == Selections \subseteq {"auto", "v4", "v6"}

VARIABLES config,     \* the protocol selection and the number of permits
          listener,   \* the accept loop
          permits,    \* free handshake permits
          conn,       \* the connections and their tasks
          replayed    \* salts in the replay cache

vars == <<config, listener, permits, conn, replayed>>
-----------------------------------------------------------------------------
(* A protocol's decoder on a stream.                                       *)

Flavors == {"v4", "v6"}

\* Tokens that must be there before the first header can be opened.
HeaderEnd(d) == IF d = "v4" THEN 2 ELSE 3

\* A decoder with its receive buffer: tokens copied in so far, the tokens in
\* the buffer, records opened, and the verdict.
NewCandidate == [fed |-> 0, recv |-> <<>>, opened |-> 0, state |-> "NeedMore"]

RecordStart(s, i) == IF i = 1 THEN 1 ELSE s.ends[i - 1] + 1

\* The next record of s is in the buffer of k, whole and where it should be.
HasRecord(k, s) ==
  LET next == k.opened + 1
      len == s.ends[next] - RecordStart(s, next) + 1
  IN  /\ next <= Len(s.ends) /\ Len(k.recv) >= len
      /\ \A i \in 1..len : k.recv[i] = RecordStart(s, next) + i - 1

\* decode fails: another protocol, or tokens lost or doubled.
Garbled(k, d, s) ==
  \/ k.opened = 0 /\ Len(k.recv) >= HeaderEnd(d) /\ d # s.kind
  \/ \E i \in DOMAIN k.recv :
       d = s.kind /\ k.recv[i] # (IF k.opened = 0 THEN 0 ELSE s.ends[k.opened]) + i

\* Mutant: consuming a record empties the buffer.
OpenedAlone(k, s) == [k EXCEPT !.opened = @ + 1, !.recv = <<>>]

\* decode and consume of one record; what follows it stays in the buffer.
Opened(k, s) ==
  LET next == k.opened + 1
  IN  [k EXCEPT !.opened = next,
                !.recv = SubSeq(@, s.ends[next] - RecordStart(s, next) + 2, Len(@))]

\* parse_first_request after a record.
Parsed(k, s) ==
  CASE s.reqs = 0 -> "Invalid"
    [] k.opened = s.reqs -> "Match"
    [] OTHER -> "NeedMore"

\* Mutant: the count of tokens already copied is not kept.
FedAgain(k, n) == [k EXCEPT !.recv = @ \o [i \in 1..(n - k.fed) |-> k.fed + i]]

\* The tokens up to n that k has not seen are copied into its buffer.
Fed(k, n) == [k EXCEPT !.recv = @ \o [i \in 1..(n - k.fed) |-> k.fed + i], !.fed = n]

\* One turn of the loop in Candidate::decode.
Decoded(k, d, s) ==
  CASE Garbled(k, d, s) -> [k EXCEPT !.state = "Invalid"]
    [] ~Garbled(k, d, s) /\ d = s.kind /\ HasRecord(k, s) ->
         [Opened(k, s) EXCEPT !.state = Parsed(Opened(k, s), s)]
    [] OTHER -> k
-----------------------------------------------------------------------------
Waiting == [at |-> "new", stream |-> CHOOSE s \in Streams : TRUE, got |-> 0,
            flavor |-> "v4", cand |-> [d \in Flavors |-> NewCandidate]]

\* The locals of a task go with it.
Dropped == [Waiting EXCEPT !.at = "closed"]

Init ==
  /\ config \in [selection : Selections, permits : Permits]
  /\ listener = [at |-> "listen", consecutive |-> 0]
  /\ permits = config.permits
  /\ conn = [c \in Conns |-> Waiting]
  /\ replayed = {}

\* Where a task still holds its handshake permit.
Handshakes == {"v4", "v6", "decide", "read", "exact", "drain", "derive"}
Handshaking == {c \in Conns : conn[c].at \in Handshakes}

\* The task of c ends in the handshake: its stream and its permit are dropped.
Close(c) ==
  /\ conn' = [conn EXCEPT ![c] = Dropped]
  /\ permits' = permits + 1

(* The accept loop.                                                        *)

\* handle_server picks automatic detection or the exact protocol.
Started(c, s) ==
  [conn EXCEPT ![c].stream = s,
               ![c].at = IF config.selection = "auto" THEN "v4" ELSE "exact",
               ![c].flavor = IF config.selection = "auto" THEN @ ELSE config.selection]

\* AcceptLoop::next and serve_server: a connection without a permit is dropped.
Accept(c, s) ==
  /\ listener.at = "listen" /\ conn[c].at = "new"
  /\ listener' = [listener EXCEPT !.consecutive = 0]
  /\ IF permits = 0
     THEN conn' = [conn EXCEPT ![c] = Dropped] /\ UNCHANGED permits
     ELSE conn' = Started(c, s) /\ permits' = permits - 1
  /\ UNCHANGED <<config, replayed>>

\* The delay after n errors in a row no longer grows from ShiftMax on.
NextDelay(n) == IF n < ShiftMax THEN n + 1 ELSE ShiftMax

\* Out of descriptors: back off and try again. (An aborted connection is
\* skipped: no step.)
AcceptResource ==
  /\ listener.at = "listen"
  /\ listener' = [at |-> "sleep", consecutive |-> NextDelay(listener.consecutive)]
  /\ UNCHANGED <<config, permits, conn, replayed>>

\* Mutant: the loop gives up once the delay has reached its cap.
WakeUncapped ==
  /\ listener.at = "sleep" /\ listener.consecutive < ShiftMax
  /\ listener' = [listener EXCEPT !.at = "listen"]
  /\ UNCHANGED <<config, permits, conn, replayed>>

Wake ==
  /\ listener.at = "sleep"
  /\ listener' = [listener EXCEPT !.at = "listen"]
  /\ UNCHANGED <<config, permits, conn, replayed>>

\* A fatal accept error, or a shutdown.
Stop ==
  /\ listener.at # "stopped"
  /\ listener' = [at |-> "stopped", consecutive |-> 0]
  /\ UNCHANGED <<config, permits, conn, replayed>>
-----------------------------------------------------------------------------
(* Automatic detection.                                                    *)

\* Candidate::advance, one record a step: each may wait for a derivation.
Advance(c, d) ==
  LET s == conn[c].stream
      fed == Fed(conn[c].cand[d], conn[c].got)
      k == IF fed.state = "NeedMore" THEN Decoded(fed, d, s) ELSE fed
      again == k.state = "NeedMore" /\ k.opened > fed.opened
  IN  /\ conn[c].at = d
      /\ conn' = [conn EXCEPT ![c].cand[d] = k,
                    ![c].at = CASE again -> d [] ~again /\ d = "v4" -> "v6" [] OTHER -> "decide"]
      /\ UNCHANGED <<config, listener, permits, replayed>>

Verdict(c, d) == conn[c].cand[d].state
Ambiguous(c) == \A d \in Flavors : Verdict(c, d) = "Match"
Hopeless(c) == \A d \in Flavors : Verdict(c, d) = "Invalid"
Chosen(c) == CHOOSE d \in Flavors : Verdict(c, d) = "Match"

\* Mutant: detection does not remember the salt.
DecideForgets(c) ==
  /\ conn[c].at = "decide"
  /\ conn' = IF \E d \in Flavors : Verdict(c, d) = "Match"
             THEN [conn EXCEPT ![c].at = "derive", ![c].flavor = Chosen(c)]
             ELSE [conn EXCEPT ![c].at = "read"]
  /\ UNCHANGED <<config, listener, permits, replayed>>

\* The end of a turn in detect_inner.
Decide(c) ==
  LET matches == \E d \in Flavors : Verdict(c, d) = "Match"
      salt == conn[c].stream.salt
      known == matches /\ Chosen(c) = "v6" /\ salt \in replayed
  IN  /\ conn[c].at = "decide"
      /\ CASE Ambiguous(c) \/ Hopeless(c) \/ known -> Close(c) /\ UNCHANGED replayed
           [] matches /\ ~Ambiguous(c) /\ ~known ->
                /\ conn' = [conn EXCEPT ![c].at = "derive", ![c].flavor = Chosen(c)]
                /\ replayed' = IF Chosen(c) = "v6" THEN replayed \cup {salt} ELSE replayed
                /\ UNCHANGED permits
           [] ~matches /\ ~Hopeless(c) /\ conn[c].got >= PrefixMax ->
                Close(c) /\ UNCHANGED replayed
           [] OTHER -> /\ conn' = [conn EXCEPT ![c].at = "read"]
                       /\ UNCHANGED <<permits, replayed>>
      /\ UNCHANGED <<config, listener>>

\* read_into_recv into the prefix.
ReadPrefix(c, n) ==
  /\ conn[c].at = "read"
  /\ n <= conn[c].stream.total - conn[c].got /\ n <= PrefixMax - conn[c].got
  /\ conn' = [conn EXCEPT ![c].got = @ + n, ![c].at = "v4"]
  /\ UNCHANGED <<config, listener, permits, replayed>>
-----------------------------------------------------------------------------
(* An exact protocol.                                                      *)

\* Tokens read from the socket go to the decoder's buffer.
Received(c, n) ==
  [conn EXCEPT ![c].got = @ + n,
               ![c].cand[conn[c].flavor] = Fed(@, conn[c].got + n)]

\* fill_until: only when the buffer holds no whole record.
ReadExact(c, n) ==
  LET d == conn[c].flavor  k == conn[c].cand[d]  s == conn[c].stream
  IN  /\ conn[c].at = "exact" /\ ~Garbled(k, d, s) /\ ~(d = s.kind /\ HasRecord(k, s))
      /\ n <= s.total - conn[c].got
      /\ conn' = Received(c, n)
      /\ UNCHANGED <<config, listener, permits, replayed>>

\* read_server_connect: the salt is checked with the first record opened.
OpenExact(c) ==
  LET d == conn[c].flavor  k == conn[c].cand[d]  s == conn[c].stream
      check == d = "v6" /\ k.opened = 0
      next == Opened(k, s)
      request == Parsed(next, s)
  IN  /\ conn[c].at = "exact" /\ d = s.kind /\ ~Garbled(k, d, s) /\ HasRecord(k, s)
      /\ IF check /\ s.salt \in replayed THEN Close(c) /\ UNCHANGED replayed
         ELSE /\ replayed' = IF check THEN replayed \cup {s.salt} ELSE replayed
              /\ IF request = "Invalid" THEN Close(c)
                 ELSE /\ conn' = [conn EXCEPT ![c].cand[d] = [next EXCEPT !.state = request],
                                    ![c].at = CASE request # "Match" -> "exact"
                                                 [] request = "Match" /\ s.udp -> "derive"
                                                 [] OTHER -> "drain"]
                      /\ UNCHANGED permits
      /\ UNCHANGED <<config, listener>>

\* The decoder fails on what was received.
FailExact(c) ==
  LET d == conn[c].flavor  k == conn[c].cand[d]
  IN  /\ conn[c].at = "exact" /\ Garbled(k, d, conn[c].stream)
      /\ Close(c)
      /\ UNCHANGED <<config, listener, replayed>>

\* drain_early_payload: whole records that are already there, up to a limit or
\* to a zero chunk, which is taken.
DrainRecord(c) ==
  LET d == conn[c].flavor  k == conn[c].cand[d]  s == conn[c].stream
      ends == k.opened + 1 = s.zero
  IN  /\ conn[c].at = "drain" /\ HasRecord(k, s)
      /\ IF ~ends /\ k.opened - s.reqs >= EarlyMax THEN Close(c)
         ELSE /\ conn' = [conn EXCEPT ![c].cand[d] = Opened(k, s),
                                      ![c].at = IF ends THEN "derive" ELSE "drain"]
              /\ UNCHANGED permits
      /\ UNCHANGED <<config, listener, replayed>>

\* drain_early_payload without a whole record: takes what is ready, or stops.
DrainRead(c, n) ==
  LET s == conn[c].stream
  IN  /\ conn[c].at = "drain" /\ ~HasRecord(conn[c].cand[conn[c].flavor], s)
      /\ n <= s.total - conn[c].got
      /\ conn' = IF n = 0 THEN [conn EXCEPT ![c].at = "derive"] ELSE Received(c, n)
      /\ UNCHANGED <<config, listener, permits, replayed>>
-----------------------------------------------------------------------------
(* The end of a handshake.                                                 *)

\* The peer closes, or the connection fails, while the server reads. (The end
\* of the stream only ends a drain: DrainRead(c, 0).)
ReadEof(c) ==
  /\ conn[c].at \in {"read", "exact", "drain"}
  /\ Close(c)
  /\ UNCHANGED <<config, listener, replayed>>

\* Mutant: the session keeps its handshake permit.
DeriveKeepsPermit(c) ==
  /\ conn[c].at = "derive"
  /\ conn' = [conn EXCEPT ![c].at = "session"]
  /\ UNCHANGED <<config, listener, permits, replayed>>

\* KdfLimiter::derive of the response key, then drop(handshake).
Derive(c) ==
  /\ conn[c].at = "derive"
  /\ conn' = [conn EXCEPT ![c].at = "session"]
  /\ permits' = permits + 1
  /\ UNCHANGED <<config, listener, replayed>>

\* A derivation is refused or fails, in a candidate or at the end.
DeriveFails(c) ==
  /\ conn[c].at \in {"v4", "v6", "exact", "derive"}
  /\ Close(c)
  /\ UNCHANGED <<config, listener, replayed>>

\* Mutant: the timeout covers the reads only.
TimeoutReads(c) ==
  /\ conn[c].at \in {"read", "exact"}
  /\ Close(c)
  /\ UNCHANGED <<config, listener, replayed>>

\* with_timeout drops the handshake wherever it is waiting.
Timeout(c) ==
  /\ conn[c].at \in {"v4", "v6", "read", "exact", "derive"}
  /\ Close(c)
  /\ UNCHANGED <<config, listener, replayed>>

\* server_session returns.
SessionEnds(c) ==
  /\ conn[c].at = "session"
  /\ conn' = [conn EXCEPT ![c] = Dropped]
  /\ UNCHANGED <<config, listener, permits, replayed>>

\* Steps a task takes without waiting for anyone.
Runs(c) ==
  \/ Decide(c) \/ DrainRecord(c) \/ DrainRead(c, 0) \/ FailExact(c) \/ OpenExact(c)

Task(c) ==
  \/ \E d \in Flavors : Advance(c, d)
  \/ \E n \in 1..conn[c].stream.total : ReadPrefix(c, n) \/ ReadExact(c, n) \/ DrainRead(c, n)
  \/ ReadEof(c) \/ Derive(c) \/ DeriveFails(c) \/ SessionEnds(c)

Next ==
  \/ \E c \in Conns, s \in Streams : Accept(c, s)
  \/ AcceptResource \/ Wake \/ Stop
  \/ \E c \in Conns : Runs(c) \/ Task(c) \/ Timeout(c)

Safety == Init /\ [][Next]_vars

\* Fairness: a task that need not wait runs, timers fire, and connections in
\* the backlog are accepted. No peer, and no derivation, need make progress.
Spec ==
  /\ Safety
  /\ WF_vars(Wake)
  /\ SF_vars(\E c \in Conns, s \in Streams : Accept(c, s))
  /\ \A c \in Conns : WF_vars(Runs(c) \/ Timeout(c))
-----------------------------------------------------------------------------
\* A handshake permit is held exactly until the first request has
\* authenticated (serve_server, drop(handshake)): none leaks with a timed-out
\* or failed handshake, and a running session does not keep one.
PermitsExact == permits \in Nat /\ permits + Cardinality(Handshaking) = config.permits

\* The session's decoder starts where the handshake left off: every token read
\* from the socket is in a record already opened or in the buffer handed over.
\* And the candidate of the protocol a client speaks is never given up on a
\* valid request, in whatever pieces it arrives (Candidate::advance).
Handoff ==
  \A c \in Conns :
    LET s == conn[c].stream
        k == conn[c].cand[s.kind]
    IN  /\ conn[c].at = "session" =>
             /\ conn[c].flavor = s.kind /\ s.reqs > 0 /\ k.opened >= s.reqs
             /\ k.recv = [i \in 1..(conn[c].got - s.ends[k.opened]) |-> s.ends[k.opened] + i]
        /\ s.kind \in Flavors /\ s.reqs > 0 => k.state # "Invalid"

\* No salt opens two v6 sessions, whichever way they were detected and
\* wherever the other handshake was when the salt was checked.
SaltOnce ==
  \A c, d \in Conns :
    /\ c # d /\ {conn[c].at, conn[d].at} \subseteq {"derive", "session"}
    /\ conn[c].flavor = "v6" /\ conn[d].flavor = "v6"
    => conn[c].stream.salt # conn[d].stream.salt

\* A handshake comes to an end although neither the client nor a derivation
\* makes progress.
HandshakeEnds == \A c \in Conns : (conn[c].at \in Handshakes) ~> (conn[c].at \notin Handshakes)

\* A connection in the backlog is accepted or dropped, unless the listener
\* stops: running out of descriptors only delays it.
Admitted == \A c \in Conns : (conn[c].at = "new") ~> (conn[c].at # "new" \/ listener.at = "stopped")
=============================================================================
