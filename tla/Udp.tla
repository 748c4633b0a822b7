-------------------------------- MODULE Udp --------------------------------
(***************************************************************************)
(* UDP over Snell (crates/snell-runtime/src: udp.rs, client/udp.rs,        *)
(* server/udp.rs, server/outbound.rs): SOCKS5 associations of the client,  *)
(* the session each one opens on its first datagram and reopens after it   *)
(* idled out, and the server's associations with their upstream flow.      *)
(*                                                                         *)
(* A Snell connection carries datagrams as records. A record travels in    *)
(* two pieces, so that decode_once can be cancelled by select! with half   *)
(* of it read, and a direction of a connection holds at most Cap pieces:   *)
(* a task that writes waits for room.                                      *)
(***************************************************************************)
EXTENDS Integers, Sequences, FiniteSets

CONSTANTS Assocs,
          Conns,        \* Snell connections that may be dialed
          Addrs,        \* addresses of local senders: [ip, port]
          ClientIp,     \* the IP of the control connections
          Kinds,        \* of datagrams: a subset of {"ok", "frag", "bad", "big"}
          Controls,     \* max_controls
          ClientMax,    \* max_associations of the client
          ServerMax,    \* max_associations of the server
          Cap,          \* pieces a direction of a connection holds
          MaxDatagrams, \* bound on the datagrams an association receives
          MaxReplies,   \* bound on the replies a flow receives
          Outbound,     \* "direct" or "socks5"
          None

ASSUME LimitsAssumption ==
  /\ {Controls, ClientMax, ServerMax} \subseteq Nat
  /\ {MaxDatagrams, MaxReplies} \subseteq Nat /\ Cap \in Nat /\ Cap >= 2
ASSUME AddrsAssumption == None \notin Addrs /\ None \notin Conns /\ None # "tunnel"
ASSUME FiniteAssumption == IsFiniteSet(Assocs) /\ IsFiniteSet(Conns)

VARIABLES controls,  \* free control slots
          live,      \* UdpMetrics::associations of the client and of the server
          assoc,     \* associations of the client
          conn       \* connections, with the server's task on each

vars == <<controls, live, assoc, conn>>
-----------------------------------------------------------------------------
Pieces(id) == <<<<id, 1>>, <<id, 2>>>>
AllPieces(ids) == [i \in 1..(2 * Len(ids)) |-> Pieces(ids[(i + 1) \div 2])[2 - (i % 2)]]

\* decode finds a whole record at the front of a receive buffer.
HasRecord(recv) == Len(recv) >= 2 /\ recv[1][1] = recv[2][1]

NewAssoc == [at |-> "none", open |-> TRUE, client |-> None, hold |-> None, conn |-> None,
             recv |-> <<>>, count |-> 0, sources |-> {}, got |-> <<>>]

\* What is left of an association when its task has returned.
Ended == [NewAssoc EXCEPT !.at = "ended", !.open = FALSE]

NewConn == [open |-> FALSE, up |-> <<>>, down |-> <<>>, reply |-> None,
            at |-> "none", recv |-> <<>>, hold |-> None, count |-> 0,
            sent |-> <<>>, flowed |-> <<>>, written |-> <<>>]

Init ==
  /\ controls = Controls
  /\ live = [client |-> 0, server |-> 0]
  /\ assoc = [a \in Assocs |-> NewAssoc]
  /\ conn = [k \in Conns |-> NewConn]

\* Where an association's run holds a session slot.
Sessions == {"open", "setup", "forward", "pump"}
InSession == {a \in Assocs : assoc[a].at \in Sessions}

\* Where a server task holds one.
Serving == {"flow", "relay", "reply"}
InService == {k \in Conns : conn[k].at \in Serving}
-----------------------------------------------------------------------------
(* The client.                                                             *)

\* associate: a slot, the relay socket, the reply.
Associate(a) ==
  /\ assoc[a].at = "none"
  /\ IF controls = 0
     THEN assoc' = [assoc EXCEPT ![a] = Ended] /\ UNCHANGED controls
     ELSE /\ assoc' = [assoc EXCEPT ![a].at = "recv"]
          /\ controls' = controls - 1
  /\ UNCHANGED <<live, conn>>

\* The relay socket cannot be bound, or fails: the control slot is dropped.
AssociateFails(a) ==
  /\ assoc[a].at \in {"none", "recv"}
  /\ assoc' = [assoc EXCEPT ![a] = Ended]
  /\ controls' = IF assoc[a].at = "recv" THEN controls + 1 ELSE controls
  /\ UNCHANGED <<live, conn>>

\* The application closes the control connection.
CloseControl(a) ==
  /\ assoc[a].at \in {"recv"} \cup Sessions /\ assoc[a].open
  /\ assoc' = [assoc EXCEPT ![a].open = FALSE]
  /\ UNCHANGED <<controls, live, conn>>

\* The client's end of the connection of a is dropped, if it has one, and what
\* it has not read with it.
Hangup(a) ==
  LET k == assoc[a].conn
  IN  conn' = IF k = None THEN conn
              ELSE [conn EXCEPT ![k].open = FALSE, ![k].reply = None,
                                ![k].down = <<>>, ![k].written = <<>>]

\* Mutant: the session slot outlives a session cut short.
ClosedKeepsSlot(a) ==
  /\ assoc[a].at \in {"recv"} \cup Sessions /\ ~assoc[a].open
  /\ assoc' = [assoc EXCEPT ![a] = Ended]
  /\ controls' = controls + 1
  /\ Hangup(a)
  /\ UNCHANGED live

\* Mutant: closed() is awaited only while a session relays.
ClosedInPump(a) ==
  /\ assoc[a].at = "pump" /\ ~assoc[a].open
  /\ assoc' = [assoc EXCEPT ![a] = Ended]
  /\ controls' = controls + 1
  /\ live' = [live EXCEPT !.client = @ - 1]
  /\ Hangup(a)

\* closed() wins select!: run is dropped wherever it waits, with all it holds.
Closed(a) ==
  /\ assoc[a].at \in {"recv"} \cup Sessions /\ ~assoc[a].open
  /\ assoc' = [assoc EXCEPT ![a] = Ended]
  /\ controls' = controls + 1
  /\ live' = IF assoc[a].at \in Sessions THEN [live EXCEPT !.client = @ - 1] ELSE live
  /\ Hangup(a)

\* Mutant: a new session may have a new client.
SessionOverForgets(a) ==
  /\ assoc' = [assoc EXCEPT ![a].at = "recv", ![a].conn = None, ![a].hold = None,
                            ![a].recv = <<>>, ![a].got = <<>>, ![a].client = None]
  /\ live' = [live EXCEPT !.client = @ - 1]
  /\ Hangup(a)
  /\ UNCHANGED controls

\* session returns: its connection and its slot are dropped, run goes on.
SessionOver(a) ==
  /\ assoc' = [assoc EXCEPT ![a].at = "recv", ![a].conn = None, ![a].hold = None,
                            ![a].recv = <<>>, ![a].got = <<>>]
  /\ live' = [live EXCEPT !.client = @ - 1]
  /\ Hangup(a)
  /\ UNCHANGED controls

\* Relay::recv: the control connection's IP, then the first datagram's port.
Expected(a, from) ==
  IF assoc[a].client = None THEN from.ip = ClientIp ELSE from = assoc[a].client

\* client_packet: neither malformed nor a fragment. ("big" does not fit a
\* record, which only forward finds out.)
Parses(kind) == kind \notin {"bad", "frag"}

\* admit, for the client.
Admits == live.client < ClientMax

\* run: a datagram that parses opens a session, if one more is admitted.
RecvFirst(a, from, kind) ==
  LET opens == Expected(a, from) /\ Parses(kind) /\ Admits
  IN  /\ assoc[a].at = "recv" /\ assoc[a].count < MaxDatagrams
      /\ assoc' = [assoc EXCEPT ![a].count = @ + 1,
                     ![a].client = IF Expected(a, from) THEN from ELSE @,
                     ![a].at = IF opens THEN "open" ELSE @,
                     ![a].hold = IF opens THEN [id |-> assoc[a].count, kind |-> kind, from |-> from]
                                 ELSE @]
      /\ live' = IF opens THEN [live EXCEPT !.client = @ + 1] ELSE live
      /\ UNCHANGED <<controls, conn>>

\* open_session dials and writes the UDP setup.
Dial(a, k) ==
  /\ assoc[a].at = "open" /\ conn[k].at = "none"
  /\ conn' = [conn EXCEPT ![k].open = TRUE, ![k].at = "setup"]
  /\ assoc' = [assoc EXCEPT ![a].at = "setup", ![a].conn = k]
  /\ UNCHANGED <<controls, live>>

\* read_server_tunnel: the server accepts.
Tunnel(a) ==
  /\ assoc[a].at = "setup" /\ conn[assoc[a].conn].reply = "tunnel"
  /\ assoc' = [assoc EXCEPT ![a].at = "forward"]
  /\ UNCHANGED <<controls, live, conn>>

\* open_session fails: dialing, a rejection, a lost connection, the timeout.
OpenFails(a) == assoc[a].at \in {"open", "setup"} /\ SessionOver(a)

\* The connection no longer has the server at its other end.
ServerGone(a) == conn[assoc[a].conn].at = "closed"

\* forward: one record, when there is room for it; other kinds are dropped.
Forward(a) ==
  LET k == assoc[a].conn
      d == assoc[a].hold
      sends == Parses(d.kind) /\ d.kind # "big"
  IN  /\ assoc[a].at = "forward"
      /\ sends => ~ServerGone(a) /\ Len(conn[k].up) + 2 <= Cap
      /\ conn' = IF sends THEN [conn EXCEPT ![k].up = @ \o Pieces(d.id), ![k].sent = Append(@, d.id)]
                 ELSE conn
      /\ assoc' = [assoc EXCEPT ![a].at = "pump", ![a].hold = None,
                     ![a].sources = IF sends THEN @ \cup {d.from} ELSE @]
      /\ UNCHANGED <<controls, live>>

\* forward fails on a connection the server has closed.
ForwardFails(a) == assoc[a].at = "forward" /\ ServerGone(a) /\ SessionOver(a)

\* pump: the datagram branch of select!, which cancels decode_once.
PumpDatagram(a, from, kind) ==
  /\ assoc[a].at = "pump" /\ assoc[a].count < MaxDatagrams
  /\ assoc' = IF Expected(a, from)
              THEN [assoc EXCEPT ![a].count = @ + 1, ![a].at = "forward",
                      ![a].hold = [id |-> assoc[a].count, kind |-> kind, from |-> from]]
              ELSE [assoc EXCEPT ![a].count = @ + 1]
  /\ UNCHANGED <<controls, live, conn>>

\* pump: decode_once reads a piece.
PumpRead(a) ==
  LET k == assoc[a].conn
  IN  /\ assoc[a].at = "pump" /\ ~HasRecord(assoc[a].recv) /\ conn[k].down # <<>>
      /\ assoc' = [assoc EXCEPT ![a].recv = Append(@, Head(conn[k].down))]
      /\ conn' = [conn EXCEPT ![k].down = Tail(@)]
      /\ UNCHANGED <<controls, live>>

\* pump: a record goes to the client as a SOCKS5 datagram.
PumpRecord(a) ==
  /\ assoc[a].at = "pump" /\ HasRecord(assoc[a].recv)
  /\ assoc' = [assoc EXCEPT ![a].recv = SubSeq(@, 3, Len(@)),
                            ![a].got = Append(@, assoc[a].recv[1][1])]
  /\ UNCHANGED <<controls, live, conn>>

\* pump: nothing to read; the idle limit passes, or the server has closed.
PumpEnds(a) ==
  /\ assoc[a].at = "pump" /\ ~HasRecord(assoc[a].recv) /\ conn[assoc[a].conn].down = <<>>
  /\ SessionOver(a)
-----------------------------------------------------------------------------
(* The server's task on a connection.                                      *)

\* run_server_udp returns: the stream, the flow and the slot are dropped.
ServerOver(k) ==
  /\ conn' = [conn EXCEPT ![k].at = "closed", ![k].hold = None, ![k].recv = <<>>, ![k].up = <<>>,
                          ![k].count = 0, ![k].sent = <<>>, ![k].flowed = <<>>]
  /\ live' = [live EXCEPT !.server = @ - 1]
  /\ UNCHANGED <<controls, assoc>>

\* The server's handshake fails before there is a session.
SetupFails(k) ==
  /\ conn[k].at = "setup"
  /\ conn' = [conn EXCEPT ![k].at = "closed"]
  /\ UNCHANGED <<controls, live, assoc>>

\* The setup request is admitted, or rejected at the limit.
ServerAdmit(k) ==
  /\ conn[k].at = "setup"
  /\ IF live.server < ServerMax
     THEN conn' = [conn EXCEPT ![k].at = "flow"] /\ live' = [live EXCEPT !.server = @ + 1]
     ELSE conn' = [conn EXCEPT ![k].at = "closed", ![k].reply = "reject"] /\ UNCHANGED live
  /\ UNCHANGED <<controls, assoc>>

\* UdpFlow::open and write_tunnel.
FlowOpens(k) ==
  /\ conn[k].at = "flow"
  /\ conn' = [conn EXCEPT ![k].at = "relay", ![k].reply = "tunnel"]
  /\ UNCHANGED <<controls, live, assoc>>

\* UdpFlow::open fails, or the flow does while it receives.
FlowFails(k) == conn[k].at \in {"flow", "relay"} /\ ServerOver(k)

\* decode_once reads a piece.
ServerRead(k) ==
  /\ conn[k].at = "relay" /\ ~HasRecord(conn[k].recv) /\ conn[k].up # <<>>
  /\ conn' = [conn EXCEPT ![k].recv = Append(@, Head(conn[k].up)), ![k].up = Tail(@)]
  /\ UNCHANGED <<controls, live, assoc>>

\* A record goes to the flow; UdpFlow::send may fail, which is only counted.
ServerRecord(k) ==
  /\ conn[k].at = "relay" /\ HasRecord(conn[k].recv)
  /\ conn' = [conn EXCEPT ![k].recv = SubSeq(@, 3, Len(@)),
                          ![k].flowed = Append(@, conn[k].recv[1][1])]
  /\ UNCHANGED <<controls, live, assoc>>

\* Mutant: what a cancelled decode_once had read is lost.
FlowRecvRestarts(k) ==
  /\ conn[k].at = "relay" /\ conn[k].count < MaxReplies
  /\ conn' = [conn EXCEPT ![k].at = "reply", ![k].hold = conn[k].count, ![k].count = @ + 1,
                          ![k].recv = <<>>]
  /\ UNCHANGED <<controls, live, assoc>>

\* UdpFlow::recv returns a datagram, which cancels decode_once.
FlowRecv(k) ==
  /\ conn[k].at = "relay" /\ conn[k].count < MaxReplies
  /\ conn' = [conn EXCEPT ![k].at = "reply", ![k].hold = conn[k].count, ![k].count = @ + 1]
  /\ UNCHANGED <<controls, live, assoc>>

\* write_udp_response, when there is room.
ServerWrite(k) ==
  /\ conn[k].at = "reply" /\ conn[k].open /\ Len(conn[k].down) + 2 <= Cap
  /\ conn' = [conn EXCEPT ![k].at = "relay", ![k].hold = None,
                ![k].down = @ \o Pieces(conn[k].hold), ![k].written = Append(@, conn[k].hold)]
  /\ UNCHANGED <<controls, live, assoc>>

\* The reply is too large for a record.
ServerOversize(k) ==
  /\ conn[k].at = "reply"
  /\ conn' = [conn EXCEPT ![k].at = "relay", ![k].hold = None]
  /\ UNCHANGED <<controls, live, assoc>>

\* Mutant: only the reader notices that the client has gone.
ClientGoneReads(k) ==
  /\ ~conn[k].open
  /\ conn[k].at = "relay" /\ ~HasRecord(conn[k].recv) /\ conn[k].up = <<>>
  /\ ServerOver(k)

\* The client has gone: decode_once meets the end of the stream behind the
\* records that are there, or a write fails.
ClientGone(k) ==
  /\ ~conn[k].open
  /\ \/ conn[k].at = "relay" /\ ~HasRecord(conn[k].recv) /\ conn[k].up = <<>>
     \/ conn[k].at = "reply"
  /\ ServerOver(k)

\* Nothing to read and nothing received until the idle limit.
ServerIdle(k) ==
  /\ conn[k].at = "relay" /\ ~HasRecord(conn[k].recv) /\ conn[k].up = <<>>
  /\ ServerOver(k)
-----------------------------------------------------------------------------
Client(a) ==
  \/ Associate(a) \/ AssociateFails(a) \/ CloseControl(a) \/ Closed(a)
  \/ \E from \in Addrs, kind \in Kinds : RecvFirst(a, from, kind) \/ PumpDatagram(a, from, kind)
  \/ \E k \in Conns : Dial(a, k)
  \/ Tunnel(a) \/ OpenFails(a) \/ Forward(a) \/ ForwardFails(a)
  \/ PumpRead(a) \/ PumpRecord(a) \/ PumpEnds(a)

Server(k) ==
  \/ SetupFails(k) \/ ServerAdmit(k) \/ FlowOpens(k) \/ FlowFails(k)
  \/ ServerRead(k) \/ ServerRecord(k) \/ FlowRecv(k) \/ ServerWrite(k) \/ ServerOversize(k)
  \/ ClientGone(k) \/ ServerIdle(k)

Next == (\E a \in Assocs : Client(a)) \/ (\E k \in Conns : Server(k))

Safety == Init /\ [][Next]_vars

\* Fairness: tasks run when they can, timers fire, a local bind succeeds or
\* fails. Nothing makes an application close its control connection or send a
\* datagram, and nothing makes a SOCKS5 upstream answer UdpFlow::open.
Spec ==
  /\ Safety
  /\ \A a \in Assocs :
       /\ WF_vars(Closed(a)) /\ WF_vars(OpenFails(a)) /\ WF_vars(Forward(a))
       /\ WF_vars(ForwardFails(a)) /\ WF_vars(PumpRead(a)) /\ WF_vars(PumpRecord(a))
       /\ WF_vars(PumpEnds(a))
  /\ \A k \in Conns :
       /\ WF_vars(SetupFails(k)) /\ WF_vars(ServerRead(k)) /\ WF_vars(ServerRecord(k))
       /\ WF_vars(ServerWrite(k)) /\ WF_vars(ClientGone(k)) /\ WF_vars(ServerIdle(k))
       /\ Outbound = "direct" => WF_vars(FlowOpens(k))
-----------------------------------------------------------------------------
\* Slots are held by exactly the sessions that are live, never more than the
\* limits, however they end: by idling, with an error, or dropped in the middle
\* of anything when the control connection closes (SessionSlot, _control_slot).
SlotsExact ==
  /\ controls \in Nat /\ live.client <= ClientMax /\ live.server <= ServerMax
  /\ live = [client |-> Cardinality(InSession), server |-> Cardinality(InService)]
  /\ controls + Cardinality({a \in Assocs : assoc[a].at \in {"recv"} \cup Sessions}) = Controls

\* All datagrams an association relays, in all its sessions, come from one
\* address, at the IP of its control connection (Relay::recv).
OneClient ==
  \A a \in Assocs : \A x, y \in assoc[a].sources : x = y /\ x.ip = ClientIp

\* Requests reach the flow, and replies the client, in order and none is lost
\* on the way, although select! cancels decode_once with half a record read on
\* either side.
DatagramsInOrder ==
  /\ \A k \in Conns : conn[k].at \in {"relay", "reply"} =>
       AllPieces(conn[k].sent) = AllPieces(conn[k].flowed) \o conn[k].recv \o conn[k].up
  /\ \A a \in Assocs : assoc[a].at \in {"forward", "pump"} =>
       LET k == assoc[a].conn
       IN  AllPieces(conn[k].written) = AllPieces(assoc[a].got) \o assoc[a].recv \o conn[k].down

\* An association ends after its control connection has closed, whatever its
\* session is waiting for; and the server gives up an association after the
\* client has dropped it (associate, run_server_udp).
AssociationEnds ==
  /\ \A a \in Assocs : (~assoc[a].open) ~> (assoc[a].at = "ended")
  /\ \A k \in Conns : (conn[k].at # "none" /\ ~conn[k].open) ~> (conn[k].at = "closed")

\* A session that relays nothing any more is closed (UdpLimits::idle): there are
\* only so many datagrams and replies here, so each session comes to its end.
IdleCloses == \A a \in Assocs : (assoc[a].at \in Sessions) ~> (assoc[a].at \notin Sessions)
=============================================================================
