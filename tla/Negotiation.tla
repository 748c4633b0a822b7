---------------------------- MODULE Negotiation ----------------------------
(***************************************************************************)
(* How one session is set up, end to end: an application asks the client's *)
(* SOCKS5 listener (snell-runtime/src/client/socks.rs, client/mod.rs), the *)
(* client asks the server over Snell records (session.rs), and the server  *)
(* connects, directly or through an upstream SOCKS5 proxy                  *)
(* (server/mod.rs, server/outbound.rs). For UDP one datagram is followed   *)
(* there and back (client/udp.rs, server/udp.rs).                          *)
(*                                                                         *)
(* Every party may send the next thing before it has to, so that a reader  *)
(* finds bytes of what follows behind the message it parses; and every     *)
(* party may close or fall silent. Sealing, admission and the relays have  *)
(* modules of their own: a record is its plaintext here, in order.         *)
(***************************************************************************)
EXTENDS Messages, SequencesExt

CONSTANTS Requests,   \* what applications ask for: [methods, command, dest, frag]
          Clients,    \* Snell clients: [id, command, early]
          Outbounds,  \* a subset of {"direct", "socks5"}
          Binds,      \* bind addresses in an upstream proxy's replies
          Sources,    \* sources of datagrams that come back
          Splits,     \* where a message may be split into two records
          AppData, RemoteData,  \* the stream bytes of both ends, and the payloads
          MaxEarly,   \* SERVER_EARLY_PAYLOAD_MAX
          Unspecified, Proxy,   \* 0.0.0.0 with port 0; the upstream proxy
          RelaySocket,          \* where the client's UDP relay is bound
          DnsOf,      \* the IP address a name resolves to
          Packing,    \* whether servers put stream bytes into the record of their reply
          None

VARIABLES request,   \* what the application asks for
          script,    \* what it has still to write
          gone,      \* it closed its connection
          toClient, toApp,  \* bytes between application and client
          client,    \* the client's session
          up, down,  \* records between client and server
          server,    \* the server's session
          outbound,  \* how the server connects
          stalls,    \* a "proxy" that answers no more, a "remote" that reads no more
          proxy,     \* state of the upstream proxy
          toOut, fromOut,    \* bytes between server and what it connects to
          reached,   \* the address connected to or sent to
          remoteGot, \* early bytes the remote has received
          udp        \* datagrams by hop

appVars == <<request, script, gone>>
outVars == <<outbound, stalls, proxy, toOut, fromOut, reached, remoteGot>>
vars == <<appVars, toClient, toApp, client, up, down, server, outVars, udp>>

\* A record written in part, and what follows it: it does not open.
Torn == Spell("torn", 1)

NoDatagrams == [app |-> None, out |-> None, back |-> None, source |-> NoAddress, answer |-> None]

Init ==
  /\ request \in Requests
  /\ script = <<EncodeGreeting(request.methods),
                EncodeThreeAddr(VERSION, CMD[request.command], 0, request.dest)>>
               \o (IF request.command = "connect" THEN [i \in DOMAIN AppData |-> <<AppData[i]>>]
                   ELSE <<>>)
  /\ gone = FALSE /\ toClient = <<>> /\ toApp = <<>>
  /\ \E c \in Clients :
       client = [pc |-> "greeting", buf |-> <<>>, dest |-> NoAddress, id |-> c.id,
                 command |-> c.command, early |-> c.early]
  /\ up = <<>> /\ down = <<>>
  /\ \E packs \in Packing :
       server = [pc |-> "none", plain |-> <<>>, dest |-> NoAddress, left |-> <<>>,
                 relay |-> NoAddress, packs |-> packs]
  /\ outbound \in Outbounds /\ stalls = {}
  /\ proxy = "greeting" /\ toOut = <<>> /\ fromOut = <<>>
  /\ reached = NoAddress /\ remoteGot = <<>>
  /\ udp = NoDatagrams
-----------------------------------------------------------------------------
(* The application.                                                        *)

AppWrite ==
  /\ script # <<>> /\ ~gone /\ client.pc # "closed"
  /\ toClient' = toClient \o Head(script)
  /\ script' = Tail(script)
  /\ UNCHANGED <<request, gone, toApp, client, up, down, server, outVars, udp>>

AppClose ==
  /\ ~gone /\ client.pc # "closed"
  /\ gone' = TRUE
  /\ UNCHANGED <<request, script, toClient, toApp, client, up, down, server, outVars, udp>>
-----------------------------------------------------------------------------
(* The client: accept_socks5.                                              *)

ReplyBind(code, bind) == EncodeThreeAddr(VERSION, code, 0, bind)
Reply(code) == ReplyBind(code, Unspecified)

\* The session's task returns: both its connections close.
ClientCloses(bytes) ==
  /\ toApp' = toApp \o bytes
  /\ client' = [client EXCEPT !.pc = "closed", !.buf = <<>>]
  /\ toClient' = <<>> /\ down' = <<>>
  /\ UNCHANGED up

\* read_exact up to n bytes of the message.
ReadExact(n) ==
  LET missing == n - Len(client.buf)
  IN  \/ /\ Len(toClient) >= missing
         /\ client' = [client EXCEPT !.buf = @ \o Take(toClient, missing)]
         /\ toClient' = Drop(toClient, missing)
         /\ UNCHANGED <<toApp, up, down>>
      \/ Len(toClient) < missing /\ gone /\ ClientCloses(<<>>)

AcceptGreeting ==
  /\ client.pc = "greeting"
  /\ LET parsed == GreetingNeed(client.buf)
     IN  \/ parsed.is = "need" /\ ReadExact(parsed.n)
         \/ parsed.is = "error" /\ ClientCloses(<<>>)
         \/ /\ parsed.is = "done" /\ NO_AUTH \notin parsed.value
            /\ ClientCloses(EncodeMethod(NO_ACCEPTABLE))
         \/ /\ parsed.is = "done" /\ NO_AUTH \in parsed.value
            /\ toApp' = toApp \o EncodeMethod(NO_AUTH)
            /\ client' = [client EXCEPT !.pc = "request", !.buf = <<>>]
            /\ UNCHANGED <<toClient, up, down>>
  /\ UNCHANGED <<appVars, server, outVars, udp>>

AcceptRequest ==
  /\ client.pc = "request"
  /\ LET parsed == ParseCmdAddr(client.buf)
     IN  \/ parsed.is = "need" /\ ReadExact(parsed.n)
         \/ parsed.is = "error" /\ ClientCloses(<<>>)
         \/ /\ parsed.is = "done" /\ parsed.value.code = CMD.bind
            /\ ClientCloses(Reply(COMMAND_NOT_SUPPORTED))
         \/ /\ parsed.is = "done" /\ parsed.value.code # CMD.bind
            /\ client' = IF parsed.value.code = CMD.udp
                          THEN [client EXCEPT !.pc = "associate", !.buf = <<>>]
                          ELSE [client EXCEPT !.pc = "dial", !.buf = <<>>, !.dest = parsed.value.addr]
            /\ UNCHANGED <<toApp, toClient, up, down>>
  /\ UNCHANGED <<appVars, server, outVars, udp>>

\* with_handshake_timeout around accept_socks5.
AcceptTimeout ==
  /\ client.pc \in {"greeting", "request"}
  /\ ClientCloses(<<>>)
  /\ UNCHANGED <<appVars, server, outVars, udp>>
-----------------------------------------------------------------------------
(* The client: open, and for UDP associate and open_session.               *)

Udp == request.command = "udp"

\* A UDP session that fails is dropped, with its connection; its association
\* waits for another datagram, of which the application sends none here.
SessionDropped ==
  /\ client' = [client EXCEPT !.pc = "dropped", !.buf = <<>>]
  /\ down' = <<>> /\ UNCHANGED <<toApp, toClient, up>>

\* Mutant: an error of establish is returned without a reply.
OpenFailsSilently(code) == ClientCloses(<<>>)

\* open fails: the application is told why (socks5_reply_from_error), and the
\* connections close.
OpenFails(code) == IF Udp THEN SessionDropped ELSE ClientCloses(Reply(code))

\* associate: no slot or no socket, or a relay address to send datagrams to. The
\* addresses of a connection that is gone may not be there to ask for.
Associate ==
  /\ client.pc = "associate"
  /\ \/ ClientCloses(Reply(GENERAL_FAILURE))
     \/ gone /\ ClientCloses(<<>>)
     \/ /\ toApp' = toApp \o ReplyBind(SUCCEEDED, RelaySocket)
        /\ client' = [client EXCEPT !.pc = "associated"]
        /\ UNCHANGED <<toClient, up, down>>
  /\ UNCHANGED <<appVars, server, outVars, udp>>

\* The application's datagram arrives at the relay socket.
AppDatagram ==
  /\ client.pc = "associated" /\ udp.app = None /\ ~gone
  /\ udp' = [udp EXCEPT !.app = EncodeThreeAddr(0, 0, request.frag, request.dest) \o AppData]
  /\ UNCHANGED <<appVars, toClient, toApp, client, up, down, server, outVars>>

\* Mutant: fragments are taken for whole datagrams.
WholeOrPart(parsed) == parsed.is = "done"

\* client_packet and UdpFlow::recv: fragments are dropped.
Whole(parsed) == parsed.is = "done" /\ parsed.value.frag = 0

\* Association::run: the first good datagram opens a session, if one is admitted.
FirstDatagram ==
  /\ client.pc = "associated" /\ udp.app # None
  /\ \/ Whole(ParseUdpPacket(udp.app)) /\ client' = [client EXCEPT !.pc = "dial"]
     \/ client' = [client EXCEPT !.pc = "dropped"]
  /\ UNCHANGED <<appVars, toClient, toApp, up, down, server, outVars, udp>>

\* The control connection closes.
ControlCloses ==
  /\ Udp /\ gone /\ client.pc \in {"associated", "dropped", "dial", "write", "tunnel", "pump", "pumped"}
  /\ ClientCloses(<<>>)
  /\ UNCHANGED <<appVars, server, outVars, udp>>

\* dial, with its connect timeout and the key derivation.
Dial ==
  /\ client.pc = "dial"
  /\ \/ /\ client' = [client EXCEPT !.pc = "write"]
        /\ server' = [server EXCEPT !.pc = "first"]
        /\ UNCHANGED <<toApp, toClient, up, down>>
     \/ /\ \E code \in {CONNECTION_REFUSED, TTL_EXPIRED, GENERAL_FAILURE} : OpenFails(code)
        /\ UNCHANGED server
  /\ UNCHANGED <<appVars, outVars, udp>>

\* write_plain_records: the budget may split the message.
Records(m) == {<<m>>} \cup {<<Take(m, k), Drop(m, k)>> : k \in Splits \cap 1..(Len(m) - 1)}

\* write_connect or write_udp_setup. Some clients send stream bytes at once.
WriteRequest ==
  LET early == IF client.early /\ ~Udp THEN toClient ELSE <<>>
      message == IF Udp THEN EncodeUdpSetup
                 ELSE EncodeConnectAs(client.id, client.dest, client.command) \o early
  IN  /\ client.pc = "write"
      /\ \E records \in Records(message) : up' = up \o records
      /\ toClient' = IF early = <<>> THEN toClient ELSE <<>>
      /\ client' = [client EXCEPT !.pc = "tunnel"]
      /\ UNCHANGED <<appVars, toApp, down, server, outVars, udp>>

\* Such a client may end its stream before the reply, too.
EndEarly ==
  /\ client.pc = "tunnel" /\ client.early /\ ~Udp /\ gone /\ toClient = <<>>
  /\ up' = Append(up, <<>>)
  /\ client' = [client EXCEPT !.early = FALSE]
  /\ UNCHANGED <<appVars, toClient, toApp, down, server, outVars, udp>>

\* read_server_tunnel, one record; open writes the reply and what came with it.
ReadTunnel ==
  /\ client.pc = "tunnel" /\ down # <<>>
  /\ LET plain == client.buf \o Head(down)
         parsed == DecodeServerReply(plain)
     IN  \/ Head(down) \in {<<>>, Torn} /\ OpenFails(GENERAL_FAILURE)
         \/ /\ Head(down) \notin {<<>>, Torn} /\ parsed.is = "need"
            /\ client' = [client EXCEPT !.buf = plain]
            /\ down' = Tail(down) /\ UNCHANGED <<toApp, toClient, up>>
         \/ /\ Head(down) \notin {<<>>, Torn}
            /\ \/ parsed.is = "error"
               \/ parsed.is = "done" /\ parsed.value = "reject"
               \/ parsed.is = "done" /\ Udp /\ Len(plain) > parsed.n
            /\ OpenFails(GENERAL_FAILURE)
         \/ /\ Head(down) \notin {<<>>, Torn}
            /\ parsed.is = "done" /\ parsed.value = "tunnel" /\ (Udp => Len(plain) = parsed.n)
            /\ toApp' = IF Udp THEN toApp ELSE toApp \o Reply(SUCCEEDED) \o Drop(plain, parsed.n)
            /\ client' = [client EXCEPT !.pc = IF Udp THEN "pump" ELSE "relay", !.buf = <<>>]
            /\ down' = Tail(down) /\ UNCHANGED <<toClient, up>>
  /\ UNCHANGED <<appVars, server, outVars, udp>>

\* The server's end of stream, or with_handshake_timeout around open_tunnel.
TunnelFails ==
  /\ \/ client.pc = "tunnel" /\ down = <<>> /\ server.pc = "closed"
          /\ OpenFails(GENERAL_FAILURE)
     \/ client.pc \in {"write", "tunnel"} /\ OpenFails(TTL_EXPIRED)
  /\ UNCHANGED <<appVars, server, outVars, udp>>
-----------------------------------------------------------------------------
(* The server: read_server_connect.                                        *)

ClientGone == client.pc \in {"dropped", "closed"}

\* What the client has closed on is lost.
Deliver(records) == IF ClientGone THEN <<>> ELSE down \o records

ServerCloses(records) ==
  /\ server' = [server EXCEPT !.pc = "closed", !.plain = <<>>, !.left = <<>>]
  /\ down' = Deliver(records)
  /\ up' = <<>>

ReadFirst ==
  /\ server.pc = "first" /\ up # <<>>
  /\ LET plain == server.plain \o Head(up)
         parsed == FirstRequest(plain)
         left == Drop(plain, parsed.n)
     IN  \/ /\ \/ Head(up) = <<>> \/ parsed.is = "error"
               \/ parsed.is = "done" /\ Len(left) > MaxEarly
            /\ ServerCloses(<<>>)
         \/ /\ Head(up) # <<>> /\ parsed.is = "need"
            /\ server' = [server EXCEPT !.plain = plain]
            /\ up' = Tail(up) /\ UNCHANGED down
         \/ /\ Head(up) # <<>> /\ parsed.is = "done" /\ Len(left) <= MaxEarly
            /\ server' = [server EXCEPT !.pc = IF parsed.value = NoAddress THEN "derive" ELSE "drain",
                                        !.dest = parsed.value, !.plain = <<>>, !.left = left]
            /\ up' = Tail(up) /\ UNCHANGED down
  /\ UNCHANGED <<appVars, toClient, toApp, client, outVars, udp>>

\* The end of the stream, an error, or the handshake timeout.
FirstFails ==
  /\ server.pc \in {"first", "drain", "derive"} /\ ServerCloses(<<>>)
  /\ UNCHANGED <<appVars, toClient, toApp, client, outVars, udp>>

\* drain_early_payload: a record that is there already.
DrainRecord ==
  /\ server.pc = "drain" /\ up # <<>>
  /\ \/ /\ Head(up) = <<>>
        /\ server' = [server EXCEPT !.pc = "derive"] /\ up' = Tail(up) /\ UNCHANGED down
     \/ Len(server.left) + Len(Head(up)) > MaxEarly /\ ServerCloses(<<>>)
     \/ /\ Head(up) # <<>> /\ Len(server.left) + Len(Head(up)) <= MaxEarly
        /\ server' = [server EXCEPT !.left = @ \o Head(up)] /\ up' = Tail(up) /\ UNCHANGED down
  /\ UNCHANGED <<appVars, toClient, toApp, client, outVars, udp>>

\* Nothing more is ready, whatever is under way.
DrainEnds ==
  /\ server.pc = "drain"
  /\ server' = [server EXCEPT !.pc = "derive"]
  /\ UNCHANGED <<appVars, toClient, toApp, client, up, down, outVars, udp>>

\* The encoder's key is derived, still under the handshake timeout.
DeriveEncoder ==
  /\ server.pc = "derive"
  /\ server' = [server EXCEPT !.pc = "dial"]
  /\ UNCHANGED <<appVars, toClient, toApp, client, up, down, outVars, udp>>
-----------------------------------------------------------------------------
(* The server: open_remote and UdpFlow::open.                              *)

ServerUdp == server.dest = NoAddress

\* An error on the way to the remote end: write_reject is called.
Reject ==
  /\ server' = [server EXCEPT !.pc = "reject", !.plain = <<>>, !.left = <<>>]
  /\ UNCHANGED <<up, down>>

\* write_reject is done or fails, and the session returns. What it writes behind
\* a record that was cut short cannot be opened.
WriteReject ==
  /\ \/ server.pc = "reject" /\ \E records \in Records(EncodeReject(2)) : ServerCloses(records)
     \/ server.pc = "torn" /\ ServerCloses(<<Torn>>)
  /\ UNCHANGED <<appVars, toClient, toApp, client, outVars, udp>>

\* connect_direct, or connect_tcp to the proxy and the SOCKS5 greeting.
Connect ==
  /\ server.pc = "dial"
  /\ \/ Reject /\ UNCHANGED outVars
     \/ /\ outbound = "direct"
        /\ server' = [server EXCEPT !.pc = "answer"]
        /\ IF ServerUdp THEN UNCHANGED <<reached, fromOut>>
           ELSE reached' = server.dest /\ fromOut' = RemoteData
        /\ UNCHANGED <<up, down, outbound, stalls, proxy, toOut, remoteGot>>
     \/ /\ outbound = "socks5"
        /\ server' = [server EXCEPT !.pc = "method"]
        /\ toOut' = EncodeGreeting(<<NO_AUTH>>)
        /\ UNCHANGED <<up, down, outbound, stalls, proxy, fromOut, reached, remoteGot>>
  /\ UNCHANGED <<appVars, toClient, toApp, client, udp>>

\* socks5_request: the method, and the request.
ReadMethod ==
  /\ server.pc = "method" /\ Len(fromOut) >= 2
  /\ IF MethodNeed(Take(fromOut, 2)) = Done(NO_AUTH, 2)
     THEN /\ server' = [server EXCEPT !.pc = "reply", !.plain = <<>>]
          /\ fromOut' = Drop(fromOut, 2)
          /\ toOut' = toOut \o (IF ServerUdp THEN EncodeThreeAddr(VERSION, CMD.udp, 0, Unspecified)
                                ELSE EncodeThreeAddr(VERSION, CMD.connect, 0, server.dest))
          /\ UNCHANGED <<up, down, outbound, stalls, proxy, reached, remoteGot>>
     ELSE Reject /\ UNCHANGED outVars
  /\ UNCHANGED <<appVars, toClient, toApp, client, udp>>

\* rewrite_unspecified
Rewritten(bind) == IF bind.host = Unspecified.host THEN [bind EXCEPT !.host = Proxy.host] ELSE bind

\* DnsResolver::resolve, where it succeeds.
Resolve(a) == Ip(IF IsLiteral(a.host) THEN Literal(a.host) ELSE DnsOf[a.host], a.port)

\* socks5_udp_associate: a relay named by a domain is looked up.
Relay(bind) == Rewritten(IF bind.ip THEN bind ELSE Resolve(bind))

\* Mutant: any reply is taken for success.
GrantedAny(reply) == TRUE

Granted(reply) == reply.code = SUCCEEDED

\* socks5_request: the reply, as far as it says how long it is. For UDP the name
\* of the relay may not resolve, or no socket be bound.
ReadReply ==
  /\ server.pc = "reply"
  /\ LET parsed == ParseCmdAddr(server.plain)
         missing == parsed.n - Len(server.plain)
     IN  \/ /\ parsed.is = "need" /\ Len(fromOut) >= missing
            /\ server' = [server EXCEPT !.plain = @ \o Take(fromOut, missing)]
            /\ fromOut' = Drop(fromOut, missing)
            /\ UNCHANGED <<up, down>>
         \/ /\ parsed.is = "error" \/ (parsed.is = "done" /\ (ServerUdp \/ ~Granted(parsed.value)))
            /\ Reject /\ UNCHANGED fromOut
         \/ /\ parsed.is = "done" /\ Granted(parsed.value)
            /\ server' = [server EXCEPT !.pc = "answer", !.plain = <<>>,
                                        !.relay = IF ServerUdp THEN Relay(parsed.value.addr) ELSE @]
            /\ UNCHANGED <<up, down, fromOut>>
  /\ UNCHANGED <<appVars, toClient, toApp, client, udp, outbound, stalls, proxy, toOut, reached, remoteGot>>

\* Mutant: no timeout around outbound.connect.
ConnectTimeoutMissing == FALSE

\* open_remote connects and writes the Tunnel reply under the handshake timeout;
\* run_server_udp does neither.
ConnectTimeout == ~ServerUdp

ConnectFails ==
  /\ server.pc \in {"method", "reply"}
  /\ ConnectTimeout \/ (proxy = "closed" /\ fromOut = <<>>)
  /\ Reject
  /\ UNCHANGED <<appVars, toClient, toApp, client, outVars, udp>>

\* write_tunnel is done; for CONNECT the early payload is next. It fails when
\* the client has closed, and so would write_reject.
Answer ==
  /\ server.pc = "answer"
  /\ \/ LET with == IF server.packs THEN fromOut ELSE <<>>
        IN  /\ server' = [server EXCEPT !.pc = IF ServerUdp THEN "pump"
                                               ELSE IF server.left = <<>> THEN "relay" ELSE "early"]
            /\ down' = Deliver(<<EncodeTunnel \o with>>)
            /\ fromOut' = Drop(fromOut, Len(with))
            /\ UNCHANGED up
     \/ ClientGone /\ ServerCloses(<<>>) /\ UNCHANGED fromOut
  /\ UNCHANGED <<appVars, toClient, toApp, client, udp, outbound, stalls, proxy, toOut, reached, remoteGot>>

\* The handshake timeout cuts the Tunnel reply short, and write_reject is called
\* on the connection that had no room for it.
AnswerTimeout ==
  /\ server.pc = "answer" /\ ConnectTimeout
  /\ server' = [server EXCEPT !.pc = "torn"]
  /\ UNCHANGED <<appVars, toClient, toApp, client, up, down, outVars, udp>>

\* open_remote hands the early payload to the remote end, which may take it...
WriteEarly ==
  /\ server.pc = "early" /\ "remote" \notin stalls
  /\ server' = [server EXCEPT !.pc = "relay", !.left = <<>>]
  /\ remoteGot' = server.left
  /\ UNCHANGED <<appVars, toClient, toApp, client, up, down, udp, outbound, stalls, proxy, toOut, fromOut, reached>>

\* ... or fail under it, behind the Tunnel reply.
EarlyFails ==
  /\ server.pc = "early"
  /\ server' = [server EXCEPT !.pc = "failed", !.left = <<>>]
  /\ up' = <<>>
  /\ UNCHANGED <<appVars, toClient, toApp, client, down, outVars, udp>>
-----------------------------------------------------------------------------
(* The upstream proxy, and the remote end.                                 *)

ProxyMethod ==
  /\ proxy = "greeting" /\ "proxy" \notin stalls /\ GreetingNeed(toOut).is = "done"
  /\ toOut' = Drop(toOut, GreetingNeed(toOut).n)
  /\ \/ fromOut' = EncodeMethod(NO_AUTH) /\ proxy' = "request"
     \/ fromOut' = EncodeMethod(NO_ACCEPTABLE) /\ proxy' = "closed"
  /\ UNCHANGED <<appVars, toClient, toApp, client, up, down, server, udp, outbound, stalls, reached, remoteGot>>

ProxyReply ==
  /\ proxy = "request" /\ "proxy" \notin stalls /\ ParseCmdAddr(toOut).is = "done"
  /\ toOut' = Drop(toOut, ParseCmdAddr(toOut).n)
  /\ \/ /\ \E bind \in Binds :
             fromOut' = fromOut \o EncodeThreeAddr(VERSION, SUCCEEDED, 0, bind)
                          \o (IF ServerUdp THEN <<>> ELSE RemoteData)
        /\ proxy' = "open"
        /\ reached' = IF ServerUdp THEN reached ELSE ParseCmdAddr(toOut).value.addr
     \/ /\ fromOut' = fromOut \o EncodeThreeAddr(VERSION, CONNECTION_REFUSED, 0, Unspecified)
        /\ proxy' = "closed" /\ UNCHANGED reached
  /\ UNCHANGED <<appVars, toClient, toApp, client, up, down, server, udp, outbound, stalls, remoteGot>>

ProxyCloses ==
  /\ proxy \in {"greeting", "request"} /\ server.pc \in {"method", "reply"}
  /\ proxy' = "closed"
  /\ UNCHANGED <<appVars, toClient, toApp, client, up, down, server, udp, outbound, stalls, toOut, fromOut,
                 reached, remoteGot>>

\* An end the server waits for falls silent, its connection still open.
Stall ==
  /\ \/ server.pc \in {"method", "reply"} /\ proxy \in {"greeting", "request"} /\ stalls' = stalls \cup {"proxy"}
     \/ server.pc = "early" /\ stalls' = stalls \cup {"remote"}
  /\ UNCHANGED <<appVars, toClient, toApp, client, up, down, server, udp, outbound, proxy, toOut, fromOut,
                 reached, remoteGot>>
-----------------------------------------------------------------------------
(* One datagram there and back.                                            *)

\* forward: a domain the protocol refuses ends the session.
Forward ==
  /\ client.pc = "pump" /\ udp.app # None
  /\ LET packet == ParseUdpPacket(udp.app).value
     IN  IF UdpRequestOk(packet.addr)
         THEN /\ up' = Append(up, EncodeUdpRequest(packet.addr, packet.payload))
              /\ udp' = [udp EXCEPT !.app = None]
              /\ client' = [client EXCEPT !.pc = "pumped"]
              /\ UNCHANGED <<toApp, toClient, down>>
         ELSE SessionDropped /\ UNCHANGED udp
  /\ UNCHANGED <<appVars, server, outVars>>

\* UdpFlow::send: directly, to the address or to what it resolves to, or in a
\* SOCKS5 datagram to the proxy's relay, which sends it on.
Sent(addr) ==
  IF outbound = "socks5" THEN ParseUdpPacket(EncodeThreeAddr(0, 0, 0, addr) \o AppData).value.addr
  ELSE IF addr.ip THEN addr ELSE Resolve(addr)

\* run_server_udp: a record from the client; one that is malformed is dropped,
\* and one whose name does not resolve or that cannot be sent.
ServerDatagram ==
  /\ server.pc = "pump" /\ up # <<>>
  /\ LET parsed == DecodeUdpRequest(Head(up))
     IN  \/ /\ parsed.is = "done"
            /\ udp' = [udp EXCEPT !.out = parsed.value.payload]
            /\ reached' = Sent(parsed.value.addr)
         \/ UNCHANGED <<udp, reached>>
  /\ up' = Tail(up)
  /\ UNCHANGED <<appVars, toClient, toApp, client, down, server, outbound, stalls, proxy, toOut, fromOut, remoteGot>>

\* A datagram comes back, through the proxy in a SOCKS5 datagram.
RemoteDatagram ==
  /\ server.pc = "pump" /\ udp.out # None /\ udp.source = NoAddress
  /\ \E source \in Sources, frag \in {0, 1} :
       /\ outbound = "direct" => source.ip /\ frag = 0
       /\ udp' = [udp EXCEPT !.source = source,
                             !.back = (IF outbound = "socks5" THEN EncodeThreeAddr(0, 0, frag, source) ELSE <<>>)
                                        \o RemoteData]
  /\ UNCHANGED <<appVars, toClient, toApp, client, up, down, server, outVars>>

\* UdpFlow::recv and write_udp_response: a source that is a domain is dropped.
ServerAnswers ==
  /\ server.pc = "pump" /\ udp.back # None
  /\ LET parsed == IF outbound = "socks5" THEN ParseUdpPacket(udp.back)
                   ELSE Done([frag |-> 0, addr |-> udp.source, payload |-> udp.back], 0)
     IN  down' = IF Whole(parsed) /\ parsed.value.addr.ip
                 THEN Deliver(<<EncodeUdpResponse(parsed.value.addr, parsed.value.payload)>>)
                 ELSE down
  /\ udp' = [udp EXCEPT !.back = None]
  /\ UNCHANGED <<appVars, toClient, toApp, client, up, server, outVars>>

\* send_socks_response.
ClientAnswers ==
  /\ client.pc = "pumped" /\ down # <<>>
  /\ LET parsed == DecodeUdpResponse(Head(down))
     IN  IF parsed.is = "done"
         THEN udp' = [udp EXCEPT !.answer = EncodeThreeAddr(0, 0, 0, parsed.value.addr) \o parsed.value.payload]
         ELSE UNCHANGED udp
  /\ down' = Tail(down)
  /\ UNCHANGED <<appVars, toClient, toApp, client, up, server, outVars>>
-----------------------------------------------------------------------------
ClientNext ==
  \/ AcceptGreeting \/ AcceptRequest \/ AcceptTimeout \/ Associate \/ FirstDatagram \/ ControlCloses
  \/ Dial \/ WriteRequest \/ EndEarly \/ ReadTunnel \/ TunnelFails \/ Forward \/ ClientAnswers

ServerNext ==
  \/ ReadFirst \/ FirstFails \/ DrainRecord \/ DrainEnds \/ DeriveEncoder \/ Connect \/ ReadMethod \/ ReadReply
  \/ ConnectFails \/ WriteReject \/ Answer \/ AnswerTimeout \/ WriteEarly \/ EarlyFails
  \/ ServerDatagram \/ ServerAnswers

Next ==
  \/ AppWrite \/ AppClose \/ AppDatagram \/ ClientNext \/ ServerNext
  \/ ProxyMethod \/ ProxyReply \/ ProxyCloses \/ Stall \/ RemoteDatagram

\* The server's writes to a client that has closed return.
WriteReturns == ClientGone /\ (Answer \/ WriteReject)

\* Timers fire, a task that can go on does, and a proxy or remote end that does
\* not stall answers and reads. A client need not read: a write to it may wait
\* for as long as the client is there. The rest may go as slowly as it likes.
Fairness ==
  /\ WF_vars(Associate) /\ WF_vars(Dial) /\ WF_vars(TunnelFails)
  /\ WF_vars(FirstFails) /\ WF_vars(DrainEnds) /\ WF_vars(DeriveEncoder) /\ WF_vars(Connect) /\ WF_vars(ConnectFails)
  /\ WF_vars(ReadMethod) /\ WF_vars(ReadReply) /\ WF_vars(AnswerTimeout) /\ WF_vars(WriteReturns)
  /\ WF_vars(WriteEarly) /\ WF_vars(ProxyMethod) /\ WF_vars(ProxyReply)

Spec == Init /\ [][Next]_vars /\ Fairness
-----------------------------------------------------------------------------
(* What must hold.                                                         *)

\* What is addressed by a: a name that spells an IP address stands for it, and
\* the server resolves a name before it sends a datagram itself.
Denotes(a) ==
  {a} \cup (IF ~a.ip /\ (IsLiteral(a.host) \/ (Udp /\ outbound = "direct")) THEN {Resolve(a)} ELSE {})

\* What the application has been told behind the method selection.
Told == ParseCmdAddr(Drop(toApp, 2))

\* However the SOCKS5 and Snell messages are cut into records and reads, what
\* the server connects or sends to is what the application asked for; it sends
\* nothing for a fragment; a datagram that comes back names the source it came
\* from; and a relay of the upstream proxy is an address to send to, although
\* the proxy may answer 0.0.0.0 (accept_socks5, read_server_connect,
\* socks5_request, UdpFlow, send_socks_response). The application is told that
\* its connection is established only when the remote end has accepted and the
\* server relays, or hands over the early bytes, or lost the remote end again:
\* not when the proxy refused, and not when the timeout of open_remote cut the
\* Tunnel reply short.
Routed ==
  /\ reached # NoAddress => reached \in Denotes(request.dest) /\ (Udp => request.frag = 0)
  /\ udp.answer # None =>
       LET packet == ParseUdpPacket(udp.answer).value
       IN  packet = [frag |-> 0, addr |-> udp.source, payload |-> RemoteData]
  /\ server.relay.host # Unspecified.host
  /\ ~Udp /\ Told.is = "done" /\ Told.value.code = SUCCEEDED =>
       reached # NoAddress /\ server.pc \in {"early", "relay", "failed"}

\* Once the Tunnel reply is written, no byte of either stream has been lost, doubled or
\* taken for part of a message, although each may arrive in one piece with the
\* message before it: behind the SOCKS5 request, behind CONNECT, behind the
\* proxy's reply, and in the record of the Tunnel reply. It is about bytes: the
\* end of an early client's stream, which drain_early_payload takes, is none.
StreamsIntact ==
  /\ server.pc \in {"early", "relay"} =>
       LET passed == remoteGot \o server.left \o FlattenSeq(up)
       IN  IF client.pc = "closed" THEN IsPrefix(passed, AppData)
           ELSE passed \o toClient \o FlattenSeq(script) = AppData
  /\ client.pc = "relay" => Drop(toApp, 2 + Told.n) \o FlattenSeq(down) \o fromOut = RemoteData

\* A request that was parsed is answered, whatever fails behind it, unless the
\* application is gone: open and associate write a reply on every path.
RequestAnswered == client.pc \in {"dial", "associate"} ~> Told.is = "done" \/ gone

\* The server's setup of a session ends, but for two waits that have neither a
\* timeout nor anyone else to end them: UdpFlow::open on a proxy that leaves UDP
\* ASSOCIATE unanswered, and write_all of the early payload to a remote end that
\* does not read. Connecting and the Tunnel reply of CONNECT are under a timeout.
\* write_reject and the Tunnel reply of run_server_udp are not, and may find no
\* room towards the client, write_reject even on the connection whose lack of
\* room made the timeout fire: they end because the client's own timeout of
\* open_tunnel or open_session closes the connection they wait for.
SetupEnds ==
  server.pc = "first" ~> \/ server.pc \in {"relay", "pump", "failed", "closed"}
                         \/ server.pc \in {"method", "reply"} /\ ServerUdp /\ "proxy" \in stalls
                         \/ server.pc = "early" /\ "remote" \in stalls
=============================================================================
