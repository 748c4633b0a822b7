------------------------------ MODULE Messages ------------------------------
(***************************************************************************)
(* The messages that set up a session, as bytes: SOCKS5                    *)
(* (crates/snell-protocol/src/socks5.rs), the Snell control messages       *)
(* (control/mod.rs, control/stream.rs) and the addresses both carry        *)
(* (address.rs). Every parser sees a prefix of a byte stream that may hold *)
(* less than the message, or more.                                         *)
(*                                                                         *)
(* A byte is a pair: Byte(n), or the i-th byte of a name, an IP address, a *)
(* port or a payload. Names are opaque; those that spell an IP address are *)
(* the values of TextOf.                                                   *)
(***************************************************************************)
EXTENDS Integers, Sequences

CONSTANTS Ip4s, Ip6s,  \* IP addresses
          Ports,
          Names,       \* host names, those that spell an address included
          LengthOf,    \* their lengths in bytes
          TextOf,      \* the name that spells an IP address
          NulNames     \* names that contain a NUL byte

Byte(n) == <<"byte", n>>
Spell(x, n) == [i \in 1..n |-> <<x, i>>]
Value(b) == IF b[1] = "byte" THEN b[2] ELSE 99

Take(s, n) == SubSeq(s, 1, n)
Drop(s, n) == SubSeq(s, n + 1, Len(s))

Garbled == "garbled"
ReadBack(S, s) ==
  IF \E x \in S : s = Spell(x, Len(s)) THEN CHOOSE x \in S : s = Spell(x, Len(s)) ELSE Garbled

\* Results of a parser.
Need(n) == [is |-> "need", n |-> n]
Done(value, n) == [is |-> "done", value |-> value, n |-> n]
Error(e) == [is |-> "error", error |-> e]
-----------------------------------------------------------------------------
(* Addresses.                                                              *)

Ips == Ip4s \cup Ip6s
Ip(ip, port) == [ip |-> TRUE, host |-> ip, port |-> port]
Domain(name, port) == [ip |-> FALSE, host |-> name, port |-> port]
NoAddress == Domain("", "")

NameBytes(name) == Spell(name, LengthOf[name])
IpLen(ip) == IF ip \in Ip4s THEN 4 ELSE 16
PortBytes(port) == Spell(port, 2)

\* host(): an IP address is sent as text where only names are.
Host(a) == IF a.ip THEN TextOf[a.host] ELSE a.host

\* IpAddr::parse on a name.
IsLiteral(name) == \E ip \in Ips : TextOf[ip] = name
Literal(name) == CHOOSE ip \in Ips : TextOf[ip] = name

ValidDomain(name) == name \notin NulNames

\* ip_port, behind a tag.
IpPort(s, n) == Ip(ReadBack(Ips, SubSeq(s, 2, 1 + n)), ReadBack(Ports, SubSeq(s, 2 + n, 3 + n)))

\* split_host_port: LEN HOST PORT.
SplitHostPort(s) ==
  LET n == Value(s[1])
      name == ReadBack(Names, SubSeq(s, 2, 1 + n))
  IN  IF s = <<>> \/ Len(s) < 3 + n THEN Error("truncated")
      ELSE IF name = Garbled THEN Error("utf8")
      ELSE Done(Domain(name, ReadBack(Ports, SubSeq(s, 2 + n, 3 + n))), 3 + n)
-----------------------------------------------------------------------------
(* SOCKS5.                                                                 *)

VERSION == 5
NO_AUTH == 0
NO_ACCEPTABLE == 255
CMD == [connect |-> 1, bind |-> 2, udp |-> 3]
SUCCEEDED == 0
GENERAL_FAILURE == 1
CONNECTION_REFUSED == 5
TTL_EXPIRED == 6
COMMAND_NOT_SUPPORTED == 7

GreetingNeed(s) ==
  IF Len(s) < 2 THEN Need(2)
  ELSE IF Value(s[1]) # VERSION THEN Error("version")
  ELSE IF Value(s[2]) = 0 THEN Error("methods")
  ELSE LET n == 2 + Value(s[2])
       IN  IF Len(s) < n THEN Need(n) ELSE Done({Value(s[i]) : i \in 3..n}, n)

EncodeGreeting(methods) ==
  <<Byte(VERSION), Byte(Len(methods))>> \o [i \in DOMAIN methods |-> Byte(methods[i])]

EncodeMethod(m) == <<Byte(VERSION), Byte(m)>>

MethodNeed(s) ==
  IF Len(s) < 2 THEN Need(2)
  ELSE IF Value(s[1]) # VERSION THEN Error("version")
  ELSE Done(Value(s[2]), 2)

\* The length of ATYP ADDR PORT, once its first two bytes are there.
AddrLen(s) ==
  CASE Value(s[1]) = 1 -> 1 + 4 + 2
    [] Value(s[1]) = 4 -> 1 + 16 + 2
    [] OTHER -> 1 + 1 + Value(s[2]) + 2

ParseAddr(s) ==
  LET atyp == Value(s[1])
      split == SplitHostPort(Drop(s, 1))
  IN  IF s = <<>> THEN Need(1)
      ELSE IF atyp \notin {1, 3, 4} THEN Error("atyp")
      ELSE IF atyp = 3 /\ Len(s) = 1 THEN Need(2)
      ELSE IF atyp = 3 /\ Value(s[2]) = 0 THEN Error("empty host")
      ELSE IF Len(s) < AddrLen(s) THEN Need(AddrLen(s))
      ELSE IF atyp # 3 THEN Done(IpPort(s, IF atyp = 1 THEN 4 ELSE 16), AddrLen(s))
      ELSE IF split.is = "error" THEN split
      ELSE Done(split.value, AddrLen(s))

\* parse_cmd_addr, for requests and replies; the value is [code, addr].
ParseCmdAddr(s) ==
  LET addr == ParseAddr(Drop(s, 3))
  IN  IF Len(s) < 4 THEN Need(4)
      ELSE IF Value(s[1]) # VERSION THEN Error("version")
      ELSE IF Value(s[3]) # 0 THEN Error("reserved")
      ELSE IF addr.is = "need" THEN Need(3 + addr.n)
      ELSE IF addr.is = "error" THEN addr
      ELSE Done([code |-> Value(s[2]), addr |-> addr.value], 3 + addr.n)

\* encode_three_addr: head ATYP ADDR PORT.
EncodeThreeAddr(a, b, c, addr) ==
  <<Byte(a), Byte(b), Byte(c)>>
    \o (CASE addr.ip /\ addr.host \in Ip4s -> <<Byte(1)>> \o Spell(addr.host, 4)
          [] addr.ip /\ addr.host \in Ip6s -> <<Byte(4)>> \o Spell(addr.host, 16)
          [] OTHER -> <<Byte(3), Byte(LengthOf[addr.host])>> \o NameBytes(addr.host))
    \o PortBytes(addr.port)

\* parse_udp_packet; the value is [frag, addr, payload].
ParseUdpPacket(s) ==
  LET addr == ParseAddr(Drop(s, 3))
  IN  IF Len(s) < 4 THEN Error("truncated")
      ELSE IF Value(s[1]) # 0 \/ Value(s[2]) # 0 THEN Error("reserved")
      ELSE IF addr.is = "error" THEN addr
      ELSE IF addr.is = "need" THEN Error("truncated")
      ELSE Done([frag |-> Value(s[3]), addr |-> addr.value, payload |-> Drop(s, 3 + addr.n)],
                3 + addr.n)
-----------------------------------------------------------------------------
(* Control messages.                                                       *)

PROTOCOL_VERSION == 1
COMMAND_CONNECT == 1
COMMAND_CONNECT_V2 == 5
COMMAND_UDP == 6
COMMAND_UDP_FORWARD == 1
COMMAND_TUNNEL == 0
COMMAND_ERROR == 2
ERROR_REJECT == 1
UDP_REQUEST_IP_LEN == 0
ATYP_IPV4 == 4
ATYP_IPV6 == 6

\* A CONNECT, by a client that sends an id of so many bytes; this one sends none.
EncodeConnectAs(id, addr, command) ==
  <<Byte(PROTOCOL_VERSION), Byte(command), Byte(id)>>
    \o Spell("id", id)
    \o <<Byte(LengthOf[Host(addr)])>> \o NameBytes(Host(addr)) \o PortBytes(addr.port)

\* Mutant: the client id is not counted among the bytes of the request.
ConnectLenNoId(s, split) == 3 + split.n

ConnectLen(s, split) == 3 + Value(s[3]) + split.n

\* decode_connect_request_prefix; a name that spells an IP address becomes one.
DecodeConnect(s) ==
  LET after == Drop(s, 3 + Value(s[3]))
      split == SplitHostPort(after)
      name == split.value.host
      port == split.value.port
  IN  IF Len(s) < 3 THEN Error("truncated")
      ELSE IF Value(s[1]) # PROTOCOL_VERSION THEN Error("version")
      ELSE IF Value(s[2]) = COMMAND_UDP THEN Error("udp")
      ELSE IF Value(s[2]) \notin {COMMAND_CONNECT, COMMAND_CONNECT_V2} THEN Error("command")
      ELSE IF after = <<>> THEN Error("truncated")
      ELSE IF Value(after[1]) = 0 THEN Error("empty host")
      ELSE IF split.is = "error" THEN split
      ELSE IF IsLiteral(name) THEN Done(Ip(Literal(name), port), ConnectLen(s, split))
      ELSE IF ValidDomain(name) THEN Done(Domain(name, port), ConnectLen(s, split))
      ELSE Error("nul")

EncodeUdpSetup == <<Byte(PROTOCOL_VERSION), Byte(COMMAND_UDP), Byte(0)>>

DecodeUdpSetup(s) ==
  IF Len(s) < 3 THEN Error("truncated")
  ELSE IF Value(s[1]) # PROTOCOL_VERSION THEN Error("version")
  ELSE IF Value(s[2]) # COMMAND_UDP THEN Error("command")
  ELSE IF Len(s) < 3 + Value(s[3]) THEN Error("truncated")
  ELSE Done(NoAddress, 3 + Value(s[3]))

\* PlainStream: a truncated message needs one byte more.
MoreOnTruncated(s, parsed) ==
  IF parsed.is = "error" /\ parsed.error = "truncated" THEN Need(Len(s) + 1) ELSE parsed

\* parse_first_request: the destination of a CONNECT, or NoAddress for a UDP
\* setup, which must end where its record does.
FirstRequest(s) ==
  LET connect == MoreOnTruncated(s, DecodeConnect(s))
      setup == MoreOnTruncated(s, DecodeUdpSetup(s))
  IN  IF connect # Error("udp") THEN connect
      ELSE IF setup.is = "done" /\ setup.n # Len(s) THEN Error("trailing")
      ELSE setup

EncodeTunnel == <<Byte(COMMAND_TUNNEL)>>

\* encode_reject, with a message of so many bytes.
EncodeReject(n) == <<Byte(COMMAND_ERROR), Byte(ERROR_REJECT), Byte(n)>> \o Spell("message", n)

DecodeServerReply(s) ==
  IF s = <<>> THEN Need(1)
  ELSE IF Value(s[1]) = COMMAND_TUNNEL THEN Done("tunnel", 1)
  ELSE IF Value(s[1]) # COMMAND_ERROR THEN Error("command")
  ELSE IF Len(s) < 3 THEN Need(3)
  ELSE IF Len(s) < 3 + Value(s[3]) THEN Need(3 + Value(s[3]))
  ELSE Done("reject", 3 + Value(s[3]))
-----------------------------------------------------------------------------
(* UDP datagrams in records: marker, then ATYP ADDR PORT or LEN HOST PORT. *)

IpTail(addr) ==
  <<Byte(IF addr.host \in Ip4s THEN ATYP_IPV4 ELSE ATYP_IPV6)>>
    \o Spell(addr.host, IpLen(addr.host)) \o PortBytes(addr.port)

\* An invalid domain is refused before: see udp_tail_len.
UdpRequestOk(addr) == addr.ip \/ ValidDomain(addr.host)

EncodeUdpRequest(addr, payload) ==
  IF addr.ip
  THEN <<Byte(COMMAND_UDP_FORWARD), Byte(UDP_REQUEST_IP_LEN)>> \o IpTail(addr) \o payload
  ELSE <<Byte(COMMAND_UDP_FORWARD), Byte(LengthOf[addr.host])>>
         \o NameBytes(addr.host) \o PortBytes(addr.port) \o payload

EncodeUdpResponse(source, payload) == IpTail(source) \o payload

\* decode_udp_datagram with parse_ip_tail; the value is [addr, payload].
DecodeIpDatagram(s) ==
  LET n == IF Value(s[1]) = ATYP_IPV4 THEN 4 ELSE 16
  IN  IF s = <<>> THEN Error("truncated")
      ELSE IF Value(s[1]) \notin {ATYP_IPV4, ATYP_IPV6} THEN Error("atyp")
      ELSE IF Len(s) < 3 + n THEN Error("truncated")
      ELSE Done([addr |-> IpPort(s, n), payload |-> Drop(s, 3 + n)], 3 + n)

\* decode_udp_datagram with parse_domain_tail.
DecodeDomainDatagram(s) ==
  LET split == SplitHostPort(s)
  IN  IF split.is = "error" THEN split
      ELSE IF ~ValidDomain(split.value.host) THEN Error("nul")
      ELSE Done([addr |-> split.value, payload |-> Drop(s, split.n)], split.n)

DecodeUdpRequest(s) ==
  IF Len(s) < 2 THEN Error("truncated")
  ELSE IF Value(s[1]) # COMMAND_UDP_FORWARD THEN Error("command")
  ELSE IF Value(s[2]) = UDP_REQUEST_IP_LEN THEN DecodeIpDatagram(Drop(s, 2))
  ELSE DecodeDomainDatagram(Drop(s, 1))

DecodeUdpResponse(s) == DecodeIpDatagram(s)
=============================================================================
