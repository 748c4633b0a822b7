--------------------------- MODULE MCNegotiation ---------------------------
(***************************************************************************)
(* Negotiation for TLC: IPv4, IPv6 and domain destinations, a name that    *)
(* spells an IP address and one the protocol refuses; CONNECT, BIND and    *)
(* UDP ASSOCIATE; this client and one that sends an id and early data.     *)
(* Configuration for TLC: files whose lines come in any order.             *)
(***************************************************************************)
EXTENDS Negotiation, Configuration

MCIp4s == {"zero", "four", "proxy"}
MCIp6s == {"six"}
MCPorts == {"p0", "p"}
MCNames == {"zero text", "four text", "proxy text", "six text", "name", "nul", ""}
MCLengthOf == [n \in MCNames |-> CASE n = "six text" -> 3 [] n = "" -> 0 [] OTHER -> 2]
MCTextOf == [ip \in MCIp4s \cup MCIp6s |->
  CASE ip = "zero" -> "zero text" [] ip = "four" -> "four text"
    [] ip = "proxy" -> "proxy text" [] ip = "six" -> "six text"]
MCNulNames == {"nul"}
MCDnsOf == [n \in MCNames |-> IF n = "name" THEN "six" ELSE "four"]

Asks(methods, command, dests, frag) ==
  {[methods |-> methods, command |-> command, dest |-> d, frag |-> frag] : d \in dests}

Targets == {Ip("four", "p"), Ip("six", "p"), Domain("name", "p"), Domain("four text", "p"), Domain("nul", "p")}

MCRequests ==
  Asks(<<2, 0>>, "connect", Targets, 0) \cup Asks(<<0>>, "udp", Targets, 0)
    \cup Asks(<<0>>, "udp", {Ip("four", "p")}, 1) \cup Asks(<<0>>, "bind", {Ip("four", "p")}, 0)
    \cup Asks(<<0>>, "connect", {Domain("", "p")}, 0)
    \cup Asks(<<2>>, "connect", {Ip("four", "p")}, 0) \cup Asks(<<>>, "connect", {Ip("four", "p")}, 0)

MCClients == {[id |-> 0, command |-> COMMAND_CONNECT, early |-> FALSE],
              [id |-> 1, command |-> COMMAND_CONNECT_V2, early |-> TRUE]}

MCOutbounds == {"direct", "socks5"}
MCUnspecified == Ip("zero", "p0")
MCProxy == Ip("proxy", "p")
MCRelaySocket == Ip("four", "p0")
MCBinds == {Ip("zero", "p"), Domain("name", "p"), Domain("zero text", "p")}
MCSources == {Ip("four", "p"), Ip("six", "p"), Domain("name", "p")}
MCSplits == {4, 9}
MCAppData == Spell("data", 2)
MCRemoteData == Spell("answer", 1)
MCPacking == BOOLEAN
-----------------------------------------------------------------------------
MCSockets == {"addr", "upstream"}
MCPskLen == ("psk" :> 16) @@ ("long" :> 255) @@ ("short" :> 15)
MCNumberOf == ("0" :> 0) @@ ("4" :> 4) @@ ("5" :> 5) @@ ("80" :> 80) @@ ("100000" :> 100000) @@ ("100001" :> 100001)

Pairs(key, values) == {Pair(Word(key), v) : v \in values}

ServerBase == {Header(Word("snell-server")), Pair(Word("listen"), "addr"), Pair(Word("psk"), "psk")}
ClientBase == {Header(Upper("snell-client")), Pair(Word("listen"), "addr"), Pair(Upper("server"), "addr"),
               Pair(Word("psk"), "long")}

\* Lines that may be in a file besides.
ServerExtras ==
  { {v, m} : v \in Pairs("version", {"4", "6", "v6-unshaped", "v6-unsafe-raw"}),
             m \in Pairs("mode", {"unshaped", "unsafe-raw"}) }
    \cup { {Pair(Word("tcp_brutal"), "on"), n, g} : n \in Pairs("tcp_brutal_send_mbps", {"0", "100000", "100001"}),
                                                   g \in Pairs("tcp_brutal_cwnd_gain", {"4", "5", "80", "x"}) }
    \cup { {Pair(Word("tcp_brutal"), b), Pair(Word("tcp_brutal_send_mbps"), "0")} : b \in {"off", "maybe"} }
    \cup { {Header(Word("snell-client")), x} : x \in {Pair(Upper("psk"), "long"), Pair(Word("upstream_socks5"), "upstream")} }
    \cup { {Pair(Upper("psk"), "long")}, {Pair(Word("listen"), "nowhere")}, {Header(Upper("snell-server"))},
           {Header(Word("")), Comment}, {Pair(Word(""), "x")}, {Unclosed}, {NoEquals}, {Pair(Word("mode"), "default")},
           {Comment, Pair(Upper("upstream_socks5"), "upstream"), Pair(Word("unknown"), "x")} }

ClientExtras ==
  { {v, b} : v \in Pairs("version", {"v5", "v6-default", "v6-unsafe-raw", "4"}), b \in Pairs("reuse", {"on", "false", "x"}) }
    \cup { {Pair(Word("version"), "v4"), Pair(Upper("version"), "v5")},
           {Header(Word("snell-server")), Pair(Word("version"), "v5"), Pair(Word("reuse"), "on")} }

MCFiles ==
  {[role |-> "snell-server", lines |-> ServerBase \cup x] : x \in ServerExtras}
    \cup {[role |-> "snell-client", lines |-> ClientBase \cup x] : x \in ClientExtras}

GivenBase == {Pair(Word("listen"), "addr"), Pair(Word("psk"), "psk")}

MCArgs ==
  {[role |-> "snell-server", lines |-> GivenBase \cup x] :
     x \in { {}, {Pair(Word("version"), "v4")}, {Pair(Word("version"), "6"), Pair(Word("mode"), "unshaped")},
             {Pair(Word("version"), "5"), Pair(Word("mode"), "default")},
             {Pair(Word("upstream_socks5"), "upstream")} } }
    \cup {[role |-> "snell-client", lines |-> GivenBase \cup {Pair(Word("server"), "addr"), Pair(Word("version"), v)} \cup x] :
            v \in {"v6-unshaped", "6"}, x \in {{}, {Pair(Word("reuse"), "on")}}}
-----------------------------------------------------------------------------
(* The two do not share state, so a behaviour runs one of them, and the    *)
(* state spaces add up.                                                    *)

VARIABLE machine  \* "session" or "configuration"

mcVars == <<vars, configVars, machine>>

AnyOf(S) == CHOOSE x \in S : TRUE

MCInit ==
  /\ Init /\ ConfigInit
  /\ machine \in {"session", "configuration"}
  /\ machine = "session" => outcome = Reading /\ unread = AnyOf(Files).lines /\ role = AnyOf(Files).role
  /\ machine = "configuration" => request = AnyOf(Requests) /\ outbound = AnyOf(Outbounds)
  \* An id, early bytes and what shares a record with the reply are for CONNECT.
  /\ machine = "configuration" \/ request.command # "connect" => ~client.early /\ server.packs

MCNext ==
  /\ \/ machine = "session" /\ Next /\ UNCHANGED configVars
     \/ machine = "configuration" /\ ConfigNext /\ UNCHANGED vars
  /\ UNCHANGED machine

MCSpec == MCInit /\ [][MCNext]_mcVars /\ Fairness
=============================================================================
