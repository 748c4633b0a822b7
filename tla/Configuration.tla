--------------------------- MODULE Configuration ---------------------------
(***************************************************************************)
(* How a program gets its configuration: from an INI file                  *)
(* (crates/snell-config/src/lib.rs), read line by line, or from its        *)
(* command line (crates/snell/src/main.rs). Values are words; a name may   *)
(* be spelled in two ways that differ in the case of letters.              *)
(***************************************************************************)
EXTENDS Integers, Sequences, SequencesExt, TLC

CONSTANTS Files,    \* the lines of files, as sets: [role, lines]
          Args,     \* arguments, as sets of pairs: [role, lines]
          Sockets,  \* the values that are socket addresses
          PskLen,   \* lengths of the values
          NumberOf  \* the values that are numbers

VARIABLES role,      \* "snell-client" or "snell-server"
          unread,    \* the lines not yet read; they may come in any order
          sections,  \* sections read: [name, pairs]
          outcome    \* Reading, or Given on the command line, an error, or the configuration

configVars == <<role, unread, sections, outcome>>

\* Lines. A name or key is [word, upper].
Word(w) == [word |-> w, upper |-> FALSE]
Upper(w) == [word |-> w, upper |-> TRUE]
Header(name) == [is |-> "header", name |-> name, value |-> ""]
Pair(key, value) == [is |-> "pair", name |-> key, value |-> value]
Comment == [is |-> "comment", name |-> Word(""), value |-> ""]
Unclosed == [is |-> "unclosed", name |-> Word(""), value |-> ""]
NoEquals == [is |-> "words", name |-> Word(""), value |-> ""]

Reading == [is |-> "reading"]
Given == [is |-> "given"]
Fails == [is |-> "error"]
Config(c) == [is |-> "config", config |-> c]

ConfigInit ==
  /\ \/ \E f \in Files : role = f.role /\ unread = f.lines /\ outcome = Reading
     \/ \E a \in Args : role = a.role /\ unread = a.lines /\ outcome = Given
  /\ sections = <<>>
-----------------------------------------------------------------------------
(* IniFile.                                                                *)

\* Mutant: names are compared with their case.
SameSpelling(a, b) == a = b

\* eq_ignore_ascii_case
SameName(a, b) == a.word = b.word

Has(pairs, key) == \E i \in DOMAIN pairs : SameName(pairs[i].name, key)

\* Section::get: the first pair of that name.
Get(pairs, key) == pairs[CHOOSE i \in DOMAIN pairs :
                          /\ SameName(pairs[i].name, key)
                          /\ \A j \in 1..(i - 1) : ~SameName(pairs[j].name, key)].value

\* One line of IniFile::parse.
ReadLine(line) ==
  LET last == Len(sections)
  IN  /\ outcome = Reading /\ line \in unread
      /\ unread' = unread \ {line}
      /\ \/ line.is = "comment" /\ UNCHANGED <<sections, outcome>>
         \/ line.is \in {"unclosed", "words"} /\ outcome' = Fails /\ UNCHANGED sections
         \/ /\ line.is = "header"
            /\ IF line.name.word = "" \/ Has(sections, line.name)
               THEN outcome' = Fails /\ UNCHANGED sections
               ELSE sections' = Append(sections, [name |-> line.name, pairs |-> <<>>]) /\ UNCHANGED outcome
         \/ /\ line.is = "pair"
            /\ IF line.name.word = "" \/ last = 0 \/ Has(sections[last].pairs, line.name)
               THEN outcome' = Fails /\ UNCHANGED sections
               ELSE sections' = [sections EXCEPT ![last].pairs = Append(@, line)] /\ UNCHANGED outcome
      /\ UNCHANGED role
-----------------------------------------------------------------------------
(* What the values mean. Values are trimmed and compared without case.     *)

FLAVORS == ("v4" :> "V4") @@ ("v5" :> "V5") @@ ("v6-default" :> "V6Shaped") @@ ("v6-unshaped" :> "V6Unshaped")
NUMBERED == ("4" :> "V4") @@ ("5" :> "V5") @@ ("6" :> "V6Shaped")
MODES == ("default" :> "V6Shaped") @@ ("unshaped" :> "V6Unshaped")
BOOLEANS == [v \in {"true", "yes", "1", "on"} |-> TRUE] @@ [v \in {"false", "no", "0", "off"} |-> FALSE]

\* In the settings s, a function from keys to values.
IsBool(s, key) == key \in DOMAIN s => s[key] \in DOMAIN BOOLEANS
On(s, key) == key \in DOMAIN s /\ BOOLEANS[s[key]]
IsSocket(s, key) == key \in DOMAIN s /\ s[key] \in Sockets
IsNumber(s, key, range) == key \in DOMAIN s /\ s[key] \in DOMAIN NumberOf /\ NumberOf[s[key]] \in range
PskOk(s) == "psk" \in DOMAIN s /\ PskLen[s["psk"]] \in 16..255

\* parse_client_version
ClientVersionOk(s) == "version" \in DOMAIN s /\ s["version"] \in DOMAIN FLAVORS

\* parse_server_selection and parse_server_version: a mode needs version 6.
SelectionOk(s) ==
  /\ "version" \in DOMAIN s => s["version"] \in DOMAIN (FLAVORS @@ NUMBERED)
  /\ "mode" \in DOMAIN s => "version" \in DOMAIN s /\ s["version"] = "6" /\ s["mode"] \in DOMAIN MODES

Selection(s) ==
  IF "mode" \in DOMAIN s THEN MODES[s["mode"]]
  ELSE IF "version" \in DOMAIN s THEN (FLAVORS @@ NUMBERED)[s["version"]]
  ELSE "Auto"

\* parse_tcp_brutal: its parameters are read only when it is on.
TcpBrutalOk(s) ==
  /\ IsBool(s, "tcp_brutal")
  /\ On(s, "tcp_brutal") => /\ IsNumber(s, "tcp_brutal_send_mbps", 1..100000)
                            /\ IsNumber(s, "tcp_brutal_cwnd_gain", 5..80)

TcpBrutal(s) ==
  IF On(s, "tcp_brutal")
  THEN <<NumberOf[s["tcp_brutal_send_mbps"]], NumberOf[s["tcp_brutal_cwnd_gain"]]>> ELSE <<>>

Outbound(s, key) == IF key \in DOMAIN s THEN <<s[key]>> ELSE <<>>

\* ClientConfig::parse, and what client_config makes of it.
ClientConfig(s) ==
  IF /\ IsBool(s, "reuse") /\ ClientVersionOk(s)
     /\ IsSocket(s, "listen") /\ IsSocket(s, "server") /\ PskOk(s)
  THEN Config([listen |-> s["listen"], server |-> s["server"], psk |-> s["psk"],
               version |-> FLAVORS[s["version"]], pool |-> On(s, "reuse")])
  ELSE Fails

\* ServerConfig::parse, and what server_config makes of it.
ServerConfig(s) ==
  IF /\ TcpBrutalOk(s) /\ SelectionOk(s)
     /\ "upstream_socks5" \in DOMAIN s => IsSocket(s, "upstream_socks5")
     /\ IsSocket(s, "listen") /\ PskOk(s)
  THEN Config([listen |-> s["listen"], psk |-> s["psk"], selection |-> Selection(s),
               outbound |-> Outbound(s, "upstream_socks5"), brutal |-> TcpBrutal(s)])
  ELSE Fails

KEYS == {"listen", "server", "psk", "version", "reuse", "mode", "upstream_socks5",
         "tcp_brutal", "tcp_brutal_send_mbps", "tcp_brutal_cwnd_gain"}

\* The keys the code asks a section for.
Settings(pairs) == [k \in {key \in KEYS : Has(pairs, Word(key))} |-> Get(pairs, Word(k))]

\* Mutant: the first section, whatever its name.
FirstSection == sections[1].pairs

\* IniFile::section, for the section of the role.
OwnSection == sections[CHOOSE i \in DOMAIN sections : SameName(sections[i].name, Word(role))].pairs

\* parse, once the file is read.
Parse ==
  /\ outcome = Reading /\ unread = {}
  /\ outcome' =
       IF ~Has(sections, Word(role)) THEN Fails
       ELSE IF role = "snell-client" THEN ClientConfig(Settings(OwnSection))
       ELSE ServerConfig(Settings(OwnSection))
  /\ UNCHANGED <<role, unread, sections>>

\* client_config: the arguments as clap has checked them. A flag turns reuse on.
ClientArgs(s) ==
  IF /\ IsSocket(s, "listen") /\ IsSocket(s, "server") /\ PskOk(s) /\ ClientVersionOk(s)
  THEN Config([listen |-> s["listen"], server |-> s["server"], psk |-> s["psk"],
               version |-> FLAVORS[s["version"]], pool |-> "reuse" \in DOMAIN s])
  ELSE Fails

\* server_config. The arguments cannot turn tcp_brutal on.
ServerArgs(s) ==
  IF /\ IsSocket(s, "listen") /\ PskOk(s) /\ SelectionOk(s)
     /\ "upstream_socks5" \in DOMAIN s => IsSocket(s, "upstream_socks5")
  THEN Config([listen |-> s["listen"], psk |-> s["psk"], selection |-> Selection(s),
               outbound |-> Outbound(s, "upstream_socks5"), brutal |-> <<>>])
  ELSE Fails

ParseArgs ==
  LET pairs == SetToSeq(unread)
  IN  /\ outcome = Given
      /\ outcome' = IF role = "snell-client" THEN ClientArgs(Settings(pairs)) ELSE ServerArgs(Settings(pairs))
      /\ sections' = <<[name |-> Word(role), pairs |-> pairs]>>
      /\ unread' = {} /\ UNCHANGED role

ConfigNext == Parse \/ ParseArgs \/ \E line \in unread : ReadLine(line)

ConfigSpec == ConfigInit /\ [][ConfigNext]_configVars
-----------------------------------------------------------------------------
(* What must hold.                                                         *)

\* The lines of the role's own section, and the keys they set.
Own == UNION {{[key |-> p.name.word, value |-> p.value] : p \in ToSet(s.pairs)} :
                s \in {x \in ToSet(sections) : x.name.word = role}}
OwnKeys == {line.key : line \in Own}

\* The keys a role asks for.
RoleKeys == IF role = "snell-client" THEN {"listen", "server", "psk", "version", "reuse"}
            ELSE KEYS \ {"server", "reuse"}

InEffect(c, key, value) ==
  CASE key \in {"listen", "server", "psk"} -> c[key] = value
    [] key = "version" /\ role = "snell-client" -> c.version = FLAVORS[value]
    [] key = "version" /\ role = "snell-server" ->
         c.selection = (FLAVORS @@ NUMBERED)[value] \/ (value = "6" /\ "mode" \in OwnKeys)
    [] key = "mode" -> c.selection = MODES[value]
    [] key = "reuse" -> c.pool = BOOLEANS[value]
    [] key = "upstream_socks5" -> c.outbound = <<value>>
    [] key = "tcp_brutal" -> (c.brutal # <<>>) = BOOLEANS[value]
    [] key = "tcp_brutal_send_mbps" -> c.brutal = <<>> \/ c.brutal[1] = NumberOf[value]
    [] key = "tcp_brutal_cwnd_gain" -> c.brutal = <<>> \/ c.brutal[2] = NumberOf[value]

\* The keys that a configuration owes a value to that is not the default.
Chosen(c) ==
  IF role = "snell-client"
  THEN {"listen", "server", "psk", "version"} \cup {k \in {"reuse"} : c.pool}
  ELSE {"listen", "psk"} \cup {k \in {"version"} : c.selection # "Auto"}
         \cup {k \in {"upstream_socks5"} : c.outbound # <<>>}
         \cup {k \in {"tcp_brutal", "tcp_brutal_send_mbps", "tcp_brutal_cwnd_gain"} : c.brutal # <<>>}

\* A program that starts runs with the settings of its own section, in whatever
\* order and spelling the lines come. Each key there that the role asks for is
\* in effect, so a key or section given twice and a mode without version 6 are
\* refused rather than ignored; and each value that is not the default was set
\* there, none under the header of the other role (IniFile::parse,
\* Section::get, ClientConfig::parse, ServerConfig::parse). It is not about keys
\* the role does not ask for, which the parsers ignore, nor about the parameters
\* of tcp_brutal while that is off, nor whether a connection then takes
\* tcp_brutal: the server warns and goes on where it does not.
SettingsInEffect ==
  outcome.is = "config" =>
    /\ \A line \in Own : line.key \in RoleKeys => InEffect(outcome.config, line.key, line.value)
    /\ Chosen(outcome.config) \subseteq OwnKeys
=============================================================================
