------------------------------- MODULE Reuse -------------------------------
(***************************************************************************)
(* Sessions of a client over pooled connections to a server: the client's  *)
(* reuse pool (crates/snell-runtime/src/client/pool.rs), opening a tunnel  *)
(* over a pooled or a dialed connection and relaying through it (client/   *)
(* mod.rs), and the server's loop of requests on one connection (server/   *)
(* mod.rs, server_session). Client tasks, server tasks and the network     *)
(* interleave; a connection carries whole records, each tagged with the    *)
(* session that caused it, which neither host sees.                        *)
(***************************************************************************)
EXTENDS Naturals, Sequences, Functions

CONSTANTS Sessions,
          Conns,    \* connections that can be dialed
          MaxSize,  \* CLIENT_POOL_MAX_SIZE
          MaxData,  \* bound on the data records of a session, each way
          None,     \* no connection
          NoSession \* no session

ASSUME NoneAssumption == None \notin Conns /\ NoSession \notin Sessions
ASSUME LimitsAssumption == MaxSize \in Nat /\ MaxData \in Nat

VARIABLES sess,    \* client tasks
          pool,    \* ReusePool, oldest entry first
          dialed,  \* connections dialed so far
          up,      \* records on the way to the server, or received and unread
          down,    \* records on the way to the client, or received and unread
          cend,    \* the client's end: "open" or "closed"
          send,    \* the server's end: "open", closed behind the records ("eof"),
                   \* or closed over them ("reset")
          srv      \* server tasks

vars == <<sess, pool, dialed, up, down, cend, send, srv>>

Rec(kind, s) == [kind |-> kind, s |-> s]

\* Records written to a connection whose other end is closed are lost.
SendUp(c, records) == up' = [up EXCEPT ![c] = IF send[c] = "open" THEN @ \o records ELSE @]
SendDown(c, records) == down' = [down EXCEPT ![c] = IF cend[c] = "open" THEN @ \o records ELSE @]

NewSession == [pc |-> "new", conn |-> None, reused |-> FALSE, sent |-> 0,
               upDone |-> FALSE, downDone |-> FALSE]
NewTask == [pc |-> "request", s |-> NoSession, sent |-> 0, upDone |-> FALSE, downDone |-> FALSE]

Init ==
  /\ sess = [s \in Sessions |-> NewSession]
  /\ pool = <<>> /\ dialed = {}
  /\ up = [c \in Conns |-> <<>>] /\ down = [c \in Conns |-> <<>>]
  /\ cend = [c \in Conns |-> "open"] /\ send = [c \in Conns |-> "open"]
  /\ srv = [c \in Conns |-> NewTask]
-----------------------------------------------------------------------------
(* The pool.                                                               *)

\* socket_dead: there is something to read, an end of file or an error.
SocketDead(c) == down[c] # <<>> \/ send[c] # "open"

\* The first n entries have been idle for max_idle: entries return in order.
Idle(n) == SubSeq(pool, 1, n)

\* Dropping connections; what they had not read is lost.
Close(cs) ==
  /\ cend' = [c \in Conns |-> IF c \in cs THEN "closed" ELSE cend[c]]
  /\ down' = [c \in Conns |-> IF c \in cs THEN <<>> ELSE down[c]]

\* take: pops entries up to the first that is neither expired nor dead, and
\* drops the others.
TakePooled(s) ==
  /\ sess[s].pc = "new"
  /\ \E n \in 0..Len(pool) : \E i \in (n + 1)..Len(pool) :
       /\ ~SocketDead(pool[i])
       /\ \A j \in (n + 1)..(i - 1) : SocketDead(pool[j])
       /\ sess' = [sess EXCEPT ![s].pc = "picked", ![s].conn = pool[i], ![s].reused = TRUE]
       /\ Close({pool[j] : j \in 1..(i - 1)})
       /\ pool' = SubSeq(pool, i + 1, Len(pool))
  /\ UNCHANGED <<dialed, up, send, srv>>

\* take finds none: the pool is empty now.
TakeNone(s) ==
  /\ sess[s].pc = "new"
  /\ \E n \in 0..Len(pool) : \A i \in (n + 1)..Len(pool) : SocketDead(pool[i])
  /\ sess' = [sess EXCEPT ![s].pc = "dialing"]
  /\ Close(Range(pool))
  /\ pool' = <<>>
  /\ UNCHANGED <<dialed, up, send, srv>>

\* expire, from the listener's maintenance tick.
Expire ==
  /\ \E n \in 1..Len(pool) :
       Close(Range(Idle(n))) /\ pool' = SubSeq(pool, n + 1, Len(pool))
  /\ UNCHANGED <<sess, dialed, up, send, srv>>
-----------------------------------------------------------------------------
(* Opening a tunnel (establish, open_tunnel).                              *)

Drop(s) == Close({sess[s].conn})

\* A session that is over.
Finished(pc) == [NewSession EXCEPT !.pc = pc]

Dial(s) ==
  /\ sess[s].pc = "dialing"
  /\ \E c \in Conns \ dialed :
       /\ dialed' = dialed \cup {c}
       /\ sess' = [sess EXCEPT ![s].pc = "picked", ![s].conn = c, ![s].reused = FALSE]
  /\ UNCHANGED <<pool, up, down, cend, send, srv>>

DialFails(s) ==
  /\ sess[s].pc = "dialing"
  /\ sess' = [sess EXCEPT ![s] = Finished("failed")]
  /\ UNCHANGED <<pool, dialed, up, down, cend, send, srv>>

WriteConnect(s) ==
  /\ sess[s].pc = "picked"
  /\ sess' = [sess EXCEPT ![s].pc = "opening"]
  /\ SendUp(sess[s].conn, <<Rec("connect", s)>>)
  /\ UNCHANGED <<pool, dialed, down, cend, send, srv>>

\* The attempt fails with an error that means the connection went stale: a
\* pooled connection is replaced by a fresh one, a fresh one is given up.
Stale(s) ==
  /\ sess' = [sess EXCEPT ![s] = Finished(IF @.reused THEN "dialing" ELSE "failed")]
  /\ Drop(s)
  /\ UNCHANGED <<pool, dialed, up, send, srv>>

\* The server has gone: the write fails, or end of file, or a reset.
ServerGone(s) ==
  LET c == sess[s].conn
  IN  /\ sess[s].pc \in {"picked", "opening"}
      /\ send[c] # "open"
      /\ sess[s].pc = "opening" => down[c] = <<>>
      /\ Stale(s)

\* Mutant: only the write is under the timeout.
HandshakeTimeoutOnWrite(s) == sess[s].pc = "picked" /\ Stale(s)

HandshakeTimeout(s) == sess[s].pc \in {"picked", "opening"} /\ Stale(s)

\* read_server_tunnel finds the Tunnel reply.
ReadTunnel(s) ==
  LET c == sess[s].conn
  IN  /\ sess[s].pc = "opening"
      /\ down[c] # <<>> /\ Head(down[c]).kind = "tunnel"
      /\ sess' = [sess EXCEPT ![s].pc = "relay"]
      /\ down' = [down EXCEPT ![c] = Tail(@)]
      /\ UNCHANGED <<pool, dialed, up, cend, send, srv>>

\* An error reply, or a record that does not open: no second attempt.
ReadReject(s) ==
  LET c == sess[s].conn
  IN  /\ sess[s].pc = "opening"
      /\ down[c] # <<>> /\ Head(down[c]).kind \in {"reject", "torn"}
      /\ sess' = [sess EXCEPT ![s] = Finished("failed")]
      /\ Drop(s)
      /\ UNCHANGED <<pool, dialed, up, send, srv>>
-----------------------------------------------------------------------------
(* The client's relay, and what becomes of the connection (relay_tunnel,   *)
(* handle_client).                                                         *)

ClientSend(s) ==
  /\ sess[s].pc = "relay" /\ ~sess[s].upDone /\ sess[s].sent < MaxData
  /\ sess' = [sess EXCEPT ![s].sent = @ + 1]
  /\ SendUp(sess[s].conn, <<Rec("data", s)>>)
  /\ UNCHANGED <<pool, dialed, down, cend, send, srv>>

ClientEnd(s) ==
  /\ sess[s].pc = "relay" /\ ~sess[s].upDone
  /\ sess' = [sess EXCEPT ![s].upDone = TRUE]
  /\ SendUp(sess[s].conn, <<Rec("zero", s)>>)
  /\ UNCHANGED <<pool, dialed, down, cend, send, srv>>

ClientReceive(s) ==
  LET c == sess[s].conn
  IN  /\ sess[s].pc = "relay" /\ ~sess[s].downDone
      /\ down[c] # <<>>
      /\ sess' = [sess EXCEPT ![s].downDone = (Head(down[c]).kind = "zero")]
      /\ down' = [down EXCEPT ![c] = Tail(@)]
      /\ UNCHANGED <<pool, dialed, up, cend, send, srv>>

\* End of file between records ends the direction like a zero chunk.
ClientEof(s) ==
  LET c == sess[s].conn
  IN  /\ sess[s].pc = "relay" /\ ~sess[s].downDone
      /\ down[c] = <<>> /\ send[c] = "eof"
      /\ sess' = [sess EXCEPT ![s].downDone = TRUE]
      /\ UNCHANGED <<pool, dialed, up, down, cend, send, srv>>

\* Either pump fails (the application or the connection is gone).
ClientFails(s) ==
  /\ sess[s].pc = "relay" /\ ~(sess[s].upDone /\ sess[s].downDone)
  /\ sess' = [sess EXCEPT ![s] = Finished("failed")]
  /\ Drop(s)
  /\ UNCHANGED <<pool, dialed, up, send, srv>>

\* Mutant: a connection is pooled when its own direction has ended.
PutEarly(s) ==
  LET c == sess[s].conn
  IN  /\ sess[s].pc = "relay" /\ sess[s].upDone
      /\ sess' = [sess EXCEPT ![s] = Finished("ok")]
      /\ IF SocketDead(c) \/ Len(pool) >= MaxSize
         THEN Drop(s) /\ UNCHANGED pool
         ELSE pool' = Append(pool, c) /\ UNCHANGED <<cend, down>>
      /\ UNCHANGED <<dialed, up, send, srv>>

\* Mutant: the pool has no bound.
PutUnbounded(s) ==
  LET c == sess[s].conn
  IN  /\ sess[s].pc = "relay" /\ sess[s].upDone /\ sess[s].downDone
      /\ sess' = [sess EXCEPT ![s] = Finished("ok")]
      /\ IF SocketDead(c)
         THEN Drop(s) /\ UNCHANGED pool
         ELSE pool' = Append(pool, c) /\ UNCHANGED <<cend, down>>
      /\ UNCHANGED <<dialed, up, send, srv>>

\* Both directions have ended. Unread input, in the lease or in the socket,
\* keeps the connection out of the pool; so does a full pool.
Put(s) ==
  LET c == sess[s].conn
  IN  /\ sess[s].pc = "relay" /\ sess[s].upDone /\ sess[s].downDone
      /\ sess' = [sess EXCEPT ![s] = Finished("ok")]
      /\ IF SocketDead(c) \/ Len(pool) >= MaxSize
         THEN Drop(s) /\ UNCHANGED pool
         ELSE pool' = Append(pool, c) /\ UNCHANGED <<cend, down>>
      /\ UNCHANGED <<dialed, up, send, srv>>
-----------------------------------------------------------------------------
(* The server (server_session, open_remote).                               *)

\* The task ends: it closes its end, over unread input possibly with a reset.
ServerClose(c, records) ==
  /\ srv' = [srv EXCEPT ![c] = [NewTask EXCEPT !.pc = "closed"]]
  /\ up' = [up EXCEPT ![c] = <<>>]
  /\ \/ send' = [send EXCEPT ![c] = "eof"] /\ SendDown(c, records)
     \/ send' = [send EXCEPT ![c] = "reset"] /\ down' = [down EXCEPT ![c] = <<>>]
  /\ UNCHANGED <<sess, pool, dialed, cend>>

\* read_server_connect, for the first request or the next one.
ReadConnect(c) ==
  /\ c \in dialed /\ srv[c].pc = "request"
  /\ up[c] # <<>> /\ Head(up[c]).kind = "connect"
  /\ srv' = [srv EXCEPT ![c] = [NewTask EXCEPT !.pc = "opening", !.s = Head(up[c]).s]]
  /\ up' = [up EXCEPT ![c] = Tail(@)]
  /\ UNCHANGED <<sess, pool, dialed, down, cend, send>>

\* wait_reuse_idle or the handshake: end of file or the timeout.
NoConnect(c) ==
  /\ c \in dialed /\ srv[c].pc = "request"
  /\ ServerClose(c, <<>>)

WriteTunnel(c) ==
  /\ srv[c].pc = "opening"
  /\ srv' = [srv EXCEPT ![c].pc = "relay"]
  /\ SendDown(c, <<Rec("tunnel", srv[c].s)>>)
  /\ UNCHANGED <<sess, pool, dialed, up, cend, send>>

\* The destination refuses, or the handshake times out before the reply.
WriteReject(c) ==
  /\ srv[c].pc = "opening"
  /\ ServerClose(c, <<Rec("reject", srv[c].s)>>)

\* The handshake times out within the Tunnel reply: its beginning is followed
\* by the reject.
TearTunnel(c) ==
  /\ srv[c].pc = "opening"
  /\ ServerClose(c, <<Rec("torn", srv[c].s)>>)

ServerSend(c) ==
  /\ srv[c].pc = "relay" /\ ~srv[c].downDone /\ srv[c].sent < MaxData
  /\ srv' = [srv EXCEPT ![c].sent = @ + 1]
  /\ SendDown(c, <<Rec("data", srv[c].s)>>)
  /\ UNCHANGED <<sess, pool, dialed, up, cend, send>>

ServerEnd(c) ==
  /\ srv[c].pc = "relay" /\ ~srv[c].downDone
  /\ srv' = [srv EXCEPT ![c].downDone = TRUE]
  /\ SendDown(c, <<Rec("zero", srv[c].s)>>)
  /\ UNCHANGED <<sess, pool, dialed, up, cend, send>>

ServerReceive(c) ==
  /\ srv[c].pc = "relay" /\ ~srv[c].upDone
  /\ up[c] # <<>>
  /\ srv' = [srv EXCEPT ![c].upDone = (Head(up[c]).kind = "zero")]
  /\ up' = [up EXCEPT ![c] = Tail(@)]
  /\ UNCHANGED <<sess, pool, dialed, down, cend, send>>

\* Mutant: the server waits for the zero chunk only.
ServerEofIgnored(c) == c \notin Conns /\ UNCHANGED vars

ServerEof(c) ==
  /\ srv[c].pc = "relay" /\ ~srv[c].upDone
  /\ up[c] = <<>> /\ cend[c] = "closed"
  /\ srv' = [srv EXCEPT ![c].upDone = TRUE]
  /\ UNCHANGED <<sess, pool, dialed, up, down, cend, send>>

\* Either pump fails (the destination or the connection is gone).
ServerFails(c) ==
  /\ srv[c].pc = "relay"
  /\ ServerClose(c, <<>>)

\* Mutant: the relay returns when the destination has ended.
NextRequestEarly(c) ==
  /\ srv[c].pc = "relay" /\ srv[c].downDone
  /\ srv' = [srv EXCEPT ![c] = NewTask]
  /\ UNCHANGED <<sess, pool, dialed, up, down, cend, send>>

\* Both directions have ended: wait for the next request.
NextRequest(c) ==
  /\ srv[c].pc = "relay" /\ srv[c].upDone /\ srv[c].downDone
  /\ srv' = [srv EXCEPT ![c] = NewTask]
  /\ UNCHANGED <<sess, pool, dialed, up, down, cend, send>>
-----------------------------------------------------------------------------
Opens(s) ==
  \/ TakePooled(s) \/ TakeNone(s) \/ Dial(s) \/ DialFails(s) \/ WriteConnect(s)
  \/ ServerGone(s) \/ HandshakeTimeout(s) \/ ReadTunnel(s) \/ ReadReject(s)

Relays(s) ==
  \/ ClientSend(s) \/ ClientEnd(s) \/ ClientReceive(s) \/ ClientEof(s)
  \/ ClientFails(s) \/ Put(s)

Serves(c) ==
  \/ ReadConnect(c) \/ NoConnect(c) \/ WriteTunnel(c) \/ WriteReject(c) \/ TearTunnel(c)
  \/ ServerSend(c) \/ ServerEnd(c) \/ ServerReceive(c) \/ ServerEof(c) \/ ServerFails(c)
  \/ NextRequest(c)

Next ==
  \/ \E s \in Sessions : Opens(s) \/ Relays(s)
  \/ \E c \in Conns : Serves(c)
  \/ Expire

\* A client task is polled and its handshake is under a timeout.
Spec == Init /\ [][Next]_vars /\ \A s \in Sessions : WF_vars(Opens(s))

\* So are a server task and its handshakes, and destinations end their streams.
ServerFairness ==
  \A c \in Conns :
       /\ WF_vars(ServerEnd(c)) /\ WF_vars(ServerEof(c)) /\ WF_vars(ServerReceive(c))
       /\ WF_vars(NextRequest(c)) /\ WF_vars(NoConnect(c))
       /\ WF_vars(WriteTunnel(c) \/ WriteReject(c) \/ TearTunnel(c))
-----------------------------------------------------------------------------
\* A connection has one owner: a session, or one place in the pool. It is
\* closed when it leaves both.
OneOwner ==
  /\ \A s, t \in Sessions : s # t /\ sess[s].conn # None => sess[s].conn # sess[t].conn
  /\ \A i, j \in DOMAIN pool : i # j => pool[i] # pool[j]
  /\ \A s \in Sessions, i \in DOMAIN pool : sess[s].conn # pool[i]
  /\ \A c \in dialed :
       cend[c] = "open" <=> c \in Range(pool) \cup {sess[s].conn : s \in Sessions}
  /\ Len(pool) <= MaxSize

\* No session ever reads another session's records, however often its connection
\* was reused before (relay returns after both zero chunks, take and put refuse
\* a socket with something to read). The server forwards to a destination only
\* what was sent to it, and what it finds where it expects a request is a
\* request (server_session).
Isolated ==
  /\ \A s \in Sessions :
       LET c == sess[s].conn
       IN  /\ sess[s].pc \in {"opening", "relay"} => \A i \in DOMAIN down[c] : down[c][i].s = s
           /\ sess[s].pc = "opening" /\ down[c] # <<>>
                => Head(down[c]).kind \in {"tunnel", "reject", "torn"}
  /\ \A c \in Conns :
       /\ srv[c].pc = "request" /\ up[c] # <<>> => Head(up[c]).kind = "connect"
       /\ srv[c].pc = "relay" /\ ~srv[c].upDone /\ up[c] # <<>>
            => Head(up[c]).s = srv[c].s /\ Head(up[c]).kind \in {"data", "zero"}

\* An idle connection is quiet: the server sends nothing more on it until the
\* next request, so only a close can make it stale.
PooledIsQuiet ==
  \A i \in DOMAIN pool :
    /\ down[pool[i]] = <<>>
    /\ srv[pool[i]].pc \in {"request", "closed"} \/ srv[pool[i]].downDone

\* A request is answered: its tunnel opens or it fails, after at most one
\* stale connection (establish).
Answered == \A s \in Sessions : (sess[s].pc # "new") ~> (sess[s].pc \in {"relay", "ok", "failed"})

\* The server does not keep a connection the client has dropped, if its own
\* tasks run and its destinations end their streams (server_session).
Reclaimed ==
  ServerFairness => \A c \in Conns : (cend[c] = "closed") ~> (send[c] # "open")
=============================================================================
