---- MODULE Tunnel ----
(***************************************************************************)
(* The tunnel of pkg/remotedialer.  A client opens a websocket to the      *)
(* server; each websocket is a session.  The server dials addresses        *)
(* through a session: every dial is a connection with an end on either     *)
(* side, and all connections of a session share its websocket.  The client *)
(* end is piped to the dialed address (the target).                        *)
(*                                                                         *)
(* A websocket keeps order, holds a bounded number of messages and may     *)
(* break.  Messages are read by one serve loop per side; an end passes its *)
(* data on through a bounded channel (buf) that is closed with the end.    *)
(* Chunk k of a direction is the number k.                                 *)
(***************************************************************************)
EXTENDS Naturals, Sequences

CONSTANTS
  Sessions,   \* websockets, numbered in the order in which the client opens them
  Conns,      \* connections the server dials
  BufCap,     \* capacity of connection.buf (1024)
  NetCap,     \* messages a websocket holds in one direction
  MaxChunks   \* bound on the chunks each side writes to a connection

ASSUME TunnelBounds ==
  /\ Sessions \subseteq Nat \ {0}
  /\ BufCap \in Nat /\ NetCap \in Nat

ASSUME ChunkBounds == MaxChunks \in [{"server", "client"} -> Nat]

VARIABLES
  serving,    \* serve loop of each session and side
  clients,    \* sessionManager.clients of the one client key, oldest first
              \* by their numbers
  link,       \* whether the websocket carries messages
  net,        \* messages on their way to each side
  dial,       \* Server.Dial of each connection on the server
  via,        \* its session
  conns,      \* session.conns: the connections a side finds by id
  end,        \* each end: "none", "open", or the error it was closed with
  buf,        \* connection.buf
  wrote,      \* chunks whose Write has passed the check of the end
  pending,    \* such a Write has not reached the websocket yet
  got,        \* chunks the caller of Dial has read, or the target was sent
  seen,       \* the error with which Read has ended
  pipe,       \* clientDial: the goroutine of the client end
  up, down,   \* io.Copy to and from the target
  closing,    \* an end taken out of conns: its closer has the peer to tell, the
              \* end to shut, or nothing to do
  closer,     \* who closes it
  reason,     \* and with which error
  byPeer,     \* history: ends closed by an error message of the peer
  late,       \* history: connections inserted after their session had ended
  due         \* history: chunks whose Write had returned when Close was called

vars == <<serving, clients, link, net, dial, via, conns, end, buf, wrote,
          pending, got, seen, pipe, up, down, closing, closer, reason, byPeer, late, due>>

Sides == {"server", "client"}
Peer(x) == IF x = "server" THEN "client" ELSE "server"
Errors == {"eof", "err"}    \* io.EOF, and every other error
NoSession == 0

\* Who takes a connection out of the map to close it: the serve loop for data it
\* cannot pass on, or for an error message of the peer, session.Close, the caller of
\* Dial, and the goroutine of the client end.
Loops == {"loop", "peer"}
Closers == Loops \cup {"session", "caller", "pipe"}
ServeStates == {"none", "on", "failed", "closing", "closed"}

Data(c, k) == [type |-> "data", conn |-> c, chunk |-> k]
Connect(c) == [type |-> "connect", conn |-> c]
Error(c, e) == [type |-> "error", conn |-> c, err |-> e]

Messages == [type : {"data"}, conn : Conns, chunk : Nat]
              \cup [type : {"connect"}, conn : Conns]
              \cup [type : {"error"}, conn : Conns, err : Errors]

TypeOK ==
  /\ serving \in [Sessions -> [Sides -> ServeStates]]
  /\ clients \subseteq Sessions
  /\ link \in [Sessions -> {"none", "up", "down"}]
  /\ net \in [Sessions -> [Sides -> Seq(Messages)]]
  /\ dial \in [Conns -> {"idle", "got", "inserted", "returned", "refused"}]
  /\ via \in [Conns -> Sessions \cup {NoSession}]
  /\ conns \in [Sides -> SUBSET Conns]
  /\ end \in [Sides -> [Conns -> {"none", "open"} \cup Errors]]
  /\ buf \in [Sides -> [Conns -> Seq(Nat)]]
  /\ wrote \in [Sides -> [Conns -> Nat]]
  /\ pending \in [Sides -> [Conns -> BOOLEAN]]
  /\ got \in [Sides -> [Conns -> Seq(Nat)]]
  /\ seen \in [Sides -> [Conns -> {"none"} \cup Errors]]
  /\ pipe \in [Conns -> {"none", "dialing", "refusing", "copying", "closing", "done"}]
  /\ up \in [Conns -> {"on", "done"}]
  /\ down \in [Conns -> {"on"} \cup Errors]
  /\ closing \in [Sides -> [Conns -> {"none", "tell", "shut"}]]
  /\ closer \in [Sides -> [Conns -> {"none"} \cup Closers]]
  /\ reason \in [Sides -> [Conns -> Errors]]
  /\ byPeer \in SUBSET (Sides \X Conns)
  /\ late \in SUBSET Conns
  /\ due \in [Conns -> Nat]

Init ==
  /\ serving = [s \in Sessions |-> [x \in Sides |-> "none"]]
  /\ clients = {}
  /\ link = [s \in Sessions |-> "none"]
  /\ net = [s \in Sessions |-> [x \in Sides |-> <<>>]]
  /\ dial = [c \in Conns |-> "idle"]
  /\ via = [c \in Conns |-> NoSession]
  /\ conns = [x \in Sides |-> {}]
  /\ end = [x \in Sides |-> [c \in Conns |-> "none"]]
  /\ buf = [x \in Sides |-> [c \in Conns |-> <<>>]]
  /\ wrote = [x \in Sides |-> [c \in Conns |-> 0]]
  /\ pending = [x \in Sides |-> [c \in Conns |-> FALSE]]
  /\ got = [x \in Sides |-> [c \in Conns |-> <<>>]]
  /\ seen = [x \in Sides |-> [c \in Conns |-> "none"]]
  /\ pipe = [c \in Conns |-> "none"]
  /\ up = [c \in Conns |-> "on"]
  /\ down = [c \in Conns |-> "on"]
  /\ closing = [x \in Sides |-> [c \in Conns |-> "none"]]
  /\ closer = [x \in Sides |-> [c \in Conns |-> "none"]]
  /\ reason = [x \in Sides |-> [c \in Conns |-> "err"]]
  /\ byPeer = {}
  /\ late = {}
  /\ due = [c \in Conns |-> 0]

dialVars == <<dial, via, late>>
ioVars == <<buf, wrote, pending, got, seen>>
pipeVars == <<pipe, up, down>>
closeVars == <<closing, closer, reason>>
connVars == <<dialVars, ioVars, pipeVars, conns, end, closeVars, byPeer, due>>

-----------------------------------------------------------------------------
(* The websocket *)

\* wsConn.WriteMessage of m from side x when the websocket holds n: it waits
\* for room, and on a broken websocket the message is lost.
WriteMessage(s, x, n, m) ==
  IF link[s] = "up"
  THEN /\ Len(n[s][Peer(x)]) < NetCap
       /\ net' = [n EXCEPT ![s][Peer(x)] = Append(@, m)]
  ELSE net' = n

\* connection.doTunnelClose of an end: only the first error is kept.
DoTunnelClose(x, c, e) ==
  end' = IF end[x][c] = "open" THEN [end EXCEPT ![x][c] = e] ELSE end

\* The mutex of a session is held throughout session.Close.
Unlocked(s, x) == serving[s][x] # "closing"

\* Somebody takes connection c out of the map; what is left to do are the two
\* steps of connection.tunnelClose below.
TakeOut(x, c, by, e) ==
  /\ conns' = [conns EXCEPT ![x] = @ \ {c}]
  /\ closing' = [closing EXCEPT ![x][c] = "tell"]
  /\ closer' = [closer EXCEPT ![x][c] = by]
  /\ reason' = [reason EXCEPT ![x][c] = e]

\* A mutant of CloseConnection: the peer is not told.
CloseConnectionQuiet(s, x, c, by, e) ==
  /\ Unlocked(s, x)
  /\ IF c \in conns[x]
     THEN /\ conns' = [conns EXCEPT ![x] = @ \ {c}]
          /\ closing' = [closing EXCEPT ![x][c] = "shut"]
          /\ closer' = [closer EXCEPT ![x][c] = by]
          /\ reason' = [reason EXCEPT ![x][c] = e]
     ELSE UNCHANGED <<conns, closeVars>>

\* session.closeConnection up to its unlock: a connection that is not in the map
\* is left alone.
CloseConnection(s, x, c, by, e) ==
  /\ Unlocked(s, x)
  /\ IF c \in conns[x] THEN TakeOut(x, c, by, e) ELSE UNCHANGED <<conns, closeVars>>

\* connection.tunnelClose: the peer is told first ...
TellPeer(x, c) ==
  /\ closing[x][c] = "tell"
  /\ closing' = [closing EXCEPT ![x][c] = "shut"]
  /\ WriteMessage(via[c], x, net, Error(c, reason[x][c]))
  /\ UNCHANGED <<serving, clients, link, dialVars, conns, end, ioVars, pipeVars,
                 closer, reason, byPeer, due>>

\* ... then the end is closed, and the closer goes on.
ShutEnd(x, c) ==
  /\ closing[x][c] = "shut"
  /\ DoTunnelClose(x, c, reason[x][c])
  /\ byPeer' = IF closer[x][c] = "peer" /\ end[x][c] = "open"
               THEN byPeer \cup {<<x, c>>} ELSE byPeer
  /\ pipe' = IF closer[x][c] = "pipe" THEN [pipe EXCEPT ![c] = "done"] ELSE pipe
  /\ closing' = [closing EXCEPT ![x][c] = "none"]
  /\ closer' = [closer EXCEPT ![x][c] = "none"]
  /\ reason' = [reason EXCEPT ![x][c] = "err"]
  /\ UNCHANGED <<serving, clients, link, net, dialVars, conns, ioVars, up, down, due>>

-----------------------------------------------------------------------------
(* Sessions *)

\* The mutex of the session manager is held while a removed session closes.
ManagerUnlocked == \A s \in Sessions : Unlocked(s, "server")

\* connectToProxy dials, ServeHTTP upgrades, sessionManager.add registers.
\* The client process opens a websocket when the one before has ended.
OpenSession(s) ==
  /\ ManagerUnlocked
  /\ serving[s]["client"] = "none"
  /\ \A r \in Sessions : r < s => serving[r]["client"] = "closed"
  /\ serving' = [serving EXCEPT ![s] = [x \in Sides |-> "on"]]
  /\ clients' = clients \cup {s}
  /\ link' = [link EXCEPT ![s] = "up"]
  /\ UNCHANGED <<net, connVars>>

\* The network fails; what was under way is lost.
LinkBreaks(s) ==
  /\ link[s] = "up"
  /\ link' = [link EXCEPT ![s] = "down"]
  /\ net' = [net EXCEPT ![s] = [x \in Sides |-> <<>>]]
  /\ UNCHANGED <<serving, clients, connVars>>

\* The serve loop is in closeConnection.
Busy(s, x) == \E c \in Conns : via[c] = s /\ closer[x][c] \in Loops

\* session.serve returns: reading failed, a message was not understood, or
\* the read deadline passed, which pings and pongs no longer moved.
ServeFails(s, x) ==
  /\ serving[s][x] = "on" /\ ~Busy(s, x)
  /\ serving' = [serving EXCEPT ![s][x] = "failed"]
  /\ UNCHANGED <<clients, link, net, connVars>>

\* sessionManager.remove on the server, session.Close in connectToProxy.
StartClose(s, x) ==
  /\ serving[s][x] = "failed"
  /\ x = "server" => ManagerUnlocked
  /\ serving' = [serving EXCEPT ![s][x] = "closing"]
  /\ clients' = IF x = "server" THEN clients \ {s} ELSE clients
  /\ UNCHANGED <<link, net, connVars>>

\* session.Close is in the tunnelClose of a connection.
Disconnecting(s, x) == \E c \in Conns : via[c] = s /\ closer[x][c] = "session"

\* session.Close, for one connection of the map: tunnelClose tells the peer first.
\* (The map is emptied in the end; until then the mutex hides it.)
CloseOne(s, x, c) ==
  /\ serving[s][x] = "closing" /\ ~Disconnecting(s, x)
  /\ c \in conns[x] /\ via[c] = s
  /\ conns' = [conns EXCEPT ![x] = @ \ {c}]
  /\ WriteMessage(s, x, net, Error(c, "err"))
  /\ closing' = [closing EXCEPT ![x][c] = "shut"]
  /\ closer' = [closer EXCEPT ![x][c] = "session"]
  /\ UNCHANGED <<serving, clients, link, end, dialVars, ioVars, pipeVars, reason, byPeer, due>>

\* session.Close returns.  The client then closes the websocket; the server
\* does not.
EndClose(s, x) ==
  /\ serving[s][x] = "closing" /\ ~Disconnecting(s, x)
  /\ \A c \in conns[x] : via[c] # s
  /\ serving' = [serving EXCEPT ![s][x] = "closed"]
  /\ IF x = "client"
     THEN /\ link' = [link EXCEPT ![s] = "down"]
          /\ net' = [net EXCEPT ![s]["client"] = <<>>]
     ELSE UNCHANGED <<link, net>>
  /\ UNCHANGED <<clients, connVars>>

-----------------------------------------------------------------------------
(* Dialing from the server *)

\* Server.Dial: sessionManager.getByClient takes the oldest session.
GetByClient(c) ==
  /\ ManagerUnlocked
  /\ dial[c] = "idle"
  /\ dial' = [dial EXCEPT ![c] = "got"]
  /\ \E s \in clients : /\ \A r \in clients : s <= r
                        /\ via' = [via EXCEPT ![c] = s]
  /\ UNCHANGED <<serving, clients, link, net, conns, end, ioVars, pipeVars, closeVars,
                 byPeer, late, due>>

\* session.serverConnect puts the new connection into the map ...
ServerConnect(c) ==
  /\ dial[c] = "got"
  /\ Unlocked(via[c], "server")
  /\ dial' = [dial EXCEPT ![c] = "inserted"]
  /\ conns' = [conns EXCEPT !["server"] = @ \cup {c}]
  /\ end' = [end EXCEPT !["server"][c] = "open"]
  /\ late' = IF serving[via[c]]["server"] = "closed" THEN late \cup {c} ELSE late
  /\ UNCHANGED <<serving, clients, link, net, via, ioVars, pipeVars, closeVars, byPeer, due>>

\* ... and sends the request; a write on a broken websocket may go unnoticed.
SendConnect(c) ==
  /\ dial[c] = "inserted"
  /\ dial' = [dial EXCEPT ![c] = "returned"]
  /\ WriteMessage(via[c], "server", net, Connect(c))
  /\ UNCHANGED <<serving, clients, link, via, conns, end, ioVars, pipeVars, closeVars,
                 byPeer, late, due>>

SendConnectFails(c) ==
  /\ dial[c] = "inserted" /\ link[via[c]] = "down"
  /\ dial' = [dial EXCEPT ![c] = "refused"]
  /\ CloseConnection(via[c], "server", c, "caller", "err")
  /\ UNCHANGED <<serving, clients, link, net, via, end, ioVars, pipeVars, byPeer, late, due>>

-----------------------------------------------------------------------------
(* The serve loops: session.serveMessage *)

Receives(s, x, type) ==
  /\ serving[s][x] = "on" /\ ~Busy(s, x)
  /\ net[s][x] # <<>>
  /\ Head(net[s][x]).type = type

Taken(s, x) == [net EXCEPT ![s][x] = Tail(@)]

\* clientConnect; a session without authorizer allows every address.
ServeConnect(s) ==
  LET c == Head(net[s]["client"]).conn IN
  /\ Receives(s, "client", "connect")
  /\ net' = Taken(s, "client")
  /\ conns' = [conns EXCEPT !["client"] = @ \cup {c}]
  /\ end' = [end EXCEPT !["client"][c] = "open"]
  /\ pipe' = [pipe EXCEPT ![c] = "dialing"]
  /\ UNCHANGED <<serving, clients, link, dialVars, ioVars, up, down, closeVars, byPeer, due>>

\* The authorizer refuses the address: the error ends the whole session.
RefuseConnect(s) ==
  /\ Receives(s, "client", "connect")
  /\ net' = Taken(s, "client")
  /\ serving' = [serving EXCEPT ![s]["client"] = "failed"]
  /\ UNCHANGED <<clients, link, connVars>>

\* chanWriter.Write does not wait for room: "backed up reader".
BackedUp(x, c) == Len(buf[x][c]) >= BufCap

\* Data for a connection this side does not have is answered with an error;
\* else it goes to the channel of the end unless that is closed or full.  Data
\* whose connection is taken out after the lookup has found it may be dropped.
ServeData(s, x) ==
  LET m == Head(net[s][x])
      c == m.conn
  IN
  /\ Receives(s, x, "data")
  /\ \/ /\ c \notin conns[x]
        /\ WriteMessage(s, x, Taken(s, x), Error(c, "err"))
        /\ UNCHANGED <<buf, conns, closeVars>>
     \/ /\ c \notin conns[x] /\ end[x][c] # "none"
        /\ net' = Taken(s, x)
        /\ UNCHANGED <<buf, conns, closeVars>>
     \/ /\ c \in conns[x] /\ end[x][c] = "open" /\ ~BackedUp(x, c)
        /\ buf' = [buf EXCEPT ![x][c] = Append(@, m.chunk)]
        /\ net' = Taken(s, x)
        /\ UNCHANGED <<conns, closeVars>>
     \/ /\ c \in conns[x] /\ end[x][c] = "open" /\ BackedUp(x, c)
        /\ net' = Taken(s, x)
        /\ CloseConnection(s, x, c, "loop", "err")
        /\ UNCHANGED buf
     \/ /\ c \in conns[x] /\ end[x][c] \in Errors
        /\ net' = Taken(s, x)
        /\ CloseConnection(s, x, c, "loop", end[x][c])
        /\ UNCHANGED buf
  /\ UNCHANGED <<serving, clients, link, dialVars, end, wrote, pending, got, seen,
                 pipeVars, byPeer, due>>

ServeError(s, x) ==
  LET m == Head(net[s][x])
  IN
  /\ Receives(s, x, "error")
  /\ net' = Taken(s, x)
  /\ CloseConnection(s, x, m.conn, "peer", m.err)
  /\ UNCHANGED <<serving, clients, link, end, dialVars, ioVars, pipeVars, byPeer, due>>

-----------------------------------------------------------------------------
(* Ends: on the server the caller of Dial, on the client the pipe *)

\* Who uses the end: the caller of Dial, or io.Copy(client, server).
Writing(x, c) ==
  IF x = "server" THEN dial[c] = "returned" ELSE pipe[c] = "copying" /\ down[c] = "on"

\* A mutant of WriteCheck: the end is not checked.
WriteCheckMissing(x, c) ==
  /\ Writing(x, c) /\ ~pending[x][c] /\ wrote[x][c] < MaxChunks[x]
  /\ x = "client" => up[c] = "on"
  /\ wrote' = [wrote EXCEPT ![x][c] = @ + 1]
  /\ pending' = [pending EXCEPT ![x][c] = TRUE]
  /\ UNCHANGED <<serving, clients, link, net, dialVars, conns, end, buf, got, seen,
                 pipeVars, closeVars, byPeer, due>>

\* connection.Write: the error is checked under the lock of the end, the
\* message is written after it was released.
WriteCheck(x, c) ==
  /\ Writing(x, c) /\ ~pending[x][c] /\ wrote[x][c] < MaxChunks[x]
  /\ x = "client" => up[c] = "on"      \* the target has not been closed
  /\ end[x][c] = "open"
  /\ wrote' = [wrote EXCEPT ![x][c] = @ + 1]
  /\ pending' = [pending EXCEPT ![x][c] = TRUE]
  /\ UNCHANGED <<serving, clients, link, net, dialVars, conns, end, buf, got, seen,
                 pipeVars, closeVars, byPeer, due>>

WriteSend(x, c) ==
  /\ pending[x][c]
  /\ pending' = [pending EXCEPT ![x][c] = FALSE]
  /\ WriteMessage(via[c], x, net, Data(c, wrote[x][c]))
  /\ UNCHANGED <<serving, clients, link, dialVars, conns, end, buf, wrote, got, seen,
                 pipeVars, closeVars, byPeer, due>>

\* connection.Read: what is in the channel, also after the end was closed.
TakeChunk(x, c) ==
  /\ buf[x][c] # <<>>
  /\ got' = [got EXCEPT ![x][c] = Append(@, Head(buf[x][c]))]
  /\ buf' = [buf EXCEPT ![x][c] = Tail(@)]

\* A mutant of Drained: Read looks at the error before the channel.
DrainedEarly(x, c) == end[x][c] \in Errors

\* connection.Read on a closed and empty channel.
Drained(x, c) == buf[x][c] = <<>> /\ end[x][c] \in Errors

ServerRead(c) ==
  /\ dial[c] = "returned"
  /\ TakeChunk("server", c)
  /\ UNCHANGED <<serving, clients, link, net, dialVars, conns, end, wrote, pending,
                 seen, pipeVars, closeVars, byPeer, due>>

ServerReadEnds(c) ==
  /\ dial[c] = "returned" /\ seen["server"][c] = "none"
  /\ Drained("server", c)
  /\ seen' = [seen EXCEPT !["server"][c] = end["server"][c]]
  /\ UNCHANGED <<serving, clients, link, net, dialVars, conns, end, buf, wrote, pending,
                 got, pipeVars, closeVars, byPeer, due>>

\* How many chunks of side x have been handed to the websocket.
Sent(x, c) == IF pending[x][c] THEN wrote[x][c] - 1 ELSE wrote[x][c]

\* connection.Close by the caller of Dial.
ServerClose(c) ==
  /\ dial[c] = "returned" /\ c \in conns["server"]
  /\ due' = [due EXCEPT ![c] = Sent("server", c)]
  /\ CloseConnection(via[c], "server", c, "caller", "eof")
  /\ UNCHANGED <<serving, clients, link, net, end, dialVars, ioVars, pipeVars, byPeer>>

-----------------------------------------------------------------------------
(* The client's end: clientDial and pipe *)

DialTarget(c) ==
  /\ pipe[c] = "dialing"
  /\ pipe' = [pipe EXCEPT ![c] = "copying"]
  /\ UNCHANGED <<serving, clients, link, net, dialVars, conns, end, ioVars, up, down,
                 closeVars, byPeer, due>>

\* The dial fails: connection.tunnelClose, with the connection still in the map.
DialTargetFails(c) ==
  /\ pipe[c] = "dialing"
  /\ pipe' = [pipe EXCEPT ![c] = "refusing"]
  /\ WriteMessage(via[c], "client", net, Error(c, "err"))
  /\ UNCHANGED <<serving, clients, link, dialVars, conns, end, ioVars, up, down,
                 closeVars, byPeer, due>>

RefuseShuts(c) ==
  /\ pipe[c] = "refusing"
  /\ pipe' = [pipe EXCEPT ![c] = "closing"]
  /\ DoTunnelClose("client", c, "err")
  /\ UNCHANGED <<serving, clients, link, net, dialVars, conns, ioVars, up, down,
                 closeVars, byPeer, due>>

\* io.Copy(client, server) ends: the target ended or failed (it fails once the
\* other copy has closed it), Write found the end closed, or could not write.
DownEnds(c, e) ==
  /\ pipe[c] = "copying" /\ down[c] = "on"
  /\ IF pending["client"][c]
     THEN e = "err" /\ link[via[c]] = "down"
     ELSE e = "err" \/ up[c] = "on" \/ e = end["client"][c]
  /\ down' = [down EXCEPT ![c] = e]
  /\ pending' = [pending EXCEPT !["client"][c] = FALSE]
  /\ DoTunnelClose("client", c, e)
  /\ UNCHANGED <<serving, clients, link, net, dialVars, conns, buf, wrote, got, seen,
                 pipe, up, closeVars, byPeer, due>>

\* io.Copy(server, client): a chunk goes to the target.
UpCopies(c) ==
  /\ pipe[c] = "copying" /\ up[c] = "on" /\ down[c] = "on"
  /\ TakeChunk("client", c)
  /\ UNCHANGED <<serving, clients, link, net, dialVars, conns, end, wrote, pending,
                 seen, pipeVars, closeVars, byPeer, due>>

\* It ends when Read does, or when writing a chunk to the target fails.
UpEnds(c) ==
  /\ pipe[c] = "copying" /\ up[c] = "on"
  /\ up' = [up EXCEPT ![c] = "done"]
  /\ \/ /\ Drained("client", c)
        /\ seen' = [seen EXCEPT !["client"][c] = end["client"][c]]
        /\ UNCHANGED <<buf, got, end>>
     \/ /\ buf["client"][c] # <<>>
        /\ buf' = [buf EXCEPT !["client"][c] = Tail(@)]
        /\ DoTunnelClose("client", c, "err")
        /\ UNCHANGED <<got, seen>>
  /\ UNCHANGED <<serving, clients, link, net, dialVars, conns, wrote, pending,
                 pipe, down, closeVars, byPeer, due>>

\* pipe writes its error when both copies have ended.
PipeWriteErr(c) ==
  /\ pipe[c] = "copying" /\ up[c] = "done" /\ down[c] # "on"
  /\ pipe' = [pipe EXCEPT ![c] = "closing"]
  /\ WriteMessage(via[c], "client", net, Error(c, down[c]))
  /\ UNCHANGED <<serving, clients, link, dialVars, conns, end, ioVars, up, down,
                 closeVars, byPeer, due>>

\* The deferred conn.Close of clientDial; the goroutine ends with it.
PipeClose(c) ==
  /\ pipe[c] = "closing" /\ closer["client"][c] # "pipe"
  /\ pipe' = IF c \in conns["client"] THEN pipe ELSE [pipe EXCEPT ![c] = "done"]
  /\ CloseConnection(via[c], "client", c, "pipe", "eof")
  /\ UNCHANGED <<serving, clients, link, net, end, dialVars, ioVars, up, down, byPeer, due>>

-----------------------------------------------------------------------------

SessionStep(s, x) ==
  \/ StartClose(s, x)
  \/ \E c \in Conns : CloseOne(s, x, c)
  \/ EndClose(s, x)
  \/ ServeData(s, x)
  \/ ServeError(s, x)

ClientServe(s) == ServeConnect(s) \/ RefuseConnect(s)

DialStep(c) == ServerConnect(c) \/ SendConnect(c) \/ SendConnectFails(c)

DialTargetStep(c) == DialTarget(c) \/ DialTargetFails(c) \/ RefuseShuts(c)

CloseStep(x, c) == TellPeer(x, c) \/ ShutEnd(x, c)

DownStep(c) == \E e \in Errors : DownEnds(c, e)

UpStep(c) == UpCopies(c) \/ UpEnds(c)

Next ==
  \/ \E s \in Sessions :
       \/ OpenSession(s) \/ LinkBreaks(s) \/ ClientServe(s)
       \/ \E x \in Sides : ServeFails(s, x) \/ SessionStep(s, x)
  \/ \E c \in Conns :
       \/ GetByClient(c) \/ DialStep(c)
       \/ ServerRead(c) \/ ServerReadEnds(c) \/ ServerClose(c)
       \/ DialTargetStep(c) \/ DownStep(c) \/ UpStep(c)
       \/ PipeWriteErr(c) \/ PipeClose(c)
       \/ \E x \in Sides : WriteCheck(x, c) \/ WriteSend(x, c) \/ CloseStep(x, c)

Spec == Init /\ [][Next]_vars

\* Reading must fail: the websocket is broken and empty, or the side that
\* answers pings has gone and the read deadline passes.
MustFail(s, x) ==
  \/ link[s] = "down" /\ net[s][x] = <<>>
  \/ x = "client" /\ serving[s]["server"] = "closed"

\* The steps of a close that a closer in set P has still to do.
Closing(x, c, P) == closer[x][c] \in P /\ CloseStep(x, c)

\* The goroutines: a session's serve loop on one side and then session.Close, ...
LoopStep(s, x) ==
  \/ SessionStep(s, x)
  \/ x = "client" /\ ClientServe(s)
  \/ MustFail(s, x) /\ ServeFails(s, x)
  \/ \E c \in Conns : via[c] = s /\ Closing(x, c, Loops \cup {"session"})

\* ... Dial, and Close once its caller has called it, ...
CallerStep(c) == DialStep(c) \/ Closing("server", c, {"caller"})

\* ... clientDial before and after the copies, and the copy from the target.
PipeStep(c) ==
  DialTargetStep(c) \/ PipeWriteErr(c) \/ PipeClose(c) \/ Closing("client", c, {"pipe"})

DownGoes(c) == WriteSend("client", c) \/ (up[c] = "done" /\ DownStep(c))

\* Goroutines run.  Nothing is assumed of the network, of the caller of Dial
\* or of the target; the copy from the target ends when the target is closed.
Fairness ==
  /\ \A s \in Sessions, x \in Sides : WF_vars(LoopStep(s, x))
  /\ \A c \in Conns :
       /\ WF_vars(CallerStep(c)) /\ WF_vars(WriteSend("server", c))
       /\ WF_vars(PipeStep(c)) /\ WF_vars(UpStep(c)) /\ WF_vars(DownGoes(c))

FairSpec == Spec /\ Fairness

-----------------------------------------------------------------------------
(* Properties *)

\* The tunnel implements independent streams, two for each connection: chunks
\* arrive in order, each once and none of another connection, and a closed end
\* takes no more data (connection.Write, chanWriter.Write, serveMessage).
Streams ==
  INSTANCE ByteStreams WITH
    Streams <- Sides \X Conns,
    Chunks <- 1..(MaxChunks["server"] + MaxChunks["client"]),
    sent <- [t \in Sides \X Conns |-> [i \in 1..wrote[t[1]][t[2]] |-> i]],
    received <- [t \in Sides \X Conns |-> got[Peer(t[1])][t[2]]],
    closed <- [t \in Sides \X Conns |-> end[t[1]][t[2]] \in Errors]

ImplementsStreams == Streams!Spec

\* A reader that is told io.EOF by its peer has been given everything: all
\* that the target sent, and all that the caller of Dial had written when he
\* called Close ("Write tunnel error after no more I/O is happening",
\* client_dialer.go).  A Write that overlaps the Close may be lost, at any of its steps.
EOFMeansAll ==
  \A x \in Sides, c \in Conns :
    (seen[x][c] = "eof" /\ <<x, c>> \in byPeer) =>
      IF x = "server" THEN Len(got[x][c]) = wrote["client"][c]
                      ELSE Len(got[x][c]) >= due[c]

\* When session.Close has returned, no end of the session is open, except one
\* that serverConnect inserted afterwards (Dial looks the session up before), and
\* one that the caller of Dial had taken out of the map and is still closing.
ClosedSessionClosesConns ==
  \A s \in Sessions, x \in Sides, c \in Conns :
    (serving[s][x] = "closed" /\ via[c] = s /\ end[x][c] = "open") =>
      x = "server" /\ (c \in late \/ closer[x][c] = "caller")

\* What either side is told of the other end is true: EOF means that nothing
\* was lost, and a closed session leaves no end open (connection.go,
\* session.go).
EndsHonest == EOFMeansAll /\ ClosedSessionClosesConns

\* The websocket of c is full towards a side that has stopped reading, or both ways.
\* Writes have no deadline, so this may last for ever.
Stalled(c) == \E s \in Sessions :
  /\ via[c] = s /\ link[s] = "up"
  /\ \E x \in Sides :
       /\ Len(net[s][x]) >= NetCap
       /\ \/ serving[s][x] # "on"
          \/ Len(net[s][Peer(x)]) >= NetCap

\* Neither end outlives the other: once one is closed, by whatever side or by
\* the session, the client's goroutines for the connection end and the
\* server's reader is released, unless the websocket is stalled (or the
\* connection came too late for its session to close it).
EndsTogether ==
  \A c \in Conns :
    (pipe[c] # "none" /\ \E x \in Sides : end[x][c] \in Errors) ~>
      \/ pipe[c] = "done" /\ (end["server"][c] # "open" \/ c \in late)
      \/ Stalled(c)
====
