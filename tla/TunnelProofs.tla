---- MODULE TunnelProofs ----
(***************************************************************************)
(* The tunnel implements independent streams, whatever the numbers of      *)
(* sessions, connections, chunks and messages on the way: sessions that    *)
(* break, end or refuse, ends that close on either side at any moment, and *)
(* connections that share a websocket never make a reader skip, repeat or  *)
(* mix up data.                                                            *)
(*                                                                         *)
(* The argument is about one direction of one connection: as long as the   *)
(* reading end is not closed, the data of the connection in the websocket  *)
(* continues, without gap, what that end has taken; and nothing but a      *)
(* closed end or a broken websocket ever loses data.                       *)
(*                                                                         *)
(* The last part is about what an end is told of the other one: an io.EOF  *)
(* on its way has all the data that is owed ahead of it, so a reader that  *)
(* is given it has missed nothing.                                         *)
(***************************************************************************)
EXTENDS Tunnel, Integers, TLAPS

-----------------------------------------------------------------------------
(* Data of a connection in a queue of messages *)

IsData(m, c) == m.type = "data" /\ m.conn = c
IsConnect(m, c) == m.type = "connect" /\ m.conn = c

\* The data of c in q are the chunks from r + 1 to m, in this order.
Run(q, c, r, m) ==
  /\ \A i \in 1..Len(q) : IsData(q[i], c) => q[i].chunk \in (r + 1)..m
  /\ \A k \in (r + 1)..m : \E i \in 1..Len(q) : IsData(q[i], c) /\ q[i].chunk = k
  /\ \A i, j \in 1..Len(q) :
       IsData(q[i], c) /\ IsData(q[j], c) /\ i < j => q[i].chunk < q[j].chunk

Announced(q, c) == \E i \in 1..Len(q) : IsConnect(q[i], c)

\* No data of c comes before the request to connect it.
Preceded(q, c) ==
  \A i \in 1..Len(q) :
    IsData(q[i], c) => \E j \in 1..Len(q) : j < i /\ IsConnect(q[j], c)

\* There is at most one request to connect c.
OneRequest(q, c) ==
  \A i, j \in 1..Len(q) : IsConnect(q[i], c) /\ IsConnect(q[j], c) => i = j

-----------------------------------------------------------------------------
(* The inductive invariant *)

\* Chunks that have reached an end, and chunks whose Write has reached, or
\* missed, the websocket.
Received(y, c) == Len(got[y][c]) + Len(buf[y][c])
Posted(x, c) == IF pending[x][c] THEN wrote[x][c] - 1 ELSE wrote[x][c]

\* An end is shut when it is closed or somebody is closing it: it may miss data.
Shut(y, c) == end[y][c] \in Errors \/ closing[y][c] # "none"

\* Sessions in use have been opened.
SessionLife ==
  /\ \A s \in Sessions : serving[s]["client"] = "none" => link[s] = "none"
  /\ \A s \in clients : link[s] # "none"
  /\ \A c \in Conns : via[c] # NoSession => link[via[c]] # "none"

\* An open end is in the map or somebody is closing it.
MapLife(x, c) ==
  /\ end[x][c] = "open" => c \in conns[x] \/ Shut(x, c)
  /\ closing[x][c] # "none" \/ c \in conns[x] => end[x][c] # "none"
  /\ c \in conns[x] => closing[x][c] = "none"
  /\ closer[x][c] = "pipe" => pipe[c] # "none"

\* The stages of a connection: dialed, connected, piped, used.
ConnLife ==
  \A c \in Conns :
    /\ dial[c] = "idle" <=> via[c] = NoSession
    /\ end["server"][c] = "none" <=> dial[c] \in {"idle", "got"}
    /\ end["client"][c] # "none" => dial[c] = "returned"
    /\ pipe[c] # "none" => end["client"][c] # "none"
    /\ up[c] = "done" => end["client"][c] \in Errors
    /\ wrote["server"][c] > 0 => dial[c] = "returned"
    /\ wrote["client"][c] > 0 => pipe[c] # "none"
    /\ \A x \in Sides :
         /\ MapLife(x, c)
         /\ pending[x][c] => wrote[x][c] > 0
         /\ dial[c] = "idle" => got[x][c] = <<>> /\ buf[x][c] = <<>>

\* A websocket carries data and requests of its own connections only; a
\* request is on its way once, and only while the client has no end for it.
OwnMessages ==
  \A s \in Sessions, y \in Sides :
    /\ \A i \in 1..Len(net[s][y]) :
         LET m == net[s][y][i] IN
         /\ m.type # "error" => via[m.conn] = s
         /\ m.type = "connect" =>
              y = "client" /\ dial[m.conn] = "returned" /\ end["client"][m.conn] = "none"
    /\ \A c \in Conns : OneRequest(net[s][y], c)

\* As long as the client reads, the request goes ahead of the data.
RequestAt(c) ==
  dial[c] = "returned" /\ end["client"][c] = "none" /\ serving[via[c]]["client"] = "on"
    => /\ Preceded(net[via[c]]["client"], c)
       /\ link[via[c]] = "up" => Announced(net[via[c]]["client"], c)
RequestFirst == \A c \in Conns : RequestAt(c)

\* An end that is not shut is owed what the websocket holds, all that was
\* posted if it is not broken.
GapAt(y, c) ==
  ~Shut(y, c) /\ via[c] # NoSession =>
    \E m \in Received(y, c)..Posted(Peer(y), c) :
      /\ Run(net[via[c]][y], c, Received(y, c), m)
      /\ link[via[c]] = "up" => m = Posted(Peer(y), c)
NoGap == \A y \in Sides, c \in Conns : GapAt(y, c)

\* What an end has passed on is the first chunks in order, and its channel has
\* the next, unless io.Copy has lost one to a failing target.
InOrder ==
  \A y \in Sides, c \in Conns :
    /\ \A i \in 1..Len(got[y][c]) : got[y][c][i] = i
    /\ y = "server" \/ up[c] = "on" =>
         /\ Received(y, c) <= wrote[Peer(y)][c]
         /\ \A i \in 1..Len(buf[y][c]) : buf[y][c][i] = Len(got[y][c]) + i

TunnelInv ==
  /\ TypeOK /\ SessionLife /\ ConnLife /\ OwnMessages /\ RequestFirst /\ NoGap
  /\ InOrder
-----------------------------------------------------------------------------
(* Lemmas on queues *)

\* Positions of the messages after one is added or taken.
LEMMA QueueAppend ==
  ASSUME NEW q \in Seq(Messages), NEW m \in Messages
  PROVE  /\ Append(q, m) \in Seq(Messages)
         /\ Len(Append(q, m)) = Len(q) + 1
         /\ Len(q) \in Nat
         /\ \A i \in 1..Len(q) : Append(q, m)[i] = q[i]
         /\ Append(q, m)[Len(q) + 1] = m
  OBVIOUS

LEMMA QueueTail ==
  ASSUME NEW q \in Seq(Messages), q # <<>>
  PROVE  /\ Tail(q) \in Seq(Messages)
         /\ Len(q) \in Nat /\ Len(q) >= 1
         /\ Len(Tail(q)) = Len(q) - 1
         /\ \A i \in 1..Len(Tail(q)) : Tail(q)[i] = q[i + 1]
         /\ Head(q) = q[1] /\ Head(q) \in Messages
  OBVIOUS

\* A message that is no data of c leaves the run of c.
LEMMA RunAppendOther ==
  ASSUME NEW q \in Seq(Messages), NEW m \in Messages, NEW c, ~IsData(m, c),
         NEW r \in Nat, NEW n \in Nat, Run(q, c, r, n)
  PROVE  Run(Append(q, m), c, r, n)
<1> DEFINE p == Append(q, m)
<1>1. /\ Len(p) = Len(q) + 1 /\ Len(q) \in Nat
      /\ \A i \in 1..Len(q) : p[i] = q[i]
      /\ p[Len(q) + 1] = m
  BY QueueAppend
<1> HIDE DEF p
<1>2. \A i \in 1..Len(p) : IsData(p[i], c) => i \in 1..Len(q)
  BY <1>1
<1>3. \A i \in 1..Len(q) : i \in 1..Len(p)
  BY <1>1
<1>4. Run(p, c, r, n)
  BY <1>1, <1>2, <1>3 DEF Run
<1> QED
  BY <1>4 DEF p

\* The next chunk extends the run.
LEMMA RunAppendData ==
  ASSUME NEW q \in Seq(Messages), NEW c \in Conns, NEW r \in Nat, NEW n \in Nat,
         r <= n, Run(q, c, r, n)
  PROVE  Run(Append(q, Data(c, n + 1)), c, r, n + 1)
<1> DEFINE m == Data(c, n + 1)
           p == Append(q, m)
<1>1. m \in Messages /\ IsData(m, c) /\ m.chunk = n + 1
  BY DEF Messages, Data, IsData
<1>2. /\ Len(p) = Len(q) + 1 /\ Len(q) \in Nat
      /\ \A i \in 1..Len(q) : p[i] = q[i]
      /\ p[Len(q) + 1] = m
  BY <1>1, QueueAppend
<1> HIDE DEF m, p
<1>3. \A i \in 1..Len(p) :
        IsData(p[i], c) =>
          \/ i \in 1..Len(q) /\ IsData(q[i], c) /\ p[i].chunk = q[i].chunk
          \/ i = Len(q) + 1 /\ p[i].chunk = n + 1
  BY <1>1, <1>2
<1>4. \A i \in 1..Len(p) : IsData(p[i], c) => p[i].chunk \in (r + 1)..(n + 1)
  BY <1>3 DEF Run
<1>5. ASSUME NEW k \in (r + 1)..(n + 1)
      PROVE  \E i \in 1..Len(p) : IsData(p[i], c) /\ p[i].chunk = k
  <2>1. CASE k = n + 1
    <3>1. Len(q) + 1 \in 1..Len(p)
      BY <1>2
    <3> QED
      BY <1>1, <1>2, <2>1, <3>1
  <2>2. CASE k \in (r + 1)..n
    <3>1. PICK i \in 1..Len(q) : IsData(q[i], c) /\ q[i].chunk = k
      BY <2>2 DEF Run
    <3>2. i \in 1..Len(p) /\ p[i] = q[i]
      BY <1>2
    <3> QED
      BY <3>1, <3>2
  <2> QED
    BY <2>1, <2>2
<1>6. ASSUME NEW i \in 1..Len(p), NEW j \in 1..Len(p),
             IsData(p[i], c), IsData(p[j], c), i < j
      PROVE  p[i].chunk < p[j].chunk
  <2>1. i \in 1..Len(q) /\ IsData(q[i], c) /\ p[i].chunk = q[i].chunk
    BY <1>2, <1>3, <1>6
  <2>2. q[i].chunk \in (r + 1)..n
    BY <2>1 DEF Run
  <2>3. CASE j \in 1..Len(q) /\ IsData(q[j], c) /\ p[j].chunk = q[j].chunk
    BY <1>6, <2>1, <2>3 DEF Run
  <2>4. CASE p[j].chunk = n + 1
    BY <2>1, <2>2, <2>4
  <2> QED
    BY <1>3, <1>6, <2>3, <2>4
<1>7. Run(p, c, r, n + 1)
  BY <1>4, <1>5, <1>6 DEF Run
<1> QED
  BY <1>7 DEF m, p

\* A message that is no data of c is taken without changing the run.
LEMMA RunTailOther ==
  ASSUME NEW q \in Seq(Messages), q # <<>>, NEW c, ~IsData(Head(q), c),
         NEW r \in Nat, NEW n \in Nat, Run(q, c, r, n)
  PROVE  Run(Tail(q), c, r, n)
<1> DEFINE p == Tail(q)
<1>1. /\ Len(q) \in Nat /\ Len(q) >= 1 /\ Len(p) = Len(q) - 1
      /\ \A i \in 1..Len(p) : p[i] = q[i + 1] /\ i + 1 \in 1..Len(q)
      /\ ~IsData(q[1], c)
  BY QueueTail
<1> HIDE DEF p
<1>2. \A i \in 1..Len(q) : IsData(q[i], c) => i - 1 \in 1..Len(p) /\ p[i - 1] = q[i]
  BY <1>1
<1>3. ASSUME NEW k \in (r + 1)..n
      PROVE  \E i \in 1..Len(p) : IsData(p[i], c) /\ p[i].chunk = k
  <2>1. PICK i \in 1..Len(q) : IsData(q[i], c) /\ q[i].chunk = k
    BY DEF Run
  <2> QED
    BY <1>2, <2>1
<1>4. ASSUME NEW i \in 1..Len(p), NEW j \in 1..Len(p),
             IsData(p[i], c), IsData(p[j], c), i < j
      PROVE  p[i].chunk < p[j].chunk
  <2>1. /\ i + 1 \in 1..Len(q) /\ j + 1 \in 1..Len(q) /\ i + 1 < j + 1
        /\ p[i] = q[i + 1] /\ p[j] = q[j + 1]
    BY <1>1, <1>4
  <2> QED
    BY <2>1, <1>4 DEF Run
<1>5. \A i \in 1..Len(p) : IsData(p[i], c) => p[i].chunk \in (r + 1)..n
  BY <1>1 DEF Run
<1>6. Run(p, c, r, n)
  BY <1>3, <1>4, <1>5 DEF Run
<1> QED
  BY <1>6 DEF p

\* The first data of c in the queue is the chunk that comes next.
LEMMA RunTailData ==
  ASSUME NEW q \in Seq(Messages), q # <<>>, NEW c, IsData(Head(q), c),
         NEW r \in Nat, NEW n \in Nat, Run(q, c, r, n)
  PROVE  /\ Head(q).chunk = r + 1 /\ r + 1 <= n
         /\ Run(Tail(q), c, r + 1, n)
<1> DEFINE p == Tail(q)
<1>1. /\ Len(q) \in Nat /\ Len(q) >= 1 /\ Len(p) = Len(q) - 1
      /\ \A i \in 1..Len(p) : p[i] = q[i + 1] /\ i + 1 \in 1..Len(q)
      /\ IsData(q[1], c) /\ Head(q) = q[1] /\ 1 \in 1..Len(q)
  BY QueueTail
<1> HIDE DEF p
<1>2. q[1].chunk \in (r + 1)..n
  BY <1>1 DEF Run
<1>3. q[1].chunk = r + 1
  <2>1. r + 1 \in (r + 1)..n
    BY <1>2
  <2>2. PICK i \in 1..Len(q) : IsData(q[i], c) /\ q[i].chunk = r + 1
    BY <2>1 DEF Run
  <2>3. CASE i = 1
    BY <2>2, <2>3
  <2>4. CASE 1 < i
    BY <1>1, <1>2, <2>2, <2>4 DEF Run
  <2> QED
    BY <2>3, <2>4, <1>1
<1>4. ASSUME NEW i \in 1..Len(p), IsData(p[i], c)
      PROVE  p[i].chunk \in (r + 2)..n
  <2>1. i + 1 \in 1..Len(q) /\ IsData(q[i + 1], c) /\ p[i] = q[i + 1] /\ 1 < i + 1
    BY <1>1, <1>4
  <2>2. q[1].chunk < q[i + 1].chunk /\ q[i + 1].chunk \in (r + 1)..n
    BY <1>1, <2>1 DEF Run
  <2> QED
    BY <1>3, <2>1, <2>2
<1>5. ASSUME NEW k \in (r + 2)..n
      PROVE  \E i \in 1..Len(p) : IsData(p[i], c) /\ p[i].chunk = k
  <2>1. PICK i \in 1..Len(q) : IsData(q[i], c) /\ q[i].chunk = k
    BY DEF Run
  <2>2. i # 1
    BY <1>3, <2>1
  <2>3. i - 1 \in 1..Len(p) /\ p[i - 1] = q[i]
    BY <1>1, <2>2
  <2> QED
    BY <2>1, <2>3
<1>6. ASSUME NEW i \in 1..Len(p), NEW j \in 1..Len(p),
             IsData(p[i], c), IsData(p[j], c), i < j
      PROVE  p[i].chunk < p[j].chunk
  <2>1. /\ i + 1 \in 1..Len(q) /\ j + 1 \in 1..Len(q) /\ i + 1 < j + 1
        /\ p[i] = q[i + 1] /\ p[j] = q[j + 1]
    BY <1>1, <1>6
  <2> QED
    BY <2>1, <1>6 DEF Run
<1>7. Run(p, c, r + 1, n)
  <2>1. r + 1 + 1 = r + 2
    OBVIOUS
  <2> QED
    BY <1>4, <1>5, <1>6, <2>1 DEF Run
<1> QED
  BY <1>1, <1>2, <1>3, <1>7 DEF p
\* What a change of a queue from q to p leaves true.
FromOld(q, p) ==
  \A i \in 1..Len(p) :
    p[i].type # "error" => \E j \in 1..Len(q) : q[j] = p[i]
KeepsRequest(q, p, c) ==
  /\ Announced(q, c) => Announced(p, c)
  /\ Preceded(q, c) => Preceded(p, c)
KeepsRun(q, p, c) == \A r, n \in Nat : Run(q, c, r, n) => Run(p, c, r, n)

\* An added message disturbs nothing of a connection that it is not about.
LEMMA AppendKeeps ==
  ASSUME NEW q \in Seq(Messages), NEW m \in Messages, NEW c \in Conns
  PROVE  /\ Announced(q, c) => Announced(Append(q, m), c)
         /\ Preceded(q, c) /\ (IsData(m, c) => Announced(q, c))
              => Preceded(Append(q, m), c)
         /\ OneRequest(q, c) /\ (IsConnect(m, c) => ~Announced(q, c))
              => OneRequest(Append(q, m), c)
         /\ ~IsData(m, c) => KeepsRun(q, Append(q, m), c)
<1> DEFINE p == Append(q, m)
<1>1. /\ Len(p) = Len(q) + 1 /\ Len(q) \in Nat
      /\ \A i \in 1..Len(q) : p[i] = q[i] /\ i \in 1..Len(p)
      /\ p[Len(q) + 1] = m /\ Len(q) + 1 \in 1..Len(p)
      /\ \A i \in 1..Len(p) : i \in 1..Len(q) \/ i = Len(q) + 1
  <2>1. /\ Len(p) = Len(q) + 1 /\ Len(q) \in Nat
        /\ \A i \in 1..Len(q) : p[i] = q[i]
        /\ p[Len(q) + 1] = m
    BY QueueAppend
  <2> HIDE DEF p
  <2> QED
    BY <2>1
<1> HIDE DEF p
<1>2. Announced(q, c) => Announced(p, c)
  BY <1>1 DEF Announced
<1>3. ASSUME Preceded(q, c), IsData(m, c) => Announced(q, c)
      PROVE  Preceded(p, c)
  <2> SUFFICES ASSUME NEW i \in 1..Len(p), IsData(p[i], c)
               PROVE  \E j \in 1..Len(p) : j < i /\ IsConnect(p[j], c)
    BY DEF Preceded
  <2>1. CASE i \in 1..Len(q)
    <3>1. PICK j \in 1..Len(q) : j < i /\ IsConnect(q[j], c)
      BY <1>1, <1>3, <2>1 DEF Preceded
    <3> QED
      BY <1>1, <3>1
  <2>2. CASE i = Len(q) + 1
    <3>1. PICK j \in 1..Len(q) : IsConnect(q[j], c)
      BY <1>1, <1>3, <2>2 DEF Announced
    <3>2. j < i
      BY <1>1, <2>2
    <3> QED
      BY <1>1, <3>1, <3>2
  <2> QED
    BY <1>1, <2>1, <2>2
<1>4. ASSUME OneRequest(q, c), IsConnect(m, c) => ~Announced(q, c)
      PROVE  OneRequest(p, c)
  BY <1>1, <1>4 DEF OneRequest, Announced
<1>5. ASSUME ~IsData(m, c) PROVE KeepsRun(q, Append(q, m), c)
  BY <1>5, RunAppendOther DEF KeepsRun
<1> QED
  BY <1>2, <1>3, <1>4, <1>5 DEF p

\* Nor does a taken one.
LEMMA TailKeeps ==
  ASSUME NEW q \in Seq(Messages), q # <<>>, NEW c \in Conns
  PROVE  /\ ~IsConnect(Head(q), c) => KeepsRequest(q, Tail(q), c)
         /\ OneRequest(q, c) => OneRequest(Tail(q), c)
         /\ OneRequest(q, c) /\ IsConnect(Head(q), c) => ~Announced(Tail(q), c)
         /\ Preceded(q, c) => ~IsData(Head(q), c)
         /\ ~IsData(Head(q), c) => KeepsRun(q, Tail(q), c)
<1> DEFINE p == Tail(q)
<1>1. /\ Len(q) \in Nat /\ Len(q) >= 1 /\ Len(p) = Len(q) - 1
      /\ \A i \in 1..Len(p) : p[i] = q[i + 1] /\ i + 1 \in 1..Len(q)
      /\ \A i \in 1..Len(q) : i = 1 \/ (i - 1 \in 1..Len(p) /\ p[i - 1] = q[i])
      /\ Head(q) = q[1] /\ 1 \in 1..Len(q)
  <2>1. /\ Len(q) \in Nat /\ Len(q) >= 1 /\ Len(p) = Len(q) - 1
        /\ \A i \in 1..Len(p) : p[i] = q[i + 1]
        /\ Head(q) = q[1]
    BY QueueTail
  <2> HIDE DEF p
  <2> QED
    BY <2>1
<1> HIDE DEF p
<1>2. ASSUME ~IsConnect(Head(q), c), Announced(q, c) PROVE Announced(p, c)
  BY <1>1, <1>2 DEF Announced
<1>3. ASSUME ~IsConnect(Head(q), c), Preceded(q, c) PROVE Preceded(p, c)
  <2> SUFFICES ASSUME NEW i \in 1..Len(p), IsData(p[i], c)
               PROVE  \E j \in 1..Len(p) : j < i /\ IsConnect(p[j], c)
    BY DEF Preceded
  <2>1. PICK j \in 1..Len(q) : j < i + 1 /\ IsConnect(q[j], c)
    BY <1>1, <1>3 DEF Preceded
  <2>2. j - 1 \in 1..Len(p) /\ p[j - 1] = q[j] /\ j - 1 < i
    BY <1>1, <1>3, <2>1
  <2> QED
    BY <2>1, <2>2
<1>4. ASSUME OneRequest(q, c) PROVE OneRequest(p, c)
  <2> SUFFICES ASSUME NEW i \in 1..Len(p), NEW j \in 1..Len(p),
                      IsConnect(p[i], c), IsConnect(p[j], c)
               PROVE  i = j
    BY DEF OneRequest
  <2>1. i + 1 = j + 1
    BY <1>1, <1>4 DEF OneRequest
  <2> QED
    BY <2>1
<1>5. ASSUME OneRequest(q, c), IsConnect(Head(q), c) PROVE ~Announced(p, c)
  <2> SUFFICES ASSUME NEW i \in 1..Len(p), IsConnect(p[i], c) PROVE FALSE
    BY DEF Announced
  <2>1. i + 1 = 1
    BY <1>1, <1>5 DEF OneRequest
  <2> QED
    BY <2>1
<1>6. Preceded(q, c) => ~IsData(Head(q), c)
  BY <1>1 DEF Preceded
<1>7. ASSUME ~IsData(Head(q), c) PROVE KeepsRun(q, Tail(q), c)
  BY <1>7, RunTailOther DEF KeepsRun
<1> QED
  BY <1>2, <1>3, <1>4, <1>5, <1>6, <1>7 DEF p, KeepsRequest

\* Messages other than errors come from where they were.
LEMMA QueuesFromOld ==
  ASSUME NEW q \in Seq(Messages)
  PROVE  /\ FromOld(q, q)
         /\ FromOld(q, <<>>)
         /\ \A m \in Messages : m.type = "error" => FromOld(q, Append(q, m))
         /\ q # <<>> => FromOld(q, Tail(q))
<1>1. FromOld(q, q)
  BY DEF FromOld
<1>2. FromOld(q, <<>>)
  BY DEF FromOld
<1>3. ASSUME NEW m \in Messages, m.type = "error" PROVE FromOld(q, Append(q, m))
  <2> DEFINE p == Append(q, m)
  <2>1. /\ Len(p) = Len(q) + 1 /\ Len(q) \in Nat
        /\ \A i \in 1..Len(q) : p[i] = q[i]
        /\ p[Len(q) + 1] = m
    BY QueueAppend
  <2> HIDE DEF p
  <2>2. FromOld(q, p)
    BY <1>3, <2>1 DEF FromOld
  <2> QED
    BY <2>2 DEF p
<1>4. ASSUME q # <<>> PROVE FromOld(q, Tail(q))
  <2> DEFINE p == Tail(q)
  <2>1. /\ Len(q) \in Nat /\ Len(q) >= 1 /\ Len(p) = Len(q) - 1
        /\ \A i \in 1..Len(p) : p[i] = q[i + 1]
    BY <1>4, QueueTail
  <2> HIDE DEF p
  <2>2. FromOld(q, p)
    BY <2>1 DEF FromOld
  <2> QED
    BY <2>2 DEF p
<1> QED
  BY <1>1, <1>2, <1>3, <1>4

\* An empty queue owes nothing.
LEMMA EmptyQueue ==
  ASSUME NEW c \in Conns
  PROVE  /\ Preceded(<<>>, c) /\ OneRequest(<<>>, c)
         /\ \A r \in Nat : Run(<<>>, c, r, r)
  BY DEF Preceded, OneRequest, Run
-----------------------------------------------------------------------------
(* What changes of the queues leave true *)

\* The peer of a side is the other one.
LEMMA PeerIsOther ==
  ASSUME NEW x \in Sides
  PROVE  Peer(x) \in Sides /\ Peer(x) # x /\ Peer(Peer(x)) = x
  BY DEF Peer, Sides

\* The counts of a direction are numbers.
LEMMA CountsTyped ==
  ASSUME TypeOK, NEW y \in Sides, NEW c \in Conns
  PROVE  /\ Len(got[y][c]) \in Nat /\ Len(buf[y][c]) \in Nat
         /\ Received(y, c) \in Nat /\ Posted(Peer(y), c) \in Int
<1>1. /\ got[y][c] \in Seq(Nat) /\ buf[y][c] \in Seq(Nat)
      /\ wrote[Peer(y)][c] \in Nat /\ pending[Peer(y)][c] \in BOOLEAN
  BY PeerIsOther DEF TypeOK
<1>2. Len(got[y][c]) \in Nat /\ Len(buf[y][c]) \in Nat
  BY <1>1
<1>3. \/ Posted(Peer(y), c) = wrote[Peer(y)][c] - 1
      \/ Posted(Peer(y), c) = wrote[Peer(y)][c]
  BY DEF Posted
<1>4. Received(y, c) \in Nat
  <2> DEFINE g == Len(got[y][c])
             b == Len(buf[y][c])
  <2>1. g \in Nat /\ b \in Nat
    BY <1>2
  <2> HIDE DEF g, b
  <2>2. g + b \in Nat
    BY <2>1
  <2> QED
    BY <2>2 DEF g, b, Received
<1>5. wrote[Peer(y)][c] - 1 \in Int /\ wrote[Peer(y)][c] \in Int
  BY <1>1
<1>6. Posted(Peer(y), c) \in Int
  BY <1>3, <1>5
<1> QED
  BY <1>2, <1>4, <1>6

\* The queue of session s towards y has been emptied, and nothing will enter it.
Cut(s, y) == net'[s][y] = <<>> /\ link'[s] # "up"

\* A direction whose queue keeps its run, or is cut, keeps its promise.
LEMMA GapKept ==
  ASSUME TypeOK, TypeOK', NEW y \in Sides, NEW c \in Conns, GapAt(y, c),
         via'[c] = via[c],
         ~Shut(y, c)' => ~Shut(y, c),
         ~Shut(y, c)' /\ via[c] # NoSession =>
           /\ Received(y, c)' = Received(y, c)
           /\ Posted(Peer(y), c)' \in Nat
           /\ Posted(Peer(y), c)' >= Posted(Peer(y), c)
           /\ link'[via[c]] = "up" =>
                link[via[c]] = "up" /\ Posted(Peer(y), c)' = Posted(Peer(y), c)
           /\ \/ KeepsRun(net[via[c]][y], net'[via[c]][y], c)
              \/ Cut(via[c], y)
  PROVE  GapAt(y, c)'
<1> SUFFICES ASSUME ~Shut(y, c)', via[c] # NoSession
             PROVE  \E m \in Received(y, c)'..Posted(Peer(y), c)' :
                      /\ Run(net'[via[c]][y], c, Received(y, c)', m)
                      /\ link'[via[c]] = "up" => m = Posted(Peer(y), c)'
  BY DEF GapAt
<1>1. PICK m \in Received(y, c)..Posted(Peer(y), c) :
        /\ Run(net[via[c]][y], c, Received(y, c), m)
        /\ link[via[c]] = "up" => m = Posted(Peer(y), c)
  BY DEF GapAt
<1>2. Received(y, c) \in Nat /\ Posted(Peer(y), c) \in Int
  BY CountsTyped
<1>3. m \in Nat
  BY <1>1, <1>2
<1>4. CASE KeepsRun(net[via[c]][y], net'[via[c]][y], c)
  <2>1. Run(net'[via[c]][y], c, Received(y, c), m)
    BY <1>1, <1>2, <1>3, <1>4 DEF KeepsRun
  <2>2. m \in Received(y, c)'..Posted(Peer(y), c)'
    BY <1>1, <1>2, <1>3
  <2> QED
    BY <1>1, <2>1, <2>2
<1>5. CASE Cut(via[c], y)
  <2>1. Run(net'[via[c]][y], c, Received(y, c), Received(y, c))
    BY <1>2, <1>5, EmptyQueue DEF Cut
  <2>2. Received(y, c) \in Received(y, c)'..Posted(Peer(y), c)'
    BY <1>1, <1>2
  <2> QED
    BY <1>5, <2>1, <2>2 DEF Cut
<1> QED
  BY <1>4, <1>5

\* A queue that keeps its requests, or is cut or no longer read, keeps them ahead.
LEMMA RequestKept ==
  ASSUME TypeOK, NEW c \in Conns, RequestAt(c),
         via'[c] = via[c],
         dial'[c] = "returned" => dial[c] = "returned",
         end'["client"][c] = "none" => end["client"][c] = "none",
         dial'[c] = "returned" /\ serving'[via[c]]["client"] = "on" =>
           /\ serving[via[c]]["client"] = "on"
           /\ link'[via[c]] = "up" => link[via[c]] = "up"
           /\ \/ KeepsRequest(net[via[c]]["client"], net'[via[c]]["client"], c)
              \/ Cut(via[c], "client")
  PROVE  RequestAt(c)'
<1> SUFFICES ASSUME dial'[c] = "returned", end'["client"][c] = "none",
                    serving'[via[c]]["client"] = "on"
             PROVE  LET p == net'[via[c]]["client"]
                    IN  Preceded(p, c) /\ (link'[via[c]] = "up" => Announced(p, c))
  BY DEF RequestAt
<1>1. CASE KeepsRequest(net[via[c]]["client"], net'[via[c]]["client"], c)
  BY <1>1 DEF RequestAt, KeepsRequest
<1>2. CASE Cut(via[c], "client")
  BY <1>2, EmptyQueue DEF Cut
<1> QED
  BY <1>1, <1>2

\* Queues that take in nothing but errors carry their own messages.
LEMMA OwnKept ==
  ASSUME TypeOK, TypeOK', OwnMessages, UNCHANGED via,
         \A c \in Conns :
           dial[c] = "returned" /\ end["client"][c] = "none" =>
             \/ dial'[c] = "returned" /\ end'["client"][c] = "none"
             \/ \A s \in Sessions : ~Announced(net'[s]["client"], c),
         \A s \in Sessions, y \in Sides :
           /\ FromOld(net[s][y], net'[s][y])
           /\ \A c \in Conns : OneRequest(net[s][y], c) => OneRequest(net'[s][y], c)
  PROVE  OwnMessages'
<1> SUFFICES ASSUME NEW s \in Sessions, NEW y \in Sides,
                    NEW i \in 1..Len(net'[s][y]), net'[s][y][i].type # "error"
             PROVE  LET m == net'[s][y][i] IN
                    /\ via[m.conn] = s
                    /\ m.type = "connect" =>
                         /\ y = "client" /\ dial'[m.conn] = "returned"
                         /\ end'["client"][m.conn] = "none"
  BY DEF OwnMessages
<1> DEFINE m == net'[s][y][i]
<1>1. PICK j \in 1..Len(net[s][y]) : net[s][y][j] = m
  BY DEF FromOld
<1>2. via[m.conn] = s
  BY <1>1 DEF OwnMessages
<1>3. ASSUME m.type = "connect"
      PROVE  y = "client" /\ dial'[m.conn] = "returned" /\ end'["client"][m.conn] = "none"
  <2>1. y = "client" /\ dial[m.conn] = "returned" /\ end["client"][m.conn] = "none"
    BY <1>1, <1>3 DEF OwnMessages
  <2>2. m \in Messages /\ m.conn \in Conns
    <3>1. net'[s][y] \in Seq(Messages)
      BY DEF TypeOK
    <3>2. m \in Messages
      BY <3>1
    <3> HIDE DEF m
    <3> QED
      BY <3>2 DEF Messages
  <2>3. Announced(net'[s]["client"], m.conn)
    BY <1>3, <2>1 DEF Announced, IsConnect
  <2> HIDE DEF m
  <2> QED
    BY <2>1, <2>2, <2>3
<1> QED
  BY <1>2, <1>3

-----------------------------------------------------------------------------
(* Errors on the websocket *)

\* Websockets carry messages.
NetType == [Sessions -> [Sides -> Seq(Messages)]]

\* A write of an error to a queue that side y of session r reads.
LEMMA ErrorWritten ==
  ASSUME NEW n \in NetType,
         NEW s \in Sessions, NEW x \in Sides, NEW c \in Conns, NEW e \in Errors,
         WriteMessage(s, x, n, Error(c, e))
  PROVE  \A r \in Sessions, y \in Sides :
           \/ net'[r][y] = n[r][y]
           \/ /\ y = Peer(x) /\ r = s
              /\ \E m \in Messages : m.type = "error" /\ net'[r][y] = Append(n[r][y], m)
<1>1. Error(c, e) \in Messages /\ Error(c, e).type = "error"
  BY DEF Messages, Error
<1>2. \/ net' = n
      \/ net' = [n EXCEPT ![s][Peer(x)] = Append(@, Error(c, e))]
  BY DEF WriteMessage
<1> SUFFICES ASSUME NEW r \in Sessions, NEW y \in Sides
             PROVE  \/ net'[r][y] = n[r][y]
                    \/ /\ y = Peer(x) /\ r = s
                       /\ net'[r][y] = Append(n[r][y], Error(c, e))
  BY <1>1
<1>3. CASE net' = n
  BY <1>3
<1>4. CASE net' = [n EXCEPT ![s] =
                     [n[s] EXCEPT ![Peer(x)] = Append(n[s][Peer(x)], Error(c, e))]]
  <2>1. CASE r # s
    BY <1>4, <2>1 DEF NetType
  <2>2. CASE r = s
    <3>1. net'[r] = [n[s] EXCEPT ![Peer(x)] = Append(n[s][Peer(x)], Error(c, e))]
      BY <1>4, <2>2 DEF NetType
    <3> QED
      BY <2>2, <3>1 DEF NetType
  <2> QED
    BY <2>1, <2>2
<1> QED
  BY <1>2, <1>3, <1>4

\* An added error leaves everything the invariant says of a queue.
LEMMA ErrorHarmless ==
  ASSUME NEW q \in Seq(Messages), NEW m \in Messages, m.type = "error"
  PROVE  /\ FromOld(q, Append(q, m))
         /\ \A c \in Conns : /\ OneRequest(q, c) => OneRequest(Append(q, m), c)
                             /\ KeepsRequest(q, Append(q, m), c)
                             /\ KeepsRun(q, Append(q, m), c)
<1>1. \A c \in Conns : ~IsData(m, c) /\ ~IsConnect(m, c)
  BY DEF IsData, IsConnect
<1> QED
  BY <1>1, QueuesFromOld, AppendKeeps DEF KeepsRequest

\* A queue that is left alone keeps what it has.
LEMMA SameKeeps ==
  ASSUME NEW q \in Seq(Messages)
  PROVE  /\ FromOld(q, q)
         /\ \A c \in Conns : KeepsRequest(q, q, c) /\ KeepsRun(q, q, c)
  BY QueuesFromOld DEF KeepsRequest, KeepsRun
-----------------------------------------------------------------------------
(* Types *)

\* Messages of the three kinds.
LEMMA MessageTypes ==
  /\ \A c \in Conns, k \in Nat : Data(c, k) \in Messages
  /\ \A c \in Conns : Connect(c) \in Messages
  /\ \A c \in Conns, e \in Errors : Error(c, e) \in Messages
  /\ \A m \in Messages :
       /\ m.conn \in Conns
       /\ m.type = "data" => m.chunk \in Nat
       /\ m.type = "error" => m.err \in Errors
<1>1. \A c \in Conns, k \in Nat : Data(c, k) \in Messages
  BY DEF Data, Messages
<1>2. \A c \in Conns : Connect(c) \in Messages
  BY DEF Connect, Messages
<1>3. \A c \in Conns, e \in Errors : Error(c, e) \in Messages
  BY DEF Error, Messages
<1>4. \A m \in Messages :
       /\ m.conn \in Conns
       /\ m.type = "data" => m.chunk \in Nat
       /\ m.type = "error" => m.err \in Errors
  BY DEF Messages
<1> QED
  BY <1>1, <1>2, <1>3, <1>4

\* A write keeps the websockets carrying messages.
LEMMA WriteTyped ==
  ASSUME NEW n \in NetType, NEW s \in Sessions, NEW x \in Sides,
         NEW m \in Messages, WriteMessage(s, x, n, m)
  PROVE  net' \in NetType
<1>1. CASE net' = n
  BY <1>1
<1>2. CASE net' = [n EXCEPT ![s][Peer(x)] = Append(@, m)]
  <2>1. n[s] \in [Sides -> Seq(Messages)] /\ Peer(x) \in Sides
    BY PeerIsOther DEF NetType
  <2>2. Append(n[s][Peer(x)], m) \in Seq(Messages)
    BY <2>1
  <2> DEFINE p == Append(n[s][Peer(x)], m)
  <2>3. net' = [n EXCEPT ![s] = [n[s] EXCEPT ![Peer(x)] = p]]
    BY <1>2
  <2> HIDE DEF p
  <2>4. [n[s] EXCEPT ![Peer(x)] = p] \in [Sides -> Seq(Messages)]
    BY <2>1, <2>2 DEF p
  <2> QED
    BY <2>3, <2>4 DEF NetType
<1> QED
  BY <1>1, <1>2 DEF WriteMessage

\* A message that is taken is the first of its queue.
LEMMA TakenTyped ==
  ASSUME net \in NetType, NEW s \in Sessions, NEW x \in Sides, net[s][x] # <<>>
  PROVE  /\ Taken(s, x) \in NetType
         /\ Head(net[s][x]) \in Messages
         /\ \A r \in Sessions, y \in Sides :
              Taken(s, x)[r][y] = IF r = s /\ y = x THEN Tail(net[s][x]) ELSE net[r][y]
<1>1. net[s] \in [Sides -> Seq(Messages)] /\ net[s][x] \in Seq(Messages)
  BY DEF NetType
<1>2. Tail(net[s][x]) \in Seq(Messages) /\ Head(net[s][x]) \in Messages
  BY <1>1
<1> DEFINE p == Tail(net[s][x])
<1>3. Taken(s, x) = [net EXCEPT ![s] = [net[s] EXCEPT ![x] = p]]
  BY DEF Taken
<1> HIDE DEF p
<1>4. [net[s] EXCEPT ![x] = p] \in [Sides -> Seq(Messages)]
  BY <1>1, <1>2 DEF p
<1>5. Taken(s, x) \in NetType
  BY <1>3, <1>4 DEF NetType
<1>6. ASSUME NEW r \in Sessions, NEW y \in Sides
      PROVE  Taken(s, x)[r][y] = IF r = s /\ y = x THEN p ELSE net[r][y]
  <2>1. CASE r # s
    BY <1>3, <2>1 DEF NetType
  <2>2. CASE r = s
    BY <1>1, <1>3, <2>2 DEF NetType
  <2> QED
    BY <2>1, <2>2
<1> QED
  BY <1>2, <1>5, <1>6 DEF p

\* The variables of the ends, and those of a connection.
EndTypes ==
  /\ conns \in [Sides -> SUBSET Conns]
  /\ end \in [Sides -> [Conns -> {"none", "open"} \cup Errors]]
CloseTypes ==
  /\ closing \in [Sides -> [Conns -> {"none", "tell", "shut"}]]
  /\ closer \in [Sides -> [Conns -> {"none"} \cup Closers]]
  /\ reason \in [Sides -> [Conns -> Errors]]
IoTypes ==
  /\ buf \in [Sides -> [Conns -> Seq(Nat)]]
  /\ wrote \in [Sides -> [Conns -> Nat]]
  /\ pending \in [Sides -> [Conns -> BOOLEAN]]
  /\ got \in [Sides -> [Conns -> Seq(Nat)]]
  /\ seen \in [Sides -> [Conns -> {"none"} \cup Errors]]
SessionTypes ==
  /\ serving \in [Sessions -> [Sides -> ServeStates]]
  /\ clients \subseteq Sessions
  /\ link \in [Sessions -> {"none", "up", "down"}]
DialTypes ==
  /\ dial \in [Conns -> {"idle", "got", "inserted", "returned", "refused"}]
  /\ via \in [Conns -> Sessions \cup {NoSession}]
  /\ pipe \in [Conns -> {"none", "dialing", "refusing", "copying", "closing", "done"}]
  /\ up \in [Conns -> {"on", "done"}]
  /\ down \in [Conns -> {"on"} \cup Errors]
  /\ byPeer \in SUBSET (Sides \X Conns)
  /\ late \in SUBSET Conns
  /\ due \in [Conns -> Nat]

\* Together they are TypeOK, before and after a step.
LEMMA TypesSplit ==
  TypeOK <=> /\ net \in NetType
             /\ EndTypes /\ CloseTypes /\ IoTypes /\ SessionTypes /\ DialTypes
  BY DEF TypeOK, NetType, EndTypes, CloseTypes, IoTypes, SessionTypes, DialTypes

LEMMA TypesJoined ==
  ASSUME net' \in NetType, EndTypes', CloseTypes', IoTypes', SessionTypes', DialTypes'
  PROVE  TypeOK'
  BY DEF TypeOK, NetType, EndTypes, CloseTypes, IoTypes, SessionTypes, DialTypes

LEMMA TypesStill ==
  ASSUME TypeOK, UNCHANGED <<closing, closer, reason>>,
         net' \in NetType, EndTypes', IoTypes', SessionTypes', DialTypes'
  PROVE  TypeOK'
  BY TypesSplit, TypesJoined DEF CloseTypes

\* A close changes the end from open to an error, if at all.
LEMMA CloseTyped ==
  ASSUME EndTypes, NEW x \in Sides, NEW c \in Conns, NEW e \in Errors,
         DoTunnelClose(x, c, e)
  PROVE  /\ end' \in [Sides -> [Conns -> {"none", "open"} \cup Errors]]
         /\ \A y \in Sides, d \in Conns :
              end'[y][d] = IF y = x /\ d = c /\ end[x][c] = "open" THEN e
                           ELSE end[y][d]
<1>1. CASE end' = end
  BY <1>1 DEF EndTypes, DoTunnelClose, Errors
<1>2. CASE end[x][c] = "open" /\ end' = [end EXCEPT ![x] = [end[x] EXCEPT ![c] = e]]
  BY <1>2 DEF EndTypes
<1> QED
  BY <1>1, <1>2 DEF DoTunnelClose

\* One entry of a table of the ends is changed.
LEMMA EntryChanged ==
  ASSUME NEW S, NEW f \in [Sides -> [Conns -> S]], NEW x \in Sides, NEW c \in Conns,
         NEW v \in S
  PROVE  /\ [f EXCEPT ![x][c] = v] \in [Sides -> [Conns -> S]]
         /\ \A y \in Sides, d \in Conns :
              [f EXCEPT ![x][c] = v][y][d] = IF y = x /\ d = c THEN v ELSE f[y][d]
<1> DEFINE g == [f[x] EXCEPT ![c] = v]
<1>1. g \in [Conns -> S] /\ \A d \in Conns : g[d] = IF d = c THEN v ELSE f[x][d]
  OBVIOUS
<1>2. [f EXCEPT ![x][c] = v] = [f EXCEPT ![x] = g]
  OBVIOUS
<1> HIDE DEF g
<1>3. /\ [f EXCEPT ![x] = g] \in [Sides -> [Conns -> S]]
      /\ \A y \in Sides : [f EXCEPT ![x] = g][y] = IF y = x THEN g ELSE f[y]
  BY <1>1
<1> QED
  BY <1>1, <1>2, <1>3

\* Taking a connection out shuts its end.
LEMMA TakeOutTyped ==
  ASSUME EndTypes, CloseTypes, UNCHANGED end, NEW x \in Sides, NEW c \in Conns,
         NEW by \in Closers, NEW e \in Errors, TakeOut(x, c, by, e)
  PROVE  /\ EndTypes' /\ CloseTypes'
         /\ \A y \in Sides :
              conns'[y] = IF y = x THEN conns[y] \ {c} ELSE conns[y]
         /\ \A y \in Sides, d \in Conns :
              /\ closing'[y][d] = IF y = x /\ d = c THEN "tell" ELSE closing[y][d]
              /\ closer'[y][d] = IF y = x /\ d = c THEN by ELSE closer[y][d]
              /\ reason'[y][d] = IF y = x /\ d = c THEN e ELSE reason[y][d]
<1>1. /\ conns' = [conns EXCEPT ![x] = @ \ {c}]
      /\ closing' = [closing EXCEPT ![x][c] = "tell"]
      /\ closer' = [closer EXCEPT ![x][c] = by]
      /\ reason' = [reason EXCEPT ![x][c] = e]
  BY DEF TakeOut
<1>2. /\ conns' \in [Sides -> SUBSET Conns]
      /\ \A y \in Sides : conns'[y] = IF y = x THEN conns[y] \ {c} ELSE conns[y]
  BY <1>1 DEF EndTypes
<1>3. /\ closing' \in [Sides -> [Conns -> {"none", "tell", "shut"}]]
      /\ \A y \in Sides, d \in Conns :
           closing'[y][d] = IF y = x /\ d = c THEN "tell" ELSE closing[y][d]
  BY <1>1, EntryChanged DEF CloseTypes
<1>4. /\ closer' \in [Sides -> [Conns -> {"none"} \cup Closers]]
      /\ \A y \in Sides, d \in Conns :
           closer'[y][d] = IF y = x /\ d = c THEN by ELSE closer[y][d]
  BY <1>1, EntryChanged DEF CloseTypes
<1>5. /\ reason' \in [Sides -> [Conns -> Errors]]
      /\ \A y \in Sides, d \in Conns :
           reason'[y][d] = IF y = x /\ d = c THEN e ELSE reason[y][d]
  BY <1>1, EntryChanged DEF CloseTypes
<1> QED
  BY <1>2, <1>3, <1>4, <1>5 DEF EndTypes, CloseTypes

\* closeConnection: the end is as before, or it has left the map and is shut.
LEMMA CloseConnectionTyped ==
  ASSUME EndTypes, CloseTypes, UNCHANGED end, NEW s \in Sessions, NEW x \in Sides,
         NEW c \in Conns, NEW by \in Closers, NEW e \in Errors,
         CloseConnection(s, x, c, by, e)
  PROVE  /\ EndTypes' /\ CloseTypes'
         /\ \A y \in Sides, d \in Conns :
              \/ /\ d \in conns'[y] <=> d \in conns[y]
                 /\ closing'[y][d] = closing[y][d]
              \/ /\ y = x /\ d = c /\ d \in conns[y] /\ d \notin conns'[y]
                 /\ closing'[y][d] = "tell"
         /\ \A y \in Sides, d \in Conns :
              closer'[y][d] = closer[y][d] \/ (d = c /\ closer'[y][d] = by)
         /\ c \in conns[x] => closing'[x][c] = "tell"
<1>1. CASE c \notin conns[x]
  <2>1. UNCHANGED <<conns, closing, closer, reason>>
    BY <1>1 DEF CloseConnection, closeVars
  <2>2. EndTypes' /\ CloseTypes'
    BY <2>1 DEF EndTypes, CloseTypes
  <2> QED
    BY <1>1, <2>1, <2>2
<1>2. CASE c \in conns[x]
  <2>1. TakeOut(x, c, by, e)
    BY <1>2 DEF CloseConnection
  <2>2. /\ EndTypes' /\ CloseTypes'
        /\ \A y \in Sides :
             conns'[y] = IF y = x THEN conns[y] \ {c} ELSE conns[y]
        /\ \A y \in Sides, d \in Conns :
             /\ closing'[y][d] = IF y = x /\ d = c THEN "tell" ELSE closing[y][d]
             /\ closer'[y][d] = IF y = x /\ d = c THEN by ELSE closer[y][d]
    <3> HIDE DEF CloseTypes, EndTypes
    <3> QED
      BY <2>1, TakeOutTyped, SMTT(30)
  <2> QED
    BY <1>2, <2>2
<1> QED
  BY <1>1, <1>2
-----------------------------------------------------------------------------
(* Steps that send no data and no request *)

\* The queue of session s towards y is as before, has an error more at its end
\* or one less at its head, or is cut.
ErrorsOnly(s, y) ==
  \/ net'[s][y] = net[s][y]
  \/ \E m \in Messages : m.type = "error" /\ net'[s][y] = Append(net[s][y], m)
  \/ /\ net[s][y] # <<>> /\ Head(net[s][y]).type = "error"
     /\ net'[s][y] = Tail(net[s][y])
  \/ Cut(s, y)

\* Ends close, and no end of the client opens.
EndsClose ==
  \A c \in Conns :
    /\ \A y \in Sides : ~Shut(y, c)' => ~Shut(y, c)
    /\ end'["client"][c] = "none" <=> end["client"][c] = "none"
    /\ dial'[c] = "returned" <=> dial[c] = "returned"

\* No session that is in use comes back.
SessionsEnd ==
  \A s \in Sessions :
    link[s] # "none" =>
      /\ link'[s] = "up" => link[s] = "up"
      /\ serving'[s]["client"] = "on" => serving[s]["client"] = "on"

\* Nothing has been posted or received in a direction that goes on; a Write
\* may have been given up on a broken websocket.
CountsKept(y, c) ==
  ~Shut(y, c)' =>
    /\ Received(y, c)' = Received(y, c)
    /\ \/ Posted(Peer(y), c)' = Posted(Peer(y), c)
       \/ /\ Posted(Peer(y), c)' = Posted(Peer(y), c) + 1
          /\ link'[via[c]] # "up"

LEMMA ErrorsKeep ==
  ASSUME TypeOK, NEW s \in Sessions, NEW y \in Sides, ErrorsOnly(s, y)
  PROVE  /\ FromOld(net[s][y], net'[s][y])
         /\ \A c \in Conns :
              /\ OneRequest(net[s][y], c) => OneRequest(net'[s][y], c)
              /\ KeepsRequest(net[s][y], net'[s][y], c) \/ Cut(s, y)
              /\ KeepsRun(net[s][y], net'[s][y], c) \/ Cut(s, y)
<1>1. net[s][y] \in Seq(Messages)
  BY DEF TypeOK
<1>2. CASE net'[s][y] = net[s][y]
  BY <1>1, <1>2, SameKeeps
<1>3. ASSUME NEW m \in Messages, m.type = "error",
             net'[s][y] = Append(net[s][y], m)
      PROVE  /\ FromOld(net[s][y], net'[s][y])
             /\ \A c \in Conns :
                  /\ OneRequest(net[s][y], c) => OneRequest(net'[s][y], c)
                  /\ KeepsRequest(net[s][y], net'[s][y], c)
                  /\ KeepsRun(net[s][y], net'[s][y], c)
  BY <1>1, <1>3, ErrorHarmless
<1>4. CASE /\ net[s][y] # <<>> /\ Head(net[s][y]).type = "error"
           /\ net'[s][y] = Tail(net[s][y])
  <2>1. \A c \in Conns : /\ ~IsData(Head(net[s][y]), c)
                         /\ ~IsConnect(Head(net[s][y]), c)
    BY <1>4 DEF IsData, IsConnect
  <2> QED
    BY <1>1, <1>4, <2>1, TailKeeps, QueuesFromOld
<1>5. CASE Cut(s, y)
  BY <1>1, <1>5, QueuesFromOld, EmptyQueue DEF Cut
<1> QED
  BY <1>2, <1>3, <1>4, <1>5 DEF ErrorsOnly

\* Such steps leave what the invariant says of the queues.
LEMMA QueuesKept ==
  ASSUME TunnelInv, TypeOK', UNCHANGED via, EndsClose, SessionsEnd,
         \A s \in Sessions, y \in Sides : ErrorsOnly(s, y),
         \A y \in Sides, c \in Conns : CountsKept(y, c)
  PROVE  OwnMessages' /\ RequestFirst' /\ NoGap'
<1>1. /\ TypeOK /\ SessionLife /\ ConnLife /\ OwnMessages
      /\ \A c \in Conns : RequestAt(c)
      /\ \A y \in Sides, c \in Conns : GapAt(y, c)
  BY DEF TunnelInv, RequestFirst, NoGap
<1>2. \A s \in Sessions, y \in Sides :
        /\ FromOld(net[s][y], net'[s][y])
        /\ \A c \in Conns :
             /\ OneRequest(net[s][y], c) => OneRequest(net'[s][y], c)
             /\ KeepsRequest(net[s][y], net'[s][y], c) \/ Cut(s, y)
             /\ KeepsRun(net[s][y], net'[s][y], c) \/ Cut(s, y)
  BY <1>1, ErrorsKeep
<1>3. \A c \in Conns : via[c] # NoSession =>
        via[c] \in Sessions /\ link[via[c]] # "none"
  BY <1>1 DEF TypeOK, SessionLife
<1>4. OwnMessages'
  BY <1>1, <1>2, OwnKept DEF EndsClose
<1>5. ASSUME NEW c \in Conns PROVE RequestAt(c)'
  <2>1. dial[c] = "returned" => via[c] \in Sessions /\ link[via[c]] # "none"
    BY <1>1, <1>3 DEF ConnLife
  <2> QED
    BY <1>1, <1>2, <2>1, RequestKept DEF EndsClose, SessionsEnd, Sides
<1>6. ASSUME NEW y \in Sides, NEW c \in Conns PROVE GapAt(y, c)'
  <2>1. Posted(Peer(y), c) \in Int /\ Received(y, c) \in Nat
    BY <1>1, CountsTyped
  <2>2. CASE Shut(y, c)' \/ via[c] = NoSession
    BY <2>2 DEF GapAt
  <2>3. CASE ~Shut(y, c)' /\ via[c] # NoSession
    <3>1. ~Shut(y, c)
      BY <2>3 DEF EndsClose
    <3>2. PICK m \in Received(y, c)..Posted(Peer(y), c) : TRUE
      BY <1>1, <2>3, <3>1 DEF GapAt
    <3>3. Posted(Peer(y), c) \in Nat
      BY <2>1, <3>2
    <3>4. /\ Received(y, c)' = Received(y, c)
          /\ Posted(Peer(y), c)' \in Nat
          /\ Posted(Peer(y), c)' >= Posted(Peer(y), c)
          /\ link'[via[c]] = "up" => Posted(Peer(y), c)' = Posted(Peer(y), c)
      BY <2>3, <3>3 DEF CountsKept
    <3>5. link'[via[c]] = "up" => link[via[c]] = "up"
      BY <1>3, <2>3 DEF SessionsEnd
    <3> QED
      BY <1>1, <1>2, <1>3, <2>3, <3>1, <3>4, <3>5, GapKept
  <2> QED
    BY <2>2, <2>3
<1> QED
  BY <1>4, <1>5, <1>6 DEF RequestFirst, NoGap
\* The steps of a session that leave its connections alone.
LEMMA SessionStepsInv ==
  ASSUME TunnelInv, NEW s \in Sessions, NEW x \in Sides,
         \/ OpenSession(s) \/ LinkBreaks(s) \/ ServeFails(s, x)
         \/ StartClose(s, x) \/ EndClose(s, x)
  PROVE  TunnelInv'
<1>1. /\ net \in NetType /\ EndTypes /\ IoTypes /\ SessionTypes /\ DialTypes
      /\ CloseTypes /\ SessionLife /\ ConnLife /\ InOrder /\ TypeOK
  BY TypesSplit DEF TunnelInv
<1>2. /\ UNCHANGED <<dial, via, late, buf, wrote, pending, got, seen, pipe, up, down,
                     conns, end, closing, closer, reason, byPeer, due>>
      /\ clients' \subseteq clients \/ OpenSession(s)
  BY DEF OpenSession, LinkBreaks, ServeFails, StartClose, EndClose, connVars,
    dialVars, ioVars, pipeVars, closeVars
<1>3. /\ net' \in NetType
      /\ \A r \in Sessions, y \in Sides : ErrorsOnly(r, y)
  <2>1. CASE UNCHANGED net
    BY <1>1, <2>1 DEF ErrorsOnly
  <2>2. CASE LinkBreaks(s)
    <3>1. /\ net' = [net EXCEPT ![s] = [y \in Sides |-> <<>>]]
          /\ link' = [link EXCEPT ![s] = "down"]
      BY <2>2 DEF LinkBreaks
    <3>2. <<>> \in Seq(Messages)
      OBVIOUS
    <3>3. net' \in NetType
      BY <1>1, <3>1, <3>2 DEF NetType
    <3>4. \A r \in Sessions, y \in Sides : net'[r][y] = net[r][y] \/ Cut(r, y)
      BY <1>1, <3>1 DEF NetType, SessionTypes, Cut
    <3> QED
      BY <3>3, <3>4 DEF ErrorsOnly
  <2>3. CASE EndClose(s, x) /\ x = "client"
    <3>1. /\ net' = [net EXCEPT ![s] = [net[s] EXCEPT !["client"] = <<>>]]
          /\ link' = [link EXCEPT ![s] = "down"]
      BY <2>3 DEF EndClose
    <3>2. <<>> \in Seq(Messages) /\ net[s] \in [Sides -> Seq(Messages)]
      BY <1>1 DEF NetType
    <3>3. [net[s] EXCEPT !["client"] = <<>>] \in [Sides -> Seq(Messages)]
      BY <3>2
    <3>4. net' \in NetType
      BY <1>1, <3>1, <3>3 DEF NetType
    <3>5. \A r \in Sessions, y \in Sides : net'[r][y] = net[r][y] \/ Cut(r, y)
      BY <1>1, <3>1, <3>2 DEF NetType, SessionTypes, Cut
    <3> QED
      BY <3>4, <3>5 DEF ErrorsOnly
  <2> QED
    BY <2>1, <2>2, <2>3 DEF OpenSession, ServeFails, StartClose, EndClose
<1>4. SessionTypes'
  <2>1. clients' \subseteq Sessions
    BY <1>1, <1>2 DEF SessionTypes, OpenSession
  <2>2. link' \in [Sessions -> {"none", "up", "down"}]
    BY <1>1 DEF SessionTypes, OpenSession, LinkBreaks, ServeFails, StartClose, EndClose
  <2>3. serving' \in [Sessions -> [Sides -> ServeStates]]
    <3>1. \/ serving' = serving
          \/ serving' = [serving EXCEPT ![s] = [y \in Sides |-> "on"]]
          \/ \E v \in ServeStates :
               serving' = [serving EXCEPT ![s] = [serving[s] EXCEPT ![x] = v]]
      BY DEF OpenSession, LinkBreaks, ServeFails, StartClose, EndClose, ServeStates
    <3>2. serving \in [Sessions -> [Sides -> ServeStates]]
      BY <1>1 DEF SessionTypes
    <3>3. [y \in Sides |-> "on"] \in [Sides -> ServeStates]
      BY DEF ServeStates
    <3>4. ASSUME NEW v \in ServeStates
          PROVE  [serving[s] EXCEPT ![x] = v] \in [Sides -> ServeStates]
      BY <3>2
    <3>5. \E f \in [Sides -> ServeStates] :
            serving' = serving \/ serving' = [serving EXCEPT ![s] = f]
      BY <3>1, <3>3, <3>4
    <3> QED
      BY <3>2, <3>5
  <2> QED
    BY <2>1, <2>2, <2>3 DEF SessionTypes
<1>5. EndTypes' /\ CloseTypes' /\ IoTypes' /\ DialTypes'
  BY <1>1, <1>2 DEF EndTypes, CloseTypes, IoTypes, DialTypes
<1>6. TypeOK'
  BY <1>3, <1>4, <1>5, TypesJoined
<1>7. SessionLife' /\ SessionsEnd
  <2>1. SessionLife'
    <3>1. \A r \in Sessions : link[r] # "none" => link'[r] # "none"
      BY <1>1 DEF SessionTypes, OpenSession, LinkBreaks, ServeFails, StartClose, EndClose
    <3>2. \A r \in Sessions : serving'[r]["client"] = "none" => link'[r] = "none"
      BY <1>1 DEF SessionLife, SessionTypes, OpenSession, LinkBreaks, ServeFails,
        StartClose, EndClose, Sides
    <3>3. \A r \in clients' : link'[r] # "none"
      <4>1. CASE OpenSession(s)
        BY <1>1, <3>1, <4>1 DEF SessionLife, SessionTypes, OpenSession
      <4>2. CASE ~OpenSession(s)
        BY <1>1, <1>2, <3>1, <4>2 DEF SessionLife, SessionTypes
      <4> QED
        BY <4>1, <4>2
    <3>4. \A c \in Conns : via'[c] # NoSession => link'[via'[c]] # "none"
      BY <1>1, <1>2, <3>1 DEF SessionLife, DialTypes
    <3> QED
      BY <3>2, <3>3, <3>4 DEF SessionLife
  <2>2. SessionsEnd
    BY <1>1 DEF SessionLife, SessionsEnd, SessionTypes, OpenSession, LinkBreaks,
      ServeFails, StartClose, EndClose, Sides
  <2> QED
    BY <2>1, <2>2
<1>8. ConnLife' /\ InOrder'
  BY <1>1, <1>2 DEF ConnLife, MapLife, InOrder, Received, Shut
<1>9. EndsClose /\ \A y \in Sides, c \in Conns : CountsKept(y, c)
  BY <1>2 DEF EndsClose, CountsKept, Received, Posted, Shut
<1>10. OwnMessages' /\ RequestFirst' /\ NoGap'
  BY <1>2, <1>3, <1>6, <1>7, <1>9, QueuesKept
<1> QED
  BY <1>6, <1>7, <1>8, <1>10 DEF TunnelInv

\* An error sent from a net that differs from the present one by a taken error
\* at most.
LEMMA ErrorSent ==
  ASSUME net \in NetType, NEW s \in Sessions, NEW x \in Sides, NEW c \in Conns,
         NEW e \in Errors, NEW n \in NetType,
         net' = n \/ WriteMessage(s, x, n, Error(c, e)),
         \/ n = net
         \/ /\ net[s][x] # <<>> /\ Head(net[s][x]).type = "error"
            /\ n = Taken(s, x)
  PROVE  \A r \in Sessions, y \in Sides : ErrorsOnly(r, y)
<1> SUFFICES ASSUME NEW r \in Sessions, NEW y \in Sides PROVE ErrorsOnly(r, y)
  OBVIOUS
<1>1. \/ net'[r][y] = n[r][y]
      \/ /\ y = Peer(x) /\ r = s
         /\ \E m \in Messages : m.type = "error" /\ net'[r][y] = Append(n[r][y], m)
  <2>1. CASE net' = n
    BY <2>1
  <2>2. CASE WriteMessage(s, x, n, Error(c, e))
    BY <2>2, ErrorWritten
  <2> QED
    BY <2>1, <2>2
<1>2. CASE n = net
  BY <1>1, <1>2 DEF ErrorsOnly
<1>3. CASE /\ net[s][x] # <<>> /\ Head(net[s][x]).type = "error"
           /\ n = Taken(s, x)
  <2>1. n[r][y] = IF r = s /\ y = x THEN Tail(net[s][x]) ELSE net[r][y]
    BY <1>3, TakenTyped
  <2>2. CASE r = s /\ y = x
    <3>1. net'[r][y] = Tail(net[r][y])
      BY <1>1, <2>1, <2>2, PeerIsOther
    <3> QED
      BY <1>3, <2>2, <3>1 DEF ErrorsOnly
  <2>3. CASE ~(r = s /\ y = x)
    BY <1>1, <2>1, <2>3 DEF ErrorsOnly
  <2> QED
    BY <2>2, <2>3
<1> QED
  BY <1>2, <1>3

\* An end closes, or is taken out of the map to be closed.
EndShuts(y, d) ==
  /\ end'[y][d] = "none" <=> end[y][d] = "none"
  /\ end[y][d] \in Errors => end'[y][d] \in Errors
  /\ Shut(y, d) => Shut(y, d)'
  /\ d \in conns'[y] => d \in conns[y]
  /\ d \in conns[y] => d \in conns'[y] \/ Shut(y, d)'
  /\ closing'[y][d] # "none" =>
       closing[y][d] # "none" \/ (d \in conns[y] /\ d \notin conns'[y])

\* A step that only shuts ends and sends or takes errors.
LEMMA ErrorStepInv ==
  ASSUME TunnelInv, net' \in NetType, EndTypes', CloseTypes', DialTypes',
         UNCHANGED <<serving, clients, link, via, buf, wrote, pending, got, seen, up>>,
         \A r \in Sessions, y \in Sides : ErrorsOnly(r, y),
         \A y \in Sides, d \in Conns :
           /\ EndShuts(y, d)
           /\ closer'[y][d] = "pipe" => closer[y][d] = "pipe" \/ pipe[d] # "none",
         \A d \in Conns :
           /\ pipe'[d] = "none" <=> pipe[d] = "none"
           /\ \/ dial'[d] = dial[d]
              \/ dial[d] = "inserted" /\ dial'[d] = "refused"
  PROVE  TunnelInv'
<1>1. /\ net \in NetType /\ EndTypes /\ IoTypes /\ SessionTypes /\ DialTypes
      /\ SessionLife /\ ConnLife /\ InOrder /\ TypeOK
  BY TypesSplit DEF TunnelInv
<1>2. IoTypes' /\ SessionTypes'
  BY <1>1 DEF IoTypes, SessionTypes
<1>3. TypeOK'
  BY <1>2, TypesJoined
<1>4. SessionLife' /\ SessionsEnd
  BY <1>1 DEF SessionLife, SessionsEnd
<1>6. ConnLife'
  <2> SUFFICES ASSUME NEW d \in Conns
               PROVE  /\ dial'[d] = "idle" <=> via'[d] = NoSession
                      /\ end'["server"][d] = "none" <=> dial'[d] \in {"idle", "got"}
                      /\ end'["client"][d] # "none" => dial'[d] = "returned"
                      /\ pipe'[d] # "none" => end'["client"][d] # "none"
                      /\ up'[d] = "done" => end'["client"][d] \in Errors
                      /\ wrote'["server"][d] > 0 => dial'[d] = "returned"
                      /\ wrote'["client"][d] > 0 => pipe'[d] # "none"
                      /\ \A y \in Sides :
                           /\ MapLife(y, d)'
                           /\ pending'[y][d] => wrote'[y][d] > 0
                           /\ dial'[d] = "idle" => got'[y][d] = <<>> /\ buf'[y][d] = <<>>
    BY DEF ConnLife
  <2>1. "server" \in Sides /\ "client" \in Sides
    BY DEF Sides
  <2>2. /\ end'["server"][d] = "none" <=> end["server"][d] = "none"
        /\ end'["client"][d] = "none" <=> end["client"][d] = "none"
        /\ end["client"][d] \in Errors => end'["client"][d] \in Errors
    BY <2>1 DEF EndShuts
  <2>3. /\ dial[d] = "returned" <=> dial'[d] = "returned"
        /\ dial[d] \in {"idle", "got"} <=> dial'[d] \in {"idle", "got"}
        /\ dial[d] = "idle" <=> dial'[d] = "idle"
    OBVIOUS
  <2>4. ASSUME NEW y \in Sides PROVE MapLife(y, d)'
    <3>1. /\ EndShuts(y, d)
          /\ closer'[y][d] = "pipe" => closer[y][d] = "pipe" \/ pipe[d] # "none"
          /\ pipe'[d] = "none" <=> pipe[d] = "none"
      OBVIOUS
    <3>2. MapLife(y, d)
      BY <1>1 DEF ConnLife
    <3>3. end[y][d] \in {"none", "open"} \cup Errors
      BY <1>1 DEF EndTypes
    <3>4. end'[y][d] = "open" => end[y][d] = "open"
      BY <3>1, <3>3 DEF EndShuts, Errors
    <3> QED
      BY <3>1, <3>2, <3>4 DEF EndShuts, MapLife
  <2> QED
    BY <1>1, <2>2, <2>3, <2>4 DEF ConnLife
<1>7. InOrder'
  BY <1>1 DEF InOrder, Received
<1>8. EndsClose
  BY DEF EndsClose, EndShuts, Sides
<1>9. \A y \in Sides, c \in Conns : CountsKept(y, c)
  BY DEF CountsKept, Received, Posted
<1>10. OwnMessages' /\ RequestFirst' /\ NoGap'
  BY <1>3, <1>4, <1>8, <1>9, QueuesKept
<1> QED
  BY <1>3, <1>4, <1>6, <1>7, <1>10 DEF TunnelInv

\* The connections that are used have a session.
LEMMA UsedSession ==
  ASSUME TunnelInv, NEW c \in Conns,
         \/ dial[c] # "idle" \/ pipe[c] # "none"
         \/ \E y \in Sides : end[y][c] # "none" \/ closing[y][c] # "none"
  PROVE  via[c] \in Sessions /\ dial[c] # "idle"
<1>1. \A y \in Sides : closing[y][c] # "none" => end[y][c] # "none"
  BY DEF TunnelInv, ConnLife, MapLife
<1>2. dial[c] # "idle"
  BY <1>1 DEF TunnelInv, ConnLife, Sides
<1> QED
  BY <1>2 DEF TunnelInv, ConnLife, TypeOK, NoSession

\* Nothing happens to an end, or doTunnelClose does.
LEMMA EndsStayOrShut ==
  ASSUME NEW y \in Sides, NEW d \in Conns, EndTypes,
         \/ end'[y][d] = end[y][d]
         \/ end[y][d] = "open" /\ end'[y][d] \in Errors,
         \/ closing'[y][d] = closing[y][d] /\ (d \in conns'[y] <=> d \in conns[y])
         \/ /\ d \in conns[y] /\ d \notin conns'[y] /\ closing'[y][d] # "none"
         \/ /\ closing[y][d] # "none" /\ (d \in conns'[y] <=> d \in conns[y])
            /\ closing'[y][d] # "none" \/ end'[y][d] \in Errors
  PROVE  EndShuts(y, d)
  BY DEF EndShuts, Shut, EndTypes, Errors

\* closeConnection, whoever calls it.
LEMMA ConnectionClosesInv ==
  ASSUME TunnelInv, NEW s \in Sessions, NEW x \in Sides, NEW c \in Conns,
         NEW by \in Closers, NEW e \in Errors, CloseConnection(s, x, c, by, e),
         by = "pipe" => pipe[c] # "none", net' \in NetType, DialTypes',
         \A r \in Sessions, y \in Sides : ErrorsOnly(r, y),
         UNCHANGED <<serving, clients, link, via, end, buf, wrote, pending, got, seen, up>>,
         \A d \in Conns :
           /\ pipe'[d] = "none" <=> pipe[d] = "none"
           /\ \/ dial'[d] = dial[d]
              \/ dial[d] = "inserted" /\ dial'[d] = "refused"
  PROVE  TunnelInv'
<1>1. EndTypes /\ CloseTypes
  BY TypesSplit DEF TunnelInv
<1>2. /\ EndTypes' /\ CloseTypes'
      /\ \A y \in Sides, d \in Conns :
              \/ /\ d \in conns'[y] <=> d \in conns[y]
                 /\ closing'[y][d] = closing[y][d]
              \/ /\ y = x /\ d = c /\ d \in conns[y] /\ d \notin conns'[y]
                 /\ closing'[y][d] = "tell"
      /\ \A y \in Sides, d \in Conns :
           closer'[y][d] = closer[y][d] \/ (d = c /\ closer'[y][d] = by)
  BY <1>1, CloseConnectionTyped
<1>3. \A y \in Sides, d \in Conns : EndShuts(y, d)
  BY <1>1, <1>2, EndsStayOrShut
<1> QED
  BY <1>2, <1>3, ErrorStepInv

\* The steps of closes that leave the map alone.
LEMMA TellShutInv ==
  ASSUME TunnelInv, NEW x \in Sides, NEW c \in Conns, CloseStep(x, c)
  PROVE  TunnelInv'
<1>1. /\ net \in NetType /\ EndTypes /\ CloseTypes /\ DialTypes
  BY TypesSplit DEF TunnelInv
<1>2. reason[x][c] \in Errors /\ "none" \notin Errors /\ "open" \notin Errors
      /\ "err" \in Errors
  BY <1>1 DEF CloseTypes, Errors
<1>3. CASE TellPeer(x, c)
  <2>1. /\ closing[x][c] = "tell" /\ closing' = [closing EXCEPT ![x][c] = "shut"]
        /\ WriteMessage(via[c], x, net, Error(c, reason[x][c]))
        /\ UNCHANGED <<serving, clients, link, dial, via, late, conns, end, buf, wrote,
                       pending, got, seen, pipe, up, down, closer, reason, byPeer, due>>
    BY <1>3 DEF TellPeer, dialVars, ioVars, pipeVars
  <2>2. via[c] \in Sessions
    BY <2>1, UsedSession
  <2>3. /\ closing' \in [Sides -> [Conns -> {"none", "tell", "shut"}]]
        /\ \A y \in Sides, d \in Conns :
             closing'[y][d] = IF y = x /\ d = c THEN "shut" ELSE closing[y][d]
    BY <1>1, <2>1, EntryChanged DEF CloseTypes
  <2>4. EndTypes' /\ CloseTypes' /\ DialTypes'
    BY <1>1, <2>1, <2>3 DEF EndTypes, CloseTypes, DialTypes
  <2>5. net' \in NetType
    BY <1>1, <1>2, <2>1, <2>2, WriteTyped, MessageTypes
  <2>6. \A r \in Sessions, y \in Sides : ErrorsOnly(r, y)
    BY <1>1, <1>2, <2>1, <2>2, ErrorSent
  <2>7. \A y \in Sides, d \in Conns : EndShuts(y, d)
    BY <1>1, <2>1, <2>3, EndsStayOrShut
  <2> QED
    BY <2>1, <2>4, <2>5, <2>6, <2>7, ErrorStepInv
<1>4. CASE ShutEnd(x, c)
  <2>1. /\ closing[x][c] = "shut" /\ closing' = [closing EXCEPT ![x][c] = "none"]
        /\ closer' = [closer EXCEPT ![x][c] = "none"]
        /\ reason' = [reason EXCEPT ![x][c] = "err"]
        /\ DoTunnelClose(x, c, reason[x][c])
        /\ byPeer' = byPeer \/ byPeer' = byPeer \cup {<<x, c>>}
        /\ pipe' = pipe \/ (closer[x][c] = "pipe" /\ pipe' = [pipe EXCEPT ![c] = "done"])
        /\ UNCHANGED <<serving, clients, link, net, dial, via, late, conns, buf, wrote,
                       pending, got, seen, up, down, due>>
    BY <1>4 DEF ShutEnd, dialVars, ioVars
  <2>2. end[x][c] # "none"
    BY <2>1 DEF TunnelInv, ConnLife, MapLife
  <2>3. /\ closing' \in [Sides -> [Conns -> {"none", "tell", "shut"}]]
        /\ \A y \in Sides, d \in Conns :
             closing'[y][d] = IF y = x /\ d = c THEN "none" ELSE closing[y][d]
    BY <1>1, <2>1, EntryChanged DEF CloseTypes
  <2>4. /\ closer' \in [Sides -> [Conns -> {"none"} \cup Closers]]
        /\ reason' \in [Sides -> [Conns -> Errors]]
    BY <1>1, <1>2, <2>1, EntryChanged DEF CloseTypes
  <2>5. /\ end' \in [Sides -> [Conns -> {"none", "open"} \cup Errors]]
        /\ \A y \in Sides, d \in Conns :
             end'[y][d] = IF y = x /\ d = c /\ end[x][c] = "open" THEN reason[x][c]
                          ELSE end[y][d]
    BY <1>1, <1>2, <2>1, CloseTyped
  <2>6. EndTypes' /\ CloseTypes' /\ DialTypes'
    BY <1>1, <2>1, <2>3, <2>4, <2>5 DEF EndTypes, CloseTypes, DialTypes
  <2>7. \A r \in Sessions, y \in Sides : ErrorsOnly(r, y)
    BY <2>1 DEF ErrorsOnly
  <2>8. end[x][c] \in {"open"} \cup Errors
    BY <1>1, <2>2 DEF EndTypes
  <2>9. end'[x][c] \in Errors
    BY <1>2, <2>5, <2>8
  <2>10. \A y \in Sides, d \in Conns : EndShuts(y, d)
    <3> SUFFICES ASSUME NEW y \in Sides, NEW d \in Conns PROVE EndShuts(y, d)
      OBVIOUS
    <3>1. \/ end'[y][d] = end[y][d]
          \/ end[y][d] = "open" /\ end'[y][d] \in Errors
      BY <1>2, <2>5
    <3>2. d \in conns'[y] <=> d \in conns[y]
      BY <2>1
    <3>3. \/ closing'[y][d] = closing[y][d]
          \/ closing[y][d] # "none" /\ end'[y][d] \in Errors
      BY <2>1, <2>3, <2>9
    <3> QED
      BY <1>1, <3>1, <3>2, <3>3, EndsStayOrShut
  <2>11. net' \in NetType
    BY <1>1, <2>1
  <2>12. \A d \in Conns : pipe'[d] = "none" <=> pipe[d] = "none"
    <3>1. CASE pipe' = pipe
      BY <3>1
    <3>2. CASE closer[x][c] = "pipe" /\ pipe' = [pipe EXCEPT ![c] = "done"]
      <4>1. pipe[c] # "none"
        BY <2>1, <3>2 DEF TunnelInv, ConnLife, MapLife
      <4> QED
        BY <1>1, <3>2, <4>1 DEF DialTypes
    <3> QED
      BY <2>1, <3>1, <3>2
  <2>13. \A y \in Sides, d \in Conns :
           closer'[y][d] = "pipe" => closer[y][d] = "pipe" \/ pipe[d] # "none"
    BY <1>1, <2>1, EntryChanged DEF CloseTypes
  <2> QED
    BY <2>1, <2>6, <2>7, <2>10, <2>11, <2>12, <2>13, ErrorStepInv
<1> QED
  BY <1>3, <1>4 DEF CloseStep

\* The steps that close ends or write errors.
LEMMA CloseStepsInv ==
  ASSUME TunnelInv, NEW s \in Sessions, NEW x \in Sides, NEW c \in Conns,
         \/ CloseOne(s, x, c) \/ SendConnectFails(c) \/ ServerClose(c)
         \/ DialTargetFails(c) \/ RefuseShuts(c) \/ PipeWriteErr(c) \/ PipeClose(c)
         \/ ServeError(s, x)
  PROVE  TunnelInv'
<1>1. /\ net \in NetType /\ EndTypes /\ CloseTypes /\ DialTypes
  BY TypesSplit DEF TunnelInv
<1>2. "server" \in Sides /\ "client" \in Sides /\ "err" \in Errors /\ "eof" \in Errors
      /\ "none" \notin Errors /\ "open" \notin Errors
      /\ {"session", "caller", "pipe", "peer", "loop"} \subseteq Closers
  BY DEF Sides, Errors, Closers, Loops
<1>3. CASE CloseOne(s, x, c)
  <2> USE <1>3
  <2>1. /\ c \in conns[x] /\ conns' = [conns EXCEPT ![x] = @ \ {c}]
        /\ closing' = [closing EXCEPT ![x][c] = "shut"]
        /\ closer' = [closer EXCEPT ![x][c] = "session"]
        /\ WriteMessage(s, x, net, Error(c, "err"))
        /\ UNCHANGED <<serving, clients, link, dial, via, late, end, buf, wrote, pending,
                       got, seen, pipe, up, down, reason, byPeer, due>>
    BY DEF CloseOne, dialVars, ioVars, pipeVars
  <2>2. /\ closing' \in [Sides -> [Conns -> {"none", "tell", "shut"}]]
        /\ \A y \in Sides, d \in Conns :
             closing'[y][d] = IF y = x /\ d = c THEN "shut" ELSE closing[y][d]
    BY <1>1, <2>1, EntryChanged DEF CloseTypes
  <2>3. /\ closer' \in [Sides -> [Conns -> {"none"} \cup Closers]]
        /\ \A y \in Sides, d \in Conns :
             closer'[y][d] = IF y = x /\ d = c THEN "session" ELSE closer[y][d]
    BY <1>1, <1>2, <2>1, EntryChanged DEF CloseTypes
  <2>4. conns' \in [Sides -> SUBSET Conns]
        /\ \A y \in Sides : conns'[y] = IF y = x THEN conns[y] \ {c} ELSE conns[y]
    BY <1>1, <2>1 DEF EndTypes
  <2>5. EndTypes' /\ CloseTypes' /\ DialTypes'
    BY <1>1, <2>1, <2>2, <2>3, <2>4 DEF EndTypes, CloseTypes, DialTypes
  <2>6. net' \in NetType
    BY <1>1, <1>2, <2>1, WriteTyped, MessageTypes
  <2>7. \A r \in Sessions, y \in Sides : ErrorsOnly(r, y)
    BY <1>1, <1>2, <2>1, ErrorSent
  <2>8. \A y \in Sides, d \in Conns : EndShuts(y, d)
    BY <1>1, <2>1, <2>2, <2>4, EndsStayOrShut
  <2>9. \A y \in Sides, d \in Conns : closer'[y][d] = "pipe" => closer[y][d] = "pipe"
    BY <2>3
  <2> QED
    BY <2>1, <2>5, <2>6, <2>7, <2>8, <2>9, ErrorStepInv
<1>4. ASSUME UNCHANGED net
      PROVE  net' \in NetType /\ \A r \in Sessions, y \in Sides : ErrorsOnly(r, y)
  BY <1>1, <1>4 DEF ErrorsOnly
<1>5. CASE SendConnectFails(c)
  <2>1. /\ dial[c] = "inserted" /\ dial' = [dial EXCEPT ![c] = "refused"]
        /\ CloseConnection(via[c], "server", c, "caller", "err")
        /\ UNCHANGED <<serving, clients, link, net, via, late, end, buf, wrote, pending,
                       got, seen, pipe, up, down, byPeer, due>>
    BY <1>5 DEF SendConnectFails, ioVars, pipeVars
  <2>2. via[c] \in Sessions
    BY <2>1, UsedSession
  <2>3. /\ DialTypes'
        /\ \A b \in Conns : \/ dial'[b] = dial[b]
                            \/ dial[b] = "inserted" /\ dial'[b] = "refused"
    BY <1>1, <2>1 DEF DialTypes
  <2> QED
    BY <1>2, <1>4, <2>1, <2>2, <2>3, ConnectionClosesInv
<1>6. CASE ServerClose(c)
  <2>1. /\ dial[c] = "returned"
        /\ due' = [due EXCEPT ![c] = Sent("server", c)]
        /\ CloseConnection(via[c], "server", c, "caller", "eof")
        /\ UNCHANGED <<serving, clients, link, net, dial, via, late, end, buf, wrote,
                       pending, got, seen, pipe, up, down, byPeer>>
    BY <1>6 DEF ServerClose, dialVars, ioVars, pipeVars
  <2>2. via[c] \in Sessions
    BY <2>1, UsedSession
  <2>3. Sent("server", c) \in Nat
    <3>1. wrote["server"][c] \in Nat
      BY <1>2 DEF TunnelInv, TypeOK
    <3>2. pending["server"][c] => wrote["server"][c] > 0
      BY <1>2 DEF TunnelInv, ConnLife
    <3>3. CASE pending["server"][c]
      BY <3>1, <3>2, <3>3 DEF Sent
    <3>4. CASE ~pending["server"][c]
      BY <3>1, <3>4 DEF Sent
    <3> QED
      BY <3>3, <3>4
  <2>4. DialTypes'
    BY <1>1, <2>1, <2>3 DEF DialTypes
  <2> QED
    BY <1>2, <1>4, <2>1, <2>2, <2>4, ConnectionClosesInv
<1>7. CASE PipeClose(c)
  <2>1. /\ pipe[c] = "closing"
        /\ pipe' = pipe \/ pipe' = [pipe EXCEPT ![c] = "done"]
        /\ CloseConnection(via[c], "client", c, "pipe", "eof")
        /\ UNCHANGED <<serving, clients, link, net, dial, via, late, end, buf, wrote,
                       pending, got, seen, up, down, byPeer, due>>
    BY <1>7 DEF PipeClose, dialVars, ioVars
  <2>2. via[c] \in Sessions
    BY <2>1, UsedSession
  <2>3. DialTypes' /\ \A b \in Conns : pipe'[b] = "none" <=> pipe[b] = "none"
    BY <1>1, <2>1 DEF DialTypes
  <2> QED
    BY <1>2, <1>4, <2>1, <2>2, <2>3, ConnectionClosesInv
<1>8. CASE ServeError(s, x)
  <2> DEFINE m == Head(net[s][x])
  <2>1. /\ net[s][x] # <<>> /\ m.type = "error" /\ net' = Taken(s, x)
        /\ CloseConnection(s, x, m.conn, "peer", m.err)
        /\ UNCHANGED <<serving, clients, link, dial, via, late, end, buf, wrote, pending,
                       got, seen, pipe, up, down, byPeer, due>>
    BY <1>8 DEF ServeError, Receives, dialVars, ioVars, pipeVars
  <2>2. net' \in NetType /\ m \in Messages
    BY <1>1, <2>1, TakenTyped
  <2>3. m.conn \in Conns /\ m.err \in Errors
    BY <2>1, <2>2, MessageTypes
  <2> HIDE DEF m
  <2>4. DialTypes'
    BY <1>1, <2>1 DEF DialTypes
  <2>5. Head(net[s][x]).type = "error"
    BY <2>1 DEF m
  <2>6. \A r \in Sessions, y \in Sides : ErrorsOnly(r, y)
    BY <1>1, <2>1, <2>5, TakenTyped DEF ErrorsOnly
  <2> QED
    BY <1>2, <2>1, <2>2, <2>3, <2>4, <2>6, ConnectionClosesInv
<1>9. CASE DialTargetFails(c) \/ PipeWriteErr(c)
  <2>1. PICK e \in Errors :
        /\ pipe[c] # "none"
        /\ \E v \in {"refusing", "closing"} : pipe' = [pipe EXCEPT ![c] = v]
        /\ WriteMessage(via[c], "client", net, Error(c, e))
        /\ UNCHANGED <<serving, clients, link, dial, via, late, conns, end, buf, wrote,
                       pending, got, seen, up, down, closing, closer, reason, byPeer, due>>
    <3>1. CASE DialTargetFails(c)
      BY <1>2, <3>1 DEF DialTargetFails, dialVars, ioVars, closeVars
    <3>2. CASE PipeWriteErr(c)
      <4>1. down[c] \in Errors
        BY <1>1, <3>2 DEF DialTypes, PipeWriteErr
      <4> QED
        BY <3>2, <4>1 DEF PipeWriteErr, dialVars, ioVars, closeVars
    <3> QED
      BY <1>9, <3>1, <3>2
  <2>2. via[c] \in Sessions
    BY <2>1, UsedSession
  <2>4. /\ EndTypes' /\ CloseTypes' /\ DialTypes'
        /\ \A b \in Conns : pipe'[b] = "none" <=> pipe[b] = "none"
    BY <1>1, <2>1 DEF EndTypes, CloseTypes, DialTypes
  <2>5. net' \in NetType
    BY <1>1, <1>2, <2>1, <2>2, WriteTyped, MessageTypes
  <2>6. \A r \in Sessions, y \in Sides : ErrorsOnly(r, y)
    BY <1>1, <1>2, <2>1, <2>2, ErrorSent
  <2>7. \A y \in Sides, d \in Conns : EndShuts(y, d)
    BY <1>1, <2>1, EndsStayOrShut
  <2> QED
    BY <2>1, <2>4, <2>5, <2>6, <2>7, ErrorStepInv
<1>10. CASE RefuseShuts(c)
  <2>1. /\ pipe[c] = "refusing" /\ pipe' = [pipe EXCEPT ![c] = "closing"]
        /\ DoTunnelClose("client", c, "err")
        /\ UNCHANGED <<serving, clients, link, net, dial, via, late, conns, buf, wrote,
                       pending, got, seen, up, down, closing, closer, reason, byPeer, due>>
    BY <1>10 DEF RefuseShuts, dialVars, ioVars, closeVars
  <2>2. /\ end' \in [Sides -> [Conns -> {"none", "open"} \cup Errors]]
        /\ \A y \in Sides, d \in Conns :
             end'[y][d] = IF y = "client" /\ d = c /\ end["client"][c] = "open" THEN "err"
                          ELSE end[y][d]
    BY <1>1, <1>2, <2>1, CloseTyped
  <2>3. EndTypes' /\ CloseTypes' /\ DialTypes'
        /\ \A b \in Conns : pipe'[b] = "none" <=> pipe[b] = "none"
    BY <1>1, <2>1, <2>2 DEF EndTypes, CloseTypes, DialTypes
  <2>4. \A y \in Sides, d \in Conns : EndShuts(y, d)
    BY <1>1, <1>2, <2>1, <2>2, EndsStayOrShut
  <2> QED
    BY <1>4, <2>1, <2>3, <2>4, ErrorStepInv
<1> QED
  BY <1>3, <1>5, <1>6, <1>7, <1>8, <1>9, <1>10

-----------------------------------------------------------------------------
(* Steps that leave the websocket alone *)

\* A connection that stays in the map or out of it, and may close.
LEMMA MapLifeKept ==
  ASSUME NEW y \in Sides, NEW d \in Conns, MapLife(y, d),
         closing'[y][d] = closing[y][d], closer'[y][d] = closer[y][d],
         d \in conns'[y] <=> d \in conns[y],
         pipe[d] # "none" => pipe'[d] # "none",
         \/ end'[y][d] = end[y][d]
         \/ end[y][d] = "open" /\ end'[y][d] \in Errors
  PROVE  MapLife(y, d)'
  BY DEF MapLife, Shut, Errors

\* Nothing is said anew when the ends, the maps and the closers stay.
LEMMA ShutStill ==
  ASSUME UNCHANGED <<end, closing>>
  PROVE  \A y \in Sides, d \in Conns : Shut(y, d)' <=> Shut(y, d)
  BY DEF Shut

LEMMA MapLifeStill ==
  ASSUME UNCHANGED <<conns, end, closing, closer, pipe>>,
         NEW y \in Sides, NEW d \in Conns, MapLife(y, d)
  PROVE  MapLife(y, d)'
  BY DEF MapLife, Shut

\* An end that has not been opened is not shut.
LEMMA UnopenedNotShut ==
  ASSUME NEW y \in Sides, NEW d \in Conns, MapLife(y, d), end[y][d] = "none"
  PROVE  ~Shut(y, d)
  BY DEF MapLife, Shut, Errors

\* Such a step only has to keep what is said of the ends.
LEMMA QuietStepInv ==
  ASSUME TunnelInv,
         UNCHANGED <<serving, clients, link, net, via, closing, closer, reason>>, EndTypes', IoTypes',
         DialTypes', ConnLife', InOrder', EndsClose,
         \A y \in Sides, c \in Conns : CountsKept(y, c)
  PROVE  TunnelInv'
<1>1. TypeOK'
  <2>1. net' \in NetType /\ SessionTypes' /\ CloseTypes'
    BY TypesSplit DEF TunnelInv, SessionTypes, CloseTypes
  <2> QED
    BY <2>1, TypesJoined
<1>2. SessionLife' /\ SessionsEnd
  BY DEF TunnelInv, SessionLife, SessionsEnd
<1>3. \A r \in Sessions, y \in Sides : ErrorsOnly(r, y)
  BY DEF ErrorsOnly
<1> QED
  BY <1>1, <1>2, <1>3, QueuesKept DEF TunnelInv

\* Dial inserts its connection, the client reaches its target.
LEMMA OpenStepsInv ==
  ASSUME TunnelInv, NEW c \in Conns,
         ServerConnect(c) \/ DialTarget(c) \/ ServerReadEnds(c)
  PROVE  TunnelInv'
<1>1. /\ EndTypes /\ IoTypes /\ DialTypes /\ ConnLife /\ InOrder
      /\ "server" \in Sides /\ "client" \in Sides
      /\ "none" \notin Errors /\ "open" \notin Errors
  BY TypesSplit DEF TunnelInv, Sides, Errors
<1>2. CASE ServerConnect(c)
  <2>1. /\ dial[c] = "got" /\ dial' = [dial EXCEPT ![c] = "inserted"]
        /\ conns' = [conns EXCEPT !["server"] = @ \cup {c}]
        /\ end' = [end EXCEPT !["server"][c] = "open"]
        /\ late' = late \/ late' = late \cup {c}
        /\ UNCHANGED <<serving, clients, link, net, via, buf, wrote, pending, got, seen,
                       pipe, up, down, closing, closer, reason, byPeer, due>>
    BY <1>2 DEF ServerConnect, ioVars, pipeVars, closeVars
  <2>2. /\ end' \in [Sides -> [Conns -> {"none", "open"} \cup Errors]]
        /\ \A y \in Sides, d \in Conns :
             end'[y][d] = IF y = "server" /\ d = c THEN "open" ELSE end[y][d]
    BY <1>1, <2>1, EntryChanged DEF EndTypes
  <2>3. /\ conns' \in [Sides -> SUBSET Conns]
        /\ \A y \in Sides : conns[y] \subseteq conns'[y]
        /\ c \in conns'["server"]
    BY <1>1, <2>1 DEF EndTypes
  <2>4. /\ DialTypes'
        /\ \A d \in Conns : dial'[d] = IF d = c THEN "inserted" ELSE dial[d]
    BY <1>1, <2>1 DEF DialTypes
  <2>5. EndTypes' /\ IoTypes'
    BY <1>1, <2>1, <2>2, <2>3 DEF EndTypes, IoTypes
  <2>6. end["server"][c] = "none" /\ end["client"][c] = "none"
    BY <1>1, <2>1 DEF ConnLife
  <2>9. \A y \in Sides, d \in Conns : MapLife(y, d)'
    <3> SUFFICES ASSUME NEW y \in Sides, NEW d \in Conns PROVE MapLife(y, d)'
      OBVIOUS
    <3>1. MapLife(y, d) /\ pipe' = pipe /\ closing' = closing /\ closer' = closer
      BY <1>1, <2>1 DEF ConnLife
    <3>2. CASE y = "server" /\ d = c
      <4>1. end'[y][d] = "open" /\ d \in conns'[y]
        BY <2>2, <2>3, <3>2
      <4> QED
        BY <2>6, <3>1, <3>2, <4>1 DEF MapLife
    <3>3. CASE ~(y = "server" /\ d = c)
      <4>1. end'[y][d] = end[y][d] /\ (d \in conns'[y] <=> d \in conns[y])
        BY <1>1, <2>1, <2>2, <3>3 DEF EndTypes
      <4> QED
        BY <3>1, <4>1, MapLifeKept
    <3> QED
      BY <3>2, <3>3
  <2>7. ConnLife'
    BY <1>1, <2>1, <2>2, <2>3, <2>4, <2>6, <2>9 DEF ConnLife
  <2>8. InOrder' /\ EndsClose /\ \A y \in Sides, d \in Conns : CountsKept(y, d)
    <3>1. InOrder' /\ \A y \in Sides, d \in Conns : CountsKept(y, d)
      BY <1>1, <2>1 DEF InOrder, Received, Posted, CountsKept
    <3>2. EndsClose
      BY <1>1, <2>1, <2>2, <2>4, <2>6 DEF EndsClose, Shut
    <3> QED
      BY <3>1, <3>2
  <2> QED
    BY <2>1, <2>4, <2>5, <2>7, <2>8, QuietStepInv
<1>3. CASE DialTarget(c)
  <2>1. /\ pipe[c] = "dialing" /\ pipe' = [pipe EXCEPT ![c] = "copying"]
        /\ UNCHANGED <<serving, clients, link, net, dial, via, late, conns, end, buf, wrote,
                       pending, got, seen, up, down, closing, closer, reason, byPeer, due>>
    BY <1>3 DEF DialTarget, ioVars, dialVars, closeVars
  <2>2. DialTypes' /\ EndTypes' /\ IoTypes'
    BY <1>1, <2>1 DEF DialTypes, EndTypes, IoTypes
  <2>3. ConnLife' /\ InOrder' /\ EndsClose
    <3>1. ConnLife'
      <4>1. \A d \in Conns : pipe'[d] = "none" <=> pipe[d] = "none"
        BY <1>1, <2>1 DEF DialTypes
      <4>2. \A y \in Sides, d \in Conns : MapLife(y, d)'
        BY <1>1, <2>1, <4>1 DEF ConnLife, MapLife, Shut
      <4> QED
        BY <1>1, <2>1, <4>1, <4>2 DEF ConnLife
    <3>2. InOrder'
      BY <1>1, <2>1 DEF InOrder, Received
    <3>3. EndsClose
      BY <2>1 DEF EndsClose, Shut
    <3> QED
      BY <3>1, <3>2, <3>3
  <2>4. \A y \in Sides, d \in Conns : CountsKept(y, d)
    BY <2>1 DEF CountsKept, Received, Posted
  <2> QED
    BY <2>1, <2>2, <2>3, <2>4, QuietStepInv
<1>4. CASE ServerReadEnds(c)
  <2>1. /\ end["server"][c] \in Errors
        /\ seen' = [seen EXCEPT !["server"][c] = end["server"][c]]
        /\ UNCHANGED <<serving, clients, link, net, dial, via, late, conns, end, buf, wrote,
                       pending, got, pipe, up, down, closing, closer, reason, byPeer, due>>
    BY <1>4 DEF ServerReadEnds, Drained, dialVars, pipeVars, closeVars
  <2>2. seen' \in [Sides -> [Conns -> {"none"} \cup Errors]]
    <3>1. end["server"][c] \in {"none"} \cup Errors
      BY <2>1
    <3> QED
      BY <1>1, <2>1, <3>1, EntryChanged DEF IoTypes
  <2>3. DialTypes' /\ EndTypes' /\ IoTypes'
    BY <1>1, <2>1, <2>2 DEF DialTypes, EndTypes, IoTypes
  <2>4. ConnLife' /\ InOrder' /\ EndsClose
    BY <1>1, <2>1 DEF ConnLife, MapLife, InOrder, EndsClose, Shut, Received
  <2>5. \A y \in Sides, d \in Conns : CountsKept(y, d)
    BY <2>1 DEF CountsKept, Received, Posted
  <2> QED
    BY <2>1, <2>3, <2>4, <2>5, QuietStepInv
<1> QED
  BY <1>2, <1>3, <1>4

\* Write passes the check of the end: one chunk more is under way.
LEMMA WriteCheckInv ==
  ASSUME TunnelInv, NEW x \in Sides, NEW c \in Conns, WriteCheck(x, c)
  PROVE  TunnelInv'
<1>1. /\ EndTypes /\ IoTypes /\ DialTypes /\ ConnLife /\ InOrder
      /\ "server" \in Sides /\ "client" \in Sides
  BY TypesSplit DEF TunnelInv, Sides
<1>2. /\ ~pending[x][c]
      /\ wrote' = [wrote EXCEPT ![x][c] = @ + 1]
      /\ pending' = [pending EXCEPT ![x][c] = TRUE]
      /\ x = "server" => dial[c] = "returned"
      /\ x = "client" => pipe[c] = "copying"
      /\ UNCHANGED <<serving, clients, link, net, dial, via, late, conns, end, buf, got,
                     seen, pipe, up, down, closing, closer, reason, byPeer, due>>
  BY DEF WriteCheck, Writing, dialVars, pipeVars, closeVars, Sides
<1>3. /\ wrote' \in [Sides -> [Conns -> Nat]]
      /\ \A y \in Sides, d \in Conns :
           wrote'[y][d] = IF y = x /\ d = c THEN wrote[x][c] + 1 ELSE wrote[y][d]
  <2> DEFINE w == wrote[x][c] + 1
  <2>1. wrote[x][c] \in Nat /\ w \in Nat /\ wrote' = [wrote EXCEPT ![x][c] = w]
    BY <1>1, <1>2 DEF IoTypes
  <2> HIDE DEF w
  <2>2. /\ wrote' \in [Sides -> [Conns -> Nat]]
        /\ \A y \in Sides, d \in Conns :
             wrote'[y][d] = IF y = x /\ d = c THEN w ELSE wrote[y][d]
    <3>1. wrote \in [Sides -> [Conns -> Nat]]
      BY <1>1 DEF IoTypes
    <3> QED
      BY <2>1, <3>1, EntryChanged
  <2> QED
    BY <2>2 DEF w
<1>4. /\ pending' \in [Sides -> [Conns -> BOOLEAN]]
      /\ \A y \in Sides, d \in Conns :
           pending'[y][d] = IF y = x /\ d = c THEN TRUE ELSE pending[y][d]
  <2> DEFINE v == TRUE
  <2>1. pending \in [Sides -> [Conns -> BOOLEAN]] /\ v \in BOOLEAN
    BY <1>1 DEF IoTypes
  <2>2. pending' = [pending EXCEPT ![x][c] = v]
    BY <1>2
  <2> HIDE DEF v
  <2>3. /\ pending' \in [Sides -> [Conns -> BOOLEAN]]
        /\ \A y \in Sides, d \in Conns :
             pending'[y][d] = IF y = x /\ d = c THEN v ELSE pending[y][d]
    BY <2>1, <2>2, EntryChanged
  <2> QED
    BY <2>3 DEF v
<1>5. DialTypes' /\ EndTypes' /\ IoTypes'
  BY <1>1, <1>2, <1>3, <1>4 DEF DialTypes, EndTypes, IoTypes
<1>6. \A y \in Sides, d \in Conns : wrote[y][d] \in Nat
  BY <1>1 DEF IoTypes
<1>7. ConnLife'
  <2> SUFFICES ASSUME NEW d \in Conns
               PROVE  /\ wrote'["server"][d] > 0 => dial'[d] = "returned"
                      /\ wrote'["client"][d] > 0 => pipe'[d] # "none"
                      /\ \A y \in Sides : pending'[y][d] => wrote'[y][d] > 0
    <3>1. \A y \in Sides, d \in Conns : MapLife(y, d)'
      BY <1>1, <1>2 DEF ConnLife, MapLife, Shut
    <3> QED
      BY <1>1, <1>2, <3>1 DEF ConnLife
  <2>1. \A y \in Sides : pending'[y][d] => wrote'[y][d] > 0
    <3> SUFFICES ASSUME NEW y \in Sides, pending'[y][d] PROVE wrote'[y][d] > 0
      OBVIOUS
    <3>1. CASE y = x /\ d = c
      BY <1>3, <1>6, <3>1
    <3>2. CASE ~(y = x /\ d = c)
      <4>1. pending[y][d] /\ wrote'[y][d] = wrote[y][d]
        BY <1>3, <1>4, <3>2
      <4> QED
        BY <1>1, <4>1 DEF ConnLife
    <3> QED
      BY <3>1, <3>2
  <2>2. /\ wrote'["server"][d] > 0 => dial'[d] = "returned"
        /\ wrote'["client"][d] > 0 => pipe'[d] # "none"
    BY <1>1, <1>2, <1>3 DEF ConnLife
  <2> QED
    BY <2>1, <2>2
<1>8. InOrder'
  <2> SUFFICES ASSUME NEW y \in Sides, NEW d \in Conns, y = "server" \/ up[d] = "on"
               PROVE  Received(y, d) <= wrote'[Peer(y)][d]
    BY <1>1, <1>2 DEF InOrder, Received
  <2>1. Received(y, d) <= wrote[Peer(y)][d] /\ Received(y, d) \in Nat
    BY <1>1, CountsTyped DEF InOrder, TunnelInv
  <2>2. wrote'[Peer(y)][d] >= wrote[Peer(y)][d] /\ wrote[Peer(y)][d] \in Nat
    BY <1>3, <1>6, PeerIsOther
  <2>3. wrote'[Peer(y)][d] \in Nat
    BY <1>3, PeerIsOther
  <2> HIDE DEF Received
  <2> QED
    BY <2>1, <2>2, <2>3
<1>9. EndsClose
  BY <1>2 DEF EndsClose, Shut
<1>10. ASSUME NEW y \in Sides, NEW d \in Conns PROVE CountsKept(y, d)
  <2>1. Received(y, d)' = Received(y, d)
    BY <1>2 DEF Received
  <2>2. Posted(Peer(y), d)' = Posted(Peer(y), d)
    <3>1. CASE Peer(y) = x /\ d = c
      <4>1. Posted(Peer(y), d)' = wrote'[x][c] - 1
        BY <1>4, <3>1 DEF Posted
      <4>2. Posted(Peer(y), d) = wrote[x][c]
        BY <1>2, <3>1 DEF Posted
      <4>3. wrote'[x][c] - 1 = wrote[x][c]
        BY <1>3, <1>6
      <4> QED
        BY <4>1, <4>2, <4>3
    <3>2. CASE ~(Peer(y) = x /\ d = c)
      BY <1>3, <1>4, <3>2, PeerIsOther DEF Posted
    <3> QED
      BY <3>1, <3>2
  <2> QED
    BY <2>1, <2>2 DEF CountsKept
<1> QED
  BY <1>2, <1>5, <1>7, <1>8, <1>9, <1>10, QuietStepInv

\* A taken chunk moves from the channel to what was passed on.
LEMMA ChunkTaken ==
  ASSUME NEW g \in Seq(Nat), NEW b \in Seq(Nat), b # <<>>
  PROVE  /\ Append(g, Head(b)) \in Seq(Nat) /\ Tail(b) \in Seq(Nat)
         /\ Len(g) \in Nat /\ Len(b) \in Nat /\ Len(Append(g, Head(b))) = Len(g) + 1
         /\ Len(b) >= 1 /\ Len(Tail(b)) = Len(b) - 1
         /\ Len(Append(g, Head(b))) + Len(Tail(b)) = Len(g) + Len(b)
         /\ \A i \in 1..Len(g) : Append(g, Head(b))[i] = g[i]
         /\ Append(g, Head(b))[Len(g) + 1] = b[1]
         /\ \A i \in 1..Len(Tail(b)) : Tail(b)[i] = b[i + 1]
<1>1. /\ Append(g, Head(b)) \in Seq(Nat) /\ Tail(b) \in Seq(Nat)
      /\ Len(g) \in Nat /\ Len(b) \in Nat /\ Len(Append(g, Head(b))) = Len(g) + 1
      /\ Len(b) >= 1 /\ Len(Tail(b)) = Len(b) - 1
      /\ \A i \in 1..Len(g) : Append(g, Head(b))[i] = g[i]
      /\ Append(g, Head(b))[Len(g) + 1] = b[1]
      /\ \A i \in 1..Len(Tail(b)) : Tail(b)[i] = b[i + 1]
  OBVIOUS
<1> QED
  BY <1>1

LEMMA TakeChunkInv ==
  ASSUME TunnelInv, NEW x \in Sides, NEW c \in Conns, TakeChunk(x, c),
         dial[c] # "idle", x = "client" => up[c] = "on",
         UNCHANGED <<serving, clients, link, net, dial, via, late, conns, end, wrote,
                     pending, seen, pipe, up, down, closing, closer, reason, byPeer, due>>
  PROVE  TunnelInv' /\ got'[x][c] = Append(got[x][c], Len(got[x][c]) + 1)
<1>1. /\ EndTypes /\ IoTypes /\ DialTypes /\ ConnLife /\ InOrder
      /\ "server" \in Sides /\ "client" \in Sides
  BY TypesSplit DEF TunnelInv, Sides
<1> DEFINE g == got[x][c]
           b == buf[x][c]
           h == Append(g, Head(b))
           t == Tail(b)
<1>2. /\ b # <<>> /\ g \in Seq(Nat) /\ b \in Seq(Nat)
      /\ got' = [got EXCEPT ![x][c] = h] /\ buf' = [buf EXCEPT ![x][c] = t]
  BY <1>1 DEF TakeChunk, IoTypes
<1>3. /\ h \in Seq(Nat) /\ t \in Seq(Nat)
      /\ Len(g) \in Nat /\ Len(b) \in Nat /\ Len(h) = Len(g) + 1
      /\ Len(b) >= 1 /\ Len(t) = Len(b) - 1 /\ Len(h) + Len(t) = Len(g) + Len(b)
      /\ \A i \in 1..Len(g) : h[i] = g[i]
      /\ h[Len(g) + 1] = b[1]
      /\ \A i \in 1..Len(t) : t[i] = b[i + 1]
  <2> HIDE DEF g, b
  <2> QED
    BY <1>2, ChunkTaken
<1> HIDE DEF h, t
<1>4. /\ got' \in [Sides -> [Conns -> Seq(Nat)]]
      /\ \A y \in Sides, d \in Conns :
           got'[y][d] = IF y = x /\ d = c THEN h ELSE got[y][d]
  <2>1. got \in [Sides -> [Conns -> Seq(Nat)]] /\ h \in Seq(Nat)
    BY <1>1, <1>3 DEF IoTypes
  <2>2. got' = [got EXCEPT ![x][c] = h]
    BY <1>2
  <2> QED
    BY <2>1, <2>2, EntryChanged
<1>5. /\ buf' \in [Sides -> [Conns -> Seq(Nat)]]
      /\ \A y \in Sides, d \in Conns :
           buf'[y][d] = IF y = x /\ d = c THEN t ELSE buf[y][d]
  <2>1. buf \in [Sides -> [Conns -> Seq(Nat)]] /\ t \in Seq(Nat)
    BY <1>1, <1>3 DEF IoTypes
  <2>2. buf' = [buf EXCEPT ![x][c] = t]
    BY <1>2
  <2> QED
    BY <2>1, <2>2, EntryChanged
<1>6. DialTypes' /\ EndTypes' /\ IoTypes'
  BY <1>1, <1>4, <1>5 DEF DialTypes, EndTypes, IoTypes
<1>7. ConnLife' /\ EndsClose
  <2>1. \A d \in Conns : dial'[d] = "idle" =>
          \A y \in Sides : got'[y][d] = <<>> /\ buf'[y][d] = <<>>
    <3> SUFFICES ASSUME NEW d \in Conns, dial[d] = "idle", NEW y \in Sides
                 PROVE  got'[y][d] = <<>> /\ buf'[y][d] = <<>>
      OBVIOUS
    <3>1. d # c
      OBVIOUS
    <3>2. got'[y][d] = got[y][d] /\ buf'[y][d] = buf[y][d]
      BY <1>4, <1>5, <3>1
    <3> QED
      BY <1>1, <3>2 DEF ConnLife
  <2>2. \A y \in Sides, d \in Conns : MapLife(y, d)'
    BY <1>1 DEF ConnLife, MapLife, Shut
  <2>3. EndsClose
    BY DEF EndsClose, Shut
  <2> QED
    BY <1>1, <2>1, <2>2, <2>3 DEF ConnLife
<1>8. /\ \A i \in 1..Len(g) : g[i] = i
      /\ \A i \in 1..Len(b) : b[i] = Len(g) + i
  BY <1>1 DEF InOrder, Sides
<1>9. b[1] = Len(g) + 1 /\ h = Append(g, Len(g) + 1)
  <2>1. b[1] = Len(g) + 1 /\ b[1] = Head(b)
    <3>1. 1 \in 1..Len(b) /\ b[1] = Head(b)
      BY <1>2, <1>3
    <3> QED
      BY <1>8, <3>1
  <2> QED
    BY <2>1 DEF h
<1>10. Received(x, c)' = Received(x, c)
  BY <1>3, <1>4, <1>5 DEF Received
<1>11. \A y \in Sides, d \in Conns : Received(y, d)' = Received(y, d)
  BY <1>4, <1>5, <1>10 DEF Received
<1>12. InOrder'
  <2> SUFFICES ASSUME NEW y \in Sides, NEW d \in Conns
               PROVE  /\ \A i \in 1..Len(got'[y][d]) : got'[y][d][i] = i
                      /\ y = "server" \/ up[d] = "on" =>
                           /\ Received(y, d) <= wrote[Peer(y)][d]
                           /\ \A i \in 1..Len(buf'[y][d]) :
                                buf'[y][d][i] = Len(got'[y][d]) + i
    BY <1>11 DEF InOrder
  <2>1. CASE ~(y = x /\ d = c)
    <3>1. got'[y][d] = got[y][d] /\ buf'[y][d] = buf[y][d]
      BY <1>4, <1>5, <2>1
    <3> QED
      BY <1>1, <3>1 DEF InOrder
  <2>2. CASE y = x /\ d = c
    <3>1. got'[y][d] = h /\ buf'[y][d] = t
      BY <1>4, <1>5, <2>2
    <3> HIDE DEF g, b
    <3>2. \A i \in 1..Len(h) : h[i] = i
      <4> SUFFICES ASSUME NEW i \in 1..Len(h) PROVE h[i] = i
        OBVIOUS
      <4>1. i \in 1..Len(g) \/ i = Len(g) + 1
        BY <1>3
      <4> QED
        BY <1>3, <1>8, <1>9, <4>1
    <3>3. \A i \in 1..Len(t) : t[i] = Len(h) + i
      <4> SUFFICES ASSUME NEW i \in 1..Len(t) PROVE t[i] = Len(h) + i
        OBVIOUS
      <4>1. i + 1 \in 1..Len(b)
        BY <1>3
      <4>2. t[i] = Len(g) + (i + 1)
        BY <1>3, <1>8, <4>1
      <4> QED
        BY <1>3, <4>2
    <3>4. y = "server" \/ up[d] = "on" => Received(y, d) <= wrote[Peer(y)][d]
      BY <1>1 DEF InOrder
    <3> QED
      BY <3>1, <3>2, <3>3, <3>4
  <2> QED
    BY <2>1, <2>2
<1>13. \A y \in Sides, d \in Conns : CountsKept(y, d)
  BY <1>11 DEF CountsKept, Posted
<1>14. TunnelInv'
  BY <1>6, <1>7, <1>12, <1>13, QuietStepInv
<1> QED
  BY <1>4, <1>9, <1>14

\* io.Copy from the target ends: the end is closed, and a Write that could not
\* be posted is given up because the websocket is broken.
LEMMA DownEndsInv ==
  ASSUME TunnelInv, NEW c \in Conns, NEW e \in Errors, DownEnds(c, e)
  PROVE  TunnelInv'
<1>1. /\ EndTypes /\ IoTypes /\ DialTypes /\ ConnLife /\ InOrder
      /\ "server" \in Sides /\ "client" \in Sides
      /\ "none" \notin Errors /\ "open" \notin Errors
  BY TypesSplit DEF TunnelInv, Sides, Errors
<1>2. /\ pipe[c] = "copying"
      /\ pending["client"][c] => link[via[c]] # "up"
      /\ down' = [down EXCEPT ![c] = e]
      /\ pending' = [pending EXCEPT !["client"][c] = FALSE]
      /\ DoTunnelClose("client", c, e)
      /\ UNCHANGED <<serving, clients, link, net, dial, via, late, conns, buf, wrote, got,
                     seen, pipe, up, closing, closer, reason, byPeer, due>>
  BY DEF DownEnds, dialVars, closeVars
<1>3. /\ end' \in [Sides -> [Conns -> {"none", "open"} \cup Errors]]
      /\ \A y \in Sides, d \in Conns :
           end'[y][d] = IF y = "client" /\ d = c /\ end["client"][c] = "open" THEN e
                        ELSE end[y][d]
  BY <1>1, <1>2, CloseTyped
<1>4. /\ pending' \in [Sides -> [Conns -> BOOLEAN]]
      /\ \A y \in Sides, d \in Conns :
           pending'[y][d] = IF y = "client" /\ d = c THEN FALSE ELSE pending[y][d]
  <2> DEFINE v == FALSE
  <2>1. pending \in [Sides -> [Conns -> BOOLEAN]] /\ v \in BOOLEAN
    BY <1>1 DEF IoTypes
  <2>2. pending' = [pending EXCEPT !["client"][c] = v]
    BY <1>2
  <2> HIDE DEF v
  <2>3. /\ pending' \in [Sides -> [Conns -> BOOLEAN]]
        /\ \A y \in Sides, d \in Conns :
             pending'[y][d] = IF y = "client" /\ d = c THEN v ELSE pending[y][d]
    BY <1>1, <2>1, <2>2, EntryChanged
  <2> QED
    BY <2>3 DEF v
<1>5. EndTypes' /\ IoTypes' /\ DialTypes'
  BY <1>1, <1>2, <1>3, <1>4 DEF DialTypes, EndTypes, IoTypes
<1>6. /\ \A y \in Sides, d \in Conns :
           \/ end'[y][d] = end[y][d]
           \/ end[y][d] = "open" /\ end'[y][d] \in Errors
      /\ \A y \in Sides, d \in Conns : pending'[y][d] => pending[y][d]
  BY <1>3, <1>4
<1>7. ConnLife'
  <2> SUFFICES ASSUME NEW d \in Conns
               PROVE  /\ end'["server"][d] = "none" <=> dial[d] \in {"idle", "got"}
                      /\ end'["client"][d] # "none" => dial[d] = "returned"
                      /\ pipe[d] # "none" => end'["client"][d] # "none"
                      /\ up[d] = "done" => end'["client"][d] \in Errors
                      /\ \A y \in Sides : /\ MapLife(y, d)'
                                          /\ pending'[y][d] => wrote[y][d] > 0
    BY <1>1, <1>2 DEF ConnLife
  <2>1. /\ end'["server"][d] = "none" <=> end["server"][d] = "none"
        /\ end'["client"][d] = "none" <=> end["client"][d] = "none"
        /\ end["client"][d] \in Errors => end'["client"][d] \in Errors
    BY <1>1, <1>6
  <2>2. /\ end'["server"][d] = "none" <=> dial[d] \in {"idle", "got"}
        /\ end'["client"][d] # "none" => dial[d] = "returned"
        /\ pipe[d] # "none" => end'["client"][d] # "none"
        /\ up[d] = "done" => end'["client"][d] \in Errors
    BY <1>1, <2>1 DEF ConnLife
  <2>4. \A y \in Sides : MapLife(y, d)'
    BY <1>1, <1>2, <1>6, MapLifeKept DEF ConnLife
  <2>3. \A y \in Sides : pending'[y][d] => wrote[y][d] > 0
    BY <1>1, <1>6 DEF ConnLife
  <2> QED
    BY <2>2, <2>3, <2>4
<1>8. InOrder'
  BY <1>1, <1>2 DEF InOrder, Received
<1>9. EndsClose
  BY <1>1, <1>2, <1>6 DEF EndsClose, Shut
<1>10. ASSUME NEW y \in Sides, NEW d \in Conns PROVE CountsKept(y, d)
  <2>1. Received(y, d)' = Received(y, d)
    BY <1>2 DEF Received
  <2>2. \/ Posted(Peer(y), d)' = Posted(Peer(y), d)
        \/ /\ Posted(Peer(y), d)' = Posted(Peer(y), d) + 1
           /\ link'[via[d]] # "up"
    <3>1. CASE pending'[Peer(y)][d] = pending[Peer(y)][d]
      BY <1>2, <3>1 DEF Posted
    <3>2. CASE pending'[Peer(y)][d] # pending[Peer(y)][d]
      <4>1. Peer(y) = "client" /\ d = c
        BY <1>4, <3>2, PeerIsOther
      <4>2. pending[Peer(y)][d] /\ ~pending'[Peer(y)][d]
        <5>1. pending["client"][c] \in BOOLEAN
          BY <1>1 DEF IoTypes
        <5>2. pending'["client"][c] = FALSE
          BY <1>1, <1>4
        <5> QED
          BY <3>2, <4>1, <5>1, <5>2
      <4>3. Posted(Peer(y), d) = wrote[Peer(y)][d] - 1 /\ Posted(Peer(y), d)' = wrote[Peer(y)][d]
        BY <1>2, <4>2 DEF Posted
      <4>4. wrote[Peer(y)][d] \in Nat
        BY <1>1, PeerIsOther DEF IoTypes
      <4>5. Posted(Peer(y), d)' = Posted(Peer(y), d) + 1
        BY <4>3, <4>4
      <4> QED
        BY <1>2, <4>1, <4>2, <4>5
    <3> QED
      BY <3>1, <3>2
  <2> QED
    BY <2>1, <2>2 DEF CountsKept
<1> QED
  BY <1>2, <1>5, <1>7, <1>8, <1>9, <1>10, QuietStepInv

\* io.Copy to the target ends: the client's end is closed from then on.
LEMMA UpEndsInv ==
  ASSUME TunnelInv, NEW c \in Conns, UpEnds(c)
  PROVE  TunnelInv'
<1>1. /\ EndTypes /\ IoTypes /\ DialTypes /\ ConnLife /\ InOrder
      /\ "server" \in Sides /\ "client" \in Sides
      /\ "none" \notin Errors /\ "open" \notin Errors /\ "err" \in Errors
  BY TypesSplit DEF TunnelInv, Sides, Errors
<1>2. /\ pipe[c] = "copying"
      /\ up' = [up EXCEPT ![c] = "done"]
      /\ got' = got
      /\ UNCHANGED <<serving, clients, link, net, dial, via, late, conns, wrote, pending,
                     pipe, down, closing, closer, reason, byPeer, due>>
      /\ \/ /\ end["client"][c] \in Errors
            /\ seen' = [seen EXCEPT !["client"][c] = end["client"][c]]
            /\ UNCHANGED <<buf, end>>
         \/ /\ buf["client"][c] # <<>>
            /\ buf' = [buf EXCEPT !["client"][c] = Tail(@)]
            /\ DoTunnelClose("client", c, "err")
            /\ UNCHANGED seen
  BY DEF UpEnds, Drained, dialVars, closeVars
<1>3. /\ end' \in [Sides -> [Conns -> {"none", "open"} \cup Errors]]
      /\ \A y \in Sides, d \in Conns :
           \/ end'[y][d] = end[y][d]
           \/ end[y][d] = "open" /\ end'[y][d] \in Errors
      /\ end'["client"][c] \in Errors
  <2>1. CASE end["client"][c] \in Errors /\ UNCHANGED end
    BY <1>1, <2>1 DEF EndTypes
  <2>2. CASE DoTunnelClose("client", c, "err")
    <3>1. /\ end' \in [Sides -> [Conns -> {"none", "open"} \cup Errors]]
          /\ \A y \in Sides, d \in Conns :
               end'[y][d] = IF y = "client" /\ d = c /\ end["client"][c] = "open"
                            THEN "err" ELSE end[y][d]
      BY <1>1, <2>2, CloseTyped
    <3>2. end["client"][c] # "none" /\ end["client"][c] \in {"none", "open"} \cup Errors
      BY <1>1, <1>2 DEF ConnLife, EndTypes
    <3> QED
      BY <1>1, <3>1, <3>2
  <2> QED
    BY <1>2, <2>1, <2>2
<1>4. /\ buf' \in [Sides -> [Conns -> Seq(Nat)]]
      /\ \A y \in Sides, d \in Conns : ~(y = "client" /\ d = c) => buf'[y][d] = buf[y][d]
  <2>1. buf \in [Sides -> [Conns -> Seq(Nat)]]
    BY <1>1 DEF IoTypes
  <2>2. CASE UNCHANGED buf
    BY <2>1, <2>2
  <2>3. CASE /\ buf["client"][c] # <<>>
             /\ buf' = [buf EXCEPT !["client"][c] = Tail(buf["client"][c])]
    <3> DEFINE t == Tail(buf["client"][c])
    <3>1. t \in Seq(Nat)
      <4>1. buf["client"][c] \in Seq(Nat)
        BY <1>1, <2>1
      <4> QED
        BY <2>3, <4>1
    <3>2. buf' = [buf EXCEPT !["client"][c] = t]
      BY <2>3
    <3> HIDE DEF t
    <3> QED
      BY <1>1, <2>1, <3>1, <3>2, EntryChanged
  <2> QED
    BY <1>2, <2>2, <2>3
<1>5. seen' \in [Sides -> [Conns -> {"none"} \cup Errors]]
  <2>1. seen \in [Sides -> [Conns -> {"none"} \cup Errors]]
    BY <1>1 DEF IoTypes
  <2>2. CASE UNCHANGED seen
    BY <2>1, <2>2
  <2>3. CASE /\ end["client"][c] \in Errors
             /\ seen' = [seen EXCEPT !["client"][c] = end["client"][c]]
    <3> DEFINE v == end["client"][c]
    <3>1. v \in {"none"} \cup Errors /\ seen' = [seen EXCEPT !["client"][c] = v]
      BY <2>3
    <3> HIDE DEF v
    <3> QED
      BY <1>1, <2>1, <3>1, EntryChanged
  <2> QED
    BY <1>2, <2>2, <2>3
<1>6. EndTypes' /\ IoTypes' /\ DialTypes'
  BY <1>1, <1>2, <1>3, <1>4, <1>5 DEF DialTypes, EndTypes, IoTypes
<1>7. \A d \in Conns : up'[d] = IF d = c THEN "done" ELSE up[d]
  BY <1>1, <1>2 DEF DialTypes
<1>8. ConnLife'
  <2> SUFFICES ASSUME NEW d \in Conns
               PROVE  /\ end'["server"][d] = "none" <=> dial[d] \in {"idle", "got"}
                      /\ end'["client"][d] # "none" => dial[d] = "returned"
                      /\ pipe[d] # "none" => end'["client"][d] # "none"
                      /\ up'[d] = "done" => end'["client"][d] \in Errors
                      /\ \A y \in Sides : /\ MapLife(y, d)'
                                          /\ dial[d] = "idle" => buf'[y][d] = <<>>
    BY <1>1, <1>2 DEF ConnLife
  <2>1. /\ end'["server"][d] = "none" <=> end["server"][d] = "none"
        /\ end'["client"][d] = "none" <=> end["client"][d] = "none"
        /\ end["client"][d] \in Errors => end'["client"][d] \in Errors
    BY <1>1, <1>3
  <2>2. /\ end'["server"][d] = "none" <=> dial[d] \in {"idle", "got"}
        /\ end'["client"][d] # "none" => dial[d] = "returned"
        /\ pipe[d] # "none" => end'["client"][d] # "none"
    BY <1>1, <2>1 DEF ConnLife
  <2>5. \A y \in Sides : MapLife(y, d)'
    BY <1>1, <1>2, <1>3, MapLifeKept DEF ConnLife
  <2>3. up'[d] = "done" => end'["client"][d] \in Errors
    BY <1>1, <1>3, <1>7, <2>1 DEF ConnLife
  <2>4. \A y \in Sides : dial[d] = "idle" => buf'[y][d] = <<>>
    <3> SUFFICES ASSUME NEW y \in Sides, dial[d] = "idle" PROVE buf'[y][d] = <<>>
      OBVIOUS
    <3>1. d # c
      BY <1>1, <1>2 DEF ConnLife
    <3>2. buf'[y][d] = buf[y][d]
      BY <1>4, <3>1
    <3> QED
      BY <1>1, <3>2 DEF ConnLife
  <2> QED
    BY <2>2, <2>3, <2>4, <2>5
<1>9. InOrder'
  <2> SUFFICES ASSUME NEW y \in Sides, NEW d \in Conns, y = "server" \/ up'[d] = "on"
               PROVE  /\ Received(y, d)' <= wrote[Peer(y)][d]
                      /\ \A i \in 1..Len(buf'[y][d]) : buf'[y][d][i] = Len(got[y][d]) + i
    BY <1>1, <1>2 DEF InOrder
  <2>1. ~(y = "client" /\ d = c) /\ (y = "server" \/ up[d] = "on")
    BY <1>7
  <2>2. buf'[y][d] = buf[y][d] /\ Received(y, d)' = Received(y, d)
    BY <1>2, <1>4, <2>1 DEF Received
  <2> QED
    BY <1>1, <2>1, <2>2 DEF InOrder
<1>10. EndsClose
  BY <1>1, <1>2, <1>3 DEF EndsClose, Shut
<1>11. ASSUME NEW y \in Sides, NEW d \in Conns PROVE CountsKept(y, d)
  <2>1. CASE y = "client" /\ d = c
    BY <1>3, <2>1 DEF CountsKept, Shut
  <2>2. CASE ~(y = "client" /\ d = c)
    BY <1>2, <1>4, <2>2 DEF CountsKept, Received, Posted
  <2> QED
    BY <2>1, <2>2
<1> QED
  BY <1>2, <1>6, <1>8, <1>9, <1>10, <1>11, QuietStepInv

-----------------------------------------------------------------------------
(* Steps that send or take data and requests *)

\* A connection that has not been dialed has nothing anywhere.
LEMMA UndialedIsEmpty ==
  ASSUME TunnelInv, NEW c \in Conns, dial[c] \notin {"returned"}, NEW y \in Sides
  PROVE  /\ wrote[y][c] = 0 /\ Posted(y, c) = 0
         /\ end["client"][c] = "none" /\ pipe[c] = "none"
<1>1. ConnLife /\ wrote[y][c] \in Nat /\ pending[y][c] \in BOOLEAN
  BY DEF TunnelInv, TypeOK
<1>2. end["client"][c] = "none" /\ pipe[c] = "none"
  BY <1>1 DEF ConnLife
<1>3. ~(wrote[y][c] > 0)
  BY <1>1, <1>2 DEF ConnLife, Sides
<1>4. wrote[y][c] = 0
  BY <1>1, <1>3
<1>5. ~pending[y][c]
  BY <1>1, <1>3 DEF ConnLife
<1>6. Posted(y, c) = wrote[y][c]
  BY <1>5 DEF Posted
<1> QED
  BY <1>2, <1>4, <1>6

\* Server.Dial: a session that is registered has been opened.
LEMMA GetByClientInv ==
  ASSUME TunnelInv, NEW c \in Conns, GetByClient(c)
  PROVE  TunnelInv'
<1>1. /\ TypeOK /\ EndTypes /\ IoTypes /\ DialTypes /\ SessionTypes /\ net \in NetType
      /\ ConnLife /\ InOrder /\ SessionLife /\ OwnMessages /\ NoGap /\ RequestFirst
      /\ "server" \in Sides /\ "client" \in Sides
  BY TypesSplit DEF TunnelInv, Sides
<1>2. PICK s \in clients : via' = [via EXCEPT ![c] = s]
  BY DEF GetByClient
<1>3. /\ dial[c] = "idle" /\ dial' = [dial EXCEPT ![c] = "got"]
      /\ UNCHANGED <<serving, clients, link, net, conns, end, buf, wrote, pending, got,
                     seen, pipe, up, down, closing, closer, reason, byPeer, late, due>>
  BY DEF GetByClient, ioVars, pipeVars, closeVars
<1>4. s \in Sessions /\ s # NoSession /\ NoSession \notin Sessions /\ link[s] # "none"
  BY <1>1, TunnelBounds DEF SessionTypes, NoSession, SessionLife
<1>5. \A d \in Conns : /\ via'[d] = IF d = c THEN s ELSE via[d]
                       /\ dial'[d] = IF d = c THEN "got" ELSE dial[d]
  BY <1>1, <1>2, <1>3 DEF DialTypes
<1>6. TypeOK'
  <2>1. DialTypes'
    BY <1>1, <1>2, <1>3, <1>4 DEF DialTypes
  <2>2. EndTypes' /\ IoTypes' /\ SessionTypes' /\ net' \in NetType
    BY <1>1, <1>3 DEF EndTypes, IoTypes, SessionTypes
  <2> QED
    BY <1>1, <1>3, <2>1, <2>2, TypesStill
<1>7. SessionLife'
  BY <1>1, <1>3, <1>4, <1>5 DEF SessionLife
<1>8. /\ via[c] = NoSession /\ end["server"][c] = "none"
      /\ end["client"][c] = "none" /\ pipe[c] = "none"
      /\ \A y \in Sides : /\ wrote[y][c] = 0 /\ Posted(y, c) = 0
                          /\ got[y][c] = <<>> /\ buf[y][c] = <<>>
  BY <1>1, <1>3, UndialedIsEmpty DEF ConnLife
<1>9. ConnLife'
  <2> SUFFICES ASSUME NEW d \in Conns
               PROVE  /\ dial'[d] = "idle" <=> via'[d] = NoSession
                      /\ end["server"][d] = "none" <=> dial'[d] \in {"idle", "got"}
                      /\ end["client"][d] # "none" => dial'[d] = "returned"
                      /\ wrote["server"][d] > 0 => dial'[d] = "returned"
                      /\ \A y \in Sides :
                           dial'[d] = "idle" => got[y][d] = <<>> /\ buf[y][d] = <<>>
    <3>1. \A y \in Sides, d \in Conns : MapLife(y, d)'
      BY <1>1, <1>3, MapLifeStill DEF ConnLife
    <3> QED
      BY <1>1, <1>3, <3>1 DEF ConnLife
  <2>1. CASE d = c
    BY <1>1, <1>4, <1>5, <1>8, <2>1
  <2>2. CASE d # c
    BY <1>1, <1>5, <2>2 DEF ConnLife
  <2> QED
    BY <2>1, <2>2
<1>10. InOrder'
  BY <1>1, <1>3 DEF InOrder, Received
<1>11. \A r \in Sessions, y \in Sides : \A i \in 1..Len(net[r][y]) :
         net[r][y][i].type # "error" => net[r][y][i].conn # c
  BY <1>1, <1>4, <1>8 DEF OwnMessages
<1>12. OwnMessages'
  <2> SUFFICES ASSUME NEW r \in Sessions, NEW y \in Sides,
                      NEW i \in 1..Len(net[r][y]), net[r][y][i].type # "error"
               PROVE  LET m == net[r][y][i] IN
                      /\ via'[m.conn] = r
                      /\ m.type = "connect" =>
                           /\ y = "client" /\ dial'[m.conn] = "returned"
                           /\ end["client"][m.conn] = "none"
    BY <1>1, <1>3 DEF OwnMessages
  <2> DEFINE m == net[r][y][i]
  <2>1. m.conn \in Conns
    <3>1. net[r][y] \in Seq(Messages)
      BY <1>1 DEF NetType
    <3>2. m \in Messages
      BY <3>1
    <3> HIDE DEF m
    <3> QED
      BY <3>2, MessageTypes
  <2>2. m.conn # c
    BY <1>11
  <2>3. via'[m.conn] = via[m.conn] /\ dial'[m.conn] = dial[m.conn]
    BY <1>5, <2>1, <2>2
  <2> QED
    BY <1>1, <2>3 DEF OwnMessages
<1>13. ASSUME NEW d \in Conns PROVE RequestAt(d)'
  <2>1. CASE d = c
    BY <1>5, <2>1 DEF RequestAt
  <2>2. CASE d # c
    BY <1>1, <1>3, <1>5, <2>2 DEF RequestAt, RequestFirst
  <2> QED
    BY <2>1, <2>2
<1>14. ASSUME NEW y \in Sides, NEW d \in Conns PROVE GapAt(y, d)'
  <2>1. CASE d = c
    <3>1. Received(y, d)' = 0 /\ Posted(Peer(y), d)' = 0
      <4>1. Posted(Peer(y), c) = 0 /\ Posted(Peer(y), c)' = Posted(Peer(y), c)
        BY <1>3, <1>8, PeerIsOther DEF Posted
      <4>2. Received(y, c)' = Len(<<>>) + Len(<<>>)
        BY <1>3, <1>8 DEF Received
      <4> QED
        BY <2>1, <4>1, <4>2
    <3>2. Run(net[s][y], c, 0, 0)
      <4>1. \A i \in 1..Len(net[s][y]) : ~IsData(net[s][y][i], c)
        BY <1>4, <1>11 DEF IsData
      <4> QED
        BY <4>1 DEF Run
    <3>3. 0 \in 0..0
      OBVIOUS
    <3>4. \E m \in Received(y, c)'..Posted(Peer(y), c)' :
            /\ Run(net'[via'[c]][y], c, Received(y, c)', m)
            /\ link'[via'[c]] = "up" => m = Posted(Peer(y), c)'
      BY <1>3, <1>5, <2>1, <3>1, <3>2, <3>3
    <3> QED
      BY <2>1, <3>4 DEF GapAt
  <2>2. CASE d # c
    <3>1. Received(y, d)' = Received(y, d) /\ Posted(Peer(y), d)' = Posted(Peer(y), d)
      BY <1>3 DEF Received, Posted
    <3>2. via'[d] = via[d] /\ (Shut(y, d)' <=> Shut(y, d))
      BY <1>3, <1>5, <2>2, ShutStill
    <3> QED
      BY <1>1, <1>3, <3>1, <3>2 DEF GapAt, NoGap
  <2> QED
    BY <2>1, <2>2
<1> QED
  BY <1>6, <1>7, <1>9, <1>10, <1>12, <1>13, <1>14 DEF TunnelInv, RequestFirst, NoGap

\* A written message is the last of one queue, or lost on a broken websocket.
LEMMA MessageWritten ==
  ASSUME NEW n \in NetType, NEW s \in Sessions, NEW x \in Sides, NEW m \in Messages,
         WriteMessage(s, x, n, m)
  PROVE  \A r \in Sessions, y \in Sides :
           net'[r][y] = IF r = s /\ y = Peer(x) /\ link[s] = "up"
                        THEN Append(n[r][y], m) ELSE n[r][y]
<1> SUFFICES ASSUME NEW r \in Sessions, NEW y \in Sides
             PROVE  net'[r][y] = IF r = s /\ y = Peer(x) /\ link[s] = "up"
                                 THEN Append(n[r][y], m) ELSE n[r][y]
  OBVIOUS
<1>1. CASE link[s] # "up"
  BY <1>1 DEF WriteMessage
<1>2. CASE link[s] = "up"
  <2> DEFINE p == Append(n[s][Peer(x)], m)
  <2>1. net' = [n EXCEPT ![s] = [n[s] EXCEPT ![Peer(x)] = p]]
    BY <1>2 DEF WriteMessage
  <2>2. n[s] \in [Sides -> Seq(Messages)] /\ Peer(x) \in Sides
    BY PeerIsOther DEF NetType
  <2> HIDE DEF p
  <2>3. net'[r] = IF r = s THEN [n[s] EXCEPT ![Peer(x)] = p] ELSE n[r]
    BY <2>1 DEF NetType
  <2>4. net'[r][y] = IF r = s /\ y = Peer(x) THEN p ELSE n[r][y]
    BY <2>2, <2>3
  <2> QED
    BY <1>2, <2>4 DEF p
<1> QED
  BY <1>1, <1>2

\* An added request or chunk is the only message that is not from before.
LEMMA OwnAdded ==
  ASSUME TypeOK, OwnMessages, NEW s \in Sessions, NEW x \in Sides, NEW m \in Messages,
         UNCHANGED via, via[m.conn] = s,
         \A c \in Conns :
           dial[c] = "returned" /\ end["client"][c] = "none" =>
             dial'[c] = "returned" /\ end'["client"][c] = "none",
         m.type = "connect" =>
           /\ x = "server" /\ dial'[m.conn] = "returned"
           /\ end'["client"][m.conn] = "none"
           /\ ~Announced(net[s]["client"], m.conn),
         \A r \in Sessions, y \in Sides :
           \/ net'[r][y] = net[r][y]
           \/ r = s /\ y = Peer(x) /\ net'[r][y] = Append(net[r][y], m)
  PROVE  OwnMessages'
<1> SUFFICES ASSUME NEW r \in Sessions, NEW y \in Sides
             PROVE  /\ \A i \in 1..Len(net'[r][y]) :
                         LET k == net'[r][y][i] IN
                         /\ k.type # "error" => via[k.conn] = r
                         /\ k.type = "connect" =>
                              /\ y = "client" /\ dial'[k.conn] = "returned"
                              /\ end'["client"][k.conn] = "none"
                    /\ \A c \in Conns : OneRequest(net'[r][y], c)
  BY DEF OwnMessages
<1>1. net[r][y] \in Seq(Messages) /\ Peer(x) \in Sides
  BY PeerIsOther DEF TypeOK
<1>2. ASSUME NEW i \in 1..Len(net[r][y])
      PROVE  LET k == net[r][y][i] IN
             /\ k.type # "error" => via[k.conn] = r
             /\ k.type = "connect" =>
                  /\ y = "client" /\ dial'[k.conn] = "returned"
                  /\ end'["client"][k.conn] = "none"
  <2> DEFINE k == net[r][y][i]
  <2>1. k \in Messages
    BY <1>1
  <2>2. /\ k.type # "error" => via[k.conn] = r
        /\ k.type = "connect" =>
             y = "client" /\ dial[k.conn] = "returned" /\ end["client"][k.conn] = "none"
    BY DEF OwnMessages
  <2> HIDE DEF k
  <2>3. k.conn \in Conns
    BY <2>1, MessageTypes
  <2>4. /\ k.type # "error" => via[k.conn] = r
        /\ k.type = "connect" =>
             y = "client" /\ dial'[k.conn] = "returned" /\ end'["client"][k.conn] = "none"
    BY <2>2, <2>3
  <2> QED
    BY <2>4 DEF k
<1>3. \A c \in Conns : OneRequest(net[r][y], c)
  BY DEF OwnMessages
<1>4. CASE net'[r][y] = net[r][y]
  BY <1>2, <1>3, <1>4
<1>5. CASE r = s /\ y = Peer(x) /\ net'[r][y] = Append(net[r][y], m)
  <2> DEFINE q == net[r][y]
             p == Append(q, m)
  <2>1. /\ Len(p) = Len(q) + 1 /\ Len(q) \in Nat
        /\ \A i \in 1..Len(q) : p[i] = q[i]
        /\ p[Len(q) + 1] = m
    BY <1>1, QueueAppend
  <2>2. m.type = "connect" => y = "client"
    BY <1>5 DEF Peer
  <2>3. \A c \in Conns : OneRequest(p, c)
    <3> SUFFICES ASSUME NEW c \in Conns PROVE OneRequest(p, c)
      OBVIOUS
    <3>1. IsConnect(m, c) => ~Announced(q, c)
      BY <1>5, <2>2 DEF IsConnect
    <3> QED
      BY <1>1, <1>3, <3>1, AppendKeeps
  <2> HIDE DEF p
  <2>4. ASSUME NEW i \in 1..Len(p)
        PROVE  LET k == p[i] IN
               /\ k.type # "error" => via[k.conn] = r
               /\ k.type = "connect" =>
                    /\ y = "client" /\ dial'[k.conn] = "returned"
                    /\ end'["client"][k.conn] = "none"
    <3>1. CASE i \in 1..Len(q)
      BY <1>2, <2>1, <3>1
    <3>2. CASE i = Len(q) + 1
      BY <1>5, <2>1, <2>2, <3>2
    <3> QED
      BY <2>1, <3>1, <3>2
  <2> QED
    BY <1>5, <2>3, <2>4 DEF p
<1> QED
  BY <1>4, <1>5

\* The request of a connection is sent before any of its data.
LEMMA SendConnectInv ==
  ASSUME TunnelInv, NEW c \in Conns, SendConnect(c)
  PROVE  TunnelInv'
<1>1. /\ TypeOK /\ EndTypes /\ IoTypes /\ DialTypes /\ SessionTypes /\ net \in NetType
      /\ ConnLife /\ InOrder /\ SessionLife /\ OwnMessages
      /\ \A y \in Sides, d \in Conns : GapAt(y, d)
      /\ \A d \in Conns : RequestAt(d)
      /\ "server" \in Sides /\ "client" \in Sides /\ Peer("server") = "client"
      /\ "none" \notin Errors
  BY TypesSplit DEF TunnelInv, Sides, NoGap, RequestFirst, Peer, Errors
<1> DEFINE s == via[c]
<1>2. /\ dial[c] = "inserted" /\ dial' = [dial EXCEPT ![c] = "returned"]
      /\ WriteMessage(s, "server", net, Connect(c))
      /\ UNCHANGED <<serving, clients, link, via, conns, end, buf, wrote, pending, got,
                     seen, pipe, up, down, closing, closer, reason, byPeer, late, due>>
  BY DEF SendConnect, ioVars, pipeVars, closeVars
<1>3. s \in Sessions /\ Connect(c) \in Messages
  BY <1>2, UsedSession, MessageTypes
<1> HIDE DEF s
<1>4. net' \in NetType
  BY <1>1, <1>2, <1>3, WriteTyped
<1>5. \A r \in Sessions, y \in Sides :
        net'[r][y] = IF r = s /\ y = "client" /\ link[s] = "up"
                     THEN Append(net[r][y], Connect(c)) ELSE net[r][y]
  BY <1>1, <1>2, <1>3, MessageWritten
<1>6. DialTypes' /\ \A d \in Conns : dial'[d] = IF d = c THEN "returned" ELSE dial[d]
  BY <1>1, <1>2 DEF DialTypes
<1>7. TypeOK'
  <2>1. EndTypes' /\ IoTypes' /\ SessionTypes'
    BY <1>1, <1>2 DEF EndTypes, IoTypes, SessionTypes
  <2> QED
    BY <1>1, <1>2, <1>4, <1>6, <2>1, TypesStill
<1>8. SessionLife' /\ InOrder'
  BY <1>1, <1>2 DEF SessionLife, InOrder, Received
<1>9. ConnLife'
  <2>1. \A y \in Sides, d \in Conns : MapLife(y, d)'
    BY <1>1, <1>2, MapLifeStill DEF ConnLife
  <2> QED
    BY <1>1, <1>2, <1>6, <2>1 DEF ConnLife
<1>10. end["client"][c] = "none" /\ Posted("server", c) = 0
  BY <1>1, <1>2, UndialedIsEmpty
<1>11. \A i \in 1..Len(net[s]["client"]) : ~IsData(net[s]["client"][i], c)
  <2>1. s # NoSession
    BY <1>1, <1>2 DEF ConnLife, s
  <2>2. PICK m \in Received("client", c)..0 : Run(net[s]["client"], c, Received("client", c), m)
    <3>1. Peer("client") = "server" /\ GapAt("client", c) /\ MapLife("client", c)
      BY <1>1 DEF Peer, ConnLife
    <3>2. ~Shut("client", c)
      BY <1>1, <1>10, <3>1, UnopenedNotShut
    <3> QED
      BY <1>1, <1>10, <2>1, <3>1, <3>2 DEF GapAt, s
  <2>3. Received("client", c) \in Nat
    BY <1>1, CountsTyped
  <2> QED
    BY <2>2, <2>3 DEF Run
<1>12. ~Announced(net[s]["client"], c)
  BY <1>1, <1>2, <1>3 DEF OwnMessages, Announced, IsConnect
<1>13. /\ Connect(c).conn = c /\ Connect(c).type = "connect"
       /\ \A d \in Conns : ~IsData(Connect(c), d)
  BY DEF Connect, IsData
<1>14. OwnMessages'
  <2>1. \A d \in Conns :
          dial[d] = "returned" /\ end["client"][d] = "none" =>
            dial'[d] = "returned" /\ end'["client"][d] = "none"
    BY <1>2, <1>6
  <2>2. dial'[c] = "returned" /\ end'["client"][c] = "none"
    BY <1>2, <1>6, <1>10
  <2>3. via[Connect(c).conn] = s
    BY <1>13 DEF s
  <2>4. \A r \in Sessions, y \in Sides :
          \/ net'[r][y] = net[r][y]
          \/ r = s /\ y = Peer("server") /\ net'[r][y] = Append(net[r][y], Connect(c))
    BY <1>1, <1>5
  <2>5. UNCHANGED via
    BY <1>2
  <2> QED
    BY <1>1, <1>3, <1>12, <1>13, <2>1, <2>2, <2>3, <2>4, <2>5, OwnAdded
<1>15. ASSUME NEW d \in Conns PROVE RequestAt(d)'
  <2>1. CASE d = c
    <3> DEFINE q == net[s]["client"]
    <3>1. q \in Seq(Messages) /\ Preceded(q, c)
      BY <1>1, <1>3, <1>11 DEF Preceded, NetType
    <3>2. net'[s]["client"] = IF link[s] = "up" THEN Append(q, Connect(c)) ELSE q
      BY <1>1, <1>3, <1>5
    <3>3. Preceded(Append(q, Connect(c)), c)
      BY <1>3, <1>13, <3>1, AppendKeeps
    <3>4. Announced(Append(q, Connect(c)), c)
      <4>1. /\ Len(Append(q, Connect(c))) = Len(q) + 1 /\ Len(q) \in Nat
            /\ Append(q, Connect(c))[Len(q) + 1] = Connect(c)
        BY <1>3, <3>1, QueueAppend
      <4> QED
        BY <1>13, <4>1 DEF Announced, IsConnect
    <3> HIDE DEF q
    <3> QED
      BY <1>2, <2>1, <3>1, <3>2, <3>3, <3>4 DEF RequestAt, s
  <2>2. CASE d # c
    <3>1. dial'[d] = dial[d]
      BY <1>6, <2>2
    <3>2. ASSUME dial[d] = "returned"
          PROVE  KeepsRequest(net[via[d]]["client"], net'[via[d]]["client"], d)
      <4>1. via[d] \in Sessions
        BY <3>2, UsedSession
      <4>2. net[via[d]]["client"] \in Seq(Messages)
        BY <1>1, <4>1 DEF NetType
      <4> QED
        BY <1>1, <1>3, <1>5, <1>13, <4>1, <4>2, AppendKeeps, SameKeeps DEF KeepsRequest
    <3> QED
      BY <1>1, <1>2, <3>1, <3>2, RequestKept
  <2> QED
    BY <2>1, <2>2
<1>16. ASSUME NEW y \in Sides, NEW d \in Conns PROVE GapAt(y, d)'
  <2>1. Received(y, d)' = Received(y, d) /\ Posted(Peer(y), d)' = Posted(Peer(y), d)
    BY <1>2 DEF Received, Posted
  <2>2. CASE via[d] = NoSession
    BY <1>2, <2>2 DEF GapAt
  <2>3. CASE via[d] # NoSession
    <3>1. via[d] \in Sessions
      BY <1>1, <2>3 DEF DialTypes
    <3>2. net[via[d]][y] \in Seq(Messages)
      BY <1>1, <3>1 DEF NetType
    <3>3. KeepsRun(net[via[d]][y], net'[via[d]][y], d)
      BY <1>3, <1>5, <1>13, <3>1, <3>2, AppendKeeps, SameKeeps
    <3>4. ~Shut(y, d) => Posted(Peer(y), d) \in Nat
      <4> SUFFICES ASSUME ~Shut(y, d) PROVE Posted(Peer(y), d) \in Nat
        OBVIOUS
      <4>1. PICK m \in Received(y, d)..Posted(Peer(y), d) : TRUE
        BY <1>1, <2>3 DEF GapAt
      <4>2. Received(y, d) \in Nat /\ Posted(Peer(y), d) \in Int
        BY <1>1, CountsTyped
      <4> QED
        BY <4>1, <4>2
    <3>5. Posted(Peer(y), d)' >= Posted(Peer(y), d)
      BY <1>1, <2>1, CountsTyped
    <3>6. (Shut(y, d)' <=> Shut(y, d)) /\ via'[d] = via[d] /\ link' = link
      BY <1>2 DEF Shut
    <3> QED
      BY <1>1, <1>7, <2>1, <3>3, <3>4, <3>5, <3>6, GapKept
  <2> QED
    BY <2>2, <2>3
<1> QED
  BY <1>7, <1>8, <1>9, <1>14, <1>15, <1>16 DEF TunnelInv, RequestFirst, NoGap

\* The client takes the request; its end opens with nothing received.
LEMMA ServeConnectInv ==
  ASSUME TunnelInv, NEW s \in Sessions, ServeConnect(s) \/ RefuseConnect(s)
  PROVE  TunnelInv'
<1>1. /\ TypeOK /\ EndTypes /\ IoTypes /\ DialTypes /\ SessionTypes /\ net \in NetType
      /\ ConnLife /\ InOrder /\ SessionLife /\ OwnMessages
      /\ \A y \in Sides, d \in Conns : GapAt(y, d)
      /\ \A d \in Conns : RequestAt(d)
      /\ "server" \in Sides /\ "client" \in Sides
      /\ "none" \notin Errors /\ "open" \notin Errors
  BY TypesSplit DEF TunnelInv, Sides, NoGap, RequestFirst, Errors
<1> DEFINE q == net[s]["client"]
           c == Head(q).conn
<1>2. /\ q # <<>> /\ Head(q).type = "connect" /\ net' = Taken(s, "client")
      /\ UNCHANGED <<clients, link, dial, via, late, buf, wrote, pending, got, seen, up,
                     down, closing, closer, reason, byPeer, due>>
  BY DEF ServeConnect, RefuseConnect, Receives, connVars, dialVars, ioVars, pipeVars,
    closeVars
<1>3. /\ net' \in NetType /\ Head(q) \in Messages
      /\ \A r \in Sessions, y \in Sides :
           net'[r][y] = IF r = s /\ y = "client" THEN Tail(q) ELSE net[r][y]
  BY <1>1, <1>2, TakenTyped
<1>4. c \in Conns
  BY <1>3, MessageTypes
<1>5. via[c] = s /\ dial[c] = "returned" /\ end["client"][c] = "none"
  <2>1. q \in Seq(Messages)
    BY <1>1 DEF NetType
  <2>2. Head(q) = q[1] /\ 1 \in 1..Len(q)
    BY <1>2, <2>1, QueueTail
  <2> QED
    BY <1>1, <1>2, <2>2 DEF OwnMessages
<1>6. /\ q \in Seq(Messages) /\ \A d \in Conns : OneRequest(q, d)
      /\ \A d \in Conns : ~IsData(Head(q), d) /\ (IsConnect(Head(q), d) => d = c)
      /\ IsConnect(Head(q), c)
  BY <1>1, <1>2 DEF NetType, OwnMessages, IsData, IsConnect
<1> HIDE DEF q, c
<1>7. \A r \in Sessions, y \in Sides :
        /\ FromOld(net[r][y], net'[r][y])
        /\ \A d \in Conns : /\ OneRequest(net[r][y], d) => OneRequest(net'[r][y], d)
                            /\ KeepsRun(net[r][y], net'[r][y], d)
                            /\ d # c => KeepsRequest(net[r][y], net'[r][y], d)
  <2> SUFFICES ASSUME NEW r \in Sessions, NEW y \in Sides
               PROVE  /\ FromOld(net[r][y], net'[r][y])
                      /\ \A d \in Conns :
                           /\ OneRequest(net[r][y], d) => OneRequest(net'[r][y], d)
                           /\ KeepsRun(net[r][y], net'[r][y], d)
                           /\ d # c => KeepsRequest(net[r][y], net'[r][y], d)
    OBVIOUS
  <2>1. CASE r = s /\ y = "client"
    <3>1. net[r][y] = q /\ net'[r][y] = Tail(q)
      BY <1>3, <2>1 DEF q
    <3> QED
      BY <1>2, <1>6, <3>1, TailKeeps, QueuesFromOld
  <2>2. CASE ~(r = s /\ y = "client")
    <3>1. net'[r][y] = net[r][y] /\ net[r][y] \in Seq(Messages)
      BY <1>1, <1>3, <2>2 DEF NetType
    <3> QED
      BY <3>1, SameKeeps
  <2> QED
    BY <2>1, <2>2
<1>8. \A r \in Sessions : ~Announced(net'[r]["client"], c)
  <2> SUFFICES ASSUME NEW r \in Sessions PROVE ~Announced(net'[r]["client"], c)
    OBVIOUS
  <2>1. CASE r = s
    BY <1>1, <1>2, <1>3, <1>4, <1>6, <2>1, TailKeeps
  <2>2. CASE r # s
    <3>1. net'[r]["client"] = net[r]["client"]
      BY <1>1, <1>3, <2>2
    <3> QED
      BY <1>1, <1>5, <2>2, <3>1 DEF OwnMessages, Announced, IsConnect
  <2> QED
    BY <2>1, <2>2
<1>9. ASSUME NEW y \in Sides, NEW d \in Conns,
             EndTypes', DialTypes', SessionTypes',
             ~Shut(y, d)' => ~Shut(y, d)
      PROVE  GapAt(y, d)'
  <2>1. Received(y, d)' = Received(y, d) /\ Posted(Peer(y), d)' = Posted(Peer(y), d)
    BY <1>2 DEF Received, Posted
  <2>2. CASE via[d] = NoSession \/ Shut(y, d)'
    BY <1>2, <2>2 DEF GapAt
  <2>3. CASE via[d] # NoSession /\ ~Shut(y, d)'
    <3>1. via[d] \in Sessions /\ ~Shut(y, d)
      BY <1>1, <1>9, <2>3 DEF DialTypes
    <3>2. PICK m \in Received(y, d)..Posted(Peer(y), d) : TRUE
      BY <1>1, <2>3, <3>1 DEF GapAt
    <3>3. /\ Posted(Peer(y), d) \in Nat
          /\ Posted(Peer(y), d)' >= Posted(Peer(y), d)
      <4>1. Received(y, d) \in Nat /\ Posted(Peer(y), d) \in Int
        BY <1>1, CountsTyped
      <4> QED
        BY <2>1, <3>2, <4>1
    <3>4. TypeOK'
      <4>1. IoTypes'
        BY <1>1, <1>2 DEF IoTypes
      <4> QED
        BY <1>1, <1>2, <1>3, <1>9, <4>1, TypesStill
    <3>5. KeepsRun(net[via[d]][y], net'[via[d]][y], d)
      BY <1>7, <3>1
    <3>6. via'[d] = via[d] /\ link' = link
      BY <1>2
    <3> QED
      BY <1>1, <2>1, <3>1, <3>3, <3>4, <3>5, <3>6, GapKept
  <2> QED
    BY <2>2, <2>3
<1>10. IoTypes' /\ InOrder'
  BY <1>1, <1>2 DEF IoTypes, InOrder, Received
<1>11. CASE ServeConnect(s)
  <2>1. /\ conns' = [conns EXCEPT !["client"] = @ \cup {c}]
        /\ end' = [end EXCEPT !["client"][c] = "open"]
        /\ pipe' = [pipe EXCEPT ![c] = "dialing"]
        /\ serving' = serving
    BY <1>11 DEF ServeConnect, q, c
  <2>2. /\ end' \in [Sides -> [Conns -> {"none", "open"} \cup Errors]]
        /\ \A y \in Sides, d \in Conns :
             end'[y][d] = IF y = "client" /\ d = c THEN "open" ELSE end[y][d]
    <3>1. "open" \in {"none", "open"} \cup Errors
      OBVIOUS
    <3> QED
      BY <1>1, <1>4, <2>1, <3>1, EntryChanged DEF EndTypes
  <2>3. /\ conns' \in [Sides -> SUBSET Conns] /\ c \in conns'["client"]
        /\ \A y \in Sides : conns[y] \subseteq conns'[y]
    BY <1>1, <1>4, <2>1 DEF EndTypes
  <2>4. EndTypes' /\ DialTypes' /\ SessionTypes'
    BY <1>1, <1>2, <1>4, <2>1, <2>2, <2>3 DEF EndTypes, DialTypes, SessionTypes
  <2>5. TypeOK'
    BY <1>1, <1>2, <1>3, <1>10, <2>4, TypesStill
  <2>6. SessionLife'
    BY <1>1, <1>2, <2>1 DEF SessionLife
  <2>7. \A d \in Conns : pipe'[d] = IF d = c THEN "dialing" ELSE pipe[d]
    BY <1>1, <2>1 DEF DialTypes
  <2>8. ConnLife'
    <3> SUFFICES ASSUME NEW d \in Conns
                 PROVE  /\ end'["server"][d] = "none" <=> dial[d] \in {"idle", "got"}
                        /\ end'["client"][d] # "none" => dial[d] = "returned"
                        /\ pipe'[d] # "none" => end'["client"][d] # "none"
                        /\ up[d] = "done" => end'["client"][d] \in Errors
                        /\ wrote["client"][d] > 0 => pipe'[d] # "none"
                        /\ \A y \in Sides : MapLife(y, d)'
      BY <1>1, <1>2 DEF ConnLife
    <3>3. \A y \in Sides : MapLife(y, d)'
      <4> SUFFICES ASSUME NEW y \in Sides PROVE MapLife(y, d)'
        OBVIOUS
      <4>1. MapLife(y, d) /\ closing' = closing /\ closer' = closer
        BY <1>1, <1>2 DEF ConnLife
      <4>2. pipe[d] # "none" => pipe'[d] # "none"
        BY <2>7
      <4>3. CASE y = "client" /\ d = c
        <5>1. end'[y][d] = "open" /\ d \in conns'[y] /\ end[y][d] = "none"
          BY <1>5, <2>2, <2>3, <4>3
        <5> QED
          BY <4>1, <4>2, <5>1 DEF MapLife
      <4>4. CASE ~(y = "client" /\ d = c)
        <5>1. end'[y][d] = end[y][d] /\ (d \in conns'[y] <=> d \in conns[y])
          BY <1>1, <2>1, <2>2, <4>4 DEF EndTypes
        <5> QED
          BY <4>1, <4>2, <5>1, MapLifeKept
      <4> QED
        BY <4>3, <4>4
    <3>1. CASE d # c
      BY <1>1, <2>2, <2>3, <2>7, <3>1, <3>3 DEF ConnLife
    <3>2. CASE d = c
      BY <1>1, <1>5, <2>2, <2>3, <2>7, <3>2, <3>3 DEF ConnLife
    <3> QED
      BY <3>1, <3>2
  <2>9. OwnMessages'
    <3>1. \A d \in Conns :
            dial[d] = "returned" /\ end["client"][d] = "none" =>
              \/ dial'[d] = "returned" /\ end'["client"][d] = "none"
              \/ \A r \in Sessions : ~Announced(net'[r]["client"], d)
      BY <1>1, <1>2, <1>8, <2>2
    <3> QED
      BY <1>1, <1>2, <1>7, <2>5, <3>1, OwnKept
  <2>10. ASSUME NEW d \in Conns PROVE RequestAt(d)'
    <3>1. CASE d = c
      BY <1>1, <2>2, <3>1 DEF RequestAt
    <3>2. CASE d # c
      <4>1. /\ via'[d] = via[d] /\ dial'[d] = dial[d] /\ link' = link
            /\ end'["client"][d] = end["client"][d]
        BY <1>1, <1>2, <2>2, <3>2
      <4>2. dial[d] = "returned" =>
              KeepsRequest(net[via[d]]["client"], net'[via[d]]["client"], d)
        BY <1>1, <1>7, <3>2, UsedSession
      <4> QED
        BY <1>1, <2>1, <4>1, <4>2, RequestKept
    <3> QED
      BY <3>1, <3>2
  <2>11. \A y \in Sides, d \in Conns : GapAt(y, d)'
    <3>1. \A y \in Sides, d \in Conns : ~Shut(y, d)' => ~Shut(y, d)
      <4> SUFFICES ASSUME NEW y \in Sides, NEW d \in Conns, Shut(y, d)
                   PROVE  Shut(y, d)'
        OBVIOUS
      <4>1. closing' = closing /\ MapLife(y, d)
        BY <1>1, <1>2 DEF ConnLife
      <4>2. ~(y = "client" /\ d = c)
        BY <1>1, <1>5, <4>1 DEF Shut, MapLife
      <4> QED
        BY <2>2, <4>1, <4>2 DEF Shut
    <3> QED
      BY <1>9, <2>4, <3>1
  <2> QED
    BY <1>10, <2>5, <2>6, <2>8, <2>9, <2>10, <2>11 DEF TunnelInv, RequestFirst, NoGap
<1>12. CASE RefuseConnect(s)
  <2>1. /\ serving' = [serving EXCEPT ![s]["client"] = "failed"]
        /\ UNCHANGED <<conns, end, pipe>>
    BY <1>12 DEF RefuseConnect, connVars, pipeVars
  <2>2. serving' = [serving EXCEPT ![s] = [serving[s] EXCEPT !["client"] = "failed"]]
    BY <2>1
  <2>3. EndTypes' /\ DialTypes' /\ SessionTypes'
    BY <1>1, <1>2, <2>1, <2>2 DEF EndTypes, DialTypes, SessionTypes, ServeStates
  <2>4. \A r \in Sessions :
          serving'[r]["client"] = IF r = s THEN "failed" ELSE serving[r]["client"]
    BY <1>1, <2>2 DEF SessionTypes
  <2>5. TypeOK'
    BY <1>1, <1>2, <1>3, <1>10, <2>3, TypesStill
  <2>6. SessionLife' /\ ConnLife'
    <3>1. SessionLife'
      BY <1>1, <1>2, <2>4 DEF SessionLife
    <3>2. ConnLife'
      BY <1>1, <1>2, <2>1 DEF ConnLife, MapLife, Shut
    <3> QED
      BY <3>1, <3>2
  <2>7. OwnMessages'
    <3>1. \A d \in Conns :
            dial[d] = "returned" /\ end["client"][d] = "none" =>
              \/ dial'[d] = "returned" /\ end'["client"][d] = "none"
              \/ \A r \in Sessions : ~Announced(net'[r]["client"], d)
      BY <1>2, <2>1
    <3> QED
      BY <1>1, <1>2, <1>7, <2>5, <3>1, OwnKept
  <2>8. ASSUME NEW d \in Conns PROVE RequestAt(d)'
    <3>1. /\ via'[d] = via[d] /\ dial'[d] = dial[d] /\ link' = link
          /\ end'["client"][d] = end["client"][d]
      BY <1>2, <2>1
    <3>2. dial'[d] = "returned" /\ serving'[via[d]]["client"] = "on" =>
            /\ via[d] \in Sessions /\ via[d] # s /\ serving[via[d]]["client"] = "on"
      BY <2>4, <3>1, UsedSession
    <3>3. dial'[d] = "returned" /\ serving'[via[d]]["client"] = "on" =>
            KeepsRequest(net[via[d]]["client"], net'[via[d]]["client"], d)
      <4>1. d = c => via[d] = s
        BY <1>5
      <4> QED
        BY <1>1, <1>7, <3>2, <4>1
    <3> QED
      BY <1>1, <3>1, <3>2, <3>3, RequestKept
  <2>9. \A y \in Sides, d \in Conns : GapAt(y, d)'
    BY <1>2, <1>9, <2>1, <2>3, ShutStill
  <2> QED
    BY <1>10, <2>5, <2>6, <2>7, <2>8, <2>9 DEF TunnelInv, RequestFirst, NoGap
<1> QED
  BY <1>11, <1>12

\* Write posts its chunk: the next one of the connection.
LEMMA WriteSendInv ==
  ASSUME TunnelInv, NEW x \in Sides, NEW c \in Conns, WriteSend(x, c)
  PROVE  TunnelInv'
<1>1. /\ TypeOK /\ EndTypes /\ IoTypes /\ DialTypes /\ SessionTypes /\ net \in NetType
      /\ ConnLife /\ InOrder /\ SessionLife /\ OwnMessages
      /\ \A y \in Sides, d \in Conns : GapAt(y, d)
      /\ \A d \in Conns : RequestAt(d)
      /\ "server" \in Sides /\ "client" \in Sides
      /\ "none" \notin Errors /\ "open" \notin Errors
  BY TypesSplit DEF TunnelInv, Sides, NoGap, RequestFirst, Errors
<1> DEFINE s == via[c]
           w == wrote[x][c]
           m == Data(c, w)
<1>2. /\ pending[x][c]
      /\ pending' = [pending EXCEPT ![x][c] = FALSE]
      /\ WriteMessage(s, x, net, m)
      /\ UNCHANGED <<serving, clients, link, dial, via, late, conns, end, buf, wrote, got,
                     seen, pipe, up, down, closing, closer, reason, byPeer, due>>
  BY DEF WriteSend, dialVars, pipeVars, closeVars
<1>3. w \in Nat /\ w > 0 /\ m \in Messages
  <2>1. w \in Nat
    BY <1>1 DEF IoTypes
  <2>2. w > 0
    BY <1>1, <1>2 DEF ConnLife
  <2> QED
    BY <2>1, <2>2, MessageTypes
<1>4. dial[c] = "returned" /\ s \in Sessions /\ s # NoSession
  <2>1. dial[c] = "returned"
    BY <1>3, UndialedIsEmpty
  <2>2. s \in Sessions
    BY <2>1, UsedSession
  <2> QED
    BY <1>1, <2>1, <2>2 DEF ConnLife
<1>5. m.conn = c /\ m.type = "data" /\ \A d \in Conns : IsData(m, d) => d = c
  BY DEF Data, IsData
<1> HIDE DEF s, w, m
<1>6. /\ net' \in NetType
      /\ \A r \in Sessions, y \in Sides :
           net'[r][y] = IF r = s /\ y = Peer(x) /\ link[s] = "up"
                        THEN Append(net[r][y], m) ELSE net[r][y]
  BY <1>1, <1>2, <1>3, <1>4, WriteTyped, MessageWritten
<1>7. /\ pending' \in [Sides -> [Conns -> BOOLEAN]]
      /\ \A y \in Sides, d \in Conns :
           pending'[y][d] = IF y = x /\ d = c THEN FALSE ELSE pending[y][d]
  <2> DEFINE v == FALSE
  <2>1. pending \in [Sides -> [Conns -> BOOLEAN]] /\ v \in BOOLEAN
    BY <1>1 DEF IoTypes
  <2>2. pending' = [pending EXCEPT ![x][c] = v]
    BY <1>2
  <2> HIDE DEF v
  <2>3. /\ pending' \in [Sides -> [Conns -> BOOLEAN]]
        /\ \A y \in Sides, d \in Conns :
             pending'[y][d] = IF y = x /\ d = c THEN v ELSE pending[y][d]
    BY <2>1, <2>2, EntryChanged
  <2> QED
    BY <2>3 DEF v
<1>8. TypeOK'
  <2>1. EndTypes' /\ DialTypes' /\ SessionTypes'
    BY <1>1, <1>2 DEF EndTypes, DialTypes, SessionTypes
  <2>2. IoTypes'
    BY <1>1, <1>2, <1>7 DEF IoTypes
  <2> QED
    BY <1>1, <1>2, <1>6, <2>1, <2>2, TypesStill
<1>9. SessionLife' /\ InOrder'
  BY <1>1, <1>2 DEF SessionLife, InOrder, Received
<1>10. ConnLife'
  <2>1. \A y \in Sides, d \in Conns : pending'[y][d] => wrote[y][d] > 0
    <3> SUFFICES ASSUME NEW y \in Sides, NEW d \in Conns, pending'[y][d]
                 PROVE  wrote[y][d] > 0
      OBVIOUS
    <3>1. pending[y][d]
      BY <1>7
    <3> QED
      BY <1>1, <3>1 DEF ConnLife
  <2>2. \A y \in Sides, d \in Conns : MapLife(y, d)'
    BY <1>1, <1>2, MapLifeStill DEF ConnLife
  <2> QED
    BY <1>1, <1>2, <2>1, <2>2 DEF ConnLife
<1>11. OwnMessages'
  <2>1. \A d \in Conns :
          dial[d] = "returned" /\ end["client"][d] = "none" =>
            dial'[d] = "returned" /\ end'["client"][d] = "none"
    BY <1>2
  <2>2. via[m.conn] = s /\ m.type # "connect" /\ UNCHANGED via
    BY <1>2, <1>5 DEF s
  <2>3. \A r \in Sessions, y \in Sides :
          \/ net'[r][y] = net[r][y]
          \/ r = s /\ y = Peer(x) /\ net'[r][y] = Append(net[r][y], m)
    BY <1>6
  <2> QED
    BY <1>1, <1>3, <1>4, <2>1, <2>2, <2>3, OwnAdded
<1>12. ASSUME NEW d \in Conns PROVE RequestAt(d)'
  <2> SUFFICES ASSUME dial[d] = "returned", end["client"][d] = "none",
                      serving[via[d]]["client"] = "on"
               PROVE  LET p == net'[via[d]]["client"] IN
                      Preceded(p, d) /\ (link[via[d]] = "up" => Announced(p, d))
    BY <1>2 DEF RequestAt
  <2> DEFINE q == net[via[d]]["client"]
             p == net'[via[d]]["client"]
  <2>1. via[d] \in Sessions
    BY UsedSession
  <2>2. q \in Seq(Messages)
    BY <1>1, <2>1 DEF NetType
  <2>3. Preceded(q, d) /\ (link[via[d]] = "up" => Announced(q, d))
    BY <1>1 DEF RequestAt
  <2>4. p = q \/ (link[via[d]] = "up" /\ p = Append(q, m))
    BY <1>1, <1>6, <2>1
  <2> HIDE DEF p, q
  <2>5. Preceded(p, d) /\ (link[via[d]] = "up" => Announced(p, d))
    BY <1>3, <2>2, <2>3, <2>4, AppendKeeps
  <2> QED
    BY <2>5 DEF p
<1>13. ASSUME NEW y \in Sides, NEW d \in Conns PROVE GapAt(y, d)'
  <2>1. Received(y, d)' = Received(y, d)
    BY <1>2 DEF Received
  <2>2. CASE via[d] = NoSession \/ Shut(y, d)
    BY <1>2, <2>2, ShutStill DEF GapAt
  <2>3. CASE via[d] # NoSession /\ ~Shut(y, d)
    <3>1. via[d] \in Sessions
      BY <1>1, <2>3 DEF DialTypes
    <3>2. net[via[d]][y] \in Seq(Messages)
      BY <1>1, <3>1 DEF NetType
    <3>3. Received(y, d) \in Nat /\ Posted(Peer(y), d) \in Int
      BY <1>1, CountsTyped
    <3>4. PICK k \in Received(y, d)..Posted(Peer(y), d) :
            /\ Run(net[via[d]][y], d, Received(y, d), k)
            /\ link[via[d]] = "up" => k = Posted(Peer(y), d)
      BY <1>1, <2>3 DEF GapAt
    <3>5. k \in Nat /\ Received(y, d) <= k /\ k <= Posted(Peer(y), d)
      BY <3>3, <3>4
    <3>6. CASE y = Peer(x) /\ d = c
      <4>1. Peer(y) = x
        BY <3>6, PeerIsOther
      <4>2. Posted(Peer(y), d) = w - 1
        BY <1>2, <3>6, <4>1 DEF Posted, w
      <4>3. Posted(Peer(y), d)' = w
        <5>1. ~pending'[x][c] /\ wrote' = wrote
          BY <1>2, <1>7
        <5> QED
          BY <3>6, <4>1, <5>1 DEF Posted, w
      <4>4. CASE link[s] = "up"
        <5>1. k + 1 = w
          BY <1>3, <3>4, <3>6, <4>2, <4>4 DEF s
        <5>2. net'[via[d]][y] = Append(net[via[d]][y], Data(c, k + 1))
          BY <1>4, <1>6, <3>6, <4>4, <5>1 DEF s, m
        <5>3. Run(net'[via[d]][y], c, Received(y, d), k + 1)
          BY <3>2, <3>3, <3>4, <3>5, <3>6, <5>2, RunAppendData
        <5>4. w \in Received(y, d)..w
          BY <1>3, <3>3, <3>5, <5>1
        <5>5. \E n \in Received(y, d)'..Posted(Peer(y), d)' :
                /\ Run(net'[via'[d]][y], d, Received(y, d)', n)
                /\ link'[via'[d]] = "up" => n = Posted(Peer(y), d)'
          BY <1>2, <2>1, <3>6, <4>3, <5>1, <5>3, <5>4
        <5> QED
          BY <5>5 DEF GapAt
      <4>5. CASE link[s] # "up"
        <5>1. net'[via[d]][y] = net[via[d]][y] /\ link'[via[d]] # "up"
          BY <1>2, <1>6, <3>1, <3>6, <4>5 DEF s
        <5>2. k \in Received(y, d)..w
          BY <1>3, <3>3, <3>5, <4>2
        <5>3. \E n \in Received(y, d)'..Posted(Peer(y), d)' :
                /\ Run(net'[via'[d]][y], d, Received(y, d)', n)
                /\ link'[via'[d]] = "up" => n = Posted(Peer(y), d)'
          BY <1>2, <2>1, <3>4, <4>3, <5>1, <5>2
        <5> QED
          BY <5>3 DEF GapAt
      <4> QED
        BY <4>4, <4>5
    <3>7. CASE ~(y = Peer(x) /\ d = c)
      <4>1. ~(Peer(y) = x /\ d = c)
        BY <3>7, PeerIsOther
      <4>2. Posted(Peer(y), d)' = Posted(Peer(y), d)
        <5>1. pending'[Peer(y)][d] = pending[Peer(y)][d] /\ wrote' = wrote
          BY <1>2, <1>7, <4>1, PeerIsOther
        <5> QED
          BY <5>1 DEF Posted
      <4>3. KeepsRun(net[via[d]][y], net'[via[d]][y], d)
        <5>1. \/ net'[via[d]][y] = net[via[d]][y]
              \/ d # c /\ net'[via[d]][y] = Append(net[via[d]][y], m)
          BY <1>6, <3>1, <3>7
        <5>2. CASE net'[via[d]][y] = net[via[d]][y]
          BY <5>2 DEF KeepsRun
        <5>3. CASE d # c /\ net'[via[d]][y] = Append(net[via[d]][y], m)
          <6>1. ~IsData(m, d)
            BY <1>5, <5>3
          <6> QED
            BY <1>3, <3>2, <5>3, <6>1, AppendKeeps
        <5> QED
          BY <5>1, <5>2, <5>3
      <4>4. Posted(Peer(y), d) \in Nat
        BY <3>3, <3>5
      <4>5. Posted(Peer(y), d)' >= Posted(Peer(y), d)
        BY <4>2, <4>4
      <4>6. (Shut(y, d)' <=> Shut(y, d)) /\ via'[d] = via[d] /\ link' = link
        BY <1>2 DEF Shut
      <4> QED
        BY <1>1, <1>8, <2>1, <4>2, <4>3, <4>4, <4>5, <4>6, GapKept
    <3> QED
      BY <3>6, <3>7
  <2> QED
    BY <2>2, <2>3
<1> QED
  BY <1>8, <1>9, <1>10, <1>11, <1>12, <1>13 DEF TunnelInv, RequestFirst, NoGap

\* Data is only taken for an end that has been opened: on the client the request
\* came first, on the server the client has answered.
LEMMA DataHasEnd ==
  ASSUME TunnelInv, NEW s \in Sessions, NEW x \in Sides, Receives(s, x, "data")
  PROVE  LET c == Head(net[s][x]).conn IN
         /\ c \in Conns /\ via[c] = s /\ dial[c] # "idle"
         /\ IsData(Head(net[s][x]), c)
         /\ end[x][c] \in {"open"} \cup Errors
<1> DEFINE q == net[s][x]
           m == Head(q)
           c == m.conn
<1>1. /\ TypeOK /\ ConnLife /\ OwnMessages
      /\ \A y \in Sides, d \in Conns : GapAt(y, d)
      /\ \A d \in Conns : RequestAt(d)
      /\ "server" \in Sides /\ "client" \in Sides /\ NoSession \notin Sessions
      /\ "none" \notin Errors
  BY TunnelBounds DEF TunnelInv, Sides, NoGap, RequestFirst, Errors, NoSession
<1>2. q # <<>> /\ m.type = "data" /\ serving[s][x] = "on" /\ q \in Seq(Messages)
  BY <1>1 DEF Receives, TypeOK
<1>3. m = q[1] /\ 1 \in 1..Len(q) /\ m \in Messages
  BY <1>2, QueueTail
<1>4. c \in Conns /\ IsData(m, c)
  BY <1>2, <1>3, MessageTypes DEF IsData
<1>5. via[c] = s
  BY <1>1, <1>2, <1>3 DEF OwnMessages
<1> HIDE DEF m, c
<1>6. dial[c] # "idle"
  BY <1>1, <1>4, <1>5 DEF ConnLife
<1>7. ASSUME end[x][c] = "none" PROVE FALSE
  <2>1. dial[c] = "returned"
    <3> SUFFICES ASSUME dial[c] # "returned" PROVE FALSE
      OBVIOUS
    <3>1. Posted(Peer(x), c) = 0
      BY <1>4, UndialedIsEmpty, PeerIsOther
    <3>2. PICK k \in Received(x, c)..0 : Run(q, c, Received(x, c), k)
      <4>1. GapAt(x, c) /\ MapLife(x, c)
        BY <1>1, <1>4 DEF ConnLife
      <4>2. ~Shut(x, c)
        BY <1>4, <1>7, <4>1, UnopenedNotShut
      <4> QED
        BY <1>1, <1>5, <3>1, <4>1, <4>2 DEF GapAt
    <3>3. Received(x, c) \in Nat
      BY <1>1, <1>4, CountsTyped
    <3> QED
      BY <1>3, <1>4, <3>2, <3>3 DEF Run
  <2>2. CASE x = "server"
    BY <1>1, <1>4, <1>7, <2>1, <2>2 DEF ConnLife
  <2>3. CASE x = "client"
    <3>1. Preceded(q, c)
      BY <1>1, <1>2, <1>4, <1>5, <1>7, <2>1, <2>3 DEF RequestAt
    <3> QED
      BY <1>2, <1>4, <3>1, TailKeeps DEF m
  <2> QED
    BY <2>2, <2>3 DEF Sides
<1>8. end[x][c] \in {"none", "open"} \cup Errors
  BY <1>1, <1>4 DEF TypeOK
<1> QED
  BY <1>4, <1>5, <1>6, <1>7, <1>8 DEF m, c

\* A serve loop takes data: the chunk goes to the channel of its end, or the end
\* is closed and will get no more.
LEMMA ServeDataInv ==
  ASSUME TunnelInv, NEW s \in Sessions, NEW x \in Sides, ServeData(s, x)
  PROVE  TunnelInv'
<1>1. /\ TypeOK /\ EndTypes /\ IoTypes /\ DialTypes /\ SessionTypes /\ net \in NetType
      /\ CloseTypes /\ ConnLife /\ InOrder /\ SessionLife /\ OwnMessages
      /\ \A y \in Sides, d \in Conns : GapAt(y, d)
      /\ \A d \in Conns : RequestAt(d)
      /\ "server" \in Sides /\ "client" \in Sides
      /\ "none" \notin Errors /\ "open" \notin Errors /\ "err" \in Errors
  BY TypesSplit DEF TunnelInv, Sides, NoGap, RequestFirst, Errors
<1> DEFINE q == net[s][x]
           m == Head(q)
           n == Taken(s, x)
<1>2. /\ Receives(s, x, "data")
      /\ UNCHANGED <<serving, clients, link, dial, via, late, end, wrote, pending, got,
                     seen, pipe, up, down, byPeer, due>>
  BY DEF ServeData, dialVars, pipeVars
<1>3. PICK c \in Conns :
        /\ c = m.conn
        /\ via[c] = s /\ dial[c] # "idle" /\ IsData(m, c)
        /\ end[x][c] \in {"open"} \cup Errors
  BY <1>2, DataHasEnd
<1>4. \/ /\ c \notin conns[x]
         /\ net' = n \/ WriteMessage(s, x, n, Error(c, "err"))
         /\ UNCHANGED <<buf, conns, closing, closer, reason>>
      \/ /\ c \in conns[x] /\ end[x][c] = "open"
         /\ buf' = [buf EXCEPT ![x][c] = Append(@, m.chunk)]
         /\ net' = n
         /\ UNCHANGED <<conns, closing, closer, reason>>
      \/ /\ c \in conns[x] /\ net' = n /\ UNCHANGED buf
         /\ \E e \in Errors : CloseConnection(s, x, c, "loop", e)
  BY <1>1, <1>3 DEF ServeData, closeVars
<1>5. q # <<>> /\ q \in Seq(Messages)
  BY <1>1, <1>2 DEF Receives, NetType
<1>6. /\ n \in NetType /\ m \in Messages
      /\ \A r \in Sessions, y \in Sides :
           n[r][y] = IF r = s /\ y = x THEN Tail(q) ELSE net[r][y]
  BY <1>1, <1>5, TakenTyped
<1>7. \A d \in Conns : /\ ~IsConnect(m, d)
                       /\ IsData(m, d) => d = c
  BY <1>3 DEF IsData, IsConnect
<1> HIDE DEF q, m, n
<1>8. ASSUME NEW e \in Errors, net' = n \/ WriteMessage(s, x, n, Error(c, e)),
             EndTypes', CloseTypes', IoTypes', InOrder', GapAt(x, c)',
             \A y \in Sides, d \in Conns :
               /\ Shut(y, d) => Shut(y, d)'
               /\ MapLife(y, d)'
               /\ buf'[y][d] = buf[y][d] \/ (y = x /\ d = c)
      PROVE  TunnelInv'
  <2>1. net' \in NetType
    BY <1>3, <1>6, <1>8, WriteTyped, MessageTypes
  <2>2. TypeOK'
    <3>1. DialTypes' /\ SessionTypes'
      BY <1>1, <1>2 DEF DialTypes, SessionTypes
    <3> QED
      BY <1>8, <2>1, <3>1, TypesJoined
  <2>3. ASSUME NEW r \in Sessions, NEW y \in Sides
        PROVE  /\ FromOld(net[r][y], net'[r][y])
               /\ \A d \in Conns :
                    /\ OneRequest(net[r][y], d) => OneRequest(net'[r][y], d)
                    /\ KeepsRequest(net[r][y], net'[r][y], d)
                    /\ ~(r = s /\ y = x /\ d = c) => KeepsRun(net[r][y], net'[r][y], d)
    <3>1. \/ net'[r][y] = n[r][y]
          \/ /\ y = Peer(x) /\ r = s
             /\ \E k \in Messages : k.type = "error" /\ net'[r][y] = Append(n[r][y], k)
      BY <1>3, <1>6, <1>8, ErrorWritten
    <3>2. CASE r = s /\ y = x
      <4>1. net[r][y] = q /\ net'[r][y] = Tail(q)
        BY <1>6, <3>1, <3>2, PeerIsOther DEF q
      <4>2. Head(q) = m
        BY DEF m
      <4> QED
        BY <1>5, <1>7, <3>2, <4>1, <4>2, TailKeeps, QueuesFromOld
    <3>3. CASE ~(r = s /\ y = x)
      <4>1. n[r][y] = net[r][y] /\ net[r][y] \in Seq(Messages)
        BY <1>1, <1>6, <3>3 DEF NetType
      <4>2. CASE net'[r][y] = net[r][y]
        BY <4>1, <4>2, SameKeeps
      <4>3. ASSUME NEW k \in Messages, k.type = "error", net'[r][y] = Append(net[r][y], k)
            PROVE  /\ FromOld(net[r][y], net'[r][y])
                   /\ \A d \in Conns :
                        /\ OneRequest(net[r][y], d) => OneRequest(net'[r][y], d)
                        /\ KeepsRequest(net[r][y], net'[r][y], d)
                        /\ KeepsRun(net[r][y], net'[r][y], d)
        BY <4>1, <4>3, ErrorHarmless
      <4> QED
        BY <3>1, <4>1, <4>2, <4>3
    <3> QED
      BY <3>2, <3>3
  <2>4. SessionLife'
    BY <1>1, <1>2 DEF SessionLife
  <2>6. ConnLife'
    <3> SUFFICES ASSUME NEW d \in Conns
                 PROVE  \A y \in Sides : /\ MapLife(y, d)'
                                         /\ dial[d] = "idle" => buf'[y][d] = <<>>
      BY <1>1, <1>2 DEF ConnLife
    <3>3. \A y \in Sides : dial[d] = "idle" => buf'[y][d] = <<>>
      <4> SUFFICES ASSUME NEW y \in Sides, dial[d] = "idle" PROVE buf'[y][d] = <<>>
        OBVIOUS
      <4>1. buf'[y][d] = buf[y][d]
        BY <1>3, <1>8
      <4> QED
        BY <1>1, <4>1 DEF ConnLife
    <3> QED
      BY <1>8, <3>3
  <2>7. OwnMessages'
    <3>1. \A d \in Conns :
            dial[d] = "returned" /\ end["client"][d] = "none" =>
              \/ dial'[d] = "returned" /\ end'["client"][d] = "none"
              \/ \A r \in Sessions : ~Announced(net'[r]["client"], d)
      BY <1>2
    <3> QED
      BY <1>1, <1>2, <2>2, <2>3, <3>1, OwnKept
  <2>8. ASSUME NEW d \in Conns PROVE RequestAt(d)'
    <3>1. /\ via'[d] = via[d] /\ dial'[d] = dial[d] /\ link' = link /\ serving' = serving
          /\ end'["client"][d] = "none" => end["client"][d] = "none"
      BY <1>2
    <3>2. dial[d] = "returned" =>
            KeepsRequest(net[via[d]]["client"], net'[via[d]]["client"], d)
      BY <1>1, <2>3, UsedSession
    <3> QED
      BY <1>1, <3>1, <3>2, RequestKept
  <2>9. ASSUME NEW y \in Sides, NEW d \in Conns PROVE GapAt(y, d)'
    <3>1. CASE y = x /\ d = c
      BY <1>8, <3>1
    <3>2. CASE ~(y = x /\ d = c) /\ (via[d] = NoSession \/ Shut(y, d)')
      BY <1>2, <3>2 DEF GapAt
    <3>3. CASE ~(y = x /\ d = c) /\ via[d] # NoSession /\ ~Shut(y, d)'
      <4>1. Received(y, d)' = Received(y, d) /\ Posted(Peer(y), d)' = Posted(Peer(y), d)
        BY <1>2, <1>8, <3>3 DEF Received, Posted
      <4>2. via[d] \in Sessions /\ ~Shut(y, d)
        BY <1>1, <1>8, <3>3 DEF DialTypes
      <4>3. PICK k \in Received(y, d)..Posted(Peer(y), d) : TRUE
        BY <1>1, <3>3, <4>2 DEF GapAt
      <4>4. /\ Posted(Peer(y), d) \in Nat
            /\ Posted(Peer(y), d)' >= Posted(Peer(y), d)
        <5>1. Received(y, d) \in Nat /\ Posted(Peer(y), d) \in Int
          BY <1>1, CountsTyped
        <5> QED
          BY <4>1, <4>3, <5>1
      <4>5. KeepsRun(net[via[d]][y], net'[via[d]][y], d)
        BY <2>3, <3>3, <4>2
      <4>6. via'[d] = via[d] /\ link' = link
        BY <1>2
      <4> QED
        BY <1>1, <2>2, <4>1, <4>2, <4>4, <4>5, <4>6, GapKept
    <3> QED
      BY <3>1, <3>2, <3>3
  <2> QED
    BY <1>8, <2>2, <2>4, <2>6, <2>7, <2>8, <2>9 DEF TunnelInv, RequestFirst, NoGap
<1>9. ASSUME UNCHANGED buf, NEW e \in Errors, EndTypes', CloseTypes', Shut(x, c)',
             net' = n \/ WriteMessage(s, x, n, Error(c, e)),
             \A y \in Sides, d \in Conns : (Shut(y, d) => Shut(y, d)') /\ MapLife(y, d)'
      PROVE  TunnelInv'
  <2>1. GapAt(x, c)'
    BY <1>9 DEF GapAt
  <2>2. IoTypes' /\ InOrder'
    BY <1>1, <1>2, <1>9 DEF IoTypes, InOrder, Received
  <2>3. \A y \in Sides, d \in Conns : buf'[y][d] = buf[y][d]
    BY <1>9
  <2> QED
    BY <1>8, <1>9, <2>1, <2>2, <2>3
<1>13. ASSUME UNCHANGED <<conns, closing, closer, reason>>
       PROVE  /\ EndTypes' /\ CloseTypes'
              /\ \A y \in Sides, d \in Conns :
                   (Shut(y, d)' <=> Shut(y, d)) /\ MapLife(y, d)'
  <2>1. EndTypes' /\ CloseTypes'
    BY <1>1, <1>2, <1>13 DEF EndTypes, CloseTypes
  <2>2. \A y \in Sides, d \in Conns : MapLife(y, d)
    BY <1>1 DEF ConnLife
  <2>3. \A y \in Sides, d \in Conns : (Shut(y, d)' <=> Shut(y, d)) /\ MapLife(y, d)'
    BY <1>2, <1>13, <2>2 DEF Shut, MapLife
  <2> QED
    BY <2>1, <2>3
<1>10. CASE /\ c \notin conns[x]
            /\ net' = n \/ WriteMessage(s, x, n, Error(c, "err"))
            /\ UNCHANGED <<buf, conns, closing, closer, reason>>
  <2>1. Shut(x, c)
    <3>1. MapLife(x, c)
      BY <1>1 DEF ConnLife
    <3>2. end[x][c] = "open" \/ end[x][c] \in Errors
      BY <1>3
    <3> QED
      BY <1>10, <3>1, <3>2 DEF MapLife, Shut
  <2> QED
    BY <1>1, <1>9, <1>10, <1>13, <2>1
<1>11. ASSUME NEW e \in Errors, c \in conns[x], CloseConnection(s, x, c, "loop", e),
              UNCHANGED buf, net' = n
       PROVE  TunnelInv'
  <2>1. /\ EndTypes' /\ CloseTypes'
        /\ \A y \in Sides, d \in Conns :
             \/ /\ d \in conns'[y] <=> d \in conns[y]
                /\ closing'[y][d] = closing[y][d]
             \/ /\ y = x /\ d = c /\ d \in conns[y] /\ d \notin conns'[y]
                /\ closing'[y][d] = "tell"
        /\ \A y \in Sides, d \in Conns :
             closer'[y][d] = closer[y][d] \/ (d = c /\ closer'[y][d] = "loop")
        /\ c \in conns[x] => closing'[x][c] = "tell"
    <3>1. "loop" \in Closers /\ UNCHANGED end
      BY <1>2 DEF Closers, Loops
    <3> QED
      BY <1>1, <1>3, <1>11, <3>1, CloseConnectionTyped
  <2>2. Shut(x, c)'
    BY <1>11, <2>1 DEF Shut
  <2>3. \A y \in Sides, d \in Conns : Shut(y, d) => Shut(y, d)'
    BY <1>2, <2>1 DEF Shut
  <2>4. \A y \in Sides, d \in Conns : MapLife(y, d)
    BY <1>1 DEF ConnLife
  <2>5. \A y \in Sides, d \in Conns : MapLife(y, d)'
    BY <1>2, <2>1, <2>4 DEF MapLife, Shut
  <2> QED
    BY <1>9, <1>11, <2>1, <2>2, <2>3, <2>5
<1>12. CASE /\ c \in conns[x] /\ end[x][c] = "open"
            /\ buf' = [buf EXCEPT ![x][c] = Append(@, m.chunk)]
            /\ net' = n
            /\ UNCHANGED <<conns, closing, closer, reason>>
  <2> DEFINE b == buf[x][c]
             h == Append(b, m.chunk)
             R == Received(x, c)
             P == Posted(Peer(x), c)
  <2>1. /\ b \in Seq(Nat) /\ R \in Nat /\ P \in Int /\ Len(got[x][c]) \in Nat
        /\ Len(b) \in Nat
    <3>1. b \in Seq(Nat)
      BY <1>1, <1>3 DEF IoTypes
    <3> QED
      BY <1>1, <1>3, <3>1, CountsTyped
  <2>2. PICK k \in R..P : Run(q, c, R, k) /\ (link[s] = "up" => k = P)
    <3>1. GapAt(x, c) /\ via[c] # NoSession /\ MapLife(x, c)
      BY <1>1, <1>3 DEF ConnLife
    <3>2. ~Shut(x, c)
      BY <1>1, <1>12, <3>1 DEF MapLife, Shut
    <3> QED
      BY <1>3, <3>1, <3>2 DEF GapAt, q
  <2>3. k \in Nat
    BY <2>1, <2>2
  <2>4. m.chunk = R + 1 /\ R + 1 <= k /\ Run(Tail(q), c, R + 1, k)
    <3> HIDE DEF R, P
    <3> QED
      BY <1>3, <1>5, <2>1, <2>2, <2>3, RunTailData DEF m
  <2>5. /\ h \in Seq(Nat) /\ Len(h) = Len(b) + 1
        /\ \A i \in 1..Len(b) : h[i] = b[i]
        /\ h[Len(b) + 1] = R + 1
    <3> HIDE DEF R, b
    <3>1. m.chunk \in Nat
      BY <2>1, <2>4
    <3> QED
      BY <2>1, <2>4, <3>1
  <2>6. buf' = [buf EXCEPT ![x][c] = h]
    BY <1>12
  <2> HIDE DEF h
  <2>7. /\ buf' \in [Sides -> [Conns -> Seq(Nat)]]
        /\ \A y \in Sides, d \in Conns :
             buf'[y][d] = IF y = x /\ d = c THEN h ELSE buf[y][d]
    <3>1. buf \in [Sides -> [Conns -> Seq(Nat)]]
      BY <1>1 DEF IoTypes
    <3> QED
      BY <1>3, <2>5, <2>6, <3>1, EntryChanged
  <2>8. IoTypes' /\ EndTypes'
    BY <1>1, <1>2, <1>12, <1>13, <2>7 DEF IoTypes
  <2>9. Received(x, c)' = R + 1
    <3>1. buf'[x][c] = h /\ got' = got
      BY <1>2, <1>3, <2>7
    <3>2. Received(x, c)' = Len(got[x][c]) + Len(h)
      BY <3>1 DEF Received
    <3>3. R = Len(got[x][c]) + Len(b)
      BY DEF Received
    <3>4. \A u, v \in Nat : u + (v + 1) = (u + v) + 1
      OBVIOUS
    <3> HIDE DEF R, b
    <3> QED
      BY <2>1, <2>5, <3>2, <3>3, <3>4
  <2>10. Posted(Peer(x), c)' = P
    BY <1>2 DEF Posted
  <2>11. GapAt(x, c)'
    <3>1. net'[s][x] = Tail(q)
      BY <1>6, <1>12
    <3>2. k \in (R + 1)..P
      <4> HIDE DEF R, P
      <4> QED
        BY <2>1, <2>2, <2>3, <2>4
    <3>3. \E j \in Received(x, c)'..Posted(Peer(x), c)' :
            /\ Run(net'[via'[c]][x], c, Received(x, c)', j)
            /\ link'[via'[c]] = "up" => j = Posted(Peer(x), c)'
      BY <1>2, <1>3, <2>2, <2>4, <2>9, <2>10, <3>1, <3>2
    <3> QED
      BY <3>3 DEF GapAt
  <2>12. P <= wrote[Peer(x)][c]
    <3>1. wrote[Peer(x)][c] \in Nat
      BY <1>1, <1>3, PeerIsOther DEF IoTypes
    <3>2. P = wrote[Peer(x)][c] - 1 \/ P = wrote[Peer(x)][c]
      BY DEF Posted
    <3> HIDE DEF P
    <3> QED
      BY <3>1, <3>2
  <2>13. InOrder'
    <3> SUFFICES ASSUME NEW y \in Sides, NEW d \in Conns, y = "server" \/ up[d] = "on"
                 PROVE  /\ Received(y, d)' <= wrote[Peer(y)][d]
                        /\ \A i \in 1..Len(buf'[y][d]) : buf'[y][d][i] = Len(got[y][d]) + i
      <4>1. InOrder /\ got' = got /\ wrote' = wrote /\ up' = up
        BY <1>1, <1>2
      <4> QED
        BY <4>1 DEF InOrder
    <3>1. CASE ~(y = x /\ d = c)
      <4>1. buf'[y][d] = buf[y][d] /\ Received(y, d)' = Received(y, d)
        BY <1>2, <2>7, <3>1 DEF Received
      <4> QED
        BY <1>1, <4>1 DEF InOrder
    <3>2. CASE y = x /\ d = c
      <4>1. wrote[Peer(x)][c] \in Nat
        BY <1>1, <1>3, PeerIsOther DEF IoTypes
      <4>2. R + 1 <= wrote[Peer(x)][c]
        <5> HIDE DEF R, P
        <5> QED
          BY <2>1, <2>2, <2>3, <2>4, <2>12, <4>1
      <4>3. \A i \in 1..Len(b) : b[i] = Len(got[x][c]) + i
        BY <1>1, <3>2 DEF InOrder
      <4>4. R = Len(got[x][c]) + Len(b)
        BY DEF Received
      <4>5. \A i \in 1..Len(h) : h[i] = Len(got[x][c]) + i
        <5> HIDE DEF R, b
        <5> SUFFICES ASSUME NEW i \in 1..Len(h) PROVE h[i] = Len(got[x][c]) + i
          OBVIOUS
        <5>1. i \in 1..Len(b) \/ i = Len(b) + 1
          BY <2>1, <2>5
        <5>2. CASE i \in 1..Len(b)
          BY <2>5, <4>3, <5>2
        <5>3. CASE i = Len(b) + 1
          <6>1. \A u, v \in Nat : u + (v + 1) = (u + v) + 1
            OBVIOUS
          <6> QED
            BY <2>1, <2>5, <4>4, <5>3, <6>1
        <5> QED
          BY <5>1, <5>2, <5>3
      <4>6. buf'[y][d] = h
        BY <2>7, <3>2
      <4> QED
        BY <2>9, <3>2, <4>2, <4>5, <4>6
    <3> QED
      BY <3>1, <3>2
  <2>14. \A y \in Sides, d \in Conns :
           /\ Shut(y, d) => Shut(y, d)'
           /\ MapLife(y, d)'
           /\ buf'[y][d] = buf[y][d] \/ (y = x /\ d = c)
    BY <1>12, <1>13, <2>7
  <2> QED
    BY <1>1, <1>8, <1>12, <1>13, <2>8, <2>11, <2>13, <2>14
<1> QED
  BY <1>1, <1>10, <1>11, <1>12, <1>4

-----------------------------------------------------------------------------
(* The invariant *)

\* Nothing is open, dialed or under way at first.
LEMMA InitInv == Init => TunnelInv
<1> SUFFICES ASSUME Init PROVE TunnelInv
  OBVIOUS
<1>1. \A s \in Sessions, y \in Sides : net[s][y] = <<>>
  BY DEF Init
<1>2. TypeOK
  <2>1. SessionTypes /\ EndTypes /\ DialTypes /\ CloseTypes
    BY DEF Init, SessionTypes, EndTypes, DialTypes, CloseTypes, ServeStates, Errors
  <2>2. net \in NetType
    <3>1. <<>> \in Seq(Messages)
      OBVIOUS
    <3> QED
      BY <3>1 DEF Init, NetType
  <2>3. IoTypes
    <3>1. <<>> \in Seq(Nat) /\ 0 \in Nat
      OBVIOUS
    <3> QED
      BY <3>1 DEF Init, IoTypes
  <2> QED
    BY <2>1, <2>2, <2>3, TypesSplit
<1>3. SessionLife
  BY DEF Init, SessionLife, NoSession, Sides
<1>4. ConnLife
  <2>1. \A y \in Sides, d \in Conns : MapLife(y, d)
    BY DEF Init, MapLife
  <2> QED
    BY <2>1 DEF Init, ConnLife, Sides, NoSession
<1>5. OwnMessages
  BY <1>1, EmptyQueue DEF OwnMessages
<1>6. RequestFirst /\ NoGap
  BY DEF Init, RequestFirst, RequestAt, NoGap, GapAt
<1>7. InOrder
  <2> SUFFICES ASSUME NEW y \in Sides, NEW c \in Conns
               PROVE  /\ \A i \in 1..Len(got[y][c]) : got[y][c][i] = i
                      /\ Received(y, c) <= wrote[Peer(y)][c]
                      /\ \A i \in 1..Len(buf[y][c]) : buf[y][c][i] = Len(got[y][c]) + i
    BY DEF InOrder
  <2>1. got[y][c] = <<>> /\ buf[y][c] = <<>> /\ wrote[Peer(y)][c] = 0
    BY PeerIsOther DEF Init
  <2>2. Len(got[y][c]) = 0 /\ Len(buf[y][c]) = 0
    BY <2>1
  <2>3. Received(y, c) = 0
    BY <2>2 DEF Received
  <2> QED
    BY <2>1, <2>2, <2>3
<1> QED
  BY <1>2, <1>3, <1>4, <1>5, <1>6, <1>7 DEF TunnelInv

\* What the server and the pipe read.
LEMMA ReadInv ==
  ASSUME TunnelInv, NEW c \in Conns, ServerRead(c) \/ UpCopies(c)
  PROVE  TunnelInv' /\ \E x \in Sides :
           /\ got'[x][c] = Append(got[x][c], Len(got[x][c]) + 1)
           /\ buf[x][c] # <<>> /\ got' = [got EXCEPT ![x][c] = got'[x][c]]
           /\ x = "server" \/ up[c] = "on"
           /\ UNCHANGED <<wrote, end>>
<1>1. "server" \in Sides /\ "client" \in Sides
  BY DEF Sides
<1>2. CASE ServerRead(c)
  <2>1. /\ dial[c] # "idle" /\ TakeChunk("server", c)
        /\ UNCHANGED <<serving, clients, link, net, dial, via, late, conns, end, wrote,
                       pending, seen, pipe, up, down, closing, closer, reason, byPeer, due>>
    BY <1>2 DEF ServerRead, dialVars, pipeVars, closeVars
  <2>2. /\ TunnelInv'
        /\ got'["server"][c] = Append(got["server"][c], Len(got["server"][c]) + 1)
    BY <1>1, <2>1, TakeChunkInv
  <2>3. /\ buf["server"][c] # <<>>
        /\ got' = [got EXCEPT !["server"][c] = Append(got["server"][c], Head(buf["server"][c]))]
    BY <2>1 DEF TakeChunk
  <2>4. got' = [got EXCEPT !["server"][c] = got'["server"][c]]
    BY <1>1, <2>3 DEF TunnelInv, TypeOK
  <2> QED
    BY <1>1, <2>1, <2>2, <2>3, <2>4
<1>3. CASE UpCopies(c)
  <2>1. /\ pipe[c] # "none" /\ up[c] = "on" /\ TakeChunk("client", c)
        /\ UNCHANGED <<serving, clients, link, net, dial, via, late, conns, end, wrote,
                       pending, seen, pipe, up, down, closing, closer, reason, byPeer, due>>
    BY <1>3 DEF UpCopies, dialVars, pipeVars, closeVars
  <2>2. /\ TunnelInv'
        /\ got'["client"][c] = Append(got["client"][c], Len(got["client"][c]) + 1)
    BY <1>1, <2>1, TakeChunkInv, UsedSession
  <2>3. /\ buf["client"][c] # <<>>
        /\ got' = [got EXCEPT !["client"][c] = Append(got["client"][c], Head(buf["client"][c]))]
    BY <2>1 DEF TakeChunk
  <2>4. got' = [got EXCEPT !["client"][c] = got'["client"][c]]
    BY <1>1, <2>3 DEF TunnelInv, TypeOK
  <2> QED
    BY <1>1, <2>1, <2>2, <2>3, <2>4
<1> QED
  BY <1>2, <1>3

LEMMA StepInv ==
  ASSUME TunnelInv, [Next]_vars
  PROVE  TunnelInv'
<1>1. CASE UNCHANGED vars
  <2>1. UNCHANGED <<serving, clients, link, net, dial, via, late, conns, end, buf, wrote,
                    pending, got, seen, pipe, up, down, closing, closer, reason, byPeer, due>>
    BY <1>1 DEF vars
  <2>2. /\ EndTypes /\ IoTypes /\ DialTypes /\ ConnLife /\ InOrder
    BY TypesSplit DEF TunnelInv
  <2>3. EndTypes' /\ IoTypes' /\ DialTypes'
    BY <2>1, <2>2 DEF EndTypes, IoTypes, DialTypes
  <2>4. ConnLife' /\ InOrder' /\ EndsClose
    <3>1. \A y \in Sides, d \in Conns : MapLife(y, d)'
      BY <2>1, <2>2, MapLifeStill DEF ConnLife
    <3> QED
      BY <2>1, <2>2, <3>1, ShutStill DEF ConnLife, InOrder, Received, EndsClose
  <2>5. \A y \in Sides, d \in Conns : CountsKept(y, d)
    BY <2>1 DEF CountsKept, Received, Posted
  <2> QED
    BY <2>1, <2>3, <2>4, <2>5, QuietStepInv
<1>2. ASSUME NEW s \in Sessions,
             \/ OpenSession(s) \/ LinkBreaks(s)
             \/ \E x \in Sides : ServeFails(s, x) \/ StartClose(s, x) \/ EndClose(s, x)
      PROVE  TunnelInv'
  BY <1>2, SessionStepsInv DEF Sides
<1>3. ASSUME NEW s \in Sessions, ClientServe(s) PROVE TunnelInv'
  BY <1>3, ServeConnectInv DEF ClientServe
<1>4. ASSUME NEW s \in Sessions, NEW x \in Sides,
             ServeData(s, x) \/ ServeError(s, x) \/ \E c \in Conns : CloseOne(s, x, c)
      PROVE  TunnelInv'
  <2>1. CASE ServeData(s, x)
    BY <2>1, ServeDataInv
  <2>2. ASSUME NEW c \in Conns, CloseOne(s, x, c) PROVE TunnelInv'
    BY <2>2, CloseStepsInv
  <2>3. CASE ServeError(s, x)
    <3>1. PICK c \in Conns : TRUE
      <4>1. net[s][x] # <<>> /\ net[s][x] \in Seq(Messages)
        BY <2>3 DEF ServeError, Receives, TunnelInv, TypeOK
      <4>2. Head(net[s][x]) \in Messages
        BY <4>1
      <4> QED
        BY <4>2, MessageTypes
    <3> QED
      BY <2>3, <3>1, CloseStepsInv
  <2> QED
    BY <1>4, <2>1, <2>2, <2>3
<1>5. ASSUME NEW c \in Conns,
             \/ SendConnectFails(c) \/ ServerClose(c) \/ DialTargetFails(c)
             \/ RefuseShuts(c) \/ PipeWriteErr(c) \/ PipeClose(c)
      PROVE  TunnelInv'
  <2>1. via[c] \in Sessions
    BY <1>5, UsedSession DEF SendConnectFails, ServerClose, DialTargetFails, RefuseShuts,
      PipeWriteErr, PipeClose
  <2> QED
    BY <1>5, <2>1, CloseStepsInv DEF Sides
<1>6. ASSUME NEW c \in Conns,
             \/ GetByClient(c) \/ ServerConnect(c) \/ SendConnect(c)
             \/ ServerRead(c) \/ ServerReadEnds(c)
             \/ DialTarget(c) \/ DownStep(c) \/ UpStep(c)
             \/ \E x \in Sides : WriteCheck(x, c) \/ WriteSend(x, c) \/ CloseStep(x, c)
      PROVE  TunnelInv'
  <2>1. CASE GetByClient(c) \/ SendConnect(c)
    BY <2>1, GetByClientInv, SendConnectInv
  <2>2. CASE ServerConnect(c) \/ DialTarget(c) \/ ServerReadEnds(c)
    BY <2>2, OpenStepsInv
  <2>3. CASE ServerRead(c) \/ UpStep(c)
    BY <2>3, ReadInv, UpEndsInv DEF UpStep
  <2>4. CASE DownStep(c)
    BY <2>4, DownEndsInv DEF DownStep
  <2>5. ASSUME NEW x \in Sides, WriteCheck(x, c) \/ WriteSend(x, c) \/ CloseStep(x, c)
        PROVE  TunnelInv'
    BY <2>5, WriteCheckInv, WriteSendInv, TellShutInv
  <2> QED
    BY <1>6, <2>1, <2>2, <2>3, <2>4, <2>5
<1>7. CASE \E s \in Sessions :
             \/ OpenSession(s) \/ LinkBreaks(s) \/ ClientServe(s)
             \/ \E x \in Sides : ServeFails(s, x) \/ SessionStep(s, x)
  BY <1>2, <1>3, <1>4, <1>7 DEF SessionStep
<1>8. CASE \E c \in Conns :
             \/ GetByClient(c) \/ DialStep(c)
             \/ ServerRead(c) \/ ServerReadEnds(c) \/ ServerClose(c)
             \/ DialTargetStep(c) \/ DownStep(c) \/ UpStep(c)
             \/ PipeWriteErr(c) \/ PipeClose(c)
             \/ \E x \in Sides : WriteCheck(x, c) \/ WriteSend(x, c) \/ CloseStep(x, c)
  BY <1>5, <1>6, <1>8 DEF DialStep, DialTargetStep
<1> QED
  BY <1>1, <1>7, <1>8 DEF Next

\* The invariant holds in every reachable state of the tunnel.
THEOREM TunnelInvariant == Spec => []TunnelInv
<1>1. Init => TunnelInv
  BY InitInv
<1>2. TunnelInv /\ [Next]_vars => TunnelInv'
  BY StepInv
<1> QED
  BY <1>1, <1>2, PTL DEF Spec

\* All variables of the tunnel keep their types, in particular: no chunk is
\* counted below zero, no message is about an unknown connection, and no
\* connection uses an unknown session.
THEOREM TunnelTypeCorrect == Spec => []TypeOK
<1>1. TunnelInv => TypeOK
  BY DEF TunnelInv
<1> QED
  BY <1>1, TunnelInvariant, PTL

-----------------------------------------------------------------------------
(* The refinement *)

\* The first n numbers, and the next.
LEMMA NextChunk ==
  ASSUME NEW n \in Nat
  PROVE  /\ Append([i \in 1..n |-> i], n + 1) = [i \in 1..(n + 1) |-> i]
         /\ Len([i \in 1..n |-> i]) = n
<1> DEFINE q == [i \in 1..n |-> i]
<1>1. q \in Seq(Nat) /\ Len(q) = n
  OBVIOUS
<1>2. Append(q, n + 1) = [i \in 1..(n + 1) |-> i]
  BY <1>1
<1> QED
  BY <1>1, <1>2

\* A step that writes and reads nothing, and after which closed ends are closed,
\* closes some streams at most.
LEMMA ClosesOnly ==
  ASSUME UNCHANGED <<wrote, got>>,
         \A y \in Sides, d \in Conns : end[y][d] \in Errors => end'[y][d] \in Errors
  PROVE  Streams!Next
<1> DEFINE S == Sides \X Conns
           f == [t \in S |-> end[t[1]][t[2]] \in Errors]
           g == [t \in S |-> end'[t[1]][t[2]] \in Errors]
<1>1. g \in [S -> BOOLEAN]
  OBVIOUS
<1>2. \A t \in S : f[t] => g[t]
  <2> SUFFICES ASSUME NEW t \in S, f[t] PROVE g[t]
    OBVIOUS
  <2>1. t[1] \in Sides /\ t[2] \in Conns
    OBVIOUS
  <2>2. end[t[1]][t[2]] \in Errors
    OBVIOUS
  <2> QED
    BY <2>1, <2>2
<1>3. Streams!Close
  BY <1>1, <1>2 DEF Streams!Close
<1> QED
  BY <1>3 DEF Streams!Next

\* A Write that passes the check of its end is a write to the stream.
LEMMA WriteIsWrite ==
  ASSUME TunnelInv, NEW x \in Sides, NEW c \in Conns, WriteCheck(x, c)
  PROVE  Streams!Next
<1> DEFINE S == Sides \X Conns
           t == <<x, c>>
           w == wrote[x][c]
<1>1. /\ w \in Nat /\ w < MaxChunks[x] /\ end[x][c] = "open"
      /\ wrote' = [wrote EXCEPT ![x][c] = w + 1] /\ UNCHANGED <<got, end>>
  BY DEF WriteCheck, TunnelInv, TypeOK
<1>2. w + 1 \in 1..(MaxChunks["server"] + MaxChunks["client"])
  <2>1. MaxChunks["server"] \in Nat /\ MaxChunks["client"] \in Nat
    BY ChunkBounds
  <2>2. w < MaxChunks["server"] \/ w < MaxChunks["client"]
    BY <1>1 DEF Sides
  <2> QED
    BY <1>1, <2>1, <2>2
<1>3. t \in S /\ t[1] = x /\ t[2] = c
  OBVIOUS
<1>4. ~[u \in S |-> end[u[1]][u[2]] \in Errors][t]
  BY <1>1, <1>3 DEF Errors
<1>5. [u \in S |-> [i \in 1..wrote'[u[1]][u[2]] |-> i]] =
        [[u \in S |-> [i \in 1..wrote[u[1]][u[2]] |-> i]] EXCEPT
           ![t] = Append(@, w + 1)]
  <2> DEFINE f == [u \in S |-> [i \in 1..wrote[u[1]][u[2]] |-> i]]
  <2>1. f[t] = [i \in 1..w |-> i]
    BY <1>3
  <2>2. Append(f[t], w + 1) = [i \in 1..(w + 1) |-> i]
    BY <1>1, <2>1, NextChunk
  <2>3. \A y \in Sides, d \in Conns :
          wrote'[y][d] = IF y = x /\ d = c THEN w + 1 ELSE wrote[y][d]
    BY <1>1, EntryChanged DEF TunnelInv, TypeOK
  <2>4. ASSUME NEW u \in S
        PROVE  [i \in 1..wrote'[u[1]][u[2]] |-> i] =
                 IF u = t THEN [i \in 1..(w + 1) |-> i] ELSE f[u]
    <3>1. u[1] \in Sides /\ u[2] \in Conns /\ u = <<u[1], u[2]>>
      OBVIOUS
    <3>2. CASE u = t
      BY <1>3, <2>3, <3>2
    <3>3. CASE u # t
      <4>1. ~(u[1] = x /\ u[2] = c)
        BY <3>1, <3>3
      <4>2. wrote'[u[1]][u[2]] = wrote[u[1]][u[2]]
        BY <2>3, <3>1, <4>1
      <4> QED
        BY <3>3, <4>2
    <3> QED
      BY <3>2, <3>3
  <2>5. [u \in S |-> [i \in 1..wrote'[u[1]][u[2]] |-> i]] =
          [f EXCEPT ![t] = [i \in 1..(w + 1) |-> i]]
    BY <2>4
  <2> QED
    BY <2>2, <2>5
<1>6. Streams!Write(t)
  BY <1>1, <1>2, <1>4, <1>5 DEF Streams!Write
<1> QED
  BY <1>3, <1>6 DEF Streams!Next

\* A chunk that is passed on is the next one of the stream.
LEMMA ReadIsRead ==
  ASSUME TunnelInv, NEW c \in Conns, ServerRead(c) \/ UpCopies(c)
  PROVE  Streams!Next
<1>1. PICK x \in Sides :
        /\ got'[x][c] = Append(got[x][c], Len(got[x][c]) + 1)
        /\ buf[x][c] # <<>> /\ got' = [got EXCEPT ![x][c] = got'[x][c]]
        /\ x = "server" \/ up[c] = "on"
        /\ UNCHANGED <<wrote, end>>
  BY ReadInv
<1> DEFINE S == Sides \X Conns
           p == Peer(x)
           t == <<p, c>>
           g == got[x][c]
           w == wrote[p][c]
           f == [u \in S |-> got[Peer(u[1])][u[2]]]
           h == [u \in S |-> [i \in 1..wrote[u[1]][u[2]] |-> i]]
<1>2. p \in Sides /\ Peer(p) = x
  BY PeerIsOther
<1>3. t \in S /\ t[1] = p /\ t[2] = c
  BY <1>2
<1>4. f[t] = g /\ h[t] = [i \in 1..w |-> i]
  BY <1>2, <1>3
<1>5. g \in Seq(Nat) /\ w \in Nat /\ buf[x][c] \in Seq(Nat)
  BY <1>2 DEF TunnelInv, TypeOK
<1>6. Len(g) \in Nat /\ Len(g) + 1 <= w
  <2>1. Received(x, c) <= w /\ Received(x, c) = Len(g) + Len(buf[x][c])
    BY <1>1 DEF TunnelInv, InOrder, Received
  <2>2. Len(g) \in Nat /\ Len(buf[x][c]) \in Nat /\ Len(buf[x][c]) >= 1
    BY <1>1, <1>5
  <2>3. \A a, b, d, e \in Nat : b >= 1 /\ d = a + b /\ d <= e => a + 1 <= e
    OBVIOUS
  <2> HIDE DEF g, w
  <2>4. Received(x, c) \in Nat
    BY <2>1, <2>2
  <2> QED
    BY <1>5, <2>1, <2>2, <2>3, <2>4
<1>7. Len(h[t]) = w /\ Len(g) < w /\ h[t][Len(g) + 1] = Len(g) + 1
  <2> HIDE DEF g, w, h
  <2> QED
    BY <1>4, <1>5, <1>6, NextChunk
<1>8. [u \in S |-> got'[Peer(u[1])][u[2]]] = [f EXCEPT ![t] = Append(g, Len(g) + 1)]
  <2> DEFINE v == Append(g, Len(g) + 1)
  <2>1. v \in Seq(Nat) /\ got' = [got EXCEPT ![x][c] = v]
    BY <1>1, <1>5
  <2>2. got \in [Sides -> [Conns -> Seq(Nat)]]
    BY DEF TunnelInv, TypeOK
  <2> HIDE DEF v
  <2>3. \A y \in Sides, d \in Conns : got'[y][d] = IF y = x /\ d = c THEN v ELSE got[y][d]
    BY <2>1, <2>2, EntryChanged
  <2>4. ASSUME NEW u \in S
        PROVE  got'[Peer(u[1])][u[2]] = IF u = t THEN v ELSE f[u]
    <3>1. u[1] \in Sides /\ u[2] \in Conns /\ u = <<u[1], u[2]>>
      OBVIOUS
    <3>2. Peer(u[1]) \in Sides /\ (Peer(u[1]) = x <=> u[1] = p)
      BY <1>2, <3>1, PeerIsOther
    <3>3. CASE u = t
      BY <1>2, <1>3, <2>3, <3>3
    <3>4. CASE u # t
      <4>1. ~(u[1] = p /\ u[2] = c)
        BY <3>1, <3>4
      <4>2. got'[Peer(u[1])][u[2]] = got[Peer(u[1])][u[2]]
        BY <2>3, <3>1, <3>2, <4>1
      <4> QED
        BY <3>4, <4>2
    <3> QED
      BY <3>3, <3>4
  <2>5. [u \in S |-> got'[Peer(u[1])][u[2]]] = [f EXCEPT ![t] = v]
    BY <2>4
  <2> QED
    BY <2>5 DEF v
<1>9. /\ Len(f[t]) < Len(h[t])
      /\ [u \in S |-> got'[Peer(u[1])][u[2]]] =
           [f EXCEPT ![t] = Append(f[t], h[t][Len(f[t]) + 1])]
  BY <1>4, <1>7, <1>8
<1>10. Streams!Read(t)
  BY <1>1, <1>9 DEF Streams!Read
<1> QED
  BY <1>3, <1>10 DEF Streams!Next

\* Every other step writes and reads nothing, and opens no closed end.
LEMMA OtherSteps ==
  ASSUME TunnelInv, [Next]_vars,
         ~\E c \in Conns : ServerRead(c) \/ UpCopies(c) \/ \E x \in Sides : WriteCheck(x, c)
  PROVE  /\ UNCHANGED <<wrote, got>>
         /\ \A y \in Sides, d \in Conns : end[y][d] \in Errors => end'[y][d] \in Errors
<1>1. /\ EndTypes /\ CloseTypes /\ DialTypes /\ ConnLife /\ net \in NetType /\ OwnMessages
      /\ "server" \in Sides /\ "client" \in Sides /\ "err" \in Errors /\ "eof" \in Errors
      /\ "none" \notin Errors /\ "open" \notin Errors
  BY TypesSplit DEF TunnelInv, Sides, Errors
<1> DEFINE Goal == /\ UNCHANGED <<wrote, got>>
                   /\ \A y \in Sides, d \in Conns :
                        end[y][d] \in Errors => end'[y][d] \in Errors
<1>2. ASSUME UNCHANGED <<wrote, got, end>> PROVE Goal
  BY <1>2
<1>3. ASSUME UNCHANGED <<wrote, got>>, NEW x \in Sides, NEW c \in Conns, NEW e \in Errors,
             DoTunnelClose(x, c, e)
      PROVE  Goal
  BY <1>1, <1>3, CloseTyped
<1>4. ASSUME NEW x \in Sides, NEW c \in Conns, CloseStep(x, c) PROVE Goal
  <2>1. CASE TellPeer(x, c)
    BY <1>2, <2>1 DEF TellPeer, ioVars
  <2>2. CASE ShutEnd(x, c)
    <3>1. reason[x][c] \in Errors
      BY <1>1 DEF CloseTypes
    <3>2. UNCHANGED <<wrote, got>> /\ DoTunnelClose(x, c, reason[x][c])
      BY <2>2 DEF ShutEnd, ioVars
    <3> HIDE DEF Goal
    <3> QED
      BY <1>3, <3>1, <3>2
  <2> QED
    BY <1>4, <2>1, <2>2 DEF CloseStep
<1>5. ASSUME UNCHANGED <<wrote, got>>, NEW x \in Sides, NEW c \in Conns,
             end[x][c] = "none", end' = [end EXCEPT ![x][c] = "open"]
      PROVE  Goal
  <2>1. \A y \in Sides, d \in Conns :
          end'[y][d] = IF y = x /\ d = c THEN "open" ELSE end[y][d]
    <3>1. "open" \in {"none", "open"} \cup Errors
      OBVIOUS
    <3> QED
      BY <1>1, <1>5, <3>1, EntryChanged DEF EndTypes
  <2> QED
    BY <1>1, <1>5, <2>1
<1>6. CASE UNCHANGED vars
  BY <1>2, <1>6 DEF vars
<1>7. ASSUME NEW s \in Sessions,
             \/ OpenSession(s) \/ LinkBreaks(s) \/ ClientServe(s)
             \/ \E x \in Sides : ServeFails(s, x) \/ SessionStep(s, x)
      PROVE  Goal
  <2>1. CASE \/ OpenSession(s) \/ LinkBreaks(s) \/ RefuseConnect(s)
             \/ \E x \in Sides : ServeFails(s, x) \/ StartClose(s, x) \/ EndClose(s, x)
    BY <1>2, <2>1 DEF OpenSession, LinkBreaks, RefuseConnect, ServeFails, StartClose,
      EndClose, connVars, ioVars
  <2>2. CASE ServeConnect(s)
    <3>1. PICK c \in Conns : /\ c = Head(net[s]["client"]).conn
                             /\ end["client"][c] = "none"
      <4> DEFINE q == net[s]["client"]
      <4>1. q # <<>> /\ q \in Seq(Messages) /\ Head(q).type = "connect"
        BY <1>1, <2>2 DEF ServeConnect, Receives, NetType
      <4>2. Head(q) = q[1] /\ 1 \in 1..Len(q) /\ Head(q) \in Messages
        BY <4>1, QueueTail
      <4>3. end["client"][Head(q).conn] = "none"
        BY <1>1, <4>1, <4>2 DEF OwnMessages
      <4>4. Head(q).conn \in Conns
        BY <4>2, MessageTypes
      <4> QED
        BY <4>3, <4>4
    <3>2. UNCHANGED <<wrote, got>> /\ end' = [end EXCEPT !["client"][c] = "open"]
      BY <2>2, <3>1 DEF ServeConnect, ioVars
    <3> QED
      BY <1>1, <1>5, <3>1, <3>2
  <2>3. ASSUME NEW x \in Sides,
               (\E c \in Conns : CloseOne(s, x, c)) \/ ServeData(s, x) \/ ServeError(s, x)
        PROVE  Goal
    BY <1>2, <2>3 DEF CloseOne, ServeData, ServeError, ioVars
  <2> QED
    BY <1>7, <2>1, <2>2, <2>3 DEF ClientServe, SessionStep
<1>8. ASSUME NEW c \in Conns,
             \/ GetByClient(c) \/ DialStep(c)
             \/ ServerReadEnds(c) \/ ServerClose(c)
             \/ DialTargetStep(c) \/ DownStep(c) \/ UpEnds(c)
             \/ PipeWriteErr(c) \/ PipeClose(c)
             \/ \E x \in Sides : WriteSend(x, c) \/ CloseStep(x, c)
      PROVE  Goal
  <2>1. CASE \/ GetByClient(c) \/ SendConnect(c) \/ SendConnectFails(c) \/ ServerReadEnds(c)
             \/ ServerClose(c) \/ DialTarget(c) \/ DialTargetFails(c) \/ PipeWriteErr(c)
             \/ PipeClose(c) \/ \E x \in Sides : WriteSend(x, c)
    BY <1>2, <2>1 DEF GetByClient, SendConnect, SendConnectFails, ServerReadEnds,
      ServerClose, DialTarget, DialTargetFails, PipeWriteErr, PipeClose, WriteSend, ioVars
  <2>2. CASE ServerConnect(c)
    <3>1. UNCHANGED <<wrote, got>> /\ end' = [end EXCEPT !["server"][c] = "open"]
      BY <2>2 DEF ServerConnect, ioVars
    <3>2. end["server"][c] = "none"
      BY <1>1, <2>2 DEF ServerConnect, ConnLife
    <3> QED
      BY <1>1, <1>5, <3>1, <3>2
  <2>3. ASSUME NEW x \in Sides, CloseStep(x, c) PROVE Goal
    BY <1>4, <2>3
  <2>4. CASE RefuseShuts(c)
    BY <1>1, <1>3, <2>4 DEF RefuseShuts, ioVars
  <2>5. CASE DownStep(c)
    BY <1>1, <1>3, <2>5 DEF DownStep, DownEnds
  <2>6. CASE UpEnds(c)
    <3>1. UNCHANGED <<wrote, got>> /\ (UNCHANGED end \/ DoTunnelClose("client", c, "err"))
      BY <2>6 DEF UpEnds
    <3> QED
      BY <1>1, <1>2, <1>3, <3>1
  <2> QED
    BY <1>8, <2>1, <2>2, <2>3, <2>4, <2>5, <2>6 DEF DialStep, DialTargetStep
<1>9. CASE \E s \in Sessions :
             \/ OpenSession(s) \/ LinkBreaks(s) \/ ClientServe(s)
             \/ \E x \in Sides : ServeFails(s, x) \/ SessionStep(s, x)
  BY <1>7, <1>9
<1>10. CASE \E c \in Conns :
              \/ GetByClient(c) \/ DialStep(c)
              \/ ServerRead(c) \/ ServerReadEnds(c) \/ ServerClose(c)
              \/ DialTargetStep(c) \/ DownStep(c) \/ UpStep(c)
              \/ PipeWriteErr(c) \/ PipeClose(c)
              \/ \E x \in Sides : WriteCheck(x, c) \/ WriteSend(x, c) \/ CloseStep(x, c)
  <2>1. PICK c \in Conns :
             \/ GetByClient(c) \/ DialStep(c)
             \/ ServerReadEnds(c) \/ ServerClose(c)
             \/ DialTargetStep(c) \/ DownStep(c) \/ UpEnds(c)
             \/ PipeWriteErr(c) \/ PipeClose(c)
             \/ \E x \in Sides : WriteSend(x, c) \/ CloseStep(x, c)
    BY <1>10 DEF UpStep
  <2> QED
    BY <1>8, <2>1
<1> QED
  BY <1>6, <1>9, <1>10 DEF Next

\* The tunnel implements independent streams, for any numbers of sessions,
\* connections and chunks, any capacity of the channels and of the websocket:
\* chunks arrive in order, each once and none of another connection, and a
\* closed end takes no more data (connection.Write, chanWriter.Write,
\* serveMessage).
THEOREM TunnelImplementsStreams == Spec => ImplementsStreams
<1>1. Init => Streams!Init
  <2> SUFFICES ASSUME Init PROVE Streams!Init
    OBVIOUS
  <2>1. \A t \in Sides \X Conns :
          /\ wrote[t[1]][t[2]] = 0 /\ got[Peer(t[1])][t[2]] = <<>>
          /\ (end[t[1]][t[2]] \in Errors) = FALSE
    BY PeerIsOther DEF Init, Errors
  <2>2. [i \in 1..0 |-> i] = <<>>
    OBVIOUS
  <2>3. \A t \in Sides \X Conns : [i \in 1..wrote[t[1]][t[2]] |-> i] = <<>>
    BY <2>1, <2>2
  <2> QED
    BY <2>1, <2>3 DEF Streams!Init
<1>2. TunnelInv /\ [Next]_vars => [Streams!Next]_(Streams!vars)
  <2> SUFFICES ASSUME TunnelInv, [Next]_vars PROVE Streams!Next
    OBVIOUS
  <2>1. ASSUME NEW c \in Conns, ServerRead(c) \/ UpCopies(c) PROVE Streams!Next
    BY <2>1, ReadIsRead
  <2>2. ASSUME NEW c \in Conns, NEW x \in Sides, WriteCheck(x, c) PROVE Streams!Next
    BY <2>2, WriteIsWrite
  <2>3. CASE ~\E c \in Conns :
                ServerRead(c) \/ UpCopies(c) \/ \E x \in Sides : WriteCheck(x, c)
    BY <2>3, OtherSteps, ClosesOnly
  <2> QED
    BY <2>1, <2>2, <2>3
<1> QED
  BY <1>1, <1>2, TunnelInvariant, PTL DEF Spec, ImplementsStreams, Streams!Spec

-----------------------------------------------------------------------------
(* What an end is told of the other one: the invariant *)

IsEof(m, c) == m.type = "error" /\ m.conn = c /\ m.err = "eof"

\* The chunks of c from r + 1 to w are among the messages before position i.
Covered(q, i, c, r, w) ==
  \A k \in (r + 1)..w : \E j \in 1..(i - 1) : IsData(q[j], c) /\ q[j].chunk = k

\* The chunks that a reader must have got before io.EOF: all that the target sent,
\* and those whose Write had returned when the caller of Dial called Close.
Owed(y, c) == IF y = "client" THEN wrote[y][c] ELSE due[c]

\* No more will be owed: the client's end is closed, the server's end is shut.
Final(y, c) == IF y = "client" THEN end[y][c] \in Errors ELSE Shut(y, c)

\* The server's end is closed by whoever has taken it out of the map.  The client's
\* is closed with io.EOF by io.Copy from the target, once it has no Write under way,
\* or out of the map; and it is closed when the pipe has ended.
EndMaps ==
  \A c \in Conns :
    /\ end["server"][c] \in Errors => c \notin conns["server"]
    /\ pending["client"][c] =>
         /\ pipe[c] = "copying" /\ down[c] = "on"
         /\ end["client"][c] = "eof" => c \notin conns["client"]
    /\ pipe[c] = "closing" => end["client"][c] \in Errors
    /\ due[c] <= Posted("server", c)

\* Who closes an end is still there: the serve loop waits for it, the pipe has not
\* ended, Close is called on the server.
CloserAt(y, c) ==
  /\ closing[y][c] = "none" <=> closer[y][c] = "none"
  /\ closer[y][c] \in Loops => serving[via[c]][y] = "on"
  /\ closer[y][c] = "pipe" => y = "client" /\ pipe[c] = "closing"
  /\ closer[y][c] = "caller" => y = "server"

\* Who is about to send io.EOF to an end that can still receive has sent the rest.
ReadyAt(y, c) ==
  (y = "client" /\ closing[y][c] = "tell" /\ reason[y][c] = "eof" /\ ~Shut(Peer(y), c)) =>
    end[y][c] \in Errors /\ ~pending[y][c]

\* An end that is being closed with the peer's io.EOF has received what is owed.
TellingAt(y, c) ==
  closer[y][c] = "peer" /\ reason[y][c] = "eof" /\ end[y][c] = "open" =>
    Final(Peer(y), c) /\ Owed(Peer(y), c) <= Received(y, c)

ClosingAt(y, c) == CloserAt(y, c) /\ ReadyAt(y, c) /\ TellingAt(y, c)

Closings == \A y \in Sides, c \in Conns : ClosingAt(y, c)

SeenIsEnd == \A x \in Sides, c \in Conns : seen[x][c] # "none" => end[x][c] = seen[x][c]

\* An io.EOF on its way to side x at position i of q: the other end is shut, and
\* if x can still receive what is owed has been received or goes ahead.
EofAt(q, i, x, c) ==
  /\ Shut(Peer(x), c)
  /\ ~Shut(x, c) =>
       Final(Peer(x), c) /\ Covered(q, i, c, Received(x, c), Owed(Peer(x), c))

EofSent ==
  \A s \in Sessions, x \in Sides, c \in Conns : \A i \in 1..Len(net[s][x]) :
    IsEof(net[s][x][i], c) => EofAt(net[s][x], i, x, c)

\* A websocket carries errors of its own connections only.
ErrorsOwn ==
  \A s \in Sessions, x \in Sides : \A i \in 1..Len(net[s][x]) :
    net[s][x][i].type = "error" => via[net[s][x][i].conn] = s

\* An end that the peer has closed with io.EOF: what is owed has arrived, and
\* a reader that has been told has read it.
ToldAt(x, c) ==
  <<x, c>> \in byPeer =>
    /\ end[x][c] \in Errors
    /\ end[x][c] = "eof" =>
         /\ Final(Peer(x), c)
         /\ x = "server" \/ up[c] = "on" => Owed(Peer(x), c) <= Received(x, c)
         /\ seen[x][c] = "eof" => Owed(Peer(x), c) <= Len(got[x][c])

EofTold == \A x \in Sides, c \in Conns : ToldAt(x, c)

HonestInv ==
  /\ EndMaps /\ Closings /\ SeenIsEnd /\ ErrorsOwn /\ EofSent /\ EofTold
  /\ ClosedSessionClosesConns

-----------------------------------------------------------------------------
(* Chunks ahead of a position *)

\* What is covered stays so when a message is added behind.
LEMMA CoveredAppend ==
  ASSUME NEW q \in Seq(Messages), NEW m \in Messages, NEW c \in Conns, NEW r \in Nat,
         NEW w \in Int, NEW i \in 1..(Len(q) + 1), Covered(q, i, c, r, w)
  PROVE  Covered(Append(q, m), i, c, r, w)
<1>1. \A j \in 1..(i - 1) : j \in 1..Len(q)
  BY QueueAppend
<1> DEFINE p == Append(q, m)
<1>2. \A j \in 1..Len(q) : p[j] = q[j]
  BY QueueAppend
<1> HIDE DEF p
<1>3. Covered(p, i, c, r, w)
  BY <1>1, <1>2 DEF Covered
<1> QED
  BY <1>3 DEF p

\* The chunk that is taken is received, the others have moved up.
LEMMA CoveredTail ==
  ASSUME NEW q \in Seq(Messages), q # <<>>, NEW c \in Conns, NEW r \in Nat,
         NEW t \in Nat, NEW w \in Int, NEW i \in 1..Len(Tail(q)),
         Covered(q, i + 1, c, r, w), r <= t,
         IsData(Head(q), c) => Head(q).chunk <= t
  PROVE  Covered(Tail(q), i, c, t, w)
<1> DEFINE p == Tail(q)
<1>1. /\ Len(q) \in Nat /\ Len(p) = Len(q) - 1
      /\ \A j \in 1..Len(p) : p[j] = q[j + 1]
      /\ Head(q) = q[1]
  BY QueueTail
<1>2. i \in 1..Len(p)
  OBVIOUS
<1> HIDE DEF p
<1>3. ASSUME NEW k \in (t + 1)..w
      PROVE  \E j \in 1..(i - 1) : IsData(p[j], c) /\ p[j].chunk = k
  <2>1. k \in (r + 1)..w
    OBVIOUS
  <2>2. PICK j \in 1..i : IsData(q[j], c) /\ q[j].chunk = k
    <3>1. (i + 1) - 1 = i
      BY <1>1, <1>2
    <3> QED
      BY <2>1, <3>1 DEF Covered
  <2>3. j # 1
    <3> SUFFICES ASSUME j = 1 PROVE FALSE
      OBVIOUS
    <3>1. k <= t
      BY <1>1, <2>2
    <3> QED
      BY <3>1
  <2>4. j - 1 \in 1..(i - 1) /\ j - 1 \in 1..Len(p) /\ (j - 1) + 1 = j
    BY <1>1, <1>2, <2>3
  <2>5. p[j - 1] = q[j]
    BY <1>1, <2>4
  <2> QED
    BY <2>2, <2>4, <2>5
<1> QED
  BY <1>3 DEF Covered, p

\* The more has been received, the less has to be ahead.
LEMMA CoveredLess ==
  ASSUME NEW q, NEW i, NEW c, NEW r \in Nat, NEW t \in Nat, NEW w \in Int, r <= t,
         Covered(q, i, c, r, w)
  PROVE  Covered(q, i, c, t, w)
<1>1. \A k \in (t + 1)..w : k \in (r + 1)..w
  OBVIOUS
<1> QED
  BY <1>1 DEF Covered

\* A message added behind a run has all of it ahead.
LEMMA RunCovers ==
  ASSUME NEW q \in Seq(Messages), NEW c \in Conns, NEW r \in Nat, NEW w \in Int,
         NEW u \in Int, u <= w, Run(q, c, r, w)
  PROVE  Covered(q, Len(q) + 1, c, r, u)
<1>1. (Len(q) + 1) - 1 = Len(q)
  BY QueueAppend
<1>2. \A k \in (r + 1)..u : k \in (r + 1)..w
  OBVIOUS
<1> QED
  BY <1>1, <1>2 DEF Covered, Run

\* What is owed is a number; the server owes no more than it has posted, and the
\* client no more when it has no Write under way.
LEMMA OwedTyped ==
  ASSUME TypeOK, EndMaps, NEW y \in Sides, NEW c \in Conns
  PROVE  /\ Owed(y, c) \in Int
         /\ y = "client" => ~pending[y][c] \/ Owed(y, c) = Posted(y, c) + 1
         /\ y = "server" \/ ~pending[y][c] => Owed(y, c) <= Posted(y, c)
<1>1. wrote[y][c] \in Nat /\ due[c] \in Nat
  BY DEF TypeOK
<1>2. due[c] <= Posted("server", c)
  BY DEF EndMaps
<1> QED
  BY <1>1, <1>2 DEF Owed, Posted, Sides

-----------------------------------------------------------------------------
(* What a step may do *)

\* Ends open and close, and a closed one stays as it is; the server's is out of
\* the map when it closes.
EndMoves(y, c) ==
  \/ end'[y][c] = end[y][c]
  \/ /\ end[y][c] = "open" /\ end'[y][c] \in Errors
     /\ y = "server" => c \notin conns'[y]
  \/ /\ end[y][c] = "none" /\ end'[y][c] = "open"
     /\ serving'[via'[c]][y] # "closed" \/ (y = "server" /\ c \in late')

EndsMove ==
  /\ \A y \in Sides, c \in Conns : EndMoves(y, c)
  /\ \A y \in Sides : \A c \in conns'[y] : c \in conns[y] \/ end'[y][c] = "open"

\* The client starts a Write on an open end only, while io.Copy from the target
\* runs; when the pipe has ended its end is closed.
WritesMove ==
  \A c \in Conns :
    /\ pending'["client"][c] =>
         /\ pipe'[c] = "copying" /\ down'[c] = "on"
         /\ end'["client"][c] = "eof" => c \notin conns'["client"]
         /\ pending["client"][c] \/ end["client"][c] = "open"
    /\ pipe'[c] = "closing" => end'["client"][c] \in Errors

\* Who closes an end stays until it is closed.
CloserMoves(y, c) ==
  /\ closer[y][c] # "none" => closer'[y][c] = closer[y][c] \/ end'[y][c] \in Errors
  /\ \/ /\ closing'[y][c] = closing[y][c] /\ closer'[y][c] = closer[y][c]
        /\ reason'[y][c] = reason[y][c]
        /\ closer[y][c] = "pipe" => pipe'[c] = pipe[c]
     \/ ClosingAt(y, c)'
ClosersMove == \A y \in Sides, c \in Conns : CloserMoves(y, c)

\* A session that ends has no open end left but those that are being closed; a
\* dialed connection has none yet and keeps its session; a serve loop that closes
\* an end does not end.
ClosesMove ==
  /\ late \subseteq late'
  /\ \A c \in Conns : via'[c] = via[c] \/ via[c] = NoSession
  /\ \A y \in Sides, c \in Conns :
       /\ end'[y][c] = "open" => via'[c] = via[c]
       /\ closer[y][c] \in Loops /\ serving[via[c]][y] = "on" => serving'[via'[c]][y] = "on"
  /\ \A s \in Sessions, y \in Sides : serving'[s][y] = "closed" =>
       \/ serving[s][y] = "closed"
       \/ \A c \in Conns : via'[c] = s /\ end'[y][c] = "open" =>
            y = "server" /\ closer'[y][c] = "caller"

\* Nothing is written to a closed end; what was received stays, unless io.Copy
\* loses it and ends; the reader is told when there is nothing left.
DataMoves(y, c) ==
  /\ end[y][c] \in Errors => wrote'[y][c] = wrote[y][c]
  /\ \/ Received(y, c)' >= Received(y, c)
     \/ y = "client" /\ up'[c] = "done" /\ end'[y][c] \in Errors
  /\ Len(got'[y][c]) >= Len(got[y][c])
  /\ up[c] = "done" => up'[c] = "done"
  /\ \/ seen'[y][c] = seen[y][c]
     \/ /\ buf[y][c] = <<>> /\ end[y][c] \in Errors /\ seen'[y][c] = end[y][c]
        /\ y = "server" \/ up[c] = "on"

\* Close owes what has been posted when it is called.
DueMoves(c) ==
  \/ due'[c] = due[c] /\ Posted("server", c)' >= Posted("server", c)
  \/ ~Shut("server", c) /\ due'[c] = Posted("server", c)'

DataMove ==
  /\ \A y \in Sides, c \in Conns : DataMoves(y, c)
  /\ \A c \in Conns : DueMoves(c)

DataStill ==
  UNCHANGED <<buf, wrote, got, seen, up, due>> /\ pending'["server"] = pending["server"]

\* An end is told of the other when it is closed for an error message.
ToldMoves ==
  \/ byPeer' = byPeer
  \/ \E x \in Sides, c \in Conns :
       /\ closer[x][c] = "peer" /\ end[x][c] = "open" /\ end'[x][c] = reason[x][c]
       /\ byPeer' = byPeer \cup {<<x, c>>}
       /\ DataStill

\* The queue of s towards y keeps its messages, loses its head, which if data
\* is received or meets a shut end, gets one more of its own, or is emptied.  Before an
\* io.EOF all that is owed has been posted.
EofMoves(s, y, c) ==
  /\ Shut(Peer(y), c)'
  /\ ~Shut(y, c)' =>
       /\ Final(Peer(y), c)' /\ via[c] = s /\ link[s] = "up"
       /\ Owed(Peer(y), c)' <= Posted(Peer(y), c)
QueueMoves(s, y, c) ==
  \/ net'[s][y] = net[s][y] \/ net'[s][y] = <<>>
  \/ /\ net[s][y] # <<>> /\ net'[s][y] = Tail(net[s][y])
     /\ IsData(Head(net[s][y]), c) =>
          Shut(y, c)' \/ Head(net[s][y]).chunk <= Received(y, c)'
  \/ \E m \in Messages :
       /\ net'[s][y] = Append(net[s][y], m)
       /\ m.type = "error" /\ m.conn = c => via[c] = s
       /\ IsEof(m, c) => EofMoves(s, y, c)
QueuesMove == \A s \in Sessions, y \in Sides, c \in Conns : QueueMoves(s, y, c)

\* A closed end stays closed, and an end that is not was not.
LEMMA ClosedStays ==
  ASSUME EndsMove, NEW y \in Sides, NEW c \in Conns
  PROVE  /\ end[y][c] \in Errors => end'[y][c] = end[y][c]
         /\ end'[y][c] \notin Errors => end[y][c] \notin Errors
<1>1. EndMoves(y, c) /\ "open" \notin Errors /\ "none" \notin Errors
  BY DEF EndsMove, Errors
<1> QED
  BY <1>1 DEF EndMoves

\* A shut end stays shut.
LEMMA ShutStays ==
  ASSUME EndsMove, ClosersMove, Closings, NEW y \in Sides, NEW c \in Conns
  PROVE  Shut(y, c) => Shut(y, c)'
<1> SUFFICES ASSUME Shut(y, c), end'[y][c] \notin Errors PROVE closing'[y][c] # "none"
  BY DEF Shut
<1>1. CloserMoves(y, c) /\ closing[y][c] # "none"
  BY ClosedStays DEF ClosersMove, Shut
<1>2. closer[y][c] # "none"
  BY <1>1 DEF Closings, ClosingAt, CloserAt
<1>3. closer'[y][c] = closer[y][c]
  BY <1>1, <1>2 DEF CloserMoves
<1>4. CASE closing'[y][c] = closing[y][c]
  BY <1>1, <1>4
<1>5. CASE ClosingAt(y, c)'
  BY <1>2, <1>3, <1>5 DEF ClosingAt, CloserAt
<1> QED
  BY <1>1, <1>4, <1>5 DEF CloserMoves

\* What is owed by an end that will owe no more.
LEMMA FinalStays ==
  ASSUME EndsMove, ClosersMove, Closings, DataMove, NEW y \in Sides, NEW c \in Conns,
         Final(y, c)
  PROVE  Final(y, c)' /\ Owed(y, c)' = Owed(y, c)
<1>1. CASE y = "client"
  <2>1. end[y][c] \in Errors /\ DataMoves(y, c)
    BY <1>1 DEF Final, DataMove
  <2>2. end'[y][c] \in Errors
    BY <2>1, ClosedStays
  <2>3. wrote'[y][c] = wrote[y][c]
    BY <2>1 DEF DataMoves
  <2> QED
    BY <1>1, <2>2, <2>3 DEF Final, Owed
<1>2. CASE y # "client"
  <2>1. Shut(y, c) /\ Shut(y, c)' /\ y = "server"
    BY <1>2, ShutStays DEF Final, Sides
  <2>2. due'[c] = due[c]
    BY <2>1 DEF DataMove, DueMoves
  <2> QED
    BY <1>2, <2>1, <2>2 DEF Final, Owed
<1> QED
  BY <1>1, <1>2

\* An end that is final is shut.
LEMMA FinalIsShut ==
  ASSUME NEW y \in Sides, NEW c \in Conns, Final(y, c)
  PROVE  Shut(y, c)
  BY DEF Final, Shut


-----------------------------------------------------------------------------
(* Steps of this kind keep the invariant, part by part *)

LEMMA MapsKept ==
  ASSUME TypeOK, TypeOK', EndMaps, EndsMove, WritesMove, DataMove
  PROVE  EndMaps'
<1> SUFFICES ASSUME NEW c \in Conns
             PROVE  /\ end'["server"][c] \in Errors => c \notin conns'["server"]
                    /\ pending'["client"][c] =>
                         /\ pipe'[c] = "copying" /\ down'[c] = "on"
                         /\ end'["client"][c] = "eof" => c \notin conns'["client"]
                    /\ pipe'[c] = "closing" => end'["client"][c] \in Errors
                    /\ due'[c] <= Posted("server", c)'
  BY DEF EndMaps
<1>1. "none" \notin Errors /\ "open" \notin Errors /\ "server" \in Sides /\ "client" \in Sides
  BY DEF Errors, Sides
<1>2. ASSUME end'["server"][c] \in Errors PROVE c \notin conns'["server"]
  <2>1. EndMoves("server", c)
    BY <1>1 DEF EndsMove
  <2>2. c \in conns'["server"] => c \in conns["server"]
    BY <1>1, <1>2 DEF EndsMove
  <2> QED
    BY <1>1, <1>2, <2>1, <2>2 DEF EndMaps, EndMoves
<1>3. due'[c] <= Posted("server", c)'
  <2>1. DueMoves(c) /\ due[c] <= Posted("server", c)
    BY DEF DataMove, EndMaps
  <2>2. due[c] \in Nat /\ due'[c] \in Nat
    BY DEF TypeOK
  <2>3. Posted("server", c) \in Int
    <3>1. wrote["server"][c] \in Nat
      BY <1>1 DEF TypeOK
    <3> QED
      BY <3>1 DEF Posted
  <2>4. Posted("server", c)' \in Int
    <3>1. wrote'["server"][c] \in Nat
      BY <1>1 DEF TypeOK
    <3> QED
      BY <3>1 DEF Posted
  <2> DEFINE p == Posted("server", c)
             n == Posted("server", c)'
  <2> HIDE DEF p, n
  <2>5. (due'[c] = due[c] /\ n >= p) \/ due'[c] = n
    BY <2>1 DEF DueMoves, p, n
  <2>6. p \in Int /\ n \in Int /\ due[c] <= p
    BY <2>1, <2>3, <2>4 DEF p, n
  <2>7. due'[c] <= n
    BY <2>2, <2>5, <2>6
  <2> QED
    BY <2>7 DEF n
<1> QED
  BY <1>2, <1>3 DEF WritesMove

\* The counts of a side after a step are numbers too.
LEMMA CountsTypedNext ==
  ASSUME TypeOK', NEW y \in Sides, NEW c \in Conns
  PROVE  Len(got'[y][c]) \in Nat /\ Received(y, c)' \in Nat
<1>1. got'[y][c] \in Seq(Nat) /\ buf'[y][c] \in Seq(Nat)
  BY DEF TypeOK
<1> DEFINE g == Len(got'[y][c])
           b == Len(buf'[y][c])
<1>2. g \in Nat /\ b \in Nat
  BY <1>1
<1>3. Received(y, c)' = g + b
  BY DEF Received
<1> HIDE DEF g, b
<1>4. g + b \in Nat
  BY <1>2
<1>5. Received(y, c)' \in Nat
  BY <1>3, <1>4
<1> QED
  BY <1>2, <1>5 DEF g

\* Who closes an end keeps what he relies on.
LEMMA ClosingKept ==
  ASSUME TypeOK, TypeOK', ConnLife, Closings, EndsMove, WritesMove, ClosersMove, ClosesMove,
         DataMove
  PROVE  Closings'
<1> SUFFICES ASSUME NEW y \in Sides, NEW c \in Conns PROVE ClosingAt(y, c)'
  BY DEF Closings
<1>1. CloserMoves(y, c) /\ ClosingAt(y, c) /\ Peer(y) \in Sides /\ "open" \notin Errors
  BY PeerIsOther DEF ClosersMove, Closings, Errors
<1>2. CASE ClosingAt(y, c)'
  BY <1>2
<1>3. CASE /\ closing'[y][c] = closing[y][c] /\ closer'[y][c] = closer[y][c]
           /\ reason'[y][c] = reason[y][c]
           /\ closer[y][c] = "pipe" => pipe'[c] = pipe[c]
  <2>1. CloserAt(y, c)'
    <3>1. CloserAt(y, c)
      BY <1>1 DEF ClosingAt
    <3>2. closer[y][c] \in Loops => serving'[via'[c]][y] = "on"
      BY <3>1 DEF ClosesMove, CloserAt
    <3> QED
      BY <1>3, <3>1, <3>2 DEF CloserAt
  <2>2. ReadyAt(y, c)'
    <3> SUFFICES ASSUME y = "client", closing[y][c] = "tell", reason[y][c] = "eof",
                        ~Shut(Peer(y), c)'
                 PROVE  end'[y][c] \in Errors /\ ~pending'[y][c]
      BY <1>3 DEF ReadyAt
    <3>1. ~Shut(Peer(y), c)
      BY <1>1, ShutStays
    <3>2. end[y][c] \in Errors /\ ~pending[y][c]
      BY <1>1, <3>1 DEF ClosingAt, ReadyAt
    <3> QED
      BY <1>1, <3>2, ClosedStays DEF WritesMove
  <2>3. TellingAt(y, c)'
    <3> SUFFICES ASSUME closer[y][c] = "peer", reason[y][c] = "eof", end'[y][c] = "open"
                 PROVE  Final(Peer(y), c)' /\ Owed(Peer(y), c)' <= Received(y, c)'
      BY <1>3 DEF TellingAt
    <3>1. closing[y][c] # "none"
      BY <1>1 DEF ClosingAt, CloserAt
    <3>2. end[y][c] # "none"
      BY <3>1 DEF ConnLife, MapLife
    <3>3. end[y][c] = "open"
      BY <1>1, <3>2 DEF EndsMove, EndMoves
    <3>4. Final(Peer(y), c) /\ Owed(Peer(y), c) <= Received(y, c)
      BY <1>1, <3>3 DEF ClosingAt, TellingAt
    <3>5. Final(Peer(y), c)' /\ Owed(Peer(y), c)' = Owed(Peer(y), c)
      BY <1>1, <3>4, FinalStays
    <3>6. Received(y, c)' >= Received(y, c)
      BY <1>1 DEF DataMove, DataMoves
    <3>7. Received(y, c) \in Nat /\ Received(y, c)' \in Nat /\ Owed(Peer(y), c) \in Int
      <4>1. wrote[Peer(y)][c] \in Nat /\ due[c] \in Nat
        BY <1>1 DEF TypeOK
      <4> QED
        BY <4>1, CountsTyped, CountsTypedNext DEF Owed
    <3> DEFINE r == Received(y, c)
               t == Received(y, c)'
               w == Owed(Peer(y), c)
    <3>8. w <= r /\ t >= r /\ w \in Int /\ r \in Nat /\ t \in Nat
      BY <3>4, <3>6, <3>7
    <3> HIDE DEF r, t, w
    <3>9. w <= t
      BY <3>8
    <3> QED
      BY <3>5, <3>9 DEF t, w
  <2> QED
    BY <2>1, <2>2, <2>3 DEF ClosingAt
<1> QED
  BY <1>1, <1>2, <1>3 DEF CloserMoves

\* A session that has closed leaves no end open that nobody closes.
LEMMA ClosedKept ==
  ASSUME TypeOK, ClosedSessionClosesConns, EndsMove, ClosersMove, ClosesMove
  PROVE  ClosedSessionClosesConns'
<1> SUFFICES ASSUME NEW s \in Sessions, NEW x \in Sides, NEW c \in Conns,
                    serving'[s][x] = "closed", via'[c] = s, end'[x][c] = "open"
             PROVE  x = "server" /\ (c \in late' \/ closer'[x][c] = "caller")
  BY DEF ClosedSessionClosesConns
<1>1. via[c] = s /\ late \subseteq late' /\ "open" \notin Errors
  BY DEF ClosesMove, Errors
<1>2. EndMoves(x, c) /\ CloserMoves(x, c)
  BY DEF EndsMove, ClosersMove
<1>3. CASE end[x][c] = "none"
  BY <1>1, <1>2, <1>3 DEF EndMoves
<1>4. CASE end[x][c] = "open"
  <2>1. CASE serving[s][x] = "closed"
    <3>1. x = "server" /\ (c \in late \/ closer[x][c] = "caller")
      BY <1>1, <1>4, <2>1 DEF ClosedSessionClosesConns
    <3>2. closer[x][c] = "caller" => closer'[x][c] = "caller"
      BY <1>1, <1>2 DEF CloserMoves
    <3> QED
      BY <1>1, <3>1, <3>2
  <2>2. CASE serving[s][x] # "closed"
    BY <2>2 DEF ClosesMove
  <2> QED
    BY <2>1, <2>2
<1> QED
  BY <1>1, <1>2, <1>3, <1>4 DEF EndMoves

\* What is covered before an io.EOF under way stays so.
LEMMA SentKept ==
  ASSUME TypeOK, TypeOK', NoGap, EofSent, Closings, EndsMove, ClosersMove, DataMove, QueuesMove,
         \A r \in Sessions : r # NoSession
  PROVE  EofSent'
<1> SUFFICES ASSUME NEW s \in Sessions, NEW x \in Sides, NEW c \in Conns,
                    NEW i \in 1..Len(net'[s][x]), IsEof(net'[s][x][i], c)
             PROVE  /\ Shut(Peer(x), c)'
                    /\ ~Shut(x, c)' =>
                         /\ Final(Peer(x), c)'
                         /\ Covered(net'[s][x], i, c, Received(x, c)', Owed(Peer(x), c)')
  BY DEF EofSent, EofAt
<1> DEFINE q == net[s][x]
           p == net'[s][x]
           y == Peer(x)
           r == Received(x, c)
           t == Received(x, c)'
           w == Owed(y, c)
           v == Owed(y, c)'
<1>1. /\ q \in Seq(Messages) /\ p \in Seq(Messages) /\ y \in Sides
      /\ r \in Nat /\ t \in Nat /\ w \in Int /\ v \in Int
  <2>1. y \in Sides /\ q \in Seq(Messages) /\ p \in Seq(Messages)
    BY PeerIsOther DEF TypeOK
  <2>2. r \in Nat /\ t \in Nat
    <3>1. r \in Nat
      BY CountsTyped
    <3> QED
      BY <3>1, CountsTypedNext
  <2>3. w \in Int /\ v \in Int
    <3>1. wrote[y][c] \in Nat /\ wrote'[y][c] \in Nat /\ due[c] \in Nat /\ due'[c] \in Nat
      BY <2>1 DEF TypeOK
    <3> QED
      BY <3>1 DEF Owed
  <2> QED
    BY <2>1, <2>2, <2>3
<1>2. /\ Shut(y, c) => Shut(y, c)'
      /\ Final(y, c) => Final(y, c)' /\ v = w
      /\ ~Shut(x, c)' => ~Shut(x, c) /\ r <= t
  <2>1. Shut(y, c) => Shut(y, c)'
    BY <1>1, ShutStays
  <2>2. Final(y, c) => Final(y, c)' /\ v = w
    BY <1>1, FinalStays
  <2>3. ~Shut(x, c)' => ~Shut(x, c)
    BY ShutStays
  <2>4. ~Shut(x, c)' => t >= r
    BY DEF DataMove, DataMoves, Shut
  <2>5. t >= r => r <= t
    <3> HIDE DEF r, t
    <3> QED
      BY <1>1
  <2> QED
    BY <2>1, <2>2, <2>3, <2>4, <2>5
<1>3. \A j \in 1..Len(q) : IsEof(q[j], c) =>
        /\ Shut(y, c)
        /\ ~Shut(x, c) => Final(y, c) /\ Covered(q, j, c, r, w)
  BY DEF EofSent, EofAt
<1>4. QueueMoves(s, x, c) /\ i \in 1..Len(p) /\ IsEof(p[i], c)
  BY DEF QueuesMove
<1> DEFINE A == Shut(y, c)
           B == Shut(y, c)'
           F == Final(y, c)
           G == Final(y, c)'
           U == Shut(x, c)
           V == Shut(x, c)'
<1> SUFFICES B /\ (~V => G /\ Covered(p, i, c, t, v))
  OBVIOUS
<1>5. CASE p = q
  <2> HIDE DEF q, p, y, r, t, w, v, A, B, F, G, U, V
  <2>1. A => B
    BY <1>2 DEF A, B
  <2>2. F => G /\ v = w
    BY <1>2 DEF F, G
  <2>3. ~V => ~U /\ r <= t
    BY <1>2 DEF U, V
  <2>4. A /\ (~U => F /\ Covered(q, i, c, r, w))
    BY <1>3, <1>4, <1>5 DEF A, U, F
  <2> QED
    BY <1>1, <1>5, <2>1, <2>2, <2>3, <2>4, CoveredLess
<1>6. CASE p = <<>>
  BY <1>4, <1>6
<1>7. CASE /\ q # <<>> /\ p = Tail(q)
           /\ IsData(Head(q), c) => V \/ Head(q).chunk <= t
  <2> HIDE DEF q, p, y, r, t, w, v, A, B, F, G, U, V
  <2>1. /\ i \in 1..Len(Tail(q)) /\ i + 1 \in 1..Len(q) /\ q[i + 1] = p[i]
    BY <1>1, <1>4, <1>7, QueueTail
  <2>2. A /\ (~U => F /\ Covered(q, i + 1, c, r, w))
    BY <1>3, <1>4, <2>1 DEF A, U, F
  <2>3. (A => B) /\ (F => G /\ v = w) /\ (~V => ~U /\ r <= t)
    BY <1>2 DEF A, B, F, G, U, V
  <2> QED
    BY <1>1, <1>7, <2>1, <2>2, <2>3, CoveredTail
<1>8. ASSUME NEW m \in Messages, p = Append(q, m),
             IsEof(m, c) => EofMoves(s, x, c)
      PROVE  B /\ (~V => G /\ Covered(p, i, c, t, v))
  <2>1. Len(q) \in Nat /\ i \in 1..(Len(q) + 1) /\ p[Len(q) + 1] = m
        /\ \A j \in 1..Len(q) : p[j] = q[j]
    <3> HIDE DEF q, p
    <3> QED
      BY <1>1, <1>4, <1>8, QueueAppend
  <2>2. CASE i \in 1..Len(q)
    <3>1. IsEof(q[i], c)
      BY <1>4, <2>1, <2>2
    <3>2. A /\ (~U => F /\ Covered(q, i, c, r, w))
      BY <1>3, <2>2, <3>1
    <3> HIDE DEF q, p, y, r, t, w, v, A, B, F, G, U, V
    <3>3. (A => B) /\ (F => G /\ v = w) /\ (~V => ~U /\ r <= t)
      BY <1>2 DEF A, B, F, G, U, V
    <3> QED
      BY <1>1, <1>8, <2>1, <3>2, <3>3, CoveredAppend, CoveredLess
  <2>3. CASE i = Len(q) + 1
    <3>1. IsEof(m, c)
      BY <1>4, <2>1, <2>3
    <3>2. EofMoves(s, x, c)
      BY <1>8, <3>1
    <3>3. ASSUME ~V PROVE G /\ Covered(p, i, c, t, v)
      <4>1. G /\ via[c] = s /\ via[c] # NoSession /\ link[s] = "up" /\ v <= Posted(y, c)
        BY <3>2, <3>3 DEF EofMoves
      <4>2. ~Shut(x, c) /\ r <= t
        BY <1>2, <3>3
      <4>3. Run(q, c, r, Posted(y, c))
        BY <4>1, <4>2 DEF NoGap, GapAt
      <4>4. Posted(y, c) \in Int
        BY CountsTyped
      <4> HIDE DEF q, p, y, r, t, w, v, A, B, F, G, U, V
      <4>5. Covered(q, Len(q) + 1, c, r, v)
        BY <1>1, <4>1, <4>3, <4>4, RunCovers
      <4>6. Covered(p, i, c, r, v)
        BY <1>1, <1>8, <2>1, <2>3, <4>5, CoveredAppend
      <4> QED
        BY <1>1, <4>1, <4>2, <4>6, CoveredLess
    <3> QED
      BY <3>2, <3>3 DEF EofMoves
  <2> QED
    BY <2>1, <2>2, <2>3
<1> HIDE DEF r, t, w, v
<1> QED
  BY <1>4, <1>5, <1>6, <1>7, <1>8 DEF QueueMoves, t

\* The errors under way stay in the websocket of their connection.
LEMMA ErrorsKept ==
  ASSUME TypeOK, TypeOK', ErrorsOwn, ClosesMove, QueuesMove,
         \A s \in Sessions : s # NoSession
  PROVE  ErrorsOwn'
<1> SUFFICES ASSUME NEW s \in Sessions, NEW x \in Sides, NEW i \in 1..Len(net'[s][x]),
                    net'[s][x][i].type = "error"
             PROVE  via'[net'[s][x][i].conn] = s
  BY DEF ErrorsOwn
<1> DEFINE q == net[s][x]
           p == net'[s][x]
           c == p[i].conn
<1>1. q \in Seq(Messages) /\ p \in Seq(Messages)
  BY DEF TypeOK
<1>2. \A j \in 1..Len(q) : q[j].type = "error" => via[q[j].conn] = s
  BY DEF ErrorsOwn
<1> SUFFICES via'[c] = s
  OBVIOUS
<1>3. i \in 1..Len(p) /\ p[i].type = "error"
  OBVIOUS
<1> HIDE DEF q, p
<1>4. c \in Conns
  <2>1. p[i] \in Messages
    BY <1>1, <1>3
  <2> QED
    BY <2>1, MessageTypes
<1>5. via[c] = s => via'[c] = s
  BY <1>4 DEF ClosesMove
<1>6. PICK d \in Conns : d = c
  BY <1>4
<1>12. QueueMoves(s, x, d)
  BY DEF QueuesMove
<1>7. CASE p = q
  BY <1>2, <1>3, <1>5, <1>7
<1>8. CASE p = <<>>
  BY <1>3, <1>8
<1>9. CASE q # <<>> /\ p = Tail(q)
  <2>1. i + 1 \in 1..Len(q) /\ q[i + 1] = p[i]
    BY <1>1, <1>3, <1>9, QueueTail
  <2> QED
    BY <1>2, <1>3, <1>5, <2>1
<1>10. ASSUME NEW m \in Messages, p = Append(q, m),
              m.type = "error" /\ m.conn = c => via[c] = s
       PROVE  via[c] = s
  <2>1. Len(q) \in Nat /\ i \in 1..(Len(q) + 1) /\ p[Len(q) + 1] = m
        /\ \A j \in 1..Len(q) : p[j] = q[j]
    BY <1>1, <1>3, <1>10, QueueAppend
  <2>2. CASE i \in 1..Len(q)
    BY <1>2, <1>3, <2>1, <2>2
  <2>3. CASE i = Len(q) + 1
    BY <1>3, <1>10, <2>1, <2>3
  <2> QED
    BY <2>1, <2>2, <2>3
<1>11. \/ p = q \/ p = <<>>
       \/ q # <<>> /\ p = Tail(q)
       \/ \E m \in Messages : p = Append(q, m) /\ (m.type = "error" /\ m.conn = c => via[c] = s)
  BY <1>6, <1>12 DEF QueueMoves, p, q
<1> QED
  BY <1>5, <1>7, <1>8, <1>9, <1>10, <1>11

\* What the ends have been told stays true, whatever closes or arrives.
LEMMA ToldKept ==
  ASSUME TypeOK, TypeOK', Closings, EofTold, SeenIsEnd, EndsMove, ClosersMove, DataMove,
         ToldMoves
  PROVE  EofTold' /\ SeenIsEnd'
<1>1. SeenIsEnd'
  <2> SUFFICES ASSUME NEW x \in Sides, NEW c \in Conns, seen'[x][c] # "none"
               PROVE  end'[x][c] = seen'[x][c]
    BY DEF SeenIsEnd
  <2>1. DataMoves(x, c)
    BY DEF DataMove
  <2>2. seen[x][c] \in {"none"} \cup Errors
    BY DEF TypeOK
  <2>3. end[x][c] = seen'[x][c] /\ end[x][c] \in Errors
    BY <2>1, <2>2 DEF DataMoves, SeenIsEnd
  <2> QED
    BY <2>3, ClosedStays
<1>2. EofTold'
  <2> SUFFICES ASSUME NEW x \in Sides, NEW c \in Conns PROVE ToldAt(x, c)'
    BY DEF EofTold
  <2> DEFINE y == Peer(x)
             r == Received(x, c)
             t == Received(x, c)'
             w == Owed(y, c)
             v == Owed(y, c)'
             g == Len(got[x][c])
             h == Len(got'[x][c])
             F == Final(y, c)
             G == Final(y, c)'
  <2>1. /\ y \in Sides /\ r \in Nat /\ t \in Nat /\ w \in Int /\ v \in Int
        /\ g \in Nat /\ h \in Nat
    <3>1. y \in Sides
      BY PeerIsOther
    <3>2. r \in Nat /\ g \in Nat
      BY CountsTyped
    <3>3. h \in Nat /\ t \in Nat
      BY CountsTypedNext
    <3>4. wrote[y][c] \in Nat /\ wrote'[y][c] \in Nat /\ due[c] \in Nat /\ due'[c] \in Nat
      BY <3>1 DEF TypeOK
    <3>5. w \in Int /\ v \in Int
      BY <3>4 DEF Owed
    <3> QED
      BY <3>1, <3>2, <3>3, <3>5
  <2>2. DataMoves(x, c) /\ DataMoves(y, c)
    BY <2>1 DEF DataMove
  <2>3. F => G /\ v = w
    BY <2>1, FinalStays
  <2>4. end[x][c] \in Errors => end'[x][c] = end[x][c]
    BY ClosedStays
  <2>5. /\ t >= r \/ (x = "client" /\ up'[c] = "done")
        /\ h >= g /\ (up[c] = "done" => up'[c] = "done")
        /\ \/ seen'[x][c] = seen[x][c]
           \/ buf[x][c] = <<>> /\ (x = "server" \/ up[c] = "on")
    BY <2>2 DEF DataMoves
  <2>6. up[c] \in {"on", "done"} /\ up'[c] \in {"on", "done"}
    BY DEF TypeOK
  <2>7. buf[x][c] = <<>> => g = r
    <3> SUFFICES ASSUME buf[x][c] = <<>> PROVE g = r
      OBVIOUS
    <3>1. Len(buf[x][c]) = 0
      OBVIOUS
    <3> HIDE DEF g
    <3> QED
      BY <2>1, <3>1 DEF g, Received
  <2>8. CASE <<x, c>> \in byPeer
    <3>1. /\ end[x][c] \in Errors
          /\ end[x][c] = "eof" =>
               /\ F
               /\ x = "server" \/ up[c] = "on" => w <= r
               /\ seen[x][c] = "eof" => w <= g
      BY <2>8 DEF EofTold, ToldAt
    <3>2. /\ end'[x][c] \in Errors
          /\ end'[x][c] = "eof" =>
               /\ G
               /\ x = "server" \/ up'[c] = "on" => v <= t
               /\ seen'[x][c] = "eof" => v <= h
      <4> HIDE DEF y, r, t, w, v, g, h, F, G
      <4>1. SUFFICES ASSUME end'[x][c] = "eof"
                     PROVE  /\ G
                            /\ x = "server" \/ up'[c] = "on" => v <= t
                            /\ seen'[x][c] = "eof" => v <= h
        BY <2>4, <3>1
      <4>2. /\ G /\ v = w
            /\ x = "server" \/ up[c] = "on" => w <= r
            /\ seen[x][c] = "eof" => w <= g
        BY <2>3, <2>4, <3>1, <4>1
      <4>3. ASSUME x = "server" \/ up'[c] = "on" PROVE v <= t
        <5>1. (x = "server" \/ up[c] = "on") /\ t >= r
          BY <2>5, <2>6, <4>3
        <5> QED
          BY <2>1, <4>2, <5>1
      <4>4. ASSUME seen'[x][c] = "eof" PROVE v <= h
        <5>1. w <= g
          BY <2>5, <2>7, <4>2, <4>4
        <5> QED
          BY <2>1, <2>5, <4>2, <5>1
      <4> QED
        BY <4>2, <4>3, <4>4
    <3> QED
      BY <3>2 DEF ToldAt
  <2>9. ASSUME <<x, c>> \notin byPeer, <<x, c>> \in byPeer'
        PROVE  /\ end'[x][c] \in Errors
               /\ end'[x][c] = "eof" =>
                    /\ G
                    /\ x = "server" \/ up'[c] = "on" => v <= t
                    /\ seen'[x][c] = "eof" => v <= h
    <3>1. /\ closer[x][c] = "peer" /\ end[x][c] = "open" /\ end'[x][c] = reason[x][c]
          /\ DataStill
      <4> HIDE DEF y, r, t, w, v, g, h, F, G
      <4>1. PICK z \in Sides, d \in Conns :
              /\ closer[z][d] = "peer" /\ end[z][d] = "open" /\ end'[z][d] = reason[z][d]
              /\ byPeer' = byPeer \cup {<<z, d>>}
              /\ DataStill
        BY <2>9 DEF ToldMoves
      <4>2. <<x, c>> = <<z, d>>
        BY <2>9, <4>1
      <4> QED
        BY <4>1, <4>2
    <3>2. end'[x][c] \in Errors
      BY <3>1 DEF TypeOK
    <3>3. ASSUME end'[x][c] = "eof"
          PROVE  G /\ v <= t /\ seen'[x][c] # "eof"
      <4>1. F /\ w <= r
        BY <3>1, <3>3 DEF Closings, ClosingAt, TellingAt
      <4>2. G /\ v = w
        BY <2>3, <4>1
      <4>3. t = r
        BY <3>1 DEF DataStill, Received
      <4>4. seen'[x][c] = "none"
        <5>1. seen'[x][c] = seen[x][c]
          BY <3>1 DEF DataStill
        <5>2. seen[x][c] \in {"none"} \cup Errors /\ "open" \notin Errors
          BY DEF TypeOK, Errors
        <5> QED
          BY <3>1, <5>1, <5>2 DEF SeenIsEnd
      <4> HIDE DEF r, t, w, v, F, G
      <4> QED
        BY <4>1, <4>2, <4>3, <4>4
    <3> HIDE DEF y, r, t, w, v, g, h, F, G
    <3> QED
      BY <3>2, <3>3
  <2>10. CASE <<x, c>> \notin byPeer'
    BY <2>10 DEF ToldAt
  <2> QED
    BY <2>8, <2>9, <2>10 DEF ToldAt
<1> QED
  BY <1>1, <1>2

\* Together.
LEMMA MovesKeep ==
  ASSUME TunnelInv, HonestInv, TunnelInv', EndsMove, WritesMove, ClosersMove, ClosesMove,
         DataMove, ToldMoves, QueuesMove
  PROVE  HonestInv'
<1>1. TypeOK /\ TypeOK' /\ NoGap /\ ConnLife
  BY DEF TunnelInv
<1>2. \A s \in Sessions : s # NoSession
  BY TunnelBounds DEF NoSession
<1>3. EndMaps' /\ ClosedSessionClosesConns' /\ EofSent' /\ Closings'
  <2> HIDE DEF ClosedSessionClosesConns
  <2>1. EndMaps /\ ClosedSessionClosesConns /\ EofSent /\ Closings
    BY DEF HonestInv
  <2>2. EndMaps'
    BY <1>1, <2>1, MapsKept
  <2>3. ClosedSessionClosesConns'
    BY <1>1, <2>1, ClosedKept
  <2>4. EofSent'
    BY <1>1, <1>2, <2>1, SentKept
  <2>5. Closings'
    BY <1>1, <2>1, ClosingKept
  <2> QED
    BY <2>2, <2>3, <2>4, <2>5
<1>5. ErrorsOwn'
  BY <1>1, <1>2, ErrorsKept DEF HonestInv
<1>4. EofTold' /\ SeenIsEnd'
  BY <1>1, ToldKept DEF HonestInv
<1> QED
  BY <1>3, <1>4, <1>5 DEF HonestInv

\* Parts of a step that leave variables alone.
LEMMA StillMoves ==
  ASSUME TypeOK
  PROVE  /\ DataStill => DataMove
         /\ UNCHANGED net => QueuesMove
         /\ UNCHANGED byPeer => ToldMoves
<1>1. ASSUME DataStill, NEW y \in Sides, NEW c \in Conns PROVE DataMoves(y, c)
  <2>1. Received(y, c) \in Nat /\ Len(got[y][c]) \in Nat
    BY CountsTyped
  <2>2. Received(y, c)' = Received(y, c)
    BY <1>1 DEF DataStill, Received
  <2> QED
    BY <1>1, <2>1, <2>2 DEF DataMoves, DataStill
<1>2. ASSUME DataStill, NEW c \in Conns PROVE DueMoves(c)
  <2>1. Posted("server", c)' = Posted("server", c) /\ due'[c] = due[c]
    BY <1>2 DEF DataStill, Posted
  <2>2. Posted("server", c) \in Int
    <3>1. Peer("client") = "server" /\ "client" \in Sides
      BY DEF Peer, Sides
    <3> QED
      BY <3>1, CountsTyped
  <2> QED
    BY <2>1, <2>2 DEF DueMoves
<1> QED
  BY <1>1, <1>2 DEF DataMove, QueuesMove, QueueMoves, ToldMoves

\* Without a change of ends, maps, Writes and closers.
LEMMA EndsStill ==
  ASSUME TypeOK, EndMaps, UNCHANGED <<conns, end>>
  PROVE  /\ EndsMove
         /\ UNCHANGED <<pending, pipe, down>> => WritesMove
         /\ UNCHANGED <<serving, via, late>> => ClosesMove
<1>1. EndsMove
  BY DEF EndsMove, EndMoves
<1>2. UNCHANGED <<pending, pipe, down>> => WritesMove
  BY DEF EndMaps, WritesMove
<1>3. UNCHANGED <<serving, via, late>> => ClosesMove
  BY DEF ClosesMove
<1> QED
  BY <1>1, <1>2, <1>3

LEMMA ClosersStill ==
  ASSUME UNCHANGED <<closing, closer, reason>>,
         \A c \in Conns : closer["client"][c] = "pipe" => pipe'[c] = pipe[c],
         Closings
  PROVE  ClosersMove
<1> SUFFICES ASSUME NEW y \in Sides, NEW c \in Conns PROVE CloserMoves(y, c)
  BY DEF ClosersMove
<1>1. closer[y][c] = "pipe" => y = "client"
  BY DEF Closings, ClosingAt, CloserAt
<1> QED
  BY <1>1 DEF CloserMoves

-----------------------------------------------------------------------------
(* The steps *)

\* A step that takes a message at most, and sends one at most.
LEMMA QueuesMoved ==
  ASSUME TypeOK, NEW s \in Sessions, NEW x \in Sides, NEW m \in Messages, NEW n \in NetType,
         \/ n = net
         \/ /\ net[s][x] # <<>> /\ n = Taken(s, x)
            /\ \A d \in Conns : IsData(Head(net[s][x]), d) =>
                 Shut(x, d)' \/ Head(net[s][x]).chunk <= Received(x, d)',
         \/ net' = n
         \/ /\ WriteMessage(s, x, n, m)
            /\ m.type = "error" => via[m.conn] = s
            /\ \A d \in Conns : IsEof(m, d) /\ link[s] = "up" => EofMoves(s, Peer(x), d)
  PROVE  QueuesMove
<1> SUFFICES ASSUME NEW r \in Sessions, NEW y \in Sides, NEW d \in Conns
             PROVE  QueueMoves(r, y, d)
  BY DEF QueuesMove
<1>1. net \in NetType /\ Peer(x) \in Sides /\ Peer(x) # x /\ Peer(Peer(x)) = x
  BY TypesSplit, PeerIsOther
<1>2. n[r][y] = net[r][y] \/ (/\ r = s /\ y = x /\ n = Taken(s, x) /\ net[s][x] # <<>>
                              /\ n[r][y] = Tail(net[r][y]))
  <2>1. CASE n = net
    BY <2>1
  <2>2. CASE net[s][x] # <<>> /\ n = Taken(s, x)
    BY <1>1, <2>2, TakenTyped
  <2> QED
    BY <2>1, <2>2
<1>3. CASE net'[r][y] = n[r][y]
  <2>1. CASE n[r][y] = net[r][y]
    BY <1>3, <2>1 DEF QueueMoves
  <2>2. CASE /\ r = s /\ y = x /\ n = Taken(s, x) /\ net[s][x] # <<>>
             /\ n[r][y] = Tail(net[r][y]) /\ n # net
    BY <1>3, <2>2 DEF QueueMoves
  <2> QED
    BY <1>2, <2>1, <2>2
<1>4. CASE net'[r][y] # n[r][y]
  <2>1. WriteMessage(s, x, n, m)
    BY <1>4
  <2>2. net'[r][y] = IF r = s /\ y = Peer(x) /\ link[s] = "up"
                     THEN Append(n[r][y], m) ELSE n[r][y]
    BY <2>1, MessageWritten
  <2>3. /\ r = s /\ y = Peer(x) /\ link[s] = "up"
        /\ net'[r][y] = Append(net[r][y], m)
    BY <1>1, <1>2, <1>4, <2>2
  <2>4. /\ IsEof(m, d) => EofMoves(r, y, d)
        /\ m.type = "error" /\ m.conn = d => via[d] = r
    <3>1. /\ \A b \in Conns : IsEof(m, b) /\ link[s] = "up" => EofMoves(s, Peer(x), b)
          /\ m.type = "error" => via[m.conn] = s
      BY <1>4
    <3> QED
      BY <2>3, <3>1
  <2> QED
    BY <2>3, <2>4 DEF QueueMoves
<1> QED
  BY <1>3, <1>4

\* closeConnection: the connection leaves the map, and its closer knows why.
LEMMA TakeOutHonest ==
  ASSUME TunnelInv, HonestInv, TunnelInv', NEW s \in Sessions, NEW x \in Sides, NEW c \in Conns,
         NEW by \in Loops \cup {"caller", "pipe"}, NEW e \in Errors,
         CloseConnection(s, x, c, by, e),
         UNCHANGED <<serving, via, late, end, pending, down>>,
         DataMove, DataStill \/ by # "peer", QueuesMove, ToldMoves,
         \A d \in Conns :
           \/ pipe'[d] = pipe[d]
           \/ pipe[d] = "closing" /\ pipe'[d] = "done" /\ closer["client"][d] # "pipe",
         c \in conns[x] =>
           /\ by \in Loops => serving[via[c]][x] = "on"
           /\ by = "pipe" => x = "client" /\ pipe'[c] = "closing"
           /\ by = "caller" => x = "server"
           /\ x = "client" /\ e = "eof" /\ ~Shut(Peer(x), c) =>
                end[x][c] \in Errors /\ ~pending[x][c]
           /\ by = "peer" /\ e = "eof" /\ end[x][c] = "open" =>
                Final(Peer(x), c) /\ Owed(Peer(x), c) <= Received(x, c)
  PROVE  HonestInv'
<1>1. /\ TypeOK /\ EndTypes /\ CloseTypes /\ EndMaps /\ Closings /\ "client" \in Sides
      /\ by \in Closers /\ by # "none" /\ by # "session"
      /\ Peer(x) \in Sides /\ Peer(x) # x
  BY TypesSplit, PeerIsOther DEF TunnelInv, HonestInv, Sides, Closers, Loops
<1>2. /\ \A y \in Sides : conns'[y] \subseteq conns[y]
      /\ \A y \in Sides, d \in Conns :
           \/ /\ closing'[y][d] = closing[y][d] /\ closer'[y][d] = closer[y][d]
              /\ reason'[y][d] = reason[y][d]
           \/ /\ y = x /\ d = c /\ c \in conns[x]
              /\ closing'[y][d] = "tell" /\ closer'[y][d] = by /\ reason'[y][d] = e
  <2>1. CASE c \notin conns[x]
    BY <2>1 DEF CloseConnection, closeVars
  <2>2. CASE c \in conns[x]
    <3>1. TakeOut(x, c, by, e)
      BY <2>2 DEF CloseConnection
    <3>2. /\ \A y \in Sides : conns'[y] = IF y = x THEN conns[y] \ {c} ELSE conns[y]
          /\ \A y \in Sides, d \in Conns :
               /\ closing'[y][d] = IF y = x /\ d = c THEN "tell" ELSE closing[y][d]
               /\ closer'[y][d] = IF y = x /\ d = c THEN by ELSE closer[y][d]
               /\ reason'[y][d] = IF y = x /\ d = c THEN e ELSE reason[y][d]
      <4>1. UNCHANGED end
        OBVIOUS
      <4>2. EndTypes /\ CloseTypes
        BY <1>1
      <4>3. by \in Closers
        BY <1>1
      <4> QED
        BY ONLY <3>1, <4>1, <4>2, <4>3, TakeOutTyped, x \in Sides, c \in Conns, e \in Errors
    <3> QED
      BY <2>2, <3>2
  <2> QED
    BY <2>1, <2>2
<1>3. EndsMove
  BY <1>2 DEF EndsMove, EndMoves
<1>4. WritesMove
  <2> SUFFICES ASSUME NEW d \in Conns
               PROVE  /\ pending["client"][d] =>
                           /\ pipe'[d] = "copying" /\ down[d] = "on"
                           /\ end["client"][d] = "eof" => d \notin conns'["client"]
                      /\ pipe'[d] = "closing" => end["client"][d] \in Errors
    BY DEF WritesMove
  <2>1. /\ pending["client"][d] =>
             /\ pipe[d] = "copying" /\ down[d] = "on"
             /\ end["client"][d] = "eof" => d \notin conns["client"]
        /\ pipe[d] = "closing" => end["client"][d] \in Errors
    BY <1>1 DEF EndMaps
  <2>2. d \notin conns["client"] => d \notin conns'["client"]
    BY <1>1, <1>2
  <2> QED
    BY <2>1, <2>2
<1>5. ClosesMove
  BY DEF ClosesMove
<1>6. ClosersMove
  <2> SUFFICES ASSUME NEW y \in Sides, NEW d \in Conns PROVE CloserMoves(y, d)
    BY DEF ClosersMove
  <2>1. CloserAt(y, d)
    BY <1>1 DEF Closings, ClosingAt
  <2>2. CASE /\ closing'[y][d] = closing[y][d] /\ closer'[y][d] = closer[y][d]
             /\ reason'[y][d] = reason[y][d]
    <3>1. closer[y][d] = "pipe" => pipe'[d] = pipe[d]
      BY <2>1 DEF CloserAt
    <3> QED
      BY <2>2, <3>1 DEF CloserMoves
  <2>3. CASE /\ y = x /\ d = c /\ c \in conns[x]
             /\ closing'[y][d] = "tell" /\ closer'[y][d] = by /\ reason'[y][d] = e
    <3>1. closer[y][d] = "none"
      <4>1. MapLife(x, c)
        BY DEF TunnelInv, ConnLife
      <4> QED
        BY <2>1, <2>3, <4>1 DEF CloserAt, MapLife
    <3>2. Shut(Peer(x), c)' <=> Shut(Peer(x), c)
      BY <1>1, <1>2 DEF Shut
    <3>3. CloserAt(x, c)'
      BY <1>1, <2>3 DEF CloserAt
    <3>4. ReadyAt(x, c)'
      BY <2>3, <3>2 DEF ReadyAt
    <3>5. TellingAt(x, c)'
      <4> SUFFICES ASSUME by = "peer", e = "eof", end[x][c] = "open"
                   PROVE  Final(Peer(x), c)' /\ Owed(Peer(x), c)' <= Received(x, c)'
        BY <2>3 DEF TellingAt
      <4>1. Final(Peer(x), c) /\ Owed(Peer(x), c) <= Received(x, c)
        BY <2>3
      <4>2. Owed(Peer(x), c)' = Owed(Peer(x), c) /\ Received(x, c)' = Received(x, c)
        BY DEF DataStill, Owed, Received
      <4>3. Final(Peer(x), c)'
        BY <3>2, <4>1 DEF Final
      <4> QED
        BY <4>1, <4>2, <4>3
    <3> QED
      BY <2>3, <3>1, <3>3, <3>4, <3>5 DEF CloserMoves, ClosingAt
  <2> QED
    BY <1>2, <2>2, <2>3
<1> QED
  BY <1>3, <1>4, <1>5, <1>6, MovesKeep

\* connection.tunnelClose tells the peer, then shuts the end.
LEMMA CloseStepHonest ==
  ASSUME TunnelInv, HonestInv, TunnelInv', NEW x \in Sides, NEW c \in Conns, CloseStep(x, c)
  PROVE  HonestInv'
<1>1. /\ TypeOK /\ EndTypes /\ CloseTypes /\ DialTypes /\ net \in NetType
      /\ EndMaps /\ Closings /\ ConnLife /\ "client" \in Sides
      /\ Peer(x) \in Sides /\ Peer(x) # x /\ Peer(Peer(x)) = x
      /\ "open" \notin Errors /\ "none" \notin Errors /\ "err" \in Errors
  BY TypesSplit, PeerIsOther DEF TunnelInv, HonestInv, Sides, Errors
<1>2. closing[x][c] # "none" /\ via[c] \in Sessions /\ reason[x][c] \in Errors
  <2>1. closing[x][c] # "none"
    BY DEF CloseStep, TellPeer, ShutEnd
  <2> QED
    BY <1>1, <2>1, UsedSession DEF CloseTypes
<1>3. end[x][c] # "none" /\ c \notin conns[x] /\ closer[x][c] # "none" /\ CloserAt(x, c)
  <2>1. MapLife(x, c) /\ CloserAt(x, c)
    BY <1>1 DEF ConnLife, Closings, ClosingAt
  <2> QED
    BY <1>2, <2>1 DEF MapLife, CloserAt
<1>4. CASE TellPeer(x, c)
  <2>1. /\ closing[x][c] = "tell" /\ closing' = [closing EXCEPT ![x][c] = "shut"]
        /\ WriteMessage(via[c], x, net, Error(c, reason[x][c]))
        /\ UNCHANGED <<serving, via, late, conns, end, pending, pipe, down, closer, reason,
                       byPeer>>
        /\ DataStill
    BY <1>4 DEF TellPeer, dialVars, ioVars, pipeVars, DataStill
  <2>2. \A y \in Sides, d \in Conns :
          closing'[y][d] = IF y = x /\ d = c THEN "shut" ELSE closing[y][d]
    BY <1>1, <2>1, EntryChanged DEF CloseTypes
  <2>3. Shut(Peer(x), c)' <=> Shut(Peer(x), c)
    BY <1>1, <2>1, <2>2 DEF Shut
  <2>4. ASSUME reason[x][c] = "eof" PROVE EofMoves(via[c], Peer(x), c) \/ link[via[c]] # "up"
    <3> SUFFICES ASSUME link[via[c]] = "up"
                 PROVE  /\ Shut(x, c)'
                        /\ ~Shut(Peer(x), c)' =>
                             Final(x, c)' /\ Owed(x, c)' <= Posted(x, c)
      BY <1>1 DEF EofMoves
    <3>1. Shut(x, c)'
      BY <2>2 DEF Shut
    <3>2. Owed(x, c)' = Owed(x, c)
      BY <2>1 DEF DataStill, Owed
    <3>3. CASE x = "server"
      <4>1. Owed(x, c) <= Posted(x, c)
        BY <1>1, <3>3, OwedTyped
      <4> QED
        BY <3>1, <3>2, <3>3, <4>1 DEF Final
    <3>4. CASE x = "client"
      <4> SUFFICES ASSUME ~Shut(Peer(x), c) PROVE Final(x, c)' /\ Owed(x, c) <= Posted(x, c)
        BY <2>3, <3>1, <3>2
      <4>1. end[x][c] \in Errors /\ ~pending[x][c]
        BY <1>1, <2>1, <2>4, <3>4 DEF Closings, ClosingAt, ReadyAt
      <4>2. Owed(x, c) <= Posted(x, c)
        BY <1>1, <4>1, OwedTyped
      <4> QED
        BY <2>1, <3>4, <4>1, <4>2 DEF Final
    <3> QED
      BY <3>3, <3>4 DEF Sides
  <2>5. QueuesMove
    <3>1. Error(c, reason[x][c]) \in Messages
      BY <1>2, MessageTypes
    <3>2. \A d \in Conns : IsEof(Error(c, reason[x][c]), d) => d = c /\ reason[x][c] = "eof"
      BY DEF IsEof, Error
    <3>3. \A d \in Conns : IsEof(Error(c, reason[x][c]), d) /\ link[via[c]] = "up" =>
            EofMoves(via[c], Peer(x), d)
      BY <2>4, <3>2
    <3>4. Error(c, reason[x][c]).conn = c
      BY DEF Error
    <3> QED
      BY <1>1, <1>2, <2>1, <3>1, <3>3, <3>4, QueuesMoved
  <2>6. ClosersMove
    <3> SUFFICES ASSUME NEW y \in Sides, NEW d \in Conns PROVE CloserMoves(y, d)
      BY DEF ClosersMove
    <3>1. CASE ~(y = x /\ d = c)
      BY <2>1, <2>2, <3>1 DEF CloserMoves
    <3>2. CASE y = x /\ d = c
      <4>1. closing'[x][c] = "shut"
        BY <2>2
      <4>2. CloserAt(x, c)'
        BY <1>2, <1>3, <2>1, <4>1 DEF CloserAt
      <4>3. ReadyAt(x, c)'
        BY <4>1 DEF ReadyAt
      <4>4. TellingAt(x, c)'
        <5>1. TellingAt(x, c)
          BY <1>1 DEF Closings, ClosingAt
        <5>2. Owed(Peer(x), c)' = Owed(Peer(x), c) /\ Received(x, c)' = Received(x, c)
          BY <2>1 DEF DataStill, Owed, Received
        <5>3. Final(Peer(x), c)' <=> Final(Peer(x), c)
          BY <2>1, <2>3 DEF Final
        <5> QED
          BY <2>1, <5>1, <5>2, <5>3 DEF TellingAt
      <4> QED
        BY <2>1, <3>2, <4>2, <4>3, <4>4 DEF CloserMoves, ClosingAt
    <3> QED
      BY <3>1, <3>2
  <2> QED
    BY <1>1, <2>1, <2>5, <2>6, EndsStill, StillMoves, MovesKeep
<1>5. CASE ShutEnd(x, c)
  <2>1. /\ closing' = [closing EXCEPT ![x][c] = "none"]
        /\ closer' = [closer EXCEPT ![x][c] = "none"]
        /\ reason' = [reason EXCEPT ![x][c] = "err"]
        /\ DoTunnelClose(x, c, reason[x][c])
        /\ byPeer' = IF closer[x][c] = "peer" /\ end[x][c] = "open"
                     THEN byPeer \cup {<<x, c>>} ELSE byPeer
        /\ pipe' = IF closer[x][c] = "pipe" THEN [pipe EXCEPT ![c] = "done"] ELSE pipe
        /\ UNCHANGED <<serving, net, via, late, conns, pending, down>>
        /\ DataStill
    BY <1>5 DEF ShutEnd, dialVars, ioVars, DataStill
  <2>2. /\ \A y \in Sides, d \in Conns :
             closing'[y][d] = IF y = x /\ d = c THEN "none" ELSE closing[y][d]
        /\ \A y \in Sides, d \in Conns :
             closer'[y][d] = IF y = x /\ d = c THEN "none" ELSE closer[y][d]
        /\ \A y \in Sides, d \in Conns :
             reason'[y][d] = IF y = x /\ d = c THEN "err" ELSE reason[y][d]
    BY <1>1, <2>1, EntryChanged DEF CloseTypes
  <2>3. \A y \in Sides, d \in Conns :
          end'[y][d] = IF y = x /\ d = c /\ end[x][c] = "open" THEN reason[x][c]
                       ELSE end[y][d]
    BY <1>1, <1>2, <2>1, CloseTyped
  <2>4. end'[x][c] \in Errors
    BY <1>1, <1>2, <1>3, <2>3 DEF EndTypes
  <2>5. \A d \in Conns : \/ pipe'[d] = pipe[d]
                         \/ d = c /\ x = "client" /\ pipe[d] = "closing" /\ pipe'[d] = "done"
    BY <1>1, <1>3, <2>1 DEF DialTypes, CloserAt
  <2>6. EndsMove
    <3>1. \A y \in Sides, d \in Conns : EndMoves(y, d)
      BY <1>2, <1>3, <2>1, <2>3 DEF EndMoves
    <3> QED
      BY <2>1, <3>1 DEF EndsMove
  <2>7. WritesMove
    <3> SUFFICES ASSUME NEW d \in Conns
                 PROVE  /\ pending["client"][d] =>
                             /\ pipe'[d] = "copying" /\ down[d] = "on"
                             /\ end'["client"][d] = "eof" => d \notin conns["client"]
                        /\ pipe'[d] = "closing" => end'["client"][d] \in Errors
      BY <2>1 DEF WritesMove
    <3>1. /\ pending["client"][d] =>
               /\ pipe[d] = "copying" /\ down[d] = "on"
               /\ end["client"][d] = "eof" => d \notin conns["client"]
          /\ pipe[d] = "closing" => end["client"][d] \in Errors
      BY <1>1 DEF EndMaps
    <3>2. end'["client"][d] = end["client"][d]
          \/ (d \notin conns["client"] /\ end'["client"][d] \in Errors)
      BY <1>1, <1>2, <1>3, <2>3
    <3> QED
      BY <2>5, <3>1, <3>2
  <2>8. ClosesMove
    BY <2>1 DEF ClosesMove
  <2>9. ToldMoves
    <3>1. CASE closer[x][c] = "peer" /\ end[x][c] = "open"
      BY <2>1, <2>3, <3>1 DEF ToldMoves
    <3>2. CASE ~(closer[x][c] = "peer" /\ end[x][c] = "open")
      BY <2>1, <3>2 DEF ToldMoves
    <3> QED
      BY <3>1, <3>2
  <2>10. ClosersMove
    <3> SUFFICES ASSUME NEW y \in Sides, NEW d \in Conns PROVE CloserMoves(y, d)
      BY DEF ClosersMove
    <3>1. CASE ~(y = x /\ d = c)
      <4>1. CloserAt(y, d)
        BY <1>1 DEF Closings, ClosingAt
      <4>2. closer[y][d] = "pipe" => pipe'[d] = pipe[d]
        BY <2>5, <3>1, <4>1 DEF CloserAt
      <4> QED
        BY <2>2, <3>1, <4>2 DEF CloserMoves
    <3>2. CASE y = x /\ d = c
      <4>1. closing'[x][c] = "none" /\ closer'[x][c] = "none"
        BY <2>2
      <4>2. ClosingAt(x, c)'
        BY <4>1 DEF ClosingAt, CloserAt, ReadyAt, TellingAt, Loops
      <4> QED
        BY <2>4, <3>2, <4>2 DEF CloserMoves
    <3> QED
      BY <3>1, <3>2
  <2>11. DataMove /\ QueuesMove
    BY <1>1, <2>1, StillMoves
  <2> QED
    BY <2>6, <2>7, <2>8, <2>9, <2>10, <2>11, MovesKeep
<1> QED
  BY <1>4, <1>5 DEF CloseStep

\* Errors that a step may send.
LEMMA ErrorIs ==
  ASSUME NEW c \in Conns, NEW e \in Errors
  PROVE  /\ Error(c, e) \in Messages /\ Error(c, e).conn = c
         /\ \A d \in Conns : IsEof(Error(c, e), d) => d = c /\ e = "eof"
  BY MessageTypes DEF Error, IsEof

\* The callers of closeConnection that are not serve loops.
LEMMA CallersHonest ==
  ASSUME TunnelInv, HonestInv, TunnelInv', NEW c \in Conns,
         SendConnectFails(c) \/ ServerClose(c) \/ PipeClose(c)
  PROVE  HonestInv'
<1>1. /\ TypeOK /\ EndTypes /\ DialTypes /\ EndMaps
      /\ "server" \in Sides /\ "client" \in Sides
      /\ "err" \in Errors /\ "eof" \in Errors /\ "open" \notin Errors /\ "none" \notin Errors
      /\ MapLife("server", c)
  BY TypesSplit DEF TunnelInv, HonestInv, Sides, Errors, ConnLife
<1>2. CASE SendConnectFails(c)
  <2>1. /\ CloseConnection(via[c], "server", c, "caller", "err")
        /\ UNCHANGED <<serving, net, via, late, end, pending, pipe, down, byPeer>> /\ DataStill
        /\ dial[c] = "inserted"
    BY <1>2 DEF SendConnectFails, ioVars, pipeVars, DataStill
  <2>2. via[c] \in Sessions
    BY <2>1, UsedSession
  <2>3. DataMove /\ QueuesMove /\ ToldMoves
    BY <1>1, <2>1, StillMoves
  <2>4. /\ "caller" \in Loops \cup {"caller", "pipe"} /\ "caller" \notin Loops
        /\ "server" # "client"
    BY DEF Loops
  <2> QED
    BY <1>1, <2>1, <2>2, <2>3, <2>4, TakeOutHonest
<1>3. CASE ServerClose(c)
  <2>1. /\ CloseConnection(via[c], "server", c, "caller", "eof")
        /\ UNCHANGED <<serving, net, via, late, end, buf, wrote, pending, got, seen, pipe, up,
                       down, byPeer>>
        /\ due' = [due EXCEPT ![c] = Posted("server", c)]
        /\ dial[c] = "returned" /\ c \in conns["server"]
    BY <1>3 DEF ServerClose, dialVars, ioVars, pipeVars, Sent, Posted
  <2>2. via[c] \in Sessions
    BY <2>1, UsedSession
  <2>3. DataMove
    <3>1. ASSUME NEW y \in Sides, NEW d \in Conns PROVE DataMoves(y, d)
      <4>1. Received(y, d) \in Nat /\ Len(got[y][d]) \in Nat
        BY <1>1, CountsTyped
      <4>2. Received(y, d)' = Received(y, d)
        BY <2>1 DEF Received
      <4> QED
        BY <2>1, <4>1, <4>2 DEF DataMoves
    <3>2. ASSUME NEW d \in Conns PROVE DueMoves(d)
      <4>1. Posted("server", d)' = Posted("server", d)
        BY <2>1 DEF Posted
      <4>2. Posted("server", d) \in Int
        <5>1. Peer("client") = "server"
          BY DEF Peer
        <5> QED
          BY <1>1, <5>1, CountsTyped
      <4>3. due'[d] = IF d = c THEN Posted("server", c) ELSE due[d]
        BY <1>1, <2>1 DEF DialTypes
      <4>4. ~Shut("server", c)
        BY <1>1, <2>1 DEF EndMaps, MapLife, Shut
      <4> QED
        BY <4>1, <4>2, <4>3, <4>4 DEF DueMoves
    <3> QED
      BY <3>1, <3>2 DEF DataMove
  <2>4. QueuesMove /\ ToldMoves
    BY <1>1, <2>1, StillMoves
  <2>5. /\ "caller" \in Loops \cup {"caller", "pipe"} /\ "caller" \notin Loops
        /\ "server" # "client"
    BY DEF Loops
  <2> QED
    BY <1>1, <2>1, <2>2, <2>3, <2>4, <2>5, TakeOutHonest
<1>4. CASE PipeClose(c)
  <2>1. /\ CloseConnection(via[c], "client", c, "pipe", "eof")
        /\ UNCHANGED <<serving, net, via, late, end, pending, down, byPeer>> /\ DataStill
        /\ pipe[c] = "closing" /\ closer["client"][c] # "pipe"
        /\ pipe' = IF c \in conns["client"] THEN pipe ELSE [pipe EXCEPT ![c] = "done"]
    BY <1>4 DEF PipeClose, dialVars, ioVars, DataStill
  <2>2. via[c] \in Sessions
    BY <2>1, UsedSession
  <2>3. DataMove /\ QueuesMove /\ ToldMoves
    BY <1>1, <2>1, StillMoves
  <2>4. "pipe" \in Loops \cup {"caller", "pipe"} /\ "pipe" \notin Loops
    BY DEF Loops
  <2>5. end["client"][c] \in Errors /\ ~pending["client"][c]
    BY <1>1, <2>1 DEF EndMaps
  <2>6. \A d \in Conns :
           \/ pipe'[d] = pipe[d]
           \/ pipe[d] = "closing" /\ pipe'[d] = "done" /\ closer["client"][d] # "pipe"
    BY <1>1, <2>1 DEF DialTypes
  <2>7. c \in conns["client"] => pipe'[c] = "closing"
    BY <2>1
  <2> QED
    BY <1>1, <2>1, <2>2, <2>3, <2>4, <2>5, <2>6, <2>7, TakeOutHonest
<1> QED
  BY <1>2, <1>3, <1>4

\* session.Close takes a connection, and tells the peer of an error.
LEMMA CloseOneHonest ==
  ASSUME TunnelInv, HonestInv, TunnelInv', NEW s \in Sessions, NEW x \in Sides,
         NEW c \in Conns, CloseOne(s, x, c)
  PROVE  HonestInv'
<1>1. /\ TypeOK /\ EndTypes /\ CloseTypes /\ net \in NetType /\ EndMaps /\ Closings
      /\ "client" \in Sides /\ "err" \in Errors /\ "err" # "eof" /\ MapLife(x, c)
  BY TypesSplit DEF TunnelInv, HonestInv, Sides, Errors, ConnLife
<1>2. /\ conns' = [conns EXCEPT ![x] = @ \ {c}] /\ c \in conns[x] /\ via[c] = s
      /\ WriteMessage(s, x, net, Error(c, "err"))
      /\ closing' = [closing EXCEPT ![x][c] = "shut"]
      /\ closer' = [closer EXCEPT ![x][c] = "session"]
      /\ UNCHANGED <<serving, via, late, end, pending, pipe, down, reason, byPeer>> /\ DataStill
  BY DEF CloseOne, dialVars, ioVars, pipeVars, DataStill
<1>3. \A y \in Sides : conns'[y] \subseteq conns[y]
  BY <1>1, <1>2 DEF EndTypes
<1>4. "shut" \in {"none", "tell", "shut"} /\ "session" \in {"none"} \cup Closers
      /\ "session" \notin Loops
  BY DEF Closers, Loops
<1>5. /\ \A y \in Sides, d \in Conns :
           closing'[y][d] = IF y = x /\ d = c THEN "shut" ELSE closing[y][d]
      /\ \A y \in Sides, d \in Conns :
           closer'[y][d] = IF y = x /\ d = c THEN "session" ELSE closer[y][d]
  BY <1>1, <1>2, <1>4, EntryChanged DEF CloseTypes
<1>6. EndsMove
  BY <1>2, <1>3 DEF EndsMove, EndMoves
<1>7. WritesMove
  BY <1>1, <1>2, <1>3 DEF WritesMove, EndMaps
<1>8. ClosesMove
  BY <1>2 DEF ClosesMove
<1>9. ClosersMove
  <2> SUFFICES ASSUME NEW y \in Sides, NEW d \in Conns PROVE CloserMoves(y, d)
    BY DEF ClosersMove
  <2>1. CASE ~(y = x /\ d = c)
    BY <1>2, <1>5, <2>1 DEF CloserMoves
  <2>2. CASE y = x /\ d = c
    <3>1. closer[x][c] = "none"
      BY <1>1, <1>2 DEF MapLife, Closings, ClosingAt, CloserAt
    <3>2. closing'[x][c] = "shut" /\ closer'[x][c] = "session"
      BY <1>5
    <3>3. ClosingAt(x, c)'
      BY <1>4, <3>2 DEF ClosingAt, CloserAt, ReadyAt, TellingAt
    <3> QED
      BY <2>2, <3>1, <3>3 DEF CloserMoves
  <2> QED
    BY <2>1, <2>2
<1>10. QueuesMove
  <2>1. /\ Error(c, "err") \in Messages /\ via[Error(c, "err").conn] = s
        /\ \A d \in Conns : ~IsEof(Error(c, "err"), d)
    BY <1>1, <1>2, ErrorIs
  <2> QED
    BY <1>1, <1>2, <2>1, QueuesMoved
<1>11. DataMove /\ ToldMoves
  BY <1>1, <1>2, StillMoves
<1> QED
  BY <1>6, <1>7, <1>8, <1>9, <1>10, <1>11, MovesKeep

\* clientDial tells of its errors, and shuts its end when the target is refused.
LEMMA PipeTellsHonest ==
  ASSUME TunnelInv, HonestInv, TunnelInv', NEW c \in Conns,
         DialTargetFails(c) \/ RefuseShuts(c) \/ PipeWriteErr(c)
  PROVE  HonestInv'
<1>1. /\ TypeOK /\ EndTypes /\ DialTypes /\ net \in NetType /\ EndMaps /\ Closings /\ ConnLife
      /\ "server" \in Sides /\ "client" \in Sides /\ Peer("client") = "server"
      /\ "err" \in Errors /\ "err" # "eof" /\ "open" \notin Errors /\ "none" \notin Errors
  BY TypesSplit DEF TunnelInv, HonestInv, Sides, Errors, Peer
<1>2. \A d \in Conns : closer["client"][d] = "pipe" => pipe[d] = "closing"
  BY <1>1 DEF Closings, ClosingAt, CloserAt
<1>3. pipe[c] \in {"dialing", "refusing", "copying"}
  BY DEF DialTargetFails, RefuseShuts, PipeWriteErr
<1>4. via[c] \in Sessions
  BY <1>3, UsedSession
<1>5. CASE DialTargetFails(c)
  <2>1. /\ pipe[c] = "dialing" /\ pipe' = [pipe EXCEPT ![c] = "refusing"]
        /\ WriteMessage(via[c], "client", net, Error(c, "err"))
        /\ UNCHANGED <<serving, via, late, conns, end, pending, down, closing, closer, reason,
                       byPeer>>
        /\ DataStill
    BY <1>5 DEF DialTargetFails, dialVars, ioVars, closeVars, DataStill
  <2>2. \A d \in Conns : pipe'[d] = IF d = c THEN "refusing" ELSE pipe[d]
    BY <1>1, <2>1 DEF DialTypes
  <2>3. ClosersMove
    BY <1>1, <1>2, <2>1, <2>2, ClosersStill
  <2>4. WritesMove
    BY <1>1, <2>1, <2>2 DEF WritesMove, EndMaps
  <2>5. QueuesMove
    <3>1. /\ Error(c, "err") \in Messages /\ Error(c, "err").conn = c
          /\ \A d \in Conns : ~IsEof(Error(c, "err"), d)
      BY <1>1, ErrorIs
    <3> QED
      BY <1>1, <1>4, <2>1, <3>1, QueuesMoved
  <2> QED
    BY <1>1, <2>1, <2>3, <2>4, <2>5, EndsStill, StillMoves, MovesKeep
<1>6. CASE RefuseShuts(c)
  <2>1. /\ pipe[c] = "refusing" /\ pipe' = [pipe EXCEPT ![c] = "closing"]
        /\ DoTunnelClose("client", c, "err")
        /\ UNCHANGED <<serving, net, via, late, conns, pending, down, closing, closer, reason,
                       byPeer>>
        /\ DataStill
    BY <1>6 DEF RefuseShuts, dialVars, ioVars, closeVars, DataStill
  <2>2. \A d \in Conns : pipe'[d] = IF d = c THEN "closing" ELSE pipe[d]
    BY <1>1, <2>1 DEF DialTypes
  <2>3. \A y \in Sides, d \in Conns :
          end'[y][d] = IF y = "client" /\ d = c /\ end["client"][c] = "open" THEN "err"
                       ELSE end[y][d]
    BY <1>1, <2>1, CloseTyped
  <2>4. end'["client"][c] \in Errors
    <3>1. end["client"][c] # "none" /\ end["client"][c] \in {"none", "open"} \cup Errors
      BY <1>1, <2>1 DEF ConnLife, EndTypes
    <3> QED
      BY <1>1, <2>3, <3>1
  <2>5. ClosersMove
    BY <1>1, <1>2, <2>1, <2>2, ClosersStill
  <2>6. EndsMove
    <3>1. \A y \in Sides, d \in Conns : EndMoves(y, d)
      BY <1>1, <2>3 DEF EndMoves
    <3> QED
      BY <2>1, <3>1 DEF EndsMove
  <2>7. WritesMove
    <3> SUFFICES ASSUME NEW d \in Conns
                 PROVE  /\ pending["client"][d] =>
                             /\ pipe'[d] = "copying" /\ down[d] = "on"
                             /\ end'["client"][d] = "eof" => d \notin conns["client"]
                        /\ pipe'[d] = "closing" => end'["client"][d] \in Errors
      BY <2>1 DEF WritesMove
    <3>1. /\ pending["client"][d] =>
               /\ pipe[d] = "copying" /\ down[d] = "on"
               /\ end["client"][d] = "eof" => d \notin conns["client"]
          /\ pipe[d] = "closing" => end["client"][d] \in Errors
      BY <1>1 DEF EndMaps
    <3>2. CASE d = c
      BY <2>1, <2>4, <3>1, <3>2
    <3>3. CASE d # c
      BY <1>1, <2>2, <2>3, <3>1, <3>3
    <3> QED
      BY <3>2, <3>3
  <2>8. ClosesMove
    BY <2>1 DEF ClosesMove
  <2> QED
    BY <1>1, <2>1, <2>5, <2>6, <2>7, <2>8, StillMoves, MovesKeep
<1>7. CASE PipeWriteErr(c)
  <2>1. /\ pipe[c] = "copying" /\ pipe' = [pipe EXCEPT ![c] = "closing"]
        /\ up[c] = "done" /\ down[c] # "on"
        /\ WriteMessage(via[c], "client", net, Error(c, down[c]))
        /\ UNCHANGED <<serving, via, late, conns, end, pending, down, closing, closer, reason,
                       byPeer>>
        /\ DataStill
    BY <1>7 DEF PipeWriteErr, dialVars, ioVars, closeVars, DataStill
  <2>2. down[c] \in Errors
    BY <1>1, <2>1 DEF DialTypes
  <2>3. end["client"][c] \in Errors /\ ~pending["client"][c]
    BY <1>1, <2>1 DEF ConnLife, EndMaps
  <2>4. \A d \in Conns : pipe'[d] = IF d = c THEN "closing" ELSE pipe[d]
    BY <1>1, <2>1 DEF DialTypes
  <2>5. ClosersMove
    BY <1>1, <1>2, <2>1, <2>4, ClosersStill
  <2>6. WritesMove
    BY <1>1, <2>1, <2>3, <2>4 DEF WritesMove, EndMaps
  <2>7. QueuesMove
    <3>1. link[via[c]] = "up" => EofMoves(via[c], "server", c)
      <4> SUFFICES ASSUME link[via[c]] = "up" PROVE EofMoves(via[c], "server", c)
        OBVIOUS
      <4>1. Owed("client", c) <= Posted("client", c)
        BY <1>1, <2>3, OwedTyped
      <4>2. Owed("client", c)' = Owed("client", c)
        BY <2>1 DEF DataStill, Owed
      <4>3. Peer("server") = "client"
        BY DEF Peer
      <4>4. Shut("client", c)' /\ Final("client", c)'
        BY <2>1, <2>3 DEF Shut, Final
      <4> QED
        BY <4>1, <4>2, <4>3, <4>4 DEF EofMoves
    <3>2. /\ Error(c, down[c]) \in Messages /\ Error(c, down[c]).conn = c
          /\ \A d \in Conns : IsEof(Error(c, down[c]), d) => d = c
      BY <2>2, ErrorIs
    <3> QED
      BY <1>1, <1>4, <2>1, <3>1, <3>2, QueuesMoved
  <2> QED
    BY <1>1, <2>1, <2>5, <2>6, <2>7, EndsStill, StillMoves, MovesKeep
<1> QED
  BY <1>5, <1>6, <1>7

\* An error of the peer: what is owed has arrived when it is io.EOF.
LEMMA ServeErrorHonest ==
  ASSUME TunnelInv, HonestInv, TunnelInv', NEW s \in Sessions, NEW x \in Sides,
         ServeError(s, x)
  PROVE  HonestInv'
<1>1. /\ TypeOK /\ EndTypes /\ net \in NetType /\ EndMaps /\ EofSent /\ ErrorsOwn
      /\ "open" \notin Errors /\ Peer(x) \in Sides
  BY TypesSplit, PeerIsOther DEF TunnelInv, HonestInv, Errors
<1> DEFINE q == net[s][x]
           m == Head(q)
           c == m.conn
           e == m.err
           n == Taken(s, x)
<1>2. /\ q # <<>> /\ m.type = "error" /\ serving[s][x] = "on"
      /\ CloseConnection(s, x, c, "peer", e) /\ net' = n
      /\ UNCHANGED <<serving, via, late, end, pending, pipe, down, byPeer>> /\ DataStill
  BY DEF ServeError, Receives, dialVars, ioVars, pipeVars, DataStill
<1>3. q \in Seq(Messages) /\ n \in NetType
  BY <1>1, <1>2, TakenTyped DEF NetType
<1>4. m = q[1] /\ 1 \in 1..Len(q) /\ m \in Messages
  BY <1>2, <1>3, QueueTail
<1>5. c \in Conns /\ e \in Errors
  BY <1>2, <1>4, MessageTypes
<1>6. via[c] = s
  BY <1>2, <1>4, <1>1 DEF ErrorsOwn
<1> HIDE DEF n
<1>7. QueuesMove
  <2>1. net[s][x] # <<>> /\ n = Taken(s, x) /\ \A d \in Conns : ~IsData(Head(net[s][x]), d)
    BY <1>2 DEF IsData, n
  <2> HIDE DEF q, m, c, e
  <2> QED
    BY <1>1, <1>2, <1>3, <1>4, <2>1, QueuesMoved
<1>8. DataMove /\ ToldMoves
  BY <1>1, <1>2, StillMoves
<1>9. ASSUME e = "eof" PROVE EofAt(q, 1, x, c)
  <2>1. IsEof(q[1], c)
    BY <1>2, <1>4, <1>9 DEF IsEof
  <2> QED
    BY <1>1, <1>4, <1>5, <2>1 DEF EofSent
<1>10. ASSUME e = "eof", c \in conns[x], end[x][c] = "open"
       PROVE  Final(Peer(x), c) /\ Owed(Peer(x), c) <= Received(x, c)
  <2> DEFINE r == Received(x, c)
             w == Owed(Peer(x), c)
  <2>1. ~Shut(x, c)
    <3>1. MapLife(x, c)
      BY <1>5 DEF TunnelInv, ConnLife
    <3> QED
      BY <1>1, <1>10, <3>1 DEF MapLife, Shut
  <2>2. Final(Peer(x), c) /\ Covered(q, 1, c, r, w)
    BY <1>9, <1>10, <2>1 DEF EofAt
  <2>3. r \in Nat /\ w \in Int
    <3> HIDE DEF c
    <3> QED
      BY <1>1, <1>5, CountsTyped, OwedTyped
  <2> HIDE DEF q, m, c, e, r, w
  <2>4. w <= r
    <3> SUFFICES ASSUME ~(w <= r) PROVE FALSE
      OBVIOUS
    <3>1. r + 1 \in (r + 1)..w
      BY <2>3
    <3>2. 1..(1 - 1) = {}
      OBVIOUS
    <3> QED
      BY <2>2, <3>1, <3>2 DEF Covered
  <2> QED
    BY <2>2, <2>4 DEF r, w
<1>11. e = "eof" => Shut(Peer(x), c)
  BY <1>9 DEF EofAt
<1>12. /\ "peer" \in Loops \cup {"caller", "pipe"} /\ "peer" # "caller" /\ "peer" # "pipe"
  BY DEF Loops
<1> HIDE DEF q, m, c, e
<1> QED
  BY <1>1, <1>2, <1>5, <1>6, <1>7, <1>8, <1>10, <1>11, <1>12, TakeOutHonest

\* Data: the chunk is received or meets an end that is shut.
LEMMA ServeDataHonest ==
  ASSUME TunnelInv, HonestInv, TunnelInv', NEW s \in Sessions, NEW x \in Sides,
         ServeData(s, x)
  PROVE  HonestInv'
<1>1. /\ TypeOK /\ EndTypes /\ CloseTypes /\ IoTypes /\ net \in NetType /\ EndMaps /\ Closings
      /\ "open" \notin Errors /\ "none" \notin Errors /\ "err" \in Errors
  BY TypesSplit DEF TunnelInv, HonestInv, Errors
<1> DEFINE q == net[s][x]
           m == Head(q)
           n == Taken(s, x)
<1>2. /\ Receives(s, x, "data") /\ q # <<>> /\ serving[s][x] = "on"
      /\ UNCHANGED <<serving, via, late, end, wrote, pending, got, seen, pipe, up, down,
                     byPeer, due>>
  BY DEF ServeData, Receives, dialVars, pipeVars
<1>3. PICK c \in Conns :
        /\ c = m.conn
        /\ via[c] = s /\ IsData(m, c)
        /\ end[x][c] \in {"open"} \cup Errors
  BY <1>2, DataHasEnd
<1>4. \/ /\ c \notin conns[x]
         /\ net' = n \/ WriteMessage(s, x, n, Error(c, "err"))
         /\ UNCHANGED <<buf, conns, closing, closer, reason>>
      \/ /\ c \in conns[x] /\ end[x][c] = "open"
         /\ buf' = [buf EXCEPT ![x][c] = Append(@, m.chunk)]
         /\ net' = n
         /\ UNCHANGED <<conns, closing, closer, reason>>
      \/ /\ c \in conns[x]
         /\ net' = n /\ CloseConnection(s, x, c, "loop", "err")
         /\ UNCHANGED buf
      \/ /\ c \in conns[x] /\ end[x][c] \in Errors
         /\ net' = n /\ CloseConnection(s, x, c, "loop", end[x][c])
         /\ UNCHANGED buf
  BY <1>3 DEF ServeData, closeVars
<1>5. q \in Seq(Messages) /\ n \in NetType /\ m \in Messages
  BY <1>1, <1>2, TakenTyped DEF NetType
<1>6. /\ m = q[1] /\ 1 \in 1..Len(q)
      /\ \A d \in Conns : IsData(m, d) => d = c
      /\ m.chunk \in Nat
  BY <1>2, <1>3, <1>5, QueueTail, MessageTypes DEF IsData
<1>7. /\ Error(c, "err") \in Messages /\ Error(c, "err").conn = c
      /\ \A d \in Conns : ~IsEof(Error(c, "err"), d)
  <2>1. "err" # "eof"
    OBVIOUS
  <2> QED
    BY <1>1, <2>1, ErrorIs
<1>8. ToldMoves /\ MapLife(x, c)
  BY <1>2 DEF ToldMoves, TunnelInv, ConnLife
<1> HIDE DEF n
<1>9. ASSUME c \notin conns[x], net' = n \/ WriteMessage(s, x, n, Error(c, "err")),
             UNCHANGED <<buf, conns, closing, closer, reason>>
      PROVE  HonestInv'
  <2>1. Shut(x, c)'
    BY <1>2, <1>3, <1>8, <1>9 DEF MapLife, Shut
  <2>2. QueuesMove
    <3>1. net[s][x] # <<>> /\ n = Taken(s, x)
          /\ \A d \in Conns : IsData(Head(net[s][x]), d) => Shut(x, d)'
      BY <1>2, <1>6, <2>1 DEF n
    <3> HIDE DEF q, m
    <3> QED
      BY <1>1, <1>3, <1>5, <1>7, <1>9, <3>1, QueuesMoved
  <2>3. DataStill
    BY <1>2, <1>9 DEF DataStill
  <2>4. EndsMove /\ WritesMove /\ ClosesMove /\ ClosersMove
    BY <1>1, <1>2, <1>9, EndsStill, ClosersStill
  <2> QED
    BY <1>1, <1>8, <2>2, <2>3, <2>4, StillMoves, MovesKeep
<1>10. ASSUME NEW e \in Errors, c \in conns[x], CloseConnection(s, x, c, "loop", e),
              net' = n, UNCHANGED buf, e = "err" \/ e = end[x][c]
       PROVE  HonestInv'
  <2>1. "loop" \in Closers /\ "loop" \in Loops \cup {"caller", "pipe"} /\ "loop" # "peer"
        /\ "loop" # "pipe" /\ "loop" # "caller"
    BY DEF Closers, Loops
  <2>2. Shut(x, c)'
    <3>1. UNCHANGED end
      BY <1>2
    <3>2. c \in conns[x] => closing'[x][c] = "tell"
      BY <1>1, <1>10, <2>1, <3>1, CloseConnectionTyped
    <3> QED
      BY <1>10, <3>2 DEF Shut
  <2>3. QueuesMove
    <3>1. net[s][x] # <<>> /\ n = Taken(s, x)
          /\ \A d \in Conns : IsData(Head(net[s][x]), d) => Shut(x, d)'
      BY <1>2, <1>6, <2>2 DEF n
    <3> HIDE DEF q, m
    <3> QED
      BY <1>1, <1>5, <1>10, <3>1, QueuesMoved
  <2>4. DataStill
    BY <1>2, <1>10 DEF DataStill
  <2>5. x = "client" /\ e = "eof" => end[x][c] \in Errors /\ ~pending[x][c]
    <3>1. "err" # "eof"
      OBVIOUS
    <3> QED
      BY <1>1, <1>10, <3>1 DEF EndMaps
  <2> QED
    BY <1>1, <1>2, <1>3, <1>8, <1>10, <2>1, <2>3, <2>4, <2>5, StillMoves, TakeOutHonest
<1>11. ASSUME c \in conns[x], end[x][c] = "open",
              buf' = [buf EXCEPT ![x][c] = Append(@, m.chunk)],
              net' = n, UNCHANGED <<conns, closing, closer, reason>>
       PROVE  HonestInv'
  <2>1. buf' = [buf EXCEPT ![x][c] = Append(buf[x][c], m.chunk)]
    BY <1>11
  <2> DEFINE b == Append(buf[x][c], m.chunk)
  <2>2. buf[x][c] \in Seq(Nat)
    BY <1>1 DEF IoTypes
  <2>3. b \in Seq(Nat) /\ Len(b) = Len(buf[x][c]) + 1 /\ Len(buf[x][c]) \in Nat
    BY <1>6, <2>2
  <2> HIDE DEF b
  <2>4. \A y \in Sides, d \in Conns : buf'[y][d] = IF y = x /\ d = c THEN b ELSE buf[y][d]
    <3>1. buf \in [Sides -> [Conns -> Seq(Nat)]]
      BY <1>1 DEF IoTypes
    <3>2. buf' = [buf EXCEPT ![x][c] = b]
      BY <2>1 DEF b
    <3> QED
      BY <2>3, <3>1, <3>2, EntryChanged
  <2>5. \A y \in Sides, d \in Conns :
          Received(y, d)' = IF y = x /\ d = c THEN Received(y, d) + 1 ELSE Received(y, d)
    <3> TAKE y \in Sides, d \in Conns
    <3>1. Len(got[y][d]) \in Nat /\ got' = got
      BY <1>1, <1>2, CountsTyped
    <3>2. CASE y = x /\ d = c
      <4>1. Received(y, d)' = Len(got[y][d]) + Len(b)
        BY <2>4, <3>1, <3>2 DEF Received
      <4>2. Received(y, d) = Len(got[y][d]) + Len(buf[x][c])
        BY <3>2 DEF Received
      <4> DEFINE g == Len(got[y][d])
                 l == Len(buf[x][c])
      <4>3. Received(y, d) = g + l /\ Received(y, d)' = g + (l + 1) /\ g \in Nat /\ l \in Nat
        BY <2>3, <3>1, <4>1, <4>2
      <4> HIDE DEF g, l
      <4>4. g + (l + 1) = (g + l) + 1
        BY <4>3
      <4>5. Received(y, d)' = Received(y, d) + 1
        BY <4>3, <4>4
      <4> QED
        BY <3>2, <4>5
    <3>3. CASE ~(y = x /\ d = c)
      BY <2>4, <3>1, <3>3 DEF Received
    <3> QED
      BY <3>2, <3>3
  <2>6. m.chunk <= Received(x, c)'
    <3>1. Received(x, c) \in Nat /\ Posted(Peer(x), c) \in Int
      BY <1>1, CountsTyped
    <3>2. s # NoSession /\ ~Shut(x, c)
      BY <1>1, <1>8, <1>11, TunnelBounds DEF NoSession, MapLife, Shut
    <3>3. PICK k \in Received(x, c)..Posted(Peer(x), c) : Run(q, c, Received(x, c), k)
      BY <1>1, <1>3, <1>11, <3>2 DEF TunnelInv, NoGap, GapAt
    <3> DEFINE r == Received(x, c)
    <3>4. r \in Nat /\ k \in Int /\ Len(q) \in Nat
      BY <1>5, <3>1, QueueTail, <1>2
    <3> HIDE DEF r, q, m
    <3>5. m.chunk \in (r + 1)..k
      BY <1>3, <1>6, <3>3 DEF Run, r
    <3>6. m.chunk = r + 1
      <4>1. PICK j \in 1..Len(q) : IsData(q[j], c) /\ q[j].chunk = r + 1
        <5>1. r + 1 \in (r + 1)..k
          BY <3>4, <3>5
        <5> QED
          BY <3>3, <5>1 DEF Run, r
      <4>2. j = 1
        <5> SUFFICES ASSUME j # 1 PROVE FALSE
          OBVIOUS
        <5>1. 1 < j
          BY <3>4
        <5>2. q[1].chunk < q[j].chunk
          BY <1>3, <1>6, <3>3, <4>1, <5>1 DEF Run
        <5> QED
          BY <1>6, <3>4, <3>5, <4>1, <5>2
      <4> QED
        BY <1>6, <4>1, <4>2
    <3>7. Received(x, c)' = r + 1
      BY <2>5 DEF r
    <3> QED
      BY <3>4, <3>6, <3>7
  <2>7. QueuesMove
    <3>1. net[s][x] # <<>> /\ n = Taken(s, x)
          /\ \A d \in Conns : IsData(Head(net[s][x]), d) =>
               Head(net[s][x]).chunk <= Received(x, d)'
      BY <1>2, <1>6, <2>6 DEF n
    <3> HIDE DEF q, m
    <3> QED
      BY <1>1, <1>5, <1>7, <1>11, <3>1, QueuesMoved
  <2>8. DataMove
    <3>1. ASSUME NEW y \in Sides, NEW d \in Conns PROVE DataMoves(y, d)
      <4>1. Received(y, d) \in Nat /\ Len(got[y][d]) \in Nat
        BY <1>1, CountsTyped
      <4>2. Received(y, d)' >= Received(y, d)
        BY <2>5, <4>1
      <4> QED
        BY <1>2, <4>1, <4>2 DEF DataMoves
    <3>2. ASSUME NEW d \in Conns PROVE DueMoves(d)
      <4>1. Posted("server", d)' = Posted("server", d)
        BY <1>2 DEF Posted
      <4>2. Posted("server", d) \in Int
        <5>1. Peer("client") = "server" /\ "client" \in Sides
          BY DEF Peer, Sides
        <5> QED
          BY <1>1, <5>1, CountsTyped
      <4> QED
        BY <1>2, <4>1, <4>2 DEF DueMoves
    <3> QED
      BY <3>1, <3>2 DEF DataMove
  <2>9. EndsMove /\ WritesMove /\ ClosesMove /\ ClosersMove
    BY <1>1, <1>2, <1>11, EndsStill, ClosersStill
  <2> QED
    BY <1>8, <2>7, <2>8, <2>9, MovesKeep
<1> QED
  BY <1>1, <1>4, <1>9, <1>10, <1>11
\* Sessions open, fail and end.
LEMMA SessionStepsHonest ==
  ASSUME TunnelInv, HonestInv, TunnelInv', NEW s \in Sessions, NEW x \in Sides,
         \/ OpenSession(s) \/ LinkBreaks(s) \/ ServeFails(s, x)
         \/ StartClose(s, x) \/ EndClose(s, x)
  PROVE  HonestInv'
<1>1. /\ TypeOK /\ SessionTypes /\ CloseTypes /\ net \in NetType /\ EndMaps /\ ConnLife
      /\ Closings /\ "client" \in Sides /\ "open" \notin Errors
  BY TypesSplit DEF TunnelInv, HonestInv, Sides, Errors
<1>2. /\ UNCHANGED <<dial, via, late, pending, pipe, down, conns, end, closing, closer, reason,
                     byPeer>>
      /\ DataStill
  BY DEF OpenSession, LinkBreaks, ServeFails, StartClose, EndClose, connVars,
    dialVars, ioVars, pipeVars, closeVars, DataStill
<1>3. EndsMove /\ WritesMove /\ DataMove /\ ToldMoves /\ ClosersMove
  BY <1>1, <1>2, EndsStill, StillMoves, ClosersStill
<1>4. ClosesMove
  <2>1. ASSUME NEW r \in Sessions, NEW y \in Sides, serving'[r][y] = "closed",
               serving[r][y] # "closed", NEW c \in Conns, via[c] = r, end[y][c] = "open"
        PROVE  y = "server" /\ closer[y][c] = "caller"
    <3>1. EndClose(s, x) /\ r = s /\ y = x
      BY <1>1, <2>1 DEF OpenSession, LinkBreaks, ServeFails, StartClose, EndClose, SessionTypes
    <3>2. c \notin conns[y] /\ closer[y][c] # "session" /\ serving[r][y] = "closing"
      BY <2>1, <3>1 DEF EndClose, Disconnecting
    <3>3. MapLife(y, c) /\ CloserAt(y, c)
      BY <1>1 DEF ConnLife, Closings, ClosingAt
    <3>4. closer[y][c] # "none" /\ closer[y][c] \notin Loops
      BY <1>1, <2>1, <3>2, <3>3 DEF MapLife, Shut, CloserAt
    <3>5. closer[y][c] # "pipe"
      BY <1>1, <2>1, <3>3 DEF CloserAt, EndMaps
    <3>6. closer[y][c] \in {"none"} \cup Closers
      BY <1>1 DEF CloseTypes
    <3>7. closer[y][c] = "caller"
      BY <3>2, <3>4, <3>5, <3>6 DEF Closers
    <3> QED
      BY <3>3, <3>7 DEF CloserAt
  <2>2. ASSUME NEW y \in Sides, NEW c \in Conns, closer[y][c] \in Loops,
               serving[via[c]][y] = "on"
        PROVE  serving'[via[c]][y] = "on"
    <3>1. CloserAt(y, c) /\ MapLife(y, c)
      BY <1>1 DEF ConnLife, Closings, ClosingAt
    <3>2. via[c] \in Sessions
      <4>1. closing[y][c] # "none"
        BY <2>2, <3>1 DEF CloserAt, Loops
      <4> QED
        BY <4>1, UsedSession
    <3>3. CASE OpenSession(s)
      BY <1>1, <2>2, <3>2, <3>3 DEF OpenSession, SessionTypes
    <3>4. CASE LinkBreaks(s)
      BY <2>2, <3>4 DEF LinkBreaks
    <3>5. CASE ServeFails(s, x)
      <4>1. ~(via[c] = s /\ y = x)
        BY <2>2, <3>5 DEF ServeFails, Busy
      <4> QED
        BY <1>1, <2>2, <3>2, <3>5, <4>1 DEF ServeFails, SessionTypes
    <3>6. CASE StartClose(s, x) \/ EndClose(s, x)
      BY <1>1, <2>2, <3>2, <3>6 DEF StartClose, EndClose, SessionTypes
    <3> QED
      BY <3>3, <3>4, <3>5, <3>6
  <2> QED
    BY <1>2, <2>1, <2>2 DEF ClosesMove
<1>5. QueuesMove
  <2> SUFFICES ASSUME NEW r \in Sessions, NEW y \in Sides
               PROVE  net'[r][y] = net[r][y] \/ net'[r][y] = <<>>
    BY DEF QueuesMove, QueueMoves
  <2>1. CASE LinkBreaks(s)
    BY <1>1, <2>1 DEF LinkBreaks, NetType
  <2>2. CASE net' = [net EXCEPT ![s] = [net[s] EXCEPT !["client"] = <<>>]]
    BY <1>1, <2>2 DEF NetType
  <2>3. CASE net' = net
    BY <2>3
  <2> QED
    BY <2>1, <2>2, <2>3 DEF OpenSession, ServeFails, StartClose, EndClose
<1> QED
  BY <1>3, <1>4, <1>5, MovesKeep

\* A dial gets its session, its end and its request.
LEMMA DialStepsHonest ==
  ASSUME TunnelInv, HonestInv, TunnelInv', NEW c \in Conns,
         GetByClient(c) \/ ServerConnect(c) \/ SendConnect(c)
  PROVE  HonestInv'
<1>1. /\ TypeOK /\ EndTypes /\ DialTypes /\ net \in NetType /\ EndMaps /\ ConnLife
      /\ Closings /\ "server" \in Sides /\ "client" \in Sides
      /\ "open" \notin Errors /\ "none" \notin Errors
  BY TypesSplit DEF TunnelInv, HonestInv, Sides, Errors
<1>2. CASE GetByClient(c)
  <2>1. PICK s \in clients : via' = [via EXCEPT ![c] = s]
    BY <1>2 DEF GetByClient
  <2>2. /\ dial[c] = "idle"
        /\ UNCHANGED <<serving, net, late, pending, pipe, down, conns, end, closing, closer,
                       reason, byPeer>>
        /\ DataStill
    BY <1>2 DEF GetByClient, ioVars, pipeVars, closeVars, DataStill
  <2>3. EndsMove /\ WritesMove /\ DataMove /\ ToldMoves /\ QueuesMove /\ ClosersMove
    BY <1>1, <2>2, EndsStill, StillMoves, ClosersStill
  <2>4. \A d \in Conns : d # c => via'[d] = via[d]
    BY <1>1, <2>1 DEF DialTypes
  <2>5. via[c] = NoSession /\ \A y \in Sides : end[y][c] = "none" /\ closer[y][c] = "none"
    <3>1. via[c] = NoSession /\ \A y \in Sides : end[y][c] = "none"
      BY <1>1, <2>2 DEF ConnLife, Sides
    <3>2. \A y \in Sides : MapLife(y, c) /\ CloserAt(y, c)
      BY <1>1 DEF ConnLife, Closings, ClosingAt
    <3> QED
      BY <3>1, <3>2 DEF MapLife, CloserAt
  <2>6. ClosesMove
    BY <2>2, <2>4, <2>5 DEF ClosesMove, Loops
  <2> QED
    BY <2>3, <2>6, MovesKeep
<1>3. CASE ServerConnect(c)
  <2>1. /\ dial[c] = "got"
        /\ conns' = [conns EXCEPT !["server"] = @ \cup {c}]
        /\ end' = [end EXCEPT !["server"][c] = "open"]
        /\ late' = IF serving[via[c]]["server"] = "closed" THEN late \cup {c} ELSE late
        /\ UNCHANGED <<serving, net, via, pending, pipe, down, closing, closer, reason, byPeer>>
        /\ DataStill
    BY <1>3 DEF ServerConnect, ioVars, pipeVars, closeVars, DataStill
  <2>2. \A y \in Sides, d \in Conns :
          end'[y][d] = IF y = "server" /\ d = c THEN "open" ELSE end[y][d]
    BY <1>1, <2>1, EntryChanged DEF EndTypes
  <2>3. \A y \in Sides : conns'[y] = IF y = "server" THEN conns[y] \cup {c} ELSE conns[y]
    BY <1>1, <2>1 DEF EndTypes
  <2>4. end["server"][c] = "none"
    BY <1>1, <2>1 DEF ConnLife
  <2>5. DataMove /\ ToldMoves /\ QueuesMove /\ ClosersMove
    BY <1>1, <2>1, StillMoves, ClosersStill
  <2>6. EndsMove
    <3>1. ASSUME NEW y \in Sides, NEW d \in Conns PROVE EndMoves(y, d)
      <4>1. CASE y = "server" /\ d = c
        <5>1. end[y][d] = "none" /\ end'[y][d] = "open"
          BY <2>2, <2>4, <4>1
        <5>2. serving'[via'[d]][y] # "closed" \/ d \in late'
          BY <2>1, <4>1
        <5> QED
          BY <4>1, <5>1, <5>2 DEF EndMoves
      <4>2. CASE ~(y = "server" /\ d = c)
        BY <2>2, <4>2 DEF EndMoves
      <4> QED
        BY <4>1, <4>2
    <3>2. \A y \in Sides : \A d \in conns'[y] : d \in conns[y] \/ end'[y][d] = "open"
      BY <1>1, <2>2, <2>3
    <3> QED
      BY <3>1, <3>2 DEF EndsMove
  <2>7. WritesMove
    BY <1>1, <2>1, <2>2, <2>3 DEF WritesMove, EndMaps
  <2>8. ClosesMove
    BY <2>1 DEF ClosesMove
  <2> QED
    BY <2>5, <2>6, <2>7, <2>8, MovesKeep
<1>4. CASE SendConnect(c)
  <2>1. /\ dial[c] = "inserted" /\ WriteMessage(via[c], "server", net, Connect(c))
        /\ UNCHANGED <<serving, via, late, pending, pipe, down, conns, end, closing, closer,
                       reason, byPeer>>
        /\ DataStill
    BY <1>4 DEF SendConnect, ioVars, pipeVars, closeVars, DataStill
  <2>2. via[c] \in Sessions /\ Connect(c) \in Messages
    BY <2>1, UsedSession, MessageTypes
  <2>3. /\ \A d \in Conns : ~IsEof(Connect(c), d)
        /\ Connect(c).type # "error"
    BY DEF Connect, IsEof
  <2>4. QueuesMove
    BY <1>1, <2>1, <2>2, <2>3, QueuesMoved
  <2>5. EndsMove /\ WritesMove /\ ClosesMove /\ DataMove /\ ToldMoves /\ ClosersMove
    BY <1>1, <2>1, EndsStill, StillMoves, ClosersStill
  <2> QED
    BY <2>4, <2>5, MovesKeep
<1> QED
  BY <1>2, <1>3, <1>4

\* The client takes a request, and opens its end or gives the session up.
LEMMA ServeConnectHonest ==
  ASSUME TunnelInv, HonestInv, TunnelInv', NEW s \in Sessions,
         ServeConnect(s) \/ RefuseConnect(s)
  PROVE  HonestInv'
<1>1. /\ TypeOK /\ EndTypes /\ DialTypes /\ SessionTypes /\ net \in NetType
      /\ EndMaps /\ ConnLife /\ OwnMessages /\ Closings
      /\ "client" \in Sides /\ "open" \notin Errors /\ "none" \notin Errors
  BY TypesSplit DEF TunnelInv, HonestInv, Sides, Errors
<1> DEFINE q == net[s]["client"]
           c == Head(q).conn
           n == Taken(s, "client")
<1>2. /\ q # <<>> /\ Head(q).type = "connect" /\ net' = n
      /\ serving[s]["client"] = "on" /\ ~Busy(s, "client")
      /\ UNCHANGED <<via, late, pending, down, closing, closer, reason, byPeer>> /\ DataStill
  BY DEF ServeConnect, RefuseConnect, Receives, connVars, dialVars, ioVars, pipeVars, closeVars,
    DataStill
<1>3. n \in NetType /\ Head(q) \in Messages /\ q \in Seq(Messages)
  BY <1>1, <1>2, TakenTyped DEF NetType
<1>4. c \in Conns /\ via[c] = s /\ end["client"][c] = "none"
  <2>1. Head(q) = q[1] /\ 1 \in 1..Len(q)
    BY <1>2, <1>3, QueueTail
  <2> QED
    BY <1>1, <1>2, <1>3, <2>1, MessageTypes DEF OwnMessages
<1>5. QueuesMove
  <2>1. \A d \in Conns : ~IsData(Head(net[s]["client"]), d)
    BY <1>2 DEF IsData
  <2>2. net[s]["client"] # <<>>
    BY <1>2
  <2> HIDE DEF c, q
  <2> QED
    BY <1>1, <1>2, <1>3, <2>1, <2>2, QueuesMoved
<1>6. DataMove /\ ToldMoves
  BY <1>1, <1>2, StillMoves
<1>7. CASE RefuseConnect(s)
  <2>1. /\ serving' = [serving EXCEPT ![s]["client"] = "failed"]
        /\ UNCHANGED <<conns, end, pipe>>
    BY <1>7 DEF RefuseConnect, connVars, pipeVars
  <2>2. EndsMove /\ WritesMove /\ ClosersMove
    BY <1>1, <1>2, <2>1, EndsStill, ClosersStill
  <2>3. \A r \in Sessions, y \in Sides :
          serving'[r][y] = IF r = s /\ y = "client" THEN "failed" ELSE serving[r][y]
    BY <1>1, <2>1 DEF SessionTypes
  <2>4. ClosesMove
    <3>1. ASSUME NEW y \in Sides, NEW d \in Conns, closer[y][d] \in Loops,
                 serving[via[d]][y] = "on"
          PROVE  serving'[via[d]][y] = "on"
      <4>1. ~(via[d] = s /\ y = "client")
        BY <1>2, <3>1 DEF Busy
      <4>2. CloserAt(y, d)
        BY <1>1 DEF Closings, ClosingAt
      <4>3. via[d] \in Sessions
        BY <3>1, <4>2, UsedSession DEF CloserAt, Loops
      <4> QED
        BY <2>3, <3>1, <4>1, <4>3
    <3> QED
      BY <1>2, <2>3, <3>1 DEF ClosesMove
  <2> QED
    BY <1>5, <1>6, <2>2, <2>4, MovesKeep
<1>8. CASE ServeConnect(s)
  <2>1. /\ conns' = [conns EXCEPT !["client"] = @ \cup {c}]
        /\ end' = [end EXCEPT !["client"][c] = "open"]
        /\ pipe' = [pipe EXCEPT ![c] = "dialing"]
        /\ serving' = serving
    BY <1>8 DEF ServeConnect
  <2> HIDE DEF c, q, n
  <2>2. \A y \in Sides, d \in Conns :
          end'[y][d] = IF y = "client" /\ d = c THEN "open" ELSE end[y][d]
    BY <1>1, <1>4, <2>1, EntryChanged DEF EndTypes
  <2>3. \A y \in Sides : conns'[y] = IF y = "client" THEN conns[y] \cup {c} ELSE conns[y]
    BY <1>1, <2>1 DEF EndTypes
  <2>4. \A d \in Conns : pipe'[d] = IF d = c THEN "dialing" ELSE pipe[d]
    BY <1>1, <2>1 DEF DialTypes
  <2>5. EndsMove
    <3>1. ASSUME NEW y \in Sides, NEW d \in Conns PROVE EndMoves(y, d)
      <4>1. CASE y = "client" /\ d = c
        <5>1. end[y][d] = "none" /\ end'[y][d] = "open" /\ serving'[via'[d]][y] # "closed"
          BY <1>2, <1>4, <2>1, <2>2, <4>1
        <5> QED
          BY <5>1 DEF EndMoves
      <4>2. CASE ~(y = "client" /\ d = c)
        BY <2>2, <4>2 DEF EndMoves
      <4> QED
        BY <4>1, <4>2
    <3>2. ASSUME NEW y \in Sides, NEW d \in Conns, d \in conns'[y]
          PROVE  d \in conns[y] \/ end'[y][d] = "open"
      <4>1. CASE y = "client" /\ d = c
        BY <2>2, <4>1
      <4>2. CASE ~(y = "client" /\ d = c)
        BY <2>3, <3>2, <4>2
      <4> QED
        BY <4>1, <4>2
    <3>3. \A y \in Sides : conns'[y] \subseteq Conns
      BY DEF TunnelInv, TypeOK
    <3> QED
      BY <3>1, <3>2, <3>3 DEF EndsMove
  <2>6. pipe[c] = "none"
    BY <1>1, <1>4 DEF ConnLife
  <2>7. WritesMove
    <3> SUFFICES ASSUME NEW d \in Conns
                 PROVE  /\ pending["client"][d] =>
                             /\ pipe'[d] = "copying" /\ down[d] = "on"
                             /\ end'["client"][d] = "eof" => d \notin conns'["client"]
                        /\ pipe'[d] = "closing" => end'["client"][d] \in Errors
      BY <1>2 DEF WritesMove
    <3>1. /\ pending["client"][d] =>
               /\ pipe[d] = "copying" /\ down[d] = "on"
               /\ end["client"][d] = "eof" => d \notin conns["client"]
          /\ pipe[d] = "closing" => end["client"][d] \in Errors
      BY <1>1 DEF EndMaps
    <3>2. CASE d = c
      BY <2>4, <2>6, <3>1, <3>2
    <3>3. CASE d # c
      BY <1>1, <2>2, <2>3, <2>4, <3>1, <3>3
    <3> QED
      BY <3>2, <3>3
  <2>8. ClosesMove
    BY <1>2, <2>1 DEF ClosesMove
  <2>9. ClosersMove
    <3>1. \A d \in Conns : closer["client"][d] = "pipe" => pipe[d] = "closing"
      BY <1>1 DEF Closings, ClosingAt, CloserAt
    <3> QED
      BY <1>1, <1>2, <2>4, <2>6, <3>1, ClosersStill
  <2> QED
    BY <1>5, <1>6, <2>5, <2>7, <2>8, <2>9, MovesKeep
<1> QED
  BY <1>7, <1>8

\* What the caller of Dial is owed depends on his Writes and on Close alone.
LEMMA DueStill ==
  ASSUME TypeOK, wrote'["server"] = wrote["server"], pending'["server"] = pending["server"],
         due' = due, NEW c \in Conns
  PROVE  DueMoves(c)
<1>1. Posted("server", c)' = Posted("server", c)
  BY DEF Posted
<1>2. Peer("client") = "server" /\ "client" \in Sides
  BY DEF Peer, Sides
<1>3. Posted("server", c) \in Int
  BY <1>2, CountsTyped
<1> QED
  BY <1>1, <1>3 DEF DueMoves

\* Reading and writing.
LEMMA ReadStepsHonest ==
  ASSUME TunnelInv, HonestInv, TunnelInv', NEW x \in Sides, NEW c \in Conns,
         TakeChunk(x, c),
         UNCHANGED <<serving, net, via, late, conns, end, wrote, pending, seen, pipe, up,
                     down, closing, closer, reason, byPeer, due>>
  PROVE  HonestInv'
<1>1. TypeOK /\ IoTypes /\ EndMaps /\ Closings
  BY TypesSplit DEF TunnelInv, HonestInv
<1> DEFINE g == got[x][c]
           b == buf[x][c]
           h == Append(g, Head(b))
           t == Tail(b)
<1>2. /\ b # <<>> /\ g \in Seq(Nat) /\ b \in Seq(Nat)
      /\ got' = [got EXCEPT ![x][c] = h] /\ buf' = [buf EXCEPT ![x][c] = t]
  BY <1>1 DEF TakeChunk, IoTypes
<1>3. /\ h \in Seq(Nat) /\ t \in Seq(Nat)
      /\ Len(g) \in Nat /\ Len(b) \in Nat /\ Len(h) = Len(g) + 1
      /\ Len(h) + Len(t) = Len(g) + Len(b)
  <2> HIDE DEF g, b
  <2> QED
    BY <1>2, ChunkTaken
<1> HIDE DEF h, t
<1>4. \A y \in Sides, d \in Conns : got'[y][d] = IF y = x /\ d = c THEN h ELSE got[y][d]
  <2>1. got \in [Sides -> [Conns -> Seq(Nat)]] /\ got' = [got EXCEPT ![x][c] = h]
    BY <1>1, <1>2 DEF IoTypes
  <2> QED
    BY <1>3, <2>1, EntryChanged
<1>5. \A y \in Sides, d \in Conns : buf'[y][d] = IF y = x /\ d = c THEN t ELSE buf[y][d]
  <2>1. buf \in [Sides -> [Conns -> Seq(Nat)]] /\ buf' = [buf EXCEPT ![x][c] = t]
    BY <1>1, <1>2 DEF IoTypes
  <2> QED
    BY <1>3, <2>1, EntryChanged
<1>6. ASSUME NEW y \in Sides, NEW d \in Conns PROVE DataMoves(y, d)
  <2>1. Received(y, d) \in Nat /\ Len(got[y][d]) \in Nat
    BY <1>1, CountsTyped
  <2>2. Received(y, d)' = Received(y, d) /\ Len(got'[y][d]) >= Len(got[y][d])
    <3>1. CASE y = x /\ d = c
      <4>1. got'[y][d] = h /\ buf'[y][d] = t
        BY <1>4, <1>5, <3>1
      <4>2. Received(y, d)' = Received(y, d)
        BY <1>3, <3>1, <4>1 DEF Received
      <4>3. Len(h) >= Len(g)
        BY <1>3
      <4> QED
        BY <3>1, <4>1, <4>2, <4>3
    <3>2. CASE ~(y = x /\ d = c)
      <4>1. got'[y][d] = got[y][d] /\ buf'[y][d] = buf[y][d]
        BY <1>4, <1>5, <3>2
      <4> QED
        BY <2>1, <4>1 DEF Received
    <3> QED
      BY <3>1, <3>2
  <2> QED
    BY <2>1, <2>2 DEF DataMoves
<1>7. \A d \in Conns : DueMoves(d)
  BY <1>1, DueStill
<1>8. EndsMove /\ WritesMove /\ ClosesMove /\ ToldMoves /\ QueuesMove /\ ClosersMove
  BY <1>1, EndsStill, StillMoves, ClosersStill
<1> QED
  BY <1>6, <1>7, <1>8, MovesKeep DEF DataMove

\* The steps of a Write: its chunk is counted, then posted.
LEMMA WriteStepsHonest ==
  ASSUME TunnelInv, HonestInv, TunnelInv', NEW x \in Sides, NEW c \in Conns,
         WriteCheck(x, c) \/ WriteSend(x, c)
  PROVE  HonestInv'
<1>1. /\ TypeOK /\ IoTypes /\ EndMaps /\ ConnLife /\ net \in NetType /\ Closings
      /\ "client" \in Sides /\ "server" \in Sides /\ "open" \notin Errors
  BY TypesSplit DEF TunnelInv, HonestInv, Sides, Errors
<1>2. CASE WriteCheck(x, c)
  <2>1. /\ wrote' = [wrote EXCEPT ![x][c] = @ + 1]
        /\ pending' = [pending EXCEPT ![x][c] = TRUE]
        /\ end[x][c] = "open" /\ ~pending[x][c]
        /\ x = "client" => pipe[c] = "copying" /\ down[c] = "on"
        /\ UNCHANGED <<serving, net, via, late, conns, end, buf, got, seen, pipe, up,
                       down, closing, closer, reason, byPeer, due>>
    BY <1>2 DEF WriteCheck, Writing, dialVars, pipeVars, closeVars, Sides
  <2>2. \A y \in Sides, d \in Conns :
          wrote'[y][d] = IF y = x /\ d = c THEN wrote[x][c] + 1 ELSE wrote[y][d]
    <3> DEFINE w == wrote[x][c] + 1
    <3>1. wrote \in [Sides -> [Conns -> Nat]] /\ w \in Nat
          /\ wrote' = [wrote EXCEPT ![x][c] = w]
      BY <1>1, <2>1 DEF IoTypes
    <3> HIDE DEF w
    <3>2. \A y \in Sides, d \in Conns :
            wrote'[y][d] = IF y = x /\ d = c THEN w ELSE wrote[y][d]
      BY <3>1, EntryChanged
    <3> QED
      BY <3>2 DEF w
  <2>3. \A y \in Sides, d \in Conns :
          pending'[y][d] = IF y = x /\ d = c THEN TRUE ELSE pending[y][d]
    <3> DEFINE v == TRUE
    <3>1. pending \in [Sides -> [Conns -> BOOLEAN]] /\ v \in BOOLEAN
          /\ pending' = [pending EXCEPT ![x][c] = v]
      BY <1>1, <2>1 DEF IoTypes
    <3> HIDE DEF v
    <3>2. \A y \in Sides, d \in Conns :
            pending'[y][d] = IF y = x /\ d = c THEN v ELSE pending[y][d]
      BY <3>1, EntryChanged
    <3> QED
      BY <3>2 DEF v
  <2>4. DataMove
    <3>1. ASSUME NEW y \in Sides, NEW d \in Conns PROVE DataMoves(y, d)
      <4>1. Received(y, d) \in Nat /\ Len(got[y][d]) \in Nat
        BY <1>1, CountsTyped
      <4>2. Received(y, d)' = Received(y, d)
        BY <2>1 DEF Received
      <4>3. end[y][d] \in Errors => wrote'[y][d] = wrote[y][d]
        BY <1>1, <2>1, <2>2
      <4> QED
        BY <2>1, <4>1, <4>2, <4>3 DEF DataMoves
    <3>2. ASSUME NEW d \in Conns PROVE DueMoves(d)
      <4>1. wrote["server"][d] \in Nat
        BY <1>1 DEF IoTypes
      <4>2. CASE x = "server" /\ d = c
        <5>1. Posted("server", d) = wrote["server"][d]
          BY <2>1, <4>2 DEF Posted
        <5>2. Posted("server", d)' = (wrote["server"][d] + 1) - 1
          BY <2>2, <2>3, <4>2 DEF Posted
        <5>3. Posted("server", d)' = Posted("server", d) /\ Posted("server", d) \in Int
          BY <4>1, <5>1, <5>2
        <5> QED
          BY <2>1, <5>3 DEF DueMoves
      <4>3. CASE ~(x = "server" /\ d = c)
        <5>1. wrote'["server"][d] = wrote["server"][d]
          BY <1>1, <2>2, <4>3
        <5>2. pending'["server"][d] <=> pending["server"][d]
          BY <1>1, <2>3, <4>3
        <5>3. Posted("server", d)' = Posted("server", d) /\ Posted("server", d) \in Int
          BY <4>1, <5>1, <5>2 DEF Posted
        <5> QED
          BY <2>1, <5>3 DEF DueMoves
      <4> QED
        BY <4>2, <4>3
    <3> QED
      BY <3>1, <3>2 DEF DataMove
  <2>5. WritesMove
    BY <1>1, <2>1, <2>3 DEF WritesMove, EndMaps
  <2>6. EndsMove /\ ClosesMove /\ ToldMoves /\ QueuesMove /\ ClosersMove
    BY <1>1, <2>1, EndsStill, StillMoves, ClosersStill
  <2> QED
    BY <2>4, <2>5, <2>6, MovesKeep
<1>3. CASE WriteSend(x, c)
  <2>1. /\ pending[x][c] /\ pending' = [pending EXCEPT ![x][c] = FALSE]
        /\ WriteMessage(via[c], x, net, Data(c, wrote[x][c]))
        /\ UNCHANGED <<serving, via, late, conns, end, buf, wrote, got, seen, pipe, up, down,
                       closing, closer, reason, byPeer, due>>
    BY <1>3 DEF WriteSend, dialVars, pipeVars, closeVars
  <2>2. wrote[x][c] \in Nat /\ wrote[x][c] > 0
    BY <1>1, <2>1 DEF IoTypes, ConnLife
  <2>3. via[c] \in Sessions /\ Data(c, wrote[x][c]) \in Messages
    <3>1. dial[c] = "returned"
      BY <2>2, UndialedIsEmpty
    <3> QED
      BY <2>2, <3>1, UsedSession, MessageTypes
  <2>4. /\ \A d \in Conns : ~IsEof(Data(c, wrote[x][c]), d)
        /\ Data(c, wrote[x][c]).type # "error"
    BY DEF Data, IsEof
  <2>5. QueuesMove
    BY <1>1, <2>1, <2>3, <2>4, QueuesMoved
  <2>6. \A y \in Sides, d \in Conns : pending'[y][d] => pending[y][d]
    <3> DEFINE v == FALSE
    <3>1. pending \in [Sides -> [Conns -> BOOLEAN]] /\ v \in BOOLEAN
          /\ pending' = [pending EXCEPT ![x][c] = v]
      BY <1>1, <2>1 DEF IoTypes
    <3> HIDE DEF v
    <3>2. \A y \in Sides, d \in Conns :
            pending'[y][d] = IF y = x /\ d = c THEN v ELSE pending[y][d]
      BY <3>1, EntryChanged
    <3> QED
      BY <1>1, <3>2 DEF v
  <2>7. WritesMove
    BY <1>1, <2>1, <2>6 DEF WritesMove, EndMaps
  <2>8. DataMove
    <3>1. ASSUME NEW y \in Sides, NEW d \in Conns PROVE DataMoves(y, d)
      <4>1. Received(y, d) \in Nat /\ Len(got[y][d]) \in Nat
        BY <1>1, CountsTyped
      <4>2. Received(y, d)' = Received(y, d)
        BY <2>1 DEF Received
      <4> QED
        BY <2>1, <4>1, <4>2 DEF DataMoves
    <3>2. ASSUME NEW d \in Conns PROVE DueMoves(d)
      <4>1. wrote["server"][d] \in Nat /\ wrote' = wrote
        BY <1>1, <2>1 DEF IoTypes
      <4>2. pending'["server"][d] => pending["server"][d]
        BY <1>1, <2>6
      <4>3. Posted("server", d)' >= Posted("server", d)
        BY <4>1, <4>2 DEF Posted
      <4> QED
        BY <2>1, <4>3 DEF DueMoves
    <3> QED
      BY <3>1, <3>2 DEF DataMove
  <2>9. EndsMove /\ ClosesMove /\ ToldMoves /\ ClosersMove
    BY <1>1, <2>1, EndsStill, StillMoves, ClosersStill
  <2> QED
    BY <2>5, <2>7, <2>8, <2>9, MovesKeep
<1> QED
  BY <1>2, <1>3

\* Dial's reader is told, the pipe starts, and its two copies end.
LEMMA PipeStepsHonest ==
  ASSUME TunnelInv, HonestInv, TunnelInv', NEW c \in Conns,
         ServerReadEnds(c) \/ DialTarget(c) \/ DownStep(c) \/ UpEnds(c)
  PROVE  HonestInv'
<1>1. /\ TypeOK /\ EndTypes /\ IoTypes /\ DialTypes /\ EndMaps /\ ConnLife /\ Closings
      /\ "server" \in Sides /\ "client" \in Sides
      /\ "open" \notin Errors /\ "none" \notin Errors /\ "err" \in Errors
  BY TypesSplit DEF TunnelInv, HonestInv, Sides, Errors
<1>2. \A y \in Sides, d \in Conns : Received(y, d) \in Nat /\ Len(got[y][d]) \in Nat
  BY <1>1, CountsTyped
<1>3. ASSUME NEW v \in Errors, NEW x \in Sides, seen' = [seen EXCEPT ![x][c] = v]
      PROVE  \A y \in Sides, d \in Conns :
               seen'[y][d] = IF y = x /\ d = c THEN v ELSE seen[y][d]
  <2>1. seen \in [Sides -> [Conns -> {"none"} \cup Errors]] /\ v \in {"none"} \cup Errors
    BY <1>1 DEF IoTypes
  <2> QED
    BY <1>3, <2>1, EntryChanged
<1>4. CASE ServerReadEnds(c)
  <2>1. /\ buf["server"][c] = <<>> /\ end["server"][c] \in Errors
        /\ seen' = [seen EXCEPT !["server"][c] = end["server"][c]]
        /\ UNCHANGED <<serving, net, via, late, conns, end, buf, wrote, pending, got, pipe,
                       up, down, closing, closer, reason, byPeer, due>>
    BY <1>4 DEF ServerReadEnds, Drained, dialVars, pipeVars, closeVars
  <2>2. \A y \in Sides, d \in Conns :
          seen'[y][d] = IF y = "server" /\ d = c THEN end["server"][c] ELSE seen[y][d]
    BY <1>1, <1>3, <2>1
  <2>3. ASSUME NEW y \in Sides, NEW d \in Conns PROVE DataMoves(y, d)
    <3>1. Received(y, d)' = Received(y, d)
      BY <2>1 DEF Received
    <3>2. \/ seen'[y][d] = seen[y][d]
          \/ /\ buf[y][d] = <<>> /\ end[y][d] \in Errors /\ seen'[y][d] = end[y][d]
             /\ y = "server"
      BY <2>1, <2>2
    <3> QED
      BY <1>2, <2>1, <3>1, <3>2 DEF DataMoves
  <2>4. \A d \in Conns : DueMoves(d)
    BY <1>1, <2>1, DueStill
  <2>5. EndsMove /\ WritesMove /\ ClosesMove /\ ToldMoves /\ QueuesMove /\ ClosersMove
    BY <1>1, <2>1, EndsStill, StillMoves, ClosersStill
  <2> QED
    BY <2>3, <2>4, <2>5, MovesKeep DEF DataMove
<1>5. CASE DialTarget(c)
  <2>1. /\ pipe[c] = "dialing" /\ pipe' = [pipe EXCEPT ![c] = "copying"]
        /\ UNCHANGED <<serving, net, via, late, conns, end, pending, down, closing, closer,
                       reason, byPeer>>
        /\ DataStill
    BY <1>5 DEF DialTarget, ioVars, dialVars, closeVars, DataStill
  <2>2. WritesMove
    BY <1>1, <2>1 DEF WritesMove, EndMaps, DialTypes
  <2>3. EndsMove /\ ClosesMove /\ DataMove /\ ToldMoves /\ QueuesMove /\ ClosersMove
    <3>1. \A d \in Conns : closer["client"][d] = "pipe" => pipe[d] = "closing"
      BY <1>1 DEF Closings, ClosingAt, CloserAt
    <3>2. \A d \in Conns : pipe'[d] = IF d = c THEN "copying" ELSE pipe[d]
      BY <1>1, <2>1 DEF DialTypes
    <3> QED
      BY <1>1, <2>1, <3>1, <3>2, EndsStill, StillMoves, ClosersStill
  <2> QED
    BY <2>2, <2>3, MovesKeep
<1>6. ASSUME NEW e \in Errors, DownEnds(c, e) PROVE HonestInv'
  <2>1. /\ down' = [down EXCEPT ![c] = e]
        /\ pending' = [pending EXCEPT !["client"][c] = FALSE]
        /\ DoTunnelClose("client", c, e)
        /\ UNCHANGED <<serving, net, via, late, conns, buf, wrote, got, seen, pipe, up,
                       closing, closer, reason, byPeer, due>>
    BY <1>6 DEF DownEnds, dialVars, closeVars
  <2>2. \A y \in Sides, d \in Conns :
          end'[y][d] = IF y = "client" /\ d = c /\ end["client"][c] = "open" THEN e
                       ELSE end[y][d]
    BY <1>1, <2>1, CloseTyped
  <2>3. /\ ~pending'["client"][c]
        /\ \A d \in Conns : d # c => pending'["client"][d] = pending["client"][d]
        /\ pending'["server"] = pending["server"]
    <3> DEFINE v == FALSE
    <3>1. pending \in [Sides -> [Conns -> BOOLEAN]] /\ v \in BOOLEAN
          /\ pending' = [pending EXCEPT !["client"][c] = v]
      BY <1>1, <2>1 DEF IoTypes
    <3> HIDE DEF v
    <3>2. \A y \in Sides, d \in Conns :
            pending'[y][d] = IF y = "client" /\ d = c THEN v ELSE pending[y][d]
      BY <1>1, <3>1, EntryChanged
    <3>3. pending'["client"][c] = v /\ \A d \in Conns : d # c => pending'["client"][d] = pending["client"][d]
      BY <1>1, <3>2
    <3>4. pending'["server"] = pending["server"]
      BY <3>1
    <3> QED
      BY <3>3, <3>4 DEF v
  <2>4. EndsMove
    <3>1. \A y \in Sides, d \in Conns : EndMoves(y, d)
      BY <2>2 DEF EndMoves
    <3> QED
      BY <2>1, <3>1 DEF EndsMove
  <2>5. WritesMove
    <3> SUFFICES ASSUME NEW d \in Conns
                 PROVE  /\ pending'["client"][d] =>
                             /\ pipe[d] = "copying" /\ down'[d] = "on"
                             /\ end'["client"][d] = "eof" => d \notin conns["client"]
                             /\ pending["client"][d]
                        /\ pipe[d] = "closing" => end'["client"][d] \in Errors
      BY <2>1 DEF WritesMove
    <3>1. /\ pending["client"][d] =>
               /\ pipe[d] = "copying" /\ down[d] = "on"
               /\ end["client"][d] = "eof" => d \notin conns["client"]
          /\ pipe[d] = "closing" => end["client"][d] \in Errors
      BY <1>1 DEF EndMaps
    <3>2. CASE d = c
      BY <1>1, <1>6, <2>2, <2>3, <3>1, <3>2 DEF DownEnds
    <3>3. CASE d # c
      <4>1. down'[d] = down[d] /\ end'["client"][d] = end["client"][d]
        BY <1>1, <2>1, <2>2, <3>3 DEF DialTypes
      <4> QED
        BY <2>3, <3>1, <3>3, <4>1
    <3> QED
      BY <3>2, <3>3
  <2>6. ClosesMove
    BY <2>1 DEF ClosesMove
  <2>7. DataMove /\ ToldMoves /\ QueuesMove /\ ClosersMove
    <3>1. DataStill
      BY <2>1, <2>3 DEF DataStill
    <3> QED
      BY <1>1, <2>1, <3>1, StillMoves, ClosersStill
  <2> QED
    BY <2>4, <2>5, <2>6, <2>7, MovesKeep
<1>7. CASE UpEnds(c)
  <2>1. /\ pipe[c] = "copying" /\ up[c] = "on"
        /\ up' = [up EXCEPT ![c] = "done"]
        /\ UNCHANGED <<serving, net, via, late, conns, wrote, pending, pipe, down, got,
                       closing, closer, reason, byPeer, due>>
    BY <1>7 DEF UpEnds, dialVars, closeVars
  <2>2. \A d \in Conns : up'[d] = IF d = c THEN "done" ELSE up[d]
    BY <1>1, <2>1 DEF DialTypes
  <2>3. /\ ClosesMove /\ ToldMoves /\ QueuesMove /\ ClosersMove
        /\ \A d \in Conns : DueMoves(d)
    BY <1>1, <2>1, StillMoves, ClosersStill, DueStill DEF ClosesMove
  <2>4. CASE /\ Drained("client", c)
             /\ seen' = [seen EXCEPT !["client"][c] = end["client"][c]]
             /\ UNCHANGED <<buf, end>>
    <3>1. buf["client"][c] = <<>> /\ end["client"][c] \in Errors
      BY <2>4 DEF Drained
    <3>2. \A y \in Sides, d \in Conns :
            seen'[y][d] = IF y = "client" /\ d = c THEN end["client"][c] ELSE seen[y][d]
      BY <1>1, <1>3, <2>4, <3>1
    <3>3. ASSUME NEW y \in Sides, NEW d \in Conns PROVE DataMoves(y, d)
      <4>1. Received(y, d)' = Received(y, d)
        BY <2>1, <2>4 DEF Received
      <4>2. \/ seen'[y][d] = seen[y][d]
            \/ /\ buf[y][d] = <<>> /\ end[y][d] \in Errors /\ seen'[y][d] = end[y][d]
               /\ up[d] = "on"
        BY <2>1, <3>1, <3>2
      <4> QED
        BY <1>2, <2>1, <2>2, <4>1, <4>2 DEF DataMoves
    <3>4. EndsMove /\ WritesMove
      BY <1>1, <2>1, <2>4, EndsStill
    <3> QED
      BY <2>3, <3>3, <3>4, MovesKeep DEF DataMove
  <2>5. CASE /\ buf["client"][c] # <<>>
             /\ buf' = [buf EXCEPT !["client"][c] = Tail(@)]
             /\ DoTunnelClose("client", c, "err")
             /\ UNCHANGED seen
    <3>1. \A y \in Sides, d \in Conns :
            end'[y][d] = IF y = "client" /\ d = c /\ end["client"][c] = "open" THEN "err"
                         ELSE end[y][d]
      BY <1>1, <2>5, CloseTyped
    <3>2. end'["client"][c] \in Errors
      <4>1. end["client"][c] # "none" /\ end["client"][c] \in {"none", "open"} \cup Errors
        BY <1>1, <2>1 DEF ConnLife, EndTypes
      <4> QED
        BY <1>1, <3>1, <4>1
    <3>3. \A y \in Sides, d \in Conns : ~(y = "client" /\ d = c) => buf'[y][d] = buf[y][d]
      <4> DEFINE t == Tail(buf["client"][c])
      <4>1. buf \in [Sides -> [Conns -> Seq(Nat)]] /\ buf["client"][c] \in Seq(Nat)
        BY <1>1 DEF IoTypes
      <4>2. t \in Seq(Nat)
        BY <2>5, <4>1
      <4>3. buf' = [buf EXCEPT !["client"][c] = t]
        BY <2>5
      <4> HIDE DEF t
      <4> QED
        BY <1>1, <4>1, <4>2, <4>3, EntryChanged
    <3>4. ASSUME NEW y \in Sides, NEW d \in Conns PROVE DataMoves(y, d)
      <4>1. CASE y = "client" /\ d = c
        BY <1>2, <2>1, <2>2, <2>5, <3>2, <4>1 DEF DataMoves
      <4>2. CASE ~(y = "client" /\ d = c)
        <5>1. Received(y, d)' = Received(y, d)
          BY <2>1, <3>3, <4>2 DEF Received
        <5> QED
          BY <1>2, <2>1, <2>2, <2>5, <5>1 DEF DataMoves
      <4> QED
        BY <4>1, <4>2
    <3>5. EndsMove
      <4>1. \A y \in Sides, d \in Conns : EndMoves(y, d)
        BY <1>1, <3>1 DEF EndMoves
      <4> QED
        BY <2>1, <4>1 DEF EndsMove
    <3>6. WritesMove
      <4> SUFFICES ASSUME NEW d \in Conns
                   PROVE  /\ pending["client"][d] =>
                               /\ pipe[d] = "copying" /\ down[d] = "on"
                               /\ end'["client"][d] = "eof" => d \notin conns["client"]
                          /\ pipe[d] = "closing" => end'["client"][d] \in Errors
        BY <2>1 DEF WritesMove
      <4>1. end'["client"][d] = "eof" => end["client"][d] = "eof"
        BY <1>1, <3>1
      <4>2. end["client"][d] \in Errors => end'["client"][d] \in Errors
        BY <1>1, <3>1
      <4> QED
        BY <1>1, <4>1, <4>2 DEF EndMaps
    <3> QED
      BY <2>3, <3>4, <3>5, <3>6, MovesKeep DEF DataMove
  <2> QED
    BY <1>7, <2>4, <2>5 DEF UpEnds
<1> QED
  BY <1>4, <1>5, <1>6, <1>7 DEF DownStep

\* Every step keeps the invariant.
LEMMA HonestStep ==
  ASSUME TunnelInv, HonestInv, [Next]_vars
  PROVE  HonestInv'
<1>1. TunnelInv' /\ "server" \in Sides /\ "client" \in Sides
  BY StepInv DEF Sides
<1>2. CASE UNCHANGED vars
  <2>1. UNCHANGED <<serving, net, via, late, conns, end, pending, pipe, down, closing, closer,
                    reason, byPeer>>
        /\ DataStill
    BY <1>2 DEF vars, DataStill
  <2>2. EndsMove /\ WritesMove /\ ClosesMove /\ ClosersMove /\ DataMove /\ ToldMoves
        /\ QueuesMove
    BY <2>1, EndsStill, StillMoves, ClosersStill DEF TunnelInv, HonestInv
  <2> QED
    BY <1>1, <2>2, MovesKeep
<1>3. ASSUME NEW s \in Sessions,
             \/ OpenSession(s) \/ LinkBreaks(s) \/ ClientServe(s)
             \/ \E x \in Sides : ServeFails(s, x) \/ SessionStep(s, x)
      PROVE  HonestInv'
  <2>1. CASE OpenSession(s) \/ LinkBreaks(s)
    BY <1>1, <2>1, SessionStepsHonest
  <2>2. CASE ClientServe(s)
    BY <1>1, <2>2, ServeConnectHonest DEF ClientServe
  <2>3. ASSUME NEW x \in Sides, ServeFails(s, x) \/ SessionStep(s, x) PROVE HonestInv'
    <3>1. CASE ServeFails(s, x) \/ StartClose(s, x) \/ EndClose(s, x)
      BY <1>1, <3>1, SessionStepsHonest
    <3>2. CASE \E c \in Conns : CloseOne(s, x, c)
      BY <1>1, <3>2, CloseOneHonest
    <3> QED
      BY <1>1, <2>3, <3>1, <3>2, ServeDataHonest, ServeErrorHonest DEF SessionStep
  <2> QED
    BY <1>3, <2>1, <2>2, <2>3
<1>4. ASSUME NEW c \in Conns,
             \/ GetByClient(c) \/ DialStep(c)
             \/ ServerRead(c) \/ ServerReadEnds(c) \/ ServerClose(c)
             \/ DialTargetStep(c) \/ DownStep(c) \/ UpStep(c)
             \/ PipeWriteErr(c) \/ PipeClose(c)
             \/ \E x \in Sides : WriteCheck(x, c) \/ WriteSend(x, c) \/ CloseStep(x, c)
      PROVE  HonestInv'
  <2>1. CASE GetByClient(c) \/ ServerConnect(c) \/ SendConnect(c)
    BY <1>1, <2>1, DialStepsHonest
  <2>2. CASE SendConnectFails(c) \/ ServerClose(c) \/ PipeClose(c)
    BY <1>1, <2>2, CallersHonest
  <2>3. CASE ServerReadEnds(c) \/ DialTarget(c) \/ DownStep(c) \/ UpEnds(c)
    BY <1>1, <2>3, PipeStepsHonest
  <2>4. CASE ServerRead(c)
    BY <1>1, <2>4, ReadStepsHonest DEF ServerRead, dialVars, pipeVars, closeVars
  <2>5. CASE UpCopies(c)
    BY <1>1, <2>5, ReadStepsHonest DEF UpCopies, dialVars, pipeVars, closeVars
  <2>6. ASSUME NEW x \in Sides, WriteCheck(x, c) \/ WriteSend(x, c) PROVE HonestInv'
    BY <1>1, <2>6, WriteStepsHonest
  <2>7. ASSUME NEW x \in Sides, CloseStep(x, c) PROVE HonestInv'
    BY <1>1, <2>7, CloseStepHonest
  <2>8. CASE DialTargetFails(c) \/ RefuseShuts(c) \/ PipeWriteErr(c)
    BY <1>1, <2>8, PipeTellsHonest
  <2> QED
    BY <1>4, <2>1, <2>2, <2>3, <2>4, <2>5, <2>6, <2>7, <2>8 DEF DialStep, DialTargetStep, UpStep
<1> QED
  BY <1>2, <1>3, <1>4 DEF Next

\* At the start nobody has been told anything.
LEMMA HonestInit == Init => HonestInv
<1> SUFFICES ASSUME Init PROVE HonestInv
  OBVIOUS
<1>1. EndMaps /\ SeenIsEnd /\ EofTold /\ ClosedSessionClosesConns
  BY DEF Init, EndMaps, SeenIsEnd, EofTold, ToldAt, ClosedSessionClosesConns, Sides, Errors,
    Posted
<1>2. EofSent /\ ErrorsOwn
  <2>1. \A s \in Sessions, x \in Sides : net[s][x] = <<>>
    BY DEF Init
  <2> QED
    BY <2>1 DEF EofSent, ErrorsOwn
<1>3. Closings
  <2>1. \A y \in Sides, c \in Conns : closing[y][c] = "none" /\ closer[y][c] = "none"
    BY DEF Init
  <2> QED
    BY <2>1 DEF Closings, ClosingAt, CloserAt, ReadyAt, TellingAt, Loops
<1> QED
  BY <1>1, <1>2, <1>3 DEF HonestInv

\* A reader with nothing left to receive has read all that was owed.
LEMMA HonestIsHonest ==
  ASSUME TunnelInv, HonestInv
  PROVE  EndsHonest
<1>1. EOFMeansAll
  <2> SUFFICES ASSUME NEW x \in Sides, NEW c \in Conns, seen[x][c] = "eof",
                      <<x, c>> \in byPeer
               PROVE  IF x = "server" THEN Len(got[x][c]) = wrote["client"][c]
                                      ELSE Len(got[x][c]) >= due[c]
    BY DEF EOFMeansAll
  <2>1. TypeOK /\ InOrder
    BY DEF TunnelInv
  <2>2. Owed(Peer(x), c) <= Len(got[x][c])
    BY DEF HonestInv, SeenIsEnd, EofTold, ToldAt
  <2> DEFINE g == Len(got[x][c])
             b == Len(buf[x][c])
             u == wrote["client"][c]
             w == due[c]
  <2>3. g \in Nat /\ b \in Nat /\ u \in Nat /\ w \in Nat
    BY <2>1, CountsTyped DEF TypeOK, Sides
  <2>4. CASE x = "server"
    <3>1. Peer(x) = "client" /\ u <= g
      BY <2>2, <2>4 DEF Peer, Owed
    <3>2. g + b <= u
      BY <2>1, <2>4, <3>1 DEF InOrder, Received
    <3> HIDE DEF g, b, u
    <3>3. g = u
      BY <2>3, <3>1, <3>2
    <3> QED
      BY <2>4, <3>3 DEF g, u
  <2>5. CASE x = "client"
    <3>1. w <= g
      BY <2>2, <2>5 DEF Peer, Owed
    <3> HIDE DEF g, w
    <3>2. g >= w
      BY <2>3, <3>1
    <3> QED
      BY <2>5, <3>2 DEF g, w
  <2> QED
    BY <2>4, <2>5 DEF Sides
<1> QED
  BY <1>1 DEF EndsHonest, HonestInv

\* Whatever an end is told of the other is true, at every point of the steps in
\* which closeConnection and tunnelClose close an end (session.go, connection.go): a
\* reader that the peer gave io.EOF has read all that the target sent, or all that was
\* written before Close was called, and a session that has closed leaves no end open,
\* except one inserted afterwards or one that the caller of Dial is still closing.
THEOREM EndsAreHonest == Spec => []EndsHonest
<1>1. Init => HonestInv
  BY HonestInit
<1>2. TunnelInv /\ HonestInv /\ [Next]_vars => HonestInv'
  BY HonestStep
<1>3. TunnelInv /\ HonestInv => EndsHonest
  BY HonestIsHonest
<1> QED
  BY <1>1, <1>2, <1>3, TunnelInvariant, PTL DEF Spec
====
