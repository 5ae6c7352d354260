----------------------------- MODULE StreamProofs -----------------------------
(***************************************************************************)
(* The safety of the stream futures for any number of descriptors, any     *)
(* buffer and any amount of data, with or without memory for the readiness *)
(* futures.                                                                *)
(***************************************************************************)
EXTENDS Stream, SequenceTheorems, TLAPS

(* What kind of socket each handle has, and which handles are empty: a     *)
(* handle in use as out is, and the stream inside connect_box is there     *)
(* while the connect is PENDING and, Unconnected, in its first poll.       *)
SockOf(h) == CASE h = "lis" -> "listening" [] h = "srv" -> "server" [] OTHER -> "client"

Unconnected == handle["box"] # NoFd /\ phase["connect"] = "new"

Handles ==
  /\ FdsAccounted
  /\ \A h \in Handle : handle[h] # NoFd => sock[handle[h]] = SockOf(h)
  /\ phase["accept"] \in {"new", "pending"} => handle["srv"] = NoFd
  /\ phase["connect"] \in {"new", "pending"} => handle["cli"] = NoFd
  /\ phase["connect"] = "pending" => handle["box"] # NoFd
  /\ handle["box"] # NoFd => phase["connect"] \in {"new", "pending"}
  /\ Unconnected => cur = "connect" /\ "connect" \notin awaiting

(* A future that awaits has a handle to wait on and is inside its poll     *)
(* unless it is PENDING; the wakers are those of the armed ones.           *)
Waits(o) == o \in awaiting /\ readiness[o] = "armed"

Waiters ==
  /\ cur # NoOp => phase[cur] \in {"new", "pending"}
  /\ \A o \in Op : o \in awaiting => phase[o] = "pending" \/ (phase[o] = "new" /\ cur = o)
  /\ \A o \in Op : phase[o] = "pending" \/ o \in awaiting => handle[On(o)] # NoFd
  /\ \A o \in Op : phase[o] = "pending" /\ cur # o =>
       Waits(o) /\ (o \in woken \/ waiter[handle[On(o)]] = o)
  /\ \A d \in Fd, o \in Op : waiter[d] = o =>
       handle[On(o)] = d /\ Waits(o) /\ phase[o] = "pending"

(* The connection and its two ends.  It is not open to a connect before    *)
(* the kernel has answered, which the connect waits for.                   *)
Connection ==
  /\ Has("server") <=> link = "open"
  /\ Has("client") => link # "none" \/ Unconnected
  /\ phase["connect"] = "new" => link = "none"
  /\ link = "syn" => /\ phase["connect"] = "pending" /\ "connect" \in awaiting
                     /\ readiness["connect"] = "armed" => waiter[handle["box"]] = "connect"
  /\ link \notin {"queued", "open"} => chan = <<>>

(* The bytes are numbered; a write in progress has reported all but the    *)
(* off bytes of its own that the kernel has taken.                         *)
Numbered(r, c) == /\ \A i \in 1 .. Len(r) : r[i] = i
                  /\ \A i \in 1 .. Len(c) : c[i] = Len(r) + i

Bytes ==
  /\ Numbered(recv, chan)
  /\ link \in {"queued", "open"} /\ known => Len(recv) + Len(chan) = sent + off
  /\ phase["write"] = "none" => off = 0
  /\ phase["write"] \in {"new", "pending"} =>
       known /\ len # 0 /\ off <= len /\ sent + len <= Len0
  /\ phase["connect"] \in {"new", "pending"} => recv = <<>> /\ sent = 0 /\ off = 0 /\ known

StreamInv == TypeOK /\ Handles /\ Waiters /\ Connection /\ Bytes


-----------------------------------------------------------------------------
(* Each future has a handle of its own.                                    *)
LEMMA OnFacts ==
  /\ On("accept") = "lis" /\ On("connect") = "box" /\ On("write") = "cli" /\ On("read") = "srv"
  /\ \A o \in Op : On(o) \in Handle
  /\ \A o, p \in Op : On(o) = On(p) => o = p
BY DEF On, Op, Handle

(* A write appends the next n bytes; a read moves the first n of those     *)
(* that are there.                                                         *)
LEMMA WrittenLemma ==
  ASSUME NEW L \in Nat, NEW r \in Seq(1 .. L), NEW c \in Seq(1 .. L), Numbered(r, c),
         NEW k \in Nat, k = Len(r) + Len(c), NEW n \in Nat, k + n <= L
  PROVE  LET w == c \o [i \in 1 .. n |-> k + i]
         IN  w \in Seq(1 .. L) /\ Len(w) = Len(c) + n /\ Numbered(r, w)
<1> DEFINE v == [i \in 1 .. n |-> k + i]
           w == c \o v
<1>1. v \in Seq(1 .. L) /\ Len(v) = n /\ \A i \in 1 .. n : v[i] = k + i
  OBVIOUS
<1> HIDE DEF v
<1>2. w \in Seq(1 .. L)
  BY <1>1, ConcatProperties
<1>2a. Len(w) = Len(c) + n
  BY <1>1, ConcatProperties
<1>3. \A i \in 1 .. Len(w) : w[i] = IF i <= Len(c) THEN c[i] ELSE v[i - Len(c)]
  BY <1>1
<1> HIDE DEF w
<1>4. ASSUME NEW i \in 1 .. Len(w) PROVE w[i] = Len(r) + i
  <2>1. CASE i <= Len(c)
    <3>1. w[i] = c[i]
      BY <1>3, <2>1
    <3>2. i \in 1 .. Len(c)
      BY <2>1, <1>2
    <3> QED BY <3>1, <3>2 DEF Numbered
  <2>2. CASE i > Len(c)
    <3>1. i - Len(c) \in 1 .. n
      BY <1>2, <1>2a, <2>2
    <3> QED BY <1>1, <1>3, <2>2, <3>1
  <2> QED BY <2>1, <2>2
<1> QED BY <1>2, <1>2a, <1>4 DEF Numbered, w, v

LEMMA ReadLemma ==
  ASSUME NEW S, NEW r \in Seq(S), NEW c \in Seq(S), Numbered(r, c), NEW n \in 1 .. Len(c)
  PROVE  LET q == r \o SubSeq(c, 1, n)
             d == SubSeq(c, n + 1, Len(c))
         IN  /\ q \in Seq(S) /\ d \in Seq(S) /\ Numbered(q, d)
             /\ Len(q) + Len(d) = Len(r) + Len(c)
<1> DEFINE a == SubSeq(c, 1, n)
           d == SubSeq(c, n + 1, Len(c))
           q == r \o a
<1>1. a \in Seq(S) /\ Len(a) = n /\ \A i \in 1 .. n : a[i] = c[i]
  OBVIOUS
<1>2. d \in Seq(S) /\ Len(d) = Len(c) - n /\ \A i \in 1 .. Len(d) : d[i] = c[i + n]
  OBVIOUS
<1> HIDE DEF a, d
<1>3. q \in Seq(S) /\ Len(q) = Len(r) + n
  BY <1>1
<1>4. \A i \in 1 .. Len(q) : q[i] = IF i <= Len(r) THEN r[i] ELSE a[i - Len(r)]
  BY <1>1
<1> HIDE DEF q
<1>5. ASSUME NEW i \in 1 .. Len(q) PROVE q[i] = i
  <2>1. CASE i <= Len(r)
    BY <1>3, <1>4, <2>1 DEF Numbered
  <2>2. CASE i > Len(r)
    <3>1. i - Len(r) \in 1 .. n /\ i - Len(r) \in 1 .. Len(c)
      BY <1>3, <2>2
    <3>2. c[i - Len(r)] = Len(r) + (i - Len(r))
      BY <3>1 DEF Numbered
    <3> QED BY <1>1, <1>4, <2>2, <3>1, <3>2
  <2> QED BY <2>1, <2>2
<1>6. ASSUME NEW i \in 1 .. Len(d) PROVE d[i] = Len(q) + i
  <2>1. i + n \in 1 .. Len(c)
    BY <1>2
  <2>2. c[i + n] = Len(r) + (i + n)
    BY <2>1 DEF Numbered
  <2> QED BY <1>2, <1>3, <2>2
<1>7. Len(q) + Len(d) = Len(r) + Len(c)
  BY <1>2, <1>3
<1> QED BY <1>2, <1>3, <1>5, <1>6, <1>7 DEF Numbered, q, a, d

LEMMA NumberedConcat ==
  ASSUME NEW S, NEW r \in Seq(S), NEW c \in Seq(S), Numbered(r, c), NEW i \in 1 .. Len(r \o c)
  PROVE  (r \o c)[i] = i
<1>1. i \in 1 .. Len(r) + Len(c) /\ (r \o c)[i] = IF i <= Len(r) THEN r[i] ELSE c[i - Len(r)]
  BY ConcatProperties
<1>2. CASE i <= Len(r)
  <2>1. i \in 1 .. Len(r)
    BY <1>2
  <2> QED BY <1>1, <1>2, <2>1 DEF Numbered
<1>3. CASE i > Len(r)
  <2>1. i - Len(r) \in 1 .. Len(c)
    BY <1>1, <1>3
  <2>2. c[i - Len(r)] = Len(r) + (i - Len(r))
    BY <2>1 DEF Numbered
  <2> QED BY <1>1, <1>3, <2>2
<1> QED BY <1>2, <1>3

(* close, with the handle emptied: what it does to the connection.         *)
Closing(h) ==
  /\ link' \in {"none", "syn", "queued", "open", "dead"}
  /\ chan' \in Seq(1 .. Len0) /\ chan' \in {chan, <<>>}
  /\ link' \in {"syn", "queued", "open"} => link' = link /\ chan' = chan
  /\ link' \notin {"queued", "open"} => chan' = <<>>
  /\ link' = "syn" => h \notin {"lis", "box"}
  /\ link = "none" => link' = "none"
  /\ Has("server")' <=> link' = "open"
  /\ Has("client")' => link' # "none"

LEMMA FdCloseLemma ==
  ASSUME TypeOK, Handles, Connection, NEW h \in Handle, handle[h] # NoFd, FdClose(h),
         cur = NoOp \/ h = "box"
  PROVE  Closing(h)
<1> USE StreamAssumption DEF TypeOK, Fd, NoFd, NoOp, Handle, FdClose, Close, IoRemove, Closing
<1> DEFINE d == handle[h]
<1>1. d \in Fd /\ sock[d] = SockOf(h) /\ sock' = [sock EXCEPT ![d] = "free"]
  BY DEF Handles
<1>2. \A e \in Fd : sock[e] = "server" => e = handle["srv"]
  BY DEF Handles, Unconnected, FdsAccounted, SockOf
<1>3. ASSUME NEW e \in Fd, NEW f \in Fd, sock[e] = "client", sock[f] = "client"
      PROVE  e = f
  <2>1. \A x \in Fd : sock[x] = "client" => handle["cli"] = x \/ handle["box"] = x
    BY DEF Handles, Unconnected, FdsAccounted, SockOf
  <2>2. handle["cli"] = NoFd \/ handle["box"] = NoFd
    BY DEF Handles
  <2>3. e # NoFd /\ f # NoFd
    OBVIOUS
  <2> QED BY <1>3, <2>1, <2>2, <2>3
<1>4. \A s \in {"server", "client"} : Has(s)' <=> \E e \in Fd : e # d /\ sock[e] = s
  BY <1>1 DEF Has
<1>5. chan' \in Seq(1 .. Len0) /\ chan' \in {chan, <<>>}
  <2>1. chan' = chan \/ chan' = <<>>
    OBVIOUS
  <2>2. <<>> \in Seq(1 .. Len0)
    OBVIOUS
  <2> QED BY <2>1, <2>2
<1>6. CASE h = "lis"
  <2>1. sock[d] = "listening"
    BY <1>1, <1>6 DEF SockOf
  <2>2. (Has("server")' <=> Has("server")) /\ (Has("client")' <=> Has("client"))
    BY <1>4, <2>1 DEF Has
  <2>3. ~Unconnected
    BY <1>6 DEF Handles
  <2> QED BY <1>5, <1>6, <2>1, <2>2, <2>3 DEF AfterClose, Connection
<1>7. CASE h = "srv"
  <2>1. sock[d] = "server"
    BY <1>1, <1>7 DEF SockOf
  <2>2. Has("server") /\ ~Has("server")' /\ (Has("client")' <=> Has("client"))
    BY <1>1, <1>2, <1>4, <2>1 DEF Has
  <2>3. ~Unconnected
    BY <1>7 DEF Handles
  <2> QED BY <1>5, <1>7, <2>1, <2>2, <2>3 DEF AfterClose, Connection
<1>8. CASE h \in {"cli", "box"}
  <2>1. sock[d] = "client"
    BY <1>1, <1>8 DEF SockOf
  <2>2. (Has("server")' <=> Has("server")) /\ ~Has("client")'
    BY <1>1, <1>3, <1>4, <2>1 DEF Has
  <2>3. link = "syn" => h = "box"
    BY <1>8 DEF Connection, Handles
  <2> QED BY <1>5, <1>8, <2>1, <2>2, <2>3 DEF AfterClose, Connection
<1> QED BY <1>6, <1>7, <1>8

(* It loses no byte that the server could still read.                      *)
LEMMA ClosingBytes ==
  ASSUME StreamAssumption, TypeOK, Bytes, NEW h \in Handle, Closing(h), UNCHANGED dataVars,
         phase'["write"] = phase["write"],
         phase'["connect"] \in {phase["connect"], "ready", "none"}
  PROVE  Bytes'
<1> USE DEF TypeOK, dataVars, Bytes, Closing, Numbered
<1>1. CASE link' \in {"queued", "open"}
  BY <1>1
<1>2. CASE link' \notin {"queued", "open"}
  BY <1>2
<1> QED BY <1>1, <1>2

LEMMA ReadSomeBytes ==
  ASSUME StreamInv, ReadSome
  PROVE  \E q \in Seq(1 .. Len0), c \in Seq(1 .. Len0) :
           recv' = q /\ chan' = c /\ Numbered(q, c) /\ Len(q) + Len(c) = Len(recv) + Len(chan)
<1>1. PICK n \in 1 .. Len(chan) : /\ recv' = recv \o SubSeq(chan, 1, n)
                                  /\ chan' = SubSeq(chan, n + 1, Len(chan))
  BY DEF ReadSome
<1> DEFINE q == recv \o SubSeq(chan, 1, n)
           c == SubSeq(chan, n + 1, Len(chan))
<1>2. recv \in Seq(1 .. Len0) /\ chan \in Seq(1 .. Len0) /\ Numbered(recv, chan)
  BY DEF StreamInv, TypeOK, Bytes
<1>3. /\ q \in Seq(1 .. Len0) /\ c \in Seq(1 .. Len0) /\ Numbered(q, c)
      /\ Len(q) + Len(c) = Len(recv) + Len(chan)
  BY <1>2, ReadLemma
<1>4. recv' = q /\ chan' = c
  BY <1>1
<1> HIDE DEF q, c
<1> QED BY <1>3, <1>4

-----------------------------------------------------------------------------
(* Every action preserves the invariant.                                   *)
USE StreamAssumption, OnFacts DEF StreamInv, TypeOK, Fd, NoFd, Handle, Op, NoOp,
      fdVars, opVars, dataVars, kernVars

LEMMA NetListenInv ==
  ASSUME StreamInv, NetListen
  PROVE  StreamInv'
<1> USE DEF NetListen, NewFd
<1>1. TypeOK'
  OBVIOUS
<1>2. Handles'
  BY DEF Handles, Unconnected, FdsAccounted, SockOf
<1>3. Waiters'
  BY DEF Handles, FdsAccounted, Waiters, Waits
<1>4. Connection'
  BY DEF Handles, Unconnected, FdsAccounted, SockOf, Waiters, Waits, Connection, Has
<1>5. Bytes'
  BY DEF Handles, Connection, Has, FdsAccounted, Bytes
<1> QED BY <1>1, <1>2, <1>3, <1>4, <1>5

LEMMA NetEstablishInv ==
  ASSUME StreamInv, NetEstablish
  PROVE  StreamInv'
<1> USE DEF NetEstablish
<1>1. TypeOK'
  OBVIOUS
<1>2. Handles'
  BY DEF Handles, Unconnected, FdsAccounted, SockOf
<1>3. Waiters'
  BY DEF Handles, FdsAccounted, Waiters, Waits
<1>4. Connection'
  BY DEF Handles, Unconnected, FdsAccounted, SockOf, Waiters, Waits, Connection, Has
<1>5. Bytes'
  BY DEF Handles, Connection, Has, FdsAccounted, Bytes
<1> QED BY <1>1, <1>2, <1>3, <1>4, <1>5

LEMMA CloseHandleInv ==
  ASSUME StreamInv, NEW h \in Handle, CloseHandle(h)
  PROVE  StreamInv'
<1> USE DEF CloseHandle
<1>1. FdClose(h) /\ handle[h] \in Fd /\ Closing(h)
  BY FdCloseLemma
<1>2. /\ registered' = registered \ {handle[h]}
      /\ waiter' = [waiter EXCEPT ![handle[h]] = NoOp]
      /\ sock' = [sock EXCEPT ![handle[h]] = "free"]
      /\ handle' = [handle EXCEPT ![h] = NoFd]
  BY <1>1 DEF FdClose, IoRemove, Close
<1>3. TypeOK'
  BY <1>1, <1>2 DEF Closing
<1>4. Handles'
  BY <1>1, <1>2 DEF Handles, Unconnected, FdsAccounted, SockOf
<1>5. Waiters'
  BY <1>1, <1>2 DEF Handles, FdsAccounted, Waiters, Waits
<1>6. Connection'
  <2>1. link' = "syn" => handle["box"] # NoFd /\ handle["box"] # handle[h]
    BY <1>1 DEF Closing, Handles, FdsAccounted, Connection
  <2>2. link' = "syn" => /\ phase'["connect"] = "pending" /\ "connect" \in awaiting'
                         /\ readiness'["connect"] = "armed" => waiter'[handle'["box"]] = "connect"
    BY <1>1, <1>2, <2>1 DEF Closing, Connection
  <2> QED BY <1>1, <2>2 DEF Closing, Connection
<1>7. Bytes'
  BY <1>1, ClosingBytes
<1> QED BY <1>3, <1>4, <1>5, <1>6, <1>7

LEMMA StartAcceptInv ==
  ASSUME StreamInv, StartAccept
  PROVE  StreamInv'
<1> USE DEF StartAccept, Start
<1>1. TypeOK'
  OBVIOUS
<1>2. Handles'
  BY DEF Handles, Unconnected, FdsAccounted, SockOf
<1>3. Waiters'
  BY DEF Handles, FdsAccounted, Waiters, Waits
<1>4. Connection'
  BY DEF Handles, Unconnected, FdsAccounted, SockOf, Waiters, Waits, Connection, Has
<1>5. Bytes'
  BY DEF Handles, Connection, Has, FdsAccounted, Bytes
<1> QED BY <1>1, <1>2, <1>3, <1>4, <1>5

LEMMA StartConnectInv ==
  ASSUME StreamInv, StartConnect
  PROVE  StreamInv'
<1> USE DEF StartConnect, Start
<1>1. TypeOK'
  OBVIOUS
<1>2. Handles'
  BY DEF Handles, Unconnected, FdsAccounted, SockOf
<1>3. Waiters'
  BY DEF Handles, FdsAccounted, Waiters, Waits
<1>4. Connection'
  BY DEF Handles, Unconnected, FdsAccounted, SockOf, Waiters, Waits, Connection, Has
<1>5. Bytes'
  BY DEF Handles, Connection, Has, FdsAccounted, Bytes, Numbered
<1> QED BY <1>1, <1>2, <1>3, <1>4, <1>5

LEMMA StartWriteInv ==
  ASSUME StreamInv, StartWrite
  PROVE  StreamInv'
<1> USE DEF Start, StartWrite
<1>1. PICK n \in 1 .. Len0 - sent : len' = n
  OBVIOUS
<1>2. n \in 0 .. Len0 /\ n # 0 /\ sent + n <= Len0 /\ known /\ phase["write"] = "none"
  BY <1>1
<1>3. TypeOK'
  BY <1>1, <1>2
<1>4. Handles'
  BY DEF Handles, Unconnected, FdsAccounted, SockOf
<1>5. Waiters'
  BY DEF Waiters, Waits
<1>6. Connection'
  BY DEF Connection, Unconnected, Has
<1>7. Bytes'
  <2>1. off = 0 /\ off' = 0 /\ UNCHANGED <<recv, chan, link, known, sent>>
    BY <1>2 DEF Bytes
  <2>2. /\ phase'["write"] = "new" /\ phase'["connect"] = phase["connect"]
    OBVIOUS
  <2> HIDE DEF StartWrite
  <2> QED BY <1>1, <1>2, <2>1, <2>2 DEF Bytes
<1> QED BY <1>3, <1>4, <1>5, <1>6, <1>7

LEMMA StartReadInv ==
  ASSUME StreamInv, StartRead
  PROVE  StreamInv'
<1> USE DEF StartRead, Start
<1>1. TypeOK'
  OBVIOUS
<1>2. Handles'
  BY DEF Handles, Unconnected, FdsAccounted, SockOf
<1>3. Waiters'
  BY DEF Handles, FdsAccounted, Waiters, Waits
<1>4. Connection'
  BY DEF Handles, Unconnected, FdsAccounted, SockOf, Waiters, Waits, Connection, Has
<1>5. Bytes'
  BY DEF Handles, Connection, Has, FdsAccounted, Bytes
<1> QED BY <1>1, <1>2, <1>3, <1>4, <1>5

LEMMA PollBeginInv ==
  ASSUME StreamInv, NEW o \in Op, PollBegin(o)
  PROVE  StreamInv'
<1> USE DEF PollBegin
<1>1. TypeOK'
  OBVIOUS
<1>2. Handles'
  BY DEF Handles, Unconnected, FdsAccounted, SockOf
<1>3. Waiters'
  BY DEF Handles, FdsAccounted, Waiters, Waits
<1>4. Connection'
  BY DEF Handles, Unconnected, FdsAccounted, SockOf, Waiters, Waits, Connection, Has
<1>5. Bytes'
  BY DEF Handles, Connection, Has, FdsAccounted, Bytes
<1> QED BY <1>1, <1>2, <1>3, <1>4, <1>5

LEMMA AwaitPendingInv ==
  ASSUME StreamInv, NEW o \in Op, AwaitPending(o)
  PROVE  StreamInv'
<1> USE DEF AwaitPending
<1> DEFINE d == handle[On(o)]
<1>1. /\ cur = o /\ cur' = NoOp /\ o \in awaiting /\ readiness[o] # "null"
      /\ phase[o] \in {"new", "pending"} /\ d \in Fd
      /\ UNCHANGED <<awaiting, woken, handle, registered, dataVars, kernVars>>
  BY DEF Waiters
<1>2. /\ readiness' = [readiness EXCEPT ![o] = "armed"]
      /\ phase' = [phase EXCEPT ![o] = "pending"]
  OBVIOUS
<1>3. \A p \in Op : p # o /\ handle[On(p)] # NoFd => handle[On(p)] # d
  BY <1>1 DEF Handles, FdsAccounted
<1>4. waiter' = [waiter EXCEPT ![d] = o]
  <2>1. CASE readiness[o] = "fresh"
    BY <2>1
  <2>2. CASE readiness[o] = "armed"
    <3>1. waiter[d] # NoOp
      BY <1>1, <2>2 DEF Resolved, Handles, FdsAccounted
    <3>2. PICK p \in Op : waiter[d] = p
      BY <1>1, <3>1
    <3>3. handle[On(p)] = d
      BY <1>1, <3>2 DEF Waiters
    <3>4. p = o
      BY <1>1, <1>3, <3>3
    <3> QED BY <2>2, <3>2, <3>4
  <2> QED BY <1>1, <2>1, <2>2
<1> HIDE DEF AwaitPending, d
<1>5. TypeOK'
  BY <1>1, <1>2, <1>4
<1>6. Handles'
  BY <1>1, <1>2 DEF Handles, FdsAccounted, SockOf, Waiters, d, Unconnected
<1>7. Waiters'
  BY <1>1, <1>2, <1>3, <1>4 DEF Waiters, Waits, d
<1>8. Connection'
  <2>1. CASE o = "connect"
    BY <1>1, <1>2, <1>4, <2>1 DEF Connection, Has, d, Handles, Waiters, Unconnected
  <2>2. CASE o # "connect"
    <3>1. phase["connect"] = "pending" => handle["box"] \in Fd /\ handle["box"] # d
      BY <1>3, <2>2 DEF Handles
    <3> QED BY <1>1, <1>2, <1>4, <2>2, <3>1 DEF Connection, Unconnected, Has
  <2> QED BY <2>1, <2>2
<1>9. Bytes'
  BY <1>1, <1>2 DEF Bytes
<1> QED BY <1>5, <1>6, <1>7, <1>8, <1>9

LEMMA AwaitReadyInv ==
  ASSUME StreamInv, NEW o \in Op, AwaitReady(o)
  PROVE  StreamInv'
<1> USE DEF AwaitReady
<1>1. /\ cur = o /\ o \in awaiting /\ readiness[o] = "armed"
      /\ awaiting' = awaiting \ {o} /\ readiness' = [readiness EXCEPT ![o] = "null"]
      /\ UNCHANGED <<handle, registered, phase, woken, cur, dataVars, kernVars>>
  BY DEF Resolved, DropReadiness, Waiters, Handles, FdsAccounted
<1>2. waiter' = [d \in Fd |-> IF waiter[d] = o THEN NoOp ELSE waiter[d]]
  <2>1. \A p \in Op : p # o /\ handle[On(p)] # NoFd => handle[On(p)] # handle[On(o)]
    BY <1>1 DEF Handles, FdsAccounted, Waiters
  <2>2. \A d \in Fd : (d = handle[On(o)] /\ readiness[o] = "armed" /\ waiter[d] # NoOp) <=> waiter[d] = o
    BY <2>1 DEF Waiters, Waits
  <2> QED BY <1>1, <2>2 DEF DropReadiness
<1>3. link = "syn" => o # "connect"
  BY <1>1 DEF Connection, Resolved, Handles, FdsAccounted
<1> HIDE DEF AwaitReady
<1>4. TypeOK' /\ Handles'
  BY <1>1, <1>2 DEF Handles, Unconnected, FdsAccounted, SockOf
<1>5. Waiters'
  BY <1>1, <1>2 DEF Waiters, Waits
<1>6. Connection'
  <2>1. CASE o = "connect"
    BY <1>1, <1>2, <1>3, <2>1 DEF Connection, Unconnected, Has
  <2>2. CASE o # "connect"
    <3>1. phase["connect"] = "pending" => handle["box"] \in Fd
      BY DEF Handles
    <3> QED BY <1>1, <1>2, <2>2, <3>1 DEF Connection, Unconnected, Has
  <2> QED BY <2>1, <2>2
<1>7. Bytes'
  BY <1>1 DEF Bytes
<1> QED BY <1>4, <1>5, <1>6, <1>7

LEMMA WouldBlockInv ==
  ASSUME StreamInv, NEW o \in Op, WouldBlock(o)
  PROVE  StreamInv'
<1> USE DEF WouldBlock, AtCall, NewReadiness, CallReady
<1>1. TypeOK'
  OBVIOUS
<1>2. Handles'
  BY DEF Handles, Unconnected, FdsAccounted, SockOf
<1>3. Waiters'
  BY DEF Handles, FdsAccounted, Waiters, Waits
<1>4. Connection'
  BY DEF Handles, Unconnected, FdsAccounted, SockOf, Waiters, Waits, Connection, Has
<1>5. Bytes'
  BY DEF Handles, Connection, Has, FdsAccounted, Bytes
<1> QED BY <1>1, <1>2, <1>3, <1>4, <1>5

LEMMA WriteSomeInv ==
  ASSUME StreamInv, WriteSome
  PROVE  StreamInv'
<1> USE DEF WriteSome, AtCall
<1>1. PICK n \in 1 .. len - off : /\ Len(chan) + n <= Cap
                                  /\ chan' = chan \o [i \in 1 .. n |-> sent + off + i]
                                  /\ IF all
                                     THEN off' = off + n /\ UNCHANGED <<sent, opVars>>
                                     ELSE sent' = sent + n /\ UNCHANGED off /\ Ready("write")
  BY DEF Written, Progress
<1>2. /\ cur = "write" /\ "write" \notin awaiting /\ handle["cli"] # NoFd /\ link # "dead"
      /\ UNCHANGED <<fdVars, all, len, known, recv, sock, link>>
  OBVIOUS
<1> HIDE DEF WriteSome
<1>3. /\ known /\ off + n <= len /\ sent + len <= Len0 /\ n \in Nat
      /\ phase["write"] \in {"new", "pending"}
  BY <1>1, <1>2 DEF Waiters, Bytes
<1>4. link \in {"queued", "open"}
  BY <1>2 DEF Connection, Has, Handles, SockOf
<1>5. Len(recv) + Len(chan) = sent + off
  BY <1>3, <1>4 DEF Bytes
<1>6. PICK c \in Seq(1 .. Len0) :
        chan' = c /\ Len(c) = Len(chan) + n /\ Numbered(recv, c)
  <2> DEFINE w == chan \o [i \in 1 .. n |-> (sent + off) + i]
  <2>1. sent + off \in Nat /\ sent + off + n <= Len0
    BY <1>3
  <2>2. w \in Seq(1 .. Len0) /\ Len(w) = Len(chan) + n /\ Numbered(recv, w)
    BY <1>3, <1>5, <2>1, WrittenLemma DEF Bytes
  <2>3. chan' = w
    BY <1>1
  <2> HIDE DEF w
  <2> QED BY <2>2, <2>3
<1>7. sent + n \in 0 .. Len0 /\ off + n \in 0 .. Len0
  BY <1>3
<1>8. TypeOK'
  <2>1. CASE all
    BY <1>1, <1>2, <1>6, <1>7, <2>1
  <2>2. CASE ~all
    <3>1. PICK m \in 0 .. Len0 : sent' = m
      BY <1>1, <1>7, <2>2
    <3>2. /\ off' = off /\ cur' = NoOp /\ phase' = [phase EXCEPT !["write"] = "ready"]
          /\ UNCHANGED <<awaiting, readiness, woken>>
      BY <1>1, <2>2 DEF Ready
    <3> QED BY <1>2, <1>6, <3>1, <3>2
  <2> QED BY <2>1, <2>2
<1>9. Handles'
  BY <1>1, <1>2 DEF Handles, FdsAccounted, SockOf, Ready, Unconnected
<1>10. Waiters'
  BY <1>1, <1>2 DEF Waiters, Waits, Ready
<1>11. Connection'
  BY <1>1, <1>2, <1>4 DEF Connection, Has, Ready
<1>12. Bytes'
  <2>1. phase["connect"] \notin {"new", "pending"} /\ phase'["connect"] = phase["connect"]
    BY <1>1, <1>2 DEF Handles, Ready
  <2>2. Len(recv) + Len(c) = sent + off + n
    <3>1. Len(recv) \in Nat /\ Len(chan) \in Nat /\ Len(c) \in Nat
      OBVIOUS
    <3>2. sent \in Nat /\ off \in Nat
      OBVIOUS
    <3>3. n \in Nat /\ Len(recv) + Len(chan) = sent + off /\ Len(c) = Len(chan) + n
      BY <1>3, <1>5, <1>6
    <3>4. \A a, b, k, m, i \in Nat : a + b = k + m => a + (b + i) = k + m + i
      OBVIOUS
    <3>5. Len(recv) + (Len(chan) + n) = sent + off + n
      BY ONLY <3>1, <3>2, <3>3, <3>4
    <3> QED BY ONLY <3>3, <3>5
  <2>3. CASE all
    <3>1. sent + (off + n) = sent + off + n /\ phase' = phase
      BY <1>1, <2>3
    <3> QED BY <1>1, <1>2, <1>3, <1>6, <2>1, <2>2, <2>3, <3>1 DEF Bytes
  <2>4. CASE ~all
    <3>1. (sent + n) + off = sent + off + n /\ phase'["write"] = "ready"
      BY <1>1, <2>4 DEF Ready
    <3> QED BY <1>1, <1>2, <1>3, <1>6, <2>1, <2>2, <2>4, <3>1 DEF Bytes
  <2> QED BY <2>3, <2>4
<1> QED BY <1>8, <1>9, <1>10, <1>11, <1>12

LEMMA WriteAllDoneInv ==
  ASSUME StreamInv, WriteAllDone
  PROVE  StreamInv'
<1> USE DEF WriteAllDone, AtCall, Ready
<1>1. TypeOK'
  BY DEF Bytes, Waiters
<1>2. Handles'
  BY DEF Handles, Unconnected, FdsAccounted, SockOf
<1>3. Waiters'
  BY DEF Handles, FdsAccounted, Waiters, Waits
<1>4. Connection'
  BY DEF Handles, Unconnected, FdsAccounted, SockOf, Waiters, Waits, Connection, Has
<1>5. Bytes'
  <2>1. phase["write"] \in {"new", "pending"}
    BY DEF Waiters
  <2>2. off = len
    BY <2>1 DEF Bytes
  <2>3. phase["connect"] \notin {"new", "pending"}
    BY <2>1, <2>2 DEF Bytes
  <2>4. PICK n \in 0 .. Len0 : sent' = n /\ n = sent + off
    BY <1>1, <2>2
  <2>5. off' = 0 /\ n + 0 = n
    BY <2>4
  <2> QED BY <2>3, <2>4, <2>5 DEF Bytes
<1> QED BY <1>1, <1>2, <1>3, <1>4, <1>5

LEMMA WriteFailsInv ==
  ASSUME StreamInv, WriteFails
  PROVE  StreamInv'
<1> USE DEF WriteFails, AtCall, Ready
<1>1. TypeOK'
  OBVIOUS
<1>2. Handles'
  BY DEF Handles, Unconnected, FdsAccounted, SockOf
<1>3. Waiters'
  BY DEF Handles, FdsAccounted, Waiters, Waits
<1>4. Connection'
  BY DEF Handles, Unconnected, FdsAccounted, SockOf, Waiters, Waits, Connection, Has
<1>5. Bytes'
  BY DEF Bytes, Waiters
<1> QED BY <1>1, <1>2, <1>3, <1>4, <1>5

LEMMA ReadSomeInv ==
  ASSUME StreamInv, ReadSome
  PROVE  StreamInv'
<1>1. chan # <<>>
  BY DEF ReadSome
<1>2. PICK q \in Seq(1 .. Len0), c \in Seq(1 .. Len0) :
        recv' = q /\ chan' = c /\ Numbered(q, c) /\ Len(q) + Len(c) = Len(recv) + Len(chan)
  BY ReadSomeBytes
<1> USE DEF ReadSome, AtCall, Ready
<1>3. /\ cur = "read" /\ "read" \notin awaiting
      /\ cur' = NoOp /\ phase' = [phase EXCEPT !["read"] = "ready"]
      /\ UNCHANGED <<fdVars, awaiting, readiness, woken, all, len, off, sent, known, sock, link>>
  OBVIOUS
<1> HIDE DEF ReadSome
<1>4. TypeOK'
  BY <1>2, <1>3
<1>5. Handles'
  BY <1>3 DEF Handles, Unconnected, FdsAccounted, SockOf
<1>6. Waiters'
  BY <1>3 DEF Waiters, Waits
<1>7. link \in {"queued", "open"}
  BY <1>1 DEF Connection
<1>8. Connection'
  BY <1>3, <1>7 DEF Connection, Unconnected, Has
<1>9. Bytes'
  <2>1. phase["connect"] \notin {"new", "pending"}
    BY <1>1, <1>7 DEF Bytes
  <2> QED BY <1>2, <1>3, <1>7, <2>1 DEF Bytes
<1> QED BY <1>4, <1>5, <1>6, <1>8, <1>9

LEMMA ReadEndsInv ==
  ASSUME StreamInv, ReadEnds
  PROVE  StreamInv'
<1> USE DEF ReadEnds, AtCall, Ready
<1>1. TypeOK'
  OBVIOUS
<1>2. Handles'
  BY DEF Handles, Unconnected, FdsAccounted, SockOf
<1>3. Waiters'
  BY DEF Handles, FdsAccounted, Waiters, Waits
<1>4. Connection'
  BY DEF Handles, Unconnected, FdsAccounted, SockOf, Waiters, Waits, Connection, Has
<1>5. Bytes'
  BY DEF Handles, Connection, Has, FdsAccounted, Bytes
<1> QED BY <1>1, <1>2, <1>3, <1>4, <1>5

LEMMA AcceptOkInv ==
  ASSUME StreamInv, AcceptOk
  PROVE  StreamInv'
<1> USE DEF AtCall
<1>1. /\ cur = "accept" /\ "accept" \notin awaiting /\ handle["srv"] = NoFd /\ link = "queued"
      /\ cur' = NoOp /\ phase' = [phase EXCEPT !["accept"] = "ready"]
      /\ UNCHANGED <<awaiting, readiness, woken, waiter, dataVars>>
  BY DEF AcceptOk, Ready, Handles, Waiters
<1>2. PICK d \in Fd :
        /\ sock[d] = "free" /\ Adopt("srv", d, "server")
        /\ IF handle'["srv"] = d
           THEN link' = "open" /\ UNCHANGED chan
           ELSE link' = (IF Has("client") THEN "dead" ELSE "none") /\ chan' = <<>>
  BY DEF AcceptOk, NewFd
<1>3. \A h \in Handle : handle[h] # d
  BY <1>2 DEF Handles, FdsAccounted
<1>4. ~Has("server")
  BY <1>1 DEF Connection
<1>5. CASE handle' = [handle EXCEPT !["srv"] = d]
  <2>1. /\ registered' = registered \cup {d} /\ sock' = [sock EXCEPT ![d] = "server"]
        /\ link' = "open" /\ chan' = chan
    BY <1>1, <1>2, <1>3, <1>5 DEF Adopt
  <2>2. TypeOK'
    BY <1>1, <1>5, <2>1
  <2>3. Handles'
    BY <1>1, <1>2, <1>3, <1>5, <2>1 DEF Handles, Unconnected, FdsAccounted, SockOf
  <2>4. Waiters'
    BY <1>1, <1>5 DEF Waiters, Waits
  <2>5. Connection'
    BY <1>1, <1>2, <1>5, <2>1 DEF Connection, Unconnected, Has
  <2>6. Bytes'
    BY <1>1, <2>1 DEF Bytes
  <2> QED BY <2>2, <2>3, <2>4, <2>5, <2>6
<1>6. CASE handle' # [handle EXCEPT !["srv"] = d]
  <2>1. /\ handle' = handle /\ UNCHANGED <<registered, sock>>
        /\ link' = (IF Has("client") THEN "dead" ELSE "none") /\ chan' = <<>>
    BY <1>1, <1>2, <1>6 DEF Adopt
  <2>2. TypeOK'
    BY <1>1, <2>1
  <2>3. Handles' /\ Waiters'
    BY <1>1, <2>1 DEF Handles, FdsAccounted, SockOf, Waiters, Waits, Unconnected
  <2>4. Connection'
    BY <1>1, <1>4, <2>1 DEF Connection, Unconnected, Has
  <2>5. Bytes'
    BY <1>1, <2>1 DEF Bytes, Numbered
  <2> QED BY <2>2, <2>3, <2>4, <2>5
<1> QED BY <1>5, <1>6

LEMMA AcceptFailsInv ==
  ASSUME StreamInv, AcceptFails
  PROVE  StreamInv'
<1> USE DEF AcceptFails, AtCall, Ready
<1>1. TypeOK'
  OBVIOUS
<1>2. Handles'
  BY DEF Handles, Unconnected, FdsAccounted, SockOf
<1>3. Waiters'
  BY DEF Handles, FdsAccounted, Waiters, Waits
<1>4. Connection'
  BY DEF Handles, Unconnected, FdsAccounted, SockOf, Waiters, Waits, Connection, Has
<1>5. Bytes'
  BY DEF Handles, Connection, Has, FdsAccounted, Bytes
<1> QED BY <1>1, <1>2, <1>3, <1>4, <1>5

LEMMA ConnectNoSocketInv ==
  ASSUME StreamInv, ConnectNoSocket
  PROVE  StreamInv'
<1> USE DEF ConnectNoSocket, ConnectStarts, AtCall, Ready
<1>1. TypeOK'
  OBVIOUS
<1>2. Handles'
  BY DEF Handles, Unconnected, FdsAccounted, SockOf
<1>3. Waiters'
  BY DEF Handles, FdsAccounted, Waiters, Waits
<1>4. Connection'
  BY DEF Handles, Unconnected, FdsAccounted, SockOf, Waiters, Waits, Connection, Has
<1>5. Bytes'
  BY DEF Handles, Connection, Has, FdsAccounted, Bytes
<1> QED BY <1>1, <1>2, <1>3, <1>4, <1>5

LEMMA ConnectSocketInv ==
  ASSUME StreamInv, ConnectSocket
  PROVE  StreamInv'
<1>1. /\ cur = "connect" /\ "connect" \notin awaiting /\ phase["connect"] = "new"
      /\ handle["box"] = NoFd /\ handle["cli"] = NoFd /\ link = "none"
      /\ UNCHANGED <<waiter, dataVars, link, chan>>
  BY DEF ConnectSocket, ConnectStarts, AtCall, Handles, Connection
<1>2. PICK d \in Fd : sock[d] = "free" /\ Adopt("box", d, "client")
  BY DEF ConnectSocket, NewFd
<1>3. \A h \in Handle : handle[h] # d
  BY <1>2 DEF Handles, FdsAccounted
<1>4. CASE handle' = [handle EXCEPT !["box"] = d]
  <2>1. /\ registered' = registered \cup {d} /\ sock' = [sock EXCEPT ![d] = "client"]
        /\ UNCHANGED opVars
    BY <1>1, <1>2, <1>3, <1>4 DEF Adopt, ConnectSocket
  <2>2. TypeOK'
    BY <1>1, <1>4, <2>1
  <2>3. Handles'
    BY <1>1, <1>2, <1>3, <1>4, <2>1 DEF Handles, Unconnected, FdsAccounted, SockOf
  <2>4. Waiters'
    BY <1>1, <1>4, <2>1 DEF Waiters, Waits
  <2>5. Connection'
    BY <1>1, <1>2, <1>4, <2>1 DEF Connection, Unconnected, Has
  <2>6. Bytes'
    BY <1>1, <2>1 DEF Bytes
  <2> QED BY <2>2, <2>3, <2>4, <2>5, <2>6
<1>5. CASE handle' # [handle EXCEPT !["box"] = d]
  <2>1. /\ handle' = handle /\ UNCHANGED <<registered, sock, awaiting, readiness, woken>>
        /\ cur' = NoOp /\ phase' = [phase EXCEPT !["connect"] = "ready"]
    BY <1>1, <1>2, <1>5 DEF Adopt, ConnectSocket, Ready
  <2>2. TypeOK'
    BY <1>1, <2>1
  <2>3. Handles' /\ Waiters'
    BY <1>1, <2>1 DEF Handles, Unconnected, FdsAccounted, SockOf, Waiters, Waits
  <2>4. Connection' /\ Bytes'
    BY <1>1, <2>1 DEF Connection, Unconnected, Has, Bytes
  <2> QED BY <2>2, <2>3, <2>4
<1> QED BY <1>4, <1>5

(* The poll of connect closes the stream in its box and is READY.          *)
LEMMA BoxClosedInv ==
  ASSUME StreamInv, AtCall("connect"), handle["box"] # NoFd, FdClose("box"), Ready("connect"),
         \A d \in Fd : waiter[d] # "connect", UNCHANGED dataVars
  PROVE  StreamInv'
<1>1. /\ cur = "connect" /\ "connect" \notin awaiting /\ handle["box"] \in Fd
      /\ cur' = NoOp /\ phase' = [phase EXCEPT !["connect"] = "ready"]
      /\ UNCHANGED <<awaiting, readiness, woken, dataVars>>
  BY DEF AtCall, Ready
<1>2. Closing("box")
  BY <1>1, FdCloseLemma
<1>3. /\ registered' = registered \ {handle["box"]}
      /\ waiter' = [waiter EXCEPT ![handle["box"]] = NoOp]
      /\ sock' = [sock EXCEPT ![handle["box"]] = "free"]
      /\ handle' = [handle EXCEPT !["box"] = NoFd]
  BY DEF FdClose, IoRemove, Close
<1>4. TypeOK'
  BY <1>1, <1>2, <1>3 DEF Closing
<1>5. Handles'
  BY <1>1, <1>3 DEF Handles, Unconnected, FdsAccounted, SockOf
<1>6. Waiters'
  <2>1. \A o \in Op : o # "connect" /\ handle[On(o)] # NoFd =>
          handle'[On(o)] = handle[On(o)] /\ handle[On(o)] # handle["box"]
    BY <1>1, <1>3 DEF Handles, FdsAccounted
  <2>2. \A o \in Op : phase'[o] = IF o = "connect" THEN "ready" ELSE phase[o]
    BY <1>1
  <2> QED BY <1>1, <1>3, <2>1, <2>2 DEF Waiters, Waits
<1>7. Connection'
  BY <1>1, <1>2 DEF Closing, Connection
<1>8. Bytes'
  BY <1>1, <1>2, ClosingBytes
<1> QED BY <1>4, <1>5, <1>6, <1>7, <1>8

LEMMA ConnectRefusedInv ==
  ASSUME StreamInv, ConnectRefused
  PROVE  StreamInv'
<1>1. \A d \in Fd : waiter[d] # "connect"
  BY DEF ConnectRefused, ConnectStarts, AtCall, Waiters, Waits
<1> QED BY <1>1, BoxClosedInv DEF ConnectRefused, ConnectStarts

LEMMA ConnectAtOnceInv ==
  ASSUME StreamInv, ConnectAtOnce
  PROVE  StreamInv'
<1> USE DEF ConnectAtOnce, ConnectStarts, AtCall, Ready, HandOff
<1>1. TypeOK'
  OBVIOUS
<1>2. Handles'
  BY DEF Handles, Unconnected, FdsAccounted, SockOf
<1>3. Waiters'
  BY DEF Handles, FdsAccounted, Waiters, Waits
<1>4. Connection'
  BY DEF Handles, Unconnected, FdsAccounted, SockOf, Waiters, Waits, Connection, Has
<1>5. Bytes'
  BY DEF Handles, Connection, Has, FdsAccounted, Bytes
<1> QED BY <1>1, <1>2, <1>3, <1>4, <1>5

LEMMA ConnectInProgressInv ==
  ASSUME StreamInv, ConnectInProgress
  PROVE  StreamInv'
<1> USE DEF ConnectInProgress, ConnectStarts, AtCall, NewReadiness
<1>1. TypeOK'
  OBVIOUS
<1>2. Handles'
  BY DEF Handles, Unconnected, FdsAccounted, SockOf
<1>3. Waiters'
  BY DEF Handles, FdsAccounted, Waiters, Waits
<1>4. Connection'
  BY DEF Handles, Unconnected, FdsAccounted, SockOf, Waiters, Waits, Connection, Has
<1>5. Bytes'
  BY DEF Handles, Connection, Has, FdsAccounted, Bytes
<1> QED BY <1>1, <1>2, <1>3, <1>4, <1>5

LEMMA ConnectDoneInv ==
  ASSUME StreamInv, ConnectDone
  PROVE  StreamInv'
<1>1. /\ cur = "connect" /\ phase["connect"] = "pending" /\ handle["box"] \in Fd
      /\ handle["cli"] = NoFd /\ link # "syn" /\ \A d \in Fd : waiter[d] # "connect"
  BY DEF ConnectDone, AtCall, Handles, Connection, Waiters, Waits
<1>2. /\ cur' = NoOp /\ phase' = [phase EXCEPT !["connect"] = "ready"]
      /\ UNCHANGED <<awaiting, readiness, woken, dataVars>>
  BY DEF ConnectDone, Ready
<1>3. CASE link # "dead"
  <2>1. /\ handle' = [handle EXCEPT !["cli"] = handle["box"], !["box"] = NoFd]
        /\ UNCHANGED <<registered, waiter, kernVars>>
    BY <1>3 DEF ConnectDone, HandOff
  <2>2. TypeOK'
    BY <1>1, <1>2, <2>1
  <2>3. Handles'
    BY <1>1, <1>2, <2>1 DEF Handles, Unconnected, FdsAccounted, SockOf
  <2>4. Waiters'
    <3>1. \A o \in Op : o # "connect" /\ handle[On(o)] # NoFd => handle'[On(o)] = handle[On(o)]
      BY <1>1, <2>1
    <3>2. \A o \in Op : phase'[o] = IF o = "connect" THEN "ready" ELSE phase[o]
      BY <1>2
    <3>3. "connect" \notin awaiting
      BY DEF ConnectDone, AtCall
    <3> QED BY <1>1, <1>2, <2>1, <3>1, <3>2, <3>3 DEF Waiters, Waits
  <2>5. Connection' /\ Bytes'
    BY <1>1, <1>2, <2>1 DEF Connection, Has, Bytes, Unconnected
  <2> QED BY <2>2, <2>3, <2>4, <2>5
<1>4. CASE link = "dead"
  <2>1. AtCall("connect") /\ FdClose("box") /\ Ready("connect") /\ UNCHANGED dataVars
    BY <1>4 DEF ConnectDone
  <2>2. handle["box"] # NoFd
    BY <1>1
  <2> QED BY <1>1, <2>1, <2>2, BoxClosedInv
<1> QED BY <1>3, <1>4

LEMMA ReadDropInv ==
  ASSUME StreamInv, ReadDrop
  PROVE  StreamInv'
<1> USE DEF ReadDrop, DropFuture, DropReadiness
<1>1. TypeOK'
  OBVIOUS
<1>2. Handles'
  BY DEF Handles, Unconnected, FdsAccounted, SockOf
<1>3. Waiters'
  BY DEF Handles, FdsAccounted, Waiters, Waits
<1>4. Connection'
  BY DEF Handles, Unconnected, FdsAccounted, SockOf, Waiters, Waits, Connection, Has
<1>5. Bytes'
  BY DEF Handles, Connection, Has, FdsAccounted, Bytes
<1> QED BY <1>1, <1>2, <1>3, <1>4, <1>5

LEMMA WriteDropInv ==
  ASSUME StreamInv, WriteDrop
  PROVE  StreamInv'
<1> USE DEF WriteDrop, DropFuture, DropReadiness
<1>1. TypeOK'
  OBVIOUS
<1>2. Handles'
  BY DEF Handles, Unconnected, FdsAccounted, SockOf
<1>3. Waiters'
  BY DEF Handles, FdsAccounted, Waiters, Waits
<1>4. Connection'
  BY DEF Handles, Unconnected, FdsAccounted, SockOf, Waiters, Waits, Connection, Has
<1>5. Bytes'
  BY DEF Handles, Connection, Has, FdsAccounted, Bytes
<1> QED BY <1>1, <1>2, <1>3, <1>4, <1>5

LEMMA AcceptDropInv ==
  ASSUME StreamInv, AcceptDrop
  PROVE  StreamInv'
<1> USE DEF AcceptDrop, DropFuture, DropReadiness
<1>1. TypeOK'
  OBVIOUS
<1>2. Handles'
  BY DEF Handles, Unconnected, FdsAccounted, SockOf
<1>3. Waiters'
  BY DEF Handles, FdsAccounted, Waiters, Waits
<1>4. Connection'
  BY DEF Handles, Unconnected, FdsAccounted, SockOf, Waiters, Waits, Connection, Has
<1>5. Bytes'
  BY DEF Handles, Connection, Has, FdsAccounted, Bytes
<1> QED BY <1>1, <1>2, <1>3, <1>4, <1>5

LEMMA ConnectDropInv ==
  ASSUME StreamInv, ConnectDrop
  PROVE  StreamInv'
<1> USE DEF DropFuture
<1>1. /\ cur = NoOp /\ UNCHANGED <<cur, dataVars>>
      /\ phase' = [phase EXCEPT !["connect"] = "none"] /\ woken' = woken \ {"connect"}
  BY DEF ConnectDrop
<1>2. CASE handle["box"] # NoFd
  <2>1. /\ FdClose("box") /\ handle["box"] \in Fd
        /\ awaiting' = awaiting \ {"connect"}
        /\ readiness' = [readiness EXCEPT !["connect"] = "null"]
    BY <1>2 DEF ConnectDrop
  <2>2. Closing("box")
    BY <1>2, <2>1, FdCloseLemma
  <2>3. /\ registered' = registered \ {handle["box"]}
        /\ waiter' = [waiter EXCEPT ![handle["box"]] = NoOp]
        /\ sock' = [sock EXCEPT ![handle["box"]] = "free"]
        /\ handle' = [handle EXCEPT !["box"] = NoFd]
    BY <2>1 DEF FdClose, IoRemove, Close
  <2>4. TypeOK'
    BY <1>1, <2>1, <2>2, <2>3 DEF Closing
  <2>5. Handles'
    BY <1>1, <2>1, <2>3 DEF Handles, Unconnected, FdsAccounted, SockOf
  <2>6. Waiters'
    BY <1>1, <2>1, <2>3 DEF Handles, FdsAccounted, Waiters, Waits
  <2>7. Connection'
    BY <1>1, <2>2 DEF Closing, Connection
  <2>8. Bytes'
    BY <1>1, <2>2, ClosingBytes
  <2> QED BY <2>4, <2>5, <2>6, <2>7, <2>8
<1>3. CASE handle["box"] = NoFd
  <2>1. DropReadiness("connect") /\ UNCHANGED <<handle, registered, kernVars>>
    BY <1>3 DEF ConnectDrop
  <2>2. "connect" \notin awaiting /\ phase["connect"] # "pending" /\ link # "syn"
    BY <1>3 DEF Handles, Waiters, Connection
  <2>3. awaiting' = awaiting /\ readiness' = [readiness EXCEPT !["connect"] = "null"]
        /\ waiter' = waiter
    BY <2>1, <2>2 DEF DropReadiness
  <2>4. TypeOK' /\ Handles' /\ Connection' /\ Bytes'
    BY <1>1, <2>1, <2>2, <2>3 DEF Handles, FdsAccounted, Connection, Has, Bytes, Unconnected
  <2>5. Waiters'
    BY <1>1, <2>1, <2>2, <2>3 DEF Waiters, Waits
  <2> QED BY <2>4, <2>5
<1> QED BY <1>2, <1>3

LEMMA FireInv ==
  ASSUME StreamInv, NEW d \in Fd, Fire(d)
  PROVE  StreamInv'
<1> USE DEF Fire, CallReady
<1>1. TypeOK'
  OBVIOUS
<1>2. Handles'
  BY DEF Handles, Unconnected, FdsAccounted, SockOf
<1>3. Waiters'
  BY DEF Handles, FdsAccounted, Waiters, Waits
<1>4. Connection'
  BY DEF Handles, Unconnected, FdsAccounted, SockOf, Waiters, Waits, Connection, Has
<1>5. Bytes'
  BY DEF Handles, Connection, Has, FdsAccounted, Bytes
<1> QED BY <1>1, <1>2, <1>3, <1>4, <1>5

HIDE DEF StreamInv, TypeOK, Fd, NoFd, Handle, Op, NoOp,
      fdVars, opVars, dataVars, kernVars

-----------------------------------------------------------------------------
LEMMA InitInv == Init => StreamInv
<1> SUFFICES ASSUME Init PROVE StreamInv
  OBVIOUS
<1> USE StreamAssumption, OnFacts DEF StreamInv, Init, Fd, NoFd, Handle, Op, NoOp
<1>1. <<>> \in Seq(1 .. Len0) /\ Len(<<>>) = 0
  OBVIOUS
<1>2. TypeOK
  <2>1. 0 \in 0 .. Len0 /\ recv \in Seq(1 .. Len0) /\ chan \in Seq(1 .. Len0)
    BY <1>1
  <2>2. len \in 0 .. Len0 /\ off \in 0 .. Len0 /\ sent \in 0 .. Len0
    BY <2>1
  <2> QED BY <2>1, <2>2 DEF TypeOK
<1>3. Handles /\ Waiters
  BY DEF Handles, FdsAccounted, Waiters, Waits, Unconnected
<1>4. Connection
  BY DEF Connection, Unconnected, Has
<1>5. Bytes
  BY <1>1 DEF Bytes, Numbered
<1> QED BY <1>2, <1>3, <1>4, <1>5

LEMMA StepInv == StreamInv /\ [Next]_vars => StreamInv'
<1> SUFFICES ASSUME StreamInv, [Next]_vars PROVE StreamInv'
  OBVIOUS
<1>1. CASE NetListen
  BY <1>1, NetListenInv
<1>2. CASE NetEstablish
  BY <1>2, NetEstablishInv
<1>3. CASE \E h \in Handle : CloseHandle(h)
  BY <1>3, CloseHandleInv
<1>4. CASE StartAccept
  BY <1>4, StartAcceptInv
<1>5. CASE StartConnect
  BY <1>5, StartConnectInv
<1>6. CASE StartWrite
  BY <1>6, StartWriteInv
<1>7. CASE StartRead
  BY <1>7, StartReadInv
<1>8. CASE \E o \in Op : PollBegin(o)
  BY <1>8, PollBeginInv
<1>9. CASE \E o \in Op : Turn(o)
  BY <1>9, AwaitPendingInv, AwaitReadyInv, WouldBlockInv DEF Turn
<1>10. CASE ReadSome
  BY <1>10, ReadSomeInv
<1>11. CASE ReadEnds
  BY <1>11, ReadEndsInv
<1>12. CASE WriteSome
  BY <1>12, WriteSomeInv
<1>13. CASE WriteAllDone
  BY <1>13, WriteAllDoneInv
<1>14. CASE WriteFails
  BY <1>14, WriteFailsInv
<1>15. CASE AcceptOk
  BY <1>15, AcceptOkInv
<1>16. CASE AcceptFails
  BY <1>16, AcceptFailsInv
<1>17. CASE ConnectNoSocket
  BY <1>17, ConnectNoSocketInv
<1>18. CASE ConnectAtOnce
  BY <1>18, ConnectAtOnceInv
<1>19. CASE ConnectInProgress
  BY <1>19, ConnectInProgressInv
<1>20. CASE ConnectDone
  BY <1>20, ConnectDoneInv
<1>21. CASE ReadDrop
  BY <1>21, ReadDropInv
<1>22. CASE WriteDrop
  BY <1>22, WriteDropInv
<1>23. CASE AcceptDrop
  BY <1>23, AcceptDropInv
<1>24. CASE ConnectDrop
  BY <1>24, ConnectDropInv
<1>25. CASE \E d \in Fd : Fire(d)
  BY <1>25, FireInv
<1>26. CASE ConnectSocket
  BY <1>26, ConnectSocketInv
<1>27. CASE ConnectRefused
  BY <1>27, ConnectRefusedInv
<1>28. CASE UNCHANGED vars
  BY <1>28 DEF vars, fdVars, opVars, dataVars, kernVars, StreamInv, TypeOK, Handles, FdsAccounted,
              Unconnected, Waiters, Waits, Connection, Has, Bytes
<1>29. \A o \in {"accept", "connect", "write", "read"} : o \in Op
  BY DEF Op
<1> QED BY <1>1, <1>2, <1>3, <1>4, <1>5, <1>6, <1>7, <1>8, <1>9, <1>10, <1>11, <1>12, <1>13,
           <1>14, <1>15, <1>16, <1>17, <1>18, <1>19, <1>20, <1>21, <1>22, <1>23, <1>24, <1>25, <1>26, <1>27,
           <1>28, <1>29
        DEF Next, ReadPoll, WritePoll, AcceptPoll, ConnectPoll

(* The invariant of the four futures, of which the theorems below are the  *)
(* parts a caller sees (stream.c, fd.c, tcp.c).                            *)
THEOREM StreamInvariant == Safe => []StreamInv
BY InitInv, StepInv, PTL DEF Safe

(* No descriptor is leaked, closed twice or left registered, whichever of  *)
(* adoption, connect, accept, drop and close fails or comes first          *)
(* (fd.c:18-41, stream.c connect_poll and connect_drop).                   *)
THEOREM FdsAccountedTheorem == Safe => []FdsAccounted
<1>1. StreamInv => FdsAccounted
  BY DEF StreamInv, Handles
<1> QED BY <1>1, StreamInvariant, PTL

(* A stream future that is Pending has its waker armed on its descriptor   *)
(* or was woken, and no waker outlives its future (future.c:21-25).        *)
THEOREM PendingIsArrangedTheorem == Safe => []PendingIsArranged
<1>1. StreamInv => PendingIsArranged
  <2> SUFFICES ASSUME StreamInv PROVE PendingIsArranged
    OBVIOUS
  <2>1. ASSUME NEW o \in Op, phase[o] = "pending", cur # o
        PROVE  /\ o \in awaiting /\ readiness[o] # "fresh"
               /\ o \in woken \/ waiter[handle[On(o)]] = o
    BY <2>1 DEF StreamInv, Waiters, Waits
  <2>2. ASSUME NEW d \in Fd, waiter[d] # NoOp
        PROVE  /\ d \in registered /\ handle[On(waiter[d])] = d
               /\ phase[waiter[d]] = "pending"
    <3>1. waiter[d] \in Op
      BY <2>2 DEF StreamInv, TypeOK
    <3>2. handle[On(waiter[d])] = d /\ phase[waiter[d]] = "pending"
      BY <3>1 DEF StreamInv, Waiters
    <3>3. d \in registered
      BY <3>1, <3>2, OnFacts DEF StreamInv, Handles, FdsAccounted, Fd, NoFd
    <3> QED BY <3>2, <3>3
  <2> QED BY <2>1, <2>2 DEF PendingIsArranged
<1> QED BY <1>1, StreamInvariant, PTL

(* The server reads the bytes the client wrote, in order, each once, and   *)
(* the client's count is what the kernel has taken (stream.c:26-29,        *)
(* 165-174, 245-246), for any amount of data and any short writes.         *)
THEOREM BytesExactTheorem == Safe => []BytesExact
<1>1. StreamInv => BytesExact
  <2> SUFFICES ASSUME StreamInv PROVE BytesExact
    OBVIOUS
  <2> DEFINE taken == recv \o chan
  <2>1. recv \in Seq(1 .. Len0) /\ chan \in Seq(1 .. Len0) /\ Numbered(recv, chan)
    BY DEF StreamInv, TypeOK, Bytes
  <2>2. taken \in Seq(1 .. Len0) /\ Len(taken) = Len(recv) + Len(chan)
    BY <2>1, ConcatProperties
  <2>3. ASSUME NEW i \in 1 .. Len(taken) PROVE taken[i] = i
    BY <2>1, NumberedConcat
  <2>4. taken = [i \in 1 .. Len(taken) |-> i]
    <3> HIDE DEF taken
    <3> QED BY <2>2, <2>3
  <2>5. link \in {"queued", "open"} /\ known => Len(taken) = sent + off
    BY <2>2 DEF StreamInv, Bytes
  <2> QED BY <2>4, <2>5 DEF BytesExact
<1> QED BY <1>1, StreamInvariant, PTL
=============================================================================
