------------------------------- MODULE Stream -------------------------------
(***************************************************************************)
(* cust_execution/src/stream.c, fd.c and tcp.c: a listener, a client and   *)
(* a server in one process, as in tests/tcp_echo.c.  Four futures may be   *)
(* alive at a time: accept, connect, the client's write or write_all, and  *)
(* the server's read.  The caller creates, polls and drops them and closes *)
(* the handles in any order the headers allow.                             *)
(*                                                                         *)
(* A poll is one action per turn of its loop: the kernel moves in between, *)
(* other polls do not.  A call interrupted by a signal is repeated at once *)
(* and leaves no trace.  The socket calls are external: one connection at  *)
(* a time, a buffer of Cap bytes from client to server, descriptors given  *)
(* out lowest first.  Of the io driver (module IoDriver) there are the     *)
(* registrations and who waits on which fd.                                *)
(***************************************************************************)
EXTENDS Integers, Sequences, FiniteSets

CONSTANTS NFd,         \* the process has the descriptors 0 .. NFd - 1
          Len0,        \* the client has this many bytes to send
          Cap,         \* the socket buffer takes this many
          OutOfMemory  \* may the allocation of a readiness future fail?

ASSUME StreamAssumption == /\ NFd \in Nat /\ Len0 \in Nat
                           /\ Cap \in Nat \ {0} /\ OutOfMemory \in BOOLEAN

Fd     == 0 .. NFd - 1
NoFd   == -1
Handle == {"lis", "box", "cli", "srv"}  \* box: the stream inside connect_box
Op     == {"accept", "connect", "write", "read"}
NoOp   == "none"

On(o) == CASE o = "accept" -> "lis" [] o = "connect" -> "box"
           [] o = "write" -> "cli" [] o = "read" -> "srv"

VARIABLES
  handle,     \* cexec_fd.fd of each handle
  registered, \* the fds known to the io driver
  waiter,     \* the future whose waker is armed on each fd
  phase,      \* "none" (no such future), "new", "pending", "ready"
  awaiting,   \* the futures with awaiting set
  readiness,  \* their readiness future: "null", "fresh" or "armed"
  woken,      \* the futures whose waker was called since their last poll
  cur,        \* the future inside its poll
  all,        \* is the write a write_all?
  len, off,   \* writeall_box.len and off; rw_box.len
  sent,       \* bytes the results of writes have reported to the client
  known,      \* has the client seen the result of every write?
  recv,       \* the bytes the server has read
  sock,       \* kernel: what each fd is
  link,       \* kernel: the connection
  chan        \* kernel: bytes on their way to the server

fdVars   == <<handle, registered, waiter>>
opVars   == <<phase, awaiting, readiness, woken, cur>>
dataVars == <<all, len, off, sent, known, recv>>
kernVars == <<sock, link, chan>>
vars == <<fdVars, opVars, dataVars, kernVars>>

TypeOK ==
  /\ handle \in [Handle -> Fd \cup {NoFd}]
  /\ registered \subseteq Fd
  /\ waiter \in [Fd -> Op \cup {NoOp}]
  /\ phase \in [Op -> {"none", "new", "pending", "ready"}]
  /\ awaiting \subseteq Op /\ woken \subseteq Op
  /\ readiness \in [Op -> {"null", "fresh", "armed"}]
  /\ cur \in Op \cup {NoOp}
  /\ all \in BOOLEAN /\ known \in BOOLEAN
  /\ len \in 0 .. Len0 /\ off \in 0 .. Len0 /\ sent \in 0 .. Len0
  /\ recv \in Seq(1 .. Len0) /\ chan \in Seq(1 .. Len0)
  /\ sock \in [Fd -> {"free", "listening", "client", "server"}]
  /\ link \in {"none", "syn", "queued", "open", "dead"}

Init ==
  /\ handle = [h \in Handle |-> NoFd]
  /\ registered = {}
  /\ waiter = [d \in Fd |-> NoOp]
  /\ phase = [o \in Op |-> "none"]
  /\ awaiting = {} /\ woken = {}
  /\ readiness = [o \in Op |-> "null"]
  /\ cur = NoOp
  /\ all = FALSE /\ len = 0 /\ off = 0 /\ sent = 0
  /\ known = TRUE
  /\ recv = <<>> /\ chan = <<>>
  /\ sock = [d \in Fd |-> "free"]
  /\ link = "none"

-----------------------------------------------------------------------------
(* The kernel.  A descriptor is the lowest free one; close ends what the   *)
(* socket was part of: "dead" is a connection refused or reset.            *)
NewFd(d) == sock[d] = "free" /\ \A e \in Fd : sock[e] = "free" => d <= e
FdsUsedUp == \A d \in Fd : sock[d] # "free"
Has(s) == \E d \in Fd : sock[d] = s

AfterClose(d) ==
  CASE sock[d] = "listening" /\ link \in {"syn", "queued"} ->
         IF Has("client") THEN "dead" ELSE "none"
    [] sock[d] = "client" /\ link = "open" ->
         IF Has("server") THEN "open" ELSE "none"
    [] sock[d] = "client" /\ link \in {"syn", "dead"} -> "none"
    [] sock[d] = "server" -> IF Has("client") THEN "dead" ELSE "none"
    [] OTHER -> link

(* close(d), with the new entries of the descriptor table in S.            *)
Close(d, S) ==
  /\ sock' = [S EXCEPT ![d] = "free"]
  /\ link' = AfterClose(d)
  /\ chan' = IF link' \in {"none", "dead"} THEN <<>> ELSE chan

(* Would the call of future o do something?  What epoll reports.           *)
CallReady(o) ==
  CASE o = "accept"  -> link = "queued"
    [] o = "connect" -> link # "syn"
    [] o = "write"   -> link = "dead" \/ Len(chan) < Cap
    [] o = "read"    -> chan # <<>> \/ ~Has("client")

NetEstablish ==
  /\ link = "syn"
  /\ link' \in {"queued", "dead"}
  /\ UNCHANGED <<fdVars, opVars, dataVars, sock, chan>>

-----------------------------------------------------------------------------
(* cexec_fd_adopt of the fd d, newly made a socket of kind s, into handle  *)
(* h: registered, or closed when cexec_io_add fails.                       *)
Adopt(h, d, s) ==
  \/ /\ registered' = registered \cup {d}
     /\ handle' = [handle EXCEPT ![h] = d]
     /\ sock' = [sock EXCEPT ![d] = s]
  \/ /\ handle' = [handle EXCEPT ![h] = NoFd]
     /\ UNCHANGED <<registered, sock>>

(* cexec_io_remove releases a waker left on the fd.                        *)
IoRemove(d) ==
  /\ registered' = registered \ {d}
  /\ waiter' = [waiter EXCEPT ![d] = NoOp]

(* cexec_fd_close: deregister, close, empty the handle.                    *)
FdClose(h) ==
  /\ IoRemove(handle[h])
  /\ Close(handle[h], sock)
  /\ handle' = [handle EXCEPT ![h] = NoFd]

(* cexec_stream_close and cexec_listener_close.  No future from the handle *)
(* may outlive its registration (fd.c:20-21); a closed one stays closed.   *)
CloseHandle(h) ==
  /\ cur = NoOp
  /\ h # "box" /\ handle[h] # NoFd
  /\ \A o \in Op : On(o) = h => phase[o] = "none"
  /\ FdClose(h)
  /\ UNCHANGED <<opVars, dataVars>>

(* cexec_net_listen; it leaves no trace when the address is no good, or    *)
(* socket, bind, listen or the registration fails.                         *)
NetListen ==
  /\ cur = NoOp
  /\ handle["lis"] = NoFd /\ phase["accept"] = "none"
  /\ \E d \in Fd : /\ NewFd(d)
                   /\ sock' = [sock EXCEPT ![d] = "listening"]
                   /\ registered' = registered \cup {d}
                   /\ handle' = [handle EXCEPT !["lis"] = d]
  /\ UNCHANGED <<waiter, opVars, dataVars, link, chan>>

-----------------------------------------------------------------------------
(* The constructors.  One that finds no memory, or cannot read the address,*)
(* returns the null future and leaves no trace.  A handle is used as out   *)
(* only while it is closed, and the last result of a write is looked at.   *)
Start(o) ==
  /\ phase[o] = "none"
  /\ phase' = [phase EXCEPT ![o] = "new"]
  /\ UNCHANGED <<awaiting, readiness, woken>>

StartAccept ==
  /\ cur = NoOp
  /\ handle["srv"] = NoFd /\ phase["read"] = "none"
  /\ Start("accept")
  /\ UNCHANGED <<cur, fdVars, dataVars, kernVars>>

StartConnect ==
  /\ cur = NoOp
  /\ handle["cli"] = NoFd /\ phase["write"] = "none" /\ link = "none"
  /\ Start("connect")
  /\ sent' = 0 /\ known' = TRUE /\ recv' = <<>>
  /\ UNCHANGED <<cur, fdVars, all, len, off, kernVars>>

StartWrite ==
  /\ cur = NoOp
  /\ known /\ sent < Len0
  /\ Start("write")
  /\ all' \in BOOLEAN
  /\ len' \in 1 .. Len0 - sent
  /\ off' = 0
  /\ UNCHANGED <<cur, fdVars, sent, known, recv, kernVars>>

StartRead ==
  /\ cur = NoOp
  /\ Start("read")
  /\ UNCHANGED <<cur, fdVars, dataVars, kernVars>>

(* The owner polls a future, woken or not: join2 polls both its children.  *)
PollBegin(o) ==
  /\ cur = NoOp
  /\ phase[o] \in {"new", "pending"}
  /\ cur' = o
  /\ woken' = woken \ {o}
  /\ UNCHANGED <<fdVars, phase, awaiting, readiness, dataVars, kernVars>>

(* The poll of o returns READY; if it had to close, see FdClose.           *)
Ready(o) ==
  /\ cur' = NoOp
  /\ phase' = [phase EXCEPT ![o] = "ready"]
  /\ UNCHANGED <<awaiting, readiness, woken>>

-----------------------------------------------------------------------------
(* The top of the loop: poll the readiness future (interest_poll, io.c).   *)
(* The first poll arms it; later ones see whether the driver fired it.     *)
Resolved_Bug(o) == handle[On(o)] \notin registered  \* armed once, armed for ever
Resolved(o) == LET d == handle[On(o)]
               IN  d \notin registered \/ (readiness[o] = "armed" /\ waiter[d] = NoOp)

AwaitPending_Bug(o) ==                   \* Pending without arming
  /\ cur = o /\ o \in awaiting
  /\ readiness[o] # "null" /\ ~Resolved(o)
  /\ readiness' = [readiness EXCEPT ![o] = "armed"]
  /\ cur' = NoOp
  /\ phase' = [phase EXCEPT ![o] = "pending"]
  /\ UNCHANGED <<waiter, awaiting, woken, handle, registered, dataVars, kernVars>>

AwaitPending(o) ==
  /\ cur = o /\ o \in awaiting
  /\ readiness[o] # "null" /\ ~Resolved(o)
  /\ waiter' = [waiter EXCEPT ![handle[On(o)]] = IF readiness[o] = "fresh" THEN o ELSE @]
  /\ readiness' = [readiness EXCEPT ![o] = "armed"]
  /\ cur' = NoOp
  /\ phase' = [phase EXCEPT ![o] = "pending"]
  /\ UNCHANGED <<awaiting, woken, handle, registered, dataVars, kernVars>>

(* Drop the readiness future: interest_drop, io.c.  A waker that has not   *)
(* been called is given back.                                              *)
DropReadiness(o) ==
  /\ awaiting' = awaiting \ {o}
  /\ readiness' = [readiness EXCEPT ![o] = "null"]
  /\ waiter' = [d \in Fd |-> IF d = handle[On(o)] /\ o \in awaiting /\ readiness[o] = "armed"
                             THEN NoOp ELSE waiter[d]]

AwaitReady(o) ==
  /\ cur = o /\ o \in awaiting
  /\ readiness[o] # "null" /\ Resolved(o)
  /\ DropReadiness(o)
  /\ UNCHANGED <<handle, registered, phase, woken, cur, dataVars, kernVars>>

(* EAGAIN: build the readiness future and go round the loop.  When that    *)
(* allocation fails the future is null, and awaiting is set all the same.  *)
NewReadiness(o) ==
  /\ awaiting' = awaiting \cup {o}
  /\ \E r \in {"fresh"} \cup (IF OutOfMemory THEN {"null"} ELSE {}) :
       readiness' = [readiness EXCEPT ![o] = r]

AtCall(o) == cur = o /\ o \notin awaiting

WouldBlock(o) ==
  /\ AtCall(o) /\ o # "connect"
  /\ o = "write" => off < len
  /\ handle[On(o)] # NoFd /\ ~CallReady(o)
  /\ NewReadiness(o)
  /\ UNCHANGED <<fdVars, phase, woken, cur, dataVars, kernVars>>

-----------------------------------------------------------------------------
(* rw_poll with is_write, and writeall_poll: the kernel takes any part of  *)
(* what fits.  write reports it; write_all goes on until all is written.   *)
Written(n) == chan' = chan \o [i \in 1 .. n |-> sent + off + i]

Progress_Bug(n) == UNCHANGED off         \* write_all starts from the front
Progress(n) == off' = off + n

WriteSome ==
  /\ AtCall("write") /\ off < len
  /\ handle["cli"] # NoFd /\ link # "dead"
  /\ \E n \in 1 .. len - off :
       /\ Len(chan) + n <= Cap
       /\ Written(n)
       /\ IF all
          THEN Progress(n) /\ UNCHANGED <<sent, opVars>>
          ELSE sent' = sent + n /\ UNCHANGED off /\ Ready("write")
  /\ UNCHANGED <<fdVars, all, len, known, recv, sock, link>>

WriteAllDone ==
  /\ AtCall("write") /\ all /\ off >= len
  /\ sent' = sent + len
  /\ off' = 0
  /\ Ready("write")
  /\ UNCHANGED <<fdVars, all, len, known, recv, kernVars>>

(* EPIPE, ECONNRESET or EBADF: -errno, and no word of what went before.    *)
WriteFails ==
  /\ AtCall("write") /\ off < len
  /\ handle["cli"] = NoFd \/ link = "dead"
  /\ known' = (off = 0)
  /\ Ready("write")
  /\ UNCHANGED <<fdVars, all, len, off, sent, recv, kernVars>>

(* rw_poll without is_write: any part of what is there.                    *)
ReadSome ==
  /\ AtCall("read")
  /\ handle["srv"] # NoFd
  /\ \E n \in 1 .. Len(chan) :
       /\ recv' = recv \o SubSeq(chan, 1, n)
       /\ chan' = SubSeq(chan, n + 1, Len(chan))
  /\ Ready("read")
  /\ UNCHANGED <<fdVars, all, len, off, sent, known, sock, link>>

(* 0 at the end of the stream, -errno on a closed handle.                  *)
ReadEnds ==
  /\ AtCall("read")
  /\ handle["srv"] = NoFd \/ (chan = <<>> /\ ~Has("client"))
  /\ Ready("read")
  /\ UNCHANGED <<fdVars, dataVars, kernVars>>

-----------------------------------------------------------------------------
(* accept_poll.  The new fd is adopted into out, or closed without one.    *)
(* A failed adoption and a missing out close the server's end.             *)
AcceptOk ==
  /\ AtCall("accept")
  /\ handle["lis"] # NoFd /\ link = "queued"
  /\ \E d \in Fd :
       /\ NewFd(d)
       /\ Adopt("srv", d, "server")
       /\ IF handle'["srv"] = d
          THEN link' = "open" /\ UNCHANGED chan
          ELSE link' = (IF Has("client") THEN "dead" ELSE "none") /\ chan' = <<>>
  /\ Ready("accept")
  /\ UNCHANGED <<waiter, dataVars>>

(* Any other errno, as when there is no descriptor left: out is closed.    *)
AcceptFails ==
  /\ AtCall("accept")
  /\ handle["lis"] = NoFd \/ FdsUsedUp
  /\ Ready("accept")
  /\ UNCHANGED <<fdVars, dataVars, kernVars>>

-----------------------------------------------------------------------------
(* connect_poll, first time: a socket, its adoption into the box, connect. *)
ConnectStarts == AtCall("connect") /\ phase["connect"] = "new"

(* No socket to be had: out is closed.                                     *)
ConnectNoSocket ==
  /\ ConnectStarts /\ handle["box"] = NoFd
  /\ Ready("connect")
  /\ UNCHANGED <<fdVars, dataVars, kernVars>>

(* A socket that cannot be registered is closed again, and so is out.      *)
ConnectSocket ==
  /\ ConnectStarts /\ handle["box"] = NoFd
  /\ \E d \in Fd : NewFd(d) /\ Adopt("box", d, "client")
  /\ IF handle'["box"] = NoFd THEN Ready("connect") ELSE UNCHANGED opVars
  /\ UNCHANGED <<waiter, dataVars, link, chan>>

(* connect fails at once: the stream in the box is closed.                 *)
ConnectRefused ==
  /\ ConnectStarts /\ handle["box"] # NoFd
  /\ FdClose("box")
  /\ Ready("connect")
  /\ UNCHANGED dataVars

(* connect_hand_off: the stream moves to out; the box must forget it.      *)
HandOff_Bug(d) == handle' = [handle EXCEPT !["cli"] = d, !["box"] = d]
HandOff(d) == handle' = [handle EXCEPT !["cli"] = d, !["box"] = NoFd]

(* connect succeeds at once.                                               *)
ConnectAtOnce ==
  /\ ConnectStarts /\ handle["box"] # NoFd
  /\ Has("listening")
  /\ HandOff(handle["box"])
  /\ link' = "queued"
  /\ Ready("connect")
  /\ UNCHANGED <<registered, waiter, dataVars, sock, chan>>

(* EINPROGRESS: the poll goes on to await writability.                     *)
ConnectInProgress ==
  /\ ConnectStarts /\ handle["box"] # NoFd
  /\ link' = IF Has("listening") THEN "syn" ELSE "dead"
  /\ phase' = [phase EXCEPT !["connect"] = "pending"]
  /\ NewReadiness("connect")
  /\ UNCHANGED <<fdVars, woken, cur, dataVars, sock, chan>>

(* Writable: SO_ERROR says whether it worked.                              *)
ConnectDone ==
  /\ AtCall("connect") /\ phase["connect"] = "pending"
  /\ IF link # "dead"
     THEN HandOff(handle["box"]) /\ UNCHANGED <<registered, waiter, kernVars>>
     ELSE FdClose("box")
  /\ Ready("connect")
  /\ UNCHANGED dataVars

-----------------------------------------------------------------------------
(* rw_drop, writeall_drop, accept_drop, connect_drop: at any time between  *)
(* polls a future gives back its waker and is gone.                        *)
DropFuture(o) ==
  /\ cur = NoOp /\ phase[o] # "none"
  /\ phase' = [phase EXCEPT ![o] = "none"]
  /\ woken' = woken \ {o}
  /\ UNCHANGED cur

ReadDrop ==
  /\ DropFuture("read") /\ DropReadiness("read")
  /\ UNCHANGED <<handle, registered, dataVars, kernVars>>

(* A dropped write_all may have written part of its data.                  *)
WriteDrop ==
  /\ DropFuture("write") /\ DropReadiness("write")
  /\ known' = (known /\ off = 0)
  /\ off' = 0
  /\ UNCHANGED <<handle, registered, all, len, sent, recv, kernVars>>

AcceptDrop ==
  /\ DropFuture("accept") /\ DropReadiness("accept")
  /\ UNCHANGED <<handle, registered, dataVars, kernVars>>

(* connect closes a stream that was not handed off.                        *)
ConnectDrop ==
  /\ DropFuture("connect")
  /\ IF handle["box"] # NoFd
     THEN /\ awaiting' = awaiting \ {"connect"}
          /\ readiness' = [readiness EXCEPT !["connect"] = "null"]
          /\ FdClose("box")
     ELSE DropReadiness("connect") /\ UNCHANGED <<handle, registered, kernVars>>
  /\ UNCHANGED dataVars

-----------------------------------------------------------------------------
(* The idle executor parks, and the driver calls the waker of an fd that   *)
(* is ready.  A connected or listening socket may be reported for nothing. *)
Fire(d) ==
  /\ cur = NoOp /\ woken = {}
  /\ waiter[d] # NoOp
  /\ CallReady(waiter[d]) \/ waiter[d] # "connect"
  /\ woken' = {waiter[d]}
  /\ waiter' = [waiter EXCEPT ![d] = NoOp]
  /\ UNCHANGED <<handle, registered, phase, awaiting, readiness, cur, dataVars, kernVars>>

Turn(o) == AwaitPending(o) \/ AwaitReady(o) \/ WouldBlock(o)

ReadPoll    == Turn("read") \/ ReadSome \/ ReadEnds
WritePoll   == Turn("write") \/ WriteSome \/ WriteAllDone \/ WriteFails
AcceptPoll  == Turn("accept") \/ AcceptOk \/ AcceptFails
ConnectPoll == \/ Turn("connect") \/ ConnectNoSocket \/ ConnectSocket
               \/ ConnectRefused \/ ConnectAtOnce \/ ConnectInProgress \/ ConnectDone

Poll == ReadPoll \/ WritePoll \/ AcceptPoll \/ ConnectPoll

Next ==
  \/ NetListen \/ NetEstablish
  \/ \E h \in Handle : CloseHandle(h)
  \/ StartAccept \/ StartConnect \/ StartWrite \/ StartRead
  \/ \E o \in Op : PollBegin(o)
  \/ ReadPoll \/ WritePoll \/ AcceptPoll \/ ConnectPoll
  \/ ReadDrop \/ WriteDrop \/ AcceptDrop \/ ConnectDrop
  \/ \E d \in Fd : Fire(d)

Safe == Init /\ [][Next]_vars

(* The executor polls what was woken (one at a time, see Fire), a poll runs *)
(* on, the idle executor parks and the driver reports what is ready, and   *)
(* the kernel answers connect.                                             *)
Spec == /\ Safe
        /\ WF_vars(NetEstablish)
        /\ WF_vars(Poll)
        /\ SF_vars(\E o \in woken : PollBegin(o))
        /\ \A d \in Fd : SF_vars(Fire(d) /\ CallReady(waiter[d]))

-----------------------------------------------------------------------------
(* Every open descriptor belongs to exactly one handle, every handle to an *)
(* open descriptor that is registered with the driver (fd.c:18-26): nothing*)
(* is leaked or closed twice, whichever of adoption, connect, accept and   *)
(* drop fails or comes first.                                              *)
FdsAccounted ==
  /\ \A d \in Fd : sock[d] # "free" => \E h \in Handle : handle[h] = d
  /\ \A h \in Handle : handle[h] # NoFd => sock[handle[h]] # "free"
  /\ \A g, h \in Handle : g # h /\ handle[g] # NoFd => handle[g] # handle[h]
  /\ \A d \in Fd : d \in registered <=> sock[d] # "free"

(* The poll contract (future.c:21-25) for the four stream futures: one     *)
(* that returned Pending is armed on the fd it waits for, or was woken     *)
(* since; and a waker that is armed belongs to such a future, so that none *)
(* of a dropped or completed one is ever called.                           *)
PendingIsArranged ==
  /\ \A o \in Op : phase[o] = "pending" /\ cur # o =>
       /\ o \in awaiting /\ readiness[o] # "fresh"
       /\ o \in woken \/ waiter[handle[On(o)]] = o
  /\ \A d \in Fd : waiter[d] # NoOp =>
       /\ d \in registered /\ handle[On(waiter[d])] = d
       /\ phase[waiter[d]] = "pending"

(* What the server reads is what the client wrote, in order, none twice    *)
(* and none missing, across short writes, EAGAIN and any polls; and while  *)
(* the connection stands the client knows exactly how much of it the       *)
(* kernel has taken (stream.c:26-29, 165-174, 245-246), so that a write    *)
(* that is dropped while it waits has written nothing.                     *)
BytesExact ==
  LET taken == recv \o chan
  IN  /\ taken = [i \in 1 .. Len(taken) |-> i]
      /\ link \in {"queued", "open"} /\ known => Len(taken) = sent + off

(* A future whose socket call can do something is not left Pending.        *)
ReadyMoves ==
  \A o \in Op : (phase[o] = "pending" /\ CallReady(o)) ~> (phase[o] # "pending" \/ ~CallReady(o))

(* The null future is never polled (future.c:119-122).                     *)
ReadinessIsPollable == \A o \in awaiting : readiness[o] # "null"
=============================================================================
