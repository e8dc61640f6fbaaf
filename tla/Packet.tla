------------------------------- MODULE Packet -------------------------------
(***************************************************************************)
(* The packet layer lib/stream/packet.c: a packet_context cuts the bytes   *)
(* of a socket into packets and hands them to a callback, one per event,   *)
(* and queues packets to be sent.  With it the two users winexe and wmic   *)
(* have of it,                                                             *)
(*   "smb"  smbcli_transport (libcli/raw/clitransport.c): reads whatever   *)
(*          is pending, so that several packets may be buffered;           *)
(*   "rpc"  a DCERPC connection over TCP (librpc/rpc/dcerpc_sock.c): never *)
(*          reads past a packet, receives only while a read is pending.    *)
(*                                                                         *)
(* A byte is a pair <<packet, position>>; the length of a packet is known  *)
(* from its first Hdr bytes.  The event loop (lib/events) is the part of   *)
(* it this layer sees: due timers first, then a round over the file        *)
(* descriptors found ready, in which a handler may be called for a flag    *)
(* that the handler of another descriptor has just cleared.                *)
(* Allocation failures are left out.                                       *)
(***************************************************************************)
EXTENDS Integers, Sequences, SequencesExt

CONSTANTS Hdr,          \* bytes from which the length of a packet is known
          Sizes,        \* lengths of the packets the peer sends, in order
          OutSizes,     \* lengths of the packets the user sends, in order
          Scenarios     \* who uses the context and what may happen

\* One environment for a whole behaviour: the user of the context, whether its
\* callbacks may run the event loop, whether connections may break and users
\* give up.
Scenario == [user : {"smb", "rpc"}, nested : BOOLEAN, faults : BOOLEAN]

ASSUME ScenariosAssumption == Scenarios \subseteq Scenario
ASSUME HdrAssumption == Hdr \in Nat \ {0}
ASSUME SizesAssumption ==
    /\ Sizes \in Seq(Nat) /\ \A i \in DOMAIN Sizes : Sizes[i] >= Hdr
    /\ OutSizes \in Seq(Nat \ {0})

VARIABLES env,       \* the scenario
          pc,        \* struct packet_context, see packet_init
          fde,       \* flags of the socket's fd_event: read, write; freed
          timers,    \* scheduled packet_next_event
          round,     \* flags the event loop is about to report for the fde
          sock,      \* the TCP connection: in, closed, reset, out
          user,      \* pending_reads (more: raised by this callback), packets sent
          delivered, \* history: the blobs given to the callback
          ended      \* history: the error handler was called

vars == <<env, pc, fde, timers, round, sock, user, delivered, ended>>

User == env.user
Nested == env.nested
Faults == env.faults

\* packet_set_initial_read: a DCERPC header is never overread.
initial_read == IF User = "rpc" THEN Hdr ELSE 0

\* The bytes of packet i, and the byte after b in the stream.
Bytes(i) == [k \in 1 .. Sizes[i] |-> <<i, k>>]
Succ(b) == IF b[2] < Sizes[b[1]] THEN <<b[1], b[2] + 1>> ELSE <<b[1] + 1, 1>>

(***************************************************************************)
(* partial is the buffer with its num_read bytes; sock becomes FALSE in    *)
(* packet_error; send_queue holds the packets to be sent, with nsent.      *)
(***************************************************************************)
packet_init ==
    [partial |-> <<>>, packet_size |-> 0, sock |-> TRUE, processing |-> 0,
     recv_disable |-> User = "rpc", busy |-> FALSE, destructor_called |-> FALSE,
     freed |-> FALSE, send_queue |-> <<>>]

View == [p |-> pc, fde |-> fde, timers |-> timers, sock |-> sock, user |-> user,
         delivered |-> delivered, ended |-> ended]

Become(x) ==
    /\ pc' = x.p /\ fde' = x.fde /\ timers' = x.timers /\ sock' = x.sock
    /\ user' = x.user /\ delivered' = x.delivered /\ ended' = x.ended

num_read(x) == Len(x.p.partial)

\* A use of the fd_event; that of a freed one counts.
Use(d) == [d EXCEPT !.misused = d.misused \/ d.freed]

EVENT_FD_READABLE(x) == [x EXCEPT !.fde = [Use(x.fde) EXCEPT !.read = TRUE]]
EVENT_FD_NOT_READABLE(x) == [x EXCEPT !.fde = [Use(x.fde) EXCEPT !.read = FALSE]]
EVENT_FD_WRITEABLE(x) == [x EXCEPT !.fde = [Use(x.fde) EXCEPT !.write = TRUE]]
EVENT_FD_NOT_WRITEABLE(x) == [x EXCEPT !.fde = [Use(x.fde) EXCEPT !.write = FALSE]]

AddTimer(x) == [x EXCEPT !.timers = x.timers + 1]

\* Both error handlers free the fd_event with the socket (smbcli_sock_dead,
\* sock_dead).
packet_error(x) ==
    [x EXCEPT !.p = [x.p EXCEPT !.sock = FALSE],
              !.fde = [x.fde EXCEPT !.read = FALSE, !.write = FALSE, !.freed = TRUE],
              !.ended = TRUE]

packet_eof(x) == packet_error(x)

\* packet_full_request_nbt and sock_complete_packet; size 0: not set.
full_request(blob) ==
    IF Len(blob) < Hdr THEN [ok |-> FALSE, size |-> 0]
    ELSE LET size == Sizes[blob[1][1]] IN [ok |-> size <= Len(blob), size |-> size]

SetDisabled(x, on) == [x EXCEPT !.p = [x.p EXCEPT !.recv_disable = on]]

packet_recv_disable(x) == SetDisabled(EVENT_FD_NOT_READABLE(x), TRUE)

\* The test is the reverse of the one packet_next_event makes.
packet_recv_enable(x) ==
    LET y == SetDisabled(EVENT_FD_READABLE(x), FALSE)
    IN  IF num_read(y) # 0 /\ y.p.packet_size >= num_read(y) THEN AddTimer(y) ELSE y

Expect(x, n, more) == [x EXCEPT !.user = [x.user EXCEPT !.pending_reads = n, !.more = more]]

sock_send_read(x) ==
    LET y == Expect(x, x.user.pending_reads + 1, x.user.more)
    IN  IF y.user.pending_reads = 1 THEN packet_recv_enable(y) ELSE y

\* Mutant: receiving stays on when no read is pending.
sock_process_recv_stays_on(x) == Expect(x, x.user.pending_reads - 1, FALSE)

sock_process_recv(x) ==
    LET y == Expect(x, x.user.pending_reads - 1, FALSE)
    IN  IF y.user.pending_reads = 0 THEN packet_recv_disable(y) ELSE y

\* What the callback does first; the rest of it are steps of their own.
Callback(x) == IF User = "rpc" THEN sock_process_recv(x) ELSE x

\* full_request sets packet_size if it can.
Measured(x) ==
    LET size == full_request(x.p.partial).size
    IN  IF size = 0 THEN x ELSE [x EXCEPT !.p = [x.p EXCEPT !.packet_size = size]]

\* Mutant: the subtraction is made in the wrong variable.
Cut_negative(x) ==
    [x EXCEPT !.p = [x.p EXCEPT !.partial = <<>>,
                                !.packet_size = x.p.packet_size - num_read(x),
                                !.processing = 1, !.busy = TRUE],
              !.delivered = Append(x.delivered, SubSeq(x.p.partial, 1, x.p.packet_size))]

\* The first packet of the buffer, for the callback.
Cut(x) ==
    [x EXCEPT !.p = [x.p EXCEPT !.partial = SubSeq(x.p.partial, x.p.packet_size + 1, num_read(x)),
                                !.packet_size = 0, !.processing = 1, !.busy = TRUE],
              !.delivered = Append(x.delivered, SubSeq(x.p.partial, 1, x.p.packet_size))]

\* packet_recv from the label next_partial to the call of the callback.
next_partial(x) ==
    LET y == Measured(x)
    IN  IF full_request(x.p.partial).ok THEN Callback(Cut(y)) ELSE y

\* n bytes go from the socket to the buffer.
Take(x, n) ==
    [x EXCEPT !.p = [x.p EXCEPT !.partial = x.p.partial \o SubSeq(x.sock.in, 1, n)],
              !.sock = [x.sock EXCEPT !.in = SubSeq(x.sock.in, n + 1, Len(x.sock.in))]]

\* At most want bytes of what has arrived; a NULL socket is an error, as it is
\* for socket_pending before (lib/socket/socket.c).
socket_recv(x, want) ==
    LET n == IF want < Len(x.sock.in) THEN want ELSE Len(x.sock.in)
    IN  IF ~x.p.sock \/ x.sock.reset THEN packet_error(x)
        ELSE IF n > 0 THEN next_partial(Take(x, n))
        ELSE IF x.sock.closed THEN packet_eof(x) ELSE x

\* How much to read: the rest of the packet, or its header, or what is pending.
npending(x) ==
    IF x.p.packet_size # 0 THEN x.p.packet_size - num_read(x)
    ELSE IF initial_read # 0 THEN initial_read - num_read(x)
    ELSE Len(x.sock.in)

Buffered(x) == x.p.packet_size # 0 /\ num_read(x) >= x.p.packet_size

\* Mutant: packets are handed out while the callback runs.
packet_recv_reentrant(x) ==
    IF x.p.recv_disable THEN EVENT_FD_NOT_READABLE(x)
    ELSE IF Buffered(x) THEN next_partial(x)
    ELSE IF npending(x) = 0 THEN packet_eof(x)
    ELSE socket_recv(x, npending(x))

Processing(x, n) == [x EXCEPT !.p = [x.p EXCEPT !.processing = n]]

packet_recv(x) ==
    IF x.p.processing > 0 THEN Processing(EVENT_FD_NOT_READABLE(x), x.p.processing + 1)
    ELSE IF x.p.recv_disable THEN EVENT_FD_NOT_READABLE(x)
    ELSE IF Buffered(x) THEN next_partial(x)
    ELSE IF npending(x) = 0 THEN packet_eof(x)
    ELSE socket_recv(x, npending(x))

\* Mutant: the read flag that was cleared meanwhile stays cleared.
Idle_deaf(x) == [x EXCEPT !.p = [x.p EXCEPT !.busy = FALSE, !.processing = 0]]

\* busy and processing are reset.
Idle(x) ==
    LET y == IF x.p.processing > 1 THEN EVENT_FD_READABLE(x) ELSE x
    IN  [y EXCEPT !.p = [y.p EXCEPT !.busy = FALSE, !.processing = 0]]

\* packet_recv after the callback has returned (OK, as both callbacks do).
callback_returned(x) ==
    LET y == Idle(x)
    IN  IF y.p.partial = <<>> THEN y
        ELSE IF full_request(y.p.partial).ok THEN AddTimer(Measured(y)) ELSE Measured(y)

\* talloc_free(pc): its timers go with it, and the user frees the socket.
talloc_free_pc(x) ==
    [packet_error(x) EXCEPT !.p = [packet_init EXCEPT !.freed = TRUE, !.sock = FALSE],
                            !.timers = 0]

Queue(x, queue) == [x EXCEPT !.p = [x.p EXCEPT !.send_queue = queue]]

packet_send(x) ==
    LET el == [packet |-> x.user.sent + 1, nsent |-> 0]
        y == Queue(x, Append(x.p.send_queue, el))
    IN  EVENT_FD_WRITEABLE([y EXCEPT !.user = [x.user EXCEPT !.sent = x.user.sent + 1]])

(***************************************************************************)
(* The loop of packet_queue_run sends k packets and m bytes of the next.   *)
(* The peer has got the packets before out[1] and out[2] bytes of that one *)
(* (history); anything that does not go on from there garbles the stream.  *)
(***************************************************************************)
Start(el) == <<el.packet, el.nsent>>
End(el) == <<el.packet + 1, 0>>

Advance(el, m) == [packet |-> el.packet, nsent |-> el.nsent + m]

Sent(sk, queue, k, m) ==
    LET used == IF m = 0 THEN k ELSE k + 1
        gap == \E j \in 1 .. used :
                  Start(queue[j]) # IF j = 1 THEN sk.out ELSE End(queue[j - 1])
    IN  [sk EXCEPT !.out = IF m > 0 THEN Start(Advance(queue[k + 1], m))
                           ELSE IF k > 0 THEN End(queue[k]) ELSE sk.out,
                   !.garbled = sk.garbled \/ gap]

\* Mutant: a packet that was sent in part is sent again from its start.
Rest_restarts(queue, k, m) == SubSeq(queue, k + 1, Len(queue))

Rest(queue, k, m) ==
    LET left == SubSeq(queue, k + 1, Len(queue))
    IN  IF m = 0 THEN left ELSE <<Advance(Head(left), m)>> \o Tail(left)

\* What may be sent of packet k + 1: not all of it.
Parts(queue, k) ==
    IF k = Len(queue) THEN {0}
    ELSE 0 .. OutSizes[queue[k + 1].packet] - queue[k + 1].nsent - 1

packet_queue_run(x, k, m) ==
    LET queue == x.p.send_queue
        y == [Queue(x, Rest(queue, k, m)) EXCEPT !.sock = Sent(x.sock, queue, k, m)]
    IN  IF y.p.send_queue = <<>> THEN EVENT_FD_NOT_WRITEABLE(y) ELSE y

-----------------------------------------------------------------------------
Alive == ~pc.freed

\* The event loop runs: outside callbacks, or in a callback that runs it.
Looping == Alive /\ (pc.busy => Nested)

\* The rest of the round is lost when the fd_event is destroyed.
KeepRound == round' = IF fde'.freed THEN {} ELSE round

Ready(flag) ==
    /\ fde[flag]
    /\ flag = "read" => sock.in # <<>> \/ sock.closed \/ sock.reset

\* std_event_loop_once: no timer is due, so poll the descriptors.
poll ==
    /\ Looping
    /\ timers = 0
    /\ round = {} /\ ~fde.freed
    /\ \E flag \in {"read", "write"} : Ready(flag)
    /\ round' = {flag \in {"read", "write"} : Ready(flag)}
    /\ UNCHANGED <<pc, fde, timers, sock, user, delivered, ended>>

\* The flag the handler acts upon (smbcli_transport_event_handler returns after
\* a read, sock_io_handler after a write).
Handled == IF "read" \in round /\ "write" \in round
           THEN IF User = "rpc" THEN "write" ELSE "read"
           ELSE CHOOSE flag \in round : TRUE

\* A socket that is ready takes at least a byte.
event_handler ==
    /\ Looping
    /\ round # {}
    /\ IF Handled = "read" THEN Become(packet_recv(View))
       ELSE IF sock.reset THEN Become(packet_error(View))
       ELSE \E k \in 0 .. Len(pc.send_queue) : \E m \in Parts(pc.send_queue, k) :
               /\ k + m = 0 => pc.send_queue = <<>>
               /\ Become(packet_queue_run(View, k, m))
    /\ round' = {}

NextReady(x) == num_read(x) # 0 /\ x.p.packet_size # 0 /\ x.p.packet_size <= num_read(x)

packet_next_event ==
    /\ Looping
    /\ timers > 0 /\ round = {}
    /\ LET x == [View EXCEPT !.timers = timers - 1]
       IN  Become(IF NextReady(x) THEN packet_recv(x) ELSE x)
    /\ UNCHANGED round

callback_returns ==
    /\ pc.busy
    /\ Become(IF pc.destructor_called THEN talloc_free_pc(View) ELSE callback_returned(View))
    /\ KeepRound

-----------------------------------------------------------------------------
(***************************************************************************)
(* The user, from the callback or from other handlers of the event loop.   *)
(***************************************************************************)

\* Mutant: a dead socket is not noticed.
UserSend_unchecked ==
    /\ Alive
    /\ user.sent < Len(OutSizes)
    /\ LET x == packet_send(View)
       IN  Become(IF User = "rpc" THEN sock_send_read(x) ELSE x)
    /\ UNCHANGED round

\* smbcli_transport_send and sock_send_request refuse a dead socket.
UserSend ==
    /\ Alive /\ ~ended
    /\ user.sent < Len(OutSizes)
    /\ LET x == packet_send(View)
       IN  Become(IF User = "rpc" THEN sock_send_read(x) ELSE x)
    /\ UNCHANGED round

\* Another fragment of the answer is expected (dcerpc_request_recv_data).
UserReadMore ==
    /\ User = "rpc"
    /\ Alive /\ ~ended
    /\ pc.busy /\ ~user.more
    /\ user.pending_reads < Len(Sizes)
    /\ LET x == sock_send_read(View) IN Become(Expect(x, x.user.pending_reads, TRUE))
    /\ UNCHANGED round

\* The transport is freed: at once, or after the callback that did it.
UserFree ==
    /\ Faults
    /\ Alive /\ ~pc.destructor_called
    /\ LET x == [packet_error(View) EXCEPT !.sock = [sock EXCEPT !.reset = TRUE]]
       IN  Become(IF pc.busy THEN [x EXCEPT !.p = [x.p EXCEPT !.destructor_called = TRUE]]
                             ELSE talloc_free_pc(x))
    /\ KeepRound

UserStep == UserSend \/ UserReadMore \/ UserFree

\* The peer (external) sends the next byte.
PeerSend ==
    /\ ~sock.closed /\ ~sock.reset
    /\ sock.next[1] <= Len(Sizes)
    /\ sock' = [sock EXCEPT !.in = Append(sock.in, sock.next), !.next = Succ(sock.next)]
    /\ UNCHANGED <<pc, fde, timers, round, user, delivered, ended>>

PeerClose ==
    /\ ~sock.closed /\ ~sock.reset
    /\ sock' = [sock EXCEPT !.closed = TRUE]
    /\ UNCHANGED <<pc, fde, timers, round, user, delivered, ended>>

ConnectionReset ==
    /\ Faults /\ ~sock.reset
    /\ sock' = [sock EXCEPT !.reset = TRUE, !.in = <<>>]
    /\ UNCHANGED <<pc, fde, timers, round, user, delivered, ended>>

Peer == PeerSend \/ PeerClose \/ ConnectionReset

-----------------------------------------------------------------------------
\* smbcli_transport_init adds the fd_event for reading, dcerpc_sock for nothing.
Init ==
    /\ env \in Scenarios
    /\ pc = packet_init
    /\ fde = [read |-> User # "rpc", write |-> FALSE, freed |-> FALSE, misused |-> FALSE]
    /\ timers = 0
    /\ round = {}
    /\ sock = [in |-> <<>>, next |-> <<1, 1>>, closed |-> FALSE, reset |-> FALSE,
               out |-> <<1, 0>>, garbled |-> FALSE]
    /\ user = [pending_reads |-> 0, more |-> FALSE, sent |-> 0]
    /\ delivered = <<>>
    /\ ended = FALSE

EventLoop == poll \/ event_handler \/ packet_next_event \/ callback_returns

Next == (EventLoop \/ UserStep \/ Peer) /\ UNCHANGED env

Spec == Init /\ [][Next]_vars

\* The event loop runs and callbacks return.  Nothing is assumed of the user
\* and the peer.
Fairness ==
    /\ WF_vars(poll /\ UNCHANGED env)
    /\ WF_vars(event_handler /\ UNCHANGED env)
    /\ WF_vars(packet_next_event /\ UNCHANGED env)
    /\ WF_vars(callback_returns /\ UNCHANGED env)

FairSpec == Spec /\ Fairness

-----------------------------------------------------------------------------
Byte == {b \in (DOMAIN Sizes) \X (Nat \ {0}) : b[2] <= Sizes[b[1]]}
SendElement == [packet : DOMAIN OutSizes, nsent : Nat]

TypeOK ==
    /\ env \in Scenarios
    /\ pc \in [partial : Seq(Byte), packet_size : Nat, sock : BOOLEAN,
               processing : Nat, recv_disable : BOOLEAN, busy : BOOLEAN,
               destructor_called : BOOLEAN, freed : BOOLEAN, send_queue : Seq(SendElement)]
    /\ fde \in [read : BOOLEAN, write : BOOLEAN, freed : BOOLEAN, misused : BOOLEAN]
    /\ timers \in Nat
    /\ round \subseteq {"read", "write"}
    /\ sock \in [in : Seq(Byte), next : Nat \X Nat, closed : BOOLEAN, reset : BOOLEAN,
                 out : Nat \X Nat, garbled : BOOLEAN]
    /\ user \in [pending_reads : Int, more : BOOLEAN, sent : 0 .. Len(OutSizes)]
    /\ delivered \in Seq(Seq(Byte))
    /\ ended \in BOOLEAN

\* The context never waits for something that will not be signalled: when
\* receiving is on, the loop watches the socket, and a complete packet in the
\* buffer has an event of its own (packet.c: "creating a immediate event for
\* any secondary packets when more than one packet is read at one time").
Attentive ==
    Alive /\ ~pc.busy /\ ~pc.recv_disable /\ ~ended =>
        /\ fde.read
        /\ full_request(pc.partial).ok => timers > 0

\* What is queued is waiting for the socket, and the bytes that went out are
\* the packets in the order of packet_send, however the socket took them.
SendQueueServed ==
    /\ Alive /\ ~ended /\ pc.send_queue # <<>> => fde.write
    /\ ~sock.garbled
    /\ Alive => sock.out = IF pc.send_queue = <<>> THEN <<user.sent + 1, 0>>
                           ELSE Start(Head(pc.send_queue))

\* lib/stream/packet.c, above packet_destructor: "a destructor used when we are
\* processing packets to prevent freeing of this context while it is being used".
\* Its fd_event is not protected so: the error handler frees it with the socket,
\* possibly in a loop the callback runs, and packet_recv goes on using it.
NoFreedFdEvent == ~fde.misused

\* The only use of an fd_event that the error handler has freed: packet_recv was
\* called in a loop the callback ran, and switches reading on again when the
\* callback returns.  No other operation, of the context or of its users, touches
\* it, whenever the connection breaks or is given up.
FreedFdEventUntouched ==
    [][fde'.misused => fde.misused \/ (Nested /\ pc.busy /\ pc.processing > 1 /\ ~pc'.busy)]_vars

\* sock_process_recv decrements an unsigned counter: no packet is handed out
\* when no read is pending, also if the peer sends more than was asked for.
ReadsMatched ==
    User = "rpc" /\ Alive =>
        /\ user.pending_reads >= 0
        /\ pc.recv_disable <=> user.pending_reads = 0

-----------------------------------------------------------------------------
\* The packets the peer has sent completely.
SentPackets == [i \in 1 .. sock.next[1] - 1 |-> i]

\* The packet a blob is; 0 if it is none.
PacketOf(blob) ==
    IF \E i \in DOMAIN Sizes : blob = Bytes(i)
    THEN CHOOSE i \in DOMAIN Sizes : blob = Bytes(i) ELSE 0

Channel == INSTANCE MessageStream WITH
    Message <- DOMAIN Sizes,
    sent <- SentPackets,
    delivered <- [i \in DOMAIN delivered |-> PacketOf(delivered[i])],
    handling <- pc.busy,
    up <- ~ended,
    broken <- sock.reset

\* The stream of bytes, whatever its segments, is a queue of packets to the
\* callback: whole, in order, once, one at a time, none missing at the end; and
\* every packet does arrive on the SMB transport, where receiving is always on.
ImplementsStream == Channel!Spec /\ (User = "smb" => Channel!Fairness)
=============================================================================
