--------------------------- MODULE PacketProofs ---------------------------
(***************************************************************************)
(* Theorems about Packet, for packets of any sizes in any number and every *)
(* user of the context: types, FreedFdEventUntouched, ReadsMatched,        *)
(* Attentive, SendQueueServed, and that every step of the packet layer is  *)
(* a step of MessageStream.                                                *)
(***************************************************************************)
EXTENDS Packet, SequenceTheorems, TLAPS

(***************************************************************************)
(* Lists that are cut in two and joined.                                   *)
(***************************************************************************)

\* A list cut in two and put together.
LEMMA CatFacts ==
    ASSUME NEW S, NEW a \in Seq(S), NEW b \in Seq(S), NEW w, w = a \o b
    PROVE  /\ w \in Seq(S) /\ Len(w) = Len(a) + Len(b) /\ Len(a) \in Nat /\ Len(b) \in Nat
           /\ \A i \in 1 .. Len(a) : w[i] = a[i]
           /\ \A i \in 1 .. Len(b) : w[Len(a) + i] = b[i]
  <1>1. w \in Seq(S) /\ Len(w) = Len(a) + Len(b) /\ Len(a) \in Nat /\ Len(b) \in Nat
    BY ConcatProperties
  <1>2. \A i \in 1 .. Len(a) + Len(b) : w[i] = IF i <= Len(a) THEN a[i] ELSE b[i - Len(a)]
    BY ConcatProperties
  <1>3. \A i \in 1 .. Len(a) : w[i] = a[i]
    BY <1>1, <1>2
  <1>4. ASSUME NEW i \in 1 .. Len(b) PROVE w[Len(a) + i] = b[i]
    <2>1. /\ Len(a) + i \in 1 .. Len(a) + Len(b) /\ ~(Len(a) + i <= Len(a))
          /\ (Len(a) + i) - Len(a) = i
      BY <1>1
    <2> QED BY <1>2, <2>1
  <1> QED BY <1>1, <1>3, <1>4

LEMMA PrefixFacts ==
    ASSUME NEW S, NEW s \in Seq(S), NEW n \in 0 .. Len(s), NEW v, v = SubSeq(s, 1, n)
    PROVE  v \in Seq(S) /\ Len(v) = n /\ \A i \in 1 .. n : v[i] = s[i]
  <1>1. Len(s) \in Nat /\ \A i \in 1 .. n : s[i] \in S
    OBVIOUS
  <1>2. v \in Seq(S) /\ Len(v) = n
    BY <1>1, SubSeqProperties
  <1>3. \A i \in 1 .. n : v[i] = s[i]
    BY <1>1, SubSeqProperties
  <1> QED BY <1>2, <1>3

LEMMA DropFacts ==
    ASSUME NEW S, NEW s \in Seq(S), NEW n \in 0 .. Len(s), NEW v, v = SubSeq(s, n + 1, Len(s))
    PROVE  v \in Seq(S) /\ Len(v) = Len(s) - n /\ \A i \in 1 .. Len(s) - n : v[i] = s[i + n]
  <1>1. Len(s) \in Nat /\ \A i \in n + 1 .. Len(s) : s[i] \in S
    OBVIOUS
  <1>2. v \in Seq(S) /\ Len(v) = Len(s) - n
    BY <1>1, SubSeqProperties
  <1>3. \A i \in 1 .. Len(s) - n : v[i] = s[i + n]
    BY <1>1, SubSeqProperties
  <1> QED BY <1>2, <1>3

LEMMA CutAndJoin ==
    ASSUME NEW S, NEW s \in Seq(S), NEW n \in 0 .. Len(s)
    PROVE  SubSeq(s, 1, n) \o SubSeq(s, n + 1, Len(s)) = s
  <1>1. PICK a : a = SubSeq(s, 1, n)
    OBVIOUS
  <1>2. PICK b : b = SubSeq(s, n + 1, Len(s))
    OBVIOUS
  <1>3. a \in Seq(S) /\ Len(a) = n /\ \A i \in 1 .. n : a[i] = s[i]
    BY <1>1, PrefixFacts
  <1>4. b \in Seq(S) /\ Len(b) = Len(s) - n /\ \A i \in 1 .. Len(s) - n : b[i] = s[i + n]
    BY <1>2, DropFacts
  <1>5. PICK w : w = a \o b
    OBVIOUS
  <1>6. /\ w \in Seq(S) /\ Len(w) = Len(a) + Len(b)
        /\ \A i \in 1 .. Len(a) : w[i] = a[i]
        /\ \A i \in 1 .. Len(b) : w[Len(a) + i] = b[i]
    BY <1>3, <1>4, <1>5, CatFacts
  <1>7. Len(s) \in Nat /\ Len(w) = Len(s)
    BY <1>3, <1>4, <1>6
  <1>8. ASSUME NEW i \in 1 .. Len(s) PROVE w[i] = s[i]
    <2>1. CASE i <= n
      <3>1. i \in 1 .. n
        BY <1>7, <2>1
      <3> QED BY <1>3, <1>6, <3>1
    <2>2. CASE ~(i <= n)
      <3>1. PICK j \in 1 .. Len(s) - n : i = n + j
        <4>1. i - n \in 1 .. Len(s) - n /\ i = n + (i - n)
          BY <1>7, <2>2
        <4> QED BY <4>1
      <3>2. w[n + j] = b[j]
        BY <1>3, <1>4, <1>6, <3>1
      <3>3. b[j] = s[j + n] /\ j + n = n + j
        BY <1>4, <1>7, <3>1
      <3> QED BY <3>1, <3>2, <3>3
    <2> QED BY <2>1, <2>2
  <1> QED BY <1>1, <1>2, <1>5, <1>6, <1>7, <1>8, SeqEqual

-----------------------------------------------------------------------------
Contexts == [partial : Seq(Byte), packet_size : Nat, sock : BOOLEAN,
             processing : Nat, recv_disable : BOOLEAN, busy : BOOLEAN,
             destructor_called : BOOLEAN, freed : BOOLEAN, send_queue : Seq(SendElement)]
FdEvents == [read : BOOLEAN, write : BOOLEAN, freed : BOOLEAN, misused : BOOLEAN]
Sockets == [in : Seq(Byte), next : Nat \X Nat, closed : BOOLEAN, reset : BOOLEAN,
            out : Nat \X Nat, garbled : BOOLEAN]
Users == [pending_reads : Int, more : BOOLEAN, sent : 0 .. Len(OutSizes)]

Views == [p : Contexts, fde : FdEvents, timers : Nat, sock : Sockets, user : Users,
          delivered : Seq(Seq(Byte)), ended : BOOLEAN]

(***************************************************************************)
(* The invariant, of a view.                                               *)
(***************************************************************************)
\* The fd_event lives as long as the socket, and the callback runs at most once
\* at a time; packet_recv is called during it only where it runs the loop.
Living(x) ==
    /\ x.p.sock <=> ~x.ended
    /\ x.fde.freed <=> x.ended
    /\ x.p.freed => x.ended /\ ~x.p.busy /\ x.sock.reset
    /\ x.p.destructor_called => x.ended /\ x.sock.reset
    /\ x.p.busy <=> x.p.processing > 0
    /\ ~Nested => x.p.processing <= 1

\* What is known of the size of the first packet in the buffer.
Sized(x) ==
    /\ x.p.busy => x.p.packet_size = 0
    /\ ~x.p.busy => x.p.packet_size = full_request(x.p.partial).size

\* DCERPC reads a packet at a time, and only when it waits for one.
Metered(x) ==
    IF User = "rpc"
    THEN /\ ~x.p.freed => /\ x.user.pending_reads >= 0
                          /\ x.p.recv_disable <=> x.user.pending_reads = 0
         /\ x.timers = 0
         /\ x.p.busy \/ x.p.recv_disable => x.p.partial = <<>>
         /\ ~full_request(x.p.partial).ok
    ELSE ~x.p.recv_disable \/ x.p.freed

Watching(x) ==
    ~x.p.recv_disable /\ ~x.ended => x.fde.read \/ x.p.processing > 1

Signalled(x) ==
    ~x.p.busy /\ ~x.p.recv_disable /\ ~x.ended /\ full_request(x.p.partial).ok =>
        x.timers > 0

\* The bytes that have arrived and were not handed out.
Waiting(x) == x.p.partial \o x.sock.in

\* Bytes that follow each other; the second conjunct is the first, repeated.
Run(w) ==
    /\ \A j \in 1 .. Len(w) - 1 : w[j + 1] = Succ(w[j])
    /\ \A j \in 1 .. Len(w) : \A m \in Nat :
          j + m <= Len(w) /\ w[j][2] + m <= Sizes[w[j][1]] => w[j + m] = <<w[j][1], w[j][2] + m>>

Earlier(b, c) == b[1] < c[1] \/ (b[1] = c[1] /\ b[2] < c[2])

\* From the first byte that was not handed out to the next one to be sent.
First(x) == <<Len(x.delivered) + 1, 1>>

Streaming(x) ==
    LET w == Waiting(x)
    IN  /\ Run(w)
        /\ ~x.p.freed =>
              /\ w # <<>> => w[1] = First(x)
              /\ ~x.sock.reset =>
                    x.sock.next = IF w = <<>> THEN First(x) ELSE Succ(w[Len(w)])
        /\ \A j \in 1 .. Len(w) : Earlier(w[j], x.sock.next)
        /\ Len(x.delivered) < x.sock.next[1] /\ x.sock.next[1] <= Len(Sizes) + 1
        /\ x.sock.next[2] > 0
        /\ x.sock.next[1] <= Len(Sizes) => x.sock.next[2] <= Sizes[x.sock.next[1]]
        /\ \A d \in 1 .. Len(x.delivered) : x.delivered[d] = Bytes(d)

\* The queue goes on where the peer stopped receiving.
Queueing(x) ==
    LET queue == x.p.send_queue
    IN  /\ ~x.sock.garbled
        /\ ~x.p.freed =>
              /\ \A j \in 1 .. Len(queue) :
                    /\ queue[j].packet = x.sock.out[1] + j - 1
                    /\ queue[j].nsent = IF j = 1 THEN x.sock.out[2] ELSE 0
                    /\ queue[j].nsent < OutSizes[queue[j].packet]
              /\ x.sock.out[1] + Len(queue) = x.user.sent + 1
              /\ queue = <<>> => x.sock.out[2] = 0
              /\ ~x.ended /\ queue # <<>> => x.fde.write

Good(x) ==
    /\ x \in Views
    /\ Living(x) /\ Sized(x) /\ Metered(x) /\ Watching(x) /\ Streaming(x) /\ Queueing(x)

\* What the loop is about to report is still so.
Reporting ==
    /\ round \subseteq {"read", "write"}
    /\ fde.freed => round = {}
    /\ "read" \in round => sock.in # <<>> \/ sock.closed \/ sock.reset

IInv == env \in Scenarios /\ Good(View) /\ Signalled(View) /\ Reporting


-----------------------------------------------------------------------------
(***************************************************************************)
(* What the operations do to the parts of a view.                          *)
(***************************************************************************)
SameButFde(x, y) ==
    /\ y.p = x.p /\ y.timers = x.timers /\ y.sock = x.sock /\ y.user = x.user
    /\ y.delivered = x.delivered /\ y.ended = x.ended

SameButP(x, y) ==
    /\ y.fde = x.fde /\ y.timers = x.timers /\ y.sock = x.sock /\ y.user = x.user
    /\ y.delivered = x.delivered /\ y.ended = x.ended

LEMMA Parts1 ==
    ASSUME NEW x \in Views
    PROVE  /\ x.p \in Contexts /\ x.fde \in FdEvents /\ x.timers \in Nat /\ x.sock \in Sockets
           /\ x.user \in Users /\ x.delivered \in Seq(Seq(Byte)) /\ x.ended \in BOOLEAN
  BY DEF Views

LEMMA PFacts ==
    ASSUME NEW x \in Views, NEW q \in Contexts, NEW y, y = [x EXCEPT !.p = q]
    PROVE  y \in Views /\ SameButP(x, y) /\ y.p = q
  BY DEF Views, SameButP

LEMMA FdeFacts ==
    ASSUME NEW x \in Views, NEW d \in FdEvents, NEW y, y = [x EXCEPT !.fde = d]
    PROVE  y \in Views /\ SameButFde(x, y) /\ y.fde = d
  BY DEF Views, SameButFde

LEMMA UseFacts ==
    ASSUME NEW d \in FdEvents, ~d.freed
    PROVE  Use(d) = d
  <1>1. d = [read |-> d.read, write |-> d.write, freed |-> d.freed, misused |-> d.misused]
    BY DEF FdEvents
  <1>2. (d.misused \/ d.freed) = d.misused
    BY DEF FdEvents
  <1> QED BY <1>1, <1>2 DEF Use, FdEvents

LEMMA ReadableFacts ==
    ASSUME NEW x \in Views, ~x.fde.freed, NEW y, y = EVENT_FD_READABLE(x)
    PROVE  /\ y \in Views /\ SameButFde(x, y)
           /\ y.fde.read /\ y.fde.write = x.fde.write /\ ~y.fde.freed
           /\ y.fde.misused = x.fde.misused
  <1>1. x.fde \in FdEvents /\ Use(x.fde) = x.fde
    BY Parts1, UseFacts
  <1>2. PICK d : d = [x.fde EXCEPT !.read = TRUE]
    OBVIOUS
  <1>3. /\ d \in FdEvents /\ d.read /\ d.write = x.fde.write /\ ~d.freed
        /\ d.misused = x.fde.misused
    BY <1>1, <1>2 DEF FdEvents
  <1>4. y = [x EXCEPT !.fde = d]
    BY <1>1, <1>2 DEF EVENT_FD_READABLE
  <1>5. y \in Views /\ SameButFde(x, y) /\ y.fde = d
    BY <1>3, <1>4, FdeFacts
  <1> QED BY <1>3, <1>5

\* Also if the fd_event is freed, in which case this use of it counts.
LEMMA ReadableUse ==
    ASSUME NEW x \in Views, NEW y, y = EVENT_FD_READABLE(x)
    PROVE  /\ y \in Views /\ SameButFde(x, y)
           /\ y.fde.read /\ y.fde.write = x.fde.write /\ y.fde.freed = x.fde.freed
           /\ y.fde.misused => x.fde.misused \/ x.fde.freed
  <1>1. x.fde \in FdEvents
    BY Parts1
  <1>2. PICK bad \in BOOLEAN : bad = (x.fde.misused \/ x.fde.freed)
    OBVIOUS
  <1>3. PICK d : d = [[x.fde EXCEPT !.misused = bad] EXCEPT !.read = TRUE]
    OBVIOUS
  <1>4. /\ d \in FdEvents /\ d.read /\ d.write = x.fde.write /\ d.freed = x.fde.freed
        /\ d.misused = bad
    BY <1>1, <1>3 DEF FdEvents
  <1>5. y = [x EXCEPT !.fde = d]
    BY <1>2, <1>3 DEF EVENT_FD_READABLE, Use
  <1>6. y \in Views /\ SameButFde(x, y) /\ y.fde = d
    BY <1>4, <1>5, FdeFacts
  <1> QED BY <1>2, <1>4, <1>6

LEMMA NotReadableFacts ==
    ASSUME NEW x \in Views, ~x.fde.freed, NEW y, y = EVENT_FD_NOT_READABLE(x)
    PROVE  /\ y \in Views /\ SameButFde(x, y)
           /\ y.fde.write = x.fde.write /\ ~y.fde.freed
           /\ y.fde.misused = x.fde.misused
  <1>1. x.fde \in FdEvents /\ Use(x.fde) = x.fde
    BY Parts1, UseFacts
  <1>2. PICK d : d = [x.fde EXCEPT !.read = FALSE]
    OBVIOUS
  <1>3. /\ d \in FdEvents /\ d.write = x.fde.write /\ ~d.freed
        /\ d.misused = x.fde.misused
    BY <1>1, <1>2 DEF FdEvents
  <1>4. y = [x EXCEPT !.fde = d]
    BY <1>1, <1>2 DEF EVENT_FD_NOT_READABLE
  <1>5. y \in Views /\ SameButFde(x, y) /\ y.fde = d
    BY <1>3, <1>4, FdeFacts
  <1> QED BY <1>3, <1>5

LEMMA WriteableFacts ==
    ASSUME NEW x \in Views, ~x.fde.freed, NEW y, y = EVENT_FD_WRITEABLE(x)
    PROVE  /\ y \in Views /\ SameButFde(x, y)
           /\ y.fde.write /\ y.fde.read = x.fde.read /\ ~y.fde.freed
           /\ y.fde.misused = x.fde.misused
  <1>1. x.fde \in FdEvents /\ Use(x.fde) = x.fde
    BY Parts1, UseFacts
  <1>2. PICK d : d = [x.fde EXCEPT !.write = TRUE]
    OBVIOUS
  <1>3. /\ d \in FdEvents /\ d.write /\ d.read = x.fde.read /\ ~d.freed
        /\ d.misused = x.fde.misused
    BY <1>1, <1>2 DEF FdEvents
  <1>4. y = [x EXCEPT !.fde = d]
    BY <1>1, <1>2 DEF EVENT_FD_WRITEABLE
  <1>5. y \in Views /\ SameButFde(x, y) /\ y.fde = d
    BY <1>3, <1>4, FdeFacts
  <1> QED BY <1>3, <1>5

LEMMA NotWriteableFacts ==
    ASSUME NEW x \in Views, ~x.fde.freed, NEW y, y = EVENT_FD_NOT_WRITEABLE(x)
    PROVE  /\ y \in Views /\ SameButFde(x, y)
           /\ y.fde.read = x.fde.read /\ ~y.fde.freed
           /\ y.fde.misused = x.fde.misused
  <1>1. x.fde \in FdEvents /\ Use(x.fde) = x.fde
    BY Parts1, UseFacts
  <1>2. PICK d : d = [x.fde EXCEPT !.write = FALSE]
    OBVIOUS
  <1>3. /\ d \in FdEvents /\ d.read = x.fde.read /\ ~d.freed
        /\ d.misused = x.fde.misused
    BY <1>1, <1>2 DEF FdEvents
  <1>4. y = [x EXCEPT !.fde = d]
    BY <1>1, <1>2 DEF EVENT_FD_NOT_WRITEABLE
  <1>5. y \in Views /\ SameButFde(x, y) /\ y.fde = d
    BY <1>3, <1>4, FdeFacts
  <1> QED BY <1>3, <1>5

LEMMA ErrorFacts ==
    ASSUME NEW x \in Views, NEW y, y = packet_error(x)
    PROVE  /\ y \in Views /\ y.ended
           /\ y.timers = x.timers /\ y.sock = x.sock /\ y.user = x.user
           /\ y.delivered = x.delivered
           /\ y.fde.freed /\ y.fde.misused = x.fde.misused
           /\ y.p = [x.p EXCEPT !.sock = FALSE]
  <1>1. x.p \in Contexts /\ x.fde \in FdEvents
    BY Parts1
  <1>2. PICK q : q = [x.p EXCEPT !.sock = FALSE]
    OBVIOUS
  <1>3. PICK d : d = [x.fde EXCEPT !.read = FALSE, !.write = FALSE, !.freed = TRUE]
    OBVIOUS
  <1>4. q \in Contexts
    BY <1>1, <1>2 DEF Contexts
  <1>5. d \in FdEvents /\ d.freed /\ d.misused = x.fde.misused
    BY <1>1, <1>3 DEF FdEvents
  <1>6. y = [x EXCEPT !.p = q, !.fde = d, !.ended = TRUE]
    BY <1>2, <1>3 DEF packet_error
  <1>7. /\ y.p = q /\ y.fde = d /\ y.ended = TRUE /\ y.timers = x.timers /\ y.sock = x.sock
        /\ y.user = x.user /\ y.delivered = x.delivered
    BY <1>6 DEF Views
  <1>8. y \in Views
    BY <1>4, <1>5, <1>6 DEF Views
  <1> QED BY <1>2, <1>5, <1>7, <1>8


LEMMA SizeFacts ==
    ASSUME NEW blob \in Seq(Byte), NEW f, f = full_request(blob)
    PROVE  /\ f.size \in Nat /\ f.ok \in BOOLEAN
           /\ f.size = 0 <=> Len(blob) < Hdr
           /\ f.size # 0 => blob # <<>> /\ f.size = Sizes[blob[1][1]] /\ f.size >= Hdr
           /\ f.ok <=> f.size # 0 /\ f.size <= Len(blob)
  <1>1. CASE Len(blob) < Hdr
    BY <1>1 DEF full_request
  <1>2. CASE ~(Len(blob) < Hdr)
    <2>1. Hdr \in Nat /\ Hdr # 0 /\ Len(blob) \in Nat /\ Len(blob) >= Hdr
      BY <1>2, HdrAssumption
    <2>2. Len(blob) >= 1 /\ blob[1] \in Byte
      BY <2>1
    <2>3. blob[1][1] \in DOMAIN Sizes
      BY <2>2 DEF Byte
    <2>4. PICK size : size = Sizes[blob[1][1]]
      OBVIOUS
    <2>5. size \in Nat /\ size >= Hdr
      BY <2>3, <2>4, SizesAssumption
    <2>6. f = [ok |-> size <= Len(blob), size |-> size]
      BY <1>2, <2>4 DEF full_request
    <2>7. f.size = size /\ f.ok = (size <= Len(blob))
      BY <2>6
    <2>8. blob # <<>>
      BY <2>2
    <2>9. f.ok \in BOOLEAN
      BY <2>7
    <2>10. f.ok <=> f.size <= Len(blob)
      BY <2>7
    <2>11. f.size # 0 /\ f.size \in Nat /\ f.size >= Hdr
      BY <2>1, <2>5, <2>7
    <2> QED BY <1>2, <2>4, <2>7, <2>8, <2>9, <2>10, <2>11
  <1> QED BY <1>1, <1>2

LEMMA DisabledFacts ==
    ASSUME NEW x \in Views, NEW on \in BOOLEAN, NEW y, y = SetDisabled(x, on)
    PROVE  /\ y \in Views /\ SameButP(x, y) /\ y.p.recv_disable = on
           /\ y.p.partial = x.p.partial /\ y.p.packet_size = x.p.packet_size
           /\ y.p.sock = x.p.sock /\ y.p.processing = x.p.processing /\ y.p.busy = x.p.busy
           /\ y.p.destructor_called = x.p.destructor_called /\ y.p.freed = x.p.freed
           /\ y.p.send_queue = x.p.send_queue
  <1>1. PICK q : q = [x.p EXCEPT !.recv_disable = on]
    OBVIOUS
  <1>2. x.p \in Contexts
    BY Parts1
  <1>3. q \in Contexts
    BY <1>1, <1>2 DEF Contexts
  <1>4. /\ q.recv_disable = on
        /\ q.partial = x.p.partial /\ q.packet_size = x.p.packet_size
        /\ q.sock = x.p.sock /\ q.processing = x.p.processing /\ q.busy = x.p.busy
        /\ q.destructor_called = x.p.destructor_called /\ q.freed = x.p.freed
        /\ q.send_queue = x.p.send_queue
    BY <1>1, <1>2 DEF Contexts
  <1>5. y = [x EXCEPT !.p = q]
    BY <1>1 DEF SetDisabled
  <1>6. y \in Views /\ SameButP(x, y) /\ y.p = q
    BY <1>3, <1>5, PFacts
  <1> QED BY <1>4, <1>6

LEMMA ProcessingFacts ==
    ASSUME NEW x \in Views, NEW n \in Nat, NEW y, y = Processing(x, n)
    PROVE  /\ y \in Views /\ SameButP(x, y) /\ y.p.processing = n
           /\ y.p.partial = x.p.partial /\ y.p.packet_size = x.p.packet_size
           /\ y.p.sock = x.p.sock /\ y.p.recv_disable = x.p.recv_disable /\ y.p.busy = x.p.busy
           /\ y.p.destructor_called = x.p.destructor_called /\ y.p.freed = x.p.freed
           /\ y.p.send_queue = x.p.send_queue
  <1>1. PICK q : q = [x.p EXCEPT !.processing = n]
    OBVIOUS
  <1>2. x.p \in Contexts
    BY Parts1
  <1>3. q \in Contexts
    BY <1>1, <1>2 DEF Contexts
  <1>4. /\ q.processing = n
        /\ q.partial = x.p.partial /\ q.packet_size = x.p.packet_size
        /\ q.sock = x.p.sock /\ q.recv_disable = x.p.recv_disable /\ q.busy = x.p.busy
        /\ q.destructor_called = x.p.destructor_called /\ q.freed = x.p.freed
        /\ q.send_queue = x.p.send_queue
    BY <1>1, <1>2 DEF Contexts
  <1>5. y = [x EXCEPT !.p = q]
    BY <1>1 DEF Processing
  <1>6. y \in Views /\ SameButP(x, y) /\ y.p = q
    BY <1>3, <1>5, PFacts
  <1> QED BY <1>4, <1>6

LEMMA QueueFacts ==
    ASSUME NEW x \in Views, NEW n \in Seq(SendElement), NEW y, y = Queue(x, n)
    PROVE  /\ y \in Views /\ SameButP(x, y) /\ y.p.send_queue = n
           /\ y.p.partial = x.p.partial /\ y.p.packet_size = x.p.packet_size
           /\ y.p.sock = x.p.sock /\ y.p.recv_disable = x.p.recv_disable /\ y.p.busy = x.p.busy
           /\ y.p.destructor_called = x.p.destructor_called /\ y.p.freed = x.p.freed
           /\ y.p.processing = x.p.processing
  <1>1. PICK q : q = [x.p EXCEPT !.send_queue = n]
    OBVIOUS
  <1>2. x.p \in Contexts
    BY Parts1
  <1>3. q \in Contexts
    BY <1>1, <1>2 DEF Contexts
  <1>4. /\ q.send_queue = n
        /\ q.partial = x.p.partial /\ q.packet_size = x.p.packet_size
        /\ q.sock = x.p.sock /\ q.recv_disable = x.p.recv_disable /\ q.busy = x.p.busy
        /\ q.destructor_called = x.p.destructor_called /\ q.freed = x.p.freed
        /\ q.processing = x.p.processing
    BY <1>1, <1>2 DEF Contexts
  <1>5. y = [x EXCEPT !.p = q]
    BY <1>1 DEF Queue
  <1>6. y \in Views /\ SameButP(x, y) /\ y.p = q
    BY <1>3, <1>5, PFacts
  <1> QED BY <1>4, <1>6

LEMMA ExpectFacts ==
    ASSUME NEW x \in Views, NEW n \in Int, NEW more \in BOOLEAN, NEW y, y = Expect(x, n, more)
    PROVE  /\ y \in Views /\ y.p = x.p /\ y.fde = x.fde /\ y.timers = x.timers
           /\ y.sock = x.sock /\ y.delivered = x.delivered /\ y.ended = x.ended
           /\ y.user.pending_reads = n /\ y.user.more = more /\ y.user.sent = x.user.sent
  <1>1. PICK u : u = [x.user EXCEPT !.pending_reads = n, !.more = more]
    OBVIOUS
  <1>2. u \in Users /\ u.pending_reads = n /\ u.more = more /\ u.sent = x.user.sent
    BY <1>1, Parts1 DEF Users
  <1>3. y = [x EXCEPT !.user = u]
    BY <1>1 DEF Expect
  <1>4. y \in Views /\ y.user = u
    BY <1>2, <1>3 DEF Views
  <1>5. /\ y.p = x.p /\ y.fde = x.fde /\ y.timers = x.timers
        /\ y.sock = x.sock /\ y.delivered = x.delivered /\ y.ended = x.ended
    BY <1>3 DEF Views
  <1> QED BY <1>2, <1>4, <1>5

LEMMA TimerFacts ==
    ASSUME NEW x \in Views, NEW n \in Nat, NEW y, y = [x EXCEPT !.timers = n]
    PROVE  /\ y \in Views /\ y.p = x.p /\ y.fde = x.fde /\ y.timers = n
           /\ y.sock = x.sock /\ y.user = x.user /\ y.delivered = x.delivered
           /\ y.ended = x.ended
  BY DEF Views

LEMMA AddTimerFacts ==
    ASSUME NEW x \in Views, NEW y, y = AddTimer(x)
    PROVE  /\ y \in Views /\ y.p = x.p /\ y.fde = x.fde /\ y.timers = x.timers + 1
           /\ y.timers > 0 /\ y.sock = x.sock /\ y.user = x.user /\ y.delivered = x.delivered
           /\ y.ended = x.ended
  <1>1. x.timers \in Nat
    BY Parts1
  <1>2. x.timers + 1 \in Nat /\ x.timers + 1 > 0
    BY <1>1
  <1>3. PICK n : n = x.timers + 1
    OBVIOUS
  <1>4. y = [x EXCEPT !.timers = n]
    BY <1>3 DEF AddTimer
  <1>5. /\ y \in Views /\ y.p = x.p /\ y.fde = x.fde /\ y.timers = n
        /\ y.sock = x.sock /\ y.user = x.user /\ y.delivered = x.delivered
        /\ y.ended = x.ended
    BY <1>2, <1>3, <1>4, TimerFacts
  <1> QED BY <1>2, <1>3, <1>5

LEMMA MeasuredFacts ==
    ASSUME NEW x \in Views, NEW y, y = Measured(x)
    PROVE  /\ y \in Views /\ SameButP(x, y) /\ y.p.processing = x.p.processing
           /\ y.p.partial = x.p.partial
           /\ y.p.packet_size = IF full_request(x.p.partial).size = 0 THEN x.p.packet_size
                                ELSE full_request(x.p.partial).size
           /\ y.p.sock = x.p.sock /\ y.p.recv_disable = x.p.recv_disable /\ y.p.busy = x.p.busy
           /\ y.p.destructor_called = x.p.destructor_called /\ y.p.freed = x.p.freed
           /\ y.p.send_queue = x.p.send_queue
  <1>1. PICK size : size = full_request(x.p.partial).size
    OBVIOUS
  <1>2. x.p \in Contexts
    BY Parts1
  <1>3. size \in Nat
    <2>1. x.p.partial \in Seq(Byte)
      BY <1>2 DEF Contexts
    <2> QED BY <1>1, <2>1, SizeFacts
  <1>4. CASE size = 0
    BY <1>1, <1>4 DEF Measured, SameButP
  <1>5. CASE size # 0
    <2>1. PICK q : q = [x.p EXCEPT !.packet_size = size]
      OBVIOUS
    <2>2. q \in Contexts
      BY <1>2, <1>3, <2>1 DEF Contexts
    <2>3. /\ q.packet_size = size
          /\ q.partial = x.p.partial /\ q.processing = x.p.processing
          /\ q.sock = x.p.sock /\ q.recv_disable = x.p.recv_disable /\ q.busy = x.p.busy
          /\ q.destructor_called = x.p.destructor_called /\ q.freed = x.p.freed
          /\ q.send_queue = x.p.send_queue
      BY <1>2, <2>1 DEF Contexts
    <2>4. y = [x EXCEPT !.p = q]
      BY <1>1, <1>5, <2>1 DEF Measured
    <2>5. y \in Views /\ SameButP(x, y) /\ y.p = q
      BY <2>2, <2>4, PFacts
    <2> QED BY <1>1, <1>5, <2>3, <2>5
  <1> QED BY <1>4, <1>5


LEMMA CutFacts ==
    ASSUME NEW x \in Views, x.p.packet_size <= Len(x.p.partial), NEW y, y = Cut(x)
    PROVE  /\ y \in Views /\ y.fde = x.fde /\ y.timers = x.timers /\ y.sock = x.sock
           /\ y.user = x.user /\ y.ended = x.ended
           /\ y.delivered = Append(x.delivered, SubSeq(x.p.partial, 1, x.p.packet_size))
           /\ y.p.partial = SubSeq(x.p.partial, x.p.packet_size + 1, Len(x.p.partial))
           /\ y.p.packet_size = 0 /\ y.p.processing = 1 /\ y.p.busy
           /\ y.p.sock = x.p.sock /\ y.p.recv_disable = x.p.recv_disable
           /\ y.p.destructor_called = x.p.destructor_called /\ y.p.freed = x.p.freed
           /\ y.p.send_queue = x.p.send_queue
  <1>1. x.p \in Contexts /\ x.delivered \in Seq(Seq(Byte))
    BY Parts1
  <1>2. x.p.partial \in Seq(Byte) /\ x.p.packet_size \in Nat /\ Len(x.p.partial) \in Nat
    BY <1>1 DEF Contexts
  <1>3. PICK rest : rest = SubSeq(x.p.partial, x.p.packet_size + 1, Len(x.p.partial))
    OBVIOUS
  <1>4. PICK blob : blob = SubSeq(x.p.partial, 1, x.p.packet_size)
    OBVIOUS
  <1>5. rest \in Seq(Byte) /\ blob \in Seq(Byte)
    BY <1>2, <1>3, <1>4, SubSeqProperties
  <1>6. PICK q : q = [x.p EXCEPT !.partial = rest, !.packet_size = 0, !.processing = 1,
                                 !.busy = TRUE]
    OBVIOUS
  <1>7. q \in Contexts
    BY <1>1, <1>5, <1>6 DEF Contexts
  <1>8. /\ q.partial = rest /\ q.packet_size = 0 /\ q.processing = 1 /\ q.busy
        /\ q.sock = x.p.sock /\ q.recv_disable = x.p.recv_disable
        /\ q.destructor_called = x.p.destructor_called /\ q.freed = x.p.freed
        /\ q.send_queue = x.p.send_queue
    BY <1>1, <1>6 DEF Contexts
  <1>9. PICK d : d = Append(x.delivered, blob)
    OBVIOUS
  <1>10. d \in Seq(Seq(Byte))
    BY <1>1, <1>5, <1>9
  <1>11. y = [x EXCEPT !.p = q, !.delivered = d]
    BY <1>3, <1>4, <1>6, <1>9 DEF Cut, num_read
  <1>12. y \in Views
    BY <1>7, <1>10, <1>11 DEF Views
  <1>13. /\ y.p = q /\ y.delivered = d /\ y.fde = x.fde /\ y.timers = x.timers
         /\ y.sock = x.sock /\ y.user = x.user /\ y.ended = x.ended
    BY <1>11 DEF Views
  <1> QED BY <1>3, <1>4, <1>8, <1>9, <1>12, <1>13

LEMMA TakeFacts ==
    ASSUME NEW x \in Views, NEW n \in 1 .. Len(x.sock.in), NEW y, y = Take(x, n)
    PROVE  /\ y \in Views /\ y.fde = x.fde /\ y.timers = x.timers /\ y.user = x.user
           /\ y.ended = x.ended /\ y.delivered = x.delivered
           /\ y.p.partial = x.p.partial \o SubSeq(x.sock.in, 1, n)
           /\ y.p.packet_size = x.p.packet_size
           /\ y.p.processing = x.p.processing /\ y.p.busy = x.p.busy
           /\ y.p.sock = x.p.sock /\ y.p.recv_disable = x.p.recv_disable
           /\ y.p.destructor_called = x.p.destructor_called /\ y.p.freed = x.p.freed
           /\ y.p.send_queue = x.p.send_queue
           /\ y.sock.in = SubSeq(x.sock.in, n + 1, Len(x.sock.in))
           /\ y.sock.next = x.sock.next /\ y.sock.closed = x.sock.closed
           /\ y.sock.reset = x.sock.reset /\ y.sock.out = x.sock.out
           /\ y.sock.garbled = x.sock.garbled
  <1>1. x.p \in Contexts /\ x.sock \in Sockets
    BY Parts1
  <1>2. x.p.partial \in Seq(Byte) /\ x.sock.in \in Seq(Byte) /\ Len(x.sock.in) \in Nat
    BY <1>1 DEF Contexts, Sockets
  <1>3. PICK rest : rest = SubSeq(x.sock.in, n + 1, Len(x.sock.in))
    OBVIOUS
  <1>4. PICK blob : blob = SubSeq(x.sock.in, 1, n)
    OBVIOUS
  <1>5. rest \in Seq(Byte) /\ blob \in Seq(Byte)
    BY <1>2, <1>3, <1>4, SubSeqProperties
  <1>6. PICK all : all = x.p.partial \o blob
    OBVIOUS
  <1>7. all \in Seq(Byte)
    BY <1>2, <1>5, <1>6
  <1>8. PICK q : q = [x.p EXCEPT !.partial = all]
    OBVIOUS
  <1>9. q \in Contexts
    BY <1>1, <1>7, <1>8 DEF Contexts
  <1>10. /\ q.partial = all /\ q.packet_size = x.p.packet_size
         /\ q.processing = x.p.processing /\ q.busy = x.p.busy
         /\ q.sock = x.p.sock /\ q.recv_disable = x.p.recv_disable
         /\ q.destructor_called = x.p.destructor_called /\ q.freed = x.p.freed
         /\ q.send_queue = x.p.send_queue
    BY <1>1, <1>8 DEF Contexts
  <1>11. PICK k : k = [x.sock EXCEPT !.in = rest]
    OBVIOUS
  <1>12. /\ k \in Sockets /\ k.in = rest /\ k.next = x.sock.next /\ k.closed = x.sock.closed
         /\ k.reset = x.sock.reset /\ k.out = x.sock.out /\ k.garbled = x.sock.garbled
    BY <1>1, <1>5, <1>11 DEF Sockets
  <1>13. y = [x EXCEPT !.p = q, !.sock = k]
    BY <1>3, <1>4, <1>6, <1>8, <1>11 DEF Take
  <1>14. y \in Views
    BY <1>9, <1>12, <1>13 DEF Views
  <1>15. /\ y.p = q /\ y.sock = k /\ y.fde = x.fde /\ y.timers = x.timers /\ y.user = x.user
         /\ y.ended = x.ended /\ y.delivered = x.delivered
    BY <1>13 DEF Views
  <1> QED BY <1>3, <1>4, <1>6, <1>10, <1>12, <1>14, <1>15

LEMMA IdleFacts ==
    ASSUME NEW x \in Views, NEW y, y = Idle(x)
    PROVE  /\ y \in Views /\ y.timers = x.timers /\ y.sock = x.sock
           /\ y.user = x.user /\ y.ended = x.ended /\ y.delivered = x.delivered
           /\ y.fde.write = x.fde.write /\ y.fde.freed = x.fde.freed
           /\ y.fde.misused => x.fde.misused \/ x.p.processing > 1
           /\ y.fde.read <=> x.fde.read \/ x.p.processing > 1
           /\ y.p.partial = x.p.partial /\ y.p.packet_size = x.p.packet_size
           /\ y.p.processing = 0 /\ ~y.p.busy
           /\ y.p.sock = x.p.sock /\ y.p.recv_disable = x.p.recv_disable
           /\ y.p.destructor_called = x.p.destructor_called /\ y.p.freed = x.p.freed
           /\ y.p.send_queue = x.p.send_queue
  <1>1. PICK z : z = IF x.p.processing > 1 THEN EVENT_FD_READABLE(x) ELSE x
    OBVIOUS
  <1>2. /\ z \in Views /\ SameButFde(x, z) /\ z.fde.write = x.fde.write
        /\ z.fde.misused => x.fde.misused \/ x.p.processing > 1
        /\ z.fde.freed = x.fde.freed
        /\ z.fde.read <=> x.fde.read \/ x.p.processing > 1
    <2>1. CASE x.p.processing > 1
      <3>1. z = EVENT_FD_READABLE(x)
        BY <1>1, <2>1
      <3>2. /\ z \in Views /\ SameButFde(x, z)
            /\ z.fde.read /\ z.fde.write = x.fde.write /\ z.fde.freed = x.fde.freed
        BY <3>1, ReadableUse
      <3> QED BY <2>1, <3>2
    <2>2. CASE ~(x.p.processing > 1)
      BY <1>1, <2>2 DEF SameButFde
    <2> QED BY <2>1, <2>2
  <1>3. PICK q : q = [z.p EXCEPT !.busy = FALSE, !.processing = 0]
    OBVIOUS
  <1>4. z.p \in Contexts /\ z.p = x.p
    BY <1>2, Parts1 DEF SameButFde
  <1>5. q \in Contexts
    BY <1>3, <1>4 DEF Contexts
  <1>6. /\ q.partial = z.p.partial /\ q.packet_size = z.p.packet_size
        /\ q.processing = 0 /\ ~q.busy
        /\ q.sock = z.p.sock /\ q.recv_disable = z.p.recv_disable
        /\ q.destructor_called = z.p.destructor_called /\ q.freed = z.p.freed
        /\ q.send_queue = z.p.send_queue
    BY <1>3, <1>4 DEF Contexts
  <1>7. y = [z EXCEPT !.p = q]
    BY <1>1, <1>3 DEF Idle
  <1>8. y \in Views /\ SameButP(z, y) /\ y.p = q
    BY <1>2, <1>5, <1>7, PFacts
  <1> QED BY <1>2, <1>4, <1>6, <1>8 DEF SameButFde, SameButP


-----------------------------------------------------------------------------
(***************************************************************************)
(* The stream of bytes.                                                    *)
(***************************************************************************)
LEMMA ByteFacts ==
    ASSUME NEW b \in Byte
    PROVE  /\ b[1] \in DOMAIN Sizes /\ b[2] \in Nat /\ b[2] > 0 /\ b[2] <= Sizes[b[1]]
           /\ b = <<b[1], b[2]>> /\ b[1] \in Nat /\ Sizes[b[1]] \in Nat /\ Sizes[b[1]] >= 1
           /\ Sizes[b[1]] >= Hdr
  <1>1. b \in (DOMAIN Sizes) \X (Nat \ {0}) /\ b[2] <= Sizes[b[1]]
    BY DEF Byte
  <1>2. b[1] \in DOMAIN Sizes /\ b[2] \in Nat \ {0} /\ b = <<b[1], b[2]>>
    BY <1>1
  <1>3. Sizes \in Seq(Nat) /\ \A i \in DOMAIN Sizes : Sizes[i] >= Hdr
    BY SizesAssumption
  <1>4. b[1] \in Nat /\ Sizes[b[1]] \in Nat /\ Sizes[b[1]] >= Hdr
    BY <1>2, <1>3
  <1> QED BY <1>1, <1>2, <1>4, HdrAssumption

LEMMA RunTail ==
    ASSUME NEW w \in Seq(Byte), Run(w), NEW n \in 0 .. Len(w), NEW v,
           v = SubSeq(w, n + 1, Len(w))
    PROVE  /\ Run(v) /\ v \in Seq(Byte) /\ Len(v) = Len(w) - n
           /\ \A j \in 1 .. Len(w) - n : v[j] = w[j + n]
  <1>1. Len(w) \in Nat
    OBVIOUS
  <1>2. v \in Seq(Byte) /\ Len(v) = Len(w) - n
    BY <1>1, SubSeqProperties
  <1>3. \A j \in 1 .. Len(w) - n : v[j] = w[j + n]
    BY <1>1, SubSeqProperties
  <1>4. \A j \in 1 .. Len(v) - 1 : v[j + 1] = Succ(v[j])
    <2> SUFFICES ASSUME NEW j \in 1 .. Len(v) - 1
                 PROVE  v[j + 1] = Succ(v[j])
      OBVIOUS
    <2>1. j + n \in 1 .. Len(w) - 1 /\ j \in 1 .. Len(w) - n /\ j + 1 \in 1 .. Len(w) - n
      BY <1>1, <1>2
    <2>2. w[(j + n) + 1] = Succ(w[j + n])
      BY <2>1 DEF Run
    <2>3. (j + n) + 1 = (j + 1) + n
      BY <2>1
    <2> QED BY <1>3, <2>1, <2>2, <2>3
  <1>5. \A j \in 1 .. Len(v) : \A m \in Nat :
           j + m <= Len(v) /\ v[j][2] + m <= Sizes[v[j][1]] => v[j + m] = <<v[j][1], v[j][2] + m>>
    <2> SUFFICES ASSUME NEW j \in 1 .. Len(v), NEW m \in Nat, j + m <= Len(v),
                        v[j][2] + m <= Sizes[v[j][1]]
                 PROVE  v[j + m] = <<v[j][1], v[j][2] + m>>
      OBVIOUS
    <2>1. /\ j + n \in 1 .. Len(w) /\ (j + n) + m <= Len(w) /\ j \in 1 .. Len(w) - n
          /\ j + m \in 1 .. Len(w) - n /\ (j + n) + m = (j + m) + n
      BY <1>1, <1>2
    <2>2. v[j] = w[j + n] /\ v[j + m] = w[(j + n) + m]
      BY <1>3, <2>1
    <2> QED BY <2>1, <2>2 DEF Run
  <1> QED BY <1>2, <1>3, <1>4, <1>5 DEF Run

\* A whole packet at the front of the stream.
LEMMA RunPacket ==
    ASSUME NEW w \in Seq(Byte), Run(w), NEW i, w # <<>>, w[1] = <<i, 1>>, Sizes[i] <= Len(w)
    PROVE  /\ i \in DOMAIN Sizes /\ Sizes[i] \in Nat
           /\ SubSeq(w, 1, Sizes[i]) = Bytes(i)
           /\ w[Sizes[i]] = <<i, Sizes[i]>>
           /\ Sizes[i] < Len(w) => w[Sizes[i] + 1] = <<i + 1, 1>>
  <1>1. Len(w) \in Nat /\ Len(w) >= 1 /\ w[1] \in Byte
    BY EmptySeq
  <1>2. i \in DOMAIN Sizes /\ Sizes[i] \in Nat /\ Sizes[i] >= 1 /\ w[1][1] = i /\ w[1][2] = 1
    BY <1>1, ByteFacts
  <1>3. PICK n : n = Sizes[i]
    OBVIOUS
  <1>4. ASSUME NEW m \in Nat, 1 + m <= Len(w), 1 + m <= n PROVE w[1 + m] = <<i, 1 + m>>
    <2>1. 1 \in 1 .. Len(w) /\ w[1][2] + m <= Sizes[w[1][1]]
      BY <1>1, <1>2, <1>3, <1>4
    <2>2. w[1 + m] = <<w[1][1], w[1][2] + m>>
      BY <1>4, <2>1 DEF Run
    <2> QED BY <1>2, <2>2
  <1>5. \A k \in 1 .. n : w[k] = <<i, k>>
    <2> SUFFICES ASSUME NEW k \in 1 .. n PROVE w[k] = <<i, k>>
      OBVIOUS
    <2>1. PICK m \in Nat : k = 1 + m /\ 1 + m <= Len(w) /\ 1 + m <= n
      <3>1. k - 1 \in Nat /\ k = 1 + (k - 1) /\ 1 + (k - 1) <= Len(w) /\ 1 + (k - 1) <= n
        BY <1>1, <1>2, <1>3
      <3> QED BY <3>1
    <2> QED BY <1>4, <2>1
  <1>6. SubSeq(w, 1, n) = Bytes(i)
    <2>1. SubSeq(w, 1, n) = [k \in 1 .. n |-> <<i, k>>]
      <3>1. PICK s : s = SubSeq(w, 1, n)
        OBVIOUS
      <3>2. s \in Seq(Byte) /\ Len(s) = n /\ \A k \in 1 .. n : s[k] = w[k]
        BY <1>1, <1>2, <1>3, <3>1, SubSeqProperties
      <3>3. s = [k \in 1 .. n |-> s[k]]
        BY <3>2
      <3> QED BY <1>5, <3>1, <3>2, <3>3
    <2> QED BY <1>3, <2>1 DEF Bytes
  <1>7. w[n] = <<i, n>>
    BY <1>2, <1>3, <1>5
  <1>8. n < Len(w) => w[n + 1] = <<i + 1, 1>>
    <2> SUFFICES ASSUME n < Len(w) PROVE w[n + 1] = <<i + 1, 1>>
      OBVIOUS
    <2>1. w[n + 1] = Succ(w[n])
      <3>1. n \in 1 .. Len(w) - 1
        BY <1>1, <1>2, <1>3
      <3> QED BY <3>1 DEF Run
    <2>2. Succ(<<i, n>>) = <<i + 1, 1>>
      BY <1>2, <1>3 DEF Succ
    <2> QED BY <1>7, <2>1, <2>2
  <1> QED BY <1>2, <1>3, <1>6, <1>7, <1>8

\* Part of a packet: the byte after it belongs to the same packet.
LEMMA RunPart ==
    ASSUME NEW w \in Seq(Byte), Run(w), NEW i, w # <<>>, w[1] = <<i, 1>>, Len(w) < Sizes[i]
    PROVE  Succ(w[Len(w)]) = <<i, Len(w) + 1>>
  <1>1. Len(w) \in Nat /\ Len(w) >= 1 /\ w[1] \in Byte
    BY EmptySeq
  <1>2. i \in DOMAIN Sizes /\ Sizes[i] \in Nat /\ w[1][1] = i /\ w[1][2] = 1
    BY <1>1, ByteFacts
  <1>3. PICK m \in Nat : 1 + m = Len(w)
    <2>1. Len(w) - 1 \in Nat /\ 1 + (Len(w) - 1) = Len(w)
      BY <1>1
    <2> QED BY <2>1
  <1>4. w[1 + m] = <<i, 1 + m>>
    <2>1. 1 + m <= Len(w) /\ w[1][2] + m <= Sizes[w[1][1]] /\ 1 \in 1 .. Len(w)
      BY <1>1, <1>2, <1>3
    <2>2. w[1 + m] = <<w[1][1], w[1][2] + m>>
      BY <2>1 DEF Run
    <2> QED BY <1>2, <2>2
  <1>5. Succ(<<i, Len(w)>>) = <<i, Len(w) + 1>>
    BY DEF Succ
  <1> QED BY <1>3, <1>4, <1>5

\* The byte b comes after the bytes w; and then they are v.
Follows(w, b) ==
    w \in Seq(Byte) /\ Run(w) /\ b \in Byte /\ (w # <<>> => b = Succ(w[Len(w)]))

Grown(w, b, v) ==
    /\ Run(v) /\ v \in Seq(Byte) /\ Len(v) = Len(w) + 1 /\ v[Len(w) + 1] = b
    /\ \A j \in 1 .. Len(w) : v[j] = w[j]

LEMMA RunAppend ==
    ASSUME NEW w, NEW b, Follows(w, b), NEW v, v = Append(w, b)
    PROVE  Grown(w, b, v)
  <1>0. w \in Seq(Byte) /\ Run(w) /\ b \in Byte /\ (w # <<>> => b = Succ(w[Len(w)]))
    BY DEF Follows
  <1>1. PICK n : n = Len(w)
    OBVIOUS
  <1>2. /\ n \in Nat /\ v \in Seq(Byte) /\ Len(v) = n + 1 /\ v[n + 1] = b
        /\ \A j \in 1 .. n : v[j] = w[j] /\ w[j] \in Byte
    BY <1>0, <1>1, AppendProperties
  <1>3. ASSUME NEW j \in 1 .. n PROVE v[j + 1] = Succ(v[j])
    <2>1. CASE j < n
      <3>1. j \in 1 .. n - 1 /\ j + 1 \in 1 .. n
        BY <1>2, <2>1
      <3> QED BY <1>0, <1>1, <1>2, <3>1 DEF Run
    <2>2. CASE j = n
      <3>1. w # <<>>
        BY <1>1, <1>2, <2>2
      <3> QED BY <1>0, <1>1, <1>2, <2>2, <3>1
    <2> QED BY <1>2, <2>1, <2>2
  <1>4. ASSUME NEW j \in 1 .. n + 1, NEW m \in Nat, j + m <= n + 1,
               v[j][2] + m <= Sizes[v[j][1]]
        PROVE  v[j + m] = <<v[j][1], v[j][2] + m>>
    <2>1. v[j] \in Byte
      BY <1>2
    <2>2. CASE m = 0
      <3>1. PICK c : c = v[j]
        OBVIOUS
      <3>2. c = <<c[1], c[2]>> /\ c[2] \in Nat
        BY <2>1, <3>1, ByteFacts
      <3>3. c[2] + m = c[2] /\ j + m = j
        BY <1>2, <2>2, <3>2
      <3> QED BY <3>1, <3>2, <3>3
    <2>3. CASE m # 0 /\ j + m <= n
      <3>1. j \in 1 .. n /\ j + m \in 1 .. n
        BY <1>2, <2>3
      <3>2. v[j] = w[j] /\ v[j + m] = w[j + m]
        BY <1>2, <3>1
      <3>3. w[j][2] + m <= Sizes[w[j][1]] /\ j + m <= Len(w)
        BY <1>1, <1>4, <2>3, <3>2
      <3> QED BY <1>0, <1>1, <3>1, <3>2, <3>3 DEF Run
    <2>4. CASE m # 0 /\ j + m = n + 1
      <3>1. PICK l \in Nat : m = l + 1
        <4>1. m - 1 \in Nat /\ m = (m - 1) + 1
          BY <2>4
        <4> QED BY <4>1
      <3>2. j \in 1 .. n /\ j + l = n /\ n \in 1 .. n
        BY <1>2, <2>4, <3>1
      <3>3. PICK c : c = v[j]
        OBVIOUS
      <3>4. /\ c[2] \in Nat /\ c[1] \in Nat /\ Sizes[c[1]] \in Nat /\ v[j] = w[j]
            /\ c[2] + l < Sizes[c[1]]
        <4>1. c \in Byte /\ c[2] + m <= Sizes[c[1]]
          BY <1>4, <2>1, <3>3
        <4>2. c[2] \in Nat /\ c[1] \in Nat /\ Sizes[c[1]] \in Nat
          BY <4>1, ByteFacts
        <4>3. c[2] + l < Sizes[c[1]]
          BY <3>1, <4>1, <4>2
        <4> QED BY <1>2, <3>2, <4>2, <4>3
      <3>5. w[j + l] = <<w[j][1], w[j][2] + l>>
        <4>1. w[j][2] + l <= Sizes[w[j][1]] /\ j + l <= Len(w) /\ j \in 1 .. Len(w)
          BY <1>1, <3>2, <3>3, <3>4
        <4> QED BY <1>0, <4>1 DEF Run
      <3>6. v[n] = <<c[1], c[2] + l>>
        BY <1>2, <3>2, <3>3, <3>4, <3>5
      <3>7. Succ(<<c[1], c[2] + l>>) = <<c[1], (c[2] + l) + 1>>
        BY <3>4 DEF Succ
      <3>8. v[n + 1] = Succ(v[n])
        BY <1>3, <3>2
      <3>9. PICK a \in Nat : a = c[2]
        BY <3>4
      <3>10. (a + l) + 1 = a + m
        BY <1>2, <3>1
      <3>11. v[n + 1] = <<c[1], a + m>>
        BY <3>6, <3>7, <3>8, <3>9, <3>10
      <3> QED BY <2>4, <3>3, <3>9, <3>11
    <2>5. j + m <= n \/ j + m = n + 1
      BY <1>2, <1>4
    <2> QED BY <2>2, <2>3, <2>4, <2>5
  <1>5. \A j \in 1 .. Len(v) - 1 : v[j + 1] = Succ(v[j])
    <2>1. Len(v) - 1 = n
      BY <1>2
    <2> QED BY <1>3, <2>1
  <1>6. \A j \in 1 .. Len(v) : \A m \in Nat :
           j + m <= Len(v) /\ v[j][2] + m <= Sizes[v[j][1]] => v[j + m] = <<v[j][1], v[j][2] + m>>
    BY <1>2, <1>4
  <1>7. Run(v)
    BY <1>5, <1>6 DEF Run
  <1> QED BY <1>1, <1>2, <1>7 DEF Grown


LEMMA WaitingFacts ==
    ASSUME NEW x \in Views
    PROVE  /\ Waiting(x) \in Seq(Byte)
           /\ Len(Waiting(x)) = Len(x.p.partial) + Len(x.sock.in)
           /\ x.p.partial \in Seq(Byte) /\ x.sock.in \in Seq(Byte)
           /\ Len(x.p.partial) \in Nat /\ Len(x.sock.in) \in Nat
           /\ \A j \in 1 .. Len(x.p.partial) : Waiting(x)[j] = x.p.partial[j]
  <1>1. PICK a : a = x.p.partial
    OBVIOUS
  <1>2. PICK b : b = x.sock.in
    OBVIOUS
  <1>3. a \in Seq(Byte) /\ b \in Seq(Byte)
    BY <1>1, <1>2, Parts1 DEF Contexts, Sockets
  <1>4. PICK w : w = a \o b
    OBVIOUS
  <1>5. /\ w \in Seq(Byte) /\ Len(w) = Len(a) + Len(b) /\ Len(a) \in Nat /\ Len(b) \in Nat
        /\ \A i \in 1 .. Len(a) : w[i] = a[i]
    BY <1>3, <1>4, CatFacts
  <1>6. Waiting(x) = w
    BY <1>1, <1>2, <1>4 DEF Waiting
  <1> QED BY <1>1, <1>2, <1>3, <1>5, <1>6

LEMMA TakeWaiting ==
    ASSUME NEW x \in Views, NEW n \in 1 .. Len(x.sock.in), NEW y, y = Take(x, n)
    PROVE  Waiting(y) = Waiting(x)
  <1>1. PICK a : a = x.p.partial
    OBVIOUS
  <1>2. PICK b : b = x.sock.in
    OBVIOUS
  <1>3. a \in Seq(Byte) /\ b \in Seq(Byte) /\ Len(b) \in Nat
    BY <1>1, <1>2, WaitingFacts
  <1>4. n \in 0 .. Len(b)
    BY <1>2, <1>3
  <1>5. PICK c : c = SubSeq(b, 1, n)
    OBVIOUS
  <1>6. PICK d : d = SubSeq(b, n + 1, Len(b))
    OBVIOUS
  <1>7. y.p.partial = a \o c /\ y.sock.in = d
    BY <1>1, <1>2, <1>5, <1>6, TakeFacts
  <1>8. c \o d = b
    BY <1>3, <1>4, <1>5, <1>6, CutAndJoin
  <1>9. c \in Seq(Byte) /\ d \in Seq(Byte)
    BY <1>3, <1>4, <1>5, <1>6, PrefixFacts, DropFacts
  <1>10. (a \o c) \o d = a \o (c \o d)
    <2> HIDE <1>1, <1>2
    <2> QED BY <1>3, <1>9, ConcatAssociative
  <1> QED BY <1>1, <1>2, <1>7, <1>8, <1>10 DEF Waiting

LEMMA CutWaiting ==
    ASSUME NEW a \in Seq(Byte), NEW b \in Seq(Byte), NEW n \in 0 .. Len(a)
    PROVE  /\ SubSeq(a, n + 1, Len(a)) \o b = SubSeq(a \o b, n + 1, Len(a \o b))
           /\ SubSeq(a, 1, n) = SubSeq(a \o b, 1, n)
  <1>1. PICK c : c = SubSeq(a, n + 1, Len(a))
    OBVIOUS
  <1>2. PICK w : w = a \o b
    OBVIOUS
  <1>3. PICK d : d = SubSeq(w, n + 1, Len(w))
    OBVIOUS
  <1>4. PICK e : e = c \o b
    OBVIOUS
  <1>5. PICK f : f = SubSeq(a, 1, n)
    OBVIOUS
  <1>6. PICK g : g = SubSeq(w, 1, n)
    OBVIOUS
  <1>7. /\ w \in Seq(Byte) /\ Len(w) = Len(a) + Len(b) /\ Len(a) \in Nat /\ Len(b) \in Nat
        /\ \A i \in 1 .. Len(a) : w[i] = a[i]
        /\ \A i \in 1 .. Len(b) : w[Len(a) + i] = b[i]
    BY <1>2, CatFacts
  <1>8. n \in 0 .. Len(w)
    BY <1>7
  <1>9. c \in Seq(Byte) /\ Len(c) = Len(a) - n /\ \A i \in 1 .. Len(a) - n : c[i] = a[i + n]
    BY <1>1, DropFacts
  <1>10. d \in Seq(Byte) /\ Len(d) = Len(w) - n /\ \A i \in 1 .. Len(w) - n : d[i] = w[i + n]
    BY <1>3, <1>7, <1>8, DropFacts
  <1>11. /\ e \in Seq(Byte) /\ Len(e) = Len(c) + Len(b)
         /\ \A i \in 1 .. Len(c) : e[i] = c[i]
         /\ \A i \in 1 .. Len(b) : e[Len(c) + i] = b[i]
    <2>1. c \in Seq(Byte)
      BY <1>9
    <2> QED BY <1>4, <2>1, CatFacts
  <1>12. f \in Seq(Byte) /\ Len(f) = n /\ \A i \in 1 .. n : f[i] = a[i]
    BY <1>5, PrefixFacts
  <1>13. g \in Seq(Byte) /\ Len(g) = n /\ \A i \in 1 .. n : g[i] = w[i]
    BY <1>6, <1>7, <1>8, PrefixFacts
  <1>14. f = g
    <2>1. ASSUME NEW i \in 1 .. n PROVE f[i] = g[i]
      <3>1. i \in 1 .. Len(a)
        BY <1>7
      <3>2. f[i] = a[i] /\ g[i] = w[i] /\ w[i] = a[i]
        BY <1>7, <1>12, <1>13, <3>1
      <3> QED BY <3>2
    <2> QED BY <1>12, <1>13, <2>1, SeqEqual
  <1>15. Len(d) = Len(e)
    BY <1>7, <1>9, <1>10, <1>11
  <1>16. ASSUME NEW i \in 1 .. Len(e) PROVE e[i] = d[i]
    <2>1. d[i] = w[i + n] /\ i \in Nat /\ n \in Nat
      BY <1>7, <1>9, <1>10, <1>11
    <2>2. CASE i <= Len(a) - n
      <3>1. i \in 1 .. Len(a) - n /\ i + n \in 1 .. Len(a)
        BY <1>7, <2>1, <2>2
      <3> QED BY <1>7, <1>9, <1>11, <2>1, <3>1
    <2>3. CASE ~(i <= Len(a) - n)
      <3>1. PICK j \in 1 .. Len(b) : i = (Len(a) - n) + j
        <4>1. i - (Len(a) - n) \in 1 .. Len(b) /\ i = (Len(a) - n) + (i - (Len(a) - n))
          <5>1. Len(e) = (Len(a) - n) + Len(b) /\ Len(a) \in Nat /\ Len(b) \in Nat
            BY <1>7, <1>9, <1>11
          <5> QED BY <2>1, <2>3, <5>1
        <4> QED BY <4>1
      <3>2. i + n = Len(a) + j
        BY <1>7, <2>1, <3>1
      <3> QED BY <1>7, <1>9, <1>11, <2>1, <3>1, <3>2
    <2> QED BY <2>2, <2>3
  <1>17. e = d
    BY <1>10, <1>11, <1>15, <1>16, SeqEqual
  <1> QED BY <1>1, <1>2, <1>3, <1>4, <1>5, <1>6, <1>14, <1>17

LEMMA StreamingFrame ==
    ASSUME NEW x, NEW y, Streaming(x), y.p.partial = x.p.partial, y.sock.in = x.sock.in,
           y.sock.next = x.sock.next, y.delivered = x.delivered, x.p.freed => y.p.freed,
           x.sock.reset => y.sock.reset
    PROVE  Streaming(y)
  <1>1. Waiting(y) = Waiting(x) /\ First(y) = First(x)
    BY DEF Waiting, First
  <1> QED BY <1>1 DEF Streaming

LEMMA QueueingFrame ==
    ASSUME NEW x, NEW y, Queueing(x), y.p.send_queue = x.p.send_queue,
           y.sock.garbled = x.sock.garbled, y.sock.out = x.sock.out, y.user.sent = x.user.sent,
           x.p.freed => y.p.freed, x.ended => y.ended, y.ended \/ y.fde.write = x.fde.write
    PROVE  Queueing(y)
  BY DEF Queueing


-----------------------------------------------------------------------------
(***************************************************************************)
(* Operations on views keep the invariant; and what they do to what the    *)
(* user of the context sees.                                               *)
(***************************************************************************)
Quiet(x, y) ==
    /\ y.delivered = x.delivered /\ y.p.busy = x.p.busy /\ y.ended = x.ended
    /\ y.sock.next = x.sock.next /\ y.sock.reset = x.sock.reset
    /\ y.fde.misused = x.fde.misused

\* The next packet is handed to the callback.
Handed(x, y) ==
    /\ ~x.p.busy /\ y.p.busy /\ y.ended = x.ended
    /\ y.sock.next = x.sock.next /\ y.sock.reset = x.sock.reset
    /\ Len(x.delivered) + 1 < x.sock.next[1]
    /\ y.delivered = Append(x.delivered, Bytes(Len(x.delivered) + 1))
    /\ y.fde.misused = x.fde.misused

\* The end is reported.
Over(x, y) ==
    /\ ~x.ended /\ y.ended
    /\ y.delivered = x.delivered /\ y.p.busy = x.p.busy
    /\ y.sock.next = x.sock.next /\ y.sock.reset = x.sock.reset
    /\ x.sock.reset \/ Len(x.delivered) + 1 = x.sock.next[1]
    /\ y.fde.misused = x.fde.misused

Result(x, y) == Good(y) /\ Signalled(y) /\ (Quiet(x, y) \/ Handed(x, y) \/ Over(x, y))

LEMMA ErrorGood ==
    ASSUME NEW x, Good(x), NEW y, y = packet_error(x)
    PROVE  /\ Good(y) /\ Signalled(y) /\ y.ended /\ y.delivered = x.delivered
           /\ y.p.busy = x.p.busy /\ y.p.freed = x.p.freed /\ y.sock = x.sock
           /\ y.p.destructor_called = x.p.destructor_called
           /\ y.fde.misused = x.fde.misused
  <1>1. /\ x \in Views /\ Living(x) /\ Sized(x) /\ Metered(x) /\ Watching(x)
        /\ Streaming(x) /\ Queueing(x)
    BY DEF Good
  <1>2. /\ y \in Views /\ y.ended
        /\ y.timers = x.timers /\ y.sock = x.sock /\ y.user = x.user
        /\ y.delivered = x.delivered
        /\ y.fde.freed /\ y.fde.misused = x.fde.misused
        /\ y.p = [x.p EXCEPT !.sock = FALSE]
    BY <1>1, ErrorFacts
  <1>3. /\ y.p.partial = x.p.partial /\ y.p.packet_size = x.p.packet_size
        /\ ~y.p.sock /\ y.p.processing = x.p.processing /\ y.p.busy = x.p.busy
        /\ y.p.recv_disable = x.p.recv_disable
        /\ y.p.destructor_called = x.p.destructor_called /\ y.p.freed = x.p.freed
        /\ y.p.send_queue = x.p.send_queue
    BY <1>1, <1>2, Parts1 DEF Contexts
  <1>4. Living(y)
    BY <1>1, <1>2, <1>3 DEF Living
  <1>5. Sized(y)
    BY <1>1, <1>3 DEF Sized
  <1>6. Metered(y)
    BY <1>1, <1>2, <1>3 DEF Metered
  <1>7. Watching(y) /\ Signalled(y)
    BY <1>2 DEF Watching, Signalled
  <1>8. Streaming(y)
    BY <1>1, <1>2, <1>3, StreamingFrame
  <1>9. Queueing(y)
    BY <1>1, <1>2, <1>3, QueueingFrame
  <1> QED BY <1>2, <1>3, <1>4, <1>5, <1>6, <1>7, <1>8, <1>9 DEF Good

\* packet_recv while the callback runs, and while receiving is off.
LEMMA DeferredGood ==
    ASSUME NEW x, Good(x), ~x.fde.freed, x.p.processing > 0, Nested,
           NEW y, y = Processing(EVENT_FD_NOT_READABLE(x), x.p.processing + 1)
    PROVE  Result(x, y)
  <1>1. /\ x \in Views /\ Living(x) /\ Sized(x) /\ Metered(x) /\ Watching(x)
        /\ Streaming(x) /\ Queueing(x)
    BY DEF Good
  <1>2. PICK z : z = EVENT_FD_NOT_READABLE(x)
    OBVIOUS
  <1>3. /\ z \in Views /\ SameButFde(x, z)
        /\ z.fde.write = x.fde.write /\ ~z.fde.freed
        /\ z.fde.misused = x.fde.misused
    BY <1>1, <1>2, NotReadableFacts
  <1>4. x.p.processing \in Nat
    BY <1>1, Parts1 DEF Contexts
  <1>5. PICK n \in Nat : n = x.p.processing + 1 /\ n > 1
    BY <1>4
  <1>6. y = Processing(z, n)
    BY <1>2, <1>5
  <1>7. /\ y \in Views /\ SameButP(z, y) /\ y.p.processing = n
        /\ y.p.partial = z.p.partial /\ y.p.packet_size = z.p.packet_size
        /\ y.p.sock = z.p.sock /\ y.p.recv_disable = z.p.recv_disable /\ y.p.busy = z.p.busy
        /\ y.p.destructor_called = z.p.destructor_called /\ y.p.freed = z.p.freed
        /\ y.p.send_queue = z.p.send_queue
    BY <1>3, <1>6, ProcessingFacts
  <1>8. /\ y \in Views /\ y.p.processing = n
        /\ y.p.partial = x.p.partial /\ y.p.packet_size = x.p.packet_size
        /\ y.p.sock = x.p.sock /\ y.p.recv_disable = x.p.recv_disable /\ y.p.busy = x.p.busy
        /\ y.p.destructor_called = x.p.destructor_called /\ y.p.freed = x.p.freed
        /\ y.p.send_queue = x.p.send_queue
        /\ y.timers = x.timers /\ y.sock = x.sock /\ y.user = x.user
        /\ y.delivered = x.delivered /\ y.ended = x.ended
        /\ y.fde.write = x.fde.write /\ ~y.fde.freed /\ y.fde.misused = x.fde.misused
    BY <1>3, <1>7 DEF SameButP, SameButFde
  <1>9. Living(y)
    BY <1>1, <1>5, <1>8 DEF Living
  <1>10. Sized(y)
    BY <1>1, <1>8 DEF Sized
  <1>11. Metered(y)
    BY <1>1, <1>8 DEF Metered
  <1>12. Watching(y)
    BY <1>5, <1>8 DEF Watching
  <1>13. Signalled(y)
    BY <1>1, <1>8 DEF Signalled, Living
  <1>14. Streaming(y)
    BY <1>1, <1>8, StreamingFrame
  <1>15. Queueing(y)
    BY <1>1, <1>8, QueueingFrame
  <1> QED BY <1>8, <1>9, <1>10, <1>11, <1>12, <1>13, <1>14, <1>15 DEF Good, Result, Quiet

LEMMA DisabledGood ==
    ASSUME NEW x, Good(x), ~x.fde.freed, x.p.recv_disable,
           NEW y, y = EVENT_FD_NOT_READABLE(x)
    PROVE  Result(x, y)
  <1>1. /\ x \in Views /\ Living(x) /\ Sized(x) /\ Metered(x) /\ Watching(x)
        /\ Streaming(x) /\ Queueing(x)
    BY DEF Good
  <1>2. /\ y \in Views /\ y.p = x.p /\ y.timers = x.timers /\ y.sock = x.sock
        /\ y.user = x.user /\ y.delivered = x.delivered /\ y.ended = x.ended
        /\ y.fde.write = x.fde.write /\ ~y.fde.freed /\ y.fde.misused = x.fde.misused
    BY <1>1, NotReadableFacts DEF SameButFde
  <1>3. Living(y)
    BY <1>1, <1>2 DEF Living
  <1>4. Sized(y)
    BY <1>1, <1>2 DEF Sized
  <1>5. Metered(y)
    BY <1>1, <1>2 DEF Metered
  <1>6. Watching(y) /\ Signalled(y)
    BY <1>2 DEF Watching, Signalled
  <1>7. Streaming(y)
    BY <1>1, <1>2, StreamingFrame
  <1>8. Queueing(y)
    BY <1>1, <1>2, QueueingFrame
  <1> QED BY <1>2, <1>3, <1>4, <1>5, <1>6, <1>7, <1>8 DEF Good, Result, Quiet

LEMMA Appended ==
    ASSUME NEW S, NEW s \in Seq(S), NEW e \in S, NEW i, i = Len(s) + 1, NEW t, t = Append(s, e)
    PROVE  /\ t \in Seq(S) /\ Len(t) = i /\ t[i] = e /\ i \in Nat
           /\ \A d \in 1 .. Len(s) : t[d] = s[d]
  BY AppendProperties

\* The buffer a, followed by b in the socket, begins with the whole packet i.
Leads(a, b, i, size) ==
    /\ a \in Seq(Byte) /\ b \in Seq(Byte) /\ i \in Nat
    /\ Run(a \o b) /\ a # <<>> /\ (a \o b)[1] = <<i, 1>>
    /\ size = Sizes[i] /\ size <= Len(a)

\* The stream w goes on as v after packet i.
After(w, v, i, size) ==
    /\ w \in Seq(Byte) /\ v \in Seq(Byte) /\ i \in DOMAIN Sizes
    /\ size = Sizes[i] /\ size \in 1 .. Len(w) /\ w[size] = <<i, size>>
    /\ size < Len(w) => w[size + 1] = <<i + 1, 1>>
    /\ Run(v) /\ Len(v) = Len(w) - size /\ \A j \in 1 .. Len(w) - size : v[j] = w[j + size]

LEMMA FirstPacket ==
    ASSUME NEW a, NEW b, NEW i, NEW size, Leads(a, b, i, size)
    PROVE  /\ SubSeq(a, 1, size) = Bytes(i) /\ Bytes(i) \in Seq(Byte)
           /\ After(a \o b, SubSeq(a, size + 1, Len(a)) \o b, i, size)
  <1>1. PICK w : w = a \o b
    OBVIOUS
  <1>2. /\ a \in Seq(Byte) /\ b \in Seq(Byte) /\ i \in Nat /\ Run(w) /\ a # <<>>
        /\ w[1] = <<i, 1>> /\ size = Sizes[i] /\ size <= Len(a)
    BY <1>1 DEF Leads
  <1>3. w \in Seq(Byte) /\ Len(w) = Len(a) + Len(b) /\ Len(a) \in Nat /\ Len(b) \in Nat
    BY <1>1, <1>2, CatFacts
  <1>4. Len(a) >= 1
    BY <1>2, EmptySeq
  <1>5. Len(w) >= 1 /\ w # <<>>
    BY <1>3, <1>4
  <1>6. w[1] \in Byte /\ w[1][1] = i
    BY <1>2, <1>3, <1>5
  <1>7. i \in DOMAIN Sizes /\ size \in Nat /\ size >= 1
    BY <1>2, <1>6, ByteFacts
  <1>8. size \in 0 .. Len(a) /\ size \in 0 .. Len(w) /\ size \in 1 .. Len(w) /\ size <= Len(w)
    BY <1>2, <1>3, <1>7
  <1>9. /\ SubSeq(w, 1, size) = Bytes(i) /\ w[size] = <<i, size>>
        /\ size < Len(w) => w[size + 1] = <<i + 1, 1>>
    BY <1>2, <1>3, <1>5, <1>8, RunPacket
  <1>10. /\ SubSeq(a, 1, size) = SubSeq(w, 1, size)
         /\ SubSeq(a, size + 1, Len(a)) \o b = SubSeq(w, size + 1, Len(w))
    BY <1>1, <1>2, <1>8, CutWaiting
  <1>11. SubSeq(a, 1, size) \in Seq(Byte)
    BY <1>2, <1>8, PrefixFacts
  <1>12. PICK v : v = SubSeq(w, size + 1, Len(w))
    OBVIOUS
  <1>13. /\ Run(v) /\ v \in Seq(Byte) /\ Len(v) = Len(w) - size
         /\ \A j \in 1 .. Len(w) - size : v[j] = w[j + size]
    <2>1. w \in Seq(Byte) /\ Run(w) /\ size \in 0 .. Len(w)
      BY <1>2, <1>3, <1>8
    <2> QED BY <1>12, <2>1, RunTail
  <1>14. After(w, v, i, size)
    BY <1>2, <1>3, <1>7, <1>8, <1>9, <1>13 DEF After
  <1> QED BY <1>1, <1>9, <1>10, <1>11, <1>12, <1>14

LEMMA RestOfStream ==
    ASSUME NEW w, NEW v, NEW i, NEW size, After(w, v, i, size)
    PROVE  /\ v # <<>> => v[1] = <<i + 1, 1>>
           /\ Succ(w[Len(w)]) = IF v = <<>> THEN <<i + 1, 1>> ELSE Succ(v[Len(v)])
           /\ \A j \in 1 .. Len(v) : \E k \in 1 .. Len(w) : v[j] = w[k]
  <1>1. /\ w \in Seq(Byte) /\ v \in Seq(Byte) /\ i \in DOMAIN Sizes
        /\ size = Sizes[i] /\ size \in 1 .. Len(w) /\ w[size] = <<i, size>>
        /\ size < Len(w) => w[size + 1] = <<i + 1, 1>>
        /\ Len(v) = Len(w) - size /\ \A j \in 1 .. Len(w) - size : v[j] = w[j + size]
    BY DEF After
  <1>2. Len(w) \in Nat /\ Len(v) \in Nat /\ size \in Nat
    BY <1>1
  <1>6. v # <<>> => v[1] = <<i + 1, 1>>
    <2> SUFFICES ASSUME v # <<>> PROVE v[1] = <<i + 1, 1>>
      OBVIOUS
    <2>1. Len(v) >= 1
      BY <1>1, EmptySeq
    <2>2. size < Len(w) /\ 1 \in 1 .. Len(w) - size /\ 1 + size = size + 1
      BY <1>1, <1>2, <2>1
    <2> QED BY <1>1, <2>2
  <1>7. Succ(w[Len(w)]) = IF v = <<>> THEN <<i + 1, 1>> ELSE Succ(v[Len(v)])
    <2>2. CASE v = <<>>
      <3>1. Len(v) = 0
        BY <2>2
      <3>2. Len(w) = size
        BY <1>1, <1>2, <3>1
      <3>3. Succ(<<i, size>>) = <<i + 1, 1>>
        BY <1>1, <1>2 DEF Succ
      <3> QED BY <1>1, <2>2, <3>2, <3>3
    <2>3. CASE v # <<>>
      <3>1. Len(v) >= 1
        BY <1>1, <2>3, EmptySeq
      <3>2. Len(v) \in 1 .. Len(w) - size /\ Len(v) + size = Len(w)
        BY <1>1, <1>2, <3>1
      <3>3. v[Len(v)] = w[Len(w)]
        BY <1>1, <3>2
      <3> QED BY <2>3, <3>3
    <2> QED BY <2>2, <2>3
  <1>8. ASSUME NEW j \in 1 .. Len(v) PROVE \E k \in 1 .. Len(w) : v[j] = w[k]
    <2>1. j \in 1 .. Len(w) - size /\ j + size \in 1 .. Len(w)
      BY <1>1, <1>2
    <2> QED BY <1>1, <2>1
  <1> QED BY <1>6, <1>7, <1>8

\* The buffer without its first packet.
CutOff(x, y, size) ==
    /\ y.p.partial = SubSeq(x.p.partial, size + 1, Len(x.p.partial))
    /\ y.delivered = Append(x.delivered, SubSeq(x.p.partial, 1, size))

LEMMA StreamCut ==
    ASSUME NEW x \in Views, NEW y \in Views, Streaming(x), ~x.p.freed,
           NEW size, size = full_request(x.p.partial).size, full_request(x.p.partial).ok,
           y.sock = x.sock, ~y.p.freed, CutOff(x, y, size)
    PROVE  /\ Streaming(y) /\ Len(x.delivered) + 1 < x.sock.next[1]
           /\ y.delivered = Append(x.delivered, Bytes(Len(x.delivered) + 1))
  <1>1. PICK a : a = x.p.partial
    OBVIOUS
  <1>2. PICK b : b = x.sock.in
    OBVIOUS
  <1>3. PICK w : w = a \o b
    OBVIOUS
  <1>4. Waiting(x) = w
    BY <1>1, <1>2, <1>3 DEF Waiting
  <1>5. /\ w \in Seq(Byte) /\ Len(w) = Len(a) + Len(b) /\ a \in Seq(Byte) /\ b \in Seq(Byte)
        /\ Len(a) \in Nat /\ Len(b) \in Nat /\ \A j \in 1 .. Len(a) : w[j] = a[j]
    BY <1>1, <1>2, <1>4, WaitingFacts
  <1>6. /\ size \in Nat /\ a # <<>> /\ size = Sizes[a[1][1]] /\ size <= Len(a)
    BY <1>1, <1>5, SizeFacts
  <1>7. PICK i : i = Len(x.delivered) + 1
    OBVIOUS
  <1>8. x.delivered \in Seq(Seq(Byte)) /\ Len(x.delivered) \in Nat /\ i \in Nat
    BY <1>7, Parts1
  <1>9. Len(a) >= 1 /\ w[1] = a[1] /\ w # <<>>
    <2>1. Len(a) >= 1
      BY <1>5, <1>6, EmptySeq
    <2>2. 1 \in 1 .. Len(a) /\ Len(w) >= 1
      BY <1>5, <2>1
    <2> QED BY <1>5, <2>1, <2>2
  <1>10. Run(w) /\ w[1] = <<i, 1>>
    BY <1>4, <1>7, <1>9 DEF Streaming, First
  <1>11. size = Sizes[i]
    BY <1>6, <1>9, <1>10
  <1>12. PICK v : v = SubSeq(a, size + 1, Len(a)) \o b
    OBVIOUS
  <1>13. Leads(a, b, i, size)
    BY <1>3, <1>5, <1>6, <1>8, <1>10, <1>11 DEF Leads
  <1>14. /\ SubSeq(a, 1, size) = Bytes(i) /\ Bytes(i) \in Seq(Byte)
         /\ After(w, v, i, size)
    BY <1>3, <1>12, <1>13, FirstPacket
  <1>33. /\ i \in DOMAIN Sizes /\ size \in 1 .. Len(w) /\ w[size] = <<i, size>> /\ Run(v)
    BY <1>14 DEF After
  <1>34. /\ v # <<>> => v[1] = <<i + 1, 1>>
         /\ Succ(w[Len(w)]) = IF v = <<>> THEN <<i + 1, 1>> ELSE Succ(v[Len(v)])
         /\ \A j \in 1 .. Len(v) : \E k \in 1 .. Len(w) : v[j] = w[k]
    BY <1>14, RestOfStream
  <1>15. Waiting(y) = v
    BY <1>1, <1>2, <1>12 DEF Waiting, CutOff
  <1>16. PICK e \in Seq(Byte) : e = Bytes(i) /\ y.delivered = Append(x.delivered, e)
    BY <1>1, <1>14 DEF CutOff
  <1>17. /\ Len(y.delivered) = i /\ y.delivered[i] = Bytes(i)
         /\ \A d \in 1 .. Len(x.delivered) : y.delivered[d] = x.delivered[d]
    BY <1>7, <1>8, <1>16, Appended
  <1>20. PICK next : next = x.sock.next
    OBVIOUS
  <1>21. next \in Nat \X Nat
    BY <1>20, Parts1 DEF Sockets
  <1>22. /\ \A j \in 1 .. Len(w) : Earlier(w[j], next)
         /\ next[1] <= Len(Sizes) + 1 /\ next[2] > 0
         /\ next[1] <= Len(Sizes) => next[2] <= Sizes[next[1]]
         /\ \A d \in 1 .. Len(x.delivered) : x.delivered[d] = Bytes(d)
         /\ ~x.sock.reset => next = Succ(w[Len(w)])
    BY <1>4, <1>9, <1>20 DEF Streaming
  <1>24. i < next[1]
    <2>1. Earlier(<<i, size>>, next)
      BY <1>22, <1>33
    <2>2. i < next[1] \/ (i = next[1] /\ size < next[2])
      BY <2>1 DEF Earlier
    <2>3. CASE i = next[1] /\ size < next[2]
      <3>1. Sizes \in Seq(Nat)
        BY SizesAssumption
      <3>2. i <= Len(Sizes)
        BY <1>33, <3>1
      <3>3. next[2] <= size
        BY <1>11, <1>22, <2>3, <3>2
      <3>4. next[2] \in Nat
        BY <1>21
      <3> QED BY <1>6, <2>3, <3>3, <3>4
    <2> QED BY <2>2, <2>3
  <1>25. First(y) = <<i + 1, 1>>
    BY <1>17 DEF First
  <1>26. v # <<>> => v[1] = First(y)
    BY <1>25, <1>34
  <1>27. ~y.sock.reset => next = IF v = <<>> THEN First(y) ELSE Succ(v[Len(v)])
    BY <1>22, <1>25, <1>34
  <1>28. \A j \in 1 .. Len(v) : Earlier(v[j], next)
    BY <1>22, <1>34
  <1>29. \A d \in 1 .. Len(y.delivered) : y.delivered[d] = Bytes(d)
    <2> SUFFICES ASSUME NEW d \in 1 .. i PROVE y.delivered[d] = Bytes(d)
      BY <1>17
    <2>1. d = i \/ d \in 1 .. Len(x.delivered)
      BY <1>7, <1>8
    <2> QED BY <1>17, <1>22, <2>1
  <1>30. y.sock.next = next
    BY <1>20
  <1>31. Len(y.delivered) < next[1]
    BY <1>17, <1>24
  <1>32. Streaming(y)
    BY <1>33, <1>15, <1>22, <1>26, <1>27, <1>28, <1>29, <1>30, <1>31 DEF Streaming
  <1> QED BY <1>7, <1>16, <1>20, <1>24, <1>32

LEMMA EmptyRequest ==
    ~full_request(<<>>).ok /\ full_request(<<>>).size = 0
  <1>1. Len(<<>>) < Hdr
    BY HdrAssumption
  <1> QED BY <1>1 DEF full_request

\* What the user's callback finds, and what it does first.
LEMMA CallbackGood ==
    ASSUME NEW x \in Views, Living(x), x.p.busy, x.p.packet_size = 0, ~x.p.freed,
           ~x.p.recv_disable, Watching(x), Streaming(x), Queueing(x),
           User = "rpc" => /\ ~x.fde.freed /\ x.user.pending_reads > 0 /\ x.timers = 0
                           /\ x.p.partial = <<>>,
           NEW y, y = Callback(x)
    PROVE  /\ Good(y) /\ Signalled(y) /\ y.p.busy /\ y.ended = x.ended /\ y.sock = x.sock
           /\ y.delivered = x.delivered /\ y.fde.misused = x.fde.misused
  <1>1. CASE User # "rpc"
    <2>1. y = x
      BY <1>1 DEF Callback
    <2>2. Sized(x) /\ Metered(x) /\ Signalled(x)
      BY <1>1 DEF Sized, Metered, Signalled
    <2> QED BY <2>1, <2>2 DEF Good
  <1>2. CASE User = "rpc"
    <2>1. PICK n : n = x.user.pending_reads - 1
      OBVIOUS
    <2>2. x.user.pending_reads \in Int /\ x.user.pending_reads > 0
      BY <1>2, Parts1 DEF Users
    <2>3. n \in Int /\ n >= 0
      BY <2>1, <2>2
    <2>10. PICK off \in BOOLEAN : off = FALSE
      OBVIOUS
    <2>4. PICK z : z = Expect(x, n, off)
      OBVIOUS
    <2>5. /\ z \in Views /\ z.p = x.p /\ z.fde = x.fde /\ z.timers = x.timers
          /\ z.sock = x.sock /\ z.delivered = x.delivered /\ z.ended = x.ended
          /\ z.user.pending_reads = n /\ z.user.sent = x.user.sent
      BY <2>3, <2>4, ExpectFacts
    <2>6. y = IF n = 0 THEN packet_recv_disable(z) ELSE z
      BY <1>2, <2>1, <2>4, <2>5, <2>10 DEF Callback, sock_process_recv
    <2>7. CASE n # 0
      <3>1. y = z
        BY <2>6, <2>7
      <3>2. Living(z)
        BY <2>5 DEF Living
      <3>3. Sized(z) /\ Signalled(z)
        BY <2>5 DEF Sized, Signalled
      <3>4. Metered(z)
        BY <1>2, <2>3, <2>5, <2>7, EmptyRequest DEF Metered
      <3>5. Watching(z)
        BY <2>5 DEF Watching
      <3>6. Streaming(z)
        BY <2>5, StreamingFrame
      <3>7. Queueing(z)
        BY <2>5, QueueingFrame
      <3> QED BY <2>5, <3>1, <3>2, <3>3, <3>4, <3>5, <3>6, <3>7 DEF Good
    <2>8. CASE n = 0
      <3>1. PICK u : u = EVENT_FD_NOT_READABLE(z)
        OBVIOUS
      <3>11. PICK on \in BOOLEAN : on = TRUE
        OBVIOUS
      <3>2. y = SetDisabled(u, on)
        BY <2>6, <2>8, <3>1, <3>11 DEF packet_recv_disable
      <3>3. /\ u \in Views /\ SameButFde(z, u) /\ u.fde.write = z.fde.write /\ ~u.fde.freed
            /\ u.fde.misused = z.fde.misused
        BY <1>2, <2>5, <3>1, NotReadableFacts
      <3>4. /\ y \in Views /\ SameButP(u, y) /\ y.p.recv_disable = on
            /\ y.p.partial = u.p.partial /\ y.p.packet_size = u.p.packet_size
            /\ y.p.sock = u.p.sock /\ y.p.processing = u.p.processing /\ y.p.busy = u.p.busy
            /\ y.p.destructor_called = u.p.destructor_called /\ y.p.freed = u.p.freed
            /\ y.p.send_queue = u.p.send_queue
        BY <3>2, <3>3, DisabledFacts
      <3>5. /\ y.p.recv_disable
            /\ y.p.partial = x.p.partial /\ y.p.packet_size = x.p.packet_size
            /\ y.p.sock = x.p.sock /\ y.p.processing = x.p.processing /\ y.p.busy = x.p.busy
            /\ y.p.destructor_called = x.p.destructor_called /\ y.p.freed = x.p.freed
            /\ y.p.send_queue = x.p.send_queue
            /\ y.timers = x.timers /\ y.sock = x.sock /\ y.delivered = x.delivered
            /\ y.ended = x.ended /\ y.fde.write = x.fde.write /\ ~y.fde.freed
            /\ y.fde.misused = x.fde.misused /\ y.user.sent = x.user.sent
            /\ y.user.pending_reads = n
        BY <2>5, <3>3, <3>4, <3>11 DEF SameButP, SameButFde
      <3>6. Living(y)
        BY <1>2, <3>5 DEF Living
      <3>7. Sized(y) /\ Signalled(y) /\ Watching(y)
        BY <3>5 DEF Sized, Signalled, Watching
      <3>8. Metered(y)
        BY <1>2, <2>8, <3>5, EmptyRequest DEF Metered
      <3>9. Streaming(y)
        BY <3>5, StreamingFrame
      <3>10. Queueing(y)
        BY <3>5, QueueingFrame
      <3> QED BY <3>4, <3>5, <3>6, <3>7, <3>8, <3>9, <3>10 DEF Good
    <2> QED BY <2>7, <2>8
  <1> QED BY <1>1, <1>2

\* The states in which packet_recv looks at the buffer.
Fed(x) ==
    /\ x \in Views /\ Living(x) /\ Watching(x) /\ Streaming(x) /\ Queueing(x)
    /\ ~x.p.busy /\ ~x.p.freed /\ ~x.p.recv_disable
    /\ x.p.packet_size \in {0, full_request(x.p.partial).size}
    /\ User = "rpc" =>
          /\ ~x.fde.freed /\ x.user.pending_reads > 0 /\ x.timers = 0
          /\ full_request(x.p.partial).ok => full_request(x.p.partial).size = Len(x.p.partial)

LEMMA NextPartialGood ==
    ASSUME NEW x, Fed(x), NEW y, y = next_partial(x)
    PROVE  Result(x, y)
  <1>1. /\ x \in Views /\ Living(x) /\ Watching(x) /\ Streaming(x) /\ Queueing(x)
        /\ ~x.p.busy /\ ~x.p.freed /\ ~x.p.recv_disable
        /\ x.p.packet_size \in {0, full_request(x.p.partial).size}
        /\ User = "rpc" =>
              /\ ~x.fde.freed /\ x.user.pending_reads > 0 /\ x.timers = 0
              /\ full_request(x.p.partial).ok => full_request(x.p.partial).size = Len(x.p.partial)
    BY DEF Fed
  <1>2. PICK f : f = full_request(x.p.partial)
    OBVIOUS
  <1>3. x.p.partial \in Seq(Byte) /\ Len(x.p.partial) \in Nat
    BY <1>1, WaitingFacts
  <1>4. /\ f.size \in Nat /\ f.ok \in BOOLEAN
        /\ f.ok <=> f.size # 0 /\ f.size <= Len(x.p.partial)
    BY <1>2, <1>3, SizeFacts
  <1>5. PICK z : z = Measured(x)
    OBVIOUS
  <1>6. /\ z \in Views /\ SameButP(x, z) /\ z.p.processing = x.p.processing
        /\ z.p.partial = x.p.partial
        /\ z.p.packet_size = IF f.size = 0 THEN x.p.packet_size ELSE f.size
        /\ z.p.sock = x.p.sock /\ z.p.recv_disable = x.p.recv_disable /\ z.p.busy = x.p.busy
        /\ z.p.destructor_called = x.p.destructor_called /\ z.p.freed = x.p.freed
        /\ z.p.send_queue = x.p.send_queue
    BY <1>1, <1>2, <1>5, MeasuredFacts
  <1>7. z.p.packet_size = f.size
    BY <1>1, <1>2, <1>6
  <1>8. /\ z.timers = x.timers /\ z.sock = x.sock /\ z.user = x.user /\ z.fde = x.fde
        /\ z.delivered = x.delivered /\ z.ended = x.ended
    BY <1>6 DEF SameButP
  <1>9. y = IF f.ok THEN Callback(Cut(z)) ELSE z
    BY <1>2, <1>5 DEF next_partial
  <1>10. CASE ~f.ok
    <2>1. y = z
      BY <1>9, <1>10
    <2>2. Living(z)
      BY <1>1, <1>6, <1>8 DEF Living
    <2>3. Sized(z)
      BY <1>1, <1>2, <1>6, <1>7 DEF Sized
    <2>4. Metered(z)
      <3>1. CASE User = "rpc"
        <4>1. x.user.pending_reads \in Int
          BY <1>1, Parts1 DEF Users
        <4>2. z.user.pending_reads >= 0 /\ z.user.pending_reads # 0 /\ z.timers = 0
          BY <1>1, <1>8, <3>1, <4>1
        <4>3. ~full_request(z.p.partial).ok /\ ~z.p.busy /\ ~z.p.recv_disable
          BY <1>1, <1>2, <1>6, <1>10
        <4> QED BY <3>1, <4>2, <4>3 DEF Metered
      <3>2. CASE User # "rpc"
        BY <1>1, <1>6, <3>2 DEF Metered
      <3> QED BY <3>1, <3>2
    <2>5. Watching(z) /\ Signalled(z)
      BY <1>1, <1>2, <1>6, <1>8, <1>10 DEF Watching, Signalled
    <2>6. Streaming(z)
      BY <1>1, <1>6, <1>8, StreamingFrame
    <2>7. Queueing(z)
      BY <1>1, <1>6, <1>8, QueueingFrame
    <2>8. Quiet(x, z)
      BY <1>6, <1>8 DEF Quiet
    <2> QED BY <1>6, <2>1, <2>2, <2>3, <2>4, <2>5, <2>6, <2>7, <2>8 DEF Good, Result
  <1>11. CASE f.ok
    <2>1. PICK u : u = Cut(z)
      OBVIOUS
    <2>2. y = Callback(u)
      BY <1>9, <1>11, <2>1
    <2>3. z.p.packet_size <= Len(z.p.partial)
      BY <1>4, <1>6, <1>7, <1>11
    <2>4. /\ u \in Views /\ u.fde = z.fde /\ u.timers = z.timers /\ u.sock = z.sock
          /\ u.user = z.user /\ u.ended = z.ended
          /\ u.delivered = Append(z.delivered, SubSeq(z.p.partial, 1, z.p.packet_size))
          /\ u.p.partial = SubSeq(z.p.partial, z.p.packet_size + 1, Len(z.p.partial))
          /\ u.p.packet_size = 0 /\ u.p.processing = 1 /\ u.p.busy
          /\ u.p.sock = z.p.sock /\ u.p.recv_disable = z.p.recv_disable
          /\ u.p.destructor_called = z.p.destructor_called /\ u.p.freed = z.p.freed
          /\ u.p.send_queue = z.p.send_queue
      <3>1. z \in Views
        BY <1>6
      <3> QED BY <2>1, <2>3, <3>1, CutFacts
    <2>5. CutOff(x, u, f.size)
      BY <1>6, <1>7, <1>8, <2>4 DEF CutOff
    <2>6. /\ u.fde = x.fde /\ u.timers = x.timers /\ u.sock = x.sock
          /\ u.user = x.user /\ u.ended = x.ended
          /\ u.p.packet_size = 0 /\ u.p.processing = 1 /\ u.p.busy
          /\ u.p.sock = x.p.sock /\ u.p.recv_disable = x.p.recv_disable
          /\ u.p.destructor_called = x.p.destructor_called /\ u.p.freed = x.p.freed
          /\ u.p.send_queue = x.p.send_queue
      BY <1>6, <1>8, <2>4
    <2>7. /\ Streaming(u) /\ Len(x.delivered) + 1 < x.sock.next[1]
          /\ u.delivered = Append(x.delivered, Bytes(Len(x.delivered) + 1))
      <3>1. x \in Views /\ u \in Views /\ Streaming(x) /\ ~x.p.freed /\ ~u.p.freed
            /\ u.sock = x.sock
        BY <1>1, <2>4, <2>6
      <3>2. PICK n : n = full_request(x.p.partial).size
        OBVIOUS
      <3>3. full_request(x.p.partial).ok /\ CutOff(x, u, n)
        BY <1>2, <1>11, <2>5, <3>2
      <3> QED BY <3>1, <3>2, <3>3, StreamCut
    <2>8. Living(u)
      BY <1>1, <1>2, <1>11, <2>6 DEF Living
    <2>9. Watching(u)
      <3>1. x.p.processing \in Nat /\ ~(x.p.processing > 0)
        BY <1>1, Parts1 DEF Contexts, Living
      <3>2. ~(x.p.processing > 1)
        BY <3>1
      <3> QED BY <1>1, <2>6, <3>2 DEF Watching
    <2>10. Queueing(u)
      BY <1>1, <2>6, QueueingFrame
    <2>11. User = "rpc" => u.p.partial = <<>>
      <3> SUFFICES ASSUME User = "rpc" PROVE u.p.partial = <<>>
        OBVIOUS
      <3>1. f.size = Len(x.p.partial)
        BY <1>1, <1>2, <1>11
      <3>2. u.p.partial = SubSeq(x.p.partial, f.size + 1, Len(x.p.partial))
        BY <2>5 DEF CutOff
      <3>3. Len(x.p.partial) < f.size + 1 /\ f.size + 1 \in Int /\ Len(x.p.partial) \in Int
        BY <1>3, <1>4, <3>1
      <3> QED BY <3>2, <3>3, SubSeqEmpty
    <2>12. User = "rpc" => /\ ~u.fde.freed /\ u.user.pending_reads > 0 /\ u.timers = 0
                           /\ u.p.partial = <<>>
      BY <1>1, <2>6, <2>11
    <2>13. ~u.p.freed /\ ~u.p.recv_disable
      BY <1>1, <2>6
    <2>14. /\ Good(y) /\ Signalled(y) /\ y.p.busy /\ y.ended = u.ended /\ y.sock = u.sock
           /\ y.delivered = u.delivered /\ y.fde.misused = u.fde.misused
      <3>1. u \in Views /\ u.p.busy /\ u.p.packet_size = 0 /\ Streaming(u)
        BY <2>4, <2>7
      <3> QED BY <2>2, <2>8, <2>9, <2>10, <2>12, <2>13, <3>1, CallbackGood
    <2>15. Handed(x, y)
      BY <1>1, <2>6, <2>7, <2>14 DEF Handed
    <2> QED BY <2>14, <2>15 DEF Result
  <1> QED BY <1>4, <1>10, <1>11

LEMMA BufferedOk ==
    ASSUME NEW x, Good(x), ~x.p.busy
    PROVE  Buffered(x) <=> full_request(x.p.partial).ok
  <1>1. x \in Views /\ x.p.packet_size = full_request(x.p.partial).size
    BY DEF Good, Sized
  <1>2. x.p.partial \in Seq(Byte) /\ Len(x.p.partial) \in Nat
    BY <1>1, WaitingFacts
  <1>3. PICK f : f = full_request(x.p.partial)
    OBVIOUS
  <1>4. f.size \in Nat /\ (f.ok <=> f.size # 0 /\ f.size <= Len(x.p.partial))
    BY <1>2, <1>3, SizeFacts
  <1>5. Buffered(x) <=> f.size # 0 /\ Len(x.p.partial) >= f.size
    BY <1>1, <1>3 DEF Buffered, num_read
  <1>6. Len(x.p.partial) >= f.size <=> f.size <= Len(x.p.partial)
    BY <1>2, <1>4
  <1> QED BY <1>3, <1>4, <1>5, <1>6

\* What socket_recv is asked for is not more than the packet at hand.
LEMMA TakeFed ==
    ASSUME NEW x, Good(x), ~x.p.busy, ~x.p.freed, ~x.p.recv_disable, ~x.ended,
           ~full_request(x.p.partial).ok,
           NEW n \in 1 .. Len(x.sock.in), n <= npending(x), NEW y, y = Take(x, n)
    PROVE  Fed(y) /\ Quiet(x, y)
  <1>1. /\ x \in Views /\ Living(x) /\ Sized(x) /\ Metered(x) /\ Watching(x)
        /\ Streaming(x) /\ Queueing(x)
    BY DEF Good
  <1>2. PICK a : a = x.p.partial
    OBVIOUS
  <1>3. PICK b : b = SubSeq(x.sock.in, 1, n)
    OBVIOUS
  <1>4. /\ y \in Views /\ y.fde = x.fde /\ y.timers = x.timers /\ y.user = x.user
        /\ y.ended = x.ended /\ y.delivered = x.delivered
        /\ y.p.partial = a \o b
        /\ y.p.packet_size = x.p.packet_size
        /\ y.p.processing = x.p.processing /\ y.p.busy = x.p.busy
        /\ y.p.sock = x.p.sock /\ y.p.recv_disable = x.p.recv_disable
        /\ y.p.destructor_called = x.p.destructor_called /\ y.p.freed = x.p.freed
        /\ y.p.send_queue = x.p.send_queue
        /\ y.sock.next = x.sock.next
        /\ y.sock.reset = x.sock.reset /\ y.sock.out = x.sock.out
        /\ y.sock.garbled = x.sock.garbled
    <2>1. x \in Views /\ n \in 1 .. Len(x.sock.in) /\ y = Take(x, n)
      BY <1>1
    <2>2. y.p.partial = x.p.partial \o SubSeq(x.sock.in, 1, n)
      BY <2>1, TakeFacts
    <2>3. y.p.partial = a \o b
      BY <1>2, <1>3, <2>2
    <2> QED BY <2>1, <2>3, TakeFacts
  <1>5. Waiting(y) = Waiting(x)
    BY <1>1, TakeWaiting
  <1>6. a \in Seq(Byte) /\ x.sock.in \in Seq(Byte) /\ Len(x.sock.in) \in Nat /\ Len(a) \in Nat
    BY <1>1, <1>2, WaitingFacts
  <1>7. b \in Seq(Byte) /\ Len(b) = n
    <2>1. n \in 0 .. Len(x.sock.in)
      BY <1>6
    <2>2. PICK s \in Seq(Byte) : s = x.sock.in
      BY <1>6
    <2> QED BY <1>3, <2>1, <2>2, PrefixFacts
  <1>8. PICK w : w = a \o b
    OBVIOUS
  <1>9. /\ w \in Seq(Byte) /\ Len(w) = Len(a) + n
        /\ \A i \in 1 .. Len(a) : w[i] = a[i]
    <2>1. /\ w \in Seq(Byte) /\ Len(w) = Len(a) + Len(b)
          /\ \A i \in 1 .. Len(a) : w[i] = a[i]
      <3>1. a \in Seq(Byte) /\ b \in Seq(Byte)
        BY <1>6, <1>7
      <3> QED BY <1>8, <3>1, CatFacts
    <2> QED BY <1>7, <2>1
  <1>10. PICK f : f = full_request(a)
    OBVIOUS
  <1>11. PICK g : g = full_request(w)
    OBVIOUS
  <1>12. /\ f.size \in Nat /\ (f.size = 0 <=> Len(a) < Hdr) /\ (f.size # 0 => a # <<>>)
         /\ (f.ok <=> f.size # 0 /\ f.size <= Len(a))
         /\ (f.size # 0 => f.size = Sizes[a[1][1]])
    BY <1>6, <1>10, SizeFacts
  <1>13. /\ g.size \in Nat /\ (g.ok <=> g.size # 0 /\ g.size <= Len(w))
         /\ (g.size # 0 => g.size = Sizes[w[1][1]] /\ g.size >= Hdr)
         /\ (g.size = 0 <=> Len(w) < Hdr)
    BY <1>9, <1>11, SizeFacts
  <1>14. x.p.packet_size = f.size /\ ~f.ok
    BY <1>1, <1>2, <1>10 DEF Sized
  <1>15. f.size # 0 => g.size = f.size
    <2> SUFFICES ASSUME f.size # 0 PROVE g.size = f.size
      OBVIOUS
    <2>1. Len(a) >= Hdr /\ Hdr \in Nat /\ Hdr >= 1
      BY <1>6, <1>12, HdrAssumption
    <2>2. ~(Len(w) < Hdr) /\ 1 \in 1 .. Len(a)
      BY <1>6, <1>9, <2>1
    <2>3. w[1] = a[1]
      BY <1>9, <2>2
    <2> QED BY <1>12, <1>13, <2>2, <2>3
  <1>16. y.p.packet_size \in {0, full_request(y.p.partial).size}
    BY <1>4, <1>8, <1>11, <1>14, <1>15
  <1>17. User = "rpc" =>
            /\ ~y.fde.freed /\ y.user.pending_reads > 0 /\ y.timers = 0
            /\ full_request(y.p.partial).ok => full_request(y.p.partial).size = Len(y.p.partial)
    <2> SUFFICES ASSUME User = "rpc"
                 PROVE  /\ ~y.fde.freed /\ y.user.pending_reads > 0 /\ y.timers = 0
                        /\ full_request(y.p.partial).ok =>
                              full_request(y.p.partial).size = Len(y.p.partial)
      OBVIOUS
    <2>1. ~y.fde.freed
      BY <1>1, <1>4 DEF Living
    <2>2. x.user.pending_reads >= 0 /\ x.user.pending_reads # 0 /\ x.timers = 0
      BY <1>1 DEF Metered
    <2>3. x.user.pending_reads \in Int
      BY <1>1, Parts1 DEF Users
    <2>4. y.user.pending_reads > 0 /\ y.timers = 0
      BY <1>4, <2>2, <2>3
    <2>5. ASSUME g.ok PROVE g.size = Len(w)
      <3>1. CASE f.size # 0
        <4>1. npending(x) = f.size - Len(a)
          BY <1>2, <1>14, <3>1 DEF npending, num_read
        <4>2. n <= f.size - Len(a)
          BY <4>1
        <4>3. g.size <= Len(w) /\ g.size = f.size
          BY <1>13, <1>15, <2>5, <3>1
        <4>4. Len(w) = Len(a) + n /\ Len(w) \in Nat /\ Len(a) \in Nat
          BY <1>6, <1>9
        <4>5. n \in Nat /\ f.size \in Nat
          BY <1>6, <1>12
        <4>6. Len(w) <= f.size
          BY <4>2, <4>4, <4>5
        <4> QED BY <4>3, <4>4, <4>5, <4>6
      <3>2. CASE f.size = 0
        <4>1. Hdr \in Nat /\ Hdr # 0 /\ initial_read = Hdr
          BY HdrAssumption DEF initial_read
        <4>2. npending(x) = Hdr - Len(a)
          BY <1>2, <1>14, <3>2, <4>1 DEF npending, num_read
        <4>3. n <= Hdr - Len(a)
          BY <4>2
        <4>4. Len(w) <= Hdr
          BY <1>6, <1>9, <4>1, <4>3
        <4>5. g.size <= Len(w) /\ g.size >= Hdr
          BY <1>13, <2>5
        <4>6. Len(w) \in Nat
          BY <1>9
        <4> QED BY <1>13, <4>1, <4>4, <4>5, <4>6
      <3> QED BY <3>1, <3>2
    <2> QED BY <1>4, <1>8, <1>11, <2>1, <2>4, <2>5
  <1>18. Living(y)
    BY <1>1, <1>4 DEF Living
  <1>19. Watching(y)
    BY <1>1, <1>4 DEF Watching
  <1>20. Streaming(y)
    <2>1. First(y) = First(x)
      BY <1>4 DEF First
    <2>2. y.p.freed = x.p.freed /\ y.sock.reset = x.sock.reset /\ y.sock.next = x.sock.next
          /\ y.delivered = x.delivered
      BY <1>4
    <2> QED BY <1>1, <1>5, <2>1, <2>2 DEF Streaming
  <1>21. Queueing(y)
    BY <1>1, <1>4, QueueingFrame
  <1>22. Quiet(x, y)
    BY <1>4 DEF Quiet
  <1>23. y \in Views /\ ~y.p.busy /\ ~y.p.freed /\ ~y.p.recv_disable
    BY <1>4
  <1> QED BY <1>16, <1>17, <1>18, <1>19, <1>20, <1>21, <1>22, <1>23 DEF Fed

\* Nothing more has arrived: no whole packet is missing.
LEMMA AllDelivered ==
    ASSUME NEW x, Good(x), ~x.p.freed, ~full_request(x.p.partial).ok, x.sock.in = <<>>,
           ~x.sock.reset
    PROVE  Len(x.delivered) + 1 = x.sock.next[1]
  <1>1. x \in Views /\ Streaming(x)
    BY DEF Good
  <1>2. PICK a : a = x.p.partial
    OBVIOUS
  <1>3. a \in Seq(Byte) /\ Len(a) \in Nat
    BY <1>1, <1>2, WaitingFacts
  <1>4. Waiting(x) = a
    BY <1>2, <1>3, ConcatEmptySeq DEF Waiting
  <1>5. PICK i : i = Len(x.delivered) + 1
    OBVIOUS
  <1>6. First(x) = <<i, 1>>
    BY <1>5 DEF First
  <1>7. /\ Run(a) /\ (a # <<>> => a[1] = <<i, 1>>)
        /\ x.sock.next = IF a = <<>> THEN <<i, 1>> ELSE Succ(a[Len(a)])
    BY <1>1, <1>4, <1>6 DEF Streaming
  <1>8. CASE a = <<>>
    BY <1>5, <1>7, <1>8
  <1>9. CASE a # <<>>
    <2>1. PICK f : f = full_request(a)
      OBVIOUS
    <2>2. /\ f.size \in Nat /\ (f.size = 0 <=> Len(a) < Hdr)
          /\ (f.ok <=> f.size # 0 /\ f.size <= Len(a))
          /\ (f.size # 0 => f.size = Sizes[a[1][1]])
      BY <1>3, <2>1, SizeFacts
    <2>3. a[1] \in Byte /\ a[1][1] = i
      <3>1. Len(a) >= 1
        BY <1>3, <1>9, EmptySeq
      <3> QED BY <1>3, <1>7, <1>9, <3>1
    <2>4. Sizes[i] \in Nat /\ Sizes[i] >= Hdr /\ Hdr \in Nat
      BY <2>3, ByteFacts, HdrAssumption
    <2>5. ~f.ok
      BY <1>2, <2>1
    <2>6. Len(a) < Sizes[i]
      <3>1. CASE f.size = 0
        BY <1>3, <2>2, <2>4, <3>1
      <3>2. CASE f.size # 0
        <4>1. f.size = Sizes[i] /\ ~(f.size <= Len(a))
          BY <2>2, <2>3, <2>5, <3>2
        <4> QED BY <1>3, <2>2, <4>1
      <3> QED BY <3>1, <3>2
    <2>7. Succ(a[Len(a)]) = <<i, Len(a) + 1>>
      BY <1>3, <1>7, <1>9, <2>6, RunPart
    <2> QED BY <1>5, <1>7, <1>9, <2>7
  <1> QED BY <1>8, <1>9

LEMMA EndGood ==
    ASSUME NEW x, Good(x), ~x.p.busy, ~x.p.freed, ~x.ended, ~full_request(x.p.partial).ok,
           x.sock.reset \/ x.sock.in = <<>>, NEW y, y = packet_error(x)
    PROVE  Result(x, y)
  <1>1. x.sock.reset \/ Len(x.delivered) + 1 = x.sock.next[1]
    BY AllDelivered
  <1>2. /\ Good(y) /\ Signalled(y) /\ y.ended /\ y.delivered = x.delivered
        /\ y.p.busy = x.p.busy /\ y.sock = x.sock /\ y.fde.misused = x.fde.misused
    BY ErrorGood
  <1>3. Over(x, y)
    BY <1>1, <1>2 DEF Over
  <1> QED BY <1>2, <1>3 DEF Result

LEMMA SocketRecvGood ==
    ASSUME NEW x, Good(x), ~x.p.busy, ~x.p.freed, ~x.p.recv_disable, ~x.ended,
           ~full_request(x.p.partial).ok, npending(x) > 0, npending(x) \in Int,
           NEW y, y = socket_recv(x, npending(x))
    PROVE  Result(x, y)
  <1>1. x \in Views
    BY DEF Good
  <1>2. x.sock.in \in Seq(Byte) /\ Len(x.sock.in) \in Nat
    BY <1>1, WaitingFacts
  <1>3. PICK n : n = IF npending(x) < Len(x.sock.in) THEN npending(x) ELSE Len(x.sock.in)
    OBVIOUS
  <1>4. /\ n \in Nat /\ n <= npending(x) /\ n <= Len(x.sock.in)
        /\ n = 0 => Len(x.sock.in) = 0
    BY <1>2, <1>3
  <1>5. y = IF x.sock.reset THEN packet_error(x)
            ELSE IF n > 0 THEN next_partial(Take(x, n))
            ELSE IF x.sock.closed THEN packet_error(x) ELSE x
    <2>1. x.p.sock
      BY DEF Good, Living
    <2> QED BY <1>3, <2>1 DEF socket_recv, packet_eof
  <1>6. CASE x.sock.reset
    BY <1>5, <1>6, EndGood
  <1>7. CASE ~x.sock.reset /\ n > 0
    <2>1. PICK z : z = Take(x, n)
      OBVIOUS
    <2>2. n \in 1 .. Len(x.sock.in)
      BY <1>2, <1>4, <1>7
    <2>3. Fed(z) /\ Quiet(x, z)
      BY <1>4, <2>1, <2>2, TakeFed
    <2>4. y = next_partial(z)
      BY <1>5, <1>7, <2>1
    <2>5. Result(z, y)
      BY <2>3, <2>4, NextPartialGood
    <2>6. Quiet(z, y) => Quiet(x, y)
      BY <2>3 DEF Quiet
    <2>7. Handed(z, y) => Handed(x, y)
      BY <2>3 DEF Quiet, Handed
    <2>8. Over(z, y) => Over(x, y)
      BY <2>3 DEF Quiet, Over
    <2> QED BY <2>5, <2>6, <2>7, <2>8 DEF Result
  <1>8. CASE ~x.sock.reset /\ ~(n > 0)
    <2>1. n = 0 /\ Len(x.sock.in) = 0
      BY <1>4, <1>8
    <2>2. x.sock.in = <<>>
      BY <1>2, <2>1, EmptySeq
    <2>3. CASE x.sock.closed
      <3>1. y = packet_error(x)
        BY <1>5, <1>8, <2>3
      <3> QED BY <2>2, <3>1, EndGood
    <2>4. CASE ~x.sock.closed
      <3>1. y = x
        BY <1>5, <1>8, <2>4
      <3>2. Signalled(x) /\ Quiet(x, x)
        BY DEF Signalled, Quiet
      <3> QED BY <3>1, <3>2 DEF Result
    <2> QED BY <2>3, <2>4
  <1> QED BY <1>6, <1>7, <1>8

LEMMA NpendingFacts ==
    ASSUME NEW x, Good(x), ~x.p.busy, ~full_request(x.p.partial).ok
    PROVE  /\ npending(x) \in Int /\ npending(x) >= 0
           /\ npending(x) = 0 => x.sock.in = <<>>
  <1>1. x \in Views /\ x.p.packet_size = full_request(x.p.partial).size
    BY DEF Good, Sized
  <1>2. PICK a : a = x.p.partial
    OBVIOUS
  <1>3. /\ a \in Seq(Byte) /\ Len(a) \in Nat /\ x.sock.in \in Seq(Byte)
        /\ Len(x.sock.in) \in Nat
    BY <1>1, <1>2, WaitingFacts
  <1>4. PICK f : f = full_request(a)
    OBVIOUS
  <1>5. /\ f.size \in Nat /\ (f.size = 0 <=> Len(a) < Hdr)
        /\ (f.ok <=> f.size # 0 /\ f.size <= Len(a))
    BY <1>3, <1>4, SizeFacts
  <1>6. x.p.packet_size = f.size /\ ~f.ok
    BY <1>1, <1>2, <1>4
  <1>7. npending(x) = IF f.size # 0 THEN f.size - Len(a)
                      ELSE IF initial_read # 0 THEN initial_read - Len(a) ELSE Len(x.sock.in)
    BY <1>2, <1>6 DEF npending, num_read
  <1>8. CASE f.size # 0
    <2>1. ~(f.size <= Len(a))
      BY <1>5, <1>6, <1>8
    <2>2. f.size - Len(a) \in Int /\ f.size - Len(a) > 0
      BY <1>3, <1>5, <2>1
    <2>3. npending(x) = f.size - Len(a)
      BY <1>7, <1>8
    <2> QED BY <2>2, <2>3
  <1>9. CASE f.size = 0 /\ User = "rpc"
    <2>1. initial_read = Hdr /\ Hdr \in Nat /\ Hdr # 0
      BY <1>9, HdrAssumption DEF initial_read
    <2>2. Len(a) < Hdr
      BY <1>5, <1>9
    <2>3. Hdr - Len(a) \in Int /\ Hdr - Len(a) > 0
      BY <1>3, <2>1, <2>2
    <2>4. npending(x) = Hdr - Len(a)
      BY <1>7, <1>9, <2>1
    <2> QED BY <2>3, <2>4
  <1>10. CASE f.size = 0 /\ User # "rpc"
    <2>1. npending(x) = Len(x.sock.in)
      BY <1>7, <1>10 DEF initial_read
    <2> QED BY <1>3, <2>1, EmptySeq
  <1> QED BY <1>8, <1>9, <1>10

LEMMA PacketRecvGood ==
    ASSUME NEW x, Good(x), ~x.p.freed, x.p.busy => Nested, ~x.fde.freed \/ Buffered(x),
           NEW y, y = packet_recv(x)
    PROVE  Result(x, y)
  <1>1. x \in Views /\ Living(x) /\ Sized(x) /\ Metered(x)
    BY DEF Good
  <1>2. y = IF x.p.processing > 0
            THEN Processing(EVENT_FD_NOT_READABLE(x), x.p.processing + 1)
            ELSE IF x.p.recv_disable THEN EVENT_FD_NOT_READABLE(x)
            ELSE IF Buffered(x) THEN next_partial(x)
            ELSE IF npending(x) = 0 THEN packet_error(x)
            ELSE socket_recv(x, npending(x))
    BY DEF packet_recv, packet_eof
  <1>3. x.p.busy <=> x.p.processing > 0
    BY <1>1 DEF Living
  <1>4. CASE x.p.busy
    <2>1. ~Buffered(x)
      BY <1>1, <1>4 DEF Sized, Buffered
    <2>2. y = Processing(EVENT_FD_NOT_READABLE(x), x.p.processing + 1)
      BY <1>2, <1>3, <1>4
    <2> QED BY <1>3, <1>4, <2>1, <2>2, DeferredGood
  <1>5. CASE ~x.p.busy /\ Buffered(x)
    <2>1. full_request(x.p.partial).ok
      BY <1>5, BufferedOk
    <2>2. User # "rpc" /\ ~x.p.recv_disable
      BY <1>1, <2>1 DEF Metered
    <2>3. y = next_partial(x)
      BY <1>2, <1>3, <1>5, <2>2
    <2>4. Fed(x)
      BY <1>1, <1>5, <2>2 DEF Fed, Good, Sized
    <2> QED BY <2>3, <2>4, NextPartialGood
  <1>6. CASE ~x.p.busy /\ ~Buffered(x)
    <2>1. ~full_request(x.p.partial).ok
      BY <1>6, BufferedOk
    <2>2. ~x.ended /\ x.p.sock
      BY <1>1, <1>6 DEF Living
    <2>3. CASE x.p.recv_disable
      <3>1. y = EVENT_FD_NOT_READABLE(x)
        BY <1>2, <1>3, <1>6, <2>3
      <3> QED BY <1>6, <2>3, <3>1, DisabledGood
    <2>4. CASE ~x.p.recv_disable /\ npending(x) = 0
      <3>1. y = packet_error(x)
        BY <1>2, <1>3, <1>6, <2>2, <2>4
      <3>2. x.sock.in = <<>>
        BY <1>6, <2>1, <2>4, NpendingFacts
      <3> QED BY <1>6, <2>1, <2>2, <3>1, <3>2, EndGood
    <2>5. CASE ~x.p.recv_disable /\ npending(x) # 0
      <3>1. y = socket_recv(x, npending(x))
        BY <1>2, <1>3, <1>6, <2>2, <2>5
      <3>2. npending(x) \in Int /\ npending(x) >= 0
        BY <1>6, <2>1, NpendingFacts
      <3>3. npending(x) > 0
        BY <2>5, <3>2
      <3> QED BY <1>6, <2>1, <2>2, <2>5, <3>1, <3>2, <3>3, SocketRecvGood
    <2> QED BY <2>3, <2>4, <2>5
  <1> QED BY <1>4, <1>5, <1>6

-----------------------------------------------------------------------------
(***************************************************************************)
(* Sending.                                                                *)
(***************************************************************************)
\* The packets up to total that the peer has not got beyond out.
Lined(queue, out, total) ==
    /\ queue \in Seq(SendElement) /\ out \in Nat \X Nat /\ total \in Nat
    /\ \A j \in 1 .. Len(queue) :
          /\ queue[j].packet = out[1] + j - 1
          /\ queue[j].nsent = IF j = 1 THEN out[2] ELSE 0
          /\ queue[j].nsent < OutSizes[queue[j].packet]
    /\ out[1] + Len(queue) = total + 1
    /\ queue = <<>> => out[2] = 0

LEMMA LinedFacts ==
    ASSUME NEW queue, NEW out, NEW total, Lined(queue, out, total)
    PROVE  /\ queue \in Seq(SendElement) /\ Len(queue) \in Nat /\ total \in Nat
           /\ out[1] \in Nat /\ out[2] \in Nat /\ out = <<out[1], out[2]>>
           /\ \A j \in 1 .. Len(queue) :
                 /\ queue[j] \in SendElement /\ queue[j].packet \in DOMAIN OutSizes
                 /\ queue[j].packet \in Nat /\ queue[j].nsent \in Nat
                 /\ OutSizes[queue[j].packet] \in Nat
  <1>1. queue \in Seq(SendElement) /\ out \in Nat \X Nat /\ total \in Nat
    BY DEF Lined
  <1>2. out[1] \in Nat /\ out[2] \in Nat /\ out = <<out[1], out[2]>>
    BY <1>1
  <1>3. OutSizes \in Seq(Nat \ {0})
    BY SizesAssumption
  <1>4. ASSUME NEW j \in 1 .. Len(queue)
        PROVE  /\ queue[j] \in SendElement /\ queue[j].packet \in DOMAIN OutSizes
               /\ queue[j].packet \in Nat /\ queue[j].nsent \in Nat
               /\ OutSizes[queue[j].packet] \in Nat
    <2>1. queue[j] \in SendElement
      BY <1>1
    <2>2. queue[j].packet \in DOMAIN OutSizes /\ queue[j].nsent \in Nat
      BY <2>1 DEF SendElement
    <2> QED BY <1>3, <2>1, <2>2
  <1> QED BY <1>1, <1>2, <1>4

\* k packets and m bytes of the next one leave the queue.
Rested(queue, k, m, r) ==
    /\ r \in Seq(SendElement) /\ Len(r) = Len(queue) - k
    /\ \A j \in 1 .. Len(queue) - k :
          /\ r[j].packet = queue[j + k].packet
          /\ r[j].nsent = IF j = 1 THEN queue[1 + k].nsent + m ELSE queue[j + k].nsent

LEMMA ConsFacts ==
    ASSUME NEW S, NEW e \in S, NEW t \in Seq(S), NEW r, r = <<e>> \o t
    PROVE  /\ r \in Seq(S) /\ Len(r) = 1 + Len(t) /\ r[1] = e
           /\ \A i \in 1 .. Len(t) : r[1 + i] = t[i]
  <1>1. PICK one : one = <<e>>
    OBVIOUS
  <1>2. one \in Seq(S) /\ Len(one) = 1 /\ one[1] = e
    BY <1>1
  <1>3. /\ r \in Seq(S) /\ Len(r) = Len(one) + Len(t)
        /\ \A i \in 1 .. Len(one) : r[i] = one[i]
        /\ \A i \in 1 .. Len(t) : r[Len(one) + i] = t[i]
    BY <1>1, <1>2, CatFacts
  <1>4. 1 \in 1 .. Len(one)
    BY <1>2
  <1> QED BY <1>2, <1>3, <1>4

LEMMA RestFacts ==
    ASSUME NEW queue \in Seq(SendElement), NEW k \in 0 .. Len(queue), NEW m \in Nat,
           m # 0 => k < Len(queue), NEW r, r = Rest(queue, k, m)
    PROVE  Rested(queue, k, m, r)
  <1>1. PICK left : left = SubSeq(queue, k + 1, Len(queue))
    OBVIOUS
  <1>2. /\ left \in Seq(SendElement) /\ Len(left) = Len(queue) - k
        /\ \A i \in 1 .. Len(queue) - k : left[i] = queue[i + k]
    BY <1>1, DropFacts
  <1>3. Len(queue) \in Nat /\ k \in Nat /\ \A i \in 1 .. Len(queue) : queue[i] \in SendElement
    OBVIOUS
  <1>4. CASE m = 0
    <2>1. r = left
      BY <1>1, <1>4 DEF Rest
    <2>2. ASSUME NEW j \in 1 .. Len(queue) - k
          PROVE  /\ left[j].packet = queue[j + k].packet
                 /\ left[j].nsent = IF j = 1 THEN queue[1 + k].nsent + m ELSE queue[j + k].nsent
      <3>1. left[j] = queue[j + k] /\ 1 + k \in 1 .. Len(queue)
        BY <1>2, <1>3
      <3>2. queue[1 + k].nsent \in Nat
        BY <1>3, <3>1 DEF SendElement
      <3>3. queue[1 + k].nsent + m = queue[1 + k].nsent
        BY <1>4, <3>2
      <3> QED BY <3>1, <3>3
    <2> QED BY <1>2, <2>1, <2>2 DEF Rested
  <1>5. CASE m # 0
    <2>1. PICK h : h = Head(left)
      OBVIOUS
    <2>2. PICK t : t = Tail(left)
      OBVIOUS
    <2>3. Len(left) >= 1 /\ Len(left) \in Nat
      BY <1>2, <1>3, <1>5
    <2>4. left # <<>>
      BY <2>3
    <2>5. /\ h = left[1] /\ h \in SendElement /\ t \in Seq(SendElement)
          /\ Len(t) = Len(left) - 1 /\ \A i \in 1 .. Len(t) : t[i] = left[i + 1]
      BY <1>2, <2>1, <2>2, <2>4, HeadTailProperties
    <2>6. PICK e : e = Advance(h, m)
      OBVIOUS
    <2>7. e.packet = h.packet /\ e.nsent = h.nsent + m /\ e \in SendElement
      BY <2>5, <2>6 DEF Advance, SendElement
    <2>8. r = <<e>> \o t
      BY <1>1, <1>5, <2>1, <2>2, <2>6 DEF Rest
    <2>10. /\ r \in Seq(SendElement) /\ Len(r) = 1 + Len(t) /\ r[1] = e
           /\ \A i \in 1 .. Len(t) : r[1 + i] = t[i]
      BY <2>5, <2>7, <2>8, ConsFacts
    <2>11. Len(r) = Len(queue) - k
      BY <1>2, <1>3, <2>5, <2>10
    <2>12. ASSUME NEW j \in 1 .. Len(queue) - k
           PROVE  /\ r[j].packet = queue[j + k].packet
                  /\ r[j].nsent = IF j = 1 THEN queue[1 + k].nsent + m ELSE queue[j + k].nsent
      <3>1. CASE j = 1
        <4>1. 1 \in 1 .. Len(queue) - k
          BY <3>1
        <4>2. h = queue[1 + k]
          BY <1>2, <2>5, <4>1
        <4> QED BY <2>7, <2>10, <3>1, <4>2
      <3>2. CASE j # 1
        <4>1. PICK i \in Nat : j = 1 + i /\ i \in 1 .. Len(t) /\ i + 1 \in 1 .. Len(queue) - k
          <5>1. j - 1 \in Nat /\ j = 1 + (j - 1) /\ j - 1 \in 1 .. Len(t)
                /\ (j - 1) + 1 \in 1 .. Len(queue) - k
            BY <1>2, <1>3, <2>5, <3>2
          <5> QED BY <5>1
        <4>2. r[j] = t[i] /\ t[i] = left[i + 1] /\ i + 1 = j
          BY <2>5, <2>10, <4>1
        <4>3. r[j] = queue[j + k]
          BY <1>2, <4>1, <4>2
        <4> QED BY <3>2, <4>3
      <3> QED BY <3>1, <3>2
    <2> QED BY <2>10, <2>11, <2>12 DEF Rested
  <1> QED BY <1>4, <1>5

LEMMA PartsFacts ==
    ASSUME NEW queue, NEW out, NEW total, Lined(queue, out, total), NEW k \in 0 .. Len(queue),
           NEW m \in Parts(queue, k)
    PROVE  /\ m \in Nat
           /\ m # 0 => k < Len(queue) /\ queue[k + 1].nsent + m < OutSizes[queue[k + 1].packet]
  <1>1. Len(queue) \in Nat
    BY LinedFacts
  <1>2. CASE k = Len(queue)
    BY <1>2 DEF Parts
  <1>3. CASE k # Len(queue)
    <2>1. k + 1 \in 1 .. Len(queue) /\ k < Len(queue)
      BY <1>1, <1>3
    <2>2. PICK s : s = queue[k + 1].nsent
      OBVIOUS
    <2>3. PICK n : n = OutSizes[queue[k + 1].packet]
      OBVIOUS
    <2>4. s \in Nat /\ n \in Nat
      BY <2>1, <2>2, <2>3, LinedFacts
    <2>5. m \in 0 .. n - s - 1
      BY <1>3, <2>2, <2>3 DEF Parts
    <2> QED BY <2>1, <2>2, <2>3, <2>4, <2>5
  <1> QED BY <1>2, <1>3

\* Where the peer stops receiving.
Reached(queue, out, k, m) ==
    IF m > 0 THEN <<queue[k + 1].packet, queue[k + 1].nsent + m>>
    ELSE IF k > 0 THEN <<queue[k].packet + 1, 0>> ELSE out

LEMMA ReachedLined ==
    ASSUME NEW queue, NEW out, NEW total, Lined(queue, out, total), NEW k \in 0 .. Len(queue),
           NEW m \in Parts(queue, k), NEW r, Rested(queue, k, m, r),
           NEW o, o = Reached(queue, out, k, m)
    PROVE  Lined(r, o, total)
  <1>1. /\ queue \in Seq(SendElement) /\ Len(queue) \in Nat /\ total \in Nat
        /\ out[1] \in Nat /\ out[2] \in Nat /\ out = <<out[1], out[2]>>
        /\ \A j \in 1 .. Len(queue) :
              /\ queue[j] \in SendElement /\ queue[j].packet \in DOMAIN OutSizes
              /\ queue[j].packet \in Nat /\ queue[j].nsent \in Nat
              /\ OutSizes[queue[j].packet] \in Nat
    BY LinedFacts
  <1>2. /\ m \in Nat
        /\ m # 0 => k < Len(queue) /\ queue[k + 1].nsent + m < OutSizes[queue[k + 1].packet]
    BY PartsFacts
  <1>3. /\ \A j \in 1 .. Len(queue) :
              /\ queue[j].packet = out[1] + j - 1
              /\ queue[j].nsent = IF j = 1 THEN out[2] ELSE 0
              /\ queue[j].nsent < OutSizes[queue[j].packet]
        /\ out[1] + Len(queue) = total + 1
        /\ queue = <<>> => out[2] = 0
    BY DEF Lined
  <1>4. /\ r \in Seq(SendElement) /\ Len(r) = Len(queue) - k
        /\ \A j \in 1 .. Len(queue) - k :
              /\ r[j].packet = queue[j + k].packet
              /\ r[j].nsent = IF j = 1 THEN queue[1 + k].nsent + m ELSE queue[j + k].nsent
    BY DEF Rested
  <1>5. k \in Nat /\ k <= Len(queue)
    BY <1>1
  <1>6. o \in Nat \X Nat /\ o[1] = out[1] + k
    <2>1. CASE m > 0
      <3>1. k + 1 \in 1 .. Len(queue)
        BY <1>1, <1>2, <1>5, <2>1
      <3>2. o = <<queue[k + 1].packet, queue[k + 1].nsent + m>>
        BY <2>1 DEF Reached
      <3>3. queue[k + 1].packet = out[1] + (k + 1) - 1
        BY <1>3, <3>1
      <3>4. queue[k + 1].packet = out[1] + k
        BY <1>1, <1>5, <3>3
      <3>5. queue[k + 1].packet \in Nat /\ queue[k + 1].nsent \in Nat
        BY <1>1, <3>1
      <3>6. queue[k + 1].nsent + m \in Nat
        BY <1>2, <3>5
      <3> QED BY <3>2, <3>4, <3>5, <3>6
    <2>2. CASE ~(m > 0) /\ k > 0
      <3>1. k \in 1 .. Len(queue)
        BY <1>1, <1>5, <2>2
      <3>2. o = <<queue[k].packet + 1, 0>>
        BY <2>2 DEF Reached
      <3>3. queue[k].packet = out[1] + k - 1
        BY <1>3, <3>1
      <3>4. queue[k].packet + 1 = out[1] + k
        BY <1>1, <1>5, <3>3
      <3>5. queue[k].packet + 1 \in Nat
        BY <1>1, <1>5, <3>4
      <3> QED BY <3>2, <3>4, <3>5
    <2>3. CASE ~(m > 0) /\ ~(k > 0)
      <3>1. o = out /\ k = 0
        BY <1>5, <2>3 DEF Reached
      <3>2. out[1] + k = out[1]
        BY <1>1, <3>1
      <3>3. out \in Nat \X Nat
        BY DEF Lined
      <3> QED BY <3>1, <3>2, <3>3
    <2> QED BY <2>1, <2>2, <2>3
  <1>7. ASSUME NEW j \in 1 .. Len(r)
        PROVE  /\ r[j].packet = o[1] + j - 1
               /\ r[j].nsent = IF j = 1 THEN o[2] ELSE 0
               /\ r[j].nsent < OutSizes[r[j].packet]
    <2>1. j \in 1 .. Len(queue) - k /\ j + k \in 1 .. Len(queue) /\ j \in Nat
      BY <1>1, <1>4, <1>5
    <2>2. r[j].packet = queue[j + k].packet
      BY <1>4, <2>1
    <2>3. r[j].packet = o[1] + j - 1
      <3>1. queue[j + k].packet = out[1] + (j + k) - 1
        BY <1>3, <2>1
      <3>2. out[1] + (j + k) - 1 = (out[1] + k) + j - 1
        BY <1>1, <1>5, <2>1
      <3> QED BY <1>6, <2>2, <3>1, <3>2
    <2>4. CASE j = 1
      <3>1. r[j].nsent = queue[1 + k].nsent + m /\ 1 + k \in 1 .. Len(queue) /\ 1 + k = k + 1
        BY <1>4, <1>5, <2>1, <2>4
      <3>2. queue[1 + k].nsent \in Nat /\ queue[1 + k].nsent < OutSizes[queue[1 + k].packet]
        BY <1>1, <1>3, <3>1
      <3>3. CASE m > 0
        <4>1. o = <<queue[k + 1].packet, queue[k + 1].nsent + m>>
          BY <3>3 DEF Reached
        <4>2. r[j].nsent = o[2]
          BY <3>1, <4>1
        <4>3. m # 0
          BY <1>2, <3>3
        <4>4. queue[k + 1].nsent + m < OutSizes[queue[k + 1].packet]
          BY <1>2, <4>3
        <4>5. r[j].nsent < OutSizes[r[j].packet]
          BY <2>2, <2>4, <3>1, <4>4
        <4> QED BY <2>3, <2>4, <4>2, <4>5
      <3>4. CASE ~(m > 0)
        <4>1. m = 0
          BY <1>2, <3>4
        <4>2. r[j].nsent = queue[1 + k].nsent
          BY <3>1, <3>2, <4>1
        <4>3. r[j].nsent < OutSizes[r[j].packet]
          BY <2>2, <2>4, <3>2, <4>2
        <4>4. queue[1 + k].nsent = o[2]
          <5>1. CASE k > 0
            <6>1. o = <<queue[k].packet + 1, 0>>
              BY <3>4, <5>1 DEF Reached
            <6>2. 1 + k # 1
              BY <1>5, <5>1
            <6>3. queue[1 + k].nsent = 0
              BY <1>3, <3>1, <6>2
            <6> QED BY <6>1, <6>3
          <5>2. CASE ~(k > 0)
            <6>1. o = out /\ 1 + k = 1
              BY <1>5, <3>4, <5>2 DEF Reached
            <6> QED BY <1>3, <3>1, <6>1
          <5> QED BY <5>1, <5>2
        <4> QED BY <2>3, <2>4, <4>2, <4>3, <4>4
      <3> QED BY <3>3, <3>4
    <2>5. CASE j # 1
      <3>1. r[j].nsent = queue[j + k].nsent /\ j + k # 1
        BY <1>4, <1>5, <2>1, <2>5
      <3>2. queue[j + k].nsent = 0 /\ queue[j + k].nsent < OutSizes[queue[j + k].packet]
        BY <1>3, <2>1, <3>1
      <3> QED BY <2>2, <2>3, <2>5, <3>1, <3>2
    <2> QED BY <2>4, <2>5
  <1>8. o[1] + Len(r) = total + 1
    <2>1. o[1] + Len(r) = out[1] + Len(queue)
      BY <1>1, <1>4, <1>5, <1>6
    <2> QED BY <1>3, <2>1
  <1>9. r = <<>> => o[2] = 0
    <2> SUFFICES ASSUME r = <<>> PROVE o[2] = 0
      OBVIOUS
    <2>1. Len(r) = 0
      OBVIOUS
    <2>2. k = Len(queue)
      BY <1>1, <1>4, <1>5, <2>1
    <2>3. ~(m > 0)
      BY <1>2, <1>5, <2>2
    <2>4. CASE k > 0
      BY <2>3, <2>4 DEF Reached
    <2>5. CASE ~(k > 0)
      <3>1. Len(queue) = 0
        BY <1>5, <2>2, <2>5
      <3>2. queue = <<>>
        BY <1>1, <3>1, EmptySeq
      <3> QED BY <1>3, <2>3, <2>5, <3>2 DEF Reached
    <2> QED BY <2>4, <2>5
  <1> QED BY <1>1, <1>4, <1>6, <1>7, <1>8, <1>9 DEF Lined

Sendable(sk, queue, total, k, m) ==
    /\ sk \in Sockets /\ ~sk.garbled /\ Lined(queue, sk.out, total)
    /\ k \in 0 .. Len(queue) /\ m \in Parts(queue, k)
    /\ Reached(queue, sk.out, k, m) \in Nat \X Nat

LEMMA SentFacts ==
    ASSUME NEW sk, NEW queue, NEW total, NEW k, NEW m, Sendable(sk, queue, total, k, m),
           NEW s, s = Sent(sk, queue, k, m)
    PROVE  /\ s \in Sockets /\ ~s.garbled /\ s.out = Reached(queue, sk.out, k, m)
           /\ s.in = sk.in /\ s.next = sk.next /\ s.closed = sk.closed /\ s.reset = sk.reset
  <1> SUFFICES ASSUME sk \in Sockets, ~sk.garbled, Lined(queue, sk.out, total),
                      k \in 0 .. Len(queue), m \in Parts(queue, k),
                      Reached(queue, sk.out, k, m) \in Nat \X Nat
               PROVE  /\ s \in Sockets /\ ~s.garbled /\ s.out = Reached(queue, sk.out, k, m)
                      /\ s.in = sk.in /\ s.next = sk.next /\ s.closed = sk.closed
                      /\ s.reset = sk.reset
    BY DEF Sendable
  <1>1. PICK o : o = Reached(queue, sk.out, k, m)
    OBVIOUS
  <1>2. PICK used : used = IF m = 0 THEN k ELSE k + 1
    OBVIOUS
  <1>3. /\ m \in Nat /\ (m # 0 => k < Len(queue)) /\ Len(queue) \in Nat
    BY PartsFacts, LinedFacts
  <1>4. used \in Nat /\ used <= Len(queue)
    BY <1>2, <1>3
  <1>5. PICK out : out = sk.out
    OBVIOUS
  <1>6. /\ out[1] \in Nat /\ out[2] \in Nat /\ out = <<out[1], out[2]>>
        /\ \A j \in 1 .. Len(queue) :
              /\ queue[j].packet = out[1] + j - 1
              /\ queue[j].nsent = IF j = 1 THEN out[2] ELSE 0
    BY <1>5, LinedFacts DEF Lined
  <1>7. ASSUME NEW j \in 1 .. used
        PROVE  Start(queue[j]) = IF j = 1 THEN out ELSE End(queue[j - 1])
    <2>1. j \in 1 .. Len(queue) /\ j \in Nat
      BY <1>3, <1>4
    <2>2. Start(queue[j]) = <<out[1] + j - 1, IF j = 1 THEN out[2] ELSE 0>>
      BY <1>6, <2>1 DEF Start
    <2>3. CASE j = 1
      <3>1. out[1] + 1 - 1 = out[1]
        BY <1>6
      <3> QED BY <1>6, <2>2, <2>3, <3>1
    <2>4. CASE j # 1
      <3>1. PICK i \in 1 .. Len(queue) : i = j - 1
        <4>1. j - 1 \in 1 .. Len(queue)
          BY <1>3, <2>1, <2>4
        <4> QED BY <4>1
      <3>2. queue[i].packet = out[1] + i - 1
        BY <1>6, <3>1
      <3>3. (out[1] + i - 1) + 1 = out[1] + j - 1
        BY <1>6, <2>1, <3>1
      <3>4. End(queue[i]) = <<out[1] + j - 1, 0>>
        BY <3>2, <3>3 DEF End
      <3> QED BY <2>2, <2>4, <3>1, <3>4
    <2> QED BY <2>3, <2>4
  <1>8. PICK gap \in BOOLEAN :
           gap = \E j \in 1 .. used : Start(queue[j]) # IF j = 1 THEN sk.out ELSE End(queue[j - 1])
    OBVIOUS
  <1>9. ~gap
    BY <1>5, <1>7, <1>8
  <1>10. (IF m > 0 THEN Start(Advance(queue[k + 1], m))
          ELSE IF k > 0 THEN End(queue[k]) ELSE sk.out) = o
    BY <1>1 DEF Reached, Start, End, Advance
  <1>11. s = [sk EXCEPT !.out = o, !.garbled = sk.garbled \/ gap]
    BY <1>2, <1>8, <1>10 DEF Sent
  <1>12. /\ s.out = o /\ s.garbled = (sk.garbled \/ gap)
         /\ s.in = sk.in /\ s.next = sk.next /\ s.closed = sk.closed /\ s.reset = sk.reset
    BY <1>11 DEF Sockets
  <1>13. ~s.garbled
    BY <1>9, <1>12
  <1>14. s \in Sockets
    <2>1. sk.garbled \in BOOLEAN
      BY DEF Sockets
    <2>2. PICK g \in BOOLEAN : g = (sk.garbled \/ gap)
      OBVIOUS
    <2>3. s = [sk EXCEPT !.out = o, !.garbled = g]
      BY <1>11, <2>2
    <2> QED BY <1>1, <2>3 DEF Sockets
  <1> QED BY <1>1, <1>12, <1>13, <1>14

LEMMA SocketFacts ==
    ASSUME NEW x \in Views, NEW s \in Sockets, NEW y, y = [x EXCEPT !.sock = s]
    PROVE  /\ y \in Views /\ y.p = x.p /\ y.fde = x.fde /\ y.timers = x.timers /\ y.sock = s
           /\ y.user = x.user /\ y.delivered = x.delivered /\ y.ended = x.ended
  BY DEF Views

LEMMA QueueingLined ==
    ASSUME NEW x \in Views, ~x.p.freed
    PROVE  Queueing(x) <=> /\ ~x.sock.garbled
                           /\ Lined(x.p.send_queue, x.sock.out, x.user.sent)
                           /\ ~x.ended /\ x.p.send_queue # <<>> => x.fde.write
  <1>1. x.p.send_queue \in Seq(SendElement)
    BY Parts1 DEF Contexts
  <1>2. x.sock.out \in Nat \X Nat
    BY Parts1 DEF Sockets
  <1>3. x.user.sent \in Nat
    BY Parts1, SizesAssumption DEF Users
  <1> QED BY <1>1, <1>2, <1>3 DEF Queueing, Lined

LEMMA QueueRunGood ==
    ASSUME NEW x, Good(x), Signalled(x), ~x.p.freed, ~x.fde.freed,
           NEW k \in 0 .. Len(x.p.send_queue), NEW m \in Parts(x.p.send_queue, k),
           NEW y, y = packet_queue_run(x, k, m)
    PROVE  Result(x, y)
  <1>1. /\ x \in Views /\ Living(x) /\ Sized(x) /\ Metered(x) /\ Watching(x)
        /\ Streaming(x) /\ Queueing(x)
    BY DEF Good
  <1>2. PICK queue : queue = x.p.send_queue
    OBVIOUS
  <1>3. PICK total : total = x.user.sent
    OBVIOUS
  <1>4. PICK sk : sk = x.sock
    OBVIOUS
  <1>5. /\ ~sk.garbled /\ Lined(queue, sk.out, total) /\ sk \in Sockets
        /\ ~x.ended /\ queue # <<>> => x.fde.write
    BY <1>1, <1>2, <1>3, <1>4, QueueingLined, Parts1
  <1>6. k \in 0 .. Len(queue) /\ m \in Parts(queue, k)
    BY <1>2
  <1>7. PICK r : r = Rest(queue, k, m)
    OBVIOUS
  <1>8. queue \in Seq(SendElement) /\ Len(queue) \in Nat
    BY <1>5, LinedFacts
  <1>9. m \in Nat /\ (m # 0 => k < Len(queue))
    BY <1>5, <1>6, PartsFacts
  <1>10. Rested(queue, k, m, r)
    BY <1>6, <1>7, <1>8, <1>9, RestFacts
  <1>11. PICK o : o = Reached(queue, sk.out, k, m)
    OBVIOUS
  <1>12. Lined(r, o, total)
    BY <1>5, <1>6, <1>10, <1>11, ReachedLined
  <1>13. r \in Seq(SendElement) /\ o \in Nat \X Nat
    BY <1>12 DEF Lined
  <1>14. PICK s : s = Sent(sk, queue, k, m)
    OBVIOUS
  <1>15. /\ s \in Sockets /\ ~s.garbled /\ s.out = o
         /\ s.in = sk.in /\ s.next = sk.next /\ s.closed = sk.closed /\ s.reset = sk.reset
    <2>1. sk \in Sockets /\ ~sk.garbled /\ Lined(queue, sk.out, total)
      BY <1>5
    <2>2. Reached(queue, sk.out, k, m) \in Nat \X Nat
      BY <1>11, <1>13
    <2>3. /\ s \in Sockets /\ ~s.garbled /\ s.out = Reached(queue, sk.out, k, m)
          /\ s.in = sk.in /\ s.next = sk.next /\ s.closed = sk.closed /\ s.reset = sk.reset
      <3>1. Sendable(sk, queue, total, k, m)
        BY <1>6, <2>1, <2>2 DEF Sendable
      <3> QED BY <1>14, <3>1, SentFacts
    <2> QED BY <1>11, <2>3
  <1>16. PICK u : u = Queue(x, r)
    OBVIOUS
  <1>17. /\ u \in Views /\ SameButP(x, u) /\ u.p.send_queue = r
         /\ u.p.partial = x.p.partial /\ u.p.packet_size = x.p.packet_size
         /\ u.p.sock = x.p.sock /\ u.p.recv_disable = x.p.recv_disable /\ u.p.busy = x.p.busy
         /\ u.p.destructor_called = x.p.destructor_called /\ u.p.freed = x.p.freed
         /\ u.p.processing = x.p.processing
    BY <1>1, <1>13, <1>16, QueueFacts
  <1>18. PICK z : z = [u EXCEPT !.sock = s]
    OBVIOUS
  <1>19. /\ z \in Views /\ z.p = u.p /\ z.fde = u.fde /\ z.timers = u.timers /\ z.sock = s
         /\ z.user = u.user /\ z.delivered = u.delivered /\ z.ended = u.ended
    BY <1>15, <1>17, <1>18, SocketFacts
  <1>20. y = IF z.p.send_queue = <<>> THEN EVENT_FD_NOT_WRITEABLE(z) ELSE z
    BY <1>2, <1>4, <1>7, <1>14, <1>16, <1>18 DEF packet_queue_run
  <1>21. z.fde = x.fde /\ z.p.send_queue = r
    BY <1>17, <1>19 DEF SameButP
  <1>22. /\ y \in Views /\ SameButFde(z, y)
         /\ y.fde.read = x.fde.read /\ ~y.fde.freed /\ y.fde.misused = x.fde.misused
         /\ r # <<>> => y.fde.write = x.fde.write
    <2>1. CASE r = <<>>
      <3>1. y = EVENT_FD_NOT_WRITEABLE(z) /\ ~z.fde.freed
        BY <1>20, <1>21, <2>1
      <3> QED BY <1>19, <1>21, <2>1, <3>1, NotWriteableFacts
    <2>2. CASE r # <<>>
      BY <1>19, <1>20, <1>21, <2>2 DEF SameButFde
    <2> QED BY <2>1, <2>2
  <1>23. /\ y.p.send_queue = r /\ y.sock = s
         /\ y.p.partial = x.p.partial /\ y.p.packet_size = x.p.packet_size
         /\ y.p.sock = x.p.sock /\ y.p.recv_disable = x.p.recv_disable /\ y.p.busy = x.p.busy
         /\ y.p.destructor_called = x.p.destructor_called /\ y.p.freed = x.p.freed
         /\ y.p.processing = x.p.processing /\ y.timers = x.timers /\ y.user = x.user
         /\ y.delivered = x.delivered /\ y.ended = x.ended
    BY <1>17, <1>19, <1>22 DEF SameButP, SameButFde
  <1>24. /\ y.sock.in = x.sock.in /\ y.sock.next = x.sock.next
         /\ y.sock.reset = x.sock.reset /\ ~y.sock.garbled /\ y.sock.out = o
    BY <1>4, <1>15, <1>23
  <1>25. Living(y)
    BY <1>1, <1>22, <1>23, <1>24 DEF Living
  <1>26. Sized(y)
    BY <1>1, <1>23 DEF Sized
  <1>27. Metered(y)
    BY <1>1, <1>23 DEF Metered
  <1>28. Watching(y)
    BY <1>1, <1>22, <1>23 DEF Watching
  <1>29. Signalled(y)
    BY <1>23 DEF Signalled
  <1>30. Streaming(y)
    BY <1>1, <1>23, <1>24, StreamingFrame
  <1>31. Queueing(y)
    <2>1. r # <<>> => queue # <<>>
      <3> SUFFICES ASSUME r # <<>>, queue = <<>> PROVE FALSE
        OBVIOUS
      <3>1. Len(r) = Len(queue) - k
        BY <1>10 DEF Rested
      <3>2. Len(queue) = 0
        OBVIOUS
      <3>3. Len(r) \in Nat /\ Len(r) # 0
        BY <1>13, EmptySeq
      <3> QED BY <1>6, <3>1, <3>2, <3>3
    <2>2. ~y.ended /\ r # <<>> => y.fde.write
      BY <1>5, <1>22, <1>23, <2>1
    <2>3. Lined(y.p.send_queue, y.sock.out, y.user.sent)
      BY <1>3, <1>12, <1>23, <1>24
    <2>4. ~y.p.freed /\ ~y.sock.garbled /\ y \in Views /\ y.p.send_queue = r
      BY <1>22, <1>23, <1>24
    <2> QED BY <2>2, <2>3, <2>4, QueueingLined
  <1>32. Quiet(x, y)
    BY <1>22, <1>23, <1>24 DEF Quiet
  <1> QED BY <1>22, <1>25, <1>26, <1>27, <1>28, <1>29, <1>30, <1>31, <1>32 DEF Good, Result

-----------------------------------------------------------------------------
(***************************************************************************)
(* The callback returns; the context is freed.                             *)
(***************************************************************************)
\* Same but for the flags of the context that the user does not see.
LEMMA ReturnedGood ==
    ASSUME NEW x, Good(x), x.p.busy, NEW y, y = callback_returned(x)
    PROVE  /\ Good(y) /\ Signalled(y) /\ ~y.p.busy /\ y.ended = x.ended
           /\ y.delivered = x.delivered /\ y.sock = x.sock
           /\ y.fde.freed = x.fde.freed
           /\ y.fde.misused => x.fde.misused \/ (Nested /\ x.p.processing > 1)
  <1>1. /\ x \in Views /\ Living(x) /\ Sized(x) /\ Metered(x) /\ Watching(x)
        /\ Streaming(x) /\ Queueing(x)
    BY DEF Good
  <1>2. x.p.processing > 1 => Nested
    <2>1. x.p.processing \in Nat
      BY <1>1, Parts1 DEF Contexts
    <2> QED BY <1>1, <2>1 DEF Living
  <1>3. PICK z : z = Idle(x)
    OBVIOUS
  <1>4. /\ z \in Views /\ z.timers = x.timers /\ z.sock = x.sock
        /\ z.user = x.user /\ z.ended = x.ended /\ z.delivered = x.delivered
        /\ z.fde.write = x.fde.write /\ z.fde.freed = x.fde.freed
        /\ z.fde.misused => x.fde.misused \/ x.p.processing > 1
        /\ z.fde.read <=> x.fde.read \/ x.p.processing > 1
        /\ z.p.partial = x.p.partial /\ z.p.packet_size = x.p.packet_size
        /\ z.p.processing = 0 /\ ~z.p.busy
        /\ z.p.sock = x.p.sock /\ z.p.recv_disable = x.p.recv_disable
        /\ z.p.destructor_called = x.p.destructor_called /\ z.p.freed = x.p.freed
        /\ z.p.send_queue = x.p.send_queue
    BY <1>1, <1>3, IdleFacts
  <1>5. PICK a : a = x.p.partial
    OBVIOUS
  <1>6. PICK f : f = full_request(a)
    OBVIOUS
  <1>7. a \in Seq(Byte)
    BY <1>1, <1>5, WaitingFacts
  <1>8. f.size \in Nat /\ f.ok \in BOOLEAN
    BY <1>6, <1>7, SizeFacts
  <1>9. PICK u : u = Measured(z)
    OBVIOUS
  <1>10. /\ u \in Views /\ SameButP(z, u) /\ u.p.processing = z.p.processing
         /\ u.p.partial = z.p.partial
         /\ u.p.packet_size = IF full_request(z.p.partial).size = 0 THEN z.p.packet_size
                              ELSE full_request(z.p.partial).size
         /\ u.p.sock = z.p.sock /\ u.p.recv_disable = z.p.recv_disable /\ u.p.busy = z.p.busy
         /\ u.p.destructor_called = z.p.destructor_called /\ u.p.freed = z.p.freed
         /\ u.p.send_queue = z.p.send_queue
    BY <1>4, <1>9, MeasuredFacts
  <1>11. /\ u.timers = x.timers /\ u.sock = x.sock /\ u.user = x.user /\ u.ended = x.ended
         /\ u.delivered = x.delivered
         /\ u.fde.write = x.fde.write /\ u.fde.freed = x.fde.freed
         /\ u.fde.misused => x.fde.misused \/ (Nested /\ x.p.processing > 1)
         /\ u.fde.read <=> x.fde.read \/ x.p.processing > 1
         /\ u.p.partial = a /\ u.p.processing = 0 /\ ~u.p.busy
         /\ u.p.sock = x.p.sock /\ u.p.recv_disable = x.p.recv_disable
         /\ u.p.destructor_called = x.p.destructor_called /\ u.p.freed = x.p.freed
         /\ u.p.send_queue = x.p.send_queue
    BY <1>2, <1>4, <1>5, <1>10 DEF SameButP
  <1>12. u.p.packet_size = f.size
    <2>1. x.p.packet_size = 0
      BY <1>1 DEF Sized
    <2> QED BY <1>4, <1>5, <1>6, <1>10, <2>1
  <1>13. CASE a # <<>> /\ f.ok
    <2>1. y = AddTimer(u)
      BY <1>3, <1>4, <1>5, <1>6, <1>9, <1>13 DEF callback_returned
    <2>2. /\ y \in Views /\ y.p = u.p /\ y.fde = u.fde /\ y.timers > 0 /\ y.sock = u.sock
          /\ y.user = u.user /\ y.delivered = u.delivered /\ y.ended = u.ended
      BY <1>10, <2>1, AddTimerFacts
    <2>3. User # "rpc"
      BY <1>1, <1>5, <1>13 DEF Metered
    <2>4. Living(y)
      BY <1>1, <1>11, <2>2 DEF Living
    <2>5. Sized(y)
      BY <1>6, <1>11, <1>12, <2>2 DEF Sized
    <2>6. Metered(y)
      BY <1>1, <1>11, <2>2, <2>3 DEF Metered
    <2>7. Watching(y)
      BY <1>1, <1>11, <2>2 DEF Watching
    <2>8. Signalled(y)
      BY <2>2 DEF Signalled
    <2>9. Streaming(y)
      BY <1>1, <1>5, <1>11, <2>2, StreamingFrame
    <2>10. Queueing(y)
      BY <1>1, <1>11, <2>2, QueueingFrame
    <2> QED BY <1>11, <2>2, <2>4, <2>5, <2>6, <2>7, <2>8, <2>9, <2>10 DEF Good
  <1>14. CASE a = <<>> \/ ~f.ok
    <2>1. y = u
      <3>1. CASE a = <<>>
        <4>1. y = z
          BY <1>3, <1>4, <1>5, <3>1 DEF callback_returned
        <4>2. u = z
          BY <1>4, <1>5, <1>9, <3>1, EmptyRequest DEF Measured
        <4> QED BY <4>1, <4>2
      <3>2. CASE a # <<>>
        BY <1>3, <1>4, <1>5, <1>6, <1>9, <1>14, <3>2 DEF callback_returned
      <3> QED BY <3>1, <3>2
    <2>2. ~f.ok
      BY <1>6, <1>14, EmptyRequest
    <2>3. Living(u)
      BY <1>1, <1>6, <1>11, <2>2 DEF Living
    <2>4. Sized(u)
      BY <1>6, <1>11, <1>12 DEF Sized
    <2>5. Metered(u)
      BY <1>1, <1>5, <1>11 DEF Metered
    <2>6. Watching(u)
      BY <1>1, <1>11 DEF Watching
    <2>7. Signalled(u)
      BY <1>6, <1>11, <2>2 DEF Signalled
    <2>8. Streaming(u)
      BY <1>1, <1>5, <1>11, StreamingFrame
    <2>9. Queueing(u)
      BY <1>1, <1>11, QueueingFrame
    <2> QED BY <1>10, <1>11, <2>1, <2>3, <2>4, <2>5, <2>6, <2>7, <2>8, <2>9 DEF Good
  <1> QED BY <1>8, <1>13, <1>14

Freed == [packet_init EXCEPT !.freed = TRUE, !.sock = FALSE]

LEMMA FreedContext ==
    ASSUME NEW q, q = Freed
    PROVE  /\ q \in Contexts /\ q.partial = <<>> /\ q.packet_size = 0 /\ ~q.sock
           /\ q.processing = 0 /\ ~q.busy /\ ~q.destructor_called /\ q.freed
           /\ q.send_queue = <<>>
  <1>1. PICK rd \in BOOLEAN : rd = (User = "rpc")
    OBVIOUS
  <1>2. PICK on \in BOOLEAN : on = TRUE
    OBVIOUS
  <1>3. PICK off \in BOOLEAN : off = FALSE
    OBVIOUS
  <1>4. PICK empty : empty = <<>>
    OBVIOUS
  <1>5. PICK none : none = <<>>
    OBVIOUS
  <1>6. q = [partial |-> empty, packet_size |-> 0, sock |-> off, processing |-> 0,
             recv_disable |-> rd, busy |-> off, destructor_called |-> off,
             freed |-> on, send_queue |-> none]
    BY <1>1, <1>2, <1>3, <1>4, <1>5 DEF packet_init, Freed
  <1>7. rd \in BOOLEAN /\ on \in BOOLEAN /\ off \in BOOLEAN /\ on = TRUE /\ off = FALSE
    BY <1>1, <1>2, <1>3
  <1>8. empty \in Seq(Byte) /\ none \in Seq(SendElement)
    BY <1>4, <1>5
  <1>9. q \in Contexts
    BY <1>6, <1>7, <1>8 DEF Contexts
  <1>10. /\ q.partial = empty /\ q.packet_size = 0 /\ q.sock = off
         /\ q.processing = 0 /\ q.busy = off /\ q.destructor_called = off /\ q.freed = on
         /\ q.send_queue = none
    BY <1>6
  <1> QED BY <1>4, <1>5, <1>7, <1>9, <1>10

LEMMA FreeGood ==
    ASSUME NEW x \in Views, Streaming(x), ~x.sock.garbled, x.sock.reset,
           NEW y, y = talloc_free_pc(x)
    PROVE  /\ Good(y) /\ Signalled(y) /\ y.ended /\ ~y.p.busy /\ y.fde.freed
           /\ y.delivered = x.delivered /\ y.sock = x.sock
           /\ y.fde.misused = x.fde.misused
  <1>1. PICK z : z = packet_error(x)
    OBVIOUS
  <1>2. /\ z \in Views /\ z.ended
        /\ z.timers = x.timers /\ z.sock = x.sock /\ z.user = x.user
        /\ z.delivered = x.delivered
        /\ z.fde.freed /\ z.fde.misused = x.fde.misused
    BY <1>1, ErrorFacts
  <1>3. PICK q : q = Freed
    OBVIOUS
  <1>4. /\ q \in Contexts /\ q.partial = <<>> /\ q.packet_size = 0 /\ ~q.sock
        /\ q.processing = 0 /\ ~q.busy /\ ~q.destructor_called /\ q.freed
        /\ q.send_queue = <<>>
    BY <1>3, FreedContext
  <1>5. y = [z EXCEPT !.p = q, !.timers = 0]
    BY <1>1, <1>3 DEF talloc_free_pc, Freed
  <1>6. /\ y \in Views /\ y.p = q /\ y.timers = 0 /\ y.ended /\ y.sock = x.sock
        /\ y.user = x.user /\ y.delivered = x.delivered /\ y.fde.freed
        /\ y.fde.misused = x.fde.misused
    <2>1. z \in Views /\ q \in Contexts
      BY <1>2, <1>4
    <2>2. PICK u : u = [z EXCEPT !.p = q]
      OBVIOUS
    <2>3. u \in Views /\ SameButP(z, u) /\ u.p = q
      BY <2>1, <2>2, PFacts
    <2>4. y = [u EXCEPT !.timers = 0]
      BY <1>5, <2>1, <2>2 DEF Views
    <2>5. /\ y \in Views /\ y.p = u.p /\ y.fde = u.fde /\ y.timers = 0
          /\ y.sock = u.sock /\ y.user = u.user /\ y.delivered = u.delivered
          /\ y.ended = u.ended
      BY <2>3, <2>4, TimerFacts
    <2> QED BY <1>2, <2>3, <2>5 DEF SameButP
  <1>7. Living(y)
    BY <1>4, <1>6 DEF Living
  <1>8. Sized(y)
    BY <1>4, <1>6, EmptyRequest DEF Sized
  <1>9. Metered(y)
    BY <1>4, <1>6, EmptyRequest DEF Metered
  <1>10. Watching(y) /\ Signalled(y)
    BY <1>6 DEF Watching, Signalled
  <1>11. Queueing(y)
    BY <1>4, <1>6 DEF Queueing
  <1>12. Streaming(y)
    <2>1. PICK a : a = x.p.partial
      OBVIOUS
    <2>2. PICK b : b = x.sock.in
      OBVIOUS
    <2>3. PICK w : w = a \o b
      OBVIOUS
    <2>4. a \in Seq(Byte) /\ b \in Seq(Byte) /\ Len(a) \in Nat
      BY <2>1, <2>2, WaitingFacts
    <2>5. w \in Seq(Byte) /\ Len(w) = Len(a) + Len(b) /\ Len(b) \in Nat
      BY <2>3, <2>4, CatFacts
    <2>6. b = SubSeq(w, Len(a) + 1, Len(w))
      <3>1. SubSeq(a, Len(a) + 1, Len(a)) = <<>>
        BY <2>4, SubSeqEmpty
      <3>2. Len(a) \in 0 .. Len(a)
        BY <2>4
      <3>3. SubSeq(a, Len(a) + 1, Len(a)) \o b = SubSeq(w, Len(a) + 1, Len(w))
        BY <2>3, <2>4, <3>2, CutWaiting
      <3>4. <<>> \o b = b
        BY <2>4, ConcatEmptySeq
      <3> QED BY <3>1, <3>3, <3>4
    <2>7. Waiting(x) = w
      BY <2>1, <2>2, <2>3 DEF Waiting
    <2>8. Waiting(y) = b
      BY <1>4, <1>6, <2>2, <2>4, ConcatEmptySeq DEF Waiting
    <2>9. PICK n : n = Len(a)
      OBVIOUS
    <2>10. n \in 0 .. Len(w) /\ b = SubSeq(w, n + 1, Len(w)) /\ Run(w)
      BY <2>4, <2>5, <2>6, <2>7, <2>9 DEF Streaming
    <2>11. Run(b) /\ Len(b) = Len(w) - n /\ \A j \in 1 .. Len(w) - n : b[j] = w[j + n]
      <3>1. w \in Seq(Byte)
        BY <2>5
      <3> QED BY <2>10, <3>1, RunTail
    <2>12. ASSUME NEW j \in 1 .. Len(b) PROVE Earlier(b[j], x.sock.next)
      <3>1. j \in 1 .. Len(w) - n /\ j + n \in 1 .. Len(w)
        BY <2>4, <2>5, <2>9, <2>11
      <3>2. Earlier(w[j + n], x.sock.next)
        BY <2>7, <3>1 DEF Streaming
      <3> QED BY <2>11, <3>1, <3>2
    <2>13. y.p.freed /\ y.sock.next = x.sock.next /\ y.delivered = x.delivered
      BY <1>4, <1>6
    <2> QED BY <2>8, <2>11, <2>12, <2>13 DEF Streaming
  <1> QED BY <1>4, <1>6, <1>7, <1>8, <1>9, <1>10, <1>11, <1>12 DEF Good

-----------------------------------------------------------------------------
(***************************************************************************)
(* The user sends and reads, and gives up.                                 *)
(***************************************************************************)
Element(n) == [packet |-> n, nsent |-> 0]

LEMMA LinedAppend ==
    ASSUME NEW queue, NEW out, NEW total, Lined(queue, out, total), total < Len(OutSizes),
           NEW el, el = Element(total + 1), NEW r, r = Append(queue, el)
    PROVE  Lined(r, out, total + 1) /\ r \in Seq(SendElement) /\ r # <<>>
  <1>1. /\ queue \in Seq(SendElement) /\ Len(queue) \in Nat /\ total \in Nat
        /\ out[1] \in Nat /\ out[2] \in Nat
    BY LinedFacts
  <1>2. OutSizes \in Seq(Nat \ {0})
    BY SizesAssumption
  <1>3. total + 1 \in DOMAIN OutSizes /\ total + 1 \in Nat
    BY <1>1, <1>2
  <1>4. el.packet = total + 1 /\ el.nsent = 0 /\ el \in SendElement
    BY <1>3 DEF Element, SendElement
  <1>5. OutSizes[total + 1] \in Nat /\ OutSizes[total + 1] > 0
    BY <1>2, <1>3
  <1>6. PICK n : n = Len(queue) + 1
    OBVIOUS
  <1>7. /\ r \in Seq(SendElement) /\ Len(r) = n /\ r[n] = el /\ n \in Nat
        /\ \A d \in 1 .. Len(queue) : r[d] = queue[d]
    BY <1>1, <1>4, <1>6, Appended
  <1>8. /\ \A j \in 1 .. Len(queue) :
              /\ queue[j].packet = out[1] + j - 1
              /\ queue[j].nsent = IF j = 1 THEN out[2] ELSE 0
              /\ queue[j].nsent < OutSizes[queue[j].packet]
        /\ out[1] + Len(queue) = total + 1
        /\ queue = <<>> => out[2] = 0
    BY DEF Lined
  <1>9. ASSUME NEW j \in 1 .. n
        PROVE  /\ r[j].packet = out[1] + j - 1
               /\ r[j].nsent = IF j = 1 THEN out[2] ELSE 0
               /\ r[j].nsent < OutSizes[r[j].packet]
    <2>1. CASE j \in 1 .. Len(queue)
      BY <1>7, <1>8, <2>1
    <2>2. CASE j = n
      <3>1. out[1] + n - 1 = total + 1
        BY <1>1, <1>6, <1>8
      <3>2. n = 1 => out[2] = 0
        <4> SUFFICES ASSUME n = 1 PROVE out[2] = 0
          OBVIOUS
        <4>1. Len(queue) = 0
          BY <1>1, <1>6
        <4>2. queue = <<>>
          BY <1>1, <4>1, EmptySeq
        <4> QED BY <1>8, <4>2
      <3>3. r[j] = el
        BY <1>7, <2>2
      <3>4. el.nsent < OutSizes[el.packet]
        BY <1>4, <1>5
      <3>5. el.packet = out[1] + j - 1
        BY <1>4, <2>2, <3>1
      <3>6. el.nsent = IF j = 1 THEN out[2] ELSE 0
        BY <1>4, <2>2, <3>2
      <3> QED BY <3>3, <3>4, <3>5, <3>6
    <2>3. j \in 1 .. Len(queue) \/ j = n
      BY <1>1, <1>6
    <2> QED BY <2>1, <2>2, <2>3
  <1>10. out[1] + Len(r) = (total + 1) + 1
    BY <1>1, <1>6, <1>7, <1>8
  <1>11. r # <<>>
    <2>1. Len(r) >= 1
      BY <1>1, <1>6, <1>7
    <2> QED BY <2>1
  <1>12. out \in Nat \X Nat
    BY DEF Lined
  <1> QED BY <1>3, <1>7, <1>9, <1>10, <1>11, <1>12 DEF Lined

LEMMA SentUser ==
    ASSUME NEW d \in Users, NEW n \in 0 .. Len(OutSizes), NEW u, u = [d EXCEPT !.sent = n]
    PROVE  u \in Users /\ u.pending_reads = d.pending_reads /\ u.sent = n
  BY DEF Users

LEMMA UserFacts ==
    ASSUME NEW x \in Views, NEW u \in Users, NEW y, y = [x EXCEPT !.user = u]
    PROVE  /\ y \in Views /\ y.p = x.p /\ y.fde = x.fde /\ y.timers = x.timers
           /\ y.sock = x.sock /\ y.delivered = x.delivered /\ y.ended = x.ended /\ y.user = u
  <1>1. y \in Views /\ y.user = u
    BY DEF Views
  <1>2. /\ y.p = x.p /\ y.fde = x.fde /\ y.timers = x.timers
        /\ y.sock = x.sock /\ y.delivered = x.delivered /\ y.ended = x.ended
    BY DEF Views
  <1> QED BY <1>1, <1>2

LEMMA SendGood ==
    ASSUME NEW x, Good(x), Signalled(x), ~x.p.freed, ~x.ended, x.user.sent < Len(OutSizes),
           NEW y, y = packet_send(x)
    PROVE  /\ Good(y) /\ Signalled(y) /\ Quiet(x, y) /\ ~y.p.freed /\ y.fde.freed = x.fde.freed
           /\ y.sock = x.sock
  <1>1. /\ x \in Views /\ Living(x) /\ Sized(x) /\ Metered(x) /\ Watching(x)
        /\ Streaming(x) /\ Queueing(x)
    BY DEF Good
  <1>2. PICK queue : queue = x.p.send_queue
    OBVIOUS
  <1>3. PICK total : total = x.user.sent
    OBVIOUS
  <1>4. Lined(queue, x.sock.out, total) /\ ~x.sock.garbled
    BY <1>1, <1>2, <1>3, QueueingLined
  <1>5. PICK n : n = total + 1
    OBVIOUS
  <1>6. n \in 0 .. Len(OutSizes)
    <2>1. total \in Nat /\ OutSizes \in Seq(Nat \ {0})
      BY <1>4, LinedFacts, SizesAssumption
    <2>2. Len(OutSizes) \in Nat /\ total < Len(OutSizes)
      BY <1>3, <2>1
    <2> QED BY <1>5, <2>1, <2>2
  <1>7. PICK r : r = Append(queue, Element(n))
    OBVIOUS
  <1>8. Lined(r, x.sock.out, n) /\ r \in Seq(SendElement) /\ r # <<>>
    <2>1. total < Len(OutSizes)
      BY <1>3
    <2>2. PICK el : el = Element(total + 1)
      OBVIOUS
    <2>3. r = Append(queue, el)
      BY <1>5, <1>7, <2>2
    <2>4. Lined(r, x.sock.out, total + 1) /\ r \in Seq(SendElement) /\ r # <<>>
      BY <1>4, <2>1, <2>2, <2>3, LinedAppend
    <2> QED BY <1>5, <2>4
  <1>9. PICK u : u = Queue(x, r)
    OBVIOUS
  <1>10. /\ u \in Views /\ SameButP(x, u) /\ u.p.send_queue = r
         /\ u.p.partial = x.p.partial /\ u.p.packet_size = x.p.packet_size
         /\ u.p.sock = x.p.sock /\ u.p.recv_disable = x.p.recv_disable /\ u.p.busy = x.p.busy
         /\ u.p.destructor_called = x.p.destructor_called /\ u.p.freed = x.p.freed
         /\ u.p.processing = x.p.processing
    BY <1>1, <1>8, <1>9, QueueFacts
  <1>27. PICK d : d = [u.user EXCEPT !.sent = n]
    OBVIOUS
  <1>11. PICK z : z = [u EXCEPT !.user = d]
    OBVIOUS
  <1>12. /\ z \in Views /\ z.p = u.p /\ z.fde = u.fde /\ z.timers = u.timers
         /\ z.sock = u.sock /\ z.delivered = u.delivered /\ z.ended = u.ended
         /\ z.user.sent = n /\ z.user.pending_reads = u.user.pending_reads
    <2>1. u \in Views /\ u.user \in Users
      BY <1>10, Parts1
    <2>2. d \in Users /\ d.pending_reads = u.user.pending_reads /\ d.sent = n
      BY <1>6, <1>27, <2>1, SentUser
    <2>3. /\ z \in Views /\ z.p = u.p /\ z.fde = u.fde /\ z.timers = u.timers
          /\ z.sock = u.sock /\ z.delivered = u.delivered /\ z.ended = u.ended /\ z.user = d
      BY <1>11, <2>1, <2>2, UserFacts
    <2> QED BY <2>2, <2>3
  <1>13. u.user = x.user /\ u.fde = x.fde
    BY <1>10 DEF SameButP
  <1>14. y = EVENT_FD_WRITEABLE(z)
    <2>1. u = Queue(x, Append(x.p.send_queue, [packet |-> x.user.sent + 1, nsent |-> 0]))
      BY <1>2, <1>3, <1>5, <1>7, <1>9 DEF Element
    <2>2. z = [u EXCEPT !.user = [x.user EXCEPT !.sent = x.user.sent + 1]]
      BY <1>3, <1>5, <1>11, <1>13, <1>27
    <2> QED BY <2>1, <2>2 DEF packet_send
  <1>15. ~z.fde.freed
    BY <1>1, <1>12, <1>13 DEF Living
  <1>16. /\ y \in Views /\ SameButFde(z, y)
         /\ y.fde.write /\ y.fde.read = z.fde.read /\ ~y.fde.freed
         /\ y.fde.misused = z.fde.misused
    BY <1>12, <1>14, <1>15, WriteableFacts
  <1>17. /\ y.p.send_queue = r /\ y.sock = x.sock
         /\ y.p.partial = x.p.partial /\ y.p.packet_size = x.p.packet_size
         /\ y.p.sock = x.p.sock /\ y.p.recv_disable = x.p.recv_disable /\ y.p.busy = x.p.busy
         /\ y.p.destructor_called = x.p.destructor_called /\ y.p.freed = x.p.freed
         /\ y.p.processing = x.p.processing /\ y.timers = x.timers
         /\ y.user.sent = n /\ y.user.pending_reads = x.user.pending_reads
         /\ y.delivered = x.delivered /\ y.ended = x.ended
         /\ y.fde.write /\ y.fde.read = x.fde.read /\ ~y.fde.freed
         /\ y.fde.misused = x.fde.misused
    BY <1>10, <1>12, <1>13, <1>16 DEF SameButP, SameButFde
  <1>18. Living(y)
    BY <1>1, <1>17 DEF Living
  <1>19. Sized(y)
    BY <1>1, <1>17 DEF Sized
  <1>20. Metered(y)
    BY <1>1, <1>17 DEF Metered
  <1>21. Watching(y)
    BY <1>1, <1>17 DEF Watching
  <1>22. Signalled(y)
    BY <1>17 DEF Signalled
  <1>23. Streaming(y)
    BY <1>1, <1>17, StreamingFrame
  <1>24. Queueing(y)
    <2>1. Lined(y.p.send_queue, y.sock.out, y.user.sent)
      BY <1>8, <1>17
    <2>2. y \in Views /\ ~y.p.freed /\ ~y.sock.garbled /\ y.fde.write
      BY <1>4, <1>16, <1>17
    <2> QED BY <2>1, <2>2, QueueingLined
  <1>25. Quiet(x, y)
    BY <1>17 DEF Quiet
  <1>26. y.fde.freed = x.fde.freed
    BY <1>1, <1>12, <1>13, <1>15, <1>16, Parts1 DEF FdEvents
  <1> QED BY <1>16, <1>17, <1>18, <1>19, <1>20, <1>21, <1>22, <1>23, <1>24, <1>25, <1>26 DEF Good

LEMMA MoreGood ==
    ASSUME NEW x, Good(x), Signalled(x), NEW more \in BOOLEAN,
           NEW y, y = Expect(x, x.user.pending_reads, more)
    PROVE  Good(y) /\ Signalled(y) /\ Quiet(x, y) /\ y.fde = x.fde /\ y.sock = x.sock
  <1>1. /\ x \in Views /\ Living(x) /\ Sized(x) /\ Metered(x) /\ Watching(x)
        /\ Streaming(x) /\ Queueing(x)
    BY DEF Good
  <1>2. x.user.pending_reads \in Int
    BY <1>1, Parts1 DEF Users
  <1>3. /\ y \in Views /\ y.p = x.p /\ y.fde = x.fde /\ y.timers = x.timers
        /\ y.sock = x.sock /\ y.delivered = x.delivered /\ y.ended = x.ended
        /\ y.user.pending_reads = x.user.pending_reads /\ y.user.sent = x.user.sent
    BY <1>1, <1>2, ExpectFacts
  <1>4. Living(y)
    BY <1>1, <1>3 DEF Living
  <1>5. Sized(y)
    BY <1>1, <1>3 DEF Sized
  <1>6. Metered(y)
    BY <1>1, <1>3 DEF Metered
  <1>7. Watching(y) /\ Signalled(y)
    BY <1>1, <1>3 DEF Watching, Signalled
  <1>8. Streaming(y)
    BY <1>1, <1>3, StreamingFrame
  <1>9. Queueing(y)
    BY <1>1, <1>3, QueueingFrame
  <1> QED BY <1>3, <1>4, <1>5, <1>6, <1>7, <1>8, <1>9 DEF Good, Quiet

LEMMA ReadGood ==
    ASSUME NEW x, Good(x), Signalled(x), ~x.p.freed, ~x.ended, User = "rpc",
           NEW y, y = sock_send_read(x)
    PROVE  /\ Good(y) /\ Signalled(y) /\ Quiet(x, y) /\ y.fde.freed = x.fde.freed
           /\ y.sock = x.sock
  <1>1. /\ x \in Views /\ Living(x) /\ Sized(x) /\ Metered(x) /\ Watching(x)
        /\ Streaming(x) /\ Queueing(x)
    BY DEF Good
  <1>2. PICK n : n = x.user.pending_reads + 1
    OBVIOUS
  <1>3. x.user.pending_reads \in Int /\ x.user.pending_reads >= 0 /\ x.user.more \in BOOLEAN
    BY <1>1, Parts1 DEF Users, Metered
  <1>4. n \in Int /\ n > 0 /\ (n = 1 <=> x.user.pending_reads = 0)
    BY <1>2, <1>3
  <1>5. PICK z : z = Expect(x, n, x.user.more)
    OBVIOUS
  <1>6. /\ z \in Views /\ z.p = x.p /\ z.fde = x.fde /\ z.timers = x.timers
        /\ z.sock = x.sock /\ z.delivered = x.delivered /\ z.ended = x.ended
        /\ z.user.pending_reads = n /\ z.user.sent = x.user.sent
    BY <1>1, <1>3, <1>4, <1>5, ExpectFacts
  <1>7. y = IF n = 1 THEN packet_recv_enable(z) ELSE z
    BY <1>2, <1>5, <1>6 DEF sock_send_read
  <1>8. CASE n # 1
    <2>1. y = z
      BY <1>7, <1>8
    <2>2. Living(z)
      BY <1>1, <1>6 DEF Living
    <2>3. Sized(z)
      BY <1>1, <1>6 DEF Sized
    <2>4. Metered(z)
      <3>1. ~x.p.recv_disable /\ z.user.pending_reads >= 0 /\ z.user.pending_reads # 0
        BY <1>1, <1>4, <1>6, <1>8 DEF Metered
      <3> QED BY <1>1, <1>6, <3>1 DEF Metered
    <2>5. Watching(z) /\ Signalled(z)
      BY <1>1, <1>6 DEF Watching, Signalled
    <2>6. Streaming(z)
      BY <1>1, <1>6, StreamingFrame
    <2>7. Queueing(z)
      BY <1>1, <1>6, QueueingFrame
    <2> QED BY <1>6, <2>1, <2>2, <2>3, <2>4, <2>5, <2>6, <2>7 DEF Good, Quiet
  <1>9. CASE n = 1
    <2>1. x.p.recv_disable /\ x.p.partial = <<>> /\ x.timers = 0
      BY <1>1, <1>4, <1>9 DEF Metered
    <2>2. PICK u : u = EVENT_FD_READABLE(z)
      OBVIOUS
    <2>3. ~z.fde.freed
      BY <1>1, <1>6 DEF Living
    <2>4. /\ u \in Views /\ SameButFde(z, u)
          /\ u.fde.read /\ u.fde.write = z.fde.write /\ ~u.fde.freed
          /\ u.fde.misused = z.fde.misused
      BY <1>6, <2>2, <2>3, ReadableFacts
    <2>5. PICK off \in BOOLEAN : off = FALSE
      OBVIOUS
    <2>6. PICK v : v = SetDisabled(u, off)
      OBVIOUS
    <2>7. /\ v \in Views /\ SameButP(u, v) /\ v.p.recv_disable = off
          /\ v.p.partial = u.p.partial /\ v.p.packet_size = u.p.packet_size
          /\ v.p.sock = u.p.sock /\ v.p.processing = u.p.processing /\ v.p.busy = u.p.busy
          /\ v.p.destructor_called = u.p.destructor_called /\ v.p.freed = u.p.freed
          /\ v.p.send_queue = u.p.send_queue
      BY <2>4, <2>6, DisabledFacts
    <2>8. /\ ~v.p.recv_disable
          /\ v.p.partial = x.p.partial /\ v.p.packet_size = x.p.packet_size
          /\ v.p.sock = x.p.sock /\ v.p.processing = x.p.processing /\ v.p.busy = x.p.busy
          /\ v.p.destructor_called = x.p.destructor_called /\ v.p.freed = x.p.freed
          /\ v.p.send_queue = x.p.send_queue
          /\ v.timers = x.timers /\ v.sock = x.sock /\ v.delivered = x.delivered
          /\ v.ended = x.ended /\ v.fde.write = x.fde.write /\ ~v.fde.freed /\ v.fde.read
          /\ v.fde.misused = x.fde.misused /\ v.user.sent = x.user.sent
          /\ v.user.pending_reads = n
      BY <1>6, <2>4, <2>5, <2>7 DEF SameButP, SameButFde
    <2>9. y = v
      <3>1. num_read(v) = 0
        BY <2>1, <2>8 DEF num_read
      <3> QED BY <1>7, <1>9, <2>2, <2>5, <2>6, <3>1 DEF packet_recv_enable
    <2>10. Living(v)
      BY <1>1, <2>8 DEF Living
    <2>11. Sized(v)
      BY <1>1, <2>8 DEF Sized
    <2>12. Metered(v)
      BY <1>9, <2>1, <2>8, EmptyRequest DEF Metered
    <2>13. Watching(v) /\ Signalled(v)
      BY <2>1, <2>8, EmptyRequest DEF Watching, Signalled
    <2>14. Streaming(v)
      BY <1>1, <2>8, StreamingFrame
    <2>15. Queueing(v)
      BY <1>1, <2>8, QueueingFrame
    <2>16. Quiet(x, v)
      BY <2>8 DEF Quiet
    <2>17. v.fde.freed = x.fde.freed
      <3>1. x.fde.freed = FALSE /\ v.fde.freed = FALSE
        BY <1>1, <1>6, <2>3, <2>7, <2>8, Parts1 DEF FdEvents
      <3> QED BY <3>1
    <2> QED BY <2>7, <2>8, <2>9, <2>10, <2>11, <2>12, <2>13, <2>14, <2>15, <2>16, <2>17 DEF Good
  <1> QED BY <1>8, <1>9

-----------------------------------------------------------------------------
(***************************************************************************)
(* The connection.                                                         *)
(***************************************************************************)
LEMMA SocketGood ==
    ASSUME NEW x, Good(x), NEW s \in Sockets, s.out = x.sock.out, s.garbled = x.sock.garbled,
           x.sock.reset => s.reset,
           NEW y, y = [x EXCEPT !.sock = s], Streaming(y)
    PROVE  /\ Good(y)
           /\ Signalled(x) => Signalled(y)
           /\ y.sock = s /\ y.delivered = x.delivered /\ y.p = x.p /\ y.ended = x.ended
           /\ y.fde = x.fde
  <1>1. /\ x \in Views /\ Living(x) /\ Sized(x) /\ Metered(x) /\ Watching(x) /\ Queueing(x)
    BY DEF Good
  <1>2. /\ y \in Views /\ y.p = x.p /\ y.fde = x.fde /\ y.timers = x.timers /\ y.sock = s
        /\ y.user = x.user /\ y.delivered = x.delivered /\ y.ended = x.ended
    BY <1>1, SocketFacts
  <1>3. Living(y)
    BY <1>1, <1>2 DEF Living
  <1>4. Sized(y)
    BY <1>1, <1>2 DEF Sized
  <1>5. Metered(y)
    BY <1>1, <1>2 DEF Metered
  <1>6. Watching(y)
    BY <1>1, <1>2 DEF Watching
  <1>7. Queueing(y)
    BY <1>1, <1>2, QueueingFrame
  <1>8. Signalled(x) => Signalled(y)
    BY <1>2 DEF Signalled
  <1> QED BY <1>2, <1>3, <1>4, <1>5, <1>6, <1>7, <1>8 DEF Good

Closed(sk) == [sk EXCEPT !.closed = TRUE]
Broken(sk) == [sk EXCEPT !.reset = TRUE]
Emptied(sk) == [sk EXCEPT !.reset = TRUE, !.in = <<>>]

LEMMA ClosedFacts ==
    ASSUME NEW sk \in Sockets, NEW s, s = Closed(sk)
    PROVE  /\ s \in Sockets /\ s.out = sk.out /\ s.garbled = sk.garbled
           /\ s.reset = sk.reset /\ s.in = sk.in /\ s.next = sk.next
  <1>1. s = [sk EXCEPT !.closed = TRUE]
    BY DEF Closed
  <1>2. s \in Sockets
    BY <1>1 DEF Sockets
  <1> QED BY <1>1, <1>2 DEF Sockets

LEMMA BrokenFacts ==
    ASSUME NEW sk \in Sockets, NEW s, s = Broken(sk)
    PROVE  /\ s \in Sockets /\ s.out = sk.out /\ s.garbled = sk.garbled
           /\ s.reset /\ s.in = sk.in /\ s.next = sk.next
  <1>1. s = [sk EXCEPT !.reset = TRUE]
    BY DEF Broken
  <1>2. s \in Sockets
    BY <1>1 DEF Sockets
  <1>3. s.reset = TRUE
    BY <1>1 DEF Sockets
  <1> QED BY <1>1, <1>2, <1>3 DEF Sockets

LEMMA EmptiedFacts ==
    ASSUME NEW sk \in Sockets, NEW s, s = Emptied(sk)
    PROVE  /\ s \in Sockets /\ s.out = sk.out /\ s.garbled = sk.garbled
           /\ s.reset /\ s.in = <<>> /\ s.next = sk.next
  <1>1. PICK empty : empty = <<>>
    OBVIOUS
  <1>2. empty \in Seq(Byte)
    BY <1>1
  <1>3. s = [sk EXCEPT !.reset = TRUE, !.in = empty]
    BY <1>1 DEF Emptied
  <1>4. s \in Sockets
    BY <1>2, <1>3 DEF Sockets
  <1>5. s.reset = TRUE
    BY <1>3 DEF Sockets
  <1>6. s.in = empty /\ s.out = sk.out /\ s.garbled = sk.garbled /\ s.next = sk.next
    BY <1>3 DEF Sockets
  <1> QED BY <1>1, <1>4, <1>5, <1>6

LEMMA CloseGood ==
    ASSUME NEW x, Good(x), Signalled(x),
           NEW s, s = Closed(x.sock), NEW y, y = [x EXCEPT !.sock = s]
    PROVE  Good(y) /\ Signalled(y) /\ Quiet(x, y)
  <1>1. x \in Views /\ Streaming(x)
    BY DEF Good
  <1>2. /\ s \in Sockets /\ s.out = x.sock.out /\ s.garbled = x.sock.garbled
        /\ s.reset = x.sock.reset /\ s.in = x.sock.in /\ s.next = x.sock.next
    BY <1>1, Parts1, ClosedFacts
  <1>3. /\ y.p = x.p /\ y.sock = s /\ y.delivered = x.delivered
    BY <1>1, <1>2, SocketFacts
  <1>4. Streaming(y)
    BY <1>1, <1>2, <1>3, StreamingFrame
  <1>5. /\ Good(y) /\ Signalled(y) /\ y.ended = x.ended /\ y.fde = x.fde
    BY <1>2, <1>4, SocketGood
  <1> QED BY <1>2, <1>3, <1>5 DEF Quiet

LEMMA RunFront ==
    ASSUME NEW w \in Seq(Byte), Run(w), NEW v \in Seq(Byte), Len(v) <= Len(w),
           \A j \in 1 .. Len(v) : v[j] = w[j]
    PROVE  Run(v)
  <1>1. Len(v) \in Nat /\ Len(w) \in Nat
    OBVIOUS
  <1>2. ASSUME NEW j \in 1 .. Len(v) - 1 PROVE v[j + 1] = Succ(v[j])
    <2>1. j \in 1 .. Len(w) - 1 /\ j \in 1 .. Len(v) /\ j + 1 \in 1 .. Len(v)
      BY <1>1
    <2>2. w[j + 1] = Succ(w[j])
      BY <2>1 DEF Run
    <2> QED BY <2>1, <2>2
  <1>3. ASSUME NEW j \in 1 .. Len(v), NEW m \in Nat, j + m <= Len(v),
               v[j][2] + m <= Sizes[v[j][1]]
        PROVE  v[j + m] = <<v[j][1], v[j][2] + m>>
    <2>1. j \in 1 .. Len(w) /\ j + m <= Len(w) /\ j + m \in 1 .. Len(v)
      BY <1>1, <1>3
    <2>2. v[j] = w[j] /\ v[j + m] = w[j + m]
      BY <2>1
    <2>3. w[j][2] + m <= Sizes[w[j][1]]
      BY <1>3, <2>2
    <2> QED BY <2>1, <2>2, <2>3 DEF Run
  <1> QED BY <1>2, <1>3 DEF Run

LEMMA ResetGood ==
    ASSUME NEW x, Good(x), Signalled(x),
           NEW s, s = Emptied(x.sock),
           NEW y, y = [x EXCEPT !.sock = s]
    PROVE  Good(y) /\ Signalled(y)
  <1>1. x \in Views /\ Streaming(x)
    BY DEF Good
  <1>5. /\ s \in Sockets /\ s.out = x.sock.out /\ s.garbled = x.sock.garbled
        /\ s.reset /\ s.in = <<>> /\ s.next = x.sock.next
    BY <1>1, Parts1, EmptiedFacts
  <1>6. /\ y.p = x.p /\ y.sock = s /\ y.delivered = x.delivered
    BY <1>1, <1>5, SocketFacts
  <1>7. PICK a : a = x.p.partial
    OBVIOUS
  <1>8. PICK w : w = Waiting(x)
    OBVIOUS
  <1>9. /\ w \in Seq(Byte) /\ a \in Seq(Byte) /\ Len(a) \in Nat /\ Len(w) \in Nat
        /\ Len(a) <= Len(w) /\ \A j \in 1 .. Len(a) : w[j] = a[j]
    <2>1. /\ w \in Seq(Byte) /\ a \in Seq(Byte) /\ Len(a) \in Nat /\ Len(x.sock.in) \in Nat
          /\ Len(w) = Len(a) + Len(x.sock.in) /\ \A j \in 1 .. Len(a) : w[j] = a[j]
      BY <1>1, <1>7, <1>8, WaitingFacts
    <2> QED BY <2>1
  <1>10. Waiting(y) = a
    <2>1. a \o <<>> = a
      BY <1>9, ConcatEmptySeq
    <2>2. y.p.partial = a /\ y.sock.in = <<>>
      BY <1>5, <1>6, <1>7
    <2> QED BY <2>1, <2>2 DEF Waiting
  <1>11. Run(a)
    <2>1. Run(w)
      BY <1>1, <1>8 DEF Streaming
    <2> QED BY <1>9, <2>1, RunFront
  <1>12. ~x.p.freed /\ a # <<>> => a[1] = First(y)
    <2> SUFFICES ASSUME ~x.p.freed, a # <<>> PROVE a[1] = First(y)
      OBVIOUS
    <2>1. Len(a) >= 1
      BY <1>9, EmptySeq
    <2>2. 1 \in 1 .. Len(a) /\ Len(w) >= 1
      BY <1>9, <2>1
    <2>3. w # <<>> /\ w[1] = a[1]
      BY <1>9, <2>2
    <2>4. w[1] = First(x)
      BY <1>1, <1>8, <2>3 DEF Streaming
    <2> QED BY <1>6, <2>3, <2>4 DEF First
  <1>13. ASSUME NEW j \in 1 .. Len(a) PROVE Earlier(a[j], s.next)
    <2>1. j \in 1 .. Len(w) /\ w[j] = a[j]
      BY <1>9
    <2> QED BY <1>1, <1>5, <1>8, <2>1 DEF Streaming
  <1>14. Streaming(y)
    <2>1. y.sock.reset /\ y.sock.next = s.next /\ s.next = x.sock.next /\ y.p.freed = x.p.freed
      BY <1>5, <1>6
    <2> QED BY <1>1, <1>6, <1>10, <1>11, <1>12, <1>13, <2>1 DEF Streaming
  <1>15. Good(y) /\ Signalled(y) /\ y.ended = x.ended
    BY <1>5, <1>14, SocketGood
  <1> QED BY <1>5, <1>6, <1>15

GivenUp(x) == [packet_error(x) EXCEPT !.sock = Broken(x.sock)]
Doomed(x) == [x EXCEPT !.p = [x.p EXCEPT !.destructor_called = TRUE]]

LEMMA DoomedFacts ==
    ASSUME NEW x \in Views, NEW y, y = Doomed(x)
    PROVE  /\ y \in Views /\ SameButP(x, y)
           /\ y.p.partial = x.p.partial /\ y.p.packet_size = x.p.packet_size
           /\ y.p.sock = x.p.sock /\ y.p.processing = x.p.processing /\ y.p.busy = x.p.busy
           /\ y.p.recv_disable = x.p.recv_disable /\ y.p.freed = x.p.freed
           /\ y.p.send_queue = x.p.send_queue
  <1>1. PICK q : q = [x.p EXCEPT !.destructor_called = TRUE]
    OBVIOUS
  <1>2. x.p \in Contexts
    BY Parts1
  <1>3. q \in Contexts
    BY <1>1, <1>2 DEF Contexts
  <1>4. /\ q.partial = x.p.partial /\ q.packet_size = x.p.packet_size
        /\ q.sock = x.p.sock /\ q.processing = x.p.processing /\ q.busy = x.p.busy
        /\ q.recv_disable = x.p.recv_disable /\ q.freed = x.p.freed
        /\ q.send_queue = x.p.send_queue
    BY <1>1, <1>2 DEF Contexts
  <1>5. y = [x EXCEPT !.p = q]
    BY <1>1 DEF Doomed
  <1>6. y \in Views /\ SameButP(x, y) /\ y.p = q
    BY <1>3, <1>5, PFacts
  <1> QED BY <1>4, <1>6

LEMMA GiveUpGood ==
    ASSUME NEW x, Good(x), ~x.p.freed,
           NEW y, y = IF x.p.busy THEN Doomed(GivenUp(x)) ELSE talloc_free_pc(GivenUp(x))
    PROVE  /\ Good(y) /\ Signalled(y) /\ y.sock.reset /\ y.sock.next = x.sock.next
           /\ y.delivered = x.delivered /\ y.p.busy = x.p.busy /\ y.ended /\ y.fde.freed
           /\ y.fde.misused = x.fde.misused
  <1>1. PICK u : u = packet_error(x)
    OBVIOUS
  <1>2. /\ Good(u) /\ u.ended /\ u.delivered = x.delivered
        /\ u.p.busy = x.p.busy /\ u.p.freed = x.p.freed /\ u.sock = x.sock
        /\ u.fde.misused = x.fde.misused
    BY <1>1, ErrorGood
  <1>3. u \in Views /\ Streaming(u) /\ Living(u) /\ u.sock \in Sockets
    BY <1>2, Parts1 DEF Good
  <1>12. PICK s : s = Broken(x.sock)
    OBVIOUS
  <1>13. PICK z : z = GivenUp(x)
    OBVIOUS
  <1>4. /\ s \in Sockets /\ s.out = x.sock.out /\ s.garbled = x.sock.garbled
        /\ s.reset /\ s.in = x.sock.in /\ s.next = x.sock.next
    BY <1>2, <1>3, <1>12, BrokenFacts
  <1>5. z = [u EXCEPT !.sock = s]
    BY <1>1, <1>12, <1>13 DEF GivenUp
  <1>6. z.p = u.p /\ z.sock = s /\ z.delivered = u.delivered
    BY <1>3, <1>4, <1>5, SocketFacts
  <1>7. Streaming(z)
    BY <1>2, <1>3, <1>4, <1>6, StreamingFrame
  <1>8. Good(z) /\ z.ended /\ z.fde = u.fde
    <2>1. /\ s.out = u.sock.out /\ s.garbled = u.sock.garbled
          /\ u.sock.reset => s.reset
      BY <1>2, <1>4
    <2>2. Good(z) /\ z.ended = u.ended /\ z.fde = u.fde
      <3>1. Good(u) /\ s \in Sockets
        BY <1>2, <1>4
      <3> QED BY <1>5, <1>7, <2>1, <3>1, SocketGood
    <2> QED BY <1>2, <2>2
  <1>9. /\ z \in Views /\ Living(z) /\ Sized(z) /\ Metered(z) /\ Watching(z)
        /\ Streaming(z) /\ Queueing(z)
    BY <1>8 DEF Good
  <1>10. CASE x.p.busy
    <2>1. y = Doomed(z)
      BY <1>10, <1>13
    <2>5. /\ y \in Views /\ SameButP(z, y)
          /\ y.p.partial = z.p.partial /\ y.p.packet_size = z.p.packet_size
          /\ y.p.sock = z.p.sock /\ y.p.processing = z.p.processing /\ y.p.busy = z.p.busy
          /\ y.p.recv_disable = z.p.recv_disable /\ y.p.freed = z.p.freed
          /\ y.p.send_queue = z.p.send_queue
      BY <1>9, <2>1, DoomedFacts
    <2>6. y \in Views
      BY <2>5
    <2>7. /\ y.fde = z.fde /\ y.timers = z.timers /\ y.sock = z.sock /\ y.user = z.user
          /\ y.delivered = z.delivered /\ y.ended = z.ended
      BY <2>5 DEF SameButP
    <2>8. Living(y)
      BY <1>4, <1>6, <1>8, <1>9, <2>5, <2>6, <2>7 DEF Living
    <2>9. Sized(y)
      BY <1>9, <2>5, <2>6 DEF Sized
    <2>10. Metered(y)
      BY <1>9, <2>5, <2>6, <2>7 DEF Metered
    <2>11. Watching(y) /\ Signalled(y)
      BY <1>8, <2>7 DEF Watching, Signalled
    <2>12. Streaming(y)
      BY <1>9, <2>5, <2>6, <2>7, StreamingFrame
    <2>13. Queueing(y)
      BY <1>9, <2>5, <2>6, <2>7, QueueingFrame
    <2>14. Good(y)
      BY <2>6, <2>8, <2>9, <2>10, <2>11, <2>12, <2>13 DEF Good
    <2>15. y.fde.freed
      BY <1>8, <1>9, <2>7 DEF Living
    <2> QED BY <1>2, <1>4, <1>6, <1>8, <2>5, <2>6, <2>7, <2>11, <2>14, <2>15
  <1>11. CASE ~x.p.busy
    <2>1. y = talloc_free_pc(z)
      BY <1>11, <1>13
    <2>2. ~z.sock.garbled /\ z.sock.reset
      BY <1>4, <1>6, <1>9 DEF Queueing
    <2>3. /\ Good(y) /\ Signalled(y) /\ y.ended /\ ~y.p.busy /\ y.fde.freed
          /\ y.delivered = z.delivered /\ y.sock = z.sock /\ y.fde.misused = z.fde.misused
      BY <1>9, <2>1, <2>2, FreeGood
    <2>4. y.p.busy = x.p.busy
      <3>1. x.p \in Contexts /\ y.p \in Contexts
        BY <2>3, Parts1 DEF Good
      <3>2. x.p.busy \in BOOLEAN /\ y.p.busy \in BOOLEAN
        BY <3>1 DEF Contexts
      <3> QED BY <1>11, <2>3, <3>2
    <2> QED BY <1>2, <1>4, <1>6, <1>8, <2>3, <2>4
  <1> QED BY <1>10, <1>11

LEMMA NextByte ==
    ASSUME NEW b \in Nat \X Nat, b[1] > 0, b[1] <= Len(Sizes), b[2] > 0, b[2] <= Sizes[b[1]],
           NEW c, c = Succ(b)
    PROVE  /\ b \in Byte /\ c \in Nat \X Nat /\ c[2] > 0 /\ c[1] <= Len(Sizes) + 1
           /\ c[1] = b[1] \/ c[1] = b[1] + 1
           /\ c[1] <= Len(Sizes) => c[2] <= Sizes[c[1]]
           /\ Earlier(b, c)
           /\ \A a \in Byte : Earlier(a, b) => Earlier(a, c)
  <1>1. /\ Sizes \in Seq(Nat) /\ \A i \in DOMAIN Sizes : Sizes[i] >= Hdr
        /\ Hdr \in Nat /\ Hdr # 0
    BY SizesAssumption, HdrAssumption
  <1>2. Len(Sizes) \in Nat /\ b[1] \in Nat /\ b[2] \in Nat
    BY <1>1
  <1>3. b[1] \in DOMAIN Sizes /\ b[2] \in Nat \ {0} /\ b \in (DOMAIN Sizes) \X (Nat \ {0})
    BY <1>1, <1>2
  <1>4. b \in Byte
    BY <1>3 DEF Byte
  <1>5. Sizes[b[1]] \in Nat
    BY <1>1, <1>3
  <1>6. CASE b[2] < Sizes[b[1]]
    <2>1. c = <<b[1], b[2] + 1>>
      BY <1>6 DEF Succ
    <2>2. c \in Nat \X Nat /\ c[1] = b[1] /\ c[2] = b[2] + 1 /\ b[2] + 1 \in Nat
      BY <1>2, <2>1
    <2>3. c[2] > 0 /\ c[2] <= Sizes[c[1]] /\ c[1] <= Len(Sizes) + 1 /\ b[2] < c[2]
      BY <1>2, <1>5, <1>6, <2>2
    <2>4. Earlier(b, c)
      BY <2>2, <2>3 DEF Earlier
    <2>5. ASSUME NEW a \in Byte, Earlier(a, b) PROVE Earlier(a, c)
      <3>1. a[1] \in Nat /\ a[2] \in Nat
        BY ByteFacts
      <3>2. a[1] < b[1] \/ (a[1] = b[1] /\ a[2] < b[2])
        BY <2>5 DEF Earlier
      <3>3. a[1] < c[1] \/ (a[1] = c[1] /\ a[2] < c[2])
        BY <1>2, <2>2, <3>1, <3>2
      <3> QED BY <3>3 DEF Earlier
    <2> QED BY <1>4, <2>2, <2>3, <2>4, <2>5
  <1>7. CASE ~(b[2] < Sizes[b[1]])
    <2>1. c = <<b[1] + 1, 1>>
      BY <1>7 DEF Succ
    <2>2. c \in Nat \X Nat /\ c[1] = b[1] + 1 /\ c[2] = 1
      BY <1>2, <2>1
    <2>3. c[2] > 0 /\ c[1] <= Len(Sizes) + 1 /\ b[1] < c[1]
      BY <1>2, <2>2
    <2>4. c[1] <= Len(Sizes) => c[2] <= Sizes[c[1]]
      <3> SUFFICES ASSUME c[1] <= Len(Sizes) PROVE c[2] <= Sizes[c[1]]
        OBVIOUS
      <3>1. c[1] \in DOMAIN Sizes
        BY <1>1, <1>2, <2>2
      <3>2. Sizes[c[1]] \in Nat /\ Sizes[c[1]] >= Hdr
        BY <1>1, <3>1
      <3> QED BY <1>1, <2>2, <3>2
    <2>5. Earlier(b, c)
      BY <2>3 DEF Earlier
    <2>6. ASSUME NEW a \in Byte, Earlier(a, b) PROVE Earlier(a, c)
      <3>1. a[1] \in Nat
        BY ByteFacts
      <3>2. a[1] < b[1] \/ a[1] = b[1]
        BY <2>6 DEF Earlier
      <3>3. a[1] < c[1]
        BY <1>2, <2>2, <3>1, <3>2
      <3> QED BY <3>3 DEF Earlier
    <2> QED BY <1>4, <2>2, <2>3, <2>4, <2>5, <2>6
  <1> QED BY <1>6, <1>7

Arrived(sk) == [sk EXCEPT !.in = Append(sk.in, sk.next), !.next = Succ(sk.next)]

LEMMA ArrivedFacts ==
    ASSUME NEW sk \in Sockets, sk.next \in Byte, Succ(sk.next) \in Nat \X Nat,
           NEW s, s = Arrived(sk)
    PROVE  /\ s \in Sockets /\ s.out = sk.out /\ s.garbled = sk.garbled
           /\ s.reset = sk.reset /\ s.in = Append(sk.in, sk.next) /\ s.next = Succ(sk.next)
  <1>1. PICK in : in = Append(sk.in, sk.next)
    OBVIOUS
  <1>2. PICK next : next = Succ(sk.next)
    OBVIOUS
  <1>3. sk.in \in Seq(Byte)
    BY DEF Sockets
  <1>4. in \in Seq(Byte)
    BY <1>1, <1>3, AppendProperties
  <1>5. s = [sk EXCEPT !.in = in, !.next = next]
    BY <1>1, <1>2 DEF Arrived
  <1>6. next \in Nat \X Nat
    BY <1>2
  <1>7. s \in Sockets
    BY <1>4, <1>5, <1>6 DEF Sockets
  <1>8. s.in = in /\ s.next = next
    BY <1>5 DEF Sockets
  <1>9. s.out = sk.out /\ s.garbled = sk.garbled /\ s.reset = sk.reset
    BY <1>5 DEF Sockets
  <1> QED BY <1>1, <1>2, <1>7, <1>8, <1>9

LEMMA Regrouped ==
    ASSUME NEW a \in Seq(Byte), NEW b \in Seq(Byte), NEW d \in Seq(Byte)
    PROVE  (a \o b) \o d = a \o (b \o d)
  BY ConcatAssociative

LEMMA ArrivalGood ==
    ASSUME NEW x, Good(x), Signalled(x), ~x.sock.reset, x.sock.next[1] <= Len(Sizes),
           NEW s, s = Arrived(x.sock), NEW y, y = [x EXCEPT !.sock = s]
    PROVE  /\ Good(y) /\ Signalled(y) /\ y.delivered = x.delivered /\ y.p = x.p
           /\ y.ended = x.ended /\ y.fde = x.fde /\ y.sock = s /\ s.reset = x.sock.reset
           /\ s.next[1] = x.sock.next[1] \/ s.next[1] = x.sock.next[1] + 1
           /\ s.in # <<>>
  <1>1. x \in Views /\ Streaming(x) /\ Living(x) /\ x.sock \in Sockets
    BY Parts1 DEF Good
  <1>2. ~x.p.freed
    BY <1>1 DEF Living
  <1>3. PICK b : b = x.sock.next
    OBVIOUS
  <1>4. PICK w : w = Waiting(x)
    OBVIOUS
  <1>5. PICK c : c = Succ(b)
    OBVIOUS
  <1>6. /\ Run(w) /\ (w # <<>> => w[1] = First(x))
        /\ b = IF w = <<>> THEN First(x) ELSE Succ(w[Len(w)])
        /\ \A j \in 1 .. Len(w) : Earlier(w[j], b)
        /\ Len(x.delivered) < b[1] /\ b[2] > 0
        /\ b[1] <= Len(Sizes) => b[2] <= Sizes[b[1]]
        /\ \A d \in 1 .. Len(x.delivered) : x.delivered[d] = Bytes(d)
    BY <1>1, <1>2, <1>3, <1>4 DEF Streaming
  <1>7. b \in Nat \X Nat /\ Len(x.delivered) \in Nat
    BY <1>1, <1>3, Parts1 DEF Sockets
  <1>8. b[1] \in Nat /\ b[1] > 0 /\ b[1] <= Len(Sizes) /\ b[2] <= Sizes[b[1]]
    BY <1>3, <1>6, <1>7
  <1>9. /\ b \in Byte /\ c \in Nat \X Nat /\ c[2] > 0 /\ c[1] <= Len(Sizes) + 1
        /\ c[1] = b[1] \/ c[1] = b[1] + 1
        /\ c[1] <= Len(Sizes) => c[2] <= Sizes[c[1]]
        /\ Earlier(b, c)
        /\ \A a \in Byte : Earlier(a, b) => Earlier(a, c)
    BY <1>5, <1>6, <1>7, <1>8, NextByte
  <1>10. /\ s \in Sockets /\ s.out = x.sock.out /\ s.garbled = x.sock.garbled
         /\ s.reset = x.sock.reset /\ s.in = Append(x.sock.in, b) /\ s.next = c
    BY <1>1, <1>3, <1>5, <1>9, ArrivedFacts
  <1>11. /\ y.p = x.p /\ y.sock = s /\ y.delivered = x.delivered
    BY <1>1, <1>10, SocketFacts
  <1>12. PICK v : v = Append(w, b)
    OBVIOUS
  <1>13. x.p.partial \in Seq(Byte) /\ x.sock.in \in Seq(Byte) /\ w \in Seq(Byte)
    BY <1>1, <1>4, WaitingFacts
  <1>14. Waiting(y) = v
    <2>1. PICK p : p = x.p.partial
      OBVIOUS
    <2>2. PICK q : q = x.sock.in
      OBVIOUS
    <2>3. p \in Seq(Byte) /\ q \in Seq(Byte) /\ <<b>> \in Seq(Byte)
      BY <1>9, <1>13, <2>1, <2>2
    <2>4. Append(q, b) = q \o <<b>>
      BY <1>9, <2>3, AppendIsConcat
    <2>5. PICK one : one = <<b>>
      OBVIOUS
    <2>6. (p \o q) \o one = p \o (q \o one)
      <3>1. one \in Seq(Byte)
        BY <2>3, <2>5
      <3> QED BY <2>3, <3>1, Regrouped
    <2>7. p \o q = w
      BY <1>4, <2>1, <2>2 DEF Waiting
    <2>8. v = w \o <<b>>
      BY <1>9, <1>12, <1>13, AppendIsConcat
    <2>9. Waiting(y) = p \o Append(q, b)
      BY <1>10, <1>11, <2>1, <2>2 DEF Waiting
    <2> QED BY <2>4, <2>5, <2>6, <2>7, <2>8, <2>9
  <1>15. /\ Run(v) /\ v \in Seq(Byte) /\ Len(v) = Len(w) + 1 /\ v[Len(w) + 1] = b
         /\ \A j \in 1 .. Len(w) : v[j] = w[j]
    <2>1. w # <<>> => b = Succ(w[Len(w)])
      BY <1>6
    <2>2. Run(w)
      BY <1>6
    <2>3. b \in Byte
      BY <1>9
    <2>4. w \in Seq(Byte)
      BY <1>13
    <2>5. Follows(w, b)
      BY <2>1, <2>2, <2>3, <2>4 DEF Follows
    <2>6. Grown(w, b, v)
      BY <1>12, <2>5, RunAppend
    <2> QED BY <2>6 DEF Grown
  <1>16. Len(w) \in Nat /\ v # <<>>
    <2>1. Len(w) \in Nat
      BY <1>13
    <2>2. Len(v) # 0
      BY <1>15, <2>1
    <2> QED BY <2>1, <2>2
  <1>17. First(y) = First(x)
    BY <1>11 DEF First
  <1>18. v[1] = First(y)
    <2>1. CASE w = <<>>
      <3>1. Len(w) = 0
        BY <2>1
      <3>2. Len(w) + 1 = 1
        BY <3>1
      <3> QED BY <1>6, <1>15, <1>17, <2>1, <3>2
    <2>2. CASE w # <<>>
      <3>1. Len(w) >= 1
        BY <1>13, <2>2, EmptySeq
      <3>2. 1 \in 1 .. Len(w)
        BY <1>16, <3>1
      <3> QED BY <1>6, <1>15, <1>17, <2>2, <3>2
    <2> QED BY <2>1, <2>2
  <1>19. c = Succ(v[Len(v)])
    BY <1>5, <1>15
  <1>20. ASSUME NEW j \in 1 .. Len(v) PROVE Earlier(v[j], c)
    <2>1. j \in 1 .. Len(w) \/ j = Len(w) + 1
      BY <1>15, <1>16
    <2>2. CASE j \in 1 .. Len(w)
      <3>1. w[j] \in Byte /\ v[j] = w[j]
        BY <1>13, <1>15, <2>2
      <3> QED BY <1>6, <1>9, <2>2, <3>1
    <2>3. CASE j = Len(w) + 1
      BY <1>9, <1>15, <2>3
    <2> QED BY <2>1, <2>2, <2>3
  <1>21. Len(x.delivered) < c[1]
    <2>1. PICK n \in Nat : n = Len(x.delivered)
      BY <1>7
    <2>2. PICK i \in Nat : i = b[1]
      BY <1>8
    <2>3. n < i /\ (c[1] = i \/ c[1] = i + 1)
      BY <1>6, <1>9, <2>1, <2>2
    <2>4. n < c[1]
      BY <2>3
    <2> QED BY <2>1, <2>4
  <1>22. Streaming(y)
    <2>1. /\ y.sock.next = c /\ y.delivered = x.delivered
      BY <1>10, <1>11
    <2>2. v # <<>> => v[1] = First(y)
      BY <1>18
    <2>3. y.sock.next = IF v = <<>> THEN First(y) ELSE Succ(v[Len(v)])
      BY <1>16, <1>19, <2>1
    <2>4. \A d \in 1 .. Len(x.delivered) : x.delivered[d] = Bytes(d)
      BY <1>6
    <2>5. /\ c[2] > 0 /\ c[1] <= Len(Sizes) + 1
          /\ c[1] <= Len(Sizes) => c[2] <= Sizes[c[1]]
      BY <1>9
    <2>6. Run(v)
      BY <1>15
    <2>7. \A j \in 1 .. Len(v) : Earlier(v[j], c)
      BY <1>20
    <2> QED BY <1>14, <1>21, <2>1, <2>2, <2>3, <2>4, <2>5, <2>6, <2>7 DEF Streaming
  <1>23. Good(y) /\ Signalled(y) /\ y.ended = x.ended /\ y.fde = x.fde
    BY <1>10, <1>22, SocketGood
  <1>24. s.in # <<>>
    <2>1. x.sock.in \in Seq(Byte) /\ b \in Byte
      BY <1>9, <1>13
    <2>2. Append(x.sock.in, b) # <<>>
      BY <2>1, AppendProperties
    <2> QED BY <1>10, <2>2
  <1> QED BY <1>3, <1>9, <1>10, <1>11, <1>23, <1>24


-----------------------------------------------------------------------------
(***************************************************************************)
(* The steps.                                                              *)
(***************************************************************************)
LEMMA Became ==
    ASSUME NEW x \in Views, Become(x)
    PROVE  View' = x
  <1>1. x = [p |-> x.p, fde |-> x.fde, timers |-> x.timers, sock |-> x.sock, user |-> x.user,
             delivered |-> x.delivered, ended |-> x.ended]
    BY DEF Views
  <1>2. /\ pc' = x.p /\ fde' = x.fde /\ timers' = x.timers /\ sock' = x.sock
        /\ user' = x.user /\ delivered' = x.delivered /\ ended' = x.ended
    BY DEF Become
  <1> QED BY <1>1, <1>2 DEF View

LEMMA ViewFacts ==
    /\ View.p = pc /\ View.fde = fde /\ View.timers = timers /\ View.sock = sock
    /\ View.user = user /\ View.delivered = delivered /\ View.ended = ended
  BY DEF View

LEMMA Carried ==
    ASSUME NEW x, Good(x), Signalled(x), View' = x, env' = env
    PROVE  Good(View)' /\ Signalled(View)'
  <1>1. /\ x \in Views /\ Living(x) /\ Sized(x) /\ Metered(x) /\ Watching(x) /\ Streaming(x)
        /\ Queueing(x)
    BY DEF Good
  <1>2. User' = User /\ Nested' = Nested
    BY DEF User, Nested
  <1>3. (View \in Views)'
    BY <1>1 DEF Views, Contexts, FdEvents, Sockets, Users, Byte, SendElement
  <1>4. Living(View)'
    BY <1>1, <1>2 DEF Living
  <1>5. Sized(View)'
    BY <1>1, <1>2 DEF Sized
  <1>6. Metered(View)'
    BY <1>1, <1>2 DEF Metered
  <1>7. Watching(View)'
    BY <1>1, <1>2 DEF Watching
  <1>8. Streaming(View)'
    BY <1>1, <1>2 DEF Streaming, Waiting, Run, Earlier, First
  <1>9. Queueing(View)'
    BY <1>1, <1>2 DEF Queueing
  <1>10. Signalled(View)'
    BY <1>1, <1>2 DEF Signalled
  <1> QED BY <1>3, <1>4, <1>5, <1>6, <1>7, <1>8, <1>9, <1>10 DEF Good


\* What the user of the context sees of a step, besides Quiet, Handed and Over:
\* the callback returns, the connection breaks or is given up, bytes arrive.
Returned(x, y) ==
    /\ x.p.busy /\ ~y.p.busy /\ y.ended = x.ended /\ y.delivered = x.delivered
    /\ y.sock.next = x.sock.next /\ y.sock.reset = x.sock.reset
    /\ y.fde.misused => x.fde.misused \/ (Nested /\ x.p.processing > 1)

Broke(x, y) ==
    /\ y.sock.reset /\ (y.ended = x.ended \/ y.ended)
    /\ y.delivered = x.delivered /\ y.p.busy = x.p.busy /\ y.sock.next = x.sock.next
    /\ y.fde.misused = x.fde.misused

Came(x, y) ==
    /\ y.delivered = x.delivered /\ y.p.busy = x.p.busy /\ y.ended = x.ended
    /\ y.sock.reset = x.sock.reset
    /\ y.sock.next[1] = x.sock.next[1] \/ y.sock.next[1] = x.sock.next[1] + 1
    /\ y.fde.misused = x.fde.misused

Visible(x, y) ==
    Quiet(x, y) \/ Handed(x, y) \/ Over(x, y) \/ Returned(x, y) \/ Broke(x, y) \/ Came(x, y)

LEMMA Stepped ==
    ASSUME NEW y, Good(y), Signalled(y), Visible(View, y), Become(y), env' = env
    PROVE  Good(View)' /\ Signalled(View)' /\ Visible(View, View') /\ View' = y
  <1>1. y \in Views
    BY DEF Good
  <1>2. View' = y
    BY <1>1, Became
  <1>3. Good(View)' /\ Signalled(View)'
    BY <1>2, Carried
  <1> QED BY <1>2, <1>3

LEMMA Ticked ==
    ASSUME NEW x \in Views, NEW n \in Nat, NEW y, y = [x EXCEPT !.timers = n]
    PROVE  /\ y \in Views /\ y.p = x.p /\ y.fde = x.fde /\ y.timers = n /\ y.sock = x.sock
           /\ y.user = x.user /\ y.delivered = x.delivered /\ y.ended = x.ended
  BY DEF Views

LEMMA TickGood ==
    ASSUME NEW x, Good(x), ~x.p.freed, x.p.busy => Nested, x.timers > 0,
           NEW n, n = x.timers - 1, NEW y, y = [x EXCEPT !.timers = n],
           NEW z, z = IF NextReady(y) THEN packet_recv(y) ELSE y
    PROVE  Result(x, z)
  <1>1. /\ x \in Views /\ Living(x) /\ Sized(x) /\ Metered(x) /\ Watching(x) /\ Streaming(x)
        /\ Queueing(x) /\ n \in Nat
    BY Parts1 DEF Good
  <1>2. /\ y \in Views /\ y.p = x.p /\ y.fde = x.fde /\ y.timers = n /\ y.sock = x.sock
        /\ y.user = x.user /\ y.delivered = x.delivered /\ y.ended = x.ended
    BY <1>1, Ticked
  <1>3. User # "rpc"
    BY <1>1 DEF Metered
  <1>4. Living(y) /\ Sized(y) /\ Watching(y)
    BY <1>1, <1>2 DEF Living, Sized, Watching
  <1>5. Metered(y)
    BY <1>1, <1>2, <1>3 DEF Metered
  <1>6. Streaming(y)
    BY <1>1, <1>2, StreamingFrame
  <1>7. Queueing(y)
    BY <1>1, <1>2, QueueingFrame
  <1>8. Good(y)
    BY <1>2, <1>4, <1>5, <1>6, <1>7 DEF Good
  <1>9. CASE NextReady(y)
    <2>1. Buffered(y)
      BY <1>2, <1>9, WaitingFacts DEF NextReady, Buffered, num_read
    <2>2. z = packet_recv(y)
      BY <1>9
    <2>3. Result(y, z)
      BY <1>2, <1>8, <2>1, <2>2, PacketRecvGood
    <2> QED BY <1>2, <2>3 DEF Result, Quiet, Handed, Over
  <1>10. CASE ~NextReady(y)
    <2>1. z = y
      BY <1>10
    <2>2. y.p.busy \/ ~full_request(y.p.partial).ok
      <3>1. Len(y.p.partial) \in Nat /\ y.p.packet_size \in Nat
        BY <1>2, WaitingFacts, Parts1 DEF Contexts
      <3>2. ~Buffered(y)
        BY <1>10, <3>1 DEF NextReady, Buffered, num_read
      <3> QED BY <1>8, <3>2, BufferedOk
    <2>3. Signalled(y)
      BY <2>2 DEF Signalled
    <2>4. Quiet(x, y)
      BY <1>2 DEF Quiet
    <2> QED BY <1>8, <2>1, <2>3, <2>4 DEF Result
  <1> QED BY <1>9, <1>10

LEMMA Invariants ==
    ASSUME IInv
    PROVE  /\ Good(View) /\ Signalled(View) /\ Reporting /\ env \in Scenarios
           /\ View \in Views /\ Living(View) /\ Metered(View)
           /\ View.p = pc /\ View.fde = fde /\ View.timers = timers /\ View.sock = sock
           /\ View.user = user /\ View.delivered = delivered /\ View.ended = ended
  BY ViewFacts DEF IInv, Good

LEMMA PollStep ==
    ASSUME IInv, poll, env' = env
    PROVE  IInv' /\ Visible(View, View')
  <1>1. View' = View
    BY DEF poll, View
  <1>2. Good(View)' /\ Signalled(View)'
    BY <1>1, Invariants, Carried
  <1>3. Reporting'
    BY DEF poll, Ready, Reporting
  <1>4. Quiet(View, View')
    BY <1>1 DEF Quiet
  <1>5. env' \in Scenarios
    BY DEF IInv
  <1> QED BY <1>2, <1>3, <1>4, <1>5 DEF IInv, Visible

LEMMA HandlerStep ==
    ASSUME IInv, event_handler, env' = env
    PROVE  IInv' /\ Visible(View, View')
  <1>1. /\ Good(View) /\ Signalled(View) /\ Living(View)
        /\ ~View.p.freed /\ (View.p.busy => Nested)
    BY Invariants DEF event_handler, Looping, Alive
  <1>2. ~View.fde.freed
    BY Invariants DEF event_handler, Reporting
  <1>3. PICK y : Become(y) /\ Result(View, y)
    <2>1. CASE Handled = "read"
      <3>1. PICK y : y = packet_recv(View)
        OBVIOUS
      <3>2. Become(y)
        BY <2>1, <3>1 DEF event_handler
      <3>3. Result(View, y)
        BY <1>1, <1>2, <3>1, PacketRecvGood
      <3> QED BY <3>2, <3>3
    <2>2. CASE Handled # "read" /\ sock.reset
      <3>1. PICK y : y = packet_error(View)
        OBVIOUS
      <3>2. Become(y)
        BY <2>2, <3>1 DEF event_handler
      <3>3. View.sock.reset
        BY <2>2, Invariants
      <3>4. ~View.ended
        BY <1>1, <1>2 DEF Living
      <3>5. /\ Good(y) /\ Signalled(y) /\ y.ended /\ y.delivered = View.delivered
            /\ y.p.busy = View.p.busy /\ y.sock = View.sock
            /\ y.fde.misused = View.fde.misused
        BY <1>1, <3>1, ErrorGood
      <3>6. Over(View, y)
        BY <3>3, <3>4, <3>5 DEF Over
      <3> QED BY <3>2, <3>5, <3>6 DEF Result
    <2>3. CASE Handled # "read" /\ ~sock.reset
      <3>1. PICK k \in 0 .. Len(pc.send_queue) : \E m \in Parts(pc.send_queue, k) :
                Become(packet_queue_run(View, k, m))
        BY <2>3 DEF event_handler
      <3>2. PICK m \in Parts(pc.send_queue, k) : Become(packet_queue_run(View, k, m))
        BY <3>1
      <3>3. PICK y : y = packet_queue_run(View, k, m)
        OBVIOUS
      <3>4. k \in 0 .. Len(View.p.send_queue) /\ m \in Parts(View.p.send_queue, k)
        BY <3>1, <3>2, Invariants
      <3>5. Result(View, y)
        BY <1>1, <1>2, <3>3, <3>4, QueueRunGood
      <3> QED BY <3>2, <3>3, <3>5
    <2> QED BY <2>1, <2>2, <2>3
  <1>4. Good(y) /\ Signalled(y) /\ Visible(View, y)
    BY <1>3 DEF Result, Visible
  <1>5. Good(View)' /\ Signalled(View)' /\ Visible(View, View')
    BY <1>3, <1>4, Stepped
  <1>6. Reporting'
    BY DEF event_handler, Reporting
  <1>7. env' \in Scenarios
    BY DEF IInv
  <1> QED BY <1>5, <1>6, <1>7 DEF IInv

LEMMA NextEventStep ==
    ASSUME IInv, packet_next_event, env' = env
    PROVE  IInv' /\ Visible(View, View')
  <1>1. Good(View) /\ ~View.p.freed /\ (View.p.busy => Nested) /\ View.timers > 0
    BY Invariants DEF packet_next_event, Looping, Alive
  <1>2. PICK n : n = View.timers - 1
    OBVIOUS
  <1>3. PICK x : x = [View EXCEPT !.timers = n]
    OBVIOUS
  <1>4. PICK y : y = IF NextReady(x) THEN packet_recv(x) ELSE x
    OBVIOUS
  <1>5. Become(y)
    <2>1. n = timers - 1
      BY <1>2, ViewFacts
    <2> QED BY <1>3, <1>4, <2>1 DEF packet_next_event
  <1>6. Result(View, y)
    BY <1>1, <1>2, <1>3, <1>4, TickGood
  <1>7. Good(y) /\ Signalled(y) /\ Visible(View, y)
    BY <1>6 DEF Result, Visible
  <1>8. Good(View)' /\ Signalled(View)' /\ Visible(View, View')
    BY <1>5, <1>7, Stepped
  <1>9. Reporting'
    BY DEF packet_next_event, Reporting
  <1>10. env' \in Scenarios
    BY DEF IInv
  <1> QED BY <1>8, <1>9, <1>10 DEF IInv


LEMMA ReturnStep ==
    ASSUME IInv, callback_returns, env' = env
    PROVE  IInv' /\ Visible(View, View')
  <1>1. /\ Good(View) /\ Signalled(View) /\ Living(View) /\ View \in Views /\ View.p.busy
        /\ Streaming(View) /\ Queueing(View)
    BY Invariants DEF callback_returns, Good
  <1>2. PICK y : y = IF View.p.destructor_called THEN talloc_free_pc(View)
                     ELSE callback_returned(View)
    OBVIOUS
  <1>3. Become(y)
    BY <1>2, ViewFacts DEF callback_returns
  <1>4. /\ Good(y) /\ Signalled(y) /\ ~y.p.busy /\ y.ended = View.ended
        /\ y.delivered = View.delivered /\ y.sock = View.sock
        /\ y.fde.misused => View.fde.misused \/ (Nested /\ View.p.processing > 1)
    <2>1. CASE View.p.destructor_called
      <3>1. View.ended /\ View.sock.reset
        BY <1>1, <2>1 DEF Living
      <3>2. ~View.sock.garbled
        BY <1>1 DEF Queueing
      <3>3. /\ Good(y) /\ Signalled(y) /\ y.ended /\ ~y.p.busy
            /\ y.delivered = View.delivered /\ y.sock = View.sock
            /\ y.fde.misused = View.fde.misused
        BY <1>1, <1>2, <2>1, <3>1, <3>2, FreeGood
      <3>4. y.ended = TRUE /\ View.ended = TRUE
        <4>1. y.ended \in BOOLEAN /\ View.ended \in BOOLEAN
          BY <1>1, <3>3, Parts1 DEF Good
        <4> QED BY <3>1, <3>3, <4>1
      <3> QED BY <3>3, <3>4
    <2>2. CASE ~View.p.destructor_called
      BY <1>1, <1>2, <2>2, ReturnedGood
    <2> QED BY <2>1, <2>2
  <1>5. Visible(View, y)
    BY <1>1, <1>4 DEF Visible, Returned
  <1>6. Good(View)' /\ Signalled(View)' /\ Visible(View, View') /\ View' = y
    BY <1>3, <1>4, <1>5, Stepped
  <1>7. sock' = sock
    BY <1>3, <1>4, ViewFacts DEF Become
  <1>8. Reporting'
    BY <1>7, Invariants DEF callback_returns, KeepRound, Reporting
  <1>9. env' \in Scenarios
    BY DEF IInv
  <1> QED BY <1>6, <1>8, <1>9 DEF IInv

LEMMA SendStep ==
    ASSUME IInv, UserSend, env' = env
    PROVE  IInv' /\ Visible(View, View')
  <1>1. /\ Good(View) /\ Signalled(View) /\ ~View.p.freed /\ ~View.ended
        /\ View.user.sent < Len(OutSizes)
    BY Invariants DEF UserSend, Alive
  <1>2. PICK x : x = packet_send(View)
    OBVIOUS
  <1>3. /\ Good(x) /\ Signalled(x) /\ Quiet(View, x) /\ ~x.p.freed
        /\ x.fde.freed = View.fde.freed /\ x.sock = View.sock
    BY <1>1, <1>2, SendGood
  <1>4. PICK y : y = IF User = "rpc" THEN sock_send_read(x) ELSE x
    OBVIOUS
  <1>5. Become(y)
    BY <1>2, <1>4 DEF UserSend
  <1>6. /\ Good(y) /\ Signalled(y) /\ Quiet(View, y) /\ y.fde.freed = View.fde.freed
        /\ y.sock = View.sock
    <2>1. CASE User = "rpc"
      <3>1. ~x.ended
        BY <1>1, <1>3 DEF Quiet
      <3>2. y = sock_send_read(x)
        BY <1>4, <2>1
      <3>3. Good(y) /\ Signalled(y) /\ Quiet(x, y) /\ y.fde.freed = x.fde.freed /\ y.sock = x.sock
        BY <1>3, <2>1, <3>1, <3>2, ReadGood
      <3>4. Quiet(View, y)
        BY <1>3, <3>3 DEF Quiet
      <3> QED BY <1>3, <3>3, <3>4
    <2>2. CASE User # "rpc"
      BY <1>3, <1>4, <2>2
    <2> QED BY <2>1, <2>2
  <1>7. Visible(View, y)
    BY <1>6 DEF Visible
  <1>8. Good(View)' /\ Signalled(View)' /\ Visible(View, View')
    BY <1>5, <1>6, <1>7, Stepped
  <1>9. sock' = sock /\ fde'.freed = fde.freed
    BY <1>5, <1>6, ViewFacts DEF Become
  <1>10. Reporting'
    BY <1>9, Invariants DEF UserSend, Reporting
  <1>11. env' \in Scenarios
    BY DEF IInv
  <1> QED BY <1>8, <1>10, <1>11 DEF IInv

LEMMA ReadMoreStep ==
    ASSUME IInv, UserReadMore, env' = env
    PROVE  IInv' /\ Visible(View, View')
  <1>1. /\ Good(View) /\ Signalled(View) /\ ~View.p.freed /\ ~View.ended /\ User = "rpc"
    BY Invariants DEF UserReadMore, Alive
  <1>2. PICK x : x = sock_send_read(View)
    OBVIOUS
  <1>3. /\ Good(x) /\ Signalled(x) /\ Quiet(View, x)
        /\ x.fde.freed = View.fde.freed /\ x.sock = View.sock
    BY <1>1, <1>2, ReadGood
  <1>4. PICK more \in BOOLEAN : more = TRUE
    OBVIOUS
  <1>5. PICK y : y = Expect(x, x.user.pending_reads, more)
    OBVIOUS
  <1>6. Become(y)
    BY <1>2, <1>4, <1>5 DEF UserReadMore
  <1>7. Good(y) /\ Signalled(y) /\ Quiet(x, y) /\ y.fde = x.fde /\ y.sock = x.sock
    BY <1>3, <1>5, MoreGood
  <1>8. Quiet(View, y)
    BY <1>3, <1>7 DEF Quiet
  <1>9. Visible(View, y)
    BY <1>8 DEF Visible
  <1>10. Good(View)' /\ Signalled(View)' /\ Visible(View, View')
    BY <1>6, <1>7, <1>9, Stepped
  <1>11. sock' = sock /\ fde'.freed = fde.freed
    BY <1>3, <1>6, <1>7, ViewFacts DEF Become
  <1>12. Reporting'
    BY <1>11, Invariants DEF UserReadMore, Reporting
  <1>13. env' \in Scenarios
    BY DEF IInv
  <1> QED BY <1>10, <1>12, <1>13 DEF IInv

LEMMA FreeStep ==
    ASSUME IInv, UserFree, env' = env
    PROVE  IInv' /\ Visible(View, View')
  <1>1. Good(View) /\ ~View.p.freed
    BY Invariants DEF UserFree, Alive
  <1>2. PICK y : y = IF View.p.busy THEN Doomed(GivenUp(View)) ELSE talloc_free_pc(GivenUp(View))
    OBVIOUS
  <1>3. /\ Good(y) /\ Signalled(y) /\ y.sock.reset /\ y.sock.next = View.sock.next
        /\ y.delivered = View.delivered /\ y.p.busy = View.p.busy /\ y.ended /\ y.fde.freed
        /\ y.fde.misused = View.fde.misused
    BY <1>1, <1>2, GiveUpGood
  <1>4. Become(y)
    BY <1>2, ViewFacts DEF UserFree, Doomed, GivenUp, Broken
  <1>5. Visible(View, y)
    BY <1>3 DEF Visible, Broke
  <1>6. Good(View)' /\ Signalled(View)' /\ Visible(View, View')
    BY <1>3, <1>4, <1>5, Stepped
  <1>7. fde'.freed
    BY <1>3, <1>4 DEF Become
  <1>8. Reporting'
    BY <1>7 DEF UserFree, KeepRound, Reporting
  <1>9. env' \in Scenarios
    BY DEF IInv
  <1> QED BY <1>6, <1>8, <1>9 DEF IInv

LEMMA SocketBecomes ==
    ASSUME IInv, NEW s \in Sockets, sock' = s,
           UNCHANGED <<pc, fde, timers, round, user, delivered, ended>>,
           NEW y, y = [View EXCEPT !.sock = s]
    PROVE  Become(y)
  <1>1. View \in Views
    BY Invariants
  <1>2. /\ y.p = View.p /\ y.fde = View.fde /\ y.timers = View.timers /\ y.sock = s
        /\ y.user = View.user /\ y.delivered = View.delivered /\ y.ended = View.ended
    BY <1>1, SocketFacts
  <1> QED BY <1>2, ViewFacts DEF Become

LEMMA PeerSendStep ==
    ASSUME IInv, PeerSend, env' = env
    PROVE  IInv' /\ Visible(View, View')
  <1>1. Good(View) /\ Signalled(View) /\ ~View.sock.reset /\ View.sock.next[1] <= Len(Sizes)
    BY Invariants DEF PeerSend
  <1>2. PICK s : s = Arrived(View.sock)
    OBVIOUS
  <1>3. PICK y : y = [View EXCEPT !.sock = s]
    OBVIOUS
  <1>4. /\ Good(y) /\ Signalled(y) /\ y.delivered = View.delivered /\ y.p = View.p
        /\ y.ended = View.ended /\ y.fde = View.fde /\ y.sock = s
        /\ s.reset = View.sock.reset
        /\ s.next[1] = View.sock.next[1] \/ s.next[1] = View.sock.next[1] + 1
        /\ s.in # <<>>
    BY <1>1, <1>2, <1>3, ArrivalGood
  <1>5. s \in Sockets
    BY <1>4, Parts1 DEF Good
  <1>6. sock' = s
    BY <1>2, ViewFacts DEF PeerSend, Arrived
  <1>7. Become(y)
    BY <1>3, <1>5, <1>6, SocketBecomes DEF PeerSend
  <1>8. Visible(View, y)
    BY <1>4 DEF Visible, Came
  <1>9. Good(View)' /\ Signalled(View)' /\ Visible(View, View')
    BY <1>4, <1>7, <1>8, Stepped
  <1>10. Reporting'
    BY <1>4, <1>6, Invariants DEF PeerSend, Reporting
  <1>11. env' \in Scenarios
    BY DEF IInv
  <1> QED BY <1>9, <1>10, <1>11 DEF IInv

LEMMA PeerCloseStep ==
    ASSUME IInv, PeerClose, env' = env
    PROVE  IInv' /\ Visible(View, View')
  <1>1. Good(View) /\ Signalled(View) /\ View.sock \in Sockets
    BY Invariants, Parts1
  <1>2. PICK s : s = Closed(View.sock)
    OBVIOUS
  <1>3. PICK y : y = [View EXCEPT !.sock = s]
    OBVIOUS
  <1>4. Good(y) /\ Signalled(y) /\ Quiet(View, y)
    BY <1>1, <1>2, <1>3, CloseGood
  <1>5. s \in Sockets
    BY <1>1, <1>2, ClosedFacts
  <1>6. sock' = s
    BY <1>2, ViewFacts DEF PeerClose, Closed
  <1>7. Become(y)
    BY <1>3, <1>5, <1>6, SocketBecomes DEF PeerClose
  <1>8. Visible(View, y)
    BY <1>4 DEF Visible
  <1>9. Good(View)' /\ Signalled(View)' /\ Visible(View, View')
    BY <1>4, <1>7, <1>8, Stepped
  <1>10. sock'.closed
    <2>1. sock \in Sockets
      BY <1>1, ViewFacts
    <2> QED BY <2>1 DEF PeerClose, Sockets
  <1>11. Reporting'
    BY <1>10, Invariants DEF PeerClose, Reporting
  <1>12. env' \in Scenarios
    BY DEF IInv
  <1> QED BY <1>9, <1>11, <1>12 DEF IInv

LEMMA ResetStep ==
    ASSUME IInv, ConnectionReset, env' = env
    PROVE  IInv' /\ Visible(View, View')
  <1>1. Good(View) /\ Signalled(View) /\ View.sock \in Sockets
    BY Invariants, Parts1
  <1>2. PICK s : s = Emptied(View.sock)
    OBVIOUS
  <1>3. PICK y : y = [View EXCEPT !.sock = s]
    OBVIOUS
  <1>4. /\ Good(y) /\ Signalled(y) /\ y.sock.reset /\ y.sock.next = View.sock.next
        /\ y.delivered = View.delivered /\ y.p = View.p /\ y.ended = View.ended
        /\ y.fde = View.fde
    <2>1. PICK x : x = View
      OBVIOUS
    <2>2. Good(x) /\ Signalled(x)
      BY <1>1, <2>1
    <2>3. s = Emptied(x.sock) /\ y = [x EXCEPT !.sock = s]
      BY <1>2, <1>3, <2>1
    <2>4. Good(y) /\ Signalled(y)
      BY <2>2, <2>3, ResetGood
    <2>5. s \in Sockets /\ s.reset /\ s.next = View.sock.next
      BY <1>1, <1>2, EmptiedFacts
    <2>6. View \in Views
      BY Invariants
    <2>7. /\ y.sock = s /\ y.delivered = View.delivered /\ y.p = View.p /\ y.ended = View.ended
          /\ y.fde = View.fde
      BY <1>3, <2>5, <2>6, SocketFacts
    <2> QED BY <2>4, <2>5, <2>7
  <1>5. s \in Sockets /\ s.reset
    BY <1>1, <1>2, EmptiedFacts
  <1>6. sock' = s
    BY <1>2, ViewFacts DEF ConnectionReset, Emptied
  <1>7. Become(y)
    BY <1>3, <1>5, <1>6, SocketBecomes DEF ConnectionReset
  <1>8. Visible(View, y)
    BY <1>4 DEF Visible, Broke
  <1>9. Good(View)' /\ Signalled(View)' /\ Visible(View, View')
    BY <1>4, <1>7, <1>8, Stepped
  <1>10. Reporting'
    BY <1>5, <1>6, Invariants DEF ConnectionReset, Reporting
  <1>11. env' \in Scenarios
    BY DEF IInv
  <1> QED BY <1>9, <1>10, <1>11 DEF IInv


-----------------------------------------------------------------------------
LEMMA InitInv ==
    ASSUME Init
    PROVE  IInv
  <1>1. /\ View.p = packet_init /\ View.timers = 0 /\ View.delivered = <<>>
        /\ View.ended = FALSE
        /\ View.fde = [read |-> User # "rpc", write |-> FALSE, freed |-> FALSE,
                       misused |-> FALSE]
        /\ View.sock = [in |-> <<>>, next |-> <<1, 1>>, closed |-> FALSE, reset |-> FALSE,
                        out |-> <<1, 0>>, garbled |-> FALSE]
        /\ View.user = [pending_reads |-> 0, more |-> FALSE, sent |-> 0]
    BY ViewFacts DEF Init
  <1>2. /\ View.p.partial = <<>> /\ View.p.packet_size = 0 /\ View.p.sock = TRUE
        /\ View.p.processing = 0 /\ View.p.recv_disable = (User = "rpc")
        /\ View.p.busy = FALSE /\ View.p.destructor_called = FALSE /\ View.p.freed = FALSE
        /\ View.p.send_queue = <<>>
    BY <1>1 DEF packet_init
  <1>3. View \in Views
    <2>1. <<>> \in Seq(Byte) /\ <<>> \in Seq(SendElement) /\ <<>> \in Seq(Seq(Byte))
      OBVIOUS
    <2>2. packet_init \in Contexts
      BY <2>1 DEF packet_init, Contexts
    <2>3. View.fde \in FdEvents /\ View.sock \in Sockets
      BY <1>1, <2>1 DEF FdEvents, Sockets
    <2>4. View.user \in Users
      BY <1>1, SizesAssumption DEF Users
    <2>5. /\ View.p \in Contexts /\ View.timers \in Nat /\ View.ended \in BOOLEAN
          /\ View.delivered \in Seq(Seq(Byte))
      <3>1. /\ View.p = packet_init /\ View.timers = 0 /\ View.delivered = <<>>
            /\ View.ended = FALSE
        BY <1>1
      <3>2. View.p \in Contexts
        BY <2>2, <3>1
      <3>3. View.timers \in Nat /\ View.ended \in BOOLEAN
        <4>1. View.timers \in Nat
          BY <3>1, SMT
        <4>2. View.ended \in BOOLEAN
          BY <3>1, Zenon
        <4> QED BY <4>1, <4>2
      <3>4. View.delivered \in Seq(Seq(Byte))
        BY <2>1, <3>1
      <3> QED BY <3>2, <3>3, <3>4
    <2>6. /\ pc \in Contexts /\ fde \in FdEvents /\ timers \in Nat /\ sock \in Sockets
          /\ user \in Users /\ delivered \in Seq(Seq(Byte)) /\ ended \in BOOLEAN
      BY <2>3, <2>4, <2>5, ViewFacts
    <2> QED BY <2>6 DEF View, Views
  <1>4. Living(View)
    <2>1. /\ View.fde.freed = FALSE /\ View.fde.misused = FALSE /\ View.sock.reset = FALSE
          /\ View.ended = FALSE
      BY <1>1
    <2>2. ~(0 > 0) /\ 0 <= 1
      OBVIOUS
    <2> QED BY <1>2, <2>1, <2>2 DEF Living
  <1>5. Sized(View)
    <2>1. View.p.busy = FALSE /\ View.p.partial = <<>> /\ View.p.packet_size = 0
      BY <1>2
    <2>2. full_request(View.p.partial).size = 0
      BY <2>1, EmptyRequest
    <2> QED BY <2>1, <2>2 DEF Sized
  <1>6. Metered(View)
    <2>1. View.user.pending_reads = 0 /\ View.timers = 0
      BY <1>1
    <2>2. /\ View.p.partial = <<>> /\ View.p.busy = FALSE /\ View.p.freed = FALSE
          /\ View.p.recv_disable = (User = "rpc")
      BY <1>2
    <2>3. ~full_request(View.p.partial).ok
      BY <2>2, EmptyRequest
    <2>4. 0 >= 0
      OBVIOUS
    <2> QED BY <2>1, <2>2, <2>3, <2>4 DEF Metered
  <1>7. Watching(View)
    <2>1. View.fde.read = (User # "rpc")
      BY <1>1
    <2>2. View.p.recv_disable = (User = "rpc")
      BY <1>2
    <2> QED BY <2>1, <2>2 DEF Watching
  <1>8. Streaming(View)
    <2>1. <<>> \o <<>> = <<>>
      OBVIOUS
    <2>2. View.p.partial = <<>> /\ View.sock.in = <<>>
      BY <1>1, <1>2
    <2>3. Waiting(View) = <<>>
      BY <2>1, <2>2 DEF Waiting
    <2>4. Run(<<>>)
      BY DEF Run
    <2>5. View.sock.next = <<1, 1>> /\ Len(View.delivered) = 0
      BY <1>1
    <2>6. First(View) = <<1, 1>>
      BY <2>5 DEF First
    <2>7. 1 <= Len(Sizes) => 1 <= Sizes[1]
      BY SizesAssumption, HdrAssumption
    <2>8. Len(Sizes) \in Nat
      BY SizesAssumption
    <2> QED BY <2>3, <2>4, <2>5, <2>6, <2>7, <2>8 DEF Streaming
  <1>9. Queueing(View)
    <2>1. /\ View.sock.out = <<1, 0>> /\ View.sock.garbled = FALSE /\ View.user.sent = 0
          /\ View.p.send_queue = <<>>
      BY <1>1, <1>2
    <2> QED BY <2>1 DEF Queueing
  <1>10. Signalled(View)
    BY <1>2, EmptyRequest DEF Signalled
  <1>11. Reporting /\ env \in Scenarios
    BY DEF Init, Reporting
  <1> QED BY <1>3, <1>4, <1>5, <1>6, <1>7, <1>8, <1>9, <1>10, <1>11 DEF Good, IInv

LEMMA NextInv ==
    ASSUME IInv, [Next]_vars
    PROVE  IInv' /\ Visible(View, View')
  <1>1. CASE Next
    <2>1. env' = env
      BY <1>1 DEF Next
    <2>2. CASE poll
      BY <2>1, <2>2, PollStep
    <2>3. CASE event_handler
      BY <2>1, <2>3, HandlerStep
    <2>4. CASE packet_next_event
      BY <2>1, <2>4, NextEventStep
    <2>5. CASE callback_returns
      BY <2>1, <2>5, ReturnStep
    <2>6. CASE UserSend
      BY <2>1, <2>6, SendStep
    <2>7. CASE UserReadMore
      BY <2>1, <2>7, ReadMoreStep
    <2>8. CASE UserFree
      BY <2>1, <2>8, FreeStep
    <2>9. CASE PeerSend
      BY <2>1, <2>9, PeerSendStep
    <2>10. CASE PeerClose
      BY <2>1, <2>10, PeerCloseStep
    <2>11. CASE ConnectionReset
      BY <2>1, <2>11, ResetStep
    <2> QED BY <1>1, <2>2, <2>3, <2>4, <2>5, <2>6, <2>7, <2>8, <2>9, <2>10, <2>11
            DEF Next, EventLoop, UserStep, Peer
  <1>2. CASE UNCHANGED vars
    <2>1. View' = View /\ env' = env /\ UNCHANGED <<fde, round, sock>>
      BY <1>2 DEF vars, View
    <2>2. Good(View)' /\ Signalled(View)'
      BY <2>1, Invariants, Carried
    <2>3. Reporting'
      BY <2>1, Invariants DEF Reporting
    <2>4. Quiet(View, View')
      BY <2>1 DEF Quiet
    <2> QED BY <2>1, <2>2, <2>3, <2>4 DEF IInv, Visible
  <1> QED BY <1>1, <1>2

LEMMA InvTypeOK ==
    ASSUME IInv
    PROVE  TypeOK
  <1>1. /\ pc \in Contexts /\ fde \in FdEvents /\ timers \in Nat /\ sock \in Sockets
        /\ user \in Users /\ delivered \in Seq(Seq(Byte)) /\ ended \in BOOLEAN
    <2>1. View \in Views
      BY Invariants
    <2> QED BY <2>1, Parts1, ViewFacts
  <1>2. env \in Scenarios /\ round \subseteq {"read", "write"}
    BY Invariants DEF Reporting
  <1> QED BY <1>1, <1>2 DEF TypeOK, Contexts, FdEvents, Sockets, Users

LEMMA InvReads ==
    ASSUME IInv
    PROVE  ReadsMatched
  BY Invariants DEF Metered, ReadsMatched, Alive

LEMMA InvAttentive ==
    ASSUME IInv
    PROVE  Attentive
  <1> SUFFICES ASSUME Alive, ~pc.busy, ~pc.recv_disable, ~ended
               PROVE  fde.read /\ (full_request(pc.partial).ok => timers > 0)
    BY DEF Attentive
  <1>1. /\ ~View.p.busy /\ ~View.p.recv_disable /\ ~View.ended /\ Living(View)
        /\ Watching(View) /\ Signalled(View) /\ View.p.processing \in Nat
    BY Invariants, Parts1 DEF Good, Contexts
  <1>2. ~(View.p.processing > 0)
    BY <1>1 DEF Living
  <1>3. View.fde.read
    BY <1>1, <1>2 DEF Watching
  <1>4. full_request(View.p.partial).ok => View.timers > 0
    BY <1>1 DEF Signalled
  <1> QED BY <1>3, <1>4, ViewFacts

LEMMA InvQueue ==
    ASSUME IInv
    PROVE  SendQueueServed
  <1>1. Queueing(View) /\ View \in Views
    BY Invariants DEF Good
  <1>2. ~sock.garbled /\ (Alive /\ ~ended /\ pc.send_queue # <<>> => fde.write)
    BY <1>1, ViewFacts DEF Queueing, Alive
  <1>3. ASSUME Alive
        PROVE  sock.out = IF pc.send_queue = <<>> THEN <<user.sent + 1, 0>>
                          ELSE Start(Head(pc.send_queue))
    <2>1. /\ pc.send_queue \in Seq(SendElement) /\ sock.out \in Nat \X Nat
          /\ user.sent \in Nat
      <3>1. pc \in Contexts /\ sock \in Sockets /\ user \in Users
        BY <1>1, Parts1, ViewFacts
      <3>2. user.sent \in Nat
        BY <3>1, SizesAssumption DEF Users
      <3> QED BY <3>1, <3>2 DEF Contexts, Sockets
    <2>2. PICK queue : queue = pc.send_queue
      OBVIOUS
    <2>3. PICK out : out = sock.out
      OBVIOUS
    <2>4. /\ \A j \in 1 .. Len(queue) :
                /\ queue[j].packet = out[1] + j - 1
                /\ queue[j].nsent = IF j = 1 THEN out[2] ELSE 0
          /\ out[1] + Len(queue) = user.sent + 1
          /\ queue = <<>> => out[2] = 0
      BY <1>1, <1>3, <2>2, <2>3, ViewFacts DEF Queueing, Alive
    <2>5. out = <<out[1], out[2]>> /\ out[1] \in Nat /\ queue \in Seq(SendElement)
      BY <2>1, <2>2, <2>3
    <2>6. CASE queue = <<>>
      <3>1. out[1] = user.sent + 1 /\ out[2] = 0
        BY <2>1, <2>4, <2>5, <2>6
      <3> QED BY <2>2, <2>3, <2>5, <2>6, <3>1
    <2>7. CASE queue # <<>>
      <3>1. 1 \in 1 .. Len(queue) /\ Head(queue) = queue[1]
        BY <2>5, <2>7, EmptySeq
      <3>2. queue[1].packet = out[1] + 1 - 1 /\ queue[1].nsent = out[2]
        BY <2>4, <3>1
      <3>3. out[1] + 1 - 1 = out[1]
        BY <2>5
      <3>4. Start(Head(queue)) = <<out[1], out[2]>>
        BY <3>1, <3>2, <3>3 DEF Start
      <3> QED BY <2>2, <2>3, <2>5, <2>7, <3>4
    <2> QED BY <2>6, <2>7
  <1> QED BY <1>2, <1>3 DEF SendQueueServed

\* IInv: the buffer, the socket and what the callback got are one stream of bytes,
\* with the flags, the timer and the counters that keep it moving.
THEOREM Invariance == Spec => []IInv
  <1>1. Init => IInv
    BY InitInv
  <1>2. IInv /\ [Next]_vars => IInv'
    BY NextInv
  <1> QED BY <1>1, <1>2, PTL DEF Spec

\* TypeOK: among the types, packet_size and processing never go below 0 and the
\* buffer never holds anything but bytes of the stream.
THEOREM TypeCorrect == Spec => []TypeOK
  <1>1. IInv => TypeOK
    BY InvTypeOK
  <1> QED BY <1>1, Invariance, PTL

\* FreedFdEventUntouched: whoever runs the event loop, whenever the connection
\* breaks or the user gives up, an fd_event that the error handler has freed is
\* used at one place only, by packet_recv after a callback during which it was
\* called again.
THEOREM FdEventUntouched == Spec => FreedFdEventUntouched
  <1>1. ASSUME IInv, [Next]_vars
        PROVE  [fde'.misused =>
                   fde.misused \/ (Nested /\ pc.busy /\ pc.processing > 1 /\ ~pc'.busy)]_vars
    <2>1. Visible(View, View')
      BY <1>1, NextInv
    <2>2. View.p = pc /\ View.fde = fde /\ View'.p = pc' /\ View'.fde = fde'
      BY DEF View
    <2>3. CASE Returned(View, View')
      BY <2>2, <2>3 DEF Returned
    <2>4. CASE ~Returned(View, View')
      BY <2>1, <2>2, <2>4 DEF Visible, Quiet, Handed, Over, Broke, Came
    <2> QED BY <2>3, <2>4
  <1> QED BY <1>1, Invariance, PTL DEF Spec, FreedFdEventUntouched

\* ReadsMatched: a DCERPC connection receives exactly while a read is pending,
\* and its unsigned counter of them does not wrap.
THEOREM ReadsCounted == Spec => []ReadsMatched
  <1>1. IInv => ReadsMatched
    BY InvReads
  <1> QED BY <1>1, Invariance, PTL

\* Attentive: while receiving is on, the socket is watched and a whole packet
\* in the buffer has its packet_next_event.
THEOREM AttentiveAlways == Spec => []Attentive
  <1>1. IInv => Attentive
    BY InvAttentive
  <1> QED BY <1>1, Invariance, PTL

\* SendQueueServed: what packet_queue_run sends in pieces is the sequence of
\* packets given to packet_send, and the rest of it waits for the socket.
THEOREM SendQueueKept == Spec => []SendQueueServed
  <1>1. IInv => SendQueueServed
    BY InvQueue
  <1> QED BY <1>1, Invariance, PTL


-----------------------------------------------------------------------------
(***************************************************************************)
(* The stream of packets: the first n of them, and what was handed out.    *)
(***************************************************************************)
Upto(n) == [i \in 1 .. n |-> i]
Packets == [i \in DOMAIN delivered |-> PacketOf(delivered[i])]

LEMMA UptoFacts ==
    ASSUME NEW n \in Nat
    PROVE  /\ Upto(n) \in Seq(Nat) /\ Len(Upto(n)) = n /\ DOMAIN Upto(n) = 1 .. n
           /\ \A i \in 1 .. n : Upto(n)[i] = i
  BY DEF Upto

LEMMA UptoGrows ==
    ASSUME NEW n \in Nat
    PROVE  Upto(n + 1) = Append(Upto(n), n + 1) /\ IsStrictPrefix(Upto(n), Upto(n + 1))
  <1>1. PICK s : s = Upto(n)
    OBVIOUS
  <1>2. PICK t : t = Upto(n + 1)
    OBVIOUS
  <1>3. s \in Seq(Nat) /\ Len(s) = n /\ \A i \in 1 .. n : s[i] = i
    BY <1>1, UptoFacts
  <1>4. t \in Seq(Nat) /\ Len(t) = n + 1 /\ \A i \in 1 .. n + 1 : t[i] = i
    BY <1>2, UptoFacts
  <1>5. PICK a : a = Append(s, n + 1)
    OBVIOUS
  <1>6. /\ a \in Seq(Nat) /\ Len(a) = n + 1 /\ a[n + 1] = n + 1
        /\ \A i \in 1 .. n : a[i] = s[i]
    BY <1>3, <1>5, AppendProperties
  <1>7. ASSUME NEW i \in 1 .. n + 1 PROVE t[i] = a[i]
    BY <1>3, <1>4, <1>6
  <1>8. t = a
    BY <1>4, <1>6, <1>7, SeqEqual
  <1>9. SubSeq(s, 1, n) = SubSeq(t, 1, n)
    <2>1. PICK u : u = SubSeq(s, 1, n)
      OBVIOUS
    <2>2. PICK v : v = SubSeq(t, 1, n)
      OBVIOUS
    <2>3. u \in Seq(Nat) /\ Len(u) = n /\ \A i \in 1 .. n : u[i] = s[i]
      BY <1>3, <2>1, PrefixFacts
    <2>4. v \in Seq(Nat) /\ Len(v) = n /\ \A i \in 1 .. n : v[i] = t[i]
      BY <1>4, <2>2, PrefixFacts
    <2>5. ASSUME NEW i \in 1 .. n PROVE u[i] = v[i]
      BY <1>3, <1>4, <2>3, <2>4
    <2>6. u = v
      BY <2>3, <2>4, <2>5, SeqEqual
    <2> QED BY <2>1, <2>2, <2>6
  <1>10. s # t
    BY <1>3, <1>4
  <1>11. IsStrictPrefix(s, t)
    BY <1>3, <1>4, <1>9, <1>10 DEF IsStrictPrefix, IsPrefix
  <1> QED BY <1>1, <1>2, <1>5, <1>8, <1>11

LEMMA PacketOfBytes ==
    ASSUME NEW d \in DOMAIN Sizes
    PROVE  PacketOf(Bytes(d)) = d
  <1>1. ASSUME NEW i \in DOMAIN Sizes, Bytes(d) = Bytes(i) PROVE i = d
    <2>1. Sizes[i] \in Nat /\ Sizes[d] \in Nat /\ Sizes[d] >= 1 /\ Sizes[i] >= 1
      BY SizesAssumption, HdrAssumption
    <2>2. Bytes(d)[1] = <<d, 1>> /\ Bytes(i)[1] = <<i, 1>>
      BY <2>1 DEF Bytes
    <2> QED BY <1>1, <2>2
  <1>2. PICK blob : blob = Bytes(d)
    OBVIOUS
  <1>3. \A i \in DOMAIN Sizes : blob = Bytes(i) => i = d
    BY <1>1, <1>2
  <1> QED BY <1>2, <1>3 DEF PacketOf

LEMMA Mapped ==
    ASSUME IInv
    PROVE  /\ sock.next[1] \in Nat /\ sock.next[1] >= 1 /\ sock.next[1] - 1 \in Nat
           /\ sock.next[1] <= Len(Sizes) + 1 /\ Len(delivered) \in Nat
           /\ Len(delivered) < sock.next[1]
           /\ SentPackets = Upto(sock.next[1] - 1)
           /\ Packets = Upto(Len(delivered))
  <1>1. Streaming(View) /\ sock \in Sockets /\ delivered \in Seq(Seq(Byte))
    BY Invariants, Parts1 DEF Good
  <1>2. /\ Len(delivered) < sock.next[1] /\ sock.next[1] <= Len(Sizes) + 1
        /\ \A d \in 1 .. Len(delivered) : delivered[d] = Bytes(d)
    BY <1>1, ViewFacts DEF Streaming
  <1>3. /\ sock.next[1] \in Nat /\ Len(delivered) \in Nat
        /\ DOMAIN delivered = 1 .. Len(delivered)
    BY <1>1 DEF Sockets
  <1>4. Len(Sizes) \in Nat /\ DOMAIN Sizes = 1 .. Len(Sizes)
    BY SizesAssumption
  <1>5. ASSUME NEW d \in 1 .. Len(delivered) PROVE PacketOf(delivered[d]) = d
    <2>1. d \in DOMAIN Sizes
      <3>1. PICK n \in Nat : n = sock.next[1]
        BY <1>3
      <3>2. Len(delivered) < n /\ n <= Len(Sizes) + 1
        BY <1>2, <3>1
      <3> QED BY <1>3, <1>4, <3>2
    <2>2. delivered[d] = Bytes(d)
      BY <1>2
    <2> QED BY <2>1, <2>2, PacketOfBytes
  <1>6. Packets = Upto(Len(delivered))
    BY <1>3, <1>5 DEF Packets, Upto
  <1>7. SentPackets = Upto(sock.next[1] - 1)
    BY DEF SentPackets, Upto
  <1>8. sock.next[1] >= 1 /\ sock.next[1] - 1 \in Nat
    BY <1>2, <1>3
  <1> QED BY <1>2, <1>3, <1>6, <1>7, <1>8

LEMMA StreamStep ==
    ASSUME IInv, IInv', Visible(View, View')
    PROVE  [Channel!Next]_Channel!vars
  <1>1. /\ View.p = pc /\ View.sock = sock /\ View.delivered = delivered /\ View.ended = ended
        /\ View'.p = pc' /\ View'.sock = sock' /\ View'.delivered = delivered'
        /\ View'.ended = ended'
    BY DEF View
  <1>2. PICK m \in Nat : m = sock.next[1] - 1
    BY Mapped
  <1>3. PICK n \in Nat : n = Len(delivered)
    BY Mapped
  <1>4. SentPackets = Upto(m) /\ Packets = Upto(n) /\ n <= m
    BY <1>2, <1>3, Mapped
  <1>5. ended \in BOOLEAN /\ ended' \in BOOLEAN /\ sock.reset \in BOOLEAN
        /\ sock'.reset \in BOOLEAN /\ pc.busy \in BOOLEAN /\ pc'.busy \in BOOLEAN
    <2>1. TypeOK /\ TypeOK'
      BY InvTypeOK, PTL
    <2> QED BY <2>1 DEF TypeOK
  <1>6. PICK k \in Nat : k = sock'.next[1] - 1
    <2>1. (sock.next[1] - 1 \in Nat)'
      BY Mapped, PTL
    <2> QED BY <2>1
  <1>7. PICK l \in Nat : l = Len(delivered')
    <2>1. (Len(delivered) \in Nat)'
      BY Mapped, PTL
    <2> QED BY <2>1
  <1>8. SentPackets' = Upto(k) /\ Packets' = Upto(l) /\ k <= Len(Sizes)
    <2>1. (/\ sock.next[1] \in Nat /\ sock.next[1] <= Len(Sizes) + 1
           /\ SentPackets = Upto(sock.next[1] - 1) /\ Packets = Upto(Len(delivered)))'
      BY Mapped, PTL
    <2>2. Len(Sizes) \in Nat
      BY SizesAssumption
    <2> QED BY <1>6, <1>7, <2>1, <2>2
  <1> DEFINE same == /\ SentPackets' = SentPackets /\ Packets' = Packets
                     /\ pc'.busy = pc.busy /\ ended' = ended /\ sock'.reset = sock.reset
  <1>9. same => UNCHANGED Channel!vars
    BY DEF Channel!vars, Packets
  <1>10. ASSUME sock'.next[1] = sock.next[1] PROVE SentPackets' = SentPackets
    BY <1>2, <1>4, <1>6, <1>8, <1>10
  <1>11. ASSUME delivered' = delivered PROVE Packets' = Packets
    BY <1>3, <1>4, <1>7, <1>8, <1>11
  <1>12. CASE Quiet(View, View')
    BY <1>1, <1>9, <1>10, <1>11, <1>12 DEF Quiet
  <1>13. CASE Handed(View, View')
    <2>1. /\ ~pc.busy /\ pc'.busy /\ ended' = ended /\ sock'.next = sock.next
          /\ sock'.reset = sock.reset /\ Len(delivered) + 1 < sock.next[1]
          /\ delivered' = Append(delivered, Bytes(Len(delivered) + 1))
      BY <1>1, <1>13 DEF Handed
    <2>2. n < m
      <3>1. PICK b \in Nat : b = sock.next[1]
        BY Mapped
      <3>2. n + 1 < b /\ m = b - 1
        BY <1>2, <1>3, <2>1, <3>1
      <3> QED BY <3>2
    <2>3. l = n + 1
      <3>1. delivered \in Seq(Seq(Byte)) /\ delivered' \in Seq(Seq(Byte))
        <4>1. TypeOK /\ TypeOK'
          BY InvTypeOK, PTL
        <4> QED BY <4>1 DEF TypeOK
      <3> QED BY <1>3, <1>7, <2>1, <3>1, AppendProperties
    <2>4. SentPackets' = SentPackets
      BY <1>10, <2>1
    <2>5. Len(SentPackets) = m /\ Len(Packets) = n /\ SentPackets[n + 1] = n + 1
      BY <1>4, <2>2, UptoFacts
    <2>6. Packets' = Append(Packets, n + 1)
      BY <1>4, <1>8, <2>3, UptoGrows
    <2>7. pc'.busy = TRUE
      BY <1>5, <2>1
    <2>8. Channel!Deliver
      BY <2>1, <2>2, <2>4, <2>5, <2>6, <2>7 DEF Channel!Deliver, Packets
    <2> QED BY <2>8 DEF Channel!Next
  <1>14. CASE Over(View, View')
    <2>1. /\ ~ended /\ ended' /\ delivered' = delivered /\ pc'.busy = pc.busy
          /\ sock'.next = sock.next /\ sock'.reset = sock.reset
          /\ sock.reset \/ Len(delivered) + 1 = sock.next[1]
      BY <1>1, <1>14 DEF Over
    <2>2. SentPackets' = SentPackets /\ Packets' = Packets
      BY <1>10, <1>11, <2>1
    <2>3. sock.reset \/ Packets = SentPackets
      <3>1. CASE Len(delivered) + 1 = sock.next[1]
        <4>1. n = m
          BY <1>2, <1>3, <3>1
        <4> QED BY <1>4, <4>1
      <3> QED BY <2>1, <3>1
    <2>4. Channel!EndOfStream
      BY <2>1, <2>2, <2>3 DEF Channel!EndOfStream, Packets
    <2> QED BY <2>4 DEF Channel!Next
  <1>15. CASE Returned(View, View')
    <2>1. /\ pc.busy /\ ~pc'.busy /\ ended' = ended /\ delivered' = delivered
          /\ sock'.next = sock.next /\ sock'.reset = sock.reset
      BY <1>1, <1>15 DEF Returned
    <2>2. SentPackets' = SentPackets /\ Packets' = Packets
      BY <1>10, <1>11, <2>1
    <2>3. pc'.busy = FALSE
      BY <1>5, <2>1
    <2>4. Channel!Handled
      BY <2>1, <2>2, <2>3 DEF Channel!Handled, Packets
    <2> QED BY <2>4 DEF Channel!Next
  <1>16. CASE Broke(View, View')
    <2>1. /\ sock'.reset /\ (ended' = ended \/ ended') /\ delivered' = delivered
          /\ pc'.busy = pc.busy /\ sock'.next = sock.next
      BY <1>1, <1>16 DEF Broke
    <2>2. SentPackets' = SentPackets /\ Packets' = Packets
      BY <1>10, <1>11, <2>1
    <2>3. sock'.reset = TRUE
      BY <1>5, <2>1
    <2>4. CASE ~sock.reset
      <3>1. (~ended)' \in {~ended, FALSE}
        <4>1. CASE ended' = ended
          BY <4>1
        <4>2. CASE ended'
          <5>1. (~ended)' = FALSE
            BY <1>5, <4>2
          <5> QED BY <5>1
        <4> QED BY <2>1, <4>1, <4>2
      <3>2. Channel!Break
        BY <2>1, <2>2, <2>3, <2>4, <3>1 DEF Channel!Break, Packets
      <3> QED BY <3>2 DEF Channel!Next
    <2>5. CASE sock.reset /\ ended' = ended
      <3>1. sock'.reset = sock.reset
        BY <1>5, <2>3, <2>5
      <3> QED BY <1>9, <2>1, <2>2, <2>5, <3>1
    <2>6. CASE sock.reset /\ ended' # ended
      <3>1. sock'.reset = sock.reset /\ ~ended /\ ended'
        BY <1>5, <2>1, <2>3, <2>6
      <3>2. Channel!EndOfStream
        BY <2>1, <2>2, <2>6, <3>1 DEF Channel!EndOfStream, Packets
      <3> QED BY <3>2 DEF Channel!Next
    <2> QED BY <2>4, <2>5, <2>6
  <1>17. CASE Came(View, View')
    <2>1. /\ delivered' = delivered /\ pc'.busy = pc.busy /\ ended' = ended
          /\ sock'.reset = sock.reset
          /\ sock'.next[1] = sock.next[1] \/ sock'.next[1] = sock.next[1] + 1
      BY <1>1, <1>17 DEF Came
    <2>2. Packets' = Packets
      BY <1>11, <2>1
    <2>3. CASE sock'.next[1] = sock.next[1]
      BY <1>9, <1>10, <2>1, <2>2, <2>3
    <2>4. CASE sock'.next[1] = sock.next[1] + 1
      <3>1. k = m + 1
        <4>1. PICK b \in Nat : b = sock.next[1]
          BY Mapped
        <4>2. k = (b + 1) - 1 /\ m = b - 1
          BY <1>2, <1>6, <2>4, <4>1
        <4> QED BY <4>1, <4>2
      <3>2. IsStrictPrefix(SentPackets, SentPackets')
        BY <1>4, <1>8, <3>1, UptoGrows
      <3>3. SentPackets' \in Seq(DOMAIN Sizes)
        <4>1. DOMAIN Sizes = 1 .. Len(Sizes) /\ Len(Sizes) \in Nat
          BY SizesAssumption
        <4>2. Upto(k) \in [1 .. k -> DOMAIN Sizes]
          BY <1>8, <4>1 DEF Upto
        <4> QED BY <1>8, <4>2
      <3>4. Channel!IsStrictPrefix(SentPackets, SentPackets')
        BY <3>2 DEF IsStrictPrefix, IsPrefix, Channel!IsStrictPrefix, Channel!IsPrefix
      <3>5. Channel!Send
        BY <2>1, <2>2, <3>3, <3>4 DEF Channel!Send, Packets
      <3> QED BY <3>5 DEF Channel!Next
    <2> QED BY <2>1, <2>3, <2>4
  <1> QED BY <1>12, <1>13, <1>14, <1>15, <1>16, <1>17 DEF Visible

\* For packets of any sizes, cut at any bytes, and in every order of the events:
\* the callback gets the packets whole, in order, once and one at a time, and an
\* orderly end is reported only after the last of them.
THEOREM ImplementsMessageStream == Spec => Channel!Spec
  <1>1. Init => Channel!Init
    <2> SUFFICES ASSUME Init PROVE Channel!Init
      OBVIOUS
    <2>1. IInv
      BY InitInv
    <2>2. sock.next[1] = 1 /\ delivered = <<>> /\ pc.busy = FALSE /\ ended = FALSE
          /\ sock.reset = FALSE
      BY DEF Init, packet_init
    <2>3. sock.next[1] - 1 = 0 /\ Len(delivered) = 0
      BY <2>2
    <2>4. SentPackets = Upto(0) /\ Packets = Upto(0)
      BY <2>1, <2>3, Mapped
    <2>5. Upto(0) = <<>>
      BY DEF Upto
    <2> QED BY <2>2, <2>4, <2>5 DEF Channel!Init, Packets
  <1>2. IInv /\ [Next]_vars => [Channel!Next]_Channel!vars
    BY NextInv, StreamStep
  <1> QED BY <1>1, <1>2, Invariance, PTL DEF Spec, Channel!Spec
=============================================================================
