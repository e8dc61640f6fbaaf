-------------------------- MODULE AsyncPipeProofs --------------------------
(***************************************************************************)
(* Proofs about AsyncPipe, for every set of handles and any number of      *)
(* requests: type correctness, NoDanglingRequest, ExitOnDeadTransport,     *)
(* NoNullDeref and OneCurrentRead.                                         *)
(*                                                                         *)
(* A handler is a composition of operations on views, so the inductive     *)
(* invariant is stated for a view: Good(x).  One lemma per operation of    *)
(* async.c says what it sends and that it keeps the types; one lemma per   *)
(* kind of reply says that its handler leads from a good view to a good    *)
(* view; the actions of the program then follow.                           *)
(*                                                                         *)
(* The second part is about what only the order of requests and replies    *)
(* guarantees.  Its invariant, JInv, says where an outstanding request is  *)
(* (on the wire, parked at the server or answered), that opens and closes  *)
(* are never overtaken, and, for each phase of the control pipe and of an  *)
(* I/O pipe, which requests may be outstanding and which can still         *)
(* succeed.                                                                *)
(***************************************************************************)
EXTENDS AsyncPipe, FiniteSetTheorems, TLAPS

Views == [c : Contexts, t : Transports, u : Users]

\* Mids of outstanding requests have been handed out.
Fresh(x) == \A r \in x.t.pending_recv : r.mid < x.t.next_mid

\* rreq is NULL or names an outstanding open or read, or a request that was
\* created on the dead transport.
RreqOK(x) ==
    \/ x.c.rreq = NULL
    \/ x.c.rreq \in x.t.orphans
    \/ \E r \in x.t.pending_recv : r.mid = x.c.rreq /\ r.kind \in {"open", "read"}

\* What keeps the user of the control pipe going: in every state some request
\* is outstanding whose failure ends the program.  While the pipe is being
\* closed that request is newer than every outstanding close, so
\* smbcli_transport_dead, which starts with the newest, comes to it first.
Expecting(x) ==
    /\ x.u.state = "OPENING" => \E r \in x.t.pending_recv : r.kind = "open"
    /\ x.u.state = "OPEN" =>
          \E r \in x.t.pending_recv : r.kind \in {"open", "read"}
    /\ x.u.state = "CLOSING" =>
          \E r \in x.t.pending_recv :
             /\ r.kind \in {"open", "read"}
             /\ \A q \in x.t.pending_recv : q.kind = "close" => q.mid < r.mid

Good(x) ==
    /\ x \in Views
    /\ Fresh(x)
    /\ x.u.fault => ~x.t.dead
    /\ ~x.u.fault => RreqOK(x)
    /\ User = "ctrl" /\ ~x.u.fault /\ ~x.u.exited => Expecting(x)

ServerOK ==
    /\ srv \in [open : SUBSET Fnum, broken : SUBSET Fnum, parked : SUBSET Requests]
    /\ replies \in Seq([mid : Nat, status : Statuses, fnum : Nat])

\* The inductive invariant.
IInv == Good(View) /\ ServerOK

-----------------------------------------------------------------------------
\* y is x after one more request of this kind was sent (or, on a dead
\* transport, created and abandoned).
Sent(x, y, kind) ==
    /\ y \in Views
    /\ y.u = x.u
    /\ y.t.dead = x.t.dead
    /\ y.t.next_mid = x.t.next_mid + 1
    /\ x.t.dead => /\ y.t.pending_recv = x.t.pending_recv
                   /\ y.t.orphans = x.t.orphans \cup {x.t.next_mid}
    /\ ~x.t.dead => /\ \E r \in Requests :
                          /\ r.mid = x.t.next_mid /\ r.kind = kind
                          /\ y.t.pending_recv = x.t.pending_recv \cup {r}
                    /\ y.t.orphans = x.t.orphans

\* Views stay views when one component is replaced.
LEMMA ViewUpdate ==
    ASSUME NEW x \in Views, NEW c \in Contexts, NEW t \in Transports, NEW u \in Users
    PROVE  /\ [x EXCEPT !.c = c] \in Views
           /\ [x EXCEPT !.t = t] \in Views
           /\ [x EXCEPT !.u = u] \in Views
           /\ [x EXCEPT !.c = c, !.t = t] \in Views
           /\ x.c \in Contexts /\ x.t \in Transports /\ x.u \in Users
  BY DEF Views

\* Updates of the transport that keep its type.
LEMMA TransportUpdate ==
    ASSUME NEW t \in Transports, NEW req \in Requests, NEW b \in BOOLEAN,
           NEW S \in SUBSET t.pending_recv, NEW O \in SUBSET t.orphans
    PROVE  /\ [t EXCEPT !.next_mid = @ + 1, !.orphans = @ \cup {req.mid}] \in Transports
           /\ [t EXCEPT !.next_mid = @ + 1, !.pending_recv = @ \cup {req},
                        !.wire = Append(@, req)] \in Transports
           /\ [t EXCEPT !.pending_recv = S] \in Transports
           /\ [t EXCEPT !.pending_recv = S, !.orphans = O] \in Transports
           /\ [t EXCEPT !.request_timeout = b] \in Transports
           /\ [t EXCEPT !.dead = TRUE, !.wire = <<>>] \in Transports
  <1>1. t.next_mid + 1 \in Nat
    BY DEF Transports
  <1>2. t.orphans \cup {req.mid} \in SUBSET Nat
    BY DEF Transports, Requests
  <1>3. t.pending_recv \cup {req} \in SUBSET Requests
    BY DEF Transports
  <1>4. Append(t.wire, req) \in Seq(Requests) /\ <<>> \in Seq(Requests)
    BY DEF Transports
  <1>5. S \in SUBSET Requests /\ O \in SUBSET Nat
    BY DEF Transports
  <1>6. [t EXCEPT !.next_mid = @ + 1, !.orphans = @ \cup {req.mid}] \in Transports
    BY <1>1, <1>2 DEF Transports
  <1>7. [t EXCEPT !.next_mid = @ + 1, !.pending_recv = @ \cup {req},
                  !.wire = Append(@, req)] \in Transports
    BY <1>1, <1>3, <1>4 DEF Transports
  <1>8. /\ [t EXCEPT !.pending_recv = S] \in Transports
        /\ [t EXCEPT !.pending_recv = S, !.orphans = O] \in Transports
    BY <1>5 DEF Transports
  <1>9. /\ [t EXCEPT !.request_timeout = b] \in Transports
        /\ [t EXCEPT !.dead = TRUE, !.wire = <<>>] \in Transports
    BY <1>4 DEF Transports
  <1> QED BY <1>6, <1>7, <1>8, <1>9

\* The arguments of requests without data or without a handle.
LEMMA NoData ==
    <<>> \in Seq(Lines) /\ NULL \in Int /\ Kinds = {"open", "read", "write", "close"}
  BY DEF NULL, Kinds

\* smbcli_transport_send takes the next mid and leaves the context alone.
LEMMA SendSent ==
    ASSUME NEW x \in Views, NEW kind \in Kinds, NEW fnum \in Int,
           NEW data \in Seq(Lines)
    PROVE  /\ Sent(x, smbcli_transport_send(x, kind, fnum, data), kind)
           /\ smbcli_transport_send(x, kind, fnum, data).c = x.c
  <1> DEFINE req == [mid |-> x.t.next_mid, kind |-> kind, pipe |-> x.c.name,
                     fnum |-> fnum, data |-> data, timed |-> x.t.request_timeout]
             y == smbcli_transport_send(x, kind, fnum, data)
             t == IF x.t.dead
                  THEN [x.t EXCEPT !.next_mid = @ + 1, !.orphans = @ \cup {req.mid}]
                  ELSE [x.t EXCEPT !.next_mid = @ + 1,
                                   !.pending_recv = @ \cup {req},
                                   !.wire = Append(@, req)]
  <1>1. req \in Requests /\ req.mid = x.t.next_mid /\ req.kind = kind
    BY DEF Views, Contexts, Transports, Requests
  <1>2. y = [x EXCEPT !.t = t]
    BY DEF smbcli_transport_send
  <1> HIDE DEF req
  <1>3. x.t \in Transports
    BY DEF Views
  <1>4. t \in Transports
    BY <1>1, <1>3, TransportUpdate
  <1>5. /\ t.dead = x.t.dead
        /\ t.next_mid = x.t.next_mid + 1
        /\ x.t.dead => /\ t.pending_recv = x.t.pending_recv
                       /\ t.orphans = x.t.orphans \cup {x.t.next_mid}
        /\ ~x.t.dead => /\ t.pending_recv = x.t.pending_recv \cup {req}
                        /\ t.orphans = x.t.orphans
    BY <1>1, <1>3 DEF Transports
  <1> HIDE DEF t, y
  <1>6. y \in Views /\ y.c = x.c /\ y.u = x.u /\ y.t = t
    BY <1>2, <1>4 DEF Views
  <1>7. Sent(x, y, kind) /\ y.c = x.c
    BY <1>1, <1>5, <1>6 DEF Sent
  <1> QED BY <1>7 DEF y

\* async_open sends an open and remembers it in rreq.
LEMMA OpenSent ==
    ASSUME NEW x \in Views
    PROVE  /\ Sent(x, async_open(x), "open")
           /\ async_open(x).c.rreq = x.t.next_mid
  <1> DEFINE y == [x EXCEPT !.c.io_open = TRUE]
             z == smbcli_transport_send(y, "open", NULL, <<>>)
             w == [z EXCEPT !.c.rreq = x.t.next_mid]
  <1>1. y \in Views /\ y.t = x.t /\ y.u = x.u
    BY DEF Views, Contexts
  <1> HIDE DEF y
  <1>2. Sent(y, z, "open")
    BY <1>1, NoData, SendSent
  <1> HIDE DEF z
  <1>3. z \in Views /\ x.t.next_mid \in Int
    BY <1>2 DEF Sent, Views, Transports
  <1>4. [z.c EXCEPT !.rreq = x.t.next_mid] \in Contexts
    BY <1>3 DEF Views, Contexts
  <1>5. w \in Views /\ w.t = z.t /\ w.u = z.u /\ w.c.rreq = x.t.next_mid
    BY <1>3, <1>4 DEF Views, Contexts
  <1> HIDE DEF w
  <1>6. Sent(x, w, "open")
    BY <1>1, <1>2, <1>5 DEF Sent
  <1> QED BY <1>5, <1>6 DEF async_open, w, z, y

\* async_read sends a read and remembers it in rreq.
LEMMA ReadSent ==
    ASSUME NEW x \in Views
    PROVE  /\ Sent(x, async_read(x), "read")
           /\ async_read(x).c.rreq = x.t.next_mid
  <1> DEFINE y == [x EXCEPT !.c.io_read = IF @ = NULL THEN x.c.fd ELSE @]
             z == smbcli_transport_send(y, "read", y.c.io_read, <<>>)
             w == [z EXCEPT !.c.rreq = x.t.next_mid, !.t.request_timeout = FALSE]
  <1>1. [x.c EXCEPT !.io_read = IF @ = NULL THEN x.c.fd ELSE @] \in Contexts
    BY DEF Views, Contexts
  <1>2. y \in Views /\ y.t = x.t /\ y.u = x.u /\ y.c.io_read \in Int
    BY <1>1 DEF Views, Contexts
  <1> HIDE DEF y
  <1>3. Sent(y, z, "read")
    BY <1>2, NoData, SendSent
  <1> HIDE DEF z
  <1>4. z \in Views /\ x.t.next_mid \in Int
    BY <1>3 DEF Sent, Views, Transports
  <1>5. [z.c EXCEPT !.rreq = x.t.next_mid] \in Contexts
    BY <1>4 DEF Views, Contexts
  <1>6. [z.t EXCEPT !.request_timeout = FALSE] \in Transports
    BY <1>4 DEF Views, Transports
  <1>7. w \in Views /\ w.u = z.u /\ w.c.rreq = x.t.next_mid
    BY <1>4, <1>5, <1>6 DEF Views, Contexts
  <1>8. /\ w.t.dead = z.t.dead /\ w.t.next_mid = z.t.next_mid
        /\ w.t.pending_recv = z.t.pending_recv /\ w.t.orphans = z.t.orphans
    BY <1>4 DEF Views, Transports
  <1> HIDE DEF w
  <1>9. Sent(x, w, "read")
    BY <1>2, <1>3, <1>7, <1>8 DEF Sent
  <1> QED BY <1>7, <1>9 DEF async_read, w, z, y

\* async_write sends a write at once: wreq is never set.
LEMMA WriteSent ==
    ASSUME NEW x \in Views, NEW data \in Seq(Lines)
    PROVE  /\ Sent(x, async_write(x, data), "write")
           /\ async_write(x, data).c.rreq = x.c.rreq
  <1> DEFINE y == [x EXCEPT !.c.io_write = IF @ = NULL THEN x.c.fd ELSE @]
             z == smbcli_transport_send(y, "write", y.c.io_write, data)
  <1>1. [x.c EXCEPT !.io_write = IF @ = NULL THEN x.c.fd ELSE @] \in Contexts
    BY DEF Views, Contexts
  <1>2. y \in Views /\ y.t = x.t /\ y.u = x.u /\ y.c.io_write \in Int
        /\ y.c.rreq = x.c.rreq
    BY <1>1 DEF Views, Contexts
  <1> HIDE DEF y
  <1>3. Sent(y, z, "write") /\ z.c = y.c
    BY <1>2, NoData, SendSent
  <1> HIDE DEF z
  <1>4. Sent(x, z, "write") /\ z.c.rreq = x.c.rreq
    BY <1>2, <1>3 DEF Sent
  <1>5. x.c.wreq = NULL
    BY DEF Views, Contexts
  <1>6. async_write(x, data) = z
    BY <1>5 DEF async_write, z, y
  <1> QED BY <1>4, <1>6

\* async_close sends a close and forgets the outstanding request; when there is
\* none it only sends.
LEMMA CloseSent ==
    ASSUME NEW x \in Views
    PROVE  LET y == async_close(x)
           IN  /\ y \in Views
               /\ y.u = x.u
               /\ y.t.dead = x.t.dead
               /\ y.t.next_mid = x.t.next_mid + 1
               /\ y.c.rreq = NULL
               /\ \A r \in y.t.pending_recv :
                     r \in x.t.pending_recv \/ r.mid = x.t.next_mid
               /\ x.c.rreq = NULL => Sent(x, y, "close")
  <1> DEFINE t1 == smbcli_request_destroy(x.t, x.c.rreq)
             t2 == smbcli_request_destroy(t1, x.c.wreq)
             S  == {r \in {q \in x.t.pending_recv : q.mid # x.c.rreq} : r.mid # x.c.wreq}
             O  == (x.t.orphans \ {x.c.rreq}) \ {x.c.wreq}
             c1 == [x.c EXCEPT !.rreq = NULL, !.wreq = NULL, !.io_close = TRUE]
             y  == [x EXCEPT !.t = t2, !.c.rreq = NULL, !.c.wreq = NULL,
                             !.c.io_close = TRUE]
             z  == smbcli_transport_send(y, "close", y.c.fd, <<>>)
  <1>1. x.c \in Contexts /\ x.t \in Transports
    BY DEF Views
  <1>2. c1 \in Contexts /\ c1.rreq = NULL
    BY <1>1, NoData DEF Contexts
  <1>3. t2 = [x.t EXCEPT !.pending_recv = S, !.orphans = O]
    BY <1>1 DEF smbcli_request_destroy, Transports
  <1>4. S \in SUBSET x.t.pending_recv /\ O \in SUBSET x.t.orphans
    OBVIOUS
  <1>5. x.c.rreq = NULL => S = x.t.pending_recv /\ O = x.t.orphans
    <2> SUFFICES ASSUME x.c.rreq = NULL
                 PROVE  S = x.t.pending_recv /\ O = x.t.orphans
      OBVIOUS
    <2>1. x.c.wreq = NULL /\ NULL \notin Nat
      BY <1>1 DEF Contexts, NULL
    <2>2. \A r \in x.t.pending_recv : r.mid \in Nat
      BY <1>1 DEF Transports, Requests
    <2>3. x.t.orphans \subseteq Nat
      BY <1>1 DEF Transports
    <2> QED BY <2>1, <2>2, <2>3
  <1> HIDE DEF S, O
  <1>6. /\ t2 \in Transports
        /\ t2.dead = x.t.dead /\ t2.next_mid = x.t.next_mid
        /\ t2.pending_recv = S /\ t2.orphans = O
    <2>1. S \in SUBSET Requests /\ O \in SUBSET Nat
      BY <1>1, <1>4 DEF Transports
    <2> HIDE DEF t2
    <2> QED BY <1>1, <1>3, <2>1 DEF Transports
  <1> HIDE DEF t2
  <1>7. y = [x EXCEPT !.t = t2, !.c = c1]
    BY <1>1 DEF Views, Contexts
  <1> HIDE DEF c1
  <1>8. /\ y \in Views /\ y.t = t2 /\ y.u = x.u /\ y.c = c1 /\ y.c.fd \in Int
    <2> HIDE DEF y
    <2>1. y \in Views /\ y.t = t2 /\ y.u = x.u /\ y.c = c1
      BY <1>2, <1>6, <1>7 DEF Views
    <2>2. c1.fd \in Int
      BY <1>2 DEF Contexts
    <2> QED BY <2>1, <2>2
  <1> HIDE DEF y
  <1>9. Sent(y, z, "close") /\ z.c = y.c
    BY <1>8, NoData, SendSent
  <1>10. async_close(x) = z
    BY DEF async_close, z, y, t2
  <1> HIDE DEF z
  <1>11. \A r \in z.t.pending_recv : r \in x.t.pending_recv \/ r.mid = x.t.next_mid
    BY <1>4, <1>6, <1>8, <1>9 DEF Sent
  <1>12. x.c.rreq = NULL => Sent(x, z, "close")
    BY <1>5, <1>6, <1>8, <1>9 DEF Sent
  <1>13. z \in Views /\ z.u = x.u /\ z.t.dead = x.t.dead
         /\ z.t.next_mid = x.t.next_mid + 1 /\ z.c.rreq = NULL
    BY <1>2, <1>6, <1>8, <1>9 DEF Sent
  <1> QED BY <1>10, <1>11, <1>12, <1>13

-----------------------------------------------------------------------------
\* A request sent on a live transport keeps mids fresh.
LEMMA SentFresh ==
    ASSUME NEW x \in Views, NEW y, NEW kind, Sent(x, y, kind), Fresh(x)
    PROVE  Fresh(y)
  <1>1. x.t.next_mid \in Nat /\ \A r \in x.t.pending_recv : r.mid \in Nat
    BY DEF Views, Transports, Requests
  <1> QED BY <1>1 DEF Sent, Fresh

\* An open sent on a live transport makes any view good.
LEMMA OpenGood ==
    ASSUME NEW x \in Views, Fresh(x), ~x.t.dead, ~x.u.fault
    PROVE  Good(async_open(x))
  <1> DEFINE y == async_open(x)
  <1>1. Sent(x, y, "open") /\ y.c.rreq = x.t.next_mid
    BY OpenSent
  <1> HIDE DEF y
  <1>2. Fresh(y)
    BY <1>1, SentFresh
  <1>3. PICK r \in Requests : /\ r.mid = x.t.next_mid /\ r.kind = "open"
                              /\ y.t.pending_recv = x.t.pending_recv \cup {r}
    BY <1>1 DEF Sent
  <1>4. RreqOK(y)
    BY <1>1, <1>3 DEF RreqOK
  <1>5. \A q \in y.t.pending_recv : q.kind = "close" => q.mid < r.mid
    BY <1>3 DEF Fresh
  <1>6. Expecting(y)
    BY <1>3, <1>5 DEF Expecting
  <1>7. Good(y)
    BY <1>1, <1>2, <1>4, <1>6 DEF Good, Sent
  <1> QED BY <1>7 DEF y

\* So does a read, unless the control pipe is being opened: then an open must
\* be outstanding.
LEMMA ReadGood ==
    ASSUME NEW x \in Views, Fresh(x), ~x.t.dead, ~x.u.fault,
           User = "ctrl" /\ x.u.state = "OPENING" =>
               \E r \in x.t.pending_recv : r.kind = "open"
    PROVE  Good(async_read(x))
  <1> DEFINE y == async_read(x)
  <1>1. Sent(x, y, "read") /\ y.c.rreq = x.t.next_mid
    BY ReadSent
  <1> HIDE DEF y
  <1>2. Fresh(y)
    BY <1>1, SentFresh
  <1>3. PICK r \in Requests : /\ r.mid = x.t.next_mid /\ r.kind = "read"
                              /\ y.t.pending_recv = x.t.pending_recv \cup {r}
    BY <1>1 DEF Sent
  <1>4. RreqOK(y)
    BY <1>1, <1>3 DEF RreqOK
  <1>5. \A q \in y.t.pending_recv : q.kind = "close" => q.mid < r.mid
    BY <1>3 DEF Fresh
  <1>6. User = "ctrl" => Expecting(y)
    BY <1>1, <1>3, <1>5 DEF Expecting, Sent
  <1>7. Good(y)
    BY <1>1, <1>2, <1>4, <1>6 DEF Good, Sent
  <1> QED BY <1>7 DEF y

\* exit_program ends what has to be expected.
LEMMA ExitGood ==
    ASSUME NEW x \in Views, Fresh(x), RreqOK(x), ~x.u.fault
    PROVE  Good(exit_program(x))
  <1> DEFINE u == [x.u EXCEPT !.exited = TRUE]
             y == exit_program(x)
  <1>1. u \in Users /\ u.exited /\ ~u.fault
    BY DEF Views, Users
  <1> HIDE DEF u
  <1>2. y = [x EXCEPT !.u = u]
    BY DEF exit_program, u
  <1> HIDE DEF y
  <1>3. y \in Views /\ y.c = x.c /\ y.t = x.t /\ y.u = u
    BY <1>1, <1>2 DEF Views
  <1>4. Good(y)
    BY <1>1, <1>3 DEF Good, Fresh, RreqOK
  <1> QED BY <1>4 DEF y

\* The error callbacks: x is the view they are called with.
LEMMA ErrorGood ==
    ASSUME NEW x \in Views, Fresh(x), RreqOK(x), ~x.u.fault,
           NEW func, NEW status \in Statuses,
           x.t.dead => status = "ERROR",
           User = "ctrl" /\ func = "read" /\ x.u.state = "OPENING" => Good(x),
           NEW y \in cb_error(x, func, status)
    PROVE  Good(y)
  <1>1. CASE User = "ctrl"
    <2> DEFINE x1 == [x EXCEPT !.u.activated = TRUE]
    <2>1. [x.u EXCEPT !.activated = TRUE] \in Users
      BY DEF Views, Users
    <2>2. x1 \in Views /\ x1.c = x.c /\ x1.t = x.t /\ x1.u.fault = x.u.fault
      BY <2>1 DEF Views, Users
    <2> HIDE DEF x1
    <2>3. y \in on_ctrl_pipe_error(x, func, status)
      BY <1>1 DEF cb_error
    <2>4. CASE ~x.u.activated /\ status = "OBJECT_NAME_NOT_FOUND"
      <3>1. y = exit_program(x) \/ y = async_open(x1)
        BY <2>3, <2>4 DEF on_ctrl_pipe_error, x1
      <3>2. ~x1.t.dead /\ ~x1.u.fault /\ Fresh(x1)
        BY <2>2, <2>4 DEF Fresh
      <3>3. Good(async_open(x1))
        BY <2>2, <3>2, OpenGood
      <3> QED BY <3>1, <3>3, ExitGood
    <2>5. CASE ~(~x.u.activated /\ status = "OBJECT_NAME_NOT_FOUND")
      <3>1. CASE func = "read" /\ x.u.state = "OPENING"
        BY <1>1, <2>3, <2>5, <3>1 DEF on_ctrl_pipe_error
      <3>2. CASE ~(func = "read" /\ x.u.state = "OPENING")
        <4>1. y = exit_program(x)
          BY <2>3, <2>5, <3>2 DEF on_ctrl_pipe_error
        <4> QED BY <4>1, ExitGood
      <3> QED BY <3>1, <3>2
    <2> QED BY <2>4, <2>5
  <1>2. CASE User # "ctrl"
    <2>1. y = async_close(x)
      BY <1>2 DEF cb_error
    <2>2. /\ y \in Views /\ y.u = x.u /\ y.t.next_mid = x.t.next_mid + 1
          /\ y.c.rreq = NULL
          /\ \A r \in y.t.pending_recv :
                r \in x.t.pending_recv \/ r.mid = x.t.next_mid
      BY <2>1, CloseSent
    <2>3. x.t.next_mid \in Nat /\ \A r \in x.t.pending_recv : r.mid \in Nat
      BY DEF Views, Transports, Requests
    <2>4. Fresh(y)
      BY <2>2, <2>3 DEF Fresh
    <2> QED BY <1>2, <2>2, <2>4 DEF Good, RreqOK
  <1> QED BY <1>1, <1>2

-----------------------------------------------------------------------------
(***************************************************************************)
(* The handlers.  v is the view when the reply to request r arrives, x the *)
(* view the handler starts from.                                           *)
(***************************************************************************)
Completing(v, r, status, x) ==
    /\ Good(v) /\ ~v.u.fault /\ ~v.u.exited
    /\ r \in v.t.pending_recv
    /\ status \in Statuses
    /\ v.t.dead => /\ status = "ERROR"
                   /\ \A q \in v.t.pending_recv : q.mid <= r.mid
    /\ x = [v EXCEPT !.t.pending_recv = @ \ {r}]

\* The handler starts from a view that has lost the request and is otherwise
\* unchanged.
LEMMA CompletingView ==
    ASSUME NEW v, NEW r, NEW status, NEW x, Completing(v, r, status, x)
    PROVE  /\ v \in Views /\ x \in Views /\ x.c = v.c /\ x.u = v.u /\ Fresh(x)
           /\ x.t.pending_recv = v.t.pending_recv \ {r}
           /\ x.t.dead = v.t.dead /\ x.t.next_mid = v.t.next_mid
           /\ x.t.orphans = v.t.orphans
           /\ RreqOK(v) /\ r.mid \in Nat
           /\ User = "ctrl" => Expecting(v)
  <1> DEFINE S == v.t.pending_recv \ {r}
             t == [v.t EXCEPT !.pending_recv = S]
  <1>1. v \in Views /\ v.t \in Transports
    BY DEF Completing, Good, Views
  <1>2. S \in SUBSET Requests
    BY <1>1 DEF Transports
  <1> HIDE DEF S
  <1>3. /\ t \in Transports /\ t.pending_recv = S
        /\ t.dead = v.t.dead /\ t.next_mid = v.t.next_mid /\ t.orphans = v.t.orphans
    BY <1>1, <1>2 DEF Transports
  <1>4. x = [v EXCEPT !.t = t]
    BY <1>1 DEF Completing, S
  <1> HIDE DEF t
  <1>5. x \in Views /\ x.c = v.c /\ x.u = v.u /\ x.t = t
    BY <1>1, <1>3, <1>4 DEF Views
  <1>6. RreqOK(v) /\ (User = "ctrl" => Expecting(v)) /\ Fresh(v)
    BY DEF Completing, Good
  <1>7. Fresh(x)
    BY <1>3, <1>5, <1>6 DEF Fresh, S
  <1>8. r.mid \in Nat
    BY <1>1 DEF Completing, Transports, Requests
  <1> QED BY <1>1, <1>3, <1>5, <1>6, <1>7, <1>8 DEF S

\* async_open_recv, on_ctrl_pipe_open or on_io_pipe_open, and the first read.
LEMMA OpenReplyGood ==
    ASSUME NEW v, NEW r, NEW status, NEW x, Completing(v, r, status, x),
           NEW fnum, status = "OK" => fnum \in Nat,
           NEW w \in OpenReply(x, status, fnum)
    PROVE  Good(w)
  <1> DEFINE y == async_open_recv(x, status = "OK", fnum)
             c == [x.c EXCEPT !.rreq = NULL, !.io_open = FALSE,
                              !.fd = IF status = "OK" THEN fnum ELSE @]
  <1>1. /\ x \in Views /\ Fresh(x) /\ ~x.u.fault /\ status \in Statuses
        /\ x.t.dead => status = "ERROR"
    <2>1. x \in Views /\ Fresh(x) /\ x.u = v.u /\ x.t.dead = v.t.dead
      BY CompletingView
    <2> QED BY <2>1 DEF Completing
  <1>2. c \in Contexts /\ c.rreq = NULL
    BY <1>1, NoData DEF Views, Contexts
  <1>3. y = [x EXCEPT !.c = c]
    BY <1>1 DEF async_open_recv, Views, Contexts
  <1> HIDE DEF c
  <1>4. y \in Views /\ y.c.rreq = NULL /\ y.t = x.t /\ y.u = x.u
    <2> HIDE DEF y
    <2> QED BY <1>1, <1>2, <1>3 DEF Views
  <1>5. Fresh(y) /\ RreqOK(y)
    BY <1>1, <1>4 DEF Fresh, RreqOK
  <1>6. CASE status = "OK"
    <2> DEFINE o == [y EXCEPT !.u.state = "OPEN", !.u.sources = @ + 1]
    <2>1. w = async_read(cb_open(y))
      BY <1>6 DEF OpenReply
    <2> HIDE DEF y
    <2>2. [y.u EXCEPT !.state = "OPEN", !.sources = @ + 1] \in Users
      <3>1. y.u \in Users /\ y.u.sources + 1 \in Nat
        BY <1>4 DEF Views, Users
      <3> QED BY <3>1 DEF Users
    <2>3. /\ o \in Views /\ o.t = y.t /\ o.u.state = "OPEN" /\ ~o.u.fault
      BY <1>1, <1>4, <2>2 DEF Views, Users
    <2> HIDE DEF o
    <2>4. Fresh(o)
      BY <1>5, <2>3 DEF Fresh
    <2>5. ~o.t.dead
      BY <1>1, <1>4, <1>6, <2>3
    <2>6. <<"get version">> \in Seq(Lines)
      BY DEF Lines
    <2>7. CASE User = "ctrl"
      <3> DEFINE z == async_write(o, <<"get version">>)
      <3>1. cb_open(y) = z
        BY <2>7 DEF cb_open, o
      <3>2. Sent(o, z, "write")
        BY <2>3, <2>6, WriteSent
      <3> HIDE DEF z
      <3>3. /\ z \in Views /\ ~z.t.dead /\ z.u = o.u
        BY <2>5, <3>2 DEF Sent
      <3>4. Fresh(z)
        BY <2>3, <2>4, <3>2, SentFresh
      <3>5. Good(async_read(z))
        BY <2>3, <3>3, <3>4, ReadGood
      <3> QED BY <2>1, <3>1, <3>5
    <2>8. CASE User # "ctrl"
      <3>1. cb_open(y) = o
        BY <2>8 DEF cb_open, o
      <3>2. Good(async_read(o))
        BY <2>3, <2>4, <2>5, ReadGood
      <3> QED BY <2>1, <3>1, <3>2
    <2> QED BY <2>7, <2>8
  <1>7. CASE status # "OK"
    <2>1. w \in cb_error(y, "open", status)
      BY <1>7 DEF OpenReply
    <2> HIDE DEF y
    <2>2. ~y.u.fault /\ (y.t.dead => status = "ERROR")
      BY <1>1, <1>4
    <2> QED BY <1>1, <1>4, <1>5, <2>1, <2>2, ErrorGood
  <1> QED BY <1>6, <1>7

\* What cb_read leaves behind is fit for the next read.
LEMMA CbReadViews ==
    ASSUME NEW x \in Views, Fresh(x), ~x.t.dead, ~x.u.fault, x.c.rreq = NULL,
           User = "ctrl" /\ x.u.state = "OPENING" =>
               \E r \in x.t.pending_recv : r.kind = "open",
           NEW z \in cb_read(x)
    PROVE  /\ z \in Views /\ Fresh(z) /\ ~z.t.dead /\ ~z.u.fault
           /\ User = "ctrl" /\ z.u.state = "OPENING" =>
                 \E r \in z.t.pending_recv : r.kind = "open"
  <1>1. \/ z = x
        \/ z = async_write(x, <<"run">>)
        \/ z = close_for_reinstall(x)
    BY DEF cb_read
  <1>2. CASE z = x
    BY <1>2
  <1>3. CASE z = async_write(x, <<"run">>)
    <2>1. <<"run">> \in Seq(Lines)
      BY DEF Lines
    <2>2. Sent(x, z, "write")
      BY <1>3, <2>1, WriteSent
    <2>3. Fresh(z)
      BY <2>2, SentFresh
    <2> QED BY <2>2, <2>3 DEF Sent
  <1>4. CASE z = close_for_reinstall(x)
    <2> DEFINE y == async_close(x)
    <2>1. Sent(x, y, "close")
      BY CloseSent
    <2>2. z = [y EXCEPT !.u.state = "CLOSING"]
      BY <1>4 DEF close_for_reinstall
    <2> HIDE DEF y
    <2>3. y \in Views /\ ~y.t.dead /\ ~y.u.fault
      BY <2>1 DEF Sent
    <2>4. Fresh(y)
      BY <2>1, SentFresh
    <2>5. [y.u EXCEPT !.state = "CLOSING"] \in Users
      BY <2>3 DEF Views, Users
    <2>6. z \in Views /\ z.t = y.t /\ z.u.state = "CLOSING" /\ ~z.u.fault
      BY <2>2, <2>3, <2>5 DEF Views, Users
    <2> QED BY <2>3, <2>4, <2>6 DEF Fresh
  <1> QED BY <1>1, <1>2, <1>3, <1>4

\* async_read_recv with the callback and the next read.
LEMMA ReadReplyGood ==
    ASSUME NEW v, NEW r, NEW status, NEW x, Completing(v, r, status, x),
           r.kind = "read", NEW w \in ReadReply(x, status)
    PROVE  Good(w)
  <1> DEFINE y == async_read_recv(x)
             c == [x.c EXCEPT !.rreq = NULL]
  <1>1. /\ x \in Views /\ Fresh(x) /\ ~x.u.fault /\ status \in Statuses
        /\ x.t.dead => status = "ERROR"
    <2>1. x \in Views /\ Fresh(x) /\ x.u = v.u /\ x.t.dead = v.t.dead
      BY CompletingView
    <2> QED BY <2>1 DEF Completing
  <1>2. c \in Contexts /\ c.rreq = NULL
    BY <1>1, NoData DEF Views, Contexts
  <1>3. y = [x EXCEPT !.c = c]
    BY <1>1 DEF async_read_recv, Views, Contexts
  <1> HIDE DEF c
  <1>4. y \in Views /\ y.c.rreq = NULL /\ y.t = x.t /\ y.u = x.u
    <2> HIDE DEF y
    <2> QED BY <1>1, <1>2, <1>3 DEF Views
  <1>5. Fresh(y) /\ RreqOK(y)
    BY <1>1, <1>4 DEF Fresh, RreqOK
  <1>6. User = "ctrl" /\ y.u.state = "OPENING" =>
           \E q \in y.t.pending_recv : q.kind = "open"
    BY <1>4, CompletingView DEF Expecting
  <1>7. CASE status = "OK"
    <2>1. PICK z \in cb_read(y) : w = async_read(z)
      BY <1>7 DEF ReadReply
    <2> HIDE DEF y
    <2>2. ~y.t.dead /\ ~y.u.fault
      BY <1>1, <1>4, <1>7
    <2>3. /\ z \in Views /\ Fresh(z) /\ ~z.t.dead /\ ~z.u.fault
          /\ User = "ctrl" /\ z.u.state = "OPENING" =>
                \E q \in z.t.pending_recv : q.kind = "open"
      BY <1>4, <1>5, <1>6, <2>1, <2>2, CbReadViews
    <2> QED BY <2>1, <2>3, ReadGood
  <1>8. CASE status # "OK"
    <2>1. w \in cb_error(y, "read", status)
      BY <1>8 DEF ReadReply
    <2> HIDE DEF y
    <2>2. ~y.u.fault /\ (y.t.dead => status = "ERROR")
      BY <1>1, <1>4
    <2>3. User = "ctrl" /\ y.u.state = "OPENING" => Good(y)
      BY <1>4, <1>5, <1>6, <2>2 DEF Good, Expecting
    <2> QED BY <1>1, <1>4, <1>5, <2>1, <2>2, <2>3, ErrorGood
  <1> QED BY <1>7, <1>8

\* A view that has lost a write or, unless the pipe is being closed, a close is
\* still good.
LEMMA LoseGood ==
    ASSUME NEW v, NEW r, NEW status, NEW x, Completing(v, r, status, x),
           r.kind \in {"write", "close"},
           NEW y \in Views, y.t = x.t, y.u = x.u, y.c.rreq = x.c.rreq
    PROVE  /\ Fresh(y) /\ RreqOK(y)
           /\ r.kind = "write" \/ y.u.state # "CLOSING" \/ User # "ctrl" => Good(y)
  <1>1. /\ x \in Views /\ Fresh(x) /\ x.c = v.c /\ x.u = v.u
        /\ x.t.pending_recv = v.t.pending_recv \ {r}
        /\ x.t.dead = v.t.dead /\ x.t.next_mid = v.t.next_mid
        /\ x.t.orphans = v.t.orphans /\ RreqOK(v)
        /\ User = "ctrl" => Expecting(v)
    BY CompletingView
  <1>2. Fresh(y) /\ RreqOK(y)
    BY <1>1 DEF Fresh, RreqOK
  <1>3. ASSUME User = "ctrl", r.kind = "write" \/ y.u.state # "CLOSING"
        PROVE  Expecting(y)
    <2>1. Expecting(v) /\ y.u.state = v.u.state
          /\ y.t.pending_recv = v.t.pending_recv \ {r}
      BY <1>1, <1>3
    <2>2. y.u.state = "OPENING" => \E q \in y.t.pending_recv : q.kind = "open"
      BY <2>1 DEF Expecting
    <2>3. y.u.state = "OPEN" => \E q \in y.t.pending_recv : q.kind \in {"open", "read"}
      BY <2>1 DEF Expecting
    <2>4. y.u.state = "CLOSING" =>
             \E q \in y.t.pending_recv :
                /\ q.kind \in {"open", "read"}
                /\ \A p \in y.t.pending_recv : p.kind = "close" => p.mid < q.mid
      BY <1>3, <2>1 DEF Expecting
    <2> QED BY <2>2, <2>3, <2>4 DEF Expecting
  <1>4. ~y.u.fault
    BY <1>1 DEF Completing
  <1> QED BY <1>2, <1>3, <1>4 DEF Good

\* async_write_recv.
LEMMA WriteReplyGood ==
    ASSUME NEW v, NEW r, NEW status, NEW x, Completing(v, r, status, x),
           r.kind = "write", NEW w \in WriteReply(x, status)
    PROVE  Good(w)
  <1> DEFINE y == async_write_recv(x, status = "OK")
             c == [x.c EXCEPT !.wreq = NULL, !.io_write = IF status = "OK" THEN @ ELSE NULL]
  <1>1. /\ x \in Views /\ ~x.u.fault /\ status \in Statuses
        /\ x.t.dead => status = "ERROR"
    <2>1. x \in Views /\ x.u = v.u /\ x.t.dead = v.t.dead
      BY CompletingView
    <2> QED BY <2>1 DEF Completing
  <1>2. c \in Contexts /\ c.rreq = x.c.rreq /\ c.wq = <<>>
    BY <1>1, NoData DEF Views, Contexts
  <1>3. y = [x EXCEPT !.c = c]
    <2> DEFINE z == [x EXCEPT !.c.wreq = NULL, !.c.io_write = IF status = "OK" THEN @ ELSE NULL]
    <2>1. z = [x EXCEPT !.c = c]
      BY <1>1 DEF Views, Contexts
    <2>2. z.c.wq = <<>>
      BY <1>1, <1>2, <2>1 DEF Views, Contexts
    <2>3. y = z
      BY <2>2 DEF async_write_recv
    <2> QED BY <2>1, <2>3
  <1> HIDE DEF c
  <1>4. y \in Views /\ y.c.rreq = x.c.rreq /\ y.t = x.t /\ y.u = x.u
    <2> HIDE DEF y
    <2> QED BY <1>1, <1>2, <1>3 DEF Views
  <1>5. w = y \/ w \in cb_error(y, "write", status)
    BY DEF WriteReply
  <1> HIDE DEF y
  <1>6. Good(y) /\ Fresh(y) /\ RreqOK(y)
    BY <1>4, LoseGood
  <1>7. ~y.u.fault /\ (y.t.dead => status = "ERROR")
    BY <1>1, <1>4
  <1> QED BY <1>1, <1>4, <1>5, <1>6, <1>7, ErrorGood

\* async_close_recv with on_ctrl_pipe_close: while the pipe is being closed for
\* reinstallation the transport cannot be dead, because a newer request would
\* have ended the program.
LEMMA CloseReplyGood ==
    ASSUME NEW v, NEW r, NEW status, NEW x, Completing(v, r, status, x),
           r.kind = "close", NEW w \in CloseReply(x)
    PROVE  Good(w)
  <1> DEFINE y == async_close_recv(x)
             c == [x.c EXCEPT !.io_close = FALSE, !.io_open = FALSE,
                              !.io_read = NULL, !.io_write = NULL]
  <1>1. /\ x \in Views /\ ~x.u.fault /\ x.t.dead = v.t.dead /\ x.u = v.u
    <2>1. x \in Views /\ x.u = v.u /\ x.t.dead = v.t.dead
      BY CompletingView
    <2> QED BY <2>1 DEF Completing
  <1>2. c \in Contexts /\ c.rreq = x.c.rreq
    BY <1>1, NoData DEF Views, Contexts
  <1>3. y = [x EXCEPT !.c = c]
    BY <1>1 DEF async_close_recv, Views, Contexts
  <1> HIDE DEF c
  <1>4. y \in Views /\ y.c.rreq = x.c.rreq /\ y.t = x.t /\ y.u = x.u
    <2> HIDE DEF y
    <2> QED BY <1>1, <1>2, <1>3 DEF Views
  <1>5. w = cb_close(y)
    BY DEF CloseReply
  <1> HIDE DEF y
  <1>6. /\ Fresh(y) /\ RreqOK(y)
        /\ y.u.state # "CLOSING" \/ User # "ctrl" => Good(y)
    BY <1>4, LoseGood
  <1>7. CASE User = "ctrl" /\ y.u.state = "CLOSING"
    <2> DEFINE o == [y EXCEPT !.u.state = "OPENING"]
    <2>1. w = async_open(o)
      BY <1>5, <1>7 DEF cb_close
    <2>2. [y.u EXCEPT !.state = "OPENING"] \in Users
      BY <1>4 DEF Views, Users
    <2>3. o \in Views /\ o.t = y.t /\ ~o.u.fault
      BY <1>1, <1>4, <2>2 DEF Views, Users
    <2> HIDE DEF o
    <2>4. ~v.t.dead
      <3>1. Expecting(v) /\ v.u.state = "CLOSING" /\ v \in Views
        BY <1>1, <1>4, <1>7, CompletingView
      <3>2. PICK q \in v.t.pending_recv :
               \A p \in v.t.pending_recv : p.kind = "close" => p.mid < q.mid
        BY <3>1 DEF Expecting
      <3>3. r.mid < q.mid /\ r.mid \in Nat /\ q.mid \in Nat
        BY <3>1, <3>2 DEF Completing, Views, Transports, Requests
      <3> QED BY <3>3 DEF Completing
    <2>5. Fresh(o) /\ ~o.t.dead
      BY <1>1, <1>4, <1>6, <2>3, <2>4 DEF Fresh
    <2> QED BY <2>1, <2>3, <2>5, OpenGood
  <1>8. CASE ~(User = "ctrl" /\ y.u.state = "CLOSING")
    BY <1>5, <1>6, <1>8 DEF cb_close
  <1> QED BY <1>7, <1>8

\* Whatever the reply, its handler leads from a good view to a good view.
LEMMA HandleReplyGood ==
    ASSUME NEW v, NEW r, NEW status, NEW x, Completing(v, r, status, x),
           NEW fnum, status = "OK" => fnum \in Nat,
           NEW w \in HandleReply(x, r.kind, status, fnum)
    PROVE  Good(w)
  <1>1. CASE status = "OK" /\ NullDeref(x.c, r.kind)
    <2>1. w = [x EXCEPT !.u.fault = TRUE]
      BY <1>1 DEF HandleReply
    <2>2. x \in Views /\ Fresh(x) /\ x.t.dead = v.t.dead
      BY CompletingView
    <2>3. ~x.t.dead
      BY <1>1, <2>2 DEF Completing
    <2>4. [x.u EXCEPT !.fault = TRUE] \in Users
      BY <2>2 DEF Views, Users
    <2>5. w \in Views /\ w.t = x.t /\ w.u.fault
      BY <2>1, <2>2, <2>4 DEF Views, Users
    <2> QED BY <2>2, <2>3, <2>5 DEF Good, Fresh
  <1>2. CASE ~(status = "OK" /\ NullDeref(x.c, r.kind))
    <2>1. r.kind \in Kinds
      BY DEF Completing, Good, Views, Transports, Requests
    <2>2. \/ r.kind = "open" /\ w \in OpenReply(x, status, fnum)
          \/ r.kind = "read" /\ w \in ReadReply(x, status)
          \/ r.kind = "write" /\ w \in WriteReply(x, status)
          \/ r.kind = "close" /\ w \in CloseReply(x)
      BY <1>2, <2>1 DEF HandleReply, Kinds
    <2> QED BY <2>2, OpenReplyGood, ReadReplyGood, WriteReplyGood, CloseReplyGood
  <1> QED BY <1>1, <1>2

-----------------------------------------------------------------------------
(***************************************************************************)
(* The actions.                                                            *)
(***************************************************************************)

\* Become(x) makes x the view.
LEMMA BecomeView ==
    ASSUME NEW x \in Views, Become(x)
    PROVE  View' = x
  BY DEF Become, View, Views

\* The conjuncts of TypeOK from the invariant.
LEMMA GoodType ==
    ASSUME Good(View)
    PROVE  ac \in Contexts /\ transport \in Transports /\ user \in Users
  BY DEF Good, View, Views

\* One handler run by the event loop or by smbcli_transport_dead.
LEMMA CompleteGood ==
    ASSUME Good(View), ~user.fault, ~user.exited,
           NEW r \in transport.pending_recv, NEW status \in Statuses,
           transport.dead => status = "ERROR" /\ Newest(r),
           NEW fnum, status = "OK" => fnum \in Nat,
           Complete(r, status, fnum)
    PROVE  Good(View)'
  <1> DEFINE x == [View EXCEPT !.t.pending_recv = @ \ {r}]
  <1>1. PICK y \in HandleReply(x, r.kind, status, fnum) : Become(y)
    BY DEF Complete
  <1> HIDE DEF x
  <1>2. View.t = transport /\ View.u = user
    BY DEF View
  <1>3. Completing(View, r, status, x)
    BY <1>2 DEF Completing, Newest, x
  <1>4. Good(y)
    BY <1>1, <1>3, HandleReplyGood
  <1>5. View' = y
    BY <1>1, <1>4, BecomeView DEF Good
  <1>6. Good(View')
    BY <1>4, <1>5
  <1> QED BY <1>6 DEF Good, View, Fresh, RreqOK, Expecting

\* A write by the timer or the stdin handler.
LEMMA SourceGood ==
    ASSUME Good(View), Ready, NEW u \in Users, NEW data \in Seq(Lines),
           u.state = user.state, u.fault = user.fault, u.exited = user.exited,
           Become(async_write([View EXCEPT !.u = u], data))
    PROVE  Good(View)'
  <1> DEFINE x == [View EXCEPT !.u = u]
             y == async_write(x, data)
  <1>1. View \in Views /\ View.t = transport /\ View.u = user /\ View.c = ac
    BY DEF View, Good
  <1>2. x \in Views /\ x.t = transport /\ x.u = u /\ x.c = ac
    BY <1>1 DEF Views
  <1> HIDE DEF x
  <1>3. Sent(x, y, "write") /\ y.c.rreq = ac.rreq
    BY <1>2, WriteSent
  <1>4. Become(y)
    BY DEF x
  <1> HIDE DEF y
  <1>5. Fresh(x) /\ RreqOK(x) /\ (User = "ctrl" => Expecting(x)) /\ ~u.fault
    <2>1. /\ Fresh(View) /\ RreqOK(View) /\ ~u.fault
          /\ User = "ctrl" => Expecting(View)
      BY <1>1 DEF Good, Ready
    <2> QED BY <1>1, <1>2, <2>1 DEF Fresh, RreqOK, Expecting
  <1>6. Fresh(y)
    BY <1>2, <1>3, <1>5, SentFresh
  <1>7. /\ \A q \in x.t.pending_recv : q \in y.t.pending_recv
        /\ \A q \in y.t.pending_recv : q \in x.t.pending_recv \/ q.kind = "write"
        /\ \A m \in x.t.orphans : m \in y.t.orphans
    BY <1>3 DEF Sent
  <1>8. RreqOK(y)
    <2>1. y.c.rreq = x.c.rreq
      BY <1>2, <1>3
    <2>2. CASE x.c.rreq = NULL
      BY <2>1, <2>2 DEF RreqOK
    <2>3. CASE x.c.rreq \in x.t.orphans
      BY <1>7, <2>1, <2>3 DEF RreqOK
    <2>4. CASE \E q \in x.t.pending_recv : q.mid = x.c.rreq /\ q.kind \in {"open", "read"}
      BY <1>7, <2>1, <2>4 DEF RreqOK
    <2> QED BY <1>5, <2>2, <2>3, <2>4 DEF RreqOK
  <1>9. User = "ctrl" => Expecting(y)
    <2> SUFFICES ASSUME User = "ctrl" PROVE Expecting(y)
      OBVIOUS
    <2>1. y.u.state = x.u.state
      BY <1>3 DEF Sent
    <2>2. y.u.state = "OPENING" => \E q \in y.t.pending_recv : q.kind = "open"
      BY <1>5, <1>7, <2>1 DEF Expecting
    <2>3. y.u.state = "OPEN" => \E q \in y.t.pending_recv : q.kind \in {"open", "read"}
      BY <1>5, <1>7, <2>1 DEF Expecting
    <2>4. ASSUME y.u.state = "CLOSING"
          PROVE  \E q \in y.t.pending_recv :
                    /\ q.kind \in {"open", "read"}
                    /\ \A p \in y.t.pending_recv : p.kind = "close" => p.mid < q.mid
      <3>1. PICK q \in x.t.pending_recv :
               /\ q.kind \in {"open", "read"}
               /\ \A p \in x.t.pending_recv : p.kind = "close" => p.mid < q.mid
        BY <1>5, <2>1, <2>4 DEF Expecting
      <3> QED BY <1>7, <3>1
    <2> QED BY <2>2, <2>3, <2>4 DEF Expecting
  <1>10. Good(y)
    BY <1>2, <1>3, <1>5, <1>6, <1>8, <1>9 DEF Good, Sent
  <1>11. View' = y
    BY <1>4, <1>10, BecomeView DEF Good
  <1>12. Good(View')
    BY <1>10, <1>11
  <1> QED BY <1>12 DEF Good, View, Fresh, RreqOK, Expecting

-----------------------------------------------------------------------------
ReplySet == [mid : Nat, status : Statuses, fnum : Nat]

\* A reply the server makes for a request it got is a reply.
LEMMA ReplyType ==
    ASSUME NEW r \in Requests, NEW status \in Statuses, NEW f \in Fnum \cup {NoHandle}
    PROVE  Reply(r, status, f) \in ReplySet
  BY FnumAssumption DEF Reply, ReplySet, Requests, NoHandle

\* The initial state: the first open is outstanding.
LEMMA InitInv == Init => IInv
  <1> SUFFICES ASSUME Init PROVE IInv
    OBVIOUS
  <1> DEFINE t == [smbcli_transport_init EXCEPT !.request_timeout = User = "ctrl"]
             x == [c |-> async_context(User), t |-> t, u |-> InitUser]
  <1>1. t \in Transports /\ ~t.dead /\ t.pending_recv = {}
    <2>1. <<>> \in Seq(Requests) /\ (User = "ctrl") \in BOOLEAN
      OBVIOUS
    <2>2. /\ smbcli_transport_init \in Transports
          /\ ~smbcli_transport_init.dead /\ smbcli_transport_init.pending_recv = {}
      BY <2>1 DEF smbcli_transport_init, Transports
    <2> QED BY <2>1, <2>2 DEF Transports
  <1> HIDE DEF t
  <1>2. async_context(User) \in Contexts
    BY NoData DEF async_context, Contexts
  <1>3. InitUser \in Users /\ ~InitUser.fault
    BY DEF InitUser, Users
  <1>4. x \in Views /\ ~x.t.dead /\ x.t.pending_recv = {} /\ ~x.u.fault
    BY <1>1, <1>2, <1>3 DEF Views
  <1>5. Opened = async_open(x)
    BY DEF Opened, t
  <1> HIDE DEF x
  <1>6. Fresh(x)
    BY <1>4 DEF Fresh
  <1>7. Good(Opened)
    BY <1>4, <1>5, <1>6, OpenGood
  <1>8. View = Opened
    BY <1>7 DEF Init, View, Good, Views
  <1>9. ServerOK
    BY DEF Init, ServerOK
  <1> QED BY <1>7, <1>8, <1>9 DEF IInv

\* Every step of the program and of the server keeps the invariant.
LEMMA NextInv == IInv /\ [Next]_vars => IInv'
  <1> SUFFICES ASSUME IInv, [Next]_vars PROVE IInv'
    OBVIOUS
  <1>1. /\ ac \in Contexts /\ transport \in Transports /\ user \in Users
        /\ Good(View) /\ ServerOK
    BY GoodType DEF IInv
  <1>2. replies \in Seq(ReplySet)
    BY <1>1 DEF ServerOK, ReplySet
  <1>3. ASSUME NEW r \in transport.pending_recv, NEW fnum, Ready,
               NEW status \in Statuses, status = "OK" => fnum \in Nat,
               Complete(r, status, fnum)
        PROVE  Good(View)'
    BY <1>1, <1>3, CompleteGood DEF Ready
  <1>4. ASSUME UNCHANGED <<ac, transport, user>> PROVE Good(View)'
    BY <1>1, <1>4 DEF Good, View, Fresh, RreqOK, Expecting
  <1>5. CASE smbcli_transport_finish_recv
    <2>1. replies # <<>> /\ srv' = srv /\ replies' = Tail(replies) /\ Ready
      BY <1>5 DEF smbcli_transport_finish_recv
    <2>2. Head(replies) \in ReplySet /\ Tail(replies) \in Seq(ReplySet)
      BY <1>2, <2>1
    <2>3. ServerOK'
      BY <1>1, <2>1, <2>2 DEF ServerOK, ReplySet
    <2>4. \/ UNCHANGED <<ac, transport, user>>
          \/ \E r \in transport.pending_recv :
                Complete(r, Head(replies).status, Head(replies).fnum)
      BY <1>5 DEF smbcli_transport_finish_recv
    <2>5. Head(replies).status \in Statuses /\ Head(replies).fnum \in Nat
      BY <2>2 DEF ReplySet
    <2>6. Good(View)'
      BY <1>3, <1>4, <2>1, <2>4, <2>5
    <2> QED BY <2>3, <2>6 DEF IInv
  <1>6. CASE smbcli_timeout_handler
    <2>1. "ERROR" \in Statuses /\ "ERROR" # "OK"
      BY DEF Statuses
    <2>2. Good(View)'
      BY <1>3, <1>6, <2>1 DEF smbcli_timeout_handler
    <2>3. ServerOK'
      BY <1>1, <1>6 DEF smbcli_timeout_handler, ServerOK
    <2> QED BY <2>2, <2>3 DEF IInv
  <1>7. CASE smbcli_sock_dead
    <2>1. /\ transport' = [transport EXCEPT !.dead = TRUE, !.wire = <<>>]
          /\ ac' = ac /\ user' = user /\ srv' = srv /\ replies' = <<>> /\ Ready
      BY <1>7 DEF smbcli_sock_dead
    <2>2. /\ transport' \in Transports
          /\ transport'.pending_recv = transport.pending_recv
          /\ transport'.orphans = transport.orphans
          /\ transport'.next_mid = transport.next_mid
      <3>1. <<>> \in Seq(Requests)
        OBVIOUS
      <3> QED BY <1>1, <2>1, <3>1 DEF Transports
    <2>3. /\ View.c = ac /\ View.t = transport /\ View.u = user
          /\ View'.c = ac /\ View'.t = transport' /\ View'.u = user
          /\ View' \in Views
      BY <1>1, <2>1, <2>2 DEF View, Views
    <2>4. Fresh(View') /\ RreqOK(View') /\ (User = "ctrl" /\ ~user.exited => Expecting(View'))
      <3>1. Fresh(View) /\ RreqOK(View) /\ (User = "ctrl" /\ ~user.exited => Expecting(View))
        BY <1>1, <2>1, <2>3 DEF Good, Ready
      <3> QED BY <2>2, <2>3, <3>1 DEF Fresh, RreqOK, Expecting
    <2>5. Good(View')
      BY <2>1, <2>3, <2>4 DEF Good, Ready
    <2>6. Good(View)'
      BY <2>5 DEF Good, View, Fresh, RreqOK, Expecting
    <2>7. ServerOK'
      BY <1>1, <2>1 DEF ServerOK
    <2> QED BY <2>6, <2>7 DEF IInv
  <1>8. CASE smbcli_transport_dead
    <2>1. PICK r \in transport.pending_recv : Newest(r) /\ Complete(r, "ERROR", NULL)
      BY <1>8 DEF smbcli_transport_dead
    <2>2. ~user.fault /\ ~user.exited /\ "ERROR" \in Statuses /\ "ERROR" # "OK"
      BY <1>8 DEF smbcli_transport_dead, Statuses
    <2>3. Good(View)'
      BY <1>1, <2>1, <2>2, CompleteGood
    <2>4. ServerOK'
      BY <1>1, <1>8 DEF smbcli_transport_dead, ServerOK
    <2> QED BY <2>3, <2>4 DEF IInv
  <1>9. CASE timer
    <2> DEFINE u == [user EXCEPT !.sources = @ - 1]
    <2>1. user.sources > 0 /\ Ready /\ srv' = srv /\ replies' = replies
          /\ Become(async_write([View EXCEPT !.u.sources = @ - 1], <<"abort">>))
      BY <1>9 DEF timer
    <2>2. user.sources - 1 \in Nat
      BY <1>1, <2>1 DEF Users
    <2>3. u \in Users /\ u.state = user.state /\ u.fault = user.fault /\ u.exited = user.exited
      BY <1>1, <2>2 DEF Users
    <2>4. [View EXCEPT !.u.sources = @ - 1] = [View EXCEPT !.u = u]
      BY DEF View
    <2> HIDE DEF u
    <2>5. <<"abort">> \in Seq(Lines)
      BY DEF Lines
    <2>6. Good(View)'
      BY <1>1, <2>1, <2>3, <2>4, <2>5, SourceGood
    <2>7. ServerOK'
      BY <1>1, <2>1 DEF ServerOK
    <2> QED BY <2>6, <2>7 DEF IInv
  <1>10. CASE on_stdin_read_event
    <2>1. Ready /\ srv' = srv /\ replies' = replies
          /\ Become(async_write(View, <<"input">>))
      BY <1>10 DEF on_stdin_read_event
    <2>2. View = [View EXCEPT !.u = user]
      BY DEF View
    <2>3. <<"input">> \in Seq(Lines)
      BY DEF Lines
    <2>4. Good(View)'
      BY <1>1, <2>1, <2>2, <2>3, SourceGood
    <2>5. ServerOK'
      BY <1>1, <2>1 DEF ServerOK
    <2> QED BY <2>4, <2>5 DEF IInv
  <1>11. ASSUME ac' = ac, user' = user, transport' \in Transports,
                transport'.pending_recv = transport.pending_recv,
                transport'.orphans = transport.orphans,
                transport'.next_mid = transport.next_mid,
                transport'.dead = transport.dead
         PROVE  Good(View)'
    <2>1. /\ View.c = ac /\ View.t = transport /\ View.u = user
          /\ View'.c = ac /\ View'.t = transport' /\ View'.u = user
          /\ View' \in Views
      BY <1>1, <1>11 DEF View, Views
    <2>2. Good(View')
      BY <1>1, <1>11, <2>1 DEF Good, Fresh, RreqOK, Expecting
    <2> QED BY <2>2 DEF Good, View, Fresh, RreqOK, Expecting
  <1>12. ASSUME NEW r \in Requests, NEW status \in Statuses, Answer(r, status)
         PROVE  replies' \in Seq(ReplySet)
    <2>1. Reply(r, status, NoHandle) \in ReplySet
      BY ReplyType
    <2> QED BY <1>2, <1>12, <2>1 DEF Answer
  <1>13. srv \in [open : SUBSET Fnum, broken : SUBSET Fnum, parked : SUBSET Requests]
    BY <1>1 DEF ServerOK
  <1>14. "OK" \in Statuses /\ "ERROR" \in Statuses
    BY DEF Statuses
  <1>15. ASSUME NEW q \in srv.parked, srv' = [srv EXCEPT !.parked = @ \ {q}],
                NEW status \in Statuses, Answer(q, status)
         PROVE  ServerOK'
    <2>1. q \in Requests /\ srv.parked \ {q} \in SUBSET Requests
      BY <1>13
    <2>2. srv' \in [open : SUBSET Fnum, broken : SUBSET Fnum, parked : SUBSET Requests]
      BY <1>13, <1>15, <2>1
    <2>3. replies' \in Seq(ReplySet)
      BY <1>12, <1>15, <2>1
    <2> QED BY <2>2, <2>3 DEF ServerOK, ReplySet
  <1>16. CASE ServerStep
    <2> DEFINE r == Head(transport.wire)
    <2>1. /\ transport.wire # <<>> /\ ac' = ac /\ user' = user
          /\ transport' = [transport EXCEPT !.wire = Tail(@)]
      BY <1>16 DEF ServerStep
    <2>2. transport.wire \in Seq(Requests)
      BY <1>1 DEF Transports
    <2>3. r \in Requests /\ Tail(transport.wire) \in Seq(Requests)
      BY <2>1, <2>2
    <2>4. Good(View)'
      <3>1. /\ transport' \in Transports
            /\ transport'.pending_recv = transport.pending_recv
            /\ transport'.orphans = transport.orphans
            /\ transport'.next_mid = transport.next_mid
            /\ transport'.dead = transport.dead
        BY <1>1, <2>1, <2>3 DEF Transports
      <3> QED BY <1>11, <2>1, <3>1
    <2>5. ServerOpen(r) \/ ServerRead(r) \/ ServerWrite(r) \/ ServerClose(r)
      BY <1>16 DEF ServerStep
    <2> HIDE DEF r
    <2>6. ASSUME ServerOpen(r) PROVE ServerOK'
      <3>1. ASSUME NEW f \in Fnum, srv' = [srv EXCEPT !.open = @ \cup {f}],
                   replies' = Append(replies, Reply(r, "OK", f))
            PROVE  ServerOK'
        <4>1. srv.open \cup {f} \in SUBSET Fnum
          BY <1>13
        <4>2. srv' \in [open : SUBSET Fnum, broken : SUBSET Fnum, parked : SUBSET Requests]
          BY <1>13, <3>1, <4>1
        <4>3. Reply(r, "OK", f) \in ReplySet
          BY <1>14, <2>3, ReplyType
        <4>4. replies' \in Seq(ReplySet)
          BY <1>2, <3>1, <4>3
        <4> QED BY <4>2, <4>4 DEF ServerOK, ReplySet
      <3>2. ASSUME NEW s \in Statuses, Answer(r, s), srv' = srv
            PROVE  ServerOK'
        <4>1. replies' \in Seq(ReplySet)
          BY <1>12, <2>3, <3>2
        <4> QED BY <1>13, <3>2, <4>1 DEF ServerOK, ReplySet
      <3> QED BY <2>6, <3>1, <3>2 DEF ServerOpen
    <2>7. ASSUME \/ srv' = [srv EXCEPT !.parked = @ \cup {r}] /\ replies' = replies
                 \/ srv' = srv /\ (Answer(r, "OK") \/ Answer(r, "ERROR"))
          PROVE  ServerOK'
      <3>1. CASE srv' = [srv EXCEPT !.parked = @ \cup {r}] /\ replies' = replies
        <4>1. srv.parked \cup {r} \in SUBSET Requests
          BY <1>13, <2>3
        <4> QED BY <1>2, <1>13, <3>1, <4>1 DEF ServerOK, ReplySet
      <3>2. CASE srv' = srv /\ (Answer(r, "OK") \/ Answer(r, "ERROR"))
        <4>1. replies' \in Seq(ReplySet)
          BY <1>12, <1>14, <2>3, <3>2
        <4> QED BY <1>13, <3>2, <4>1 DEF ServerOK, ReplySet
      <3> QED BY <2>7, <3>1, <3>2
    <2>8. ASSUME ServerRead(r) \/ ServerWrite(r) PROVE ServerOK'
      BY <2>7, <2>8 DEF ServerRead, ServerWrite
    <2>9. ASSUME ServerClose(r) PROVE ServerOK'
      <3>1. CASE srv' = srv /\ Answer(r, "ERROR")
        BY <2>7, <3>1
      <3>2. CASE /\ srv' = [srv EXCEPT !.open = @ \ {r.fnum}, !.broken = @ \ {r.fnum}]
                 /\ Answer(r, "OK")
        <4>1. srv.open \ {r.fnum} \in SUBSET Fnum /\ srv.broken \ {r.fnum} \in SUBSET Fnum
          BY <1>13
        <4>2. srv' \in [open : SUBSET Fnum, broken : SUBSET Fnum, parked : SUBSET Requests]
          BY <1>13, <3>2, <4>1
        <4>3. replies' \in Seq(ReplySet)
          BY <1>12, <1>14, <2>3, <3>2
        <4> QED BY <4>2, <4>3 DEF ServerOK, ReplySet
      <3> QED BY <2>9, <3>1, <3>2 DEF ServerClose
    <2>10. ServerOK'
      BY <2>5, <2>6, <2>8, <2>9
    <2> QED BY <2>4, <2>10 DEF IInv
  <1>17. CASE ServerCancel
    BY <1>4, <1>14, <1>15, <1>17 DEF ServerCancel, IInv
  <1>18. CASE ServerUnpark
    BY <1>4, <1>14, <1>15, <1>18 DEF ServerUnpark, IInv
  <1>19. CASE ServerDisconnect
    <2>1. PICK f \in Fnum : srv' = [srv EXCEPT !.broken = @ \cup {f}]
      BY <1>13, <1>19 DEF ServerDisconnect
    <2>2. srv.broken \cup {f} \in SUBSET Fnum
      BY <1>13
    <2>3. ServerOK'
      BY <1>2, <1>13, <1>19, <2>1, <2>2 DEF ServerDisconnect, ServerOK, ReplySet
    <2>4. Good(View)'
      BY <1>4, <1>19 DEF ServerDisconnect
    <2> QED BY <2>3, <2>4 DEF IInv
  <1>20. CASE UNCHANGED vars
    BY <1>1, <1>4, <1>20 DEF vars, ServerOK, IInv
  <1> QED
    BY <1>5, <1>6, <1>7, <1>8, <1>9, <1>10, <1>16, <1>17, <1>18, <1>19, <1>20 DEF Next

\* The invariant holds in every state of every behaviour.
THEOREM Invariance == Spec => []IInv
  BY InitInv, NextInv, PTL DEF Spec

\* Type correctness, in particular that the queue of writes stays empty and
\* that a failed open never leaves its handle behind.
THEOREM TypeCorrect == Spec => []TypeOK
  <1>1. IInv => TypeOK
    BY GoodType DEF IInv, ServerOK, TypeOK
  <1> QED BY <1>1, Invariance, PTL

\* async_close never destroys a request that has already been freed, for any
\* number of overlapping requests and any order of replies and failures.
THEOREM NoDangling == Spec => []NoDanglingRequest
  <1>1. IInv => NoDanglingRequest
    BY DEF IInv, Good, View, RreqOK, NoDanglingRequest
  <1> QED BY <1>1, Invariance, PTL

\* The program does not outlive its connection: when smbcli_transport_dead has
\* completed every request, the user of the control pipe has exited.
THEOREM DeadMeansExit == Spec => []ExitOnDeadTransport
  <1>1. IInv => ExitOnDeadTransport
    <2> SUFFICES ASSUME Good(View), User = "ctrl", transport.dead,
                        transport.pending_recv = {}, ~user.exited
                 PROVE  FALSE
      BY DEF IInv, ExitOnDeadTransport
    <2>1. View.t = transport /\ View.u = user
      BY DEF View
    <2>2. Expecting(View)
      BY <2>1 DEF Good
    <2>3. user.state \in {"OPENING", "OPEN", "CLOSING"}
      BY GoodType DEF Users
    <2> QED BY <2>1, <2>2, <2>3 DEF Expecting
  <1> QED BY <1>1, Invariance, PTL

-----------------------------------------------------------------------------
(***************************************************************************)
(* What the order of requests and replies guarantees while the program     *)
(* runs on a live connection.                                              *)
(***************************************************************************)

Live == ~transport.dead /\ ~user.exited

Data == {"read", "write"}

\* The elements of a sequence.
On(w) == {w[i] : i \in 1..Len(w)}

\* Requests are on the wire in the order of their mids, and what the server
\* has parked or answered was sent before what is still on the wire.
Sequenced(t, s, p) ==
    /\ \A i, j \in 1..Len(t.wire) : i < j => t.wire[i].mid < t.wire[j].mid
    /\ \A r \in On(t.wire) : /\ r.mid < t.next_mid
                             /\ \A q \in s.parked : q.mid < r.mid
                             /\ \A e \in On(p) : e.mid < r.mid
    /\ \A q \in s.parked : /\ q.mid < t.next_mid
                           /\ \A e \in On(p) : e.mid # q.mid
                           /\ \A q2 \in s.parked : q2.mid = q.mid => q2 = q
    /\ \A e \in On(p) : e.mid < t.next_mid

\* The mid of an outstanding request is its own.
Named(t, s) ==
    \A r \in t.pending_recv :
        \A q \in On(t.wire) \cup s.parked \cup t.pending_recv : q.mid = r.mid => q = r

\* An outstanding request is on the wire, parked or answered.
Located(t, s, p) ==
    \A r \in t.pending_recv :
        r \in On(t.wire) \/ r \in s.parked \/ \E e \in On(p) : e.mid = r.mid

Parking(s) == \A q \in s.parked : q.kind \in Data /\ q.fnum \in s.open

\* Opens and closes are never overtaken and never overtake.
Barriers(t, p) ==
    \A b, r \in t.pending_recv : \A j \in 1..Len(p) :
        b.kind \notin Data =>
            /\ r.mid < b.mid /\ p[j].mid = b.mid => \E i \in 1..(j-1) : p[i].mid = r.mid
            /\ b.mid < r.mid /\ p[j].mid = r.mid => \E i \in 1..(j-1) : p[i].mid = b.mid

\* Only an open is told that the name was not found.
NotFound(t, p) ==
    \A r \in t.pending_recv, e \in On(p) :
        e.mid = r.mid /\ e.status = "OBJECT_NAME_NOT_FOUND" => r.kind = "open"

Base(t, s, p) ==
    /\ Sequenced(t, s, p) /\ Named(t, s) /\ Located(t, s, p) /\ Parking(s)
    /\ Barriers(t, p) /\ NotFound(t, p)

\* The handle of the context and the handles the server has open.
Handle(c, t, s, p) ==
    /\ \A r \in On(t.wire) : r.kind = "open" => r \in t.pending_recv /\ s.open = {}
    /\ \A a, b \in t.pending_recv : a.kind = "open" /\ b.kind \notin Data => a = b
    /\ (\A a \in t.pending_recv : a.kind # "open") => s.open \subseteq {c.fd}
    /\ \A a \in t.pending_recv, e \in On(p) : e.mid = a.mid =>
          /\ a.kind = "open" =>
                s.open \subseteq (IF e.status = "OK" THEN {e.fnum} ELSE {})
          /\ a.kind = "close" => s.open = {}
    /\ \A a \in t.pending_recv : a.kind = "close" => a.fnum = c.fd /\ ~a.timed

\* r has been answered with success.
Succeeds(p, r) == \E e \in On(p) : e.mid = r.mid /\ e.status = "OK"

\* The phases of the control pipe.  OPENING: what is outstanding from before
\* fails, and only after the open has succeeded can anything succeed.
\* CLOSING: what was sent after the close fails.
CtrlOpening(c, t, p) ==
    /\ c.io_open /\ c.io_read = NULL
    /\ \A a \in t.pending_recv : a.kind # "close"
    /\ \A o, r \in t.pending_recv : o.kind = "open" =>
          /\ r.kind = "read" => r.mid < o.mid
          /\ r.kind = "write" /\ o.mid < r.mid => c.io_write # NULL
          /\ r.kind \in Data /\ Succeeds(p, r) =>
                /\ o.mid < r.mid
                /\ \A e \in On(p) : e.mid = o.mid => e.status = "OK"

CtrlOpen(c, t) ==
    /\ ~t.request_timeout /\ c.io_read = c.fd
    /\ \A a \in t.pending_recv : a.kind \in Data
    /\ \A r \in t.pending_recv : r.kind = "write" => c.io_write # NULL

CtrlClosing(c, t, p) ==
    /\ ~t.request_timeout
    /\ \E k \in t.pending_recv : k.kind = "close"
    /\ \A a \in t.pending_recv : a.kind # "open"
    /\ \A a, b \in t.pending_recv : a.kind = "close" /\ b.kind = "close" => a = b
    /\ \A k, r \in t.pending_recv : k.kind = "close" =>
          /\ r.kind = "read" => k.mid < r.mid
          /\ r.kind = "write" => c.io_write # NULL
          /\ r.kind \in Data /\ k.mid < r.mid => ~Succeeds(p, r)

\* The phases of an I/O pipe: the open is outstanding; it has failed; the pipe
\* is open and read; a read or a write has failed and the pipe is given up.
IoOpening(c, t, s, p) ==
    /\ c.io_open
    /\ \A a \in t.pending_recv : a.kind = "open"
    /\ \A r \in On(t.wire) : r.kind = "open"
    /\ Len(t.wire) + Len(p) <= 1 /\ s.parked = {}

IoFailed(t) == \A a \in t.pending_recv : a.kind = "close"

IoOpen(c, t, s, p) ==
    /\ c.io_read = c.fd
    /\ c.io_write \in {NULL, c.fd}
    /\ \A r \in t.pending_recv : /\ r.kind \in Data
                                 /\ r.kind = "read" => r.mid = c.rreq
                                 /\ r.kind = "write" => c.io_write # NULL
    /\ \A r \in On(t.wire) : r.kind \in Data /\ r.fnum = c.fd
    /\ \A e \in On(p) : e.status # "OK" => c.fd \notin s.open \ s.broken
    /\ \A i, j \in 1..Len(p) : i < j /\ p[i].status # "OK" => p[j].status # "OK"

IoGivenUp(c, t, s, p) ==
    /\ c.fd \notin s.open \ s.broken
    /\ \A r \in t.pending_recv : /\ r.kind \in {"write", "close"}
                                 /\ r.kind = "write" => ~Succeeds(p, r)

Phase(c, t, u, s, p) ==
    IF User = "ctrl"
    THEN /\ u.state = "OPENING" => CtrlOpening(c, t, p)
         /\ u.state = "OPEN" => CtrlOpen(c, t)
         /\ u.state = "CLOSING" => CtrlClosing(c, t, p)
    ELSE /\ ~t.request_timeout
         /\ \A r \in t.pending_recv : ~r.timed
         /\ u.state # "CLOSING"
         /\ u.state = "OPENING" =>
               /\ u.sources = 0 /\ c.io_read = NULL /\ c.io_write = NULL
               /\ IoOpening(c, t, s, p) \/ IoFailed(t)
         /\ u.state = "OPEN" => IF c.rreq # NULL THEN IoOpen(c, t, s, p)
                                                 ELSE IoGivenUp(c, t, s, p)

\* At most one read is outstanding, in the open state of the current handle.
OneRead(c, t, u) ==
    /\ \A a, b \in t.pending_recv : a.kind = "read" /\ b.kind = "read" => a = b
    /\ u.state = "OPEN" => \A a \in t.pending_recv : a.kind = "read" => a.fnum = c.fd

LiveInv(c, t, u, s, p) == Base(t, s, p) /\ Handle(c, t, s, p) /\ Phase(c, t, u, s, p)

\* The inductive invariant, on top of IInv.
JInv ==
    /\ ~user.fault
    /\ OneRead(ac, transport, user)
    /\ Live => LiveInv(ac, transport, user, srv, replies)

Servers == [open : SUBSET Fnum, broken : SUBSET Fnum, parked : SUBSET Requests]

-----------------------------------------------------------------------------
\* The elements of a sequence after Append.
LEMMA OnAppend ==
    ASSUME NEW S, NEW w \in Seq(S), NEW e \in S
    PROVE  /\ On(Append(w, e)) = On(w) \cup {e}
           /\ Len(Append(w, e)) = Len(w) + 1
           /\ Append(w, e)[Len(w) + 1] = e
           /\ \A i \in 1..Len(w) : Append(w, e)[i] = w[i]
           /\ \A i \in 1..(Len(w) + 1) : i \in 1..Len(w) \/ i = Len(w) + 1
  <1>1. /\ Len(Append(w, e)) = Len(w) + 1
        /\ Append(w, e)[Len(w) + 1] = e
        /\ \A i \in 1..Len(w) : Append(w, e)[i] = w[i]
    OBVIOUS
  <1>2. /\ \A i \in 1..(Len(w) + 1) : i \in 1..Len(w) \/ i = Len(w) + 1
        /\ Len(w) + 1 \in 1..(Len(w) + 1)
        /\ \A i \in 1..Len(w) : i \in 1..(Len(w) + 1)
    OBVIOUS
  <1>3. On(Append(w, e)) = On(w) \cup {e}
    BY <1>1, <1>2 DEF On
  <1> QED BY <1>1, <1>2, <1>3

\* The elements of a sequence without its head.
LEMMA OnTail ==
    ASSUME NEW S, NEW w \in Seq(S), w # <<>>
    PROVE  /\ Len(w) \in Nat \ {0} /\ Len(Tail(w)) = Len(w) - 1
           /\ 1 \in 1..Len(w) /\ Head(w) = w[1] /\ Head(w) \in On(w)
           /\ On(w) = {Head(w)} \cup On(Tail(w))
           /\ \A i \in 1..(Len(w) - 1) : Tail(w)[i] = w[i + 1] /\ i + 1 \in 1..Len(w)
  <1>1. /\ Len(w) \in Nat \ {0} /\ Len(Tail(w)) = Len(w) - 1
        /\ 1 \in 1..Len(w) /\ Head(w) = w[1]
        /\ \A i \in 1..(Len(w) - 1) : Tail(w)[i] = w[i + 1] /\ i + 1 \in 1..Len(w)
    OBVIOUS
  <1>2. \A i \in 1..Len(w) : i = 1 \/ (i - 1 \in 1..(Len(w) - 1) /\ (i - 1) + 1 = i)
    BY <1>1
  <1>3. ASSUME NEW e PROVE e \in On(w) <=> e \in {Head(w)} \cup On(Tail(w))
    <2>1. ASSUME e \in On(w) PROVE e \in {Head(w)} \cup On(Tail(w))
      <3>1. PICK i \in 1..Len(w) : e = w[i]
        BY <2>1 DEF On
      <3>2. CASE i = 1
        BY <1>1, <3>1, <3>2
      <3>3. CASE i - 1 \in 1..(Len(w) - 1) /\ (i - 1) + 1 = i
        <4>1. Tail(w)[i - 1] = e
          BY <1>1, <3>1, <3>3
        <4> QED BY <1>1, <3>3, <4>1 DEF On
      <3> QED BY <1>2, <3>2, <3>3
    <2>2. ASSUME e \in {Head(w)} \cup On(Tail(w)) PROVE e \in On(w)
      BY <1>1, <2>2 DEF On
    <2> QED BY <2>1, <2>2
  <1>4. On(w) = {Head(w)} \cup On(Tail(w))
    BY <1>3
  <1> QED BY <1>1, <1>4

\* Elements of a sequence have its type.
LEMMA OnType == ASSUME NEW S, NEW w \in Seq(S) PROVE On(w) \subseteq S
  BY DEF On

\* The numbers that are compared.
LEMMA Mids ==
    ASSUME NEW t \in Transports, NEW s \in Servers, NEW p \in Seq(ReplySet)
    PROVE  /\ t.next_mid \in Nat
           /\ t.wire \in Seq(Requests)
           /\ \A r \in On(t.wire) : r \in Requests /\ r.mid \in Nat
           /\ \A r \in t.pending_recv : r \in Requests /\ r.mid \in Nat
           /\ \A r \in s.parked : r \in Requests /\ r.mid \in Nat
           /\ \A e \in On(p) : e.mid \in Nat
           /\ \A i \in 1..Len(t.wire) : t.wire[i] \in On(t.wire) /\ t.wire[i].mid \in Nat
           /\ \A i \in 1..Len(p) : p[i] \in On(p) /\ p[i].mid \in Nat
  <1>1. t.next_mid \in Nat /\ t.wire \in Seq(Requests) /\ t.pending_recv \subseteq Requests
    BY DEF Transports
  <1>2. s.parked \subseteq Requests
    BY DEF Servers
  <1>3. On(t.wire) \subseteq Requests /\ On(p) \subseteq ReplySet
    BY <1>1, OnType
  <1>4. (\A r \in Requests : r.mid \in Nat) /\ (\A e \in ReplySet : e.mid \in Nat)
    BY DEF Requests, ReplySet
  <1>5. /\ \A i \in 1..Len(t.wire) : t.wire[i] \in On(t.wire)
        /\ \A i \in 1..Len(p) : p[i] \in On(p)
    BY DEF On
  <1> QED BY <1>1, <1>2, <1>3, <1>4, <1>5

-----------------------------------------------------------------------------
\* Requests may leave pending_recv.
LEMMA BaseShrink ==
    ASSUME NEW t, NEW t2, NEW s, NEW p, Base(t, s, p),
           t2.pending_recv \subseteq t.pending_recv,
           t2.wire = t.wire, t2.next_mid = t.next_mid
    PROVE  Base(t2, s, p)
  <1>1. Sequenced(t2, s, p)
    BY DEF Base, Sequenced
  <1>2. Named(t2, s)
    BY DEF Base, Named
  <1>3. Located(t2, s, p)
    BY DEF Base, Located
  <1>4. Barriers(t2, p)
    BY DEF Base, Barriers
  <1>5. NotFound(t2, p)
    BY DEF Base, NotFound
  <1> QED BY <1>1, <1>2, <1>3, <1>4, <1>5 DEF Base

\* A reply that no outstanding request is waiting for may be taken away.
LEMMA BaseTail ==
    ASSUME NEW t \in Transports, NEW s \in Servers, NEW p \in Seq(ReplySet), p # <<>>,
           Base(t, s, p), \A r \in t.pending_recv : r.mid # Head(p).mid
    PROVE  Base(t, s, Tail(p))
  <1> DEFINE p2 == Tail(p)
  <1>1. /\ Len(p) \in Nat \ {0} /\ Len(p2) = Len(p) - 1
        /\ 1 \in 1..Len(p) /\ Head(p) = p[1]
        /\ On(p) = {Head(p)} \cup On(p2)
        /\ \A i \in 1..(Len(p) - 1) : p2[i] = p[i + 1] /\ i + 1 \in 1..Len(p)
    BY OnTail
  <1> HIDE DEF p2
  <1>2. Sequenced(t, s, p2)
    BY <1>1 DEF Base, Sequenced
  <1>3. Located(t, s, p2)
    BY <1>1 DEF Base, Located
  <1>4. NotFound(t, p2)
    BY <1>1 DEF Base, NotFound
  <1>5. ASSUME NEW a \in t.pending_recv, NEW j \in 1..Len(p2),
               \E i \in 1..((j+1)-1) : p[i].mid = a.mid
        PROVE  \E i \in 1..(j-1) : p2[i].mid = a.mid
    <2>1. PICK i \in 1..j : p[i].mid = a.mid
      BY <1>5
    <2>2. i # 1 /\ i - 1 \in 1..(j - 1) /\ i - 1 \in 1..(Len(p) - 1) /\ (i - 1) + 1 = i
      BY <1>1, <2>1
    <2>3. p2[i - 1].mid = a.mid
      BY <1>1, <2>1, <2>2
    <2> QED BY <2>2, <2>3
  <1>6. Barriers(t, p2)
    <2> SUFFICES ASSUME NEW b \in t.pending_recv, NEW r \in t.pending_recv,
                        NEW j \in 1..Len(p2), b.kind \notin Data
                 PROVE  /\ r.mid < b.mid /\ p2[j].mid = b.mid => \E i \in 1..(j-1) : p2[i].mid = r.mid
                        /\ b.mid < r.mid /\ p2[j].mid = r.mid => \E i \in 1..(j-1) : p2[i].mid = b.mid
      BY DEF Barriers
    <2>1. p2[j] = p[j + 1] /\ j + 1 \in 1..Len(p)
      BY <1>1
    <2>2. /\ r.mid < b.mid /\ p[j+1].mid = b.mid => \E i \in 1..((j+1)-1) : p[i].mid = r.mid
          /\ b.mid < r.mid /\ p[j+1].mid = r.mid => \E i \in 1..((j+1)-1) : p[i].mid = b.mid
      BY <2>1 DEF Base, Barriers
    <2> QED BY <1>5, <2>1, <2>2
  <1>7. Base(t, s, p2)
    BY <1>2, <1>3, <1>4, <1>6 DEF Base
  <1> QED BY <1>7 DEF p2

\* t2 is t after r was sent on the live transport.
Issued(t, t2, r) ==
    /\ r \in Requests /\ r.mid = t.next_mid /\ r.timed = t.request_timeout
    /\ t2 \in Transports
    /\ t2.next_mid = t.next_mid + 1
    /\ t2.pending_recv = t.pending_recv \cup {r}
    /\ t2.wire = Append(t.wire, r)
    /\ t2.dead = t.dead

\* Another request may be sent.
LEMMA BaseIssue ==
    ASSUME NEW t \in Transports, NEW s \in Servers, NEW p \in Seq(ReplySet),
           NEW t2, NEW r, Issued(t, t2, r), Base(t, s, p),
           \A q \in t.pending_recv : q.mid < t.next_mid
    PROVE  Base(t2, s, p)
  <1>1. /\ t.next_mid \in Nat
        /\ t.wire \in Seq(Requests)
        /\ \A q \in On(t.wire) \cup t.pending_recv \cup s.parked : q.mid \in Nat
        /\ \A e \in On(p) : e.mid \in Nat
        /\ \A i \in 1..Len(t.wire) : t.wire[i] \in On(t.wire)
        /\ \A i \in 1..Len(p) : p[i] \in On(p)
    BY Mids
  <1>2. /\ r \in Requests /\ r.mid = t.next_mid
        /\ t2.next_mid = t.next_mid + 1
        /\ t2.pending_recv = t.pending_recv \cup {r}
    BY DEF Issued
  <1>3. /\ On(t2.wire) = On(t.wire) \cup {r}
        /\ Len(t2.wire) = Len(t.wire) + 1
        /\ t2.wire[Len(t.wire) + 1] = r
        /\ \A i \in 1..Len(t.wire) : t2.wire[i] = t.wire[i]
        /\ \A i \in 1..(Len(t.wire) + 1) : i \in 1..Len(t.wire) \/ i = Len(t.wire) + 1
        /\ Len(t.wire) \in Nat
    BY <1>1, <1>2, OnAppend DEF Issued
  <1>4. /\ \A q \in On(t.wire) \cup s.parked \cup t.pending_recv : q.mid < t.next_mid
        /\ \A e \in On(p) : e.mid < t.next_mid
    BY DEF Base, Sequenced
  <1>5. Sequenced(t2, s, p)
    <2>1. ASSUME NEW i \in 1..Len(t2.wire), NEW j \in 1..Len(t2.wire), i < j
          PROVE  t2.wire[i].mid < t2.wire[j].mid
      <3>1. i \in 1..Len(t.wire)
        BY <1>3, <2>1
      <3>2. CASE j \in 1..Len(t.wire)
        BY <1>3, <2>1, <3>1, <3>2 DEF Base, Sequenced
      <3>3. CASE j = Len(t.wire) + 1
        BY <1>1, <1>2, <1>3, <1>4, <3>1, <3>3
      <3> QED BY <1>3, <3>2, <3>3
    <2>2. \A q \in On(t2.wire) : /\ q.mid < t2.next_mid
                                 /\ \A q2 \in s.parked : q2.mid < q.mid
                                 /\ \A e \in On(p) : e.mid < q.mid
      BY <1>1, <1>2, <1>3, <1>4 DEF Base, Sequenced
    <2>3. \A q \in s.parked : /\ q.mid < t2.next_mid
                              /\ \A e \in On(p) : e.mid # q.mid
                              /\ \A q2 \in s.parked : q2.mid = q.mid => q2 = q
      BY <1>1, <1>2, <1>4 DEF Base, Sequenced
    <2>4. \A e \in On(p) : e.mid < t2.next_mid
      BY <1>1, <1>2, <1>4
    <2> QED BY <2>1, <2>2, <2>3, <2>4 DEF Sequenced
  <1>6. Named(t2, s)
    BY <1>1, <1>2, <1>3, <1>4 DEF Base, Named
  <1>7. Located(t2, s, p)
    BY <1>2, <1>3 DEF Base, Located
  <1>8. Barriers(t2, p)
    <2> SUFFICES ASSUME NEW b \in t2.pending_recv, NEW q \in t2.pending_recv,
                        NEW j \in 1..Len(p), b.kind \notin Data
                 PROVE  /\ q.mid < b.mid /\ p[j].mid = b.mid => \E i \in 1..(j-1) : p[i].mid = q.mid
                        /\ b.mid < q.mid /\ p[j].mid = q.mid => \E i \in 1..(j-1) : p[i].mid = b.mid
      BY DEF Barriers
    <2>1. p[j].mid < t.next_mid /\ p[j].mid \in Nat
      BY <1>1, <1>4
    <2>2. CASE b \in t.pending_recv /\ q \in t.pending_recv
      BY <2>2 DEF Base, Barriers
    <2>3. CASE b = r \/ q = r
      BY <1>1, <1>2, <1>4, <2>1, <2>3
    <2> QED BY <1>2, <2>2, <2>3
  <1>9. NotFound(t2, p)
    BY <1>1, <1>2, <1>4 DEF Base, NotFound
  <1> QED BY <1>5, <1>6, <1>7, <1>8, <1>9 DEF Base

-----------------------------------------------------------------------------
\* t2 is t after the server has taken r from the wire.
Taken(t, t2, r) ==
    /\ t.wire # <<>> /\ r = Head(t.wire)
    /\ t2 = [t EXCEPT !.wire = Tail(@)]

\* The request the server takes is older than those that stay on the wire.
LEMMA TakenFacts ==
    ASSUME NEW t \in Transports, NEW s \in Servers, NEW p \in Seq(ReplySet),
           NEW t2, NEW r, Taken(t, t2, r), Sequenced(t, s, p)
    PROVE  /\ r \in Requests /\ r \in On(t.wire) /\ r.mid \in Nat
           /\ t2 \in Transports
           /\ t2.pending_recv = t.pending_recv /\ t2.next_mid = t.next_mid
           /\ t2.request_timeout = t.request_timeout /\ t2.dead = t.dead
           /\ Len(t2.wire) = Len(t.wire) - 1 /\ Len(t.wire) \in Nat
           /\ On(t.wire) = {r} \cup On(t2.wire)
           /\ \A q \in On(t2.wire) : r.mid < q.mid /\ q.mid \in Nat
           /\ \A i, j \in 1..Len(t2.wire) : i < j => t2.wire[i].mid < t2.wire[j].mid
  <1>1. /\ t.wire \in Seq(Requests) /\ t.wire # <<>> /\ r = Head(t.wire)
    BY DEF Taken, Transports
  <1>2. r \in Requests /\ Tail(t.wire) \in Seq(Requests) /\ r.mid \in Nat
    <2>1. r \in Requests /\ Tail(t.wire) \in Seq(Requests)
      BY <1>1
    <2> QED BY <2>1 DEF Requests
  <1>3. /\ t2 \in Transports /\ t2.wire = Tail(t.wire)
        /\ t2.pending_recv = t.pending_recv /\ t2.next_mid = t.next_mid
        /\ t2.request_timeout = t.request_timeout /\ t2.dead = t.dead
    BY <1>2 DEF Taken, Transports
  <1>4. /\ Len(t.wire) \in Nat \ {0} /\ Len(t2.wire) = Len(t.wire) - 1
        /\ 1 \in 1..Len(t.wire) /\ Head(t.wire) = t.wire[1] /\ Head(t.wire) \in On(t.wire)
        /\ On(t.wire) = {r} \cup On(t2.wire)
        /\ \A i \in 1..(Len(t.wire) - 1) :
              t2.wire[i] = t.wire[i + 1] /\ i + 1 \in 1..Len(t.wire)
    BY <1>1, <1>3, OnTail
  <1>5. ASSUME NEW i \in 1..Len(t2.wire), NEW j \in 1..Len(t2.wire), i < j
        PROVE  t2.wire[i].mid < t2.wire[j].mid
    <2>1. i \in 1..(Len(t.wire) - 1) /\ j \in 1..(Len(t.wire) - 1) /\ i + 1 < j + 1
      BY <1>4, <1>5
    <2>2. t2.wire[i] = t.wire[i + 1] /\ i + 1 \in 1..Len(t.wire)
      BY <1>4, <2>1
    <2>3. t2.wire[j] = t.wire[j + 1] /\ j + 1 \in 1..Len(t.wire)
      BY <1>4, <2>1
    <2>4. t.wire[i + 1].mid < t.wire[j + 1].mid
      BY <2>1, <2>2, <2>3 DEF Sequenced
    <2> QED BY <2>2, <2>3, <2>4
  <1>6. ASSUME NEW q \in On(t2.wire) PROVE r.mid < q.mid /\ q.mid \in Nat
    <2>1. PICK i \in 1..Len(t2.wire) : q = t2.wire[i]
      BY DEF On
    <2>2. q = t.wire[i + 1] /\ i + 1 \in 1..Len(t.wire) /\ 1 < i + 1
      BY <1>4, <2>1
    <2>3. q \in Requests
      BY <1>1, <2>2
    <2> QED BY <1>1, <1>4, <2>2, <2>3 DEF Sequenced, Requests
  <1> QED BY <1>1, <1>2, <1>3, <1>4, <1>5, <1>6

\* The server answers the request it takes.
LEMMA BaseAnswer ==
    ASSUME NEW t \in Transports, NEW s \in Servers, NEW p \in Seq(ReplySet),
           NEW t2, NEW r, Taken(t, t2, r), NEW s2, NEW e \in ReplySet, NEW p2,
           Base(t, s, p), e.mid = r.mid, p2 = Append(p, e),
           e.status = "OBJECT_NAME_NOT_FOUND" => r.kind = "open",
           s2.parked = s.parked, \A q \in s.parked : q.fnum \in s2.open,
           r.kind \notin Data /\ r \in t.pending_recv => s.parked = {}
    PROVE  Base(t2, s2, p2)
  <1>1. /\ t.next_mid \in Nat
        /\ \A q \in On(t.wire) \cup t.pending_recv \cup s.parked : q.mid \in Nat
        /\ \A d \in On(p) : d.mid \in Nat
        /\ \A i \in 1..Len(p) : p[i] \in On(p)
    BY Mids
  <1>2. Sequenced(t, s, p)
    BY DEF Base
  <1>3. /\ r \in On(t.wire)
        /\ t2.pending_recv = t.pending_recv /\ t2.next_mid = t.next_mid
        /\ On(t.wire) = {r} \cup On(t2.wire)
        /\ \A q \in On(t2.wire) : r.mid < q.mid
        /\ \A i, j \in 1..Len(t2.wire) : i < j => t2.wire[i].mid < t2.wire[j].mid
    BY <1>2, TakenFacts
  <1>4. /\ On(p2) = On(p) \cup {e}
        /\ Len(p2) = Len(p) + 1
        /\ p2[Len(p) + 1] = e
        /\ \A i \in 1..Len(p) : p2[i] = p[i]
        /\ \A i \in 1..(Len(p) + 1) : i \in 1..Len(p) \/ i = Len(p) + 1
        /\ Len(p) \in Nat
    BY OnAppend
  <1>5. /\ r.mid < t.next_mid
        /\ \A q \in s.parked : q.mid < r.mid
        /\ \A d \in On(p) : d.mid < r.mid
    BY <1>2, <1>3 DEF Sequenced
  <1>6. Sequenced(t2, s2, p2)
    BY <1>1, <1>2, <1>3, <1>4, <1>5 DEF Sequenced
  <1>7. Named(t2, s2)
    BY <1>3 DEF Base, Named
  <1>8. Located(t2, s2, p2)
    BY <1>3, <1>4 DEF Base, Located
  <1>9. Parking(s2)
    BY DEF Base, Parking
  <1>10. ASSUME NEW a \in t.pending_recv, a.mid < r.mid, a \notin s.parked
         PROVE  \E i \in 1..Len(p) : p2[i].mid = a.mid
    <2>1. a \notin On(t.wire)
      BY <1>1, <1>3, <1>10
    <2>2. \E d \in On(p) : d.mid = a.mid
      BY <1>10, <2>1 DEF Base, Located
    <2>3. \E i \in 1..Len(p) : p[i].mid = a.mid
      BY <2>2 DEF On
    <2> QED BY <1>4, <2>3
  <1>11. Barriers(t2, p2)
    <2> SUFFICES ASSUME NEW b \in t.pending_recv, NEW q \in t.pending_recv,
                        NEW j \in 1..Len(p2), b.kind \notin Data
                 PROVE  /\ q.mid < b.mid /\ p2[j].mid = b.mid => \E i \in 1..(j-1) : p2[i].mid = q.mid
                        /\ b.mid < q.mid /\ p2[j].mid = q.mid => \E i \in 1..(j-1) : p2[i].mid = b.mid
      BY <1>3 DEF Barriers
    <2>1. CASE j \in 1..Len(p)
      <3>1. p2[j] = p[j] /\ \A i \in 1..(j-1) : p2[i] = p[i]
        BY <1>4, <2>1
      <3>2. /\ q.mid < b.mid /\ p[j].mid = b.mid => \E i \in 1..(j-1) : p[i].mid = q.mid
            /\ b.mid < q.mid /\ p[j].mid = q.mid => \E i \in 1..(j-1) : p[i].mid = b.mid
        BY <2>1 DEF Base, Barriers
      <3> QED BY <3>1, <3>2
    <2>2. CASE j = Len(p) + 1
      <3>1. p2[j].mid = r.mid /\ j - 1 = Len(p)
        BY <1>4, <2>2
      <3>2. ASSUME q.mid < b.mid, r.mid = b.mid
            PROVE  \E i \in 1..(j-1) : p2[i].mid = q.mid
        <4>1. r = b
          BY <1>3, <3>2 DEF Base, Named
        <4> QED BY <1>10, <3>1, <3>2, <4>1
      <3>3. ASSUME b.mid < q.mid, r.mid = q.mid
            PROVE  \E i \in 1..(j-1) : p2[i].mid = b.mid
        <4>1. b \notin s.parked
          BY DEF Base, Parking
        <4> QED BY <1>10, <3>1, <3>3, <4>1
      <3> QED BY <3>1, <3>2, <3>3
    <2> QED BY <1>4, <2>1, <2>2
  <1>12. NotFound(t2, p2)
    <2>1. \A q \in t.pending_recv : q.mid = r.mid => q = r
      BY <1>3 DEF Base, Named
    <2> QED BY <1>3, <1>4, <2>1 DEF Base, NotFound
  <1> QED BY <1>6, <1>7, <1>8, <1>9, <1>11, <1>12 DEF Base

\* The server parks the request it takes.
LEMMA BasePark ==
    ASSUME NEW t \in Transports, NEW s \in Servers, NEW p \in Seq(ReplySet),
           NEW t2, NEW r, Taken(t, t2, r), NEW s2, Base(t, s, p),
           s2.parked = s.parked \cup {r}, s2.open = s.open,
           r.kind \in Data, r.fnum \in s.open
    PROVE  Base(t2, s2, p)
  <1>1. /\ t.next_mid \in Nat
        /\ \A q \in On(t.wire) \cup t.pending_recv \cup s.parked : q.mid \in Nat
        /\ \A d \in On(p) : d.mid \in Nat
    BY Mids
  <1>2. Sequenced(t, s, p)
    BY DEF Base
  <1>3. /\ r \in On(t.wire)
        /\ t2.pending_recv = t.pending_recv /\ t2.next_mid = t.next_mid
        /\ On(t.wire) = {r} \cup On(t2.wire)
        /\ \A q \in On(t2.wire) : r.mid < q.mid
        /\ \A i, j \in 1..Len(t2.wire) : i < j => t2.wire[i].mid < t2.wire[j].mid
    BY <1>2, TakenFacts
  <1>4. /\ r.mid < t.next_mid
        /\ \A q \in s.parked : q.mid < r.mid
        /\ \A d \in On(p) : d.mid < r.mid
    BY <1>2, <1>3 DEF Sequenced
  <1>5. Sequenced(t2, s2, p)
    BY <1>1, <1>2, <1>3, <1>4 DEF Sequenced
  <1>6. Named(t2, s2)
    BY <1>3 DEF Base, Named
  <1>7. Located(t2, s2, p)
    BY <1>3 DEF Base, Located
  <1>8. Parking(s2)
    BY DEF Base, Parking
  <1>9. Barriers(t2, p) /\ NotFound(t2, p)
    BY <1>3 DEF Base, Barriers, NotFound
  <1> QED BY <1>5, <1>6, <1>7, <1>8, <1>9 DEF Base

\* The server completes or cancels a parked request.
LEMMA BaseUnpark ==
    ASSUME NEW t \in Transports, NEW s \in Servers, NEW p \in Seq(ReplySet),
           NEW q \in s.parked, NEW s2, NEW e \in ReplySet, NEW p2,
           Base(t, s, p), e.mid = q.mid, p2 = Append(p, e),
           e.status # "OBJECT_NAME_NOT_FOUND",
           s2.parked = s.parked \ {q}, s2.open = s.open
    PROVE  Base(t, s2, p2)
  <1>1. /\ t.next_mid \in Nat
        /\ \A r \in On(t.wire) \cup t.pending_recv \cup s.parked : r.mid \in Nat
        /\ \A d \in On(p) : d.mid \in Nat
    BY Mids
  <1>2. /\ On(p2) = On(p) \cup {e}
        /\ Len(p2) = Len(p) + 1
        /\ p2[Len(p) + 1] = e
        /\ \A i \in 1..Len(p) : p2[i] = p[i]
        /\ \A i \in 1..(Len(p) + 1) : i \in 1..Len(p) \/ i = Len(p) + 1
        /\ Len(p) \in Nat
    BY OnAppend
  <1>3. Sequenced(t, s2, p2)
    BY <1>1, <1>2 DEF Base, Sequenced
  <1>4. Named(t, s2)
    BY DEF Base, Named
  <1>5. Located(t, s2, p2)
    BY <1>2 DEF Base, Located
  <1>6. Parking(s2)
    BY DEF Base, Parking
  <1>7. \A r \in t.pending_recv : r.mid = q.mid => r = q
    BY DEF Base, Named
  <1>8. Barriers(t, p2)
    <2> SUFFICES ASSUME NEW b \in t.pending_recv, NEW r \in t.pending_recv,
                        NEW j \in 1..Len(p2), b.kind \notin Data
                 PROVE  /\ r.mid < b.mid /\ p2[j].mid = b.mid => \E i \in 1..(j-1) : p2[i].mid = r.mid
                        /\ b.mid < r.mid /\ p2[j].mid = r.mid => \E i \in 1..(j-1) : p2[i].mid = b.mid
      BY DEF Barriers
    <2>1. CASE j \in 1..Len(p)
      <3>1. p2[j] = p[j] /\ \A i \in 1..(j-1) : p2[i] = p[i]
        BY <1>2, <2>1
      <3>2. /\ r.mid < b.mid /\ p[j].mid = b.mid => \E i \in 1..(j-1) : p[i].mid = r.mid
            /\ b.mid < r.mid /\ p[j].mid = r.mid => \E i \in 1..(j-1) : p[i].mid = b.mid
        BY <2>1 DEF Base, Barriers
      <3> QED BY <3>1, <3>2
    <2>2. CASE j = Len(p) + 1
      <3>1. p2[j].mid = q.mid /\ j - 1 = Len(p)
        BY <1>2, <2>2
      <3>2. q.mid # b.mid /\ b \notin s.parked
        BY <1>7 DEF Base, Parking
      <3>3. ASSUME b.mid < r.mid, q.mid = r.mid
            PROVE  \E i \in 1..(j-1) : p2[i].mid = b.mid
        <4>1. b \notin On(t.wire)
          BY <1>1, <3>3 DEF Base, Sequenced
        <4>2. \E d \in On(p) : d.mid = b.mid
          BY <3>2, <4>1 DEF Base, Located
        <4>3. \E i \in 1..Len(p) : p[i].mid = b.mid
          BY <4>2 DEF On
        <4> QED BY <1>2, <3>1, <4>3
      <3> QED BY <3>1, <3>2, <3>3
    <2> QED BY <1>2, <2>1, <2>2
  <1>9. NotFound(t, p2)
    BY <1>2 DEF Base, NotFound
  <1> QED BY <1>3, <1>4, <1>5, <1>6, <1>8, <1>9 DEF Base

-----------------------------------------------------------------------------
\* What the server does when it answers r with e: r is the request at the head
\* of the wire or a parked one.
Answers(t, t2, s, s2, p, p2, r, e) ==
    /\ r \in On(t.wire) \cup s.parked
    /\ \A q \in On(t.wire) : r.mid <= q.mid
    /\ t2.pending_recv = t.pending_recv /\ t2.request_timeout = t.request_timeout
    /\ On(t2.wire) \subseteq On(t.wire)
    /\ r \in On(t.wire) => /\ Len(t2.wire) = Len(t.wire) - 1
                           /\ \A q \in On(t2.wire) : r.mid < q.mid
    /\ s2.parked \subseteq s.parked
    /\ p2 = Append(p, e) /\ e \in ReplySet /\ e.mid = r.mid
    /\ r.kind = "open" =>
          s2.open = s.open \cup (IF e.status = "OK" THEN {e.fnum} ELSE {})
    /\ r.kind = "close" => s2.open = s.open \ {r.fnum}
    /\ r.kind \in Data => s2.open = s.open
    /\ r.kind # "open" => s2.open \ s2.broken \subseteq s.open \ s.broken
    /\ r.kind \in Data =>
          IF e.status = "OK" THEN r.fnum \in s.open \ s.broken
          ELSE \/ r.fnum \notin s.open \ s.broken
               \/ \E k \in On(t.wire) : k.kind = "close"

\* The handles after an answer.
LEMMA HandleAnswer ==
    ASSUME NEW c, NEW t \in Transports, NEW s \in Servers, NEW p \in Seq(ReplySet),
           NEW t2, NEW s2, NEW p2, NEW r, NEW e, Answers(t, t2, s, s2, p, p2, r, e),
           Base(t, s, p), Handle(c, t, s, p)
    PROVE  Handle(c, t2, s2, p2)
  <1>1. /\ \A q \in On(t.wire) \cup t.pending_recv \cup s.parked : q.mid \in Nat /\ q.kind \in Kinds
        /\ \A d \in On(p) : d.mid \in Nat
    BY Mids DEF Requests
  <1>2. On(p2) = On(p) \cup {e}
    BY OnAppend DEF Answers
  <1>3. /\ \A a \in t.pending_recv : a.mid = r.mid => a = r
        /\ r.kind \notin Data => r \in On(t.wire)
        /\ r \in On(t.wire) => \A d \in On(p) : d.mid < r.mid
    BY DEF Answers, Base, Named, Parking, Sequenced
  <1>4. /\ t2.pending_recv = t.pending_recv /\ On(t2.wire) \subseteq On(t.wire)
        /\ e.mid = r.mid
        /\ r \in On(t.wire) => \A q \in On(t2.wire) : r.mid < q.mid
    BY DEF Answers
  <1>5. r \in On(t.wire) \cup s.parked /\ r.kind \in {"open", "read", "write", "close"}
    BY <1>1 DEF Answers, Kinds
  <1>6. CASE r.kind = "open"
    <2>1. r \in On(t.wire) /\ r \in t.pending_recv /\ s.open = {}
      BY <1>3, <1>6 DEF Handle, Data
    <2>2. \A a \in t.pending_recv : a.kind \notin Data => a = r
      BY <1>6, <2>1 DEF Handle
    <2>3. s2.open = IF e.status = "OK" THEN {e.fnum} ELSE {}
      BY <1>6, <2>1 DEF Answers
    <2>4. \A q \in On(t2.wire) : q.kind # "open"
      BY <1>1, <1>4, <2>1, <2>2 DEF Handle, Data
    <2>5. \A a \in t.pending_recv, d \in On(p2) : d.mid = a.mid /\ a.kind \notin Data => d = e
      BY <1>1, <1>2, <1>3, <2>1, <2>2
    <2>6. \A a \in t2.pending_recv, d \in On(p2) : d.mid = a.mid =>
             /\ a.kind = "open" =>
                   s2.open \subseteq (IF d.status = "OK" THEN {d.fnum} ELSE {})
             /\ a.kind = "close" => s2.open = {}
      BY <1>4, <1>6, <2>2, <2>3, <2>5 DEF Data
    <2> QED BY <1>4, <1>6, <2>1, <2>4, <2>6 DEF Handle
  <1>7. CASE r.kind \in Data
    <2>1. s2.open = s.open
      BY <1>7 DEF Answers
    <2>2. \A a \in t2.pending_recv, d \in On(p2) :
             d.mid = a.mid /\ a.kind \notin Data => d \in On(p)
      BY <1>2, <1>3, <1>4, <1>7
    <2> QED BY <1>4, <2>1, <2>2 DEF Handle, Data
  <1>8. CASE r.kind = "close"
    <2>1. s2.open = s.open \ {r.fnum}
      BY <1>8 DEF Answers
    <2>2. r \in t.pending_recv => s2.open = {}
      BY <1>8, <2>1 DEF Handle, Data
    <2>3. \A a \in t2.pending_recv, d \in On(p2) : d.mid = a.mid =>
             /\ a.kind = "open" =>
                   s2.open \subseteq (IF d.status = "OK" THEN {d.fnum} ELSE {})
             /\ a.kind = "close" => s2.open = {}
      BY <1>2, <1>3, <1>4, <1>8, <2>1, <2>2 DEF Handle
    <2> QED BY <1>4, <2>1, <2>3 DEF Handle
  <1> QED BY <1>5, <1>6, <1>7, <1>8 DEF Data

\* The phase after an answer.
LEMMA PhaseAnswer ==
    ASSUME NEW c, NEW t \in Transports, NEW u, NEW s \in Servers, NEW p \in Seq(ReplySet),
           NEW t2, NEW s2, NEW p2, NEW r, NEW e, Answers(t, t2, s, s2, p, p2, r, e),
           Base(t, s, p), Handle(c, t, s, p), Phase(c, t, u, s, p)
    PROVE  Phase(c, t2, u, s2, p2)
  <1>1. /\ \A q \in On(t.wire) \cup t.pending_recv \cup s.parked : q.mid \in Nat
        /\ \A d \in On(p) : d.mid \in Nat
        /\ \A i \in 1..Len(p) : p[i] \in On(p)
    BY Mids
  <1>2. /\ On(p2) = On(p) \cup {e}
        /\ Len(p2) = Len(p) + 1
        /\ p2[Len(p) + 1] = e
        /\ \A i \in 1..Len(p) : p2[i] = p[i]
        /\ \A i \in 1..(Len(p) + 1) : i \in 1..Len(p) \/ i = Len(p) + 1
        /\ Len(p) \in Nat /\ Len(t.wire) \in Nat
    BY OnAppend DEF Answers, Transports
  <1>3. /\ \A a \in t.pending_recv : a.mid = r.mid => a = r
        /\ r \in On(t.wire) => \A d \in On(p) : d.mid < r.mid
        /\ r \in s.parked => r.kind \in Data /\ r.fnum \in s.open /\ \A d \in On(p) : d.mid # r.mid
    BY DEF Answers, Base, Named, Parking, Sequenced
  <1>4. /\ t2.pending_recv = t.pending_recv /\ On(t2.wire) \subseteq On(t.wire)
        /\ t2.request_timeout = t.request_timeout
        /\ e.mid = r.mid /\ r \in On(t.wire) \cup s.parked
        /\ \A q \in On(t.wire) : r.mid <= q.mid
    BY DEF Answers
  <1>5. \A d \in On(p) : d.mid # r.mid
    BY <1>1, <1>3, <1>4
  \* An open or close older than r has been answered.
  <1>6. ASSUME NEW b \in t.pending_recv, b.kind \notin Data, b \notin On(t.wire)
        PROVE  \E d \in On(p) : d.mid = b.mid
    BY <1>6 DEF Base, Located, Parking
  <1>7. ASSUME NEW a \in t.pending_recv, Succeeds(p2, a), ~Succeeds(p, a)
        PROVE  a = r /\ e.status = "OK"
    BY <1>2, <1>3, <1>4, <1>7 DEF Succeeds
  <1>8. ASSUME CtrlOpening(c, t, p) PROVE CtrlOpening(c, t2, p2)
    <2> SUFFICES ASSUME NEW o \in t.pending_recv, NEW a \in t.pending_recv,
                        o.kind = "open", a.kind \in Data, Succeeds(p2, a)
                 PROVE  o.mid < a.mid /\ \A d \in On(p2) : d.mid = o.mid => d.status = "OK"
      BY <1>4, <1>8 DEF CtrlOpening
    <2>1. CASE Succeeds(p, a)
      <3>1. o.mid < a.mid /\ \A d \in On(p) : d.mid = o.mid => d.status = "OK"
        BY <1>8, <2>1 DEF CtrlOpening
      <3>2. e.mid # o.mid
        <4> SUFFICES ASSUME r = o PROVE FALSE
          BY <1>3, <1>4
        <4>1. r \in On(t.wire)
          BY <1>3, <1>4 DEF Data
        <4>2. a.mid < o.mid
          BY <1>3, <2>1, <4>1 DEF Succeeds
        <4> QED BY <1>1, <3>1, <4>2
      <3> QED BY <1>2, <3>1, <3>2
    <2>2. CASE ~Succeeds(p, a)
      <3>1. a = r /\ e.status = "OK"
        BY <1>7, <2>2
      <3>2. s.open # {}
        BY <3>1 DEF Answers
      <3>3. o \notin On(t.wire)
        BY <3>2 DEF Handle
      <3>4. PICK d \in On(p) : d.mid = o.mid
        BY <1>6, <3>3 DEF Data
      <3>5. \A d2 \in On(p) : d2.mid = o.mid => d2.status = "OK"
        BY <3>2 DEF Handle
      <3>6. o.mid # a.mid
        BY <1>3, <3>1 DEF Data
      <3>7. ~(a.mid < o.mid)
        <4>1. PICK j \in 1..Len(p) : d = p[j]
          BY DEF On
        <4>2. \A i \in 1..(j - 1) : i \in 1..Len(p)
          BY <1>2
        <4>3. \A i \in 1..(j - 1) : p[i].mid # a.mid
          BY <1>1, <1>5, <3>1, <4>2
        <4> QED BY <3>4, <4>1, <4>3 DEF Base, Barriers, Data
      <3> QED BY <1>1, <1>2, <1>4, <3>1, <3>5, <3>6, <3>7
    <2> QED BY <2>1, <2>2
  <1>9. ASSUME CtrlClosing(c, t, p) PROVE CtrlClosing(c, t2, p2)
    <2> SUFFICES ASSUME NEW k \in t.pending_recv, NEW a \in t.pending_recv,
                        k.kind = "close", a.kind \in Data, k.mid < a.mid, Succeeds(p2, a)
                 PROVE  FALSE
      BY <1>4, <1>9 DEF CtrlClosing
    <2>1. a = r /\ e.status = "OK"
      BY <1>7, <1>9 DEF CtrlClosing
    <2>2. s.open # {}
      BY <2>1 DEF Answers
    <2>3. k \notin On(t.wire)
      BY <1>1, <1>4, <2>1
    <2>4. \E d \in On(p) : d.mid = k.mid
      BY <1>6, <2>3 DEF Data
    <2> QED BY <2>2, <2>4 DEF Handle
  <1>10. ASSUME IoOpening(c, t, s, p) PROVE IoOpening(c, t2, s2, p2)
    <2>1. r \in On(t.wire)
      BY <1>4, <1>10 DEF IoOpening
    <2>2. Len(t2.wire) = Len(t.wire) - 1 /\ s2.parked \subseteq s.parked
      BY <2>1 DEF Answers
    <2>3. Len(t2.wire) + Len(p2) <= 1
      <3>1. Len(t.wire) + Len(p) <= 1
        BY <1>10 DEF IoOpening
      <3>2. \A m, n \in Nat : m + n <= 1 => (m - 1) + (n + 1) <= 1
        OBVIOUS
      <3>3. Len(t2.wire) = Len(t.wire) - 1 /\ Len(p2) = Len(p) + 1
            /\ Len(p) \in Nat /\ Len(t.wire) \in Nat
        BY <1>2, <2>2
      <3> QED BY <3>1, <3>2, <3>3, Zenon
    <2> QED BY <1>4, <1>10, <2>2, <2>3 DEF IoOpening
  <1>11. ASSUME IoOpen(c, t, s, p) PROVE IoOpen(c, t2, s2, p2)
    <2>1. s.open \subseteq {c.fd}
      BY <1>11 DEF IoOpen, Handle, Data
    <2>2. r.kind \in Data /\ (r.fnum = c.fd \/ r \in s.parked)
      BY <1>3, <1>4, <1>11 DEF IoOpen
    <2>3. r.fnum = c.fd
      BY <1>3, <2>1, <2>2
    <2>4. s2.open \ s2.broken \subseteq s.open \ s.broken
      BY <2>2 DEF Answers, Data
    <2>5. e.status # "OK" => c.fd \notin s.open \ s.broken
      BY <1>11, <2>2, <2>3 DEF Answers, IoOpen, Data
    <2>6. e.status = "OK" => c.fd \in s.open \ s.broken
      BY <2>2, <2>3 DEF Answers
    <2>7. \A d \in On(p2) : d.status # "OK" => c.fd \notin s2.open \ s2.broken
      BY <1>2, <1>11, <2>4, <2>5 DEF IoOpen
    <2>8. ASSUME NEW i \in 1..Len(p2), NEW j \in 1..Len(p2), i < j, p2[i].status # "OK"
          PROVE  p2[j].status # "OK"
      <3>1. i \in 1..Len(p) /\ p2[i] = p[i] /\ p[i] \in On(p)
        BY <1>1, <1>2, <2>8
      <3>2. CASE j \in 1..Len(p)
        BY <1>2, <1>11, <2>8, <3>1, <3>2 DEF IoOpen
      <3>3. CASE j = Len(p) + 1
        <4>1. c.fd \notin s.open \ s.broken
          BY <1>11, <2>8, <3>1 DEF IoOpen
        <4> QED BY <1>2, <2>6, <3>3, <4>1
      <3> QED BY <1>2, <3>2, <3>3
    <2> QED BY <1>4, <1>11, <2>7, <2>8 DEF IoOpen
  <1>12. ASSUME IoGivenUp(c, t, s, p) PROVE IoGivenUp(c, t2, s2, p2)
    <2>1. s.open \subseteq {c.fd}
      BY <1>12 DEF IoGivenUp, Handle
    <2>2. r.kind # "open"
      BY <1>3, <1>4, <1>12 DEF IoGivenUp, Handle, Data
    <2>3. s2.open \ s2.broken \subseteq s.open \ s.broken
      BY <2>2 DEF Answers
    <2>4. ASSUME NEW a \in t.pending_recv, a.kind = "write", Succeeds(p2, a) PROVE FALSE
      <3>1. a = r /\ e.status = "OK"
        BY <1>7, <1>12, <2>4 DEF IoGivenUp
      <3>2. r.fnum \in s.open \ s.broken
        BY <2>4, <3>1 DEF Answers, Data
      <3> QED BY <1>12, <2>1, <3>2 DEF IoGivenUp
    <2> QED BY <1>4, <1>12, <2>3, <2>4 DEF IoGivenUp
  <1>13. /\ CtrlOpen(c, t) => CtrlOpen(c, t2)
         /\ IoFailed(t) => IoFailed(t2)
    BY <1>4 DEF CtrlOpen, IoFailed
  <1> QED BY <1>4, <1>8, <1>9, <1>10, <1>11, <1>12, <1>13 DEF Phase

-----------------------------------------------------------------------------
\* The server answers r, which it has taken from the wire, with e.
Serving(s, s2, p, p2, r, e) ==
    /\ e \in ReplySet /\ e.mid = r.mid /\ p2 = Append(p, e)
    /\ e.status = "OBJECT_NAME_NOT_FOUND" => r.kind = "open"
    /\ s2.parked = s.parked
    /\ r.kind = "open" =>
          /\ s2.open = s.open \cup (IF e.status = "OK" THEN {e.fnum} ELSE {})
          /\ s2.broken = s.broken
    /\ r.kind = "close" =>
          /\ \A q \in s.parked : q.fnum # r.fnum
          /\ s2.open = s.open \ {r.fnum}
          /\ s2.broken = s.broken \/ s2.broken = s.broken \ {r.fnum}
    /\ r.kind \in Data =>
          /\ s2.open = s.open /\ s2.broken = s.broken
          /\ e.status = "OK" <=> r.fnum \in s.open \ s.broken

\* The server may take a request and answer it.
LEMMA LiveAnswer ==
    ASSUME NEW c, NEW t \in Transports, NEW u, NEW s \in Servers, NEW p \in Seq(ReplySet),
           NEW t2, NEW s2, NEW p2, NEW r, NEW e, Taken(t, t2, r),
           LiveInv(c, t, u, s, p), Serving(s, s2, p, p2, r, e)
    PROVE  LiveInv(c, t2, u, s2, p2)
  <1>1. Base(t, s, p) /\ Handle(c, t, s, p) /\ Phase(c, t, u, s, p) /\ Sequenced(t, s, p)
    BY DEF LiveInv, Base
  <1>2. /\ r \in On(t.wire) /\ r \in Requests /\ r.mid \in Nat
        /\ t2.pending_recv = t.pending_recv /\ t2.request_timeout = t.request_timeout
        /\ On(t.wire) = {r} \cup On(t2.wire)
        /\ Len(t2.wire) = Len(t.wire) - 1
        /\ \A q \in On(t2.wire) : r.mid < q.mid /\ q.mid \in Nat
    BY <1>1, TakenFacts
  <1>3. r.kind \in {"open", "read", "write", "close"}
    BY <1>2 DEF Requests, Kinds
  <1>4. s2.open \ s2.broken \subseteq s.open \ s.broken \/ r.kind = "open"
    BY <1>3 DEF Data, Serving
  <1>5. Answers(t, t2, s, s2, p, p2, r, e)
    BY <1>2, <1>4 DEF Answers, Data, Serving
  <1>6. \A q \in s.parked : q.fnum \in s2.open
    BY <1>1, <1>3 DEF Base, Parking, Data, Serving
  <1>7. r.kind \notin Data /\ r \in t.pending_recv => s.parked = {}
    BY <1>1, <1>2, <1>3 DEF Base, Parking, Handle, Data, Serving
  <1>8. Base(t2, s2, p2)
    BY <1>1, <1>6, <1>7, BaseAnswer DEF Serving
  <1> QED BY <1>1, <1>5, <1>8, HandleAnswer, PhaseAnswer DEF LiveInv

\* The server may take a read or a write and park it.
LEMMA LivePark ==
    ASSUME NEW c, NEW t \in Transports, NEW u, NEW s \in Servers, NEW p \in Seq(ReplySet),
           NEW t2, NEW s2, NEW r, Taken(t, t2, r), LiveInv(c, t, u, s, p),
           s2.parked = s.parked \cup {r}, s2.open = s.open, s2.broken = s.broken,
           r.kind \in Data, r.fnum \in s.open
    PROVE  LiveInv(c, t2, u, s2, p)
  <1>1. Base(t, s, p) /\ Handle(c, t, s, p) /\ Phase(c, t, u, s, p) /\ Sequenced(t, s, p)
    BY DEF LiveInv, Base
  <1>2. /\ r \in On(t.wire)
        /\ t2.pending_recv = t.pending_recv /\ t2.request_timeout = t.request_timeout
        /\ On(t.wire) = {r} \cup On(t2.wire)
    BY <1>1, TakenFacts
  <1>3. Base(t2, s2, p)
    BY <1>1, BasePark
  <1>4. Handle(c, t2, s2, p)
    BY <1>1, <1>2 DEF Handle
  <1>5. /\ CtrlOpening(c, t, p) => CtrlOpening(c, t2, p)
        /\ CtrlClosing(c, t, p) => CtrlClosing(c, t2, p)
        /\ CtrlOpen(c, t) => CtrlOpen(c, t2)
        /\ IoFailed(t) => IoFailed(t2)
        /\ IoOpen(c, t, s, p) => IoOpen(c, t2, s2, p)
        /\ IoGivenUp(c, t, s, p) => IoGivenUp(c, t2, s2, p)
    BY <1>2 DEF CtrlOpening, CtrlClosing, CtrlOpen, IoFailed, IoOpen, IoGivenUp
  <1>6. ~IoOpening(c, t, s, p)
    BY <1>2 DEF IoOpening, Data
  <1>7. Phase(c, t2, u, s2, p)
    BY <1>1, <1>2, <1>5, <1>6 DEF Phase
  <1> QED BY <1>3, <1>4, <1>7 DEF LiveInv

\* The server answers the parked q with e.
Unparking(t, s, s2, p, p2, q, e) ==
    /\ q \in s.parked
    /\ e \in ReplySet /\ e.mid = q.mid /\ p2 = Append(p, e)
    /\ e.status # "OBJECT_NAME_NOT_FOUND"
    /\ s2.parked = s.parked \ {q} /\ s2.open = s.open /\ s2.broken = s.broken
    /\ IF e.status = "OK" THEN q.fnum \notin s.broken
       ELSE q.fnum \in s.broken \/ \E k \in On(t.wire) : k.kind = "close"

\* The server may answer a parked request.
LEMMA LiveUnpark ==
    ASSUME NEW c, NEW t \in Transports, NEW u, NEW s \in Servers, NEW p \in Seq(ReplySet),
           NEW s2, NEW p2, NEW q, NEW e, LiveInv(c, t, u, s, p),
           Unparking(t, s, s2, p, p2, q, e)
    PROVE  LiveInv(c, t, u, s2, p2)
  <1>1. Base(t, s, p) /\ Handle(c, t, s, p) /\ Phase(c, t, u, s, p) /\ q \in s.parked
    BY DEF LiveInv, Unparking
  <1>2. /\ q.kind \in Data /\ q.fnum \in s.open
        /\ \A r \in On(t.wire) : q.mid < r.mid /\ q.mid \in Nat /\ r.mid \in Nat
    BY <1>1, Mids DEF Base, Parking, Sequenced
  <1>3. Answers(t, t, s, s2, p, p2, q, e)
    BY <1>1, <1>2 DEF Answers, Data, Unparking
  <1>4. Base(t, s2, p2)
    BY <1>1, BaseUnpark DEF Unparking
  <1> QED BY <1>1, <1>3, <1>4, HandleAnswer, PhaseAnswer DEF LiveInv

\* The service may disconnect a pipe.
LEMMA LiveDisconnect ==
    ASSUME NEW c, NEW t, NEW u, NEW s, NEW p, NEW s2, LiveInv(c, t, u, s, p),
           s2.parked = s.parked, s2.open = s.open, s.broken \subseteq s2.broken
    PROVE  LiveInv(c, t, u, s2, p)
  <1>1. Base(t, s2, p)
    BY DEF LiveInv, Base, Sequenced, Named, Located, Parking
  <1>2. Handle(c, t, s2, p)
    BY DEF LiveInv, Handle
  <1>3. /\ IoOpening(c, t, s, p) => IoOpening(c, t, s2, p)
        /\ IoOpen(c, t, s, p) => IoOpen(c, t, s2, p)
        /\ IoGivenUp(c, t, s, p) => IoGivenUp(c, t, s2, p)
    BY DEF IoOpening, IoOpen, IoGivenUp
  <1>4. Phase(c, t, u, s2, p)
    BY <1>3 DEF LiveInv, Phase
  <1> QED BY <1>1, <1>2, <1>4 DEF LiveInv

\* Every step of the server keeps the invariant of a live program.
LEMMA ServerLive ==
    ASSUME IInv, LiveInv(ac, transport, user, srv, replies),
           ServerStep \/ ServerCancel \/ ServerUnpark \/ ServerDisconnect
    PROVE  LiveInv(ac, transport, user, srv, replies)'
  <1> DEFINE Goal == LiveInv(ac', transport', user', srv', replies')
  <1>1. transport \in Transports /\ srv \in Servers /\ replies \in Seq(ReplySet)
    BY GoodType DEF IInv, ServerOK, Servers, ReplySet
  <1>2. \A w \in Seq(Requests) : w # <<>> => Head(w) \in On(w)
    BY OnTail
  <1>3. ASSUME NEW r \in Requests, NEW status \in Statuses, NEW f \in Fnum \cup {NoHandle}
        PROVE  /\ Reply(r, status, f) \in ReplySet
               /\ Reply(r, status, f).mid = r.mid
               /\ Reply(r, status, f).status = status
               /\ Reply(r, status, f).fnum = f
    BY <1>3, ReplyType DEF Reply
  <1>4. "OK" \in Statuses /\ "ERROR" \in Statuses /\ NoHandle \in Fnum \cup {NoHandle}
    BY DEF Statuses
  <1>5. ASSUME ServerStep PROVE Goal
    <2> DEFINE r == Head(transport.wire)
    <2>1. Taken(transport, transport', r) /\ ac' = ac /\ user' = user
      BY <1>5 DEF ServerStep, Taken
    <2>2. r \in Requests
      BY <1>1, <2>1 DEF Taken, Transports
    <2>3. \/ r.kind = "open" /\ ServerOpen(r)
          \/ r.kind = "read" /\ ServerRead(r)
          \/ r.kind = "write" /\ ServerWrite(r)
          \/ r.kind = "close" /\ ServerClose(r)
      BY <1>5 DEF ServerStep
    <2> HIDE DEF r, Goal
    <2>4. ASSUME NEW e, Serving(srv, srv', replies, replies', r, e) PROVE Goal
      <3>1. LiveInv(ac, transport', user, srv', replies')
        BY <1>1, <2>1, <2>4, LiveAnswer
      <3> QED BY <2>1, <3>1 DEF Goal
    <2>5. ASSUME r.kind = "open", NEW f \in Fnum,
                 srv' = [srv EXCEPT !.open = @ \cup {f}],
                 replies' = Append(replies, Reply(r, "OK", f))
          PROVE  Goal
      <3> DEFINE e == Reply(r, "OK", f)
      <3>1. e \in ReplySet /\ e.mid = r.mid /\ e.status = "OK" /\ e.fnum = f
        BY <1>3, <1>4, <2>2
      <3>2. srv'.open = srv.open \cup {f} /\ srv'.broken = srv.broken /\ srv'.parked = srv.parked
        BY <1>1, <2>5 DEF Servers
      <3>3. replies' = Append(replies, e)
        BY <2>5
      <3> HIDE DEF e
      <3>4. Serving(srv, srv', replies, replies', r, e)
        BY <2>5, <3>1, <3>2, <3>3 DEF Serving, Data
      <3> QED BY <2>4, <3>4
    <2>6. ASSUME r.kind = "open", NEW status \in Statuses, status # "OK",
                 Answer(r, status), srv' = srv
          PROVE  Goal
      <3> DEFINE e == Reply(r, status, NoHandle)
      <3>1. e \in ReplySet /\ e.mid = r.mid /\ e.status = status
        BY <1>3, <1>4, <2>2
      <3>2. replies' = Append(replies, e)
        BY <2>6 DEF Answer
      <3> HIDE DEF e
      <3>3. Serving(srv, srv', replies, replies', r, e)
        BY <2>6, <3>1, <3>2 DEF Serving, Data
      <3> QED BY <2>4, <3>3
    <2>7. ASSUME r.kind \in Data, srv' = srv, NEW status \in Statuses,
                 status # "OBJECT_NAME_NOT_FOUND",
                 Answer(r, status), status = "OK" <=> r.fnum \in srv.open \ srv.broken
          PROVE  Goal
      <3> DEFINE e == Reply(r, status, NoHandle)
      <3>1. e \in ReplySet /\ e.mid = r.mid /\ e.status = status
        BY <1>3, <1>4, <2>2
      <3>2. replies' = Append(replies, e)
        BY <2>7 DEF Answer
      <3> HIDE DEF e
      <3>3. Serving(srv, srv', replies, replies', r, e)
        BY <2>7, <3>1, <3>2 DEF Serving, Data
      <3> QED BY <2>4, <3>3
    <2>8. ASSUME r.kind \in Data, srv' = [srv EXCEPT !.parked = @ \cup {r}],
                 replies' = replies, r.fnum \in srv.open
          PROVE  Goal
      <3>1. /\ srv'.open = srv.open /\ srv'.broken = srv.broken
            /\ srv'.parked = srv.parked \cup {r}
        BY <1>1, <2>8 DEF Servers
      <3> QED BY <1>1, <2>1, <2>8, <3>1, LivePark DEF Goal
    <2>9. ASSUME r.kind = "close", ServerClose(r) PROVE Goal
      <3>1. \A q \in srv.parked : q.fnum # r.fnum
        BY <2>9 DEF ServerClose
      <3>2. PICK status \in Statuses :
               Answer(r, status) /\ status # "OBJECT_NAME_NOT_FOUND"
        BY <1>4, <2>9 DEF ServerClose
      <3>3. /\ srv'.open = srv.open \ {r.fnum} /\ srv'.parked = srv.parked
            /\ srv'.broken = srv.broken \/ srv'.broken = srv.broken \ {r.fnum}
        BY <1>1, <2>9 DEF ServerClose, Servers
      <3> DEFINE e == Reply(r, status, NoHandle)
      <3>4. e \in ReplySet /\ e.mid = r.mid /\ e.status = status
        BY <1>3, <1>4, <2>2
      <3>5. replies' = Append(replies, e)
        BY <3>2 DEF Answer
      <3> HIDE DEF e
      <3>6. Serving(srv, srv', replies, replies', r, e)
        BY <2>9, <3>1, <3>2, <3>3, <3>4, <3>5 DEF Serving, Data
      <3> QED BY <2>4, <3>6
    <2>10. CASE r.kind = "open" /\ ServerOpen(r)
      BY <2>5, <2>6, <2>10 DEF ServerOpen
    <2>11. CASE r.kind = "read" /\ ServerRead(r)
      BY <1>4, <2>7, <2>8, <2>11 DEF ServerRead, Usable, Data
    <2>12. CASE r.kind = "write" /\ ServerWrite(r)
      BY <1>4, <2>7, <2>8, <2>12 DEF ServerWrite, Usable, Data
    <2> QED BY <2>3, <2>9, <2>10, <2>11, <2>12
  <1>6. ASSUME NEW q \in srv.parked, NEW status \in Statuses,
               status # "OBJECT_NAME_NOT_FOUND",
               srv' = [srv EXCEPT !.parked = @ \ {q}], Answer(q, status),
               ac' = ac, transport' = transport, user' = user,
               status = "OK" => q.fnum \notin srv.broken,
               status # "OK" =>
                  q.fnum \in srv.broken \/ \E k \in On(transport.wire) : k.kind = "close"
        PROVE  Goal
    <2>1. q \in Requests
      BY <1>1 DEF Servers
    <2>2. srv'.open = srv.open /\ srv'.broken = srv.broken /\ srv'.parked = srv.parked \ {q}
      BY <1>1, <1>6 DEF Servers
    <2> DEFINE e == Reply(q, status, NoHandle)
    <2>3. e \in ReplySet /\ e.mid = q.mid /\ e.status = status
      BY <1>3, <1>4, <2>1
    <2>4. replies' = Append(replies, e)
      BY <1>6 DEF Answer
    <2> HIDE DEF e
    <2>5. Unparking(transport, srv, srv', replies, replies', q, e)
      BY <1>6, <2>2, <2>3, <2>4 DEF Unparking
    <2>6. LiveInv(ac, transport, user, srv', replies')
      BY <1>1, <2>5, LiveUnpark
    <2> QED BY <1>6, <2>6 DEF Goal
  <1>7. ASSUME ServerCancel PROVE Goal
    <2>1. transport.wire \in Seq(Requests)
      BY <1>1 DEF Transports
    <2> HIDE DEF Goal
    <2> QED BY <1>2, <1>4, <1>6, <1>7, <2>1 DEF ServerCancel
  <1>8. ASSUME ServerUnpark PROVE Goal
    <2> HIDE DEF Goal
    <2> QED BY <1>4, <1>6, <1>8 DEF ServerUnpark
  <1>9. ASSUME ServerDisconnect PROVE Goal
    <2>1. PICK f \in srv.open \ srv.broken : srv' = [srv EXCEPT !.broken = @ \cup {f}]
      BY <1>9 DEF ServerDisconnect
    <2>2. /\ srv'.open = srv.open /\ srv'.parked = srv.parked
          /\ srv.broken \subseteq srv'.broken
      BY <1>1, <2>1 DEF Servers
    <2> QED BY <1>9, <2>2, LiveDisconnect DEF ServerDisconnect, Goal
  <1>10. Goal
    BY <1>5, <1>7, <1>8, <1>9
  <1> QED BY <1>10

-----------------------------------------------------------------------------
\* y is x after a request was sent on the live transport.
Sends(x, y, r, kind, fnum) ==
    /\ y \in Views /\ y.u = x.u /\ y.c.fd = x.c.fd
    /\ Issued(x.t, y.t, r) /\ r.kind = kind /\ r.fnum = fnum

\* smbcli_transport_send on a live transport.
LEMMA SendIssued ==
    ASSUME NEW x \in Views, ~x.t.dead, NEW kind \in Kinds, NEW fnum \in Int,
           NEW data \in Seq(Lines)
    PROVE  LET y == smbcli_transport_send(x, kind, fnum, data)
           IN  /\ \E r : Sends(x, y, r, kind, fnum)
               /\ y.c = x.c /\ y.t.request_timeout = x.t.request_timeout
  <1> DEFINE req == [mid |-> x.t.next_mid, kind |-> kind, pipe |-> x.c.name,
                     fnum |-> fnum, data |-> data, timed |-> x.t.request_timeout]
             y == smbcli_transport_send(x, kind, fnum, data)
             t == [x.t EXCEPT !.next_mid = @ + 1, !.pending_recv = @ \cup {req},
                              !.wire = Append(@, req)]
  <1>1. /\ req \in Requests /\ req.mid = x.t.next_mid /\ req.kind = kind
        /\ req.fnum = fnum /\ req.timed = x.t.request_timeout
    BY DEF Views, Contexts, Transports, Requests
  <1>2. y = [x EXCEPT !.t = t]
    BY DEF smbcli_transport_send
  <1> HIDE DEF req
  <1>3. x.t \in Transports
    BY DEF Views
  <1>4. t \in Transports
    BY <1>1, <1>3, TransportUpdate
  <1>5. /\ t.dead = x.t.dead
        /\ t.next_mid = x.t.next_mid + 1
        /\ t.pending_recv = x.t.pending_recv \cup {req}
        /\ t.wire = Append(x.t.wire, req)
        /\ t.request_timeout = x.t.request_timeout
    BY <1>3 DEF Transports
  <1> HIDE DEF t, y
  <1>6. y \in Views /\ y.c = x.c /\ y.u = x.u /\ y.t = t
    BY <1>2, <1>4 DEF Views
  <1>7. Sends(x, y, req, kind, fnum)
    BY <1>1, <1>4, <1>5, <1>6 DEF Sends, Issued
  <1>8. y.t.request_timeout = x.t.request_timeout
    BY <1>5, <1>6
  <1> QED BY <1>6, <1>7, <1>8 DEF y

\* async_open on a live transport.
LEMMA OpenIssued ==
    ASSUME NEW x \in Views, ~x.t.dead
    PROVE  LET y == async_open(x)
           IN  /\ \E r : Sends(x, y, r, "open", NULL)
               /\ y.c.rreq = x.t.next_mid /\ y.c.io_open
               /\ y.c.io_read = x.c.io_read /\ y.c.io_write = x.c.io_write
               /\ y.t.request_timeout = x.t.request_timeout
  <1> DEFINE y == [x EXCEPT !.c.io_open = TRUE]
             z == smbcli_transport_send(y, "open", NULL, <<>>)
             w == [z EXCEPT !.c.rreq = x.t.next_mid]
  <1>1. /\ y \in Views /\ y.t = x.t /\ y.u = x.u /\ y.c.fd = x.c.fd
        /\ y.c.io_open /\ y.c.io_read = x.c.io_read /\ y.c.io_write = x.c.io_write
    BY DEF Views, Contexts
  <1> HIDE DEF y
  <1>2. /\ \E r : Sends(y, z, r, "open", NULL)
        /\ z.c = y.c /\ z.t.request_timeout = y.t.request_timeout
    BY <1>1, NoData, SendIssued
  <1> HIDE DEF z
  <1>3. z \in Views /\ x.t.next_mid \in Int
    BY <1>2 DEF Sends, Views, Transports
  <1>4. [z.c EXCEPT !.rreq = x.t.next_mid] \in Contexts
    BY <1>3 DEF Views, Contexts
  <1>5. /\ w \in Views /\ w.t = z.t /\ w.u = z.u /\ w.c.rreq = x.t.next_mid
        /\ w.c.fd = z.c.fd /\ w.c.io_open = z.c.io_open
        /\ w.c.io_read = z.c.io_read /\ w.c.io_write = z.c.io_write
    BY <1>3, <1>4 DEF Views, Contexts
  <1> HIDE DEF w
  <1>6. \E r : Sends(x, w, r, "open", NULL)
    BY <1>1, <1>2, <1>5 DEF Sends
  <1> QED BY <1>1, <1>2, <1>5, <1>6 DEF async_open, w, z, y

\* async_read on a live transport.
LEMMA ReadIssued ==
    ASSUME NEW x \in Views, ~x.t.dead, NEW f,
           f = IF x.c.io_read = NULL THEN x.c.fd ELSE x.c.io_read
    PROVE  LET y == async_read(x)
           IN  /\ \E r : Sends(x, y, r, "read", f)
               /\ y.c.rreq = x.t.next_mid /\ y.c.io_read = f
               /\ y.c.io_open = x.c.io_open /\ y.c.io_write = x.c.io_write
               /\ ~y.t.request_timeout
  <1> DEFINE y == [x EXCEPT !.c.io_read = IF @ = NULL THEN x.c.fd ELSE @]
             z == smbcli_transport_send(y, "read", y.c.io_read, <<>>)
             w == [z EXCEPT !.c.rreq = x.t.next_mid, !.t.request_timeout = FALSE]
  <1>1. [x.c EXCEPT !.io_read = IF @ = NULL THEN x.c.fd ELSE @] \in Contexts
    BY DEF Views, Contexts
  <1>2. /\ y \in Views /\ y.t = x.t /\ y.u = x.u /\ y.c.io_read \in Int
        /\ y.c.fd = x.c.fd /\ y.c.io_read = f
        /\ y.c.io_open = x.c.io_open /\ y.c.io_write = x.c.io_write
    BY <1>1 DEF Views, Contexts
  <1> HIDE DEF y
  <1>3. (\E r : Sends(y, z, r, "read", y.c.io_read)) /\ z.c = y.c
    BY <1>2, NoData, SendIssued
  <1> HIDE DEF z
  <1>4. z \in Views /\ x.t.next_mid \in Int
    BY <1>3 DEF Sends, Views, Transports
  <1>5. [z.c EXCEPT !.rreq = x.t.next_mid] \in Contexts
    BY <1>4 DEF Views, Contexts
  <1>6. [z.t EXCEPT !.request_timeout = FALSE] \in Transports
    BY <1>4 DEF Views, Transports
  <1>7. /\ w \in Views /\ w.u = z.u /\ w.c.rreq = x.t.next_mid
        /\ w.c.fd = z.c.fd /\ w.c.io_open = z.c.io_open
        /\ w.c.io_read = z.c.io_read /\ w.c.io_write = z.c.io_write
    BY <1>4, <1>5, <1>6 DEF Views, Contexts
  <1>8. /\ w.t \in Transports /\ w.t.dead = z.t.dead /\ w.t.next_mid = z.t.next_mid
        /\ w.t.pending_recv = z.t.pending_recv /\ w.t.wire = z.t.wire
        /\ ~w.t.request_timeout
    BY <1>4, <1>6 DEF Views, Transports
  <1> HIDE DEF w
  <1>9. PICK r : Sends(y, z, r, "read", y.c.io_read)
    BY <1>3
  <1>10. Issued(x.t, w.t, r)
    BY <1>2, <1>8, <1>9 DEF Sends, Issued
  <1>11. Sends(x, w, r, "read", f)
    BY <1>2, <1>3, <1>7, <1>9, <1>10 DEF Sends
  <1> QED BY <1>2, <1>3, <1>7, <1>8, <1>11 DEF async_read, w, z, y

\* async_write on a live transport.
LEMMA WriteIssued ==
    ASSUME NEW x \in Views, ~x.t.dead, NEW data \in Seq(Lines), NEW f,
           f = IF x.c.io_write = NULL THEN x.c.fd ELSE x.c.io_write
    PROVE  LET y == async_write(x, data)
           IN  /\ \E r : Sends(x, y, r, "write", f)
               /\ y.c.rreq = x.c.rreq /\ y.c.io_write = f
               /\ y.c.io_open = x.c.io_open /\ y.c.io_read = x.c.io_read
               /\ y.t.request_timeout = x.t.request_timeout
  <1> DEFINE y == [x EXCEPT !.c.io_write = IF @ = NULL THEN x.c.fd ELSE @]
             z == smbcli_transport_send(y, "write", y.c.io_write, data)
  <1>1. [x.c EXCEPT !.io_write = IF @ = NULL THEN x.c.fd ELSE @] \in Contexts
    BY DEF Views, Contexts
  <1>2. /\ y \in Views /\ y.t = x.t /\ y.u = x.u /\ y.c.io_write \in Int
        /\ y.c.rreq = x.c.rreq /\ y.c.fd = x.c.fd /\ y.c.io_write = f
        /\ y.c.io_open = x.c.io_open /\ y.c.io_read = x.c.io_read
    BY <1>1 DEF Views, Contexts
  <1> HIDE DEF y
  <1>3. /\ \E r : Sends(y, z, r, "write", y.c.io_write)
        /\ z.c = y.c /\ z.t.request_timeout = y.t.request_timeout
    BY <1>2, NoData, SendIssued
  <1> HIDE DEF z
  <1>4. \E r : Sends(x, z, r, "write", f)
    BY <1>2, <1>3 DEF Sends
  <1>5. x.c.wreq = NULL
    BY DEF Views, Contexts
  <1>6. async_write(x, data) = z
    BY <1>5 DEF async_write, z, y
  <1> QED BY <1>2, <1>3, <1>4, <1>6

\* async_close on a live transport: the request named by rreq is dropped and
\* then a close is sent.
LEMMA CloseIssued ==
    ASSUME NEW x \in Views, ~x.t.dead
    PROVE  LET y == async_close(x)
           IN  \E z : /\ z \in Views /\ z.t.dead = x.t.dead
                      /\ z.t.wire = x.t.wire /\ z.t.next_mid = x.t.next_mid
                      /\ z.t.pending_recv = {r \in x.t.pending_recv : r.mid # x.c.rreq}
                      /\ z.t.request_timeout = x.t.request_timeout
                      /\ z.u = x.u /\ z.c.fd = x.c.fd
                      /\ \E r : Sends(z, y, r, "close", x.c.fd)
                      /\ y.c.rreq = NULL /\ y.c.io_open = x.c.io_open
                      /\ y.c.io_read = x.c.io_read /\ y.c.io_write = x.c.io_write
                      /\ y.t.request_timeout = x.t.request_timeout
  <1> DEFINE t1 == smbcli_request_destroy(x.t, x.c.rreq)
             t2 == smbcli_request_destroy(t1, x.c.wreq)
             S  == {r \in x.t.pending_recv : r.mid # x.c.rreq}
             O  == (x.t.orphans \ {x.c.rreq}) \ {x.c.wreq}
             c1 == [x.c EXCEPT !.rreq = NULL, !.wreq = NULL, !.io_close = TRUE]
             y  == [x EXCEPT !.t = t2, !.c.rreq = NULL, !.c.wreq = NULL,
                             !.c.io_close = TRUE]
             z  == smbcli_transport_send(y, "close", y.c.fd, <<>>)
  <1>1. x.c \in Contexts /\ x.t \in Transports
    BY DEF Views
  <1>2. /\ c1 \in Contexts /\ c1.rreq = NULL /\ c1.fd = x.c.fd
        /\ c1.io_open = x.c.io_open /\ c1.io_read = x.c.io_read
        /\ c1.io_write = x.c.io_write /\ c1.fd \in Int
    <2>1. c1 \in Contexts /\ c1.rreq = NULL
      BY <1>1, NoData DEF Contexts
    <2>2. /\ c1.fd = x.c.fd /\ c1.io_open = x.c.io_open /\ c1.io_read = x.c.io_read
          /\ c1.io_write = x.c.io_write
      BY <1>1 DEF Contexts
    <2> HIDE DEF c1
    <2>3. c1.fd \in Int
      BY <2>1 DEF Contexts
    <2> QED BY <2>1, <2>2, <2>3
  <1>3. {r \in S : r.mid # x.c.wreq} = S
    <2>1. x.c.wreq = NULL /\ NULL \notin Nat
      BY <1>1 DEF Contexts, NULL
    <2>2. \A r \in x.t.pending_recv : r.mid \in Nat
      BY <1>1 DEF Transports, Requests
    <2> QED BY <2>1, <2>2
  <1>4. t2 = [x.t EXCEPT !.pending_recv = {r \in S : r.mid # x.c.wreq}, !.orphans = O]
    BY <1>1 DEF smbcli_request_destroy, Transports
  <1>5. t2 = [x.t EXCEPT !.pending_recv = S, !.orphans = O]
    BY <1>3, <1>4
  <1>6. S \in SUBSET Requests /\ O \in SUBSET Nat
    BY <1>1 DEF Transports
  <1> HIDE DEF S, O
  <1>7. /\ t2 \in Transports
        /\ t2.dead = x.t.dead /\ t2.next_mid = x.t.next_mid /\ t2.wire = x.t.wire
        /\ t2.pending_recv = S /\ t2.request_timeout = x.t.request_timeout
    <2> HIDE DEF t2
    <2> QED BY <1>1, <1>5, <1>6 DEF Transports
  <1> HIDE DEF t2
  <1>8. y = [x EXCEPT !.t = t2, !.c = c1]
    BY <1>1 DEF Views, Contexts
  <1> HIDE DEF c1, y
  <1>9. y \in Views /\ y.t = t2 /\ y.u = x.u /\ y.c = c1
    BY <1>2, <1>7, <1>8 DEF Views
  <1>10. /\ \E r : Sends(y, z, r, "close", y.c.fd)
         /\ z.c = y.c /\ z.t.request_timeout = y.t.request_timeout
    BY <1>2, <1>7, <1>9, NoData, SendIssued
  <1>11. async_close(x) = z
    BY DEF async_close, z, y, t2
  <1> HIDE DEF z
  <1>12. /\ y.t.dead = x.t.dead /\ y.t.wire = x.t.wire /\ y.t.next_mid = x.t.next_mid
         /\ y.t.pending_recv = S /\ y.t.request_timeout = x.t.request_timeout
         /\ y.c.fd = x.c.fd /\ z.c.rreq = NULL /\ z.c.io_open = x.c.io_open
         /\ z.c.io_read = x.c.io_read /\ z.c.io_write = x.c.io_write
         /\ z.t.request_timeout = x.t.request_timeout
         /\ \E r : Sends(y, z, r, "close", x.c.fd)
    BY <1>2, <1>7, <1>9, <1>10
  <1> QED BY <1>9, <1>11, <1>12 DEF S

-----------------------------------------------------------------------------
\* What sending needs to know of the order of things.
Standing(c, t, s, p) ==
    /\ t \in Transports /\ ~t.dead /\ s \in Servers /\ p \in Seq(ReplySet)
    /\ \A q \in t.pending_recv : q.mid < t.next_mid
    /\ Base(t, s, p) /\ Handle(c, t, s, p)

\* An open is sent when the pipe is closed for good, a close when no open is
\* outstanding and timeouts are switched off.
MaySend(kind, fnum, c, t, s) ==
    \/ kind \in Data
    \/ /\ kind = "close" /\ fnum = c.fd /\ ~t.request_timeout
       /\ \A a \in t.pending_recv : a.kind # "open"
    \/ /\ kind = "open" /\ s.open = {}
       /\ \A a \in t.pending_recv : a.kind \in Data

\* Another request is outstanding and on the wire, and not yet answered.
Added(t, t2, q, p) ==
    /\ q \in Requests /\ q.mid = t.next_mid /\ q.mid \in Nat
    /\ q.timed = t.request_timeout
    /\ t2.next_mid = t.next_mid + 1
    /\ t2.pending_recv = t.pending_recv \cup {q}
    /\ On(t2.wire) = On(t.wire) \cup {q}
    /\ \A e \in On(p) : e.mid # q.mid
    /\ \A a \in t.pending_recv : a.mid < q.mid /\ a.mid \in Nat

\* Such a request may be sent.
LEMMA StandingIssue ==
    ASSUME NEW c, NEW t, NEW s, NEW p, Standing(c, t, s, p),
           NEW t2, NEW q, Issued(t, t2, q), MaySend(q.kind, q.fnum, c, t, s)
    PROVE  Standing(c, t2, s, p) /\ Added(t, t2, q, p)
  <1>1. /\ t \in Transports /\ Base(t, s, p) /\ Handle(c, t, s, p)
        /\ ~t.dead /\ s \in Servers /\ p \in Seq(ReplySet)
        /\ \A a \in t.pending_recv : a.mid < t.next_mid
    BY DEF Standing
  <1>2. /\ t.next_mid \in Nat /\ t.wire \in Seq(Requests)
        /\ \A a \in t.pending_recv : a.mid \in Nat
        /\ \A e \in On(p) : e.mid \in Nat
    BY <1>1, Mids
  <1>3. /\ t2 \in Transports /\ q \in Requests /\ t2.dead = t.dead
        /\ t2.pending_recv = t.pending_recv \cup {q}
        /\ t2.wire = Append(t.wire, q)
        /\ t2.next_mid = t.next_mid + 1 /\ q.mid = t.next_mid
        /\ q.timed = t.request_timeout
    BY DEF Issued
  <1>4. On(t2.wire) = On(t.wire) \cup {q}
    BY <1>2, <1>3, OnAppend
  <1>5. Base(t2, s, p)
    BY <1>1, BaseIssue
  <1>6. \A e \in On(p) : e.mid # q.mid
    BY <1>1, <1>2, <1>3 DEF Base, Sequenced
  <1>7. Handle(c, t2, s, p)
    <2>1. /\ \A r \in On(t.wire) : r.kind = "open" => r \in t.pending_recv /\ s.open = {}
          /\ \A a, b \in t.pending_recv : a.kind = "open" /\ b.kind \notin Data => a = b
          /\ (\A a \in t.pending_recv : a.kind # "open") => s.open \subseteq {c.fd}
          /\ \A a \in t.pending_recv, e \in On(p) : e.mid = a.mid =>
                /\ a.kind = "open" =>
                      s.open \subseteq (IF e.status = "OK" THEN {e.fnum} ELSE {})
                /\ a.kind = "close" => s.open = {}
          /\ \A a \in t.pending_recv : a.kind = "close" => a.fnum = c.fd /\ ~a.timed
      BY <1>1 DEF Handle
    <2>2. \A r \in On(t2.wire) : r.kind = "open" => r \in t2.pending_recv /\ s.open = {}
      BY <1>3, <1>4, <2>1 DEF Data, MaySend
    <2>3. \A a, b \in t2.pending_recv : a.kind = "open" /\ b.kind \notin Data => a = b
      BY <1>3, <2>1 DEF Data, MaySend
    <2>4. (\A a \in t2.pending_recv : a.kind # "open") => s.open \subseteq {c.fd}
      BY <1>3, <2>1 DEF MaySend, Data
    <2>5. \A a \in t2.pending_recv, e \in On(p) : e.mid = a.mid =>
                /\ a.kind = "open" =>
                      s.open \subseteq (IF e.status = "OK" THEN {e.fnum} ELSE {})
                /\ a.kind = "close" => s.open = {}
      BY <1>3, <1>6, <2>1 DEF MaySend, Data
    <2>6. \A a \in t2.pending_recv : a.kind = "close" => a.fnum = c.fd /\ ~a.timed
      BY <1>3, <2>1 DEF Data, MaySend
    <2> QED BY <2>2, <2>3, <2>4, <2>5, <2>6 DEF Handle
  <1>8. \A a \in t2.pending_recv : a.mid < t2.next_mid
    BY <1>1, <1>2, <1>3
  <1>9. Standing(c, t2, s, p)
    BY <1>1, <1>3, <1>5, <1>7, <1>8 DEF Standing
  <1>10. Added(t, t2, q, p)
    BY <1>1, <1>2, <1>3, <1>4, <1>6 DEF Added
  <1> QED BY <1>9, <1>10

\* y is a standing view after q has been sent from x.
Step(x, y, q, kind, s, p) ==
    /\ y \in Views /\ y.u = x.u /\ y.c.fd = x.c.fd
    /\ q.kind = kind /\ Added(x.t, y.t, q, p) /\ Standing(y.c, y.t, s, p)

\* Requests may be sent from a standing view.
LEMMA StandingSends ==
    ASSUME NEW x, NEW y, NEW s, NEW p, Standing(x.c, x.t, s, p),
           NEW q, NEW kind, NEW fnum, Sends(x, y, q, kind, fnum),
           MaySend(kind, fnum, x.c, x.t, s)
    PROVE  Step(x, y, q, kind, s, p) /\ q.fnum = fnum
  <1> DEFINE c2 == y.c
             t2 == y.t
  <1>1. /\ y \in Views /\ y.u = x.u /\ c2.fd = x.c.fd /\ Issued(x.t, t2, q)
        /\ q.kind = kind /\ q.fnum = fnum /\ q.timed = x.t.request_timeout
        /\ q \in Requests /\ ~t2.dead
    BY DEF Sends, Issued, Standing
  <1> HIDE DEF c2, t2
  <1>2. MaySend(q.kind, q.fnum, x.c, x.t, s)
    BY <1>1
  <1>3. Standing(x.c, t2, s, p) /\ Added(x.t, t2, q, p)
    BY <1>1, <1>2, StandingIssue
  <1>4. Standing(c2, t2, s, p)
    BY <1>1, <1>3 DEF Standing, Handle
  <1> QED BY <1>1, <1>3, <1>4 DEF c2, t2, Step

\* Reads and writes may always be sent.
LEMMA DataSend ==
    ASSUME NEW f, NEW c, NEW t, NEW s
    PROVE  MaySend("read", f, c, t, s) /\ MaySend("write", f, c, t, s)
  BY DEF MaySend, Data

\* x is v after r has left pending_recv.
Removing(v, r, x) == x = [v EXCEPT !.t.pending_recv = @ \ {r}]

\* v is a good view of a live program, p the replies on their way, e the first
\* of them; r is the request it answers and x the view without r.
Delivered(v, r, x, s, p, e, p2) ==
    /\ Good(v) /\ ~v.t.dead /\ ~v.u.exited /\ ~v.u.fault
    /\ s \in Servers /\ p \in Seq(ReplySet) /\ p # <<>> /\ e = Head(p) /\ p2 = Tail(p)
    /\ LiveInv(v.c, v.t, v.u, s, p) /\ OneRead(v.c, v.t, v.u)
    /\ r \in v.t.pending_recv /\ r.mid = e.mid
    /\ Removing(v, r, x)

\* The view without r.
LEMMA Removed ==
    ASSUME NEW v \in Views, NEW r, NEW x, Removing(v, r, x)
    PROVE  /\ x \in Views /\ x.c = v.c /\ x.u = v.u /\ x.t \in Transports
           /\ x.t.pending_recv = v.t.pending_recv \ {r}
           /\ x.t.wire = v.t.wire /\ x.t.next_mid = v.t.next_mid
           /\ x.t.dead = v.t.dead /\ x.t.request_timeout = v.t.request_timeout
  <1> DEFINE t == [v.t EXCEPT !.pending_recv = @ \ {r}]
  <1>1. v.t \in Transports /\ v.t.pending_recv \ {r} \in SUBSET Requests
    BY DEF Views, Transports
  <1>2. /\ t \in Transports
        /\ t.pending_recv = v.t.pending_recv \ {r}
        /\ t.wire = v.t.wire /\ t.next_mid = v.t.next_mid
        /\ t.dead = v.t.dead /\ t.request_timeout = v.t.request_timeout
    BY <1>1 DEF Transports
  <1>3. x = [v EXCEPT !.t = t]
    BY DEF Removing
  <1> HIDE DEF t
  <1>4. x \in Views /\ x.c = v.c /\ x.u = v.u /\ x.t = t
    BY <1>2, <1>3 DEF Views
  <1> QED BY <1>2, <1>4

\* What is known when a reply is delivered; in particular nothing older than an
\* open or close that is answered is still outstanding.
LEMMA DeliveredFacts ==
    ASSUME NEW v, NEW r, NEW x, NEW s, NEW p, NEW e, NEW p2, Delivered(v, r, x, s, p, e, p2)
    PROVE  /\ v \in Views /\ v.t \in Transports /\ r.mid \in Nat /\ r \in Requests
           /\ x \in Views /\ x.c = v.c /\ x.u = v.u /\ x.t \in Transports
           /\ x.t.pending_recv = v.t.pending_recv \ {r}
           /\ x.t.wire = v.t.wire /\ x.t.next_mid = v.t.next_mid
           /\ ~x.t.dead /\ x.t.request_timeout = v.t.request_timeout
           /\ s \in Servers /\ p2 \in Seq(ReplySet)
           /\ On(p) = {e} \cup On(p2) /\ e \in On(p) /\ e.mid = r.mid
           /\ e.status \in Statuses /\ e.fnum \in Nat
           /\ \A a \in x.t.pending_recv : a.mid # r.mid /\ a.mid < x.t.next_mid /\ a.mid \in Nat
           /\ r.kind \notin Data => \A a \in x.t.pending_recv : r.mid < a.mid
           /\ r \notin On(v.t.wire)
           /\ Base(x.t, s, p2) /\ Handle(v.c, v.t, s, p) /\ Phase(v.c, v.t, v.u, s, p)
  <1>1. /\ Good(v) /\ v \in Views /\ Fresh(v) /\ ~v.t.dead
        /\ s \in Servers /\ p \in Seq(ReplySet) /\ p # <<>> /\ e = Head(p) /\ p2 = Tail(p)
        /\ Base(v.t, s, p) /\ Handle(v.c, v.t, s, p) /\ Phase(v.c, v.t, v.u, s, p)
        /\ r \in v.t.pending_recv /\ r.mid = e.mid
        /\ Removing(v, r, x)
    BY DEF Delivered, LiveInv, Good
  <1>2. /\ x \in Views /\ x.c = v.c /\ x.u = v.u /\ x.t \in Transports
        /\ x.t.pending_recv = v.t.pending_recv \ {r}
        /\ x.t.wire = v.t.wire /\ x.t.next_mid = v.t.next_mid
        /\ ~x.t.dead /\ x.t.request_timeout = v.t.request_timeout
    BY <1>1, Removed
  <1>3. v.t \in Transports
    BY <1>1 DEF Views
  <1>4. /\ \A a \in v.t.pending_recv : a.mid \in Nat /\ a \in Requests
        /\ \A q \in On(v.t.wire) : q.mid \in Nat
    BY <1>1, <1>3, Mids
  <1>5. /\ On(p) = {e} \cup On(p2) /\ e \in On(p) /\ e = p[1] /\ 1 \in 1..Len(p)
    BY <1>1, OnTail
  <1>6. e \in ReplySet /\ p2 \in Seq(ReplySet)
    BY <1>1
  <1>7. e.status \in Statuses /\ e.fnum \in Nat
    BY <1>6 DEF ReplySet
  <1>8. \A a \in x.t.pending_recv : a.mid # r.mid /\ a.mid < x.t.next_mid /\ a.mid \in Nat
    BY <1>1, <1>2, <1>4 DEF Base, Named, Fresh
  <1>9. ASSUME r.kind \notin Data, NEW a \in x.t.pending_recv PROVE r.mid < a.mid
    <2>1. ~(a.mid < r.mid)
      BY <1>1, <1>2, <1>5, <1>9 DEF Base, Barriers
    <2> QED BY <1>1, <1>4, <1>8, <2>1
  <1>10. r \notin On(v.t.wire)
    BY <1>1, <1>4, <1>5 DEF Base, Sequenced
  <1>11. Base(x.t, s, p)
    BY <1>1, <1>2, BaseShrink
  <1>12. Base(x.t, s, p2)
    BY <1>1, <1>2, <1>8, <1>11, BaseTail
  <1> QED BY <1>1, <1>2, <1>3, <1>4, <1>5, <1>6, <1>7, <1>8, <1>9, <1>10, <1>12

\* After a reply has been delivered requests may be sent again.
LEMMA StandingDelivered ==
    ASSUME NEW v, NEW r, NEW x, NEW s, NEW p, NEW e, NEW p2, Delivered(v, r, x, s, p, e, p2),
           NEW c, r.kind # "open" => c.fd = v.c.fd,
           r.kind = "open" /\ e.status = "OK" => c.fd = e.fnum
    PROVE  Standing(c, x.t, s, p2)
  <1>1. /\ x.t \in Transports
        /\ x.t.pending_recv = v.t.pending_recv \ {r}
        /\ x.t.wire = v.t.wire
        /\ On(p) = {e} \cup On(p2) /\ e.mid = r.mid
        /\ r \notin On(v.t.wire)
        /\ \A a \in x.t.pending_recv : a.mid < x.t.next_mid
        /\ ~x.t.dead /\ s \in Servers /\ p2 \in Seq(ReplySet)
        /\ Base(x.t, s, p2) /\ Handle(v.c, v.t, s, p)
    BY DeliveredFacts
  <1>2. r \in v.t.pending_recv
    BY DEF Delivered
  <1>3. CASE r.kind # "open"
    <2>1. Handle(c, x.t, s, p2)
      BY <1>1, <1>3 DEF Handle
    <2> QED BY <1>1, <2>1 DEF Standing
  <1>4. CASE r.kind = "open"
    <2>1. s.open \subseteq {c.fd}
      BY <1>1, <1>2, <1>4 DEF Handle
    <2>2. \A a \in x.t.pending_recv : a.kind \in Data
      BY <1>1, <1>2, <1>4 DEF Handle
    <2>3. Handle(c, x.t, s, p2)
      BY <1>1, <2>1, <2>2 DEF Handle, Data
    <2> QED BY <1>1, <2>3 DEF Standing
  <1> QED BY <1>3, <1>4

-----------------------------------------------------------------------------
\* The context after async_open_recv has taken the result.
LEMMA OpenRecv ==
    ASSUME NEW x \in Views, NEW ok \in BOOLEAN, NEW fnum, ok => fnum \in Nat
    PROVE  LET y == async_open_recv(x, ok, fnum)
           IN  /\ y \in Views /\ y.t = x.t /\ y.u = x.u
               /\ y.c.rreq = NULL /\ ~y.c.io_open
               /\ ok => y.c.fd = fnum
               /\ ~ok => y.c.fd = x.c.fd
               /\ y.c.io_read = x.c.io_read /\ y.c.io_write = x.c.io_write
  <1> DEFINE y == async_open_recv(x, ok, fnum)
             c == [x.c EXCEPT !.rreq = NULL, !.io_open = FALSE,
                              !.fd = IF ok THEN fnum ELSE @]
  <1>1. x.c \in Contexts
    BY DEF Views
  <1>2. c \in Contexts
    BY <1>1, NoData DEF Contexts
  <1>3. /\ c.rreq = NULL /\ ~c.io_open
        /\ ok => c.fd = fnum
        /\ ~ok => c.fd = x.c.fd
        /\ c.io_read = x.c.io_read /\ c.io_write = x.c.io_write
    BY <1>1 DEF Contexts
  <1>4. y = [x EXCEPT !.c = c]
    BY DEF async_open_recv
  <1> HIDE DEF c, y
  <1>5. y \in Views /\ y.t = x.t /\ y.u = x.u /\ y.c = c
    BY <1>2, <1>4 DEF Views
  <1> QED BY <1>3, <1>5 DEF y

\* The context after async_read_recv has taken the result.
LEMMA ReadRecv ==
    ASSUME NEW x \in Views
    PROVE  LET y == async_read_recv(x)
           IN  /\ y \in Views /\ y.t = x.t /\ y.u = x.u
               /\ y.c.rreq = NULL /\ y.c.fd = x.c.fd /\ y.c.io_open = x.c.io_open
               /\ y.c.io_read = x.c.io_read /\ y.c.io_write = x.c.io_write
  <1> DEFINE y == async_read_recv(x)
             c == [x.c EXCEPT !.rreq = NULL]
  <1>1. x.c \in Contexts
    BY DEF Views
  <1>2. c \in Contexts
    BY <1>1, NoData DEF Contexts
  <1>3. /\ c.rreq = NULL /\ c.fd = x.c.fd /\ c.io_open = x.c.io_open
        /\ c.io_read = x.c.io_read /\ c.io_write = x.c.io_write
    BY <1>1 DEF Contexts
  <1>4. y = [x EXCEPT !.c = c]
    BY DEF async_read_recv
  <1> HIDE DEF c, y
  <1>5. y \in Views /\ y.t = x.t /\ y.u = x.u /\ y.c = c
    BY <1>2, <1>4 DEF Views
  <1> QED BY <1>3, <1>5 DEF y

\* The context after async_write_recv has taken the result: nothing is queued.
LEMMA WriteRecv ==
    ASSUME NEW x \in Views, NEW ok \in BOOLEAN
    PROVE  LET y == async_write_recv(x, ok)
           IN  /\ y \in Views /\ y.t = x.t /\ y.u = x.u
               /\ y.c.rreq = x.c.rreq /\ y.c.fd = x.c.fd /\ y.c.io_open = x.c.io_open
               /\ y.c.io_read = x.c.io_read
               /\ ok => y.c.io_write = x.c.io_write
  <1> DEFINE y == async_write_recv(x, ok)
             c == [x.c EXCEPT !.wreq = NULL, !.io_write = IF ok THEN @ ELSE NULL]
             z == [x EXCEPT !.c = c]
  <1>1. x.c \in Contexts
    BY DEF Views
  <1>2. c \in Contexts
    BY <1>1, NoData DEF Contexts
  <1>3. /\ c.rreq = x.c.rreq /\ c.fd = x.c.fd /\ c.io_open = x.c.io_open
        /\ c.io_read = x.c.io_read
        /\ ok => c.io_write = x.c.io_write
    BY <1>1 DEF Contexts
  <1>4. [x EXCEPT !.c.wreq = NULL, !.c.io_write = IF ok THEN @ ELSE NULL] = z
    OBVIOUS
  <1> HIDE DEF c
  <1>5. z \in Views /\ z.t = x.t /\ z.u = x.u /\ z.c = c /\ z.c.wq = <<>>
    BY <1>2 DEF Views, Contexts
  <1> HIDE DEF z
  <1>6. y = z
    BY <1>4, <1>5 DEF async_write_recv
  <1> QED BY <1>3, <1>5, <1>6

\* The context after async_close_recv.
LEMMA CloseRecv ==
    ASSUME NEW x \in Views
    PROVE  LET y == async_close_recv(x)
           IN  /\ y \in Views /\ y.t = x.t /\ y.u = x.u
               /\ y.c.rreq = x.c.rreq /\ y.c.fd = x.c.fd
               /\ y.c.io_read = NULL /\ y.c.io_write = NULL
  <1> DEFINE y == async_close_recv(x)
             c == [x.c EXCEPT !.io_close = FALSE, !.io_open = FALSE,
                              !.io_read = NULL, !.io_write = NULL]
  <1>1. x.c \in Contexts
    BY DEF Views
  <1>2. c \in Contexts
    BY <1>1, NoData DEF Contexts
  <1>3. /\ c.rreq = x.c.rreq /\ c.fd = x.c.fd
        /\ c.io_read = NULL /\ c.io_write = NULL
    BY <1>1 DEF Contexts
  <1>4. y = [x EXCEPT !.c = c]
    BY DEF async_close_recv
  <1> HIDE DEF c, y
  <1>5. y \in Views /\ y.t = x.t /\ y.u = x.u /\ y.c = c
    BY <1>2, <1>4 DEF Views
  <1> QED BY <1>3, <1>5 DEF y

\* The user's own steps leave the context and the transport alone.
LEMMA UserSteps ==
    ASSUME NEW x \in Views
    PROVE  /\ LET y == [x EXCEPT !.u.state = "OPEN", !.u.sources = @ + 1]
              IN  /\ y \in Views /\ y.c = x.c /\ y.t = x.t /\ y.u.state = "OPEN"
                  /\ y.u.fault = x.u.fault /\ y.u.exited = x.u.exited
           /\ LET y == [x EXCEPT !.u.state = "CLOSING"]
              IN  /\ y \in Views /\ y.c = x.c /\ y.t = x.t /\ y.u.state = "CLOSING"
                  /\ y.u.fault = x.u.fault /\ y.u.exited = x.u.exited
           /\ LET y == [x EXCEPT !.u.state = "OPENING"]
              IN  /\ y \in Views /\ y.c = x.c /\ y.t = x.t /\ y.u.state = "OPENING"
                  /\ y.u.fault = x.u.fault /\ y.u.exited = x.u.exited
           /\ LET y == [x EXCEPT !.u.activated = TRUE]
              IN  /\ y \in Views /\ y.c = x.c /\ y.t = x.t /\ y.u.state = x.u.state
                  /\ y.u.fault = x.u.fault /\ y.u.exited = x.u.exited
           /\ LET y == exit_program(x)
              IN  /\ y \in Views /\ y.c = x.c /\ y.t = x.t /\ y.u.state = x.u.state
                  /\ y.u.fault = x.u.fault /\ y.u.exited
  <1>1. ASSUME NEW u \in Users
        PROVE  LET y == [x EXCEPT !.u = u]
               IN  y \in Views /\ y.c = x.c /\ y.t = x.t /\ y.u = u
    BY <1>1 DEF Views
  <1>2. x.u \in Users /\ x.u.sources + 1 \in Nat
    BY DEF Views, Users
  <1>3. LET u == [x.u EXCEPT !.state = "OPEN", !.sources = @ + 1]
        IN  u \in Users /\ u.state = "OPEN" /\ u.fault = x.u.fault /\ u.exited = x.u.exited
    BY <1>2 DEF Users
  <1>4. LET u == [x.u EXCEPT !.state = "CLOSING"]
        IN  u \in Users /\ u.state = "CLOSING" /\ u.fault = x.u.fault /\ u.exited = x.u.exited
    BY <1>2 DEF Users
  <1>5. LET u == [x.u EXCEPT !.state = "OPENING"]
        IN  u \in Users /\ u.state = "OPENING" /\ u.fault = x.u.fault /\ u.exited = x.u.exited
    BY <1>2 DEF Users
  <1>6. LET u == [x.u EXCEPT !.activated = TRUE]
        IN  u \in Users /\ u.state = x.u.state /\ u.fault = x.u.fault /\ u.exited = x.u.exited
    BY <1>2 DEF Users
  <1>7. LET u == [x.u EXCEPT !.exited = TRUE]
        IN  u \in Users /\ u.state = x.u.state /\ u.fault = x.u.fault /\ u.exited
    BY <1>2 DEF Users
  <1>8. LET y == [x EXCEPT !.u.state = "OPEN", !.u.sources = @ + 1]
        IN  /\ y \in Views /\ y.c = x.c /\ y.t = x.t /\ y.u.state = "OPEN"
            /\ y.u.fault = x.u.fault /\ y.u.exited = x.u.exited
    BY <1>1, <1>3
  <1>9. LET y == [x EXCEPT !.u.state = "CLOSING"]
        IN  /\ y \in Views /\ y.c = x.c /\ y.t = x.t /\ y.u.state = "CLOSING"
            /\ y.u.fault = x.u.fault /\ y.u.exited = x.u.exited
    BY <1>1, <1>4
  <1>10. LET y == [x EXCEPT !.u.state = "OPENING"]
         IN  /\ y \in Views /\ y.c = x.c /\ y.t = x.t /\ y.u.state = "OPENING"
             /\ y.u.fault = x.u.fault /\ y.u.exited = x.u.exited
    BY <1>1, <1>5
  <1>11. LET y == [x EXCEPT !.u.activated = TRUE]
         IN  /\ y \in Views /\ y.c = x.c /\ y.t = x.t /\ y.u.state = x.u.state
             /\ y.u.fault = x.u.fault /\ y.u.exited = x.u.exited
    BY <1>1, <1>6
  <1>12. LET y == exit_program(x)
         IN  /\ y \in Views /\ y.c = x.c /\ y.t = x.t /\ y.u.state = x.u.state
             /\ y.u.fault = x.u.fault /\ y.u.exited
    BY <1>1, <1>7 DEF exit_program
  <1> QED BY <1>8, <1>9, <1>10, <1>11, <1>12

\* async_open from a standing view.
LEMMA OpenStep ==
    ASSUME NEW x \in Views, NEW s, NEW p, Standing(x.c, x.t, s, p), s.open = {},
           \A a \in x.t.pending_recv : a.kind \in Data
    PROVE  LET y == async_open(x)
           IN  /\ \E q : Step(x, y, q, "open", s, p)
               /\ y.c.io_open
               /\ y.c.io_read = x.c.io_read /\ y.c.io_write = x.c.io_write
               /\ y.t.request_timeout = x.t.request_timeout
  <1> DEFINE y == async_open(x)
  <1>1. /\ \E q : Sends(x, y, q, "open", NULL)
        /\ y.c.io_open
        /\ y.c.io_read = x.c.io_read /\ y.c.io_write = x.c.io_write
        /\ y.t.request_timeout = x.t.request_timeout
    BY OpenIssued DEF Standing
  <1> HIDE DEF y
  <1>2. PICK q : Sends(x, y, q, "open", NULL)
    BY <1>1
  <1>3. MaySend("open", NULL, x.c, x.t, s)
    BY DEF MaySend
  <1>4. Step(x, y, q, "open", s, p)
    BY <1>2, <1>3, StandingSends
  <1> QED BY <1>1, <1>4 DEF y

\* async_read from a standing view.
LEMMA ReadStep ==
    ASSUME NEW x \in Views, NEW s, NEW p, Standing(x.c, x.t, s, p)
    PROVE  LET y == async_read(x)
           IN  /\ \E q : Step(x, y, q, "read", s, p) /\ q.fnum = y.c.io_read /\ q.mid = y.c.rreq
               /\ x.c.io_read = NULL => y.c.io_read = y.c.fd
               /\ x.c.io_read # NULL => y.c.io_read = x.c.io_read
               /\ y.c.io_open = x.c.io_open /\ y.c.io_write = x.c.io_write
               /\ ~y.t.request_timeout
  <1> DEFINE y == async_read(x)
             f == IF x.c.io_read = NULL THEN x.c.fd ELSE x.c.io_read
  <1>1. /\ \E q : Sends(x, y, q, "read", f)
        /\ y.c.rreq = x.t.next_mid /\ y.c.io_read = f
        /\ y.c.io_open = x.c.io_open /\ y.c.io_write = x.c.io_write
        /\ ~y.t.request_timeout
    BY ReadIssued DEF Standing
  <1>2. /\ x.c.io_read = NULL => f = x.c.fd
        /\ x.c.io_read # NULL => f = x.c.io_read
    OBVIOUS
  <1> HIDE DEF y, f
  <1>3. PICK q : Sends(x, y, q, "read", f)
    BY <1>1
  <1>4. MaySend("read", f, x.c, x.t, s)
    BY DataSend
  <1>5. Step(x, y, q, "read", s, p) /\ q.fnum = f
    BY <1>3, <1>4, StandingSends
  <1>6. q.mid = x.t.next_mid /\ y.c.fd = x.c.fd
    BY <1>5 DEF Step, Added
  <1> QED BY <1>1, <1>2, <1>5, <1>6 DEF y

\* async_write from a standing view.
LEMMA WriteStep ==
    ASSUME NEW x \in Views, NEW s, NEW p, Standing(x.c, x.t, s, p), NEW data \in Seq(Lines)
    PROVE  LET y == async_write(x, data)
           IN  /\ \E q : Step(x, y, q, "write", s, p) /\ q.fnum = y.c.io_write
               /\ y.c.rreq = x.c.rreq
               /\ x.c.io_write = NULL => y.c.io_write = y.c.fd
               /\ x.c.io_write # NULL => y.c.io_write = x.c.io_write
               /\ y.c.io_write # NULL
               /\ y.c.io_open = x.c.io_open /\ y.c.io_read = x.c.io_read
               /\ y.t.request_timeout = x.t.request_timeout
  <1> DEFINE y == async_write(x, data)
             f == IF x.c.io_write = NULL THEN x.c.fd ELSE x.c.io_write
  <1>1. /\ \E q : Sends(x, y, q, "write", f)
        /\ y.c.rreq = x.c.rreq /\ y.c.io_write = f
        /\ y.c.io_open = x.c.io_open /\ y.c.io_read = x.c.io_read
        /\ y.t.request_timeout = x.t.request_timeout
    BY WriteIssued DEF Standing
  <1>2. /\ x.c.io_write = NULL => f = x.c.fd
        /\ x.c.io_write # NULL => f = x.c.io_write
        /\ f # NULL
    BY DEF Views, Contexts, NULL
  <1> HIDE DEF y, f
  <1>3. PICK q : Sends(x, y, q, "write", f)
    BY <1>1
  <1>4. MaySend("write", f, x.c, x.t, s)
    BY DataSend
  <1>5. Step(x, y, q, "write", s, p) /\ q.fnum = f
    BY <1>3, <1>4, StandingSends
  <1>6. y.c.fd = x.c.fd
    BY <1>5 DEF Step
  <1> QED BY <1>1, <1>2, <1>5, <1>6 DEF y

\* async_close from a standing view without an outstanding open: first the
\* request that rreq names is dropped, which leads to z.
LEMMA CloseStep ==
    ASSUME NEW x \in Views, NEW s, NEW p, Standing(x.c, x.t, s, p),
           ~x.t.request_timeout, \A a \in x.t.pending_recv : a.kind # "open"
    PROVE  LET y == async_close(x)
           IN  /\ \E z, q : /\ Step(z, y, q, "close", s, p)
                            /\ z.u = x.u /\ z.c.fd = x.c.fd /\ z.t.wire = x.t.wire
                            /\ z.t.pending_recv = {r \in x.t.pending_recv : r.mid # x.c.rreq}
                            /\ ~z.t.request_timeout
               /\ y.c.rreq = NULL /\ y.c.io_open = x.c.io_open
               /\ y.c.io_read = x.c.io_read /\ y.c.io_write = x.c.io_write
               /\ ~y.t.request_timeout
  <1> DEFINE y == async_close(x)
             S == {r \in x.t.pending_recv : r.mid # x.c.rreq}
  <1>1. PICK z : /\ z \in Views /\ z.t.dead = x.t.dead
                 /\ z.t.wire = x.t.wire /\ z.t.next_mid = x.t.next_mid
                 /\ z.t.pending_recv = S
                 /\ z.t.request_timeout = x.t.request_timeout
                 /\ z.u = x.u /\ z.c.fd = x.c.fd
                 /\ \E r : Sends(z, y, r, "close", x.c.fd)
                 /\ y.c.rreq = NULL /\ y.c.io_open = x.c.io_open
                 /\ y.c.io_read = x.c.io_read /\ y.c.io_write = x.c.io_write
                 /\ y.t.request_timeout = x.t.request_timeout
    BY CloseIssued DEF Standing
  <1>2. S \subseteq x.t.pending_recv /\ \A a \in S : a.kind # "open"
    OBVIOUS
  <1> HIDE DEF y, S
  <1>3. PICK q : Sends(z, y, q, "close", z.c.fd)
    BY <1>1
  <1>4. MaySend("close", z.c.fd, z.c, z.t, s)
    BY <1>1, <1>2 DEF MaySend
  <1>5. Base(z.t, s, p)
    BY <1>1, <1>2, BaseShrink DEF Standing
  <1>6. Handle(z.c, z.t, s, p)
    <2>1. \A r \in On(x.t.wire) : r.kind # "open"
      BY DEF Standing, Handle
    <2> QED BY <1>1, <1>2, <2>1 DEF Standing, Handle
  <1>7. Standing(z.c, z.t, s, p)
    BY <1>1, <1>2, <1>5, <1>6 DEF Standing, Views
  <1>8. Step(z, y, q, "close", s, p)
    BY <1>3, <1>4, <1>7, StandingSends
  <1>9. z.t.pending_recv = {r \in x.t.pending_recv : r.mid # x.c.rreq}
    BY <1>1 DEF S
  <1> QED BY <1>1, <1>8, <1>9 DEF y

-----------------------------------------------------------------------------
\* The invariant for a view.
Kept(w, s, p) ==
    /\ ~w.u.fault /\ OneRead(w.c, w.t, w.u)
    /\ ~w.t.dead /\ ~w.u.exited => LiveInv(w.c, w.t, w.u, s, p)

\* A standing view is kept when its phase is.
LEMMA StandingKept ==
    ASSUME NEW w, NEW s, NEW p, Standing(w.c, w.t, s, p), Phase(w.c, w.t, w.u, s, p),
           OneRead(w.c, w.t, w.u), ~w.u.fault
    PROVE  Kept(w, s, p)
  BY DEF Kept, LiveInv, Standing

\* The control pipe is open: the version is asked for and reading begins.
LEMMA CtrlOpenOk ==
    ASSUME User = "ctrl",
           NEW v, NEW r, NEW x, NEW s, NEW p, NEW e, NEW p2, Delivered(v, r, x, s, p, e, p2),
           r.kind = "open", e.status = "OK",
           NEW w \in HandleReply(x, r.kind, e.status, e.fnum)
    PROVE  Kept(w, s, p2)
  <1> DEFINE y == async_open_recv(x, e.status = "OK", e.fnum)
             z == [y EXCEPT !.u.state = "OPEN", !.u.sources = @ + 1]
             z2 == async_write(z, <<"get version">>)
             z3 == async_read(z2)
  <1>1. /\ x \in Views /\ x.c = v.c /\ x.u = v.u
        /\ x.t.pending_recv = v.t.pending_recv \ {r}
        /\ e.fnum \in Nat
        /\ \A a \in x.t.pending_recv : r.mid < a.mid /\ a.mid \in Nat
        /\ r.mid \in Nat
        /\ Handle(v.c, v.t, s, p) /\ Phase(v.c, v.t, v.u, s, p)
    BY DeliveredFacts DEF Data
  <1>2. r \in v.t.pending_recv /\ v.u \in Users /\ ~v.u.fault
    BY DEF Delivered, Good, Views
  <1>3. CtrlOpening(v.c, v.t, p)
    BY <1>1, <1>2 DEF Phase, CtrlOpen, CtrlClosing, Data, Users
  <1>4. \A a \in x.t.pending_recv : a.kind \in Data /\ a.kind # "read"
    BY <1>1, <1>2, <1>3 DEF CtrlOpening, Handle
  <1>5. /\ y \in Views /\ y.t = x.t /\ y.u = x.u
        /\ y.c.fd = e.fnum /\ y.c.io_read = x.c.io_read
    BY <1>1, OpenRecv
  <1>6. Standing(y.c, y.t, s, p2)
    BY <1>5, StandingDelivered
  <1>7. w = z3
    BY <1>3, <1>1 DEF HandleReply, NullDeref, CtrlOpening, OpenReply, cb_open
  <1> HIDE DEF y
  <1>8. z \in Views /\ z.c = y.c /\ z.t = y.t /\ z.u.state = "OPEN" /\ z.u.fault = y.u.fault
    BY <1>5, UserSteps
  <1> HIDE DEF z
  <1>9. <<"get version">> \in Seq(Lines)
    BY DEF Lines
  <1>10. Standing(z.c, z.t, s, p2)
    BY <1>6, <1>8
  <1>11. /\ \E a : Step(z, z2, a, "write", s, p2)
         /\ z2.c.io_write # NULL /\ z2.c.io_read = z.c.io_read
    BY <1>8, <1>9, <1>10, WriteStep
  <1> HIDE DEF z2
  <1>12. PICK a : Step(z, z2, a, "write", s, p2)
    BY <1>11
  <1>13. z2 \in Views /\ Standing(z2.c, z2.t, s, p2)
    BY <1>12 DEF Step
  <1>14. /\ \E b : Step(z2, z3, b, "read", s, p2) /\ b.fnum = z3.c.io_read
         /\ z2.c.io_read = NULL => z3.c.io_read = z3.c.fd
         /\ z3.c.io_write = z2.c.io_write /\ ~z3.t.request_timeout
    BY <1>13, ReadStep
  <1> HIDE DEF z3
  <1>15. PICK b : Step(z2, z3, b, "read", s, p2) /\ b.fnum = z3.c.io_read
    BY <1>14
  <1>16. z3.c.io_read = z3.c.fd
    BY <1>1, <1>3, <1>5, <1>8, <1>11, <1>14 DEF CtrlOpening
  <1>17. /\ z3.t.pending_recv = x.t.pending_recv \cup {a, b}
         /\ z3.u.state = "OPEN" /\ ~z3.u.fault
         /\ a.kind = "write" /\ b.kind = "read" /\ b.fnum = z3.c.fd
         /\ Standing(z3.c, z3.t, s, p2)
    BY <1>1, <1>2, <1>5, <1>8, <1>12, <1>15, <1>16 DEF Step, Added
  <1>18. OneRead(z3.c, z3.t, z3.u)
    BY <1>4, <1>17 DEF OneRead
  <1>19. CtrlOpen(z3.c, z3.t)
    BY <1>4, <1>11, <1>14, <1>16, <1>17 DEF CtrlOpen, Data
  <1>20. Phase(z3.c, z3.t, z3.u, s, p2)
    BY <1>17, <1>19 DEF Phase
  <1>21. Kept(z3, s, p2)
    BY <1>17, <1>18, <1>20, StandingKept
  <1> QED BY <1>7, <1>21

\* Fewer reads are outstanding, and the pipe has not been opened.
LEMMA OneReadLess ==
    ASSUME NEW x, NEW y, OneRead(x.c, x.t, x.u), y.c.fd = x.c.fd,
           y.u.state = "OPEN" => x.u.state = "OPEN",
           \A a \in y.t.pending_recv : a.kind = "read" => a \in x.t.pending_recv
    PROVE  OneRead(y.c, y.t, y.u)
  BY DEF OneRead

\* A program that exits keeps the invariant.
LEMMA ExitKept ==
    ASSUME NEW x \in Views, OneRead(x.c, x.t, x.u), ~x.u.fault, NEW s, NEW p
    PROVE  Kept(exit_program(x), s, p)
  <1> DEFINE y == exit_program(x)
  <1>1. /\ y.c = x.c /\ y.t = x.t /\ y.u.state = x.u.state
        /\ y.u.fault = x.u.fault /\ y.u.exited
    BY UserSteps
  <1> HIDE DEF y
  <1>2. OneRead(y.c, y.t, y.u)
    BY <1>1 DEF OneRead
  <1>3. Kept(y, s, p)
    BY <1>1, <1>2 DEF Kept
  <1> QED BY <1>3 DEF y

\* One read less, or nothing new, for the view without r.
LEMMA DeliveredOneRead ==
    ASSUME NEW v, NEW r, NEW x, NEW s, NEW p, NEW e, NEW p2, Delivered(v, r, x, s, p, e, p2)
    PROVE  /\ OneRead(x.c, x.t, x.u) /\ ~x.u.fault /\ ~x.u.exited /\ x.u \in Users
           /\ r.kind = "read" => \A a \in x.t.pending_recv : a.kind # "read"
  <1>1. x \in Views /\ x.c = v.c /\ x.u = v.u /\ x.t.pending_recv = v.t.pending_recv \ {r}
    BY DeliveredFacts
  <1>2. OneRead(v.c, v.t, v.u) /\ r \in v.t.pending_recv /\ ~v.u.fault /\ ~v.u.exited
    BY DEF Delivered
  <1> QED BY <1>1, <1>2 DEF OneRead, Views

\* The open of the control pipe has failed: the service is installed and the
\* pipe opened again, or the program exits.
LEMMA CtrlOpenError ==
    ASSUME User = "ctrl",
           NEW v, NEW r, NEW x, NEW s, NEW p, NEW e, NEW p2, Delivered(v, r, x, s, p, e, p2),
           r.kind = "open", e.status # "OK",
           NEW w \in HandleReply(x, r.kind, e.status, e.fnum)
    PROVE  Kept(w, s, p2)
  <1> DEFINE y == async_open_recv(x, e.status = "OK", e.fnum)
             z == [y EXCEPT !.u.activated = TRUE]
             z2 == async_open(z)
  <1>1. /\ x \in Views /\ x.c = v.c /\ x.u = v.u
        /\ x.t.pending_recv = v.t.pending_recv \ {r}
        /\ On(p) = {e} \cup On(p2) /\ e \in On(p) /\ e.mid = r.mid
        /\ Handle(v.c, v.t, s, p) /\ Phase(v.c, v.t, v.u, s, p)
    BY DeliveredFacts
  <1>2. r \in v.t.pending_recv
    BY DEF Delivered
  <1>3. OneRead(x.c, x.t, x.u) /\ ~x.u.fault /\ x.u \in Users
    BY DeliveredOneRead
  <1>4. CtrlOpening(v.c, v.t, p) /\ x.u.state = "OPENING"
    BY <1>1, <1>2, <1>3 DEF Phase, CtrlOpen, CtrlClosing, Data, Users
  <1>5. /\ y \in Views /\ y.t = x.t /\ y.u = x.u /\ y.c.fd = x.c.fd
        /\ y.c.io_read = x.c.io_read
    BY <1>1, OpenRecv
  <1>6. Standing(y.c, y.t, s, p2)
    BY <1>5, StandingDelivered
  <1>7. w = exit_program(y) \/ w = z2
    BY DEF HandleReply, OpenReply, cb_error, on_ctrl_pipe_error
  <1> HIDE DEF y
  <1>8. CASE w = exit_program(y)
    <2>1. OneRead(y.c, y.t, y.u) /\ ~y.u.fault
      BY <1>3, <1>5 DEF OneRead
    <2> QED BY <1>5, <1>8, <2>1, ExitKept
  <1>9. CASE w = z2
    <2>1. /\ z \in Views /\ z.c = y.c /\ z.t = y.t /\ z.u.state = y.u.state
          /\ z.u.fault = y.u.fault
      BY <1>5, UserSteps
    <2> HIDE DEF z
    <2>2. /\ z \in Views /\ z.c = y.c /\ z.t = y.t /\ z.u.state = "OPENING"
          /\ z.u.fault = y.u.fault
      BY <1>4, <1>5, <2>1
    <2>3. s.open \subseteq (IF e.status = "OK" THEN {e.fnum} ELSE {})
      BY <1>1, <1>2 DEF Handle
    <2>4. s.open = {}
      BY <2>3
    <2>5. \A a \in x.t.pending_recv : a.kind \in Data
      BY <1>1, <1>2 DEF Handle
    <2>6. s.open = {} /\ \A a \in z.t.pending_recv : a.kind \in Data
      BY <1>5, <2>2, <2>4, <2>5
    <2>7. Standing(z.c, z.t, s, p2)
      BY <1>6, <2>2
    <2>8. /\ \E o : Step(z, z2, o, "open", s, p2)
          /\ z2.c.io_open /\ z2.c.io_read = z.c.io_read
      BY <2>2, <2>6, <2>7, OpenStep
    <2> HIDE DEF z2
    <2>9. PICK o : Step(z, z2, o, "open", s, p2)
      BY <2>8
    <2>10. /\ z2.u = z.u /\ z2.c.fd = z.c.fd /\ o.kind = "open"
           /\ Standing(z2.c, z2.t, s, p2)
           /\ z2.t.pending_recv = x.t.pending_recv \cup {o}
           /\ \A a \in x.t.pending_recv : a.mid < o.mid /\ a.mid \in Nat
           /\ o.mid \in Nat
      BY <1>5, <2>2, <2>9 DEF Step, Added
    <2>11. \A a \in x.t.pending_recv : ~Succeeds(p2, a) /\ a.kind \in Data
      BY <1>1, <1>2, <1>4, <1>5, <2>2, <2>6 DEF CtrlOpening, Succeeds
    <2>12. CtrlOpening(z2.c, z2.t, p2)
      BY <1>1, <1>4, <1>5, <2>2, <2>8, <2>10, <2>11 DEF CtrlOpening, Data
    <2>13. Phase(z2.c, z2.t, z2.u, s, p2)
      BY <2>2, <2>10, <2>12 DEF Phase
    <2>14. OneRead(z2.c, z2.t, z2.u)
      BY <1>3, <1>5, <2>2, <2>10 DEF OneRead
    <2>15. ~z2.u.fault
      BY <1>3, <1>5, <2>2, <2>10
    <2> QED BY <1>9, <2>10, <2>13, <2>14, <2>15, StandingKept
  <1> QED BY <1>7, <1>8, <1>9

\* Nothing but the read or write r, and perhaps replies, has gone.
Losing(c, t, p, c2, t2, p2, r) ==
    /\ r.kind \in Data
    /\ t2.pending_recv = t.pending_recv \ {r}
    /\ t2.request_timeout = t.request_timeout
    /\ On(p2) \subseteq On(p)
    /\ c2.io_open = c.io_open /\ c2.io_read = c.io_read /\ c2.fd = c.fd
    /\ c2.io_write = c.io_write

\* A read or a write leaves pending_recv: the phase of the control pipe stays.
LEMMA CtrlLose ==
    ASSUME User = "ctrl", NEW c, NEW t, NEW u, NEW s, NEW p, Phase(c, t, u, s, p),
           NEW c2, NEW t2, NEW p2, NEW r, Losing(c, t, p, c2, t2, p2, r)
    PROVE  Phase(c2, t2, u, s, p2)
  <1>1. /\ t2.pending_recv = t.pending_recv \ {r} /\ r.kind \in Data
        /\ t2.request_timeout = t.request_timeout /\ On(p2) \subseteq On(p)
        /\ c2.io_open = c.io_open /\ c2.io_read = c.io_read /\ c2.fd = c.fd
        /\ c2.io_write = c.io_write
    BY DEF Losing
  <1>2. \A a : Succeeds(p2, a) => Succeeds(p, a)
    BY <1>1 DEF Succeeds
  <1>3. CtrlOpening(c, t, p) => CtrlOpening(c2, t2, p2)
    BY <1>1, <1>2 DEF CtrlOpening
  <1>4. CtrlOpen(c, t) => CtrlOpen(c2, t2)
    BY <1>1 DEF CtrlOpen
  <1>5. CtrlClosing(c, t, p) => CtrlClosing(c2, t2, p2)
    BY <1>1, <1>2 DEF CtrlClosing, Data
  <1> QED BY <1>3, <1>4, <1>5 DEF Phase

\* When a read or a write of the control pipe succeeds there is a block for the
\* result.
LEMMA CtrlDataOk ==
    ASSUME User = "ctrl",
           NEW v, NEW r, NEW x, NEW s, NEW p, NEW e, NEW p2, Delivered(v, r, x, s, p, e, p2),
           r.kind \in Data, e.status = "OK"
    PROVE  ~NullDeref(x.c, r.kind) /\ (r.kind = "read" => x.u.state = "OPEN" /\ CtrlOpen(v.c, v.t))
  <1>1. /\ x \in Views /\ x.c = v.c /\ x.u = v.u /\ r.mid \in Nat
        /\ e \in On(p) /\ e.mid = r.mid /\ v.t \in Transports
        /\ Phase(v.c, v.t, v.u, s, p)
    BY DeliveredFacts
  <1>2. /\ r \in v.t.pending_recv /\ v.u \in Users /\ Expecting(v)
        /\ v.c.fd \in Nat
    BY DEF Delivered, Good, Views, Contexts
  <1>3. Succeeds(p, r)
    BY <1>1 DEF Succeeds
  <1>4. \A a \in v.t.pending_recv : a.mid \in Nat
    BY <1>1 DEF Transports, Requests
  <1>5. NULL \notin Nat
    BY DEF NULL
  <1>6. CASE v.u.state = "OPENING"
    <2>1. PICK o \in v.t.pending_recv : o.kind = "open"
      BY <1>2, <1>6 DEF Expecting
    <2>2. CtrlOpening(v.c, v.t, p)
      BY <1>1, <1>6 DEF Phase
    <2>3. o.mid < r.mid /\ (r.kind = "read" => r.mid < o.mid)
          /\ (r.kind = "write" => v.c.io_write # NULL)
      BY <1>2, <1>3, <2>1, <2>2 DEF CtrlOpening
    <2>4. r.kind # "read"
      BY <1>2, <1>4, <2>1, <2>3
    <2> QED BY <1>1, <2>3, <2>4 DEF NullDeref, Data
  <1>7. CASE v.u.state = "OPEN"
    BY <1>1, <1>2, <1>5, <1>7 DEF Phase, CtrlOpen, NullDeref, Data
  <1>8. CASE v.u.state = "CLOSING"
    <2>1. CtrlClosing(v.c, v.t, p)
      BY <1>1, <1>8 DEF Phase
    <2>2. PICK k \in v.t.pending_recv : k.kind = "close"
      BY <2>1 DEF CtrlClosing
    <2>3. r.kind # "read" /\ (r.kind = "write" => v.c.io_write # NULL)
      BY <1>2, <1>3, <2>1, <2>2 DEF CtrlClosing
    <2> QED BY <1>1, <2>3 DEF NullDeref, Data
  <1> QED BY <1>2, <1>6, <1>7, <1>8 DEF Users

\* on_ctrl_pipe_read has returned with the pipe open: the next read is sent.
LEMMA CtrlReadNext ==
    ASSUME User = "ctrl", NEW z \in Views, NEW s, NEW p, Standing(z.c, z.t, s, p),
           CtrlOpen(z.c, z.t), \A a \in z.t.pending_recv : a.kind # "read",
           z.u.state = "OPEN", ~z.u.fault
    PROVE  Kept(async_read(z), s, p)
  <1> DEFINE w == async_read(z)
  <1>1. /\ \E b : Step(z, w, b, "read", s, p) /\ b.fnum = w.c.io_read
        /\ z.c.io_read # NULL => w.c.io_read = z.c.io_read
        /\ w.c.io_write = z.c.io_write /\ ~w.t.request_timeout
    BY ReadStep
  <1> HIDE DEF w
  <1>2. PICK b : Step(z, w, b, "read", s, p) /\ b.fnum = w.c.io_read
    BY <1>1
  <1>3. /\ w.u = z.u /\ w.c.fd = z.c.fd /\ b.kind = "read"
        /\ w.t.pending_recv = z.t.pending_recv \cup {b}
        /\ Standing(w.c, w.t, s, p)
    BY <1>2 DEF Step, Added
  <1>4. w.c.io_read = w.c.fd
    BY <1>1, <1>3 DEF CtrlOpen, Views, Contexts, NULL
  <1>5. CtrlOpen(w.c, w.t)
    BY <1>1, <1>3, <1>4 DEF CtrlOpen, Data
  <1>6. OneRead(w.c, w.t, w.u)
    BY <1>2, <1>3, <1>4 DEF OneRead
  <1>7. Phase(w.c, w.t, w.u, s, p)
    BY <1>3, <1>5 DEF Phase
  <1>8. Kept(w, s, p)
    BY <1>3, <1>6, <1>7, StandingKept
  <1> QED BY <1>8 DEF w

\* on_ctrl_pipe_read has closed the pipe for a reinstallation: the read that
\* async_read_recv sends after it will fail.
LEMMA CtrlReinstall ==
    ASSUME User = "ctrl", NEW y \in Views, NEW s, NEW p, Standing(y.c, y.t, s, p),
           CtrlOpen(y.c, y.t), y.c.rreq = NULL,
           \A a \in y.t.pending_recv : a.kind # "read", ~y.u.fault
    PROVE  Kept(async_read(close_for_reinstall(y)), s, p)
  <1> DEFINE a == async_close(y)
             z == [a EXCEPT !.u.state = "CLOSING"]
             w == async_read(z)
  <1>1. /\ y.t \in Transports
        /\ \A q \in y.t.pending_recv : q.kind # "open" /\ q.kind # "close" /\ q.mid # y.c.rreq
        /\ ~y.t.request_timeout
    BY DEF CtrlOpen, Data, Views, Transports, Requests, NULL
  <1>2. ~y.t.request_timeout /\ \A q \in y.t.pending_recv : q.kind # "open"
    BY <1>1
  <1>3. /\ \E z0, k : /\ Step(z0, a, k, "close", s, p)
                      /\ z0.u = y.u /\ z0.c.fd = y.c.fd /\ z0.t.wire = y.t.wire
                      /\ z0.t.pending_recv = {r \in y.t.pending_recv : r.mid # y.c.rreq}
                      /\ ~z0.t.request_timeout
        /\ a.c.io_write = y.c.io_write
    BY <1>2, CloseStep
  <1> HIDE DEF a
  <1>4. PICK z0, k : /\ Step(z0, a, k, "close", s, p)
                     /\ z0.u = y.u
                     /\ z0.t.pending_recv = {r \in y.t.pending_recv : r.mid # y.c.rreq}
    BY <1>3
  <1>5. z0.t.pending_recv = y.t.pending_recv
    BY <1>1, <1>4
  <1>6. /\ a \in Views /\ a.u = y.u /\ k.kind = "close" /\ k.mid \in Nat
        /\ a.t.pending_recv = y.t.pending_recv \cup {k}
        /\ \A q \in y.t.pending_recv : q.mid < k.mid /\ q.mid \in Nat
        /\ Standing(a.c, a.t, s, p)
    BY <1>4, <1>5 DEF Step, Added
  <1>7. /\ z \in Views /\ z.c = a.c /\ z.t = a.t /\ z.u.state = "CLOSING"
        /\ z.u.fault = a.u.fault
    BY <1>6, UserSteps
  <1> HIDE DEF z
  <1>8. Standing(z.c, z.t, s, p)
    BY <1>6, <1>7
  <1>9. /\ \E b : Step(z, w, b, "read", s, p)
        /\ w.c.io_write = z.c.io_write /\ ~w.t.request_timeout
    BY <1>7, <1>8, ReadStep
  <1>10. w = async_read(close_for_reinstall(y))
    BY DEF close_for_reinstall, a, z, w
  <1> HIDE DEF w
  <1>11. PICK b : Step(z, w, b, "read", s, p)
    BY <1>9
  <1>12. /\ w.u = z.u /\ b.kind = "read" /\ b.mid \in Nat
         /\ w.t.pending_recv = z.t.pending_recv \cup {b}
         /\ \A e \in On(p) : e.mid # b.mid
         /\ \A q \in z.t.pending_recv : q.mid < b.mid
         /\ Standing(w.c, w.t, s, p)
    BY <1>11 DEF Step, Added
  <1>13. /\ w.t.pending_recv = y.t.pending_recv \cup {k, b} /\ k.mid < b.mid
         /\ w.c.io_write = y.c.io_write
    BY <1>3, <1>6, <1>7, <1>9, <1>12
  <1>14. ~Succeeds(p, b)
    BY <1>12 DEF Succeeds
  <1>15. \A r \in y.t.pending_recv : r.kind \in Data /\ (r.kind = "write" => y.c.io_write # NULL)
    BY DEF CtrlOpen
  <1>16. CtrlClosing(w.c, w.t, p)
    <2>1. \A r \in w.t.pending_recv : r.kind = "close" => r = k
      BY <1>1, <1>12, <1>13
    <2>2. \A r \in w.t.pending_recv : r.kind = "read" => r = b
      BY <1>6, <1>13
    <2>3. \A r \in w.t.pending_recv : r.kind \in Data /\ k.mid < r.mid => r = b
      BY <1>6, <1>13
    <2>4. \A r \in w.t.pending_recv : r.kind # "open" /\ (r.kind = "write" => w.c.io_write # NULL)
      BY <1>1, <1>6, <1>12, <1>13, <1>15
    <2> QED BY <1>6, <1>9, <1>13, <1>14, <2>1, <2>2, <2>3, <2>4 DEF CtrlClosing
  <1>17. OneRead(w.c, w.t, w.u)
    BY <1>6, <1>7, <1>12, <1>13 DEF OneRead
  <1>18. Phase(w.c, w.t, w.u, s, p)
    BY <1>7, <1>12, <1>16 DEF Phase
  <1>19. Kept(w, s, p)
    BY <1>6, <1>7, <1>12, <1>17, <1>18, StandingKept
  <1> QED BY <1>10, <1>19

\* A read of the control pipe has succeeded.
LEMMA CtrlReadOk ==
    ASSUME User = "ctrl",
           NEW v, NEW r, NEW x, NEW s, NEW p, NEW e, NEW p2, Delivered(v, r, x, s, p, e, p2),
           r.kind = "read", e.status = "OK",
           NEW w \in HandleReply(x, r.kind, e.status, e.fnum)
    PROVE  Kept(w, s, p2)
  <1> DEFINE y == async_read_recv(x)
             z == async_write(y, <<"run">>)
  <1>1. /\ x \in Views /\ x.c = v.c /\ x.u = v.u
        /\ x.t.pending_recv = v.t.pending_recv \ {r}
        /\ x.t.request_timeout = v.t.request_timeout
    BY DeliveredFacts
  <1>2. r.kind \in Data
    BY DEF Data
  <1>3. ~NullDeref(x.c, r.kind) /\ x.u.state = "OPEN" /\ CtrlOpen(v.c, v.t)
    BY <1>2, CtrlDataOk
  <1>4. ~x.u.fault /\ \A a \in x.t.pending_recv : a.kind # "read"
    BY DeliveredOneRead
  <1>5. /\ y \in Views /\ y.t = x.t /\ y.u = x.u /\ y.c.rreq = NULL /\ y.c.fd = x.c.fd
        /\ y.c.io_read = x.c.io_read /\ y.c.io_write = x.c.io_write
    BY <1>1, ReadRecv
  <1>6. Standing(y.c, y.t, s, p2)
    BY <1>1, <1>5, StandingDelivered
  <1>7. w = async_read(y) \/ w = async_read(z) \/ w = async_read(close_for_reinstall(y))
    BY <1>3 DEF HandleReply, ReadReply, cb_read
  <1> HIDE DEF y
  <1>8. CtrlOpen(y.c, y.t)
    BY <1>1, <1>3, <1>5 DEF CtrlOpen
  <1>9. \A a \in y.t.pending_recv : a.kind # "read"
    BY <1>4, <1>5
  <1>10. y.u.state = "OPEN" /\ ~y.u.fault
    BY <1>3, <1>4, <1>5
  <1>11. Kept(async_read(y), s, p2)
    BY <1>5, <1>6, <1>8, <1>9, <1>10, CtrlReadNext
  <1>12. Kept(async_read(close_for_reinstall(y)), s, p2)
    BY <1>5, <1>6, <1>8, <1>9, <1>10, CtrlReinstall
  <1>13. Kept(async_read(z), s, p2)
    <2>1. <<"run">> \in Seq(Lines)
      BY DEF Lines
    <2>2. /\ \E a : Step(y, z, a, "write", s, p2)
          /\ z.c.io_write # NULL /\ z.c.io_read = y.c.io_read
          /\ z.t.request_timeout = y.t.request_timeout
      BY <1>5, <1>6, <2>1, WriteStep
    <2> HIDE DEF z
    <2>3. PICK a : Step(y, z, a, "write", s, p2)
      BY <2>2
    <2>4. /\ z \in Views /\ z.u = y.u /\ z.c.fd = y.c.fd /\ a.kind = "write"
          /\ z.t.pending_recv = y.t.pending_recv \cup {a}
          /\ Standing(z.c, z.t, s, p2)
      BY <2>3 DEF Step, Added
    <2>5. CtrlOpen(z.c, z.t)
      BY <1>8, <2>2, <2>4 DEF CtrlOpen, Data
    <2>6. \A q \in z.t.pending_recv : q.kind # "read"
      BY <1>9, <2>4
    <2>7. z.u.state = "OPEN" /\ ~z.u.fault
      BY <1>10, <2>4
    <2> QED BY <2>4, <2>5, <2>6, <2>7, CtrlReadNext
  <1> QED BY <1>7, <1>11, <1>12, <1>13

\* The name of the control pipe is not found only by an open.
LEMMA DeliveredStatus ==
    ASSUME NEW v, NEW r, NEW x, NEW s, NEW p, NEW e, NEW p2, Delivered(v, r, x, s, p, e, p2),
           r.kind # "open"
    PROVE  e.status # "OBJECT_NAME_NOT_FOUND"
  <1>1. e \in On(p) /\ e.mid = r.mid
    BY DeliveredFacts
  <1>2. r \in v.t.pending_recv /\ NotFound(v.t, p)
    BY DEF Delivered, LiveInv, Base
  <1> QED BY <1>1, <1>2 DEF NotFound

\* A reply to a read or a write of the control pipe has been delivered and the
\* callback, if any, has done nothing.
LEMMA CtrlDataKept ==
    ASSUME User = "ctrl",
           NEW v, NEW r, NEW x, NEW s, NEW p, NEW e, NEW p2, Delivered(v, r, x, s, p, e, p2),
           r.kind \in Data,
           NEW y, y.t = x.t, y.u = x.u, y.c.fd = x.c.fd, y.c.io_open = x.c.io_open,
           y.c.io_read = x.c.io_read, y.c.io_write = x.c.io_write
    PROVE  Kept(y, s, p2)
  <1> DEFINE c == y.c
             t == y.t
             u == y.u
  <1>1. /\ x.c = v.c /\ u = v.u /\ t = x.t
        /\ x.t.pending_recv = v.t.pending_recv \ {r}
        /\ x.t.request_timeout = v.t.request_timeout
        /\ On(p) = {e} \cup On(p2)
        /\ Phase(v.c, v.t, v.u, s, p)
    BY DeliveredFacts
  <1>2. /\ c.fd = v.c.fd /\ c.io_open = v.c.io_open /\ c.io_read = v.c.io_read
        /\ c.io_write = v.c.io_write
    BY <1>1
  <1>3. OneRead(x.c, x.t, x.u) /\ ~x.u.fault
    BY DeliveredOneRead
  <1>4. OneRead(c, t, u) /\ ~y.u.fault
    BY <1>1, <1>2, <1>3 DEF OneRead
  <1> HIDE DEF c, t, u
  <1>5. Losing(v.c, v.t, p, c, t, p2, r)
    BY <1>1, <1>2 DEF Losing
  <1>6. Phase(c, t, u, s, p2)
    BY <1>1, <1>5, CtrlLose
  <1>7. Standing(c, x.t, s, p2)
    BY <1>2, StandingDelivered DEF Data
  <1> QED BY <1>1, <1>4, <1>6, <1>7, StandingKept DEF c, t, u

\* A read of the control pipe has failed.
LEMMA CtrlReadError ==
    ASSUME User = "ctrl",
           NEW v, NEW r, NEW x, NEW s, NEW p, NEW e, NEW p2, Delivered(v, r, x, s, p, e, p2),
           r.kind = "read", e.status # "OK",
           NEW w \in HandleReply(x, r.kind, e.status, e.fnum)
    PROVE  Kept(w, s, p2)
  <1> DEFINE y == async_read_recv(x)
  <1>1. x \in Views
    BY DeliveredFacts
  <1>2. e.status # "OBJECT_NAME_NOT_FOUND"
    BY DeliveredStatus
  <1>3. OneRead(x.c, x.t, x.u) /\ ~x.u.fault
    BY DeliveredOneRead
  <1>4. /\ y \in Views /\ y.t = x.t /\ y.u = x.u /\ y.c.fd = x.c.fd
        /\ y.c.io_open = x.c.io_open
        /\ y.c.io_read = x.c.io_read /\ y.c.io_write = x.c.io_write
    BY <1>1, ReadRecv
  <1>5. w = y \/ w = exit_program(y)
    BY <1>2 DEF HandleReply, ReadReply, cb_error, on_ctrl_pipe_error
  <1> HIDE DEF y
  <1>6. r.kind \in Data
    BY DEF Data
  <1>7. Kept(y, s, p2)
    BY <1>4, <1>6, CtrlDataKept
  <1>8. OneRead(y.c, y.t, y.u) /\ ~y.u.fault
    BY <1>3, <1>4 DEF OneRead
  <1>9. Kept(exit_program(y), s, p2)
    BY <1>4, <1>8, ExitKept
  <1> QED BY <1>5, <1>7, <1>9

\* A write of the control pipe has been answered.
LEMMA CtrlWriteReply ==
    ASSUME User = "ctrl",
           NEW v, NEW r, NEW x, NEW s, NEW p, NEW e, NEW p2, Delivered(v, r, x, s, p, e, p2),
           r.kind = "write",
           NEW w \in HandleReply(x, r.kind, e.status, e.fnum)
    PROVE  Kept(w, s, p2)
  <1> DEFINE ok == e.status = "OK"
             y == async_write_recv(x, ok)
  <1>1. x \in Views
    BY DeliveredFacts
  <1>2. e.status # "OBJECT_NAME_NOT_FOUND"
    BY DeliveredStatus
  <1>3. OneRead(x.c, x.t, x.u) /\ ~x.u.fault
    BY DeliveredOneRead
  <1>4. r.kind \in Data
    BY DEF Data
  <1>5. e.status = "OK" => ~NullDeref(x.c, r.kind)
    BY <1>4, CtrlDataOk
  <1>6. w = IF e.status = "OK" THEN y ELSE exit_program(y)
    BY <1>2, <1>5 DEF HandleReply, WriteReply, cb_error, on_ctrl_pipe_error
  <1>7. ok \in BOOLEAN /\ (ok <=> e.status = "OK")
    OBVIOUS
  <1> HIDE DEF ok
  <1>8. /\ y \in Views /\ y.t = x.t /\ y.u = x.u /\ y.c.fd = x.c.fd
        /\ y.c.io_open = x.c.io_open /\ y.c.io_read = x.c.io_read
        /\ ok => y.c.io_write = x.c.io_write
    BY <1>1, <1>7, WriteRecv
  <1> HIDE DEF y
  <1>9. CASE ok
    BY <1>4, <1>6, <1>7, <1>8, <1>9, CtrlDataKept
  <1>10. CASE ~ok
    <2>1. OneRead(y.c, y.t, y.u) /\ ~y.u.fault
      BY <1>3, <1>8 DEF OneRead
    <2>2. Kept(exit_program(y), s, p2)
      BY <1>8, <2>1, ExitKept
    <2> QED BY <1>6, <1>7, <1>10, <2>2
  <1> QED BY <1>9, <1>10

\* The control pipe is closed: it is opened again.  What has been sent since
\* the close fails.
LEMMA CtrlCloseReply ==
    ASSUME User = "ctrl",
           NEW v, NEW r, NEW x, NEW s, NEW p, NEW e, NEW p2, Delivered(v, r, x, s, p, e, p2),
           r.kind = "close",
           NEW w \in HandleReply(x, r.kind, e.status, e.fnum)
    PROVE  Kept(w, s, p2)
  <1> DEFINE y == async_close_recv(x)
             z == [y EXCEPT !.u.state = "OPENING"]
             z2 == async_open(z)
  <1>1. /\ x \in Views /\ x.c = v.c /\ x.u = v.u
        /\ x.t.pending_recv = v.t.pending_recv \ {r}
        /\ On(p) = {e} \cup On(p2) /\ e \in On(p) /\ e.mid = r.mid
        /\ r.mid \in Nat /\ \A a \in x.t.pending_recv : r.mid < a.mid
        /\ Handle(v.c, v.t, s, p) /\ Phase(v.c, v.t, v.u, s, p)
    BY DeliveredFacts DEF Data
  <1>2. r \in v.t.pending_recv
    BY DEF Delivered
  <1>3. OneRead(x.c, x.t, x.u) /\ ~x.u.fault /\ x.u \in Users
    BY DeliveredOneRead
  <1>4. CtrlClosing(v.c, v.t, p) /\ x.u.state = "CLOSING"
    BY <1>1, <1>2, <1>3 DEF Phase, CtrlOpen, CtrlOpening, Data, Users
  <1>5. /\ y \in Views /\ y.t = x.t /\ y.u = x.u /\ y.c.fd = x.c.fd
        /\ y.c.io_read = NULL
    BY <1>1, CloseRecv
  <1>6. Standing(y.c, y.t, s, p2)
    BY <1>1, <1>5, StandingDelivered
  <1>7. w = z2
    <2>1. y.u.state = "CLOSING"
      BY <1>4, <1>5
    <2> HIDE DEF y
    <2>2. cb_close(y) = z2
      BY <2>1 DEF cb_close
    <2>3. w = cb_close(y)
      BY DEF HandleReply, NullDeref, CloseReply, y
    <2> QED BY <2>2, <2>3
  <1> HIDE DEF y
  <1>8. /\ z \in Views /\ z.c = y.c /\ z.t = y.t /\ z.u.state = "OPENING"
        /\ z.u.fault = y.u.fault
    BY <1>5, UserSteps
  <1> HIDE DEF z
  <1>9. s.open = {}
    BY <1>1, <1>2 DEF Handle
  <1>10. x.t \in Transports /\ \A a \in x.t.pending_recv : a.kind \in Kinds
    BY <1>1 DEF Views, Transports, Requests
  <1>11. \A a \in x.t.pending_recv : a.kind # "open" /\ a.kind # "close"
    BY <1>1, <1>2, <1>4 DEF CtrlClosing
  <1>12. \A a \in z.t.pending_recv : a.kind \in Data
    BY <1>5, <1>8, <1>10, <1>11 DEF Kinds, Data
  <1>13. Standing(z.c, z.t, s, p2)
    BY <1>6, <1>8
  <1>14. /\ \E o : Step(z, z2, o, "open", s, p2)
         /\ z2.c.io_open /\ z2.c.io_read = z.c.io_read
    BY <1>8, <1>9, <1>12, <1>13, OpenStep
  <1> HIDE DEF z2
  <1>15. PICK o : Step(z, z2, o, "open", s, p2)
    BY <1>14
  <1>16. /\ z2.u = z.u /\ o.kind = "open" /\ o.mid \in Nat
         /\ z2.t.pending_recv = z.t.pending_recv \cup {o}
         /\ \A a \in z.t.pending_recv : a.mid < o.mid /\ a.mid \in Nat
         /\ Standing(z2.c, z2.t, s, p2)
    BY <1>15 DEF Step, Added
  <1>17. \A a \in x.t.pending_recv : ~Succeeds(p2, a) /\ a.kind \in Data
    BY <1>1, <1>2, <1>4, <1>5, <1>8, <1>12 DEF CtrlClosing, Succeeds
  <1>18. z2.t.pending_recv = x.t.pending_recv \cup {o}
    BY <1>5, <1>8, <1>16
  <1>19. CtrlOpening(z2.c, z2.t, p2)
    BY <1>5, <1>8, <1>12, <1>14, <1>16, <1>17 DEF CtrlOpening, Data
  <1>20. Phase(z2.c, z2.t, z2.u, s, p2)
    BY <1>8, <1>16, <1>19 DEF Phase
  <1>21. OneRead(z2.c, z2.t, z2.u) /\ ~z2.u.fault
    BY <1>3, <1>5, <1>8, <1>16 DEF OneRead
  <1> QED BY <1>7, <1>16, <1>20, <1>21, StandingKept

\* Every reply to a request of the control pipe.
LEMMA CtrlReply ==
    ASSUME User = "ctrl",
           NEW v, NEW r, NEW x, NEW s, NEW p, NEW e, NEW p2, Delivered(v, r, x, s, p, e, p2),
           NEW w \in HandleReply(x, r.kind, e.status, e.fnum)
    PROVE  Kept(w, s, p2)
  <1>1. r \in Requests
    BY DeliveredFacts
  <1>2. r.kind \in Kinds
    BY <1>1 DEF Requests
  <1>3. CASE r.kind = "open"
    BY <1>3, CtrlOpenOk, CtrlOpenError
  <1>4. CASE r.kind = "read"
    BY <1>4, CtrlReadOk, CtrlReadError
  <1>5. CASE r.kind = "write"
    BY <1>5, CtrlWriteReply
  <1>6. CASE r.kind = "close"
    BY <1>6, CtrlCloseReply
  <1> QED BY <1>2, <1>3, <1>4, <1>5, <1>6 DEF Kinds

-----------------------------------------------------------------------------
\* A view of a live program from which requests can be sent.
LEMMA GoodStanding ==
    ASSUME NEW v, Good(v), ~v.t.dead, NEW s \in Servers, NEW p \in Seq(ReplySet),
           LiveInv(v.c, v.t, v.u, s, p)
    PROVE  Standing(v.c, v.t, s, p) /\ Phase(v.c, v.t, v.u, s, p)
  BY DEF Good, Fresh, Views, LiveInv, Standing

\* A read or a write leaves pending_recv unanswered.
LEMMA StandingLess ==
    ASSUME NEW c, NEW t, NEW s, NEW p, Standing(c, t, s, p),
           NEW c2, c2.fd = c.fd, NEW t2 \in Transports, NEW r, r.kind \in Data,
           t2.pending_recv = t.pending_recv \ {r}, t2.wire = t.wire,
           t2.next_mid = t.next_mid, t2.dead = t.dead
    PROVE  Standing(c2, t2, s, p)
  <1>1. Base(t2, s, p)
    BY BaseShrink DEF Standing
  <1>2. Handle(c2, t2, s, p)
    BY DEF Standing, Handle, Data
  <1> QED BY <1>1, <1>2 DEF Standing

\* Only the control pipe's requests have timeouts, and never its closes: a
\* timeout ends the program or, for a read of the old handle, is ignored.
LEMMA TimeoutKept ==
    ASSUME NEW v, Good(v), ~v.t.dead, ~v.u.exited, ~v.u.fault,
           NEW s \in Servers, NEW p \in Seq(ReplySet),
           LiveInv(v.c, v.t, v.u, s, p), OneRead(v.c, v.t, v.u),
           NEW r \in v.t.pending_recv, r.timed, NEW x, Removing(v, r, x),
           NEW w \in HandleReply(x, r.kind, "ERROR", NULL)
    PROVE  Kept(w, s, p)
  <1>1. Standing(v.c, v.t, s, p) /\ Phase(v.c, v.t, v.u, s, p)
    BY GoodStanding
  <1>2. /\ x \in Views /\ x.c = v.c /\ x.u = v.u /\ x.t \in Transports
        /\ x.t.pending_recv = v.t.pending_recv \ {r}
        /\ x.t.wire = v.t.wire /\ x.t.next_mid = v.t.next_mid
        /\ x.t.dead = v.t.dead /\ x.t.request_timeout = v.t.request_timeout
    BY Removed DEF Good
  <1>3. User = "ctrl"
    BY <1>1, UserAssumption DEF Phase
  <1>4. r.kind # "close"
    BY <1>1 DEF Standing, Handle
  <1>5. r.kind \in Kinds
    BY DEF Good, Views, Transports, Requests
  <1>6. OneRead(x.c, x.t, x.u) /\ ~x.u.fault
    BY <1>2 DEF OneRead
  <1>7. ASSUME NEW y \in Views, y.t = x.t, y.u = x.u, y.c.fd = x.c.fd
        PROVE  Kept(exit_program(y), s, p)
    <2>1. OneRead(y.c, y.t, y.u) /\ ~y.u.fault
      BY <1>6, <1>7 DEF OneRead
    <2> QED BY <2>1, ExitKept
  <1>8. CASE r.kind = "open"
    <2> DEFINE y == async_open_recv(x, FALSE, NULL)
    <2>1. w = exit_program(async_open_recv(x, "ERROR" = "OK", NULL))
      BY <1>3, <1>8 DEF HandleReply, OpenReply, cb_error, on_ctrl_pipe_error
    <2>2. w = exit_program(y)
      BY <2>1
    <2>3. y \in Views /\ y.t = x.t /\ y.u = x.u /\ y.c.fd = x.c.fd
      BY <1>2, OpenRecv
    <2> HIDE DEF y
    <2> QED BY <1>7, <2>2, <2>3
  <1>9. CASE r.kind = "write"
    <2> DEFINE y == async_write_recv(x, FALSE)
    <2>1. w = exit_program(async_write_recv(x, "ERROR" = "OK"))
      BY <1>3, <1>9 DEF HandleReply, WriteReply, cb_error, on_ctrl_pipe_error
    <2>2. w = exit_program(y)
      BY <2>1
    <2>3. y \in Views /\ y.t = x.t /\ y.u = x.u /\ y.c.fd = x.c.fd
      BY <1>2, WriteRecv
    <2> HIDE DEF y
    <2> QED BY <1>7, <2>2, <2>3
  <1>10. CASE r.kind = "read"
    <2> DEFINE y == async_read_recv(x)
               c == y.c
    <2>1. w = y \/ w = exit_program(y)
      BY <1>3, <1>10 DEF HandleReply, ReadReply, cb_error, on_ctrl_pipe_error
    <2>2. /\ y \in Views /\ y.t = x.t /\ y.u = x.u /\ c.fd = x.c.fd
          /\ c.io_open = x.c.io_open /\ c.io_read = x.c.io_read
          /\ c.io_write = x.c.io_write
      BY <1>2, ReadRecv
    <2>3. Kept(exit_program(y), s, p)
      BY <1>7, <2>2
    <2> HIDE DEF c
    <2>4. r.kind \in Data /\ Losing(v.c, v.t, p, c, x.t, p, r)
      BY <1>2, <1>10, <2>2 DEF Losing, Data
    <2>5. Phase(c, x.t, v.u, s, p)
      BY <1>1, <1>3, <2>4, CtrlLose
    <2>6. c.fd = v.c.fd
      BY <1>2, <2>2
    <2>7. Standing(c, x.t, s, p)
      BY <1>1, <1>2, <2>4, <2>6, StandingLess
    <2>8. OneRead(y.c, y.t, y.u) /\ ~y.u.fault
      BY <1>6, <2>2 DEF OneRead, c
    <2>9. Kept(y, s, p)
      BY <1>2, <2>2, <2>5, <2>7, <2>8, StandingKept DEF c
    <2> QED BY <2>1, <2>3, <2>9
  <1> QED BY <1>4, <1>5, <1>8, <1>9, <1>10 DEF Kinds

\* A write by the timer: whatever the phase of the control pipe, it is newer
\* than everything outstanding.
LEMMA CtrlSource ==
    ASSUME User = "ctrl", NEW x \in Views, NEW s, NEW p, Standing(x.c, x.t, s, p),
           Phase(x.c, x.t, x.u, s, p), OneRead(x.c, x.t, x.u), ~x.u.fault,
           NEW data \in Seq(Lines)
    PROVE  Kept(async_write(x, data), s, p)
  <1> DEFINE y == async_write(x, data)
  <1>1. /\ \E q : Step(x, y, q, "write", s, p)
        /\ y.c.io_write # NULL
        /\ y.c.io_open = x.c.io_open /\ y.c.io_read = x.c.io_read
        /\ y.t.request_timeout = x.t.request_timeout
    BY WriteStep
  <1> HIDE DEF y
  <1>2. PICK q : Step(x, y, q, "write", s, p)
    BY <1>1
  <1>3. /\ y.u = x.u /\ y.c.fd = x.c.fd /\ q.kind = "write" /\ q.mid \in Nat
        /\ y.t.pending_recv = x.t.pending_recv \cup {q}
        /\ \A a \in x.t.pending_recv : a.mid < q.mid /\ a.mid \in Nat
        /\ \A e \in On(p) : e.mid # q.mid
        /\ Standing(y.c, y.t, s, p)
    BY <1>2 DEF Step, Added
  <1>4. ~Succeeds(p, q)
    BY <1>3 DEF Succeeds
  <1>5. CtrlOpening(x.c, x.t, p) => CtrlOpening(y.c, y.t, p)
    BY <1>1, <1>3, <1>4 DEF CtrlOpening, Data
  <1>6. CtrlOpen(x.c, x.t) => CtrlOpen(y.c, y.t)
    BY <1>1, <1>3 DEF CtrlOpen, Data
  <1>7. CtrlClosing(x.c, x.t, p) => CtrlClosing(y.c, y.t, p)
    BY <1>1, <1>3, <1>4 DEF CtrlClosing, Data
  <1>8. Phase(y.c, y.t, y.u, s, p)
    BY <1>3, <1>5, <1>6, <1>7 DEF Phase
  <1>9. OneRead(y.c, y.t, y.u) /\ ~y.u.fault
    BY <1>3 DEF OneRead
  <1>10. Kept(y, s, p)
    BY <1>3, <1>8, <1>9, StandingKept
  <1> QED BY <1>10 DEF y

\* A write by the stdin handler of an I/O pipe that is open or given up.
LEMMA IoSource ==
    ASSUME User = "io", NEW x \in Views, NEW s, NEW p, Standing(x.c, x.t, s, p),
           Phase(x.c, x.t, x.u, s, p), OneRead(x.c, x.t, x.u), ~x.u.fault,
           x.u.sources > 0, NEW data \in Seq(Lines)
    PROVE  Kept(async_write(x, data), s, p)
  <1> DEFINE y == async_write(x, data)
  <1>1. /\ \E q : Step(x, y, q, "write", s, p) /\ q.fnum = y.c.io_write
        /\ y.c.rreq = x.c.rreq
        /\ x.c.io_write = NULL => y.c.io_write = y.c.fd
        /\ x.c.io_write # NULL => y.c.io_write = x.c.io_write
        /\ y.c.io_write # NULL
        /\ y.c.io_open = x.c.io_open /\ y.c.io_read = x.c.io_read
        /\ y.t.request_timeout = x.t.request_timeout
    BY WriteStep
  <1> HIDE DEF y
  <1>2. PICK q : Step(x, y, q, "write", s, p) /\ q.fnum = y.c.io_write
    BY <1>1
  <1>3. /\ y.u = x.u /\ y.c.fd = x.c.fd /\ q.kind = "write" /\ q.mid \in Nat
        /\ y.t.pending_recv = x.t.pending_recv \cup {q}
        /\ On(y.t.wire) = On(x.t.wire) \cup {q}
        /\ q.timed = x.t.request_timeout
        /\ \A e \in On(p) : e.mid # q.mid
        /\ Standing(y.c, y.t, s, p)
    BY <1>2 DEF Step, Added
  <1>4. ~Succeeds(p, q)
    BY <1>3 DEF Succeeds
  <1>5. /\ x.u.state = "OPEN" /\ ~x.t.request_timeout
        /\ \A r \in x.t.pending_recv : ~r.timed
        /\ IF x.c.rreq # NULL THEN IoOpen(x.c, x.t, s, p) ELSE IoGivenUp(x.c, x.t, s, p)
    BY DEF Phase, Views, Users
  <1>6. IoOpen(x.c, x.t, s, p) => IoOpen(y.c, y.t, s, p)
    BY <1>1, <1>2, <1>3 DEF IoOpen, Data
  <1>7. IoGivenUp(x.c, x.t, s, p) => IoGivenUp(y.c, y.t, s, p)
    BY <1>1, <1>3, <1>4 DEF IoGivenUp
  <1>8. Phase(y.c, y.t, y.u, s, p)
    BY <1>1, <1>3, <1>5, <1>6, <1>7 DEF Phase
  <1>9. OneRead(y.c, y.t, y.u) /\ ~y.u.fault
    BY <1>3 DEF OneRead
  <1>10. Kept(y, s, p)
    BY <1>3, <1>8, <1>9, StandingKept
  <1> QED BY <1>10 DEF y

-----------------------------------------------------------------------------
\* The replies that remain, by position.
LEMMA DeliveredTail ==
    ASSUME NEW v, NEW r, NEW x, NEW s, NEW p, NEW e, NEW p2, Delivered(v, r, x, s, p, e, p2)
    PROVE  /\ Len(p) \in Nat \ {0} /\ Len(p2) = Len(p) - 1
           /\ 1 \in 1..Len(p) /\ p[1] = e
           /\ \A i \in 1..Len(p2) : p2[i] = p[i + 1] /\ i + 1 \in 1..Len(p)
  <1>1. p \in Seq(ReplySet) /\ p # <<>> /\ e = Head(p) /\ p2 = Tail(p)
    BY DEF Delivered
  <1> QED BY <1>1, OnTail

\* The open of an I/O pipe is the only request, and the reply the only reply.
LEMMA IoOpenAlone ==
    ASSUME User = "io",
           NEW v, NEW r, NEW x, NEW s, NEW p, NEW e, NEW p2, Delivered(v, r, x, s, p, e, p2),
           r.kind = "open"
    PROVE  /\ x.t.pending_recv = {} /\ On(x.t.wire) = {} /\ On(p2) = {} /\ p2 = <<>>
           /\ x.c.io_open /\ x.c.io_read = NULL /\ x.c.io_write = NULL
           /\ x.u.sources = 0 /\ x.u.state = "OPENING"
           /\ ~x.t.request_timeout
  <1>1. /\ x \in Views /\ x.c = v.c /\ x.u = v.u /\ v.t \in Transports
        /\ x.t.pending_recv = v.t.pending_recv \ {r} /\ x.t.wire = v.t.wire
        /\ x.t.request_timeout = v.t.request_timeout
        /\ Handle(v.c, v.t, s, p) /\ Phase(v.c, v.t, v.u, s, p)
        /\ p2 \in Seq(ReplySet)
    BY DeliveredFacts
  <1>2. r \in v.t.pending_recv /\ x.u \in Users
    BY <1>1 DEF Delivered, Views
  <1>3. Len(p) \in Nat \ {0} /\ Len(p2) = Len(p) - 1
    BY DeliveredTail
  <1>4. v.u.state = "OPENING"
    BY <1>1, <1>2 DEF Phase, IoOpen, IoGivenUp, Data, Users
  <1>5. /\ IoOpening(v.c, v.t, s, p) /\ x.u.sources = 0 /\ x.c.io_read = NULL
        /\ x.c.io_write = NULL /\ ~x.t.request_timeout
    BY <1>1, <1>2, <1>4 DEF Phase, IoFailed
  <1>6. v.t.wire \in Seq(Requests)
    BY <1>1 DEF Transports
  <1>7. Len(v.t.wire) = 0 /\ Len(p2) = 0
    BY <1>3, <1>5, <1>6 DEF IoOpening
  <1>8. On(x.t.wire) = {} /\ On(p2) = {} /\ p2 = <<>>
    BY <1>1, <1>7 DEF On
  <1>9. x.t.pending_recv = {}
    BY <1>1, <1>2, <1>5 DEF IoOpening, Handle, Data
  <1> QED BY <1>1, <1>4, <1>5, <1>8, <1>9 DEF IoOpening

\* An I/O pipe has been opened: the only read is sent.
LEMMA IoOpenOk ==
    ASSUME User = "io",
           NEW v, NEW r, NEW x, NEW s, NEW p, NEW e, NEW p2, Delivered(v, r, x, s, p, e, p2),
           r.kind = "open", e.status = "OK",
           NEW w \in HandleReply(x, r.kind, e.status, e.fnum)
    PROVE  Kept(w, s, p2)
  <1> DEFINE y == async_open_recv(x, e.status = "OK", e.fnum)
             z == [y EXCEPT !.u.state = "OPEN", !.u.sources = @ + 1]
             z2 == async_read(z)
  <1>1. x \in Views /\ e.fnum \in Nat
    BY DeliveredFacts
  <1>2. /\ x.t.pending_recv = {} /\ On(x.t.wire) = {} /\ On(p2) = {} /\ p2 = <<>>
        /\ x.c.io_open /\ x.c.io_read = NULL /\ x.c.io_write = NULL
        /\ ~x.t.request_timeout
    BY IoOpenAlone
  <1>3. ~x.u.fault
    BY DeliveredOneRead
  <1>4. /\ y \in Views /\ y.t = x.t /\ y.u = x.u
        /\ y.c.fd = e.fnum /\ y.c.io_read = x.c.io_read /\ y.c.io_write = x.c.io_write
    BY <1>1, OpenRecv
  <1>5. Standing(y.c, y.t, s, p2)
    BY <1>4, StandingDelivered
  <1>6. w = z2
    BY <1>2 DEF HandleReply, NullDeref, OpenReply, cb_open
  <1> HIDE DEF y
  <1>7. z \in Views /\ z.c = y.c /\ z.t = y.t /\ z.u.state = "OPEN" /\ z.u.fault = y.u.fault
    BY <1>4, UserSteps
  <1> HIDE DEF z
  <1>8. Standing(z.c, z.t, s, p2)
    BY <1>5, <1>7
  <1>9. /\ \E b : Step(z, z2, b, "read", s, p2) /\ b.fnum = z2.c.io_read /\ b.mid = z2.c.rreq
        /\ z.c.io_read = NULL => z2.c.io_read = z2.c.fd
        /\ z2.c.io_write = z.c.io_write
        /\ ~z2.t.request_timeout
    BY <1>7, <1>8, ReadStep
  <1> HIDE DEF z2
  <1>10. PICK b : Step(z, z2, b, "read", s, p2) /\ b.fnum = z2.c.io_read /\ b.mid = z2.c.rreq
    BY <1>9
  <1>11. /\ z2.u = z.u /\ b.kind = "read" /\ b.mid \in Nat
         /\ z2.t.pending_recv = z.t.pending_recv \cup {b}
         /\ On(z2.t.wire) = On(z.t.wire) \cup {b}
         /\ b.timed = z.t.request_timeout
         /\ Standing(z2.c, z2.t, s, p2)
    BY <1>10 DEF Step, Added
  <1>12. /\ z2.t.pending_recv = {b} /\ On(z2.t.wire) = {b} /\ ~b.timed
         /\ z2.c.io_read = z2.c.fd /\ b.fnum = z2.c.fd /\ z2.c.io_write = NULL
         /\ z2.c.rreq # NULL
    BY <1>2, <1>4, <1>7, <1>9, <1>10, <1>11 DEF NULL
  <1>13. IoOpen(z2.c, z2.t, s, p2)
    BY <1>2, <1>10, <1>11, <1>12 DEF IoOpen, Data
  <1>14. Phase(z2.c, z2.t, z2.u, s, p2)
    BY <1>7, <1>9, <1>11, <1>12, <1>13 DEF Phase
  <1>15. OneRead(z2.c, z2.t, z2.u) /\ ~z2.u.fault
    BY <1>3, <1>4, <1>7, <1>11, <1>12 DEF OneRead
  <1> QED BY <1>6, <1>11, <1>14, <1>15, StandingKept

\* An I/O pipe could not be opened: on_io_pipe_error closes it.
LEMMA IoOpenError ==
    ASSUME User = "io",
           NEW v, NEW r, NEW x, NEW s, NEW p, NEW e, NEW p2, Delivered(v, r, x, s, p, e, p2),
           r.kind = "open", e.status # "OK",
           NEW w \in HandleReply(x, r.kind, e.status, e.fnum)
    PROVE  Kept(w, s, p2)
  <1> DEFINE y == async_open_recv(x, e.status = "OK", e.fnum)
             a == async_close(y)
  <1>1. x \in Views
    BY DeliveredFacts
  <1>2. /\ x.t.pending_recv = {} /\ x.c.io_read = NULL /\ x.c.io_write = NULL
        /\ x.u.sources = 0 /\ x.u.state = "OPENING" /\ ~x.t.request_timeout
    BY IoOpenAlone
  <1>3. ~x.u.fault
    BY DeliveredOneRead
  <1>4. /\ y \in Views /\ y.t = x.t /\ y.u = x.u
        /\ y.c.fd = x.c.fd /\ y.c.io_read = x.c.io_read /\ y.c.io_write = x.c.io_write
    BY <1>1, OpenRecv
  <1>5. Standing(y.c, y.t, s, p2)
    BY <1>4, StandingDelivered
  <1>6. w = a
    BY DEF HandleReply, OpenReply, cb_error
  <1> HIDE DEF y
  <1>7. ~y.t.request_timeout /\ \A q \in y.t.pending_recv : q.kind # "open"
    BY <1>2, <1>4
  <1>8. /\ \E z0, k : /\ Step(z0, a, k, "close", s, p2)
                      /\ z0.u = y.u /\ z0.c.fd = y.c.fd /\ z0.t.wire = y.t.wire
                      /\ z0.t.pending_recv = {q \in y.t.pending_recv : q.mid # y.c.rreq}
                      /\ ~z0.t.request_timeout
        /\ a.c.io_read = y.c.io_read /\ a.c.io_write = y.c.io_write
        /\ ~a.t.request_timeout
    BY <1>4, <1>5, <1>7, CloseStep
  <1> HIDE DEF a
  <1>9. PICK z0, k : /\ Step(z0, a, k, "close", s, p2) /\ z0.u = y.u
                     /\ z0.t.pending_recv = {q \in y.t.pending_recv : q.mid # y.c.rreq}
                     /\ ~z0.t.request_timeout
    BY <1>8
  <1>10. z0.t.pending_recv = {}
    BY <1>2, <1>4, <1>9
  <1>11. /\ a.u = y.u /\ k.kind = "close" /\ ~k.timed
         /\ a.t.pending_recv = {k} /\ Standing(a.c, a.t, s, p2)
    BY <1>9, <1>10 DEF Step, Added
  <1>12. Phase(a.c, a.t, a.u, s, p2)
    BY <1>2, <1>4, <1>8, <1>11 DEF Phase, IoFailed
  <1>13. OneRead(a.c, a.t, a.u) /\ ~a.u.fault
    BY <1>2, <1>3, <1>4, <1>11 DEF OneRead
  <1> QED BY <1>6, <1>11, <1>12, <1>13, StandingKept

\* Once an error is among the replies to an I/O pipe no success follows it.
LEMMA IoErrorsLast ==
    ASSUME NEW v, NEW r, NEW x, NEW s, NEW p, NEW e, NEW p2, Delivered(v, r, x, s, p, e, p2),
           IoOpen(v.c, v.t, s, p)
    PROVE  /\ \A d \in On(p2) : d.status # "OK" => v.c.fd \notin s.open \ s.broken
           /\ \A i, j \in 1..Len(p2) : i < j /\ p2[i].status # "OK" => p2[j].status # "OK"
           /\ e.status # "OK" => /\ v.c.fd \notin s.open \ s.broken
                                 /\ \A a : ~Succeeds(p2, a)
  <1>1. On(p) = {e} \cup On(p2)
    BY DeliveredFacts
  <1>2. /\ Len(p) \in Nat \ {0} /\ Len(p2) = Len(p) - 1
        /\ 1 \in 1..Len(p) /\ p[1] = e
        /\ \A i \in 1..Len(p2) : p2[i] = p[i + 1] /\ i + 1 \in 1..Len(p)
    BY DeliveredTail
  <1>3. /\ \A d \in On(p) : d.status # "OK" => v.c.fd \notin s.open \ s.broken
        /\ \A i, j \in 1..Len(p) : i < j /\ p[i].status # "OK" => p[j].status # "OK"
    BY DEF IoOpen
  <1>4. ASSUME NEW i \in 1..Len(p2), NEW j \in 1..Len(p2), i < j, p2[i].status # "OK"
        PROVE  p2[j].status # "OK"
    <2>1. i + 1 < j + 1
      BY <1>4
    <2> QED BY <1>2, <1>3, <1>4, <2>1
  <1>5. ASSUME e.status # "OK", NEW j \in 1..Len(p2) PROVE p2[j].status # "OK"
    <2>1. 1 < j + 1
      OBVIOUS
    <2> QED BY <1>2, <1>3, <1>5, <2>1
  <1>6. e.status # "OK" => \A a : ~Succeeds(p2, a)
    BY <1>5 DEF Succeeds, On
  <1> QED BY <1>1, <1>3, <1>4, <1>6

\* The pipe stays open with r gone from its requests.
LEMMA IoOpenLess ==
    ASSUME NEW v, NEW r, NEW x, NEW s, NEW p, NEW e, NEW p2, Delivered(v, r, x, s, p, e, p2),
           IoOpen(v.c, v.t, s, p)
    PROVE  IoOpen(v.c, x.t, s, p2)
  <1>1. /\ x.t.pending_recv = v.t.pending_recv \ {r} /\ x.t.wire = v.t.wire
    BY DeliveredFacts
  <1>2. /\ \A d \in On(p2) : d.status # "OK" => v.c.fd \notin s.open \ s.broken
        /\ \A i, j \in 1..Len(p2) : i < j /\ p2[i].status # "OK" => p2[j].status # "OK"
    BY IoErrorsLast
  <1> QED BY <1>1, <1>2 DEF IoOpen

\* on_io_pipe_error closes a pipe that had been open: it is given up.
LEMMA IoGiveUp ==
    ASSUME User = "io", NEW y \in Views, NEW s, NEW p, Standing(y.c, y.t, s, p),
           ~y.t.request_timeout, \A q \in y.t.pending_recv : ~q.timed /\ q.kind # "open",
           y.u.state = "OPEN", OneRead(y.c, y.t, y.u), ~y.u.fault,
           y.c.fd \notin s.open \ s.broken,
           \A q \in y.t.pending_recv : q.kind = "read" => q.mid = y.c.rreq,
           \A q \in y.t.pending_recv : q.kind = "write" => ~Succeeds(p, q)
    PROVE  Kept(async_close(y), s, p)
  <1> DEFINE a == async_close(y)
  <1>1. \A q \in y.t.pending_recv : q.kind # "open"
    OBVIOUS
  <1>2. /\ \E z0, k : /\ Step(z0, a, k, "close", s, p)
                      /\ z0.u = y.u /\ z0.c.fd = y.c.fd /\ z0.t.wire = y.t.wire
                      /\ z0.t.pending_recv = {q \in y.t.pending_recv : q.mid # y.c.rreq}
                      /\ ~z0.t.request_timeout
        /\ a.c.rreq = NULL /\ ~a.t.request_timeout
    BY <1>1, CloseStep
  <1> HIDE DEF a
  <1>3. PICK z0, k : /\ Step(z0, a, k, "close", s, p) /\ z0.u = y.u /\ z0.c.fd = y.c.fd
                     /\ z0.t.pending_recv = {q \in y.t.pending_recv : q.mid # y.c.rreq}
                     /\ ~z0.t.request_timeout
    BY <1>2
  <1>4. \A q \in z0.t.pending_recv : q \in y.t.pending_recv /\ q.kind # "read"
    BY <1>3
  <1>5. /\ a.u = y.u /\ a.c.fd = y.c.fd /\ k.kind = "close" /\ ~k.timed
        /\ a.t.pending_recv = z0.t.pending_recv \cup {k} /\ Standing(a.c, a.t, s, p)
    BY <1>3 DEF Step, Added
  <1>6. \A q \in y.t.pending_recv : q.kind \in Kinds
    BY DEF Views, Transports, Requests
  <1>7. IoGivenUp(a.c, a.t, s, p)
    BY <1>1, <1>4, <1>5, <1>6 DEF IoGivenUp, Kinds
  <1>8. Phase(a.c, a.t, a.u, s, p)
    BY <1>2, <1>4, <1>5, <1>7 DEF Phase
  <1>9. OneRead(a.c, a.t, a.u) /\ ~a.u.fault
    BY <1>4, <1>5 DEF OneRead
  <1>10. Kept(a, s, p)
    BY <1>5, <1>8, <1>9, StandingKept
  <1> QED BY <1>10 DEF a

\* A read or a write of an I/O pipe is answered while the pipe is open.
LEMMA IoDataPhase ==
    ASSUME User = "io",
           NEW v, NEW r, NEW x, NEW s, NEW p, NEW e, NEW p2, Delivered(v, r, x, s, p, e, p2),
           r.kind \in Data
    PROVE  /\ x.u.state = "OPEN" /\ ~x.t.request_timeout
           /\ \A a \in x.t.pending_recv : ~a.timed
           /\ IF v.c.rreq # NULL THEN IoOpen(v.c, v.t, s, p)
                                 ELSE IoGivenUp(v.c, v.t, s, p)
  <1>1. /\ x.c = v.c /\ x.u = v.u
        /\ x.t.pending_recv = v.t.pending_recv \ {r}
        /\ x.t.request_timeout = v.t.request_timeout
        /\ Phase(v.c, v.t, v.u, s, p)
    BY DeliveredFacts
  <1>2. r \in v.t.pending_recv /\ x.u \in Users
    BY <1>1, DeliveredOneRead DEF Delivered
  <1>3. x.u.state = "OPEN"
    BY <1>1, <1>2 DEF Phase, IoOpening, IoFailed, Data, Users
  <1> QED BY <1>1, <1>3 DEF Phase

\* A read of an I/O pipe has succeeded: the next one is sent.
LEMMA IoReadOk ==
    ASSUME User = "io",
           NEW v, NEW r, NEW x, NEW s, NEW p, NEW e, NEW p2, Delivered(v, r, x, s, p, e, p2),
           r.kind = "read", e.status = "OK",
           NEW w \in HandleReply(x, r.kind, e.status, e.fnum)
    PROVE  Kept(w, s, p2)
  <1> DEFINE y == async_read_recv(x)
             z == async_read(y)
  <1>1. x \in Views /\ x.c = v.c /\ x.u = v.u
    BY DeliveredFacts
  <1>2. r.kind \in Data
    BY DEF Data
  <1>3. /\ x.u.state = "OPEN" /\ ~x.t.request_timeout
        /\ \A a \in x.t.pending_recv : ~a.timed
        /\ IF v.c.rreq # NULL THEN IoOpen(v.c, v.t, s, p)
                              ELSE IoGivenUp(v.c, v.t, s, p)
    BY <1>2, IoDataPhase
  <1>4. r \in v.t.pending_recv
    BY DEF Delivered
  <1>5. IoOpen(v.c, v.t, s, p)
    BY <1>3, <1>4 DEF IoGivenUp
  <1>6. IoOpen(v.c, x.t, s, p2)
    BY <1>5, IoOpenLess
  <1>7. ~x.u.fault /\ \A a \in x.t.pending_recv : a.kind # "read"
    BY DeliveredOneRead
  <1>8. x.c.io_read = x.c.fd /\ x.c.io_read # NULL
    BY <1>1, <1>5 DEF IoOpen, Views, Contexts, NULL
  <1>9. /\ y \in Views /\ y.t = x.t /\ y.u = x.u /\ y.c.fd = x.c.fd
        /\ y.c.io_read = x.c.io_read /\ y.c.io_write = x.c.io_write
    BY <1>1, ReadRecv
  <1>10. Standing(y.c, y.t, s, p2)
    BY <1>1, <1>9, StandingDelivered
  <1>11. w = z
    BY <1>8 DEF HandleReply, NullDeref, ReadReply, cb_read
  <1> HIDE DEF y
  <1>12. /\ \E b : Step(y, z, b, "read", s, p2) /\ b.fnum = z.c.io_read /\ b.mid = z.c.rreq
         /\ y.c.io_read # NULL => z.c.io_read = y.c.io_read
         /\ z.c.io_write = y.c.io_write
         /\ ~z.t.request_timeout
    BY <1>9, <1>10, ReadStep
  <1> HIDE DEF z
  <1>13. PICK b : Step(y, z, b, "read", s, p2) /\ b.fnum = z.c.io_read /\ b.mid = z.c.rreq
    BY <1>12
  <1>14. /\ z.u = y.u /\ z.c.fd = y.c.fd /\ b.kind = "read" /\ b.mid \in Nat
         /\ z.t.pending_recv = y.t.pending_recv \cup {b}
         /\ On(z.t.wire) = On(y.t.wire) \cup {b}
         /\ b.timed = y.t.request_timeout
         /\ Standing(z.c, z.t, s, p2)
    BY <1>13 DEF Step, Added
  <1>15. /\ z.t.pending_recv = x.t.pending_recv \cup {b}
         /\ On(z.t.wire) = On(x.t.wire) \cup {b} /\ ~b.timed
         /\ z.c.fd = v.c.fd /\ z.c.io_read = z.c.fd /\ b.fnum = z.c.fd
         /\ z.c.io_write = v.c.io_write /\ z.c.rreq # NULL
    BY <1>1, <1>3, <1>8, <1>9, <1>12, <1>13, <1>14 DEF NULL
  <1>16. IoOpen(z.c, z.t, s, p2)
    BY <1>6, <1>7, <1>13, <1>14, <1>15 DEF IoOpen, Data
  <1>17. Phase(z.c, z.t, z.u, s, p2)
    BY <1>3, <1>9, <1>12, <1>14, <1>15, <1>16 DEF Phase
  <1>18. OneRead(z.c, z.t, z.u) /\ ~z.u.fault
    BY <1>7, <1>9, <1>14, <1>15 DEF OneRead
  <1> QED BY <1>11, <1>14, <1>17, <1>18, StandingKept

\* A read or a write of an I/O pipe has failed: the pipe is closed, and what
\* else was answered has failed too.
LEMMA IoDataError ==
    ASSUME User = "io",
           NEW v, NEW r, NEW x, NEW s, NEW p, NEW e, NEW p2, Delivered(v, r, x, s, p, e, p2),
           r.kind \in Data, e.status # "OK",
           NEW y \in Views, y.t = x.t, y.u = x.u, y.c.fd = x.c.fd,
           r.kind # "read" => y.c.rreq = x.c.rreq
    PROVE  Kept(async_close(y), s, p2)
  <1>1. /\ x.c = v.c /\ x.u = v.u
        /\ x.t.pending_recv = v.t.pending_recv \ {r} /\ On(p) = {e} \cup On(p2)
    BY DeliveredFacts
  <1>2. /\ x.u.state = "OPEN" /\ ~x.t.request_timeout
        /\ \A a \in x.t.pending_recv : ~a.timed
        /\ IF v.c.rreq # NULL THEN IoOpen(v.c, v.t, s, p)
                              ELSE IoGivenUp(v.c, v.t, s, p)
    BY IoDataPhase
  <1>3. /\ OneRead(x.c, x.t, x.u) /\ ~x.u.fault
        /\ r.kind = "read" => \A a \in x.t.pending_recv : a.kind # "read"
    BY DeliveredOneRead
  <1>4. IoOpen(v.c, v.t, s, p) =>
           v.c.fd \notin s.open \ s.broken /\ \A a : ~Succeeds(p2, a)
    BY IoErrorsLast
  <1>5. v.c.fd \notin s.open \ s.broken
    BY <1>2, <1>4 DEF IoGivenUp
  <1>6. \A q \in x.t.pending_recv : q.kind = "write" => ~Succeeds(p2, q)
    BY <1>1, <1>2, <1>4 DEF IoGivenUp, Succeeds
  <1>7. \A q \in x.t.pending_recv : q.kind = "read" => q.mid = v.c.rreq
    BY <1>1, <1>2 DEF IoOpen, IoGivenUp
  <1>8. \A q \in x.t.pending_recv : q.kind # "open"
    BY <1>1, <1>2 DEF IoOpen, IoGivenUp, Data
  <1>9. Standing(y.c, y.t, s, p2)
    BY <1>1, StandingDelivered DEF Data
  <1>10. \A q \in y.t.pending_recv : ~q.timed /\ q.kind # "open"
    BY <1>2, <1>8
  <1>11. \A q \in y.t.pending_recv : q.kind = "read" => q.mid = y.c.rreq
    BY <1>1, <1>3, <1>7
  <1>12. \A q \in y.t.pending_recv : q.kind = "write" => ~Succeeds(p2, q)
    BY <1>6
  <1>13. OneRead(y.c, y.t, y.u) /\ ~y.u.fault
    BY <1>3 DEF OneRead
  <1>14. /\ ~y.t.request_timeout /\ y.u.state = "OPEN" /\ y.c.fd \notin s.open \ s.broken
    BY <1>1, <1>2, <1>5
  <1> QED BY <1>9, <1>10, <1>11, <1>12, <1>13, <1>14, IoGiveUp

\* A write of an I/O pipe has succeeded.
LEMMA IoWriteOk ==
    ASSUME User = "io",
           NEW v, NEW r, NEW x, NEW s, NEW p, NEW e, NEW p2, Delivered(v, r, x, s, p, e, p2),
           r.kind = "write", e.status = "OK",
           NEW w \in HandleReply(x, r.kind, e.status, e.fnum)
    PROVE  Kept(w, s, p2)
  <1> DEFINE y == async_write_recv(x, TRUE)
             c == y.c
  <1>1. /\ x \in Views /\ x.c = v.c /\ x.u = v.u /\ e \in On(p) /\ e.mid = r.mid
    BY DeliveredFacts
  <1>2. r.kind \in Data
    BY DEF Data
  <1>3. /\ x.u.state = "OPEN" /\ ~x.t.request_timeout
        /\ \A a \in x.t.pending_recv : ~a.timed
        /\ IF v.c.rreq # NULL THEN IoOpen(v.c, v.t, s, p)
                              ELSE IoGivenUp(v.c, v.t, s, p)
    BY <1>2, IoDataPhase
  <1>4. r \in v.t.pending_recv
    BY DEF Delivered
  <1>5. v.c.rreq # NULL /\ IoOpen(v.c, v.t, s, p)
    BY <1>1, <1>3, <1>4 DEF IoGivenUp, Succeeds
  <1>6. IoOpen(v.c, x.t, s, p2)
    BY <1>5, IoOpenLess
  <1>7. x.c.io_write # NULL
    BY <1>1, <1>4, <1>5 DEF IoOpen
  <1>8. w = async_write_recv(x, "OK" = "OK")
    BY <1>7 DEF HandleReply, NullDeref, WriteReply
  <1>9. w = y
    BY <1>8
  <1>10. /\ y \in Views /\ y.t = x.t /\ y.u = x.u /\ c.rreq = x.c.rreq /\ c.fd = x.c.fd
         /\ c.io_read = x.c.io_read /\ c.io_write = x.c.io_write
    BY <1>1, WriteRecv
  <1> HIDE DEF y, c
  <1>11. IoOpen(c, x.t, s, p2)
    BY <1>1, <1>6, <1>10 DEF IoOpen
  <1>12. Phase(c, x.t, x.u, s, p2)
    BY <1>1, <1>3, <1>5, <1>10, <1>11 DEF Phase
  <1>13. Standing(c, x.t, s, p2)
    BY <1>1, <1>10, StandingDelivered
  <1>14. OneRead(x.c, x.t, x.u) /\ ~x.u.fault
    BY DeliveredOneRead
  <1>15. OneRead(c, x.t, x.u)
    BY <1>10, <1>14 DEF OneRead
  <1>16. Kept(y, s, p2)
    BY <1>10, <1>12, <1>13, <1>14, <1>15, StandingKept DEF c
  <1> QED BY <1>9, <1>16

\* An I/O pipe that failed or was given up is closed.
LEMMA IoCloseReply ==
    ASSUME User = "io",
           NEW v, NEW r, NEW x, NEW s, NEW p, NEW e, NEW p2, Delivered(v, r, x, s, p, e, p2),
           r.kind = "close",
           NEW w \in HandleReply(x, r.kind, e.status, e.fnum)
    PROVE  Kept(w, s, p2)
  <1> DEFINE y == async_close_recv(x)
             c == y.c
  <1>1. /\ x \in Views /\ x.c = v.c /\ x.u = v.u
        /\ x.t.pending_recv = v.t.pending_recv \ {r}
        /\ x.t.request_timeout = v.t.request_timeout
        /\ On(p) = {e} \cup On(p2)
        /\ Phase(v.c, v.t, v.u, s, p)
    BY DeliveredFacts
  <1>2. r \in v.t.pending_recv
    BY DEF Delivered
  <1>3. OneRead(x.c, x.t, x.u) /\ ~x.u.fault
    BY DeliveredOneRead
  <1>4. w = y
    BY DEF HandleReply, NullDeref, CloseReply, cb_close
  <1>5. /\ y \in Views /\ y.t = x.t /\ y.u = x.u /\ c.rreq = x.c.rreq /\ c.fd = x.c.fd
        /\ c.io_read = NULL /\ c.io_write = NULL
    BY <1>1, CloseRecv
  <1> HIDE DEF y, c
  <1>6. v.u.state = "OPENING" => v.u.sources = 0 /\ IoFailed(x.t)
    BY <1>1, <1>2 DEF Phase, IoOpening, IoFailed
  <1>7. v.u.state = "OPEN" => v.c.rreq = NULL /\ IoGivenUp(v.c, v.t, s, p)
    BY <1>1, <1>2 DEF Phase, IoOpen, Data
  <1>8. IoGivenUp(v.c, v.t, s, p) => IoGivenUp(c, x.t, s, p2)
    BY <1>1, <1>5 DEF IoGivenUp, Succeeds
  <1>9. Phase(c, x.t, x.u, s, p2)
    BY <1>1, <1>5, <1>6, <1>7, <1>8 DEF Phase
  <1>10. Standing(c, x.t, s, p2)
    BY <1>1, <1>5, StandingDelivered
  <1>11. OneRead(c, x.t, x.u)
    BY <1>3, <1>5 DEF OneRead
  <1>12. Kept(y, s, p2)
    BY <1>3, <1>5, <1>9, <1>10, <1>11, StandingKept DEF c
  <1> QED BY <1>4, <1>12

\* Every reply to a request of an I/O pipe.
LEMMA IoReply ==
    ASSUME User = "io",
           NEW v, NEW r, NEW x, NEW s, NEW p, NEW e, NEW p2, Delivered(v, r, x, s, p, e, p2),
           NEW w \in HandleReply(x, r.kind, e.status, e.fnum)
    PROVE  Kept(w, s, p2)
  <1>1. r \in Requests /\ x \in Views
    BY DeliveredFacts
  <1>2. r.kind \in Kinds
    BY <1>1 DEF Requests
  <1>3. CASE r.kind = "open"
    BY <1>3, IoOpenOk, IoOpenError
  <1>4. ASSUME r.kind = "read", e.status # "OK" PROVE Kept(w, s, p2)
    <2> DEFINE y == async_read_recv(x)
    <2>1. y \in Views /\ y.t = x.t /\ y.u = x.u /\ y.c.fd = x.c.fd
      BY <1>1, ReadRecv
    <2>2. w = async_close(y)
      BY <1>4 DEF HandleReply, ReadReply, cb_error
    <2>3. r.kind \in Data
      BY <1>4 DEF Data
    <2> HIDE DEF y
    <2>4. Kept(async_close(y), s, p2)
      BY <1>4, <2>1, <2>3, IoDataError
    <2> QED BY <2>2, <2>4
  <1>5. ASSUME r.kind = "write", e.status # "OK" PROVE Kept(w, s, p2)
    <2> DEFINE ok == e.status = "OK"
               y == async_write_recv(x, ok)
    <2>1. w = async_close(y)
      BY <1>5 DEF HandleReply, WriteReply, cb_error
    <2>2. ok \in BOOLEAN
      OBVIOUS
    <2> HIDE DEF ok
    <2>3. y \in Views /\ y.t = x.t /\ y.u = x.u /\ y.c.fd = x.c.fd /\ y.c.rreq = x.c.rreq
      BY <1>1, <2>2, WriteRecv
    <2>4. r.kind \in Data
      BY <1>5 DEF Data
    <2> HIDE DEF y
    <2>5. Kept(async_close(y), s, p2)
      BY <1>5, <2>3, <2>4, IoDataError
    <2> QED BY <2>1, <2>5
  <1>6. CASE r.kind = "read"
    BY <1>4, <1>6, IoReadOk
  <1>7. CASE r.kind = "write"
    BY <1>5, <1>7, IoWriteOk
  <1>8. CASE r.kind = "close"
    BY <1>8, IoCloseReply
  <1> QED BY <1>2, <1>3, <1>6, <1>7, <1>8 DEF Kinds

-----------------------------------------------------------------------------
\* On a dead transport async_close only drops a request, and keeps the handle.
LEMMA DeadClose ==
    ASSUME NEW x \in Views, x.t.dead
    PROVE  LET y == async_close(x)
           IN  /\ y.u = x.u /\ y.t.dead /\ y.c.fd = x.c.fd
               /\ y.t.pending_recv \subseteq x.t.pending_recv
  <1> DEFINE S == {r \in {q \in x.t.pending_recv : q.mid # x.c.rreq} : r.mid # x.c.wreq}
             O == (x.t.orphans \ {x.c.rreq}) \ {x.c.wreq}
             t == [x.t EXCEPT !.pending_recv = S, !.orphans = O]
             c == [x.c EXCEPT !.rreq = NULL, !.wreq = NULL, !.io_close = TRUE]
             y == [x EXCEPT !.t = t, !.c = c]
             z == smbcli_transport_send(y, "close", y.c.fd, <<>>)
  <1>1. x.t \in Transports /\ x.c \in Contexts /\ x \in Views
    BY DEF Views
  <1>2. S \in SUBSET Requests /\ O \in SUBSET Nat /\ S \subseteq x.t.pending_recv
    BY <1>1 DEF Transports
  <1>3. async_close(x) = z
    <2> DEFINE t1 == smbcli_request_destroy(x.t, x.c.rreq)
               t2 == smbcli_request_destroy(t1, x.c.wreq)
               y0 == [x EXCEPT !.t = t2, !.c.rreq = NULL, !.c.wreq = NULL,
                               !.c.io_close = TRUE]
    <2>1. t2 = t
      BY <1>1 DEF smbcli_request_destroy, Transports
    <2> HIDE DEF t, t2
    <2>2. y0 = y
      BY <1>1, <2>1 DEF Views, Contexts
    <2>3. async_close(x) = smbcli_transport_send(y0, "close", y0.c.fd, <<>>)
      BY DEF async_close, t2
    <2> QED BY <2>2, <2>3
  <1> HIDE DEF S, O
  <1>4. t \in Transports /\ t.dead = x.t.dead /\ t.pending_recv = S
    BY <1>1, <1>2 DEF Transports
  <1>5. c \in Contexts /\ c.fd = x.c.fd
    BY <1>1, NoData DEF Contexts
  <1> HIDE DEF t, c
  <1>6. c \in Contexts /\ c.fd = x.c.fd /\ c.fd \in Int
    BY <1>5 DEF Contexts
  <1>7. y \in Views /\ y.t = t /\ y.c = c /\ y.u = x.u
    BY <1>1, <1>4, <1>6 DEF Views
  <1> HIDE DEF y
  <1>8. Sent(y, z, "close") /\ z.c = y.c
    BY <1>6, <1>7, NoData, SendSent
  <1> HIDE DEF z
  <1>9. z.u = x.u /\ z.t.dead /\ z.c.fd = x.c.fd /\ z.t.pending_recv = S
    BY <1>4, <1>6, <1>7, <1>8 DEF Sent
  <1> QED BY <1>2, <1>3, <1>9

\* The handlers run by smbcli_transport_dead send nothing.
LEMMA DeadReply ==
    ASSUME NEW x \in Views, x.t.dead, OneRead(x.c, x.t, x.u), ~x.u.fault,
           NEW kind \in Kinds, NEW w \in HandleReply(x, kind, "ERROR", NULL),
           NEW s, NEW p
    PROVE  Kept(w, s, p)
  <1>1. ASSUME NEW y \in Views, y.t = x.t, y.u = x.u, y.c.fd = x.c.fd
        PROVE  /\ Kept(y, s, p) /\ Kept(exit_program(y), s, p)
               /\ Kept(async_close(y), s, p)
    <2>1. OneRead(y.c, y.t, y.u) /\ ~y.u.fault
      BY <1>1 DEF OneRead
    <2>2. Kept(y, s, p)
      BY <1>1, <2>1 DEF Kept
    <2>3. Kept(exit_program(y), s, p)
      BY <2>1, ExitKept
    <2> DEFINE z == async_close(y)
    <2>4. /\ z.u = y.u /\ z.t.dead /\ z.c.fd = y.c.fd
          /\ z.t.pending_recv \subseteq y.t.pending_recv
      BY <1>1, DeadClose
    <2> HIDE DEF z
    <2>5. Kept(z, s, p)
      BY <2>1, <2>4 DEF Kept, OneRead
    <2> QED BY <2>2, <2>3, <2>5 DEF z
  <1>2. ASSUME NEW y, w \in cb_error(y, kind, "ERROR")
        PROVE  w = y \/ w = exit_program(y) \/ w = async_close(y)
    BY <1>2 DEF cb_error, on_ctrl_pipe_error
  <1>3. CASE kind = "open"
    <2> DEFINE y == async_open_recv(x, FALSE, NULL)
    <2>1. w \in cb_error(async_open_recv(x, "ERROR" = "OK", NULL), kind, "ERROR")
      BY <1>3 DEF HandleReply, OpenReply
    <2>2. w \in cb_error(y, kind, "ERROR")
      BY <2>1
    <2>3. y \in Views /\ y.t = x.t /\ y.u = x.u /\ y.c.fd = x.c.fd
      BY OpenRecv
    <2> HIDE DEF y
    <2> QED BY <1>1, <1>2, <2>2, <2>3
  <1>4. CASE kind = "read"
    <2> DEFINE y == async_read_recv(x)
    <2>1. w \in cb_error(y, kind, "ERROR")
      BY <1>4 DEF HandleReply, ReadReply
    <2>2. y \in Views /\ y.t = x.t /\ y.u = x.u /\ y.c.fd = x.c.fd
      BY ReadRecv
    <2> HIDE DEF y
    <2> QED BY <1>1, <1>2, <2>1, <2>2
  <1>5. CASE kind = "write"
    <2> DEFINE y == async_write_recv(x, FALSE)
    <2>1. w \in cb_error(async_write_recv(x, "ERROR" = "OK"), kind, "ERROR")
      BY <1>5 DEF HandleReply, WriteReply
    <2>2. w \in cb_error(y, kind, "ERROR")
      BY <2>1
    <2>3. y \in Views /\ y.t = x.t /\ y.u = x.u /\ y.c.fd = x.c.fd
      BY WriteRecv
    <2> HIDE DEF y
    <2> QED BY <1>1, <1>2, <2>2, <2>3
  <1>6. CASE kind = "close"
    <2> DEFINE y == async_close_recv(x)
               z == [y EXCEPT !.u.state = "OPENING"]
               z2 == async_open(z)
    <2>1. y \in Views /\ y.t = x.t /\ y.u = x.u /\ y.c.fd = x.c.fd
      BY CloseRecv
    <2>2. w = y \/ w = z2
      BY <1>6 DEF HandleReply, CloseReply, cb_close
    <2> HIDE DEF y
    <2>3. z \in Views /\ z.t = y.t /\ z.u.state = "OPENING" /\ z.u.fault = y.u.fault
      BY <2>1, UserSteps
    <2> HIDE DEF z
    <2>4. Sent(z, z2, "open")
      BY <2>3, OpenSent
    <2> HIDE DEF z2
    <2>5. z2.u = z.u /\ z2.t.dead /\ z2.t.pending_recv = x.t.pending_recv
      BY <2>1, <2>3, <2>4 DEF Sent
    <2>6. Kept(z2, s, p)
      BY <2>1, <2>3, <2>5 DEF Kept, OneRead
    <2> QED BY <1>1, <2>1, <2>2, <2>6
  <1> QED BY <1>3, <1>4, <1>5, <1>6 DEF Kinds

\* A reply to a request that was dropped is discarded.
LEMMA Unmatched ==
    ASSUME NEW c, NEW t \in Transports, NEW u, NEW s \in Servers, NEW p \in Seq(ReplySet),
           p # <<>>, LiveInv(c, t, u, s, p), \A r \in t.pending_recv : r.mid # Head(p).mid
    PROVE  LiveInv(c, t, u, s, Tail(p))
  <1> DEFINE p2 == Tail(p)
  <1>1. /\ Len(p) \in Nat \ {0} /\ Len(p2) = Len(p) - 1
        /\ On(p) = {Head(p)} \cup On(p2)
        /\ \A i \in 1..(Len(p) - 1) : p2[i] = p[i + 1] /\ i + 1 \in 1..Len(p)
    BY OnTail
  <1>2. Base(t, s, p2)
    BY BaseTail DEF LiveInv
  <1> HIDE DEF p2
  <1>3. Handle(c, t, s, p2)
    BY <1>1 DEF LiveInv, Handle
  <1>4. \A r : Succeeds(p2, r) => Succeeds(p, r)
    BY <1>1 DEF Succeeds
  <1>5. CtrlOpening(c, t, p) => CtrlOpening(c, t, p2)
    BY <1>1, <1>4 DEF CtrlOpening
  <1>6. CtrlClosing(c, t, p) => CtrlClosing(c, t, p2)
    BY <1>4 DEF CtrlClosing
  <1>7. IoOpening(c, t, s, p) => IoOpening(c, t, s, p2)
    <2>1. Len(t.wire) \in Nat
      BY DEF Transports
    <2> QED BY <1>1, <2>1 DEF IoOpening
  <1>8. IoOpen(c, t, s, p) => IoOpen(c, t, s, p2)
    <2> SUFFICES ASSUME IoOpen(c, t, s, p) PROVE IoOpen(c, t, s, p2)
      OBVIOUS
    <2>1. ASSUME NEW i \in 1..Len(p2), NEW j \in 1..Len(p2), i < j, p2[i].status # "OK"
          PROVE  p2[j].status # "OK"
      <3>1. i + 1 < j + 1 /\ p2[i] = p[i + 1] /\ p2[j] = p[j + 1]
            /\ i + 1 \in 1..Len(p) /\ j + 1 \in 1..Len(p)
        BY <1>1, <2>1
      <3> QED BY <2>1, <3>1 DEF IoOpen
    <2> QED BY <1>1, <2>1 DEF IoOpen
  <1>9. IoGivenUp(c, t, s, p) => IoGivenUp(c, t, s, p2)
    BY <1>4 DEF IoGivenUp
  <1>10. Phase(c, t, u, s, p2)
    BY <1>5, <1>6, <1>7, <1>8, <1>9 DEF LiveInv, Phase
  <1>11. LiveInv(c, t, u, s, p2)
    BY <1>2, <1>3, <1>10 DEF LiveInv
  <1> QED BY <1>11 DEF p2

\* A write on a dead transport that has completed everything.
LEMMA DeadSource ==
    ASSUME NEW x \in Views, x.t.dead, x.t.pending_recv = {}, ~x.u.fault,
           NEW data \in Seq(Lines), NEW s, NEW p
    PROVE  Kept(async_write(x, data), s, p)
  <1> DEFINE y == async_write(x, data)
  <1>1. Sent(x, y, "write")
    BY WriteSent
  <1> HIDE DEF y
  <1>2. y.u = x.u /\ y.t.dead /\ y.t.pending_recv = {}
    BY <1>1 DEF Sent
  <1>3. Kept(y, s, p)
    BY <1>2 DEF Kept, OneRead
  <1> QED BY <1>3 DEF y

\* A step of the program to a view that is kept.
LEMMA KeptBecome ==
    ASSUME NEW w, Become(w), Kept(w, srv', replies')
    PROVE  JInv'
  <1>1. ac' = w.c /\ transport' = w.t /\ user' = w.u
    BY DEF Become
  <1>2. /\ ~user'.fault /\ OneRead(ac', transport', user')
        /\ ~transport'.dead /\ ~user'.exited => LiveInv(ac', transport', user', srv', replies')
    BY <1>1 DEF Kept
  <1> QED BY <1>2 DEF JInv, Live

\* The order holds when the first open has been sent.
LEMMA InitOrder == Init => JInv
  <1> SUFFICES ASSUME Init PROVE JInv
    OBVIOUS
  <1> DEFINE t == [smbcli_transport_init EXCEPT !.request_timeout = User = "ctrl"]
             x == [c |-> async_context(User), t |-> t, u |-> InitUser]
             y == async_open(x)
  <1>1. /\ t \in Transports /\ ~t.dead /\ t.pending_recv = {} /\ t.wire = <<>>
        /\ User # "ctrl" => ~t.request_timeout
    <2>1. <<>> \in Seq(Requests) /\ (User = "ctrl") \in BOOLEAN
      OBVIOUS
    <2>2. /\ smbcli_transport_init \in Transports
          /\ ~smbcli_transport_init.dead /\ smbcli_transport_init.pending_recv = {}
          /\ smbcli_transport_init.wire = <<>>
      BY <2>1 DEF smbcli_transport_init, Transports
    <2> QED BY <2>1, <2>2 DEF Transports
  <1> HIDE DEF t
  <1>2. /\ async_context(User) \in Contexts /\ async_context(User).io_read = NULL
        /\ async_context(User).io_write = NULL
    BY NoData DEF async_context, Contexts
  <1>3. /\ InitUser \in Users /\ ~InitUser.fault /\ InitUser.state = "OPENING"
        /\ InitUser.sources = 0
    BY DEF InitUser, Users
  <1>4. /\ x \in Views /\ x.t = t /\ x.u = InitUser /\ x.c.io_read = NULL
        /\ x.c.io_write = NULL
    BY <1>1, <1>2, <1>3 DEF Views
  <1>5. ac = y.c /\ transport = y.t /\ user = y.u /\ replies = <<>>
    BY DEF Init, Opened, t
  <1>6. srv \in Servers /\ srv.open = {} /\ srv.parked = {}
    BY DEF Init, Servers
  <1> HIDE DEF x
  <1>7. On(<<>>) = {} /\ <<>> \in Seq(ReplySet)
    BY DEF On
  <1>8. Standing(x.c, x.t, srv, <<>>)
    <2>1. Base(x.t, srv, <<>>)
      BY <1>1, <1>4, <1>6, <1>7
         DEF Base, Sequenced, Named, Located, Parking, Barriers, NotFound
    <2>2. Handle(x.c, x.t, srv, <<>>)
      BY <1>1, <1>4, <1>6, <1>7 DEF Handle
    <2> QED BY <1>1, <1>4, <1>6, <1>7, <2>1, <2>2 DEF Standing
  <1>9. /\ \E q : Sends(x, y, q, "open", NULL)
        /\ y.c.io_open /\ y.c.io_read = x.c.io_read /\ y.c.io_write = x.c.io_write
        /\ y.t.request_timeout = x.t.request_timeout
    BY <1>1, <1>4, OpenIssued
  <1> HIDE DEF y
  <1>10. PICK q : Sends(x, y, q, "open", NULL)
    BY <1>9
  <1>11. MaySend("open", NULL, x.c, x.t, srv)
    BY <1>1, <1>4, <1>6 DEF MaySend
  <1>12. Step(x, y, q, "open", srv, <<>>)
    BY <1>8, <1>10, <1>11, StandingSends
  <1>13. /\ y.u = x.u /\ q.kind = "open" /\ y.t.pending_recv = {q}
         /\ On(y.t.wire) = On(<<>>) \cup {q} /\ q.timed = x.t.request_timeout
         /\ Standing(y.c, y.t, srv, <<>>)
    BY <1>1, <1>4, <1>12 DEF Step, Added
  <1>14. Len(y.t.wire) = 1
    BY <1>1, <1>4, <1>10 DEF Sends, Issued
  <1>15. User = "ctrl" => CtrlOpening(y.c, y.t, <<>>)
    BY <1>4, <1>9, <1>13 DEF CtrlOpening, Data
  <1>16. User # "ctrl" => /\ IoOpening(y.c, y.t, srv, <<>>) /\ ~y.t.request_timeout
                          /\ \A r \in y.t.pending_recv : ~r.timed
    BY <1>1, <1>4, <1>6, <1>7, <1>9, <1>13, <1>14 DEF IoOpening
  <1>17. Phase(y.c, y.t, y.u, srv, <<>>)
    BY <1>3, <1>4, <1>9, <1>13, <1>15, <1>16 DEF Phase
  <1>18. OneRead(y.c, y.t, y.u) /\ ~y.u.fault
    BY <1>3, <1>4, <1>13 DEF OneRead
  <1>19. Kept(y, srv, <<>>)
    BY <1>13, <1>17, <1>18, StandingKept
  <1> QED BY <1>5, <1>19 DEF Kept, JInv, Live

\* Every step of the program and of the server keeps the order.
LEMMA NextOrder == IInv /\ JInv /\ [Next]_vars => JInv'
  <1> SUFFICES ASSUME IInv, JInv, [Next]_vars PROVE JInv'
    OBVIOUS
  <1> USE DEF ServerOK
  <1>1. /\ Good(View) /\ View \in Views
        /\ View.c = ac /\ View.t = transport /\ View.u = user
        /\ transport \in Transports /\ user \in Users
        /\ srv \in Servers /\ replies \in Seq(ReplySet)
    BY GoodType DEF IInv, Good, View, Servers, ReplySet
  <1>2. /\ ~user.fault /\ OneRead(ac, transport, user)
        /\ ~transport.dead /\ ~user.exited => LiveInv(ac, transport, user, srv, replies)
    BY DEF JInv, Live
  <1>3. ASSUME NEW r \in transport.pending_recv
        PROVE  r.kind \in Kinds
    BY <1>1, <1>3 DEF Transports, Requests
  <1>4. ASSUME smbcli_transport_finish_recv PROVE JInv'
    <2>1. replies # <<>> /\ srv' = srv /\ replies' = Tail(replies) /\ Ready
      BY <1>4 DEF smbcli_transport_finish_recv
    <2>2. ~user.exited
      BY <2>1 DEF Ready
    <2>3. CASE /\ UNCHANGED <<ac, transport, user>>
               /\ \A r \in transport.pending_recv : r.mid # Head(replies).mid
      <3>1. ASSUME ~transport.dead
            PROVE  LiveInv(ac, transport, user, srv, Tail(replies))
        BY <1>1, <1>2, <2>1, <2>2, <2>3, <3>1, Unmatched
      <3>2. /\ ~user'.fault /\ OneRead(ac', transport', user')
            /\ ~transport'.dead => LiveInv(ac', transport', user', srv', replies')
        BY <1>2, <2>1, <2>3, <3>1
      <3> QED BY <3>2 DEF JInv, Live
    <2>4. ASSUME NEW r \in transport.pending_recv, r.mid = Head(replies).mid,
                 Complete(r, Head(replies).status, Head(replies).fnum)
          PROVE  JInv'
      <3> DEFINE x == [View EXCEPT !.t.pending_recv = @ \ {r}]
                 e == Head(replies)
                 p2 == Tail(replies)
      <3>1. ~transport.dead
        BY <2>1, <2>4 DEF Ready
      <3>2. PICK w \in HandleReply(x, r.kind, e.status, e.fnum) : Become(w)
        BY <2>4 DEF Complete
      <3>3. Removing(View, r, x)
        BY DEF Removing
      <3> HIDE DEF x
      <3>4. Delivered(View, r, x, srv, replies, e, p2)
        BY <1>1, <1>2, <2>1, <2>2, <2>4, <3>1, <3>3 DEF Delivered
      <3> HIDE DEF e, p2
      <3>5. Kept(w, srv, p2)
        BY <3>2, <3>4, CtrlReply, IoReply, UserAssumption
      <3>6. Kept(w, srv', replies')
        BY <2>1, <3>5 DEF p2
      <3> QED BY <3>2, <3>6, KeptBecome
    <2>5. \/ /\ UNCHANGED <<ac, transport, user>>
             /\ \A r \in transport.pending_recv : r.mid # Head(replies).mid
          \/ \E r \in transport.pending_recv :
                /\ r.mid = Head(replies).mid
                /\ Complete(r, Head(replies).status, Head(replies).fnum)
      BY <1>4 DEF smbcli_transport_finish_recv
    <2> QED BY <2>3, <2>4, <2>5
  <1>5. ASSUME smbcli_timeout_handler PROVE JInv'
    <2>1. PICK r \in transport.pending_recv : r.timed /\ Complete(r, "ERROR", NULL)
      BY <1>5 DEF smbcli_timeout_handler
    <2>2. srv' = srv /\ replies' = replies /\ ~user.exited /\ ~transport.dead
      BY <1>5, <2>1 DEF smbcli_timeout_handler, Ready
    <2> DEFINE x == [View EXCEPT !.t.pending_recv = @ \ {r}]
    <2>3. PICK w \in HandleReply(x, r.kind, "ERROR", NULL) : Become(w)
      BY <2>1 DEF Complete
    <2>4. Removing(View, r, x)
      BY DEF Removing
    <2> HIDE DEF x
    <2>5. Kept(w, srv, replies)
      BY <1>1, <1>2, <2>1, <2>2, <2>3, <2>4, TimeoutKept
    <2>6. Kept(w, srv', replies')
      BY <2>2, <2>5
    <2> QED BY <2>3, <2>6, KeptBecome
  <1>6. ASSUME smbcli_sock_dead PROVE JInv'
    <2>1. /\ transport' = [transport EXCEPT !.dead = TRUE, !.wire = <<>>]
          /\ ac' = ac /\ user' = user
      BY <1>6 DEF smbcli_sock_dead
    <2>2. transport'.dead /\ transport'.pending_recv = transport.pending_recv
      BY <1>1, <2>1 DEF Transports
    <2>3. ~user'.fault /\ OneRead(ac', transport', user')
      BY <1>2, <2>1, <2>2 DEF OneRead
    <2> QED BY <2>2, <2>3 DEF JInv, Live
  <1>7. ASSUME smbcli_transport_dead PROVE JInv'
    <2>1. PICK r \in transport.pending_recv : Complete(r, "ERROR", NULL)
      BY <1>7 DEF smbcli_transport_dead
    <2>2. transport.dead
      BY <1>7 DEF smbcli_transport_dead
    <2> DEFINE x == [View EXCEPT !.t.pending_recv = @ \ {r}]
    <2>3. PICK w \in HandleReply(x, r.kind, "ERROR", NULL) : Become(w)
      BY <2>1 DEF Complete
    <2>4. Removing(View, r, x)
      BY DEF Removing
    <2> HIDE DEF x
    <2>5. /\ x \in Views /\ x.c = ac /\ x.u = user /\ x.t.dead
          /\ x.t.pending_recv = transport.pending_recv \ {r}
      BY <1>1, <2>2, <2>4, Removed
    <2>6. OneRead(x.c, x.t, x.u) /\ ~x.u.fault
      BY <1>2, <2>5 DEF OneRead
    <2>7. Kept(w, srv', replies')
      BY <1>3, <2>3, <2>5, <2>6, DeadReply
    <2> QED BY <2>3, <2>7, KeptBecome
  <1>8. ASSUME Ready, NEW x \in Views, x.c = ac, x.t = transport, x.u.fault = user.fault,
               x.u.state = user.state, x.u.sources > 0 \/ User = "ctrl",
               User = "io" => x.u = user, NEW data \in Seq(Lines),
               Become(async_write(x, data)), srv' = srv, replies' = replies
        PROVE  JInv'
    <2> DEFINE w == async_write(x, data)
    <2>1. ~x.u.fault /\ OneRead(x.c, x.t, x.u) /\ ~user.exited
      BY <1>2, <1>8 DEF OneRead, Ready
    <2>2. CASE transport.dead
      <3>1. x.t.dead /\ x.t.pending_recv = {}
        BY <1>8, <2>2 DEF Ready
      <3>2. Kept(w, srv', replies')
        BY <2>1, <3>1, <1>8, DeadSource
      <3> QED BY <1>8, <3>2, KeptBecome
    <2>3. CASE ~transport.dead
      <3>1. Standing(ac, transport, srv, replies) /\ Phase(ac, transport, user, srv, replies)
        BY <1>1, <1>2, <2>1, <2>3, GoodStanding
      <3>2. Standing(x.c, x.t, srv, replies)
        BY <1>8, <3>1
      <3>3. Phase(x.c, x.t, x.u, srv, replies)
        BY <1>8, <3>1, UserAssumption DEF Phase
      <3>4. Kept(w, srv, replies)
        <4>1. CASE User = "ctrl"
          BY <1>8, <2>1, <3>2, <3>3, <4>1, CtrlSource
        <4>2. CASE User = "io"
          <5>1. x.u.sources > 0
            BY <1>8, <4>2
          <5> QED BY <1>8, <2>1, <3>2, <3>3, <4>2, <5>1, IoSource
        <4> QED BY <4>1, <4>2, UserAssumption
      <3>5. Kept(w, srv', replies')
        BY <1>8, <3>4
      <3> QED BY <1>8, <3>5, KeptBecome
    <2> QED BY <2>2, <2>3
  <1>9. ASSUME timer PROVE JInv'
    <2> DEFINE u == [user EXCEPT !.sources = @ - 1]
               x == [View EXCEPT !.u = u]
    <2>1. /\ user.sources > 0 /\ Ready /\ srv' = srv /\ replies' = replies /\ User = "ctrl"
          /\ Become(async_write([View EXCEPT !.u.sources = @ - 1], <<"abort">>))
      BY <1>9 DEF timer
    <2>2. user.sources - 1 \in Nat
      BY <1>1, <2>1 DEF Users
    <2>3. u \in Users /\ u.state = user.state /\ u.fault = user.fault
      BY <1>1, <2>2 DEF Users
    <2>4. [View EXCEPT !.u.sources = @ - 1] = x
      BY DEF View
    <2>5. Become(async_write(x, <<"abort">>))
      BY <2>1, <2>4
    <2> HIDE DEF u
    <2>6. x \in Views /\ x.c = ac /\ x.t = transport /\ x.u = u
      BY <1>1, <2>3 DEF Views
    <2> HIDE DEF x
    <2>7. <<"abort">> \in Seq(Lines) /\ User # "io"
      BY <2>1 DEF Lines
    <2> QED BY <1>8, <2>1, <2>3, <2>5, <2>6, <2>7
  <1>10. ASSUME on_stdin_read_event PROVE JInv'
    <2>1. /\ user.sources > 0 /\ Ready /\ srv' = srv /\ replies' = replies
          /\ Become(async_write(View, <<"input">>))
      BY <1>10 DEF on_stdin_read_event
    <2>2. <<"input">> \in Seq(Lines)
      BY DEF Lines
    <2> QED BY <1>1, <1>8, <2>1, <2>2
  <1>11. ASSUME ServerStep \/ ServerCancel \/ ServerUnpark \/ ServerDisconnect PROVE JInv'
    <2>1. ac' = ac /\ user' = user
      BY <1>11 DEF ServerStep, ServerCancel, ServerUnpark, ServerDisconnect
    <2>2. /\ transport'.pending_recv = transport.pending_recv
          /\ transport'.dead = transport.dead
      BY <1>1, <1>11
         DEF ServerStep, ServerCancel, ServerUnpark, ServerDisconnect, Transports
    <2>3. ~user'.fault /\ OneRead(ac', transport', user')
      BY <1>2, <2>1, <2>2 DEF OneRead
    <2>4. ASSUME ~transport.dead, ~user.exited
          PROVE  LiveInv(ac, transport, user, srv, replies)'
      BY <1>2, <1>11, <2>4, ServerLive
    <2>5. ~transport'.dead /\ ~user'.exited => LiveInv(ac', transport', user', srv', replies')
      BY <2>1, <2>2, <2>4
    <2> QED BY <2>3, <2>5 DEF JInv, Live
  <1>12. ASSUME UNCHANGED vars PROVE JInv'
    <2>1. /\ ac' = ac /\ transport' = transport /\ user' = user /\ srv' = srv
          /\ replies' = replies
      BY <1>12 DEF vars
    <2>2. /\ ~user'.fault /\ OneRead(ac', transport', user')
          /\ ~transport'.dead /\ ~user'.exited => LiveInv(ac', transport', user', srv', replies')
      BY <1>2, <2>1
    <2> QED BY <2>2 DEF JInv, Live
  <1> QED
    BY <1>4, <1>5, <1>6, <1>7, <1>9, <1>10, <1>11, <1>12 DEF Next

\* The order of requests and replies in every state of every behaviour.
THEOREM Order == Spec => []JInv
  BY InitOrder, NextOrder, Invariance, PTL DEF Spec

\* No reply, whatever its order and however many requests overlap with opens,
\* closes and errors, is stored through a parameter block that is not there.
THEOREM NoNullDereference == Spec => []NoNullDeref
  <1>1. JInv => NoNullDeref
    BY DEF JInv, NoNullDeref
  <1> QED BY <1>1, Order, PTL

\* c->buffer is never the target of two reads, and once the pipe is open the
\* read outstanding names the handle of this opening.
THEOREM OneReadAtATime == Spec => []OneCurrentRead
  <1>1. JInv => OneCurrentRead
    <2> SUFFICES ASSUME JInv PROVE OneCurrentRead
      OBVIOUS
    <2> DEFINE R == Pending("read")
    <2>1. OneRead(ac, transport, user)
      BY DEF JInv
    <2>2. \A a, b \in R : a = b
      BY <2>1 DEF OneRead, Pending
    <2>3. Cardinality(R) <= 1
      <3> HIDE DEF R
      <3>1. CASE R = {}
        BY <3>1, FS_EmptySet
      <3>2. ASSUME NEW a \in R PROVE Cardinality(R) <= 1
        <4>1. R = {a}
          BY <2>2, <3>2
        <4>2. Cardinality({a}) = 1
          BY FS_Singleton
        <4> QED BY <4>1, <4>2
      <3> QED BY <3>1, <3>2
    <2>4. user.state = "OPEN" => \A r \in R : r.fnum = ac.fd
      BY <2>1 DEF OneRead, Pending
    <2> QED BY <2>3, <2>4 DEF OneCurrentRead
  <1> QED BY <1>1, Order, PTL
=============================================================================
