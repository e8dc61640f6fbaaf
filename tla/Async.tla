------------------------------- MODULE Async -------------------------------
(***************************************************************************)
(* The asynchronous pipe I/O layer of the winexe client (winexe/async.c)   *)
(* and the part of the SMB transport it runs on (libcli/raw).              *)
(*                                                                         *)
(* The code is callback driven: a reply handler updates the context, calls *)
(* the user's callback, which may call back into this layer, and then goes *)
(* on (async_read_recv issues the next read AFTER cb_read returned).  The  *)
(* operations are therefore state transformers: they map a view            *)
(*     x = [c |-> an async_context, t |-> the transport, ...]              *)
(* to the view after the call, and a handler is their composition.         *)
(* The data of a request is the sequence of lines it carries.              *)
(* Fields of x other than c and t (the user's own state) are left alone.   *)
(***************************************************************************)
EXTENDS Integers, Sequences

\* A pointer that is NULL, and the handle argument of a request without one.
NULL == -1

Kinds == {"open", "read", "write", "close"}

(***************************************************************************)
(* struct async_context.  io_open and io_close only record that the        *)
(* parameter block is allocated; io_read and io_write hold the file handle *)
(* the block was filled with when it was allocated, which later calls      *)
(* reuse.  rreq and wreq name a request by its mid.                        *)
(***************************************************************************)
async_context(name) ==
    [name |-> name, fd |-> 0,
     io_open |-> FALSE, io_read |-> NULL, io_write |-> NULL, io_close |-> FALSE,
     rreq |-> NULL, wreq |-> NULL, wq |-> <<>>]

(***************************************************************************)
(* struct smbcli_transport: pending_recv is the list of requests awaiting  *)
(* a reply (newest first in the code: the newest has the largest mid),     *)
(* wire the packets sent and not yet processed by the server,              *)
(* request_timeout whether a request sent now gets a timeout, orphans the  *)
(* requests created on a dead transport: allocated, never completed.       *)
(***************************************************************************)
smbcli_transport_init ==
    [next_mid |-> 1, pending_recv |-> {}, wire |-> <<>>,
     request_timeout |-> TRUE, dead |-> FALSE, orphans |-> {}]

\* Builds a request and puts it on the wire; the mid taken is x.t.next_mid.
\* On a dead transport the request only gets an error state: its async.fn is
\* never called.
smbcli_transport_send(x, kind, fnum, data) ==
    LET req == [mid |-> x.t.next_mid, kind |-> kind, pipe |-> x.c.name,
                fnum |-> fnum, data |-> data, timed |-> x.t.request_timeout]
        t == IF x.t.dead
             THEN [x.t EXCEPT !.next_mid = @ + 1, !.orphans = @ \cup {req.mid}]
             ELSE [x.t EXCEPT !.next_mid = @ + 1,
                              !.pending_recv = @ \cup {req},
                              !.wire = Append(@, req)]
    IN  [x EXCEPT !.t = t]

\* Frees a request: a later reply to it is unmatched and discarded.
smbcli_request_destroy(t, mid) ==
    [t EXCEPT !.pending_recv = {r \in @ : r.mid # mid},
              !.orphans = @ \ {mid}]

async_open(x) ==
    LET y == [x EXCEPT !.c.io_open = TRUE]
        z == smbcli_transport_send(y, "open", NULL, <<>>)
    IN  [z EXCEPT !.c.rreq = x.t.next_mid]

\* Mutant: the timeout is never switched off.
async_read_timed(x) ==
    LET y == [x EXCEPT !.c.io_read = IF @ = NULL THEN x.c.fd ELSE @]
        z == smbcli_transport_send(y, "read", y.c.io_read, <<>>)
    IN  [z EXCEPT !.c.rreq = x.t.next_mid]

\* The timeout is switched off only after the request has been sent.
async_read(x) ==
    LET y == [x EXCEPT !.c.io_read = IF @ = NULL THEN x.c.fd ELSE @]
        z == smbcli_transport_send(y, "read", y.c.io_read, <<>>)
    IN  [z EXCEPT !.c.rreq = x.t.next_mid, !.t.request_timeout = FALSE]

\* wreq guards the queue, but the request sent is not stored in it.
async_write(x, data) ==
    IF x.c.wreq # NULL
    THEN [x EXCEPT !.c.wq = Append(@, data)]
    ELSE LET y == [x EXCEPT !.c.io_write = IF @ = NULL THEN x.c.fd ELSE @]
         IN  smbcli_transport_send(y, "write", y.c.io_write, data)

\* Mutant: the destroyed requests are not forgotten.
async_close_dangling(x) ==
    LET t1 == smbcli_request_destroy(x.t, x.c.rreq)
        t2 == smbcli_request_destroy(t1, x.c.wreq)
        y  == [x EXCEPT !.t = t2, !.c.io_close = TRUE]
    IN  smbcli_transport_send(y, "close", y.c.fd, <<>>)

async_close(x) ==
    LET t1 == smbcli_request_destroy(x.t, x.c.rreq)
        t2 == smbcli_request_destroy(t1, x.c.wreq)
        y  == [x EXCEPT !.t = t2, !.c.rreq = NULL, !.c.wreq = NULL,
                        !.c.io_close = TRUE]
    IN  smbcli_transport_send(y, "close", y.c.fd, <<>>)

-----------------------------------------------------------------------------
(***************************************************************************)
(* What the reply handlers do to the context before they call the user.    *)
(***************************************************************************)

\* Mutant: the handle is taken from the block without a look at the status.
async_open_recv_unchecked(x, ok, fnum) ==
    [x EXCEPT !.c.rreq = NULL, !.c.io_open = FALSE, !.c.fd = fnum]

async_open_recv(x, ok, fnum) ==
    [x EXCEPT !.c.rreq = NULL, !.c.io_open = FALSE,
              !.c.fd = IF ok THEN fnum ELSE @]

\* Mutant: the answered request is not forgotten.
async_read_recv_remembers(x) == x

async_read_recv(x) == [x EXCEPT !.c.rreq = NULL]

\* Mutant: the block is freed after every write.
async_write_recv_frees(x, ok) ==
    [x EXCEPT !.c.wreq = NULL, !.c.io_write = NULL]

async_write_recv(x, ok) ==
    LET y == [x EXCEPT !.c.wreq = NULL, !.c.io_write = IF ok THEN @ ELSE NULL]
    IN  IF ok /\ y.c.wq # <<>>
        THEN [async_write(y, Head(y.c.wq)) EXCEPT !.c.wq = Tail(@)]
        ELSE y

async_close_recv(x) ==
    [x EXCEPT !.c.io_close = FALSE, !.c.io_open = FALSE,
              !.c.io_read = NULL, !.c.io_write = NULL]

\* smb_raw_*_recv store the results of a successful reply through the
\* parameter block of the context: with no block that is a NULL dereference.
NullDeref(c, kind) ==
    \/ kind = "open" /\ ~c.io_open
    \/ kind = "read" /\ c.io_read = NULL
    \/ kind = "write" /\ c.io_write = NULL
=============================================================================
