----------------------------- MODULE AsyncPipe -----------------------------
(***************************************************************************)
(* One async_context with its user and the SMB server it talks to.         *)
(*                                                                         *)
(* User is the owner of the context in winexe.c, reduced to the calls its  *)
(* callbacks make into async.c:                                            *)
(*   "ctrl"  the control pipe: on_ctrl_pipe_*, timer, exit_program;        *)
(*   "io"    the stdin/stdout pipe: on_io_pipe_*, on_stdin_read_event      *)
(*           (the stderr pipe is the same user without the stdin events).  *)
(* What the control pipe says is a free choice here; WinexeSession gives   *)
(* it its meaning.                                                         *)
(*                                                                         *)
(* The server (external) handles the packets of a connection in order, may *)
(* park a read of an empty pipe or a write to a full one, fails what is    *)
(* parked on a handle when the handle is closed or the other end of the    *)
(* pipe disconnects, and answers in the order it completes requests.  The  *)
(* connection may die at any time.                                         *)
(***************************************************************************)
EXTENDS Async, FiniteSets

CONSTANTS User,      \* "ctrl" or "io"
          Fnum,      \* file handles the server hands out
          MaxMid     \* bound on the requests of a behaviour

ASSUME UserAssumption == User \in {"ctrl", "io"}
ASSUME FnumAssumption == Fnum \subseteq Nat \ {0}
ASSUME MaxMidAssumption == MaxMid \in Nat

VARIABLES ac,        \* the async_context
          transport, \* the SMB transport
          user,      \* the user's state, see InitUser
          srv,       \* server: open and broken handles, parked requests
          replies    \* replies on their way to the client

vars == <<ac, transport, user, srv, replies>>

Statuses == {"OK", "OBJECT_NAME_NOT_FOUND", "ERROR"}

(***************************************************************************)
(* state is winexe_context.state with STATE_GETTING_VERSION and            *)
(* STATE_RUNNING merged into "OPEN"; activated is the static variable of   *)
(* on_ctrl_pipe_error; sources counts the event sources that write: the    *)
(* armed abort timers of the control pipe, the stdin handler of the I/O    *)
(* pipe.  fault: the process died in a NULL dereference.                   *)
(***************************************************************************)
InitUser == [state |-> "OPENING", activated |-> FALSE, sources |-> 0,
             exited |-> FALSE, fault |-> FALSE]

View == [c |-> ac, t |-> transport, u |-> user]

Become(x) == ac' = x.c /\ transport' = x.t /\ user' = x.u

exit_program(x) == [x EXCEPT !.u.exited = TRUE]

-----------------------------------------------------------------------------
(***************************************************************************)
(* The callbacks.  A callback whose outcome depends on something outside   *)
(* (what was read, whether svc_install works) yields a set of outcomes.    *)
(***************************************************************************)

cb_open(x) ==
    IF User = "ctrl"
    THEN LET y == [x EXCEPT !.u.state = "OPEN", !.u.sources = @ + 1]
         IN  async_write(y, <<"get version">>)
    ELSE [x EXCEPT !.u.state = "OPEN", !.u.sources = @ + 1]

close_for_reinstall(x) == [async_close(x) EXCEPT !.u.state = "CLOSING"]

cb_read(x) ==
    IF User = "ctrl"
    THEN {x, async_write(x, <<"run">>), close_for_reinstall(x)}
    ELSE {x}

\* Mutant: the error of a read is ignored in every state.
on_ctrl_pipe_error_ignores_read(x, func, status) ==
    IF ~x.u.activated /\ status = "OBJECT_NAME_NOT_FOUND"
    THEN {exit_program(x), async_open([x EXCEPT !.u.activated = TRUE])}
    ELSE IF func = "read" THEN {x} ELSE {exit_program(x)}

on_ctrl_pipe_error(x, func, status) ==
    IF ~x.u.activated /\ status = "OBJECT_NAME_NOT_FOUND"
    THEN {exit_program(x), async_open([x EXCEPT !.u.activated = TRUE])}
    ELSE IF func = "read" /\ x.u.state = "OPENING"
    THEN {x}
    ELSE {exit_program(x)}

cb_error(x, func, status) ==
    IF User = "ctrl" THEN on_ctrl_pipe_error(x, func, status)
                     ELSE {async_close(x)}

cb_close(x) ==
    IF User = "ctrl" /\ x.u.state = "CLOSING"
    THEN async_open([x EXCEPT !.u.state = "OPENING"])
    ELSE x

-----------------------------------------------------------------------------
\* req->async.fn(req) for the four kinds of request: the handler of async.c
\* with the callback it calls, as the set of possible views afterwards.
OpenReply(x, status, fnum) ==
    LET y == async_open_recv(x, status = "OK", fnum)
    IN  IF status = "OK" THEN {async_read(cb_open(y))} ELSE cb_error(y, "open", status)

\* Mutant: no return after cb_error.
ReadReply_falls_through(x, status) ==
    LET y == async_read_recv(x)
    IN  {async_read(z) : z \in IF status = "OK" THEN cb_read(y)
                                                ELSE cb_error(y, "read", status)}

ReadReply(x, status) ==
    LET y == async_read_recv(x)
    IN  IF status = "OK" THEN {async_read(z) : z \in cb_read(y)}
                         ELSE cb_error(y, "read", status)

WriteReply(x, status) ==
    LET y == async_write_recv(x, status = "OK")
    IN  IF status = "OK" THEN {y} ELSE cb_error(y, "write", status)

CloseReply(x) == {cb_close(async_close_recv(x))}

HandleReply(x, kind, status, fnum) ==
    IF status = "OK" /\ NullDeref(x.c, kind)
    THEN {[x EXCEPT !.u.fault = TRUE]}
    ELSE CASE kind = "open" -> OpenReply(x, status, fnum)
           [] kind = "read" -> ReadReply(x, status)
           [] kind = "write" -> WriteReply(x, status)
           [] kind = "close" -> CloseReply(x)

\* The request leaves pending_recv and its handler runs.
Complete(r, status, fnum) ==
    LET x == [View EXCEPT !.t.pending_recv = @ \ {r}]
    IN  \E y \in HandleReply(x, r.kind, status, fnum) : Become(y)

\* Mutant: pending_recv is worked off in the order of sending.
Oldest(r) == \A r2 \in transport.pending_recv : r.mid <= r2.mid

Newest(r) == \A r2 \in transport.pending_recv : r2.mid <= r.mid

\* The event loop is ready for the next event: smbcli_transport_dead does not
\* return to it before pending_recv is empty.
Ready ==
    /\ ~user.exited /\ ~user.fault
    /\ transport.dead => transport.pending_recv = {}

smbcli_transport_finish_recv ==
    /\ Ready
    /\ replies # <<>>
    /\ LET p == Head(replies)
           matching == {r \in transport.pending_recv : r.mid = p.mid}
       IN  IF matching = {}
           THEN UNCHANGED <<ac, transport, user>>
           ELSE \E r \in matching : Complete(r, p.status, p.fnum)
    /\ replies' = Tail(replies)
    /\ UNCHANGED srv

smbcli_timeout_handler ==
    /\ Ready
    /\ \E r \in transport.pending_recv : r.timed /\ Complete(r, "ERROR", NULL)
    /\ UNCHANGED <<srv, replies>>

smbcli_sock_dead ==
    /\ Ready
    /\ ~transport.dead
    /\ transport' = [transport EXCEPT !.dead = TRUE, !.wire = <<>>]
    /\ replies' = <<>>
    /\ UNCHANGED <<ac, user, srv>>

\* One round of the loop of smbcli_transport_dead.
smbcli_transport_dead ==
    /\ ~user.exited /\ ~user.fault
    /\ transport.dead
    /\ \E r \in transport.pending_recv : Newest(r) /\ Complete(r, "ERROR", NULL)
    /\ UNCHANGED <<srv, replies>>

\* timer() with abort_requested: the timer is not armed again.
timer ==
    /\ User = "ctrl"
    /\ Ready
    /\ user.sources > 0
    /\ transport.next_mid <= MaxMid
    /\ Become(async_write([View EXCEPT !.u.sources = @ - 1], <<"abort">>))
    /\ UNCHANGED <<srv, replies>>

on_stdin_read_event ==
    /\ User = "io"
    /\ Ready
    /\ user.sources > 0
    /\ transport.next_mid <= MaxMid
    /\ Become(async_write(View, <<"input">>))
    /\ UNCHANGED <<srv, replies>>

-----------------------------------------------------------------------------
(***************************************************************************)
(* The server.                                                             *)
(***************************************************************************)

NoHandle == 0

Reply(r, status, fnum) == [mid |-> r.mid, status |-> status, fnum |-> fnum]

Answer(r, status) == replies' = Append(replies, Reply(r, status, NoHandle))

Usable(f) == f \in srv.open \ srv.broken

Parked(kind, f) == {q \in srv.parked : q.kind = kind /\ q.fnum = f}

ServerOpen(r) ==
    \/ \E f \in Fnum \ srv.open :
          /\ srv' = [srv EXCEPT !.open = @ \cup {f}]
          /\ replies' = Append(replies, Reply(r, "OK", f))
    \/ \E s \in Statuses \ {"OK"} : Answer(r, s) /\ UNCHANGED srv

ServerRead(r) ==
    IF Usable(r.fnum)
    THEN srv' = [srv EXCEPT !.parked = @ \cup {r}] /\ UNCHANGED replies
    ELSE Answer(r, "ERROR") /\ UNCHANGED srv

ServerWrite(r) ==
    IF Usable(r.fnum)
    THEN \/ Parked("write", r.fnum) = {} /\ Answer(r, "OK") /\ UNCHANGED srv
         \/ srv' = [srv EXCEPT !.parked = @ \cup {r}] /\ UNCHANGED replies
    ELSE Answer(r, "ERROR") /\ UNCHANGED srv

\* Closing waits for what is parked on the handle to be cancelled.
ServerClose(r) ==
    /\ \A q \in srv.parked : q.fnum # r.fnum
    /\ IF r.fnum \in srv.open
       THEN /\ srv' = [srv EXCEPT !.open = @ \ {r.fnum}, !.broken = @ \ {r.fnum}]
            /\ Answer(r, "OK")
       ELSE Answer(r, "ERROR") /\ UNCHANGED srv

ServerStep ==
    /\ transport.wire # <<>>
    /\ LET r == Head(transport.wire)
       IN  \/ r.kind = "open" /\ ServerOpen(r)
           \/ r.kind = "read" /\ ServerRead(r)
           \/ r.kind = "write" /\ ServerWrite(r)
           \/ r.kind = "close" /\ ServerClose(r)
    /\ transport' = [transport EXCEPT !.wire = Tail(@)]
    /\ UNCHANGED <<ac, user>>

\* A parked request fails: its pipe is disconnected or about to be closed.
ServerCancel ==
    /\ ~transport.dead
    /\ \E q \in srv.parked :
          /\ \/ q.fnum \in srv.broken
             \/ /\ transport.wire # <<>>
                /\ Head(transport.wire).kind = "close"
                /\ Head(transport.wire).fnum = q.fnum
          /\ srv' = [srv EXCEPT !.parked = @ \ {q}]
          /\ Answer(q, "ERROR")
    /\ UNCHANGED <<ac, transport, user>>

\* Data for a parked read, room for a parked write: first come, first served.
ServerUnpark ==
    /\ ~transport.dead
    /\ transport.next_mid <= MaxMid
    /\ \E q \in srv.parked :
          /\ q.fnum \notin srv.broken
          /\ \A q2 \in Parked(q.kind, q.fnum) : q.mid <= q2.mid
          /\ srv' = [srv EXCEPT !.parked = @ \ {q}]
          /\ Answer(q, "OK")
    /\ UNCHANGED <<ac, transport, user>>

\* The service disconnects its end of the pipe.
ServerDisconnect ==
    /\ ~transport.dead
    /\ \E f \in srv.open \ srv.broken : srv' = [srv EXCEPT !.broken = @ \cup {f}]
    /\ UNCHANGED <<ac, transport, user, replies>>

-----------------------------------------------------------------------------
\* The state after main has called async_open, for the control pipe, or after
\* on_ctrl_pipe_read has, for the I/O pipe: by then the first read of the
\* control pipe has switched the timeouts off.
Opened ==
    LET t == [smbcli_transport_init EXCEPT !.request_timeout = User = "ctrl"]
    IN  async_open([c |-> async_context(User), t |-> t, u |-> InitUser])

Init ==
    /\ ac = Opened.c
    /\ transport = Opened.t
    /\ user = Opened.u
    /\ srv = [open |-> {}, broken |-> {}, parked |-> {}]
    /\ replies = <<>>

Next ==
    \/ smbcli_transport_finish_recv
    \/ smbcli_timeout_handler
    \/ smbcli_sock_dead
    \/ smbcli_transport_dead
    \/ timer
    \/ on_stdin_read_event
    \/ ServerStep
    \/ ServerCancel
    \/ ServerUnpark
    \/ ServerDisconnect

Spec == Init /\ [][Next]_vars

\* The event loop gets round to a readable socket, the loop of
\* smbcli_transport_dead runs to its end, and the server handles what it gets.
Fairness ==
    /\ WF_vars(smbcli_transport_finish_recv)
    /\ WF_vars(smbcli_transport_dead)
    /\ WF_vars(ServerStep)
    /\ WF_vars(ServerCancel)

FairSpec == Spec /\ Fairness

-----------------------------------------------------------------------------
Lines == {"get version", "run", "abort", "input"}

Requests ==
    [mid : Nat, kind : Kinds, pipe : {User}, fnum : Int, data : Seq(Lines),
     timed : BOOLEAN]

Contexts ==
    [name : {User}, fd : Nat,
     io_open : BOOLEAN, io_read : Int, io_write : Int, io_close : BOOLEAN,
     rreq : Int, wreq : {NULL}, wq : {<<>>}]

Transports ==
    [next_mid : Nat, pending_recv : SUBSET Requests, wire : Seq(Requests),
     request_timeout : BOOLEAN, dead : BOOLEAN, orphans : SUBSET Nat]

Users ==
    [state : {"OPENING", "OPEN", "CLOSING"}, activated : BOOLEAN, sources : Nat,
     exited : BOOLEAN, fault : BOOLEAN]

TypeOK ==
    /\ ac \in Contexts
    /\ transport \in Transports
    /\ user \in Users
    /\ srv \in [open : SUBSET Fnum, broken : SUBSET Fnum, parked : SUBSET Requests]
    /\ replies \in Seq([mid : Nat, status : Statuses, fnum : Nat])

Pending(kind) == {r \in transport.pending_recv : r.kind = kind}

\* async_close dereferences c->rreq to destroy the request: whenever the
\* pointer is set in a running program it names a request that has not been
\* freed, although replies to earlier requests reset the pointer too.
NoDanglingRequest ==
    ~user.fault /\ ac.rreq # NULL =>
        ac.rreq \in {r.mid : r \in transport.pending_recv} \cup transport.orphans

\* A successful reply always finds the parameter block it is stored through,
\* although blocks are freed on errors and on close while requests overlap.
NoNullDeref == ~user.fault

\* c->buffer is the target of at most one outstanding read, although
\* async_read_recv issues a read after the callback has closed the pipe; and
\* once the pipe is open (again) it names the handle of this opening, although
\* the handle is cached in io_read.
OneCurrentRead ==
    /\ Cardinality(Pending("read")) <= 1
    /\ user.state = "OPEN" => \A r \in Pending("read") : r.fnum = ac.fd

\* When the connection dies the control pipe's user exits: no callback run by
\* smbcli_transport_dead leaves the program waiting for a request that was
\* sent on the dead transport.
ExitOnDeadTransport ==
    User = "ctrl" /\ transport.dead /\ transport.pending_recv = {} => user.exited

\* winexe/changes, 0.5: "async_write serialized - now server should receive
\* input in correct order": no write is sent while another is outstanding.
WritesSerialized == Cardinality(Pending("write")) <= 1

\* A pipe the service has disconnected is given up: its handle is closed, or
\* the program exits (or the connection is gone), although on_ctrl_pipe_error
\* ignores the error of a read that is left over from before a reinstallation.
DisconnectHandled ==
    \A f \in Fnum : f \in srv.broken ~>
        (f \notin srv.broken \/ user.exited \/ transport.dead)
=============================================================================
