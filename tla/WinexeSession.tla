--------------------------- MODULE WinexeSession ---------------------------
(***************************************************************************)
(* One run of the winexe client (winexe/winexe.c on top of async.c)        *)
(* against the service winexesvc (winexesvc/winexesvc.c) over SMB named    *)
(* pipes: the control pipe protocol (get version / set / run / abort,      *)
(* version / error / std_io_err / return_code), the stdin/stdout and       *)
(* stderr pipes, reinstallation of an outdated service, and abort.         *)
(*                                                                         *)
(* Concurrency: the client is one event loop; on the host run the SMB      *)
(* server, the accept loop of the service, one thread per control          *)
(* connection, and the remote process.  The connection, the service and    *)
(* the client may die at any time.                                         *)
(***************************************************************************)
EXTENDS Async

CONSTANTS Setup,     \* lines sent before "run": <<>> or <<"set">>
          Versions,  \* versions an installed service may have; 0: before 0.74
          Scenarios, \* what the environment may do, see Scenario
          MaxConn,   \* bound: control connections of a behaviour
          Uninstall, \* the --uninstall option
          MaxIn      \* bound: reads of the client's standard input

\* One environment for a whole behaviour: the kinds of failure that may happen
\* in it, the control connections it has room for, and how many messages the
\* process writes.
Scenario ==
    [faults : SUBSET {"timeout", "disconnect", "signal", "service", "windows"},
     conns : 1 .. MaxConn, out : Nat]

ASSUME SetupAssumption == Setup \in {<<>>, <<"set">>}
ASSUME VersionsAssumption == Versions \subseteq Nat
ASSUME ScenariosAssumption == Scenarios \subseteq Scenario
ASSUME UninstallAssumption == Uninstall \in BOOLEAN
ASSUME BoundsAssumption == MaxConn \in Nat \ {0} /\ MaxIn \in Nat

VARIABLES ac,        \* the three async_contexts of winexe_context
          transport, \* the SMB transport they share
          user,      \* winexe_context and the globals of winexe.c
          host,      \* the Windows host: service, pipes, threads, process
          smb,       \* the SMB server: open handles, parked reads
          replies    \* replies on their way to the client

vars == <<ac, transport, user, host, smb, replies>>

VERSION == 90

\* Mutant: any difference of the versions counts.
SameVersion_exact(v) == v = VERSION

SameVersion(v) == v \div 10 = VERSION \div 10

Conn == 1 .. MaxConn
Name == {"ctrl", "io", "err"}
Ctrl(k) == <<"ctrl", k>>
IO == <<"io", 0>>
ERR == <<"err", 0>>
PipeId == {Ctrl(k) : k \in Conn} \cup {IO, ERR}
NoPipe == <<"none", 0>>
Fnum == 1 .. 4
ProcessCode == 7          \* exit code of a process that ends by itself
AbortCode == 4660         \* 0x1234, cmd_run after TerminateProcess

Msg(cmd, arg) == [cmd |-> cmd, arg |-> arg]

-----------------------------------------------------------------------------
(***************************************************************************)
(* The client.  A view x = [ac, t, u, h] is passed through the callbacks   *)
(* as in module Async; h is there because the callbacks (un)install the    *)
(* service.                                                                *)
(***************************************************************************)

View == [ac |-> ac, t |-> transport, u |-> user, h |-> host]

Become(x) == ac' = x.ac /\ transport' = x.t /\ user' = x.u /\ host' = x.h

\* Apply an operation of async.c to the context of one pipe.
With(x, p, Op(_)) ==
    LET y == Op([c |-> x.ac[p], t |-> x.t])
    IN  [x EXCEPT !.ac[p] = y.c, !.t = y.t]

Write(x, p, lines) == With(x, p, LAMBDA v : async_write(v, lines))

\* winexe_context.  activated, abort_requested: static and global variables;
\* handler: catch_alarm is installed; timers: armed timed events; stdin: reads
\* of stdin left, once on_io_pipe_open has registered its handler; got: what
\* was written to stdout and stderr; aborted: "abort" was sent to a pipe whose
\* "run" had been sent.
InitUser ==
    [state |-> "OPENING", activated |-> FALSE, return_code |-> 99,
     abort_requested |-> FALSE, handler |-> FALSE, timers |-> 0,
     stdin |-> 0, got |-> [io |-> <<>>, err |-> <<>>], aborted |-> FALSE,
     exited |-> FALSE, killed |-> FALSE, fault |-> FALSE]

(***************************************************************************)
(* svc_install and svc_uninstall by their outcome on the host.  A stopped  *)
(* service takes its pipes and threads along, not the remote process.      *)
(***************************************************************************)
StopService(h) ==
    [h EXCEPT !.svc.running = FALSE, !.svc.listening = FALSE,
              !.pipe = [p \in PipeId |->
                           [h.pipe[p] EXCEPT !.st = IF @ = "none" THEN @ ELSE "gone"]],
              !.th = [k \in Conn |->
                           [h.th[k] EXCEPT !.pc = IF @ = "none" THEN @ ELSE "done"]]]

StartService(h, ver) ==
    [h EXCEPT !.svc = [running |-> TRUE, ver |-> ver, loop |-> TRUE, listening |-> FALSE]]

\* The process is gone and its memory with it; what it has put on the wire
\* may still reach the server.
Exit(x) ==
    [x EXCEPT !.u.exited = TRUE, !.u.timers = 0, !.u.stdin = 0,
              !.ac = [p \in Name |-> async_context(p)],
              !.t.pending_recv = {}, !.t.orphans = {}]

\* (If svc_uninstall fails the service stays, as without --uninstall.)
exit_program(x) ==
    LET y == Exit(x)
    IN  [y EXCEPT !.h = IF Uninstall THEN StopService(@) ELSE @]

\* The outcomes of success: the image that is started may be the client's or
\* an older one that was left on the host.  A service that runs is not started
\* again: either the installation fails (it is already running) or, with
\* --interactive, it is left as it is.
svc_install(h) ==
    IF h.svc.running THEN {h} ELSE {StartService(h, v) : v \in Versions}

\* The service is stopped and deleted, or something fails and it stays.
svc_uninstall(h) == {StopService(h)} \cup {g \in {h} : "windows" \in h.env.faults}

\* on_ctrl_pipe_error: a failed installation ends the program.
InstallAndOpen(x) ==
    LET y == [x EXCEPT !.u.activated = TRUE]
    IN  {exit_program([x EXCEPT !.u.return_code = 1])} \cup
        {With([y EXCEPT !.h = h], "ctrl", async_open) : h \in svc_install(x.h)}

\* Mutant: read errors are ignored in every state.
on_ctrl_pipe_error_deaf(x, func, status) ==
    IF ~x.u.activated /\ status = "OBJECT_NAME_NOT_FOUND"
    THEN InstallAndOpen(x)
    ELSE IF func = "open"
    THEN {exit_program([x EXCEPT !.u.return_code = 1])}
    ELSE IF func = "read" THEN {x} ELSE {exit_program(x)}

on_ctrl_pipe_error(x, func, status) ==
    IF ~x.u.activated /\ status = "OBJECT_NAME_NOT_FOUND"
    THEN InstallAndOpen(x)
    ELSE IF func = "open"
    THEN {exit_program([x EXCEPT !.u.return_code = 1])}
    ELSE IF func = "read" /\ x.u.state = "OPENING"
    THEN {x}
    ELSE {exit_program(x)}

on_ctrl_pipe_open(x) ==
    LET y == [x EXCEPT !.u.state = "GETTING_VERSION", !.u.handler = TRUE,
                       !.u.timers = @ + 1]
    IN  Write(y, "ctrl", <<"get version">>)

close_for_reinstall(x) ==
    [With(x, "ctrl", async_close) EXCEPT !.u.state = "CLOSING_FOR_REINSTALL"]

OpenPipe(x, p) == With([x EXCEPT !.ac[p] = async_context(p)], p, async_open)

on_ctrl_pipe_read(x, m) ==
    CASE m.cmd = "std_io_err" -> OpenPipe(OpenPipe(x, "io"), "err")
      [] m.cmd = "return_code" -> [x EXCEPT !.u.return_code = m.arg]
      [] m.cmd = "version" ->
            IF SameVersion(m.arg)
            THEN [Write(x, "ctrl", Setup \o <<"run">>) EXCEPT !.u.state = "RUNNING"]
            ELSE close_for_reinstall(x)
      [] m.cmd = "error" ->
            IF x.u.state = "GETTING_VERSION" THEN close_for_reinstall(x) ELSE x

\* Results of svc_uninstall and svc_install are ignored: afterwards a new
\* service of some version runs, the old one still does, or none.
on_ctrl_pipe_close(x) ==
    IF x.u.state # "CLOSING_FOR_REINSTALL" THEN {x}
    ELSE LET left == svc_uninstall(x.h)
             y == [x EXCEPT !.u.state = "OPENING"]
         IN  {With([y EXCEPT !.h = h], "ctrl", async_open) :
                 h \in left \cup UNION {svc_install(g) : g \in left}}

on_io_pipe_open(x) == [x EXCEPT !.u.stdin = MaxIn]

cb_open(x, p) ==
    CASE p = "ctrl" -> on_ctrl_pipe_open(x)
      [] p = "io" -> on_io_pipe_open(x)
      [] p = "err" -> x

cb_read(x, p, m) ==
    IF p = "ctrl" THEN on_ctrl_pipe_read(x, m)
                  ELSE [x EXCEPT !.u.got[p] = Append(@, m.arg)]

cb_error(x, p, func, status) ==
    IF p = "ctrl" THEN on_ctrl_pipe_error(x, func, status)
                  ELSE {With(x, p, async_close)}

cb_close(x, p) == IF p = "ctrl" THEN on_ctrl_pipe_close(x) ELSE {x}

\* The handlers of async.c with the callbacks they call, each as the set of
\* possible views afterwards.  (y and z range over singletons: TLC evaluates
\* a bound value once, an argument at every use.)
OpenReply(x, p, status, fnum) ==
    LET ok == status = "OK"
        pre == {With(x, p, LAMBDA v : async_open_recv(v, ok, fnum))}
    IN  IF ok THEN {With(z, p, async_read) : z \in {cb_open(y, p) : y \in pre}}
              ELSE UNION {cb_error(y, p, "open", status) : y \in pre}

ReadReply(x, p, status, m) ==
    LET pre == {With(x, p, async_read_recv)}
    IN  IF status = "OK" THEN {With(z, p, async_read) : z \in {cb_read(y, p, m) : y \in pre}}
                         ELSE UNION {cb_error(y, p, "read", status) : y \in pre}

WriteReply(x, p, status) ==
    LET ok == status = "OK"
        pre == {With(x, p, LAMBDA v : async_write_recv(v, ok))}
    IN  IF ok THEN pre ELSE UNION {cb_error(y, p, "write", status) : y \in pre}

CloseReply(x, p) == UNION {cb_close(y, p) : y \in {With(x, p, async_close_recv)}}

\* req->async.fn(req)
HandleReply(x, r, status, fnum, m) ==
    IF status = "OK" /\ NullDeref(x.ac[r.pipe], r.kind)
    THEN {[x EXCEPT !.u.fault = TRUE]}
    ELSE CASE r.kind = "open" -> OpenReply(x, r.pipe, status, fnum)
           [] r.kind = "read" -> ReadReply(x, r.pipe, status, m)
           [] r.kind = "write" -> WriteReply(x, r.pipe, status)
           [] r.kind = "close" -> CloseReply(x, r.pipe)

Complete(r, status, fnum, m) ==
    \E x \in {[View EXCEPT !.t.pending_recv = @ \ {r}]} :
        \E y \in HandleReply(x, r, status, fnum, m) : Become(y)

NoMsg == Msg("none", 0)

Alive == ~user.exited /\ ~user.fault
Ready == Alive /\ (transport.dead => transport.pending_recv = {})

smbcli_transport_finish_recv ==
    /\ Ready
    /\ replies # <<>>
    /\ LET p == Head(replies)
           matching == {r \in transport.pending_recv : r.mid = p.mid}
       IN  IF matching = {}
           THEN UNCHANGED <<ac, transport, user, host>>
           ELSE \E r \in matching : Complete(r, p.status, p.fnum, p.msg)
    /\ replies' = IF user'.exited THEN <<>> ELSE Tail(replies)
    /\ UNCHANGED smb

smbcli_timeout_handler ==
    /\ "timeout" \in host.env.faults
    /\ Ready
    /\ \E r \in transport.pending_recv :
          r.timed /\ Complete(r, "ERROR", NULL, NoMsg)
    /\ replies' = IF user'.exited THEN <<>> ELSE replies
    /\ UNCHANGED smb

smbcli_sock_dead ==
    /\ "disconnect" \in host.env.faults
    /\ Ready
    /\ ~transport.dead
    /\ transport' = [transport EXCEPT !.dead = TRUE, !.wire = <<>>]
    /\ replies' = <<>>
    /\ UNCHANGED <<ac, user, host, smb>>

smbcli_transport_dead ==
    /\ Alive
    /\ transport.dead
    /\ \E r \in transport.pending_recv :
          /\ \A r2 \in transport.pending_recv : r2.mid <= r.mid
          /\ Complete(r, "ERROR", NULL, NoMsg)
    /\ UNCHANGED <<smb, replies>>

\* SIGINT or SIGTERM: catch_alarm when it is installed and not yet used up
\* (it resets the disposition), otherwise the default action.
signal ==
    /\ "signal" \in host.env.faults
    /\ Alive
    /\ IF user.handler
       THEN /\ Become([View EXCEPT !.u.abort_requested = TRUE, !.u.handler = FALSE])
            /\ UNCHANGED replies
       ELSE /\ Become([Exit(View) EXCEPT !.u.killed = TRUE])
            /\ replies' = <<>>
    /\ UNCHANGED smb

\* timer() once abort_requested is set; before, it only arms itself again.
timer ==
    /\ Ready
    /\ user.abort_requested
    /\ user.timers > 0
    /\ Become(Write([View EXCEPT !.u.timers = @ - 1,
                                 !.u.aborted = @ \/ user.state = "RUNNING"],
                    "ctrl", <<"abort">>))
    /\ UNCHANGED <<smb, replies>>

on_stdin_read_event ==
    /\ Ready
    /\ user.stdin > 0
    /\ Become(Write([View EXCEPT !.u.stdin = @ - 1], "io", <<"input">>))
    /\ UNCHANGED <<smb, replies>>

Client ==
    \/ smbcli_transport_finish_recv
    \/ smbcli_timeout_handler
    \/ smbcli_sock_dead
    \/ smbcli_transport_dead
    \/ signal
    \/ timer
    \/ on_stdin_read_event

-----------------------------------------------------------------------------
(***************************************************************************)
(* The SMB server (external): handles packets in order, parks reads of     *)
(* empty pipes, fails requests on handles that are closed or whose pipe    *)
(* the service has left.                                                   *)
(* A pipe is "none" (not created), "listening", "connected", "closed" (by  *)
(* the client), "disconnected" (DisconnectNamedPipe) or "gone" (the        *)
(* service died).  c2s and s2c are the lines in its two buffers.           *)
(***************************************************************************)

Reply(r, status, fnum, m) ==
    [mid |-> r.mid, status |-> status, fnum |-> fnum, msg |-> m]

Connected(p) == host.pipe[p].st = "connected"

\* Replies to a client that is gone are lost.
Send(ps) == replies' = IF user.exited THEN <<>> ELSE replies \o ps

Answer(r, status, m) == Send(<<Reply(r, status, NULL, m)>>)

\* The instance an open request of this name would get, if any.
Listening(name) ==
    IF name = "ctrl"
    THEN {Ctrl(k) : k \in {j \in Conn : j = host.nconn + 1 /\ host.svc.listening}}
    ELSE {p \in {IO, ERR} : p[1] = name /\ host.pipe[p].st = "listening"}

\* Handles of the control pipe may be reused by the server or not.
FnumFor(name) == CASE name = "ctrl" -> {1, 2} [] name = "io" -> {3} [] name = "err" -> {4}

Exists(name) ==
    \E p \in PipeId :
        p[1] = name /\ host.pipe[p].st \in {"listening", "connected", "closed"}

\* An opened control pipe wakes the accept loop (th "accepted").
SmbOpen(r) ==
    \/ \E p \in Listening(r.pipe), f \in FnumFor(r.pipe) :
          /\ smb.fid[f] = NoPipe
          /\ smb' = [smb EXCEPT !.fid[f] = p]
          /\ host' = IF r.pipe = "ctrl"
                     THEN [host EXCEPT !.nconn = @ + 1, !.svc.listening = FALSE,
                                       !.pipe[p].st = "connected",
                                       !.th[p[2]].pc = "accepted"]
                     ELSE [host EXCEPT !.pipe[p].st = "connected"]
          /\ Send(<<Reply(r, "OK", f, NoMsg)>>)
    \/ /\ Listening(r.pipe) = {}
       /\ Answer(r, IF Exists(r.pipe) THEN "ERROR" ELSE "OBJECT_NAME_NOT_FOUND", NoMsg)
       /\ UNCHANGED <<host, smb>>

\* The pipe behind the handle of a request; NoPipe if it is not open.
Target(r) == IF r.fnum \in Fnum THEN smb.fid[r.fnum] ELSE NoPipe

SmbRead(r) ==
    /\ IF Target(r) # NoPipe
       THEN smb' = [smb EXCEPT !.parked = @ \cup {r}] /\ UNCHANGED replies
       ELSE Answer(r, "ERROR", NoMsg) /\ UNCHANGED smb
    /\ UNCHANGED host

SmbWrite(r) ==
    /\ IF Target(r) # NoPipe /\ Connected(Target(r))
       THEN /\ host' = [host EXCEPT !.pipe[Target(r)].c2s = @ \o r.data]
            /\ Answer(r, "OK", NoMsg)
       ELSE Answer(r, "ERROR", NoMsg) /\ UNCHANGED host
    /\ UNCHANGED smb

\* The client's end of a pipe is closed: the service sees a broken pipe.
CloseEnd(pipe) ==
    IF pipe.st = "connected" THEN [pipe EXCEPT !.st = "closed", !.s2c = <<>>] ELSE pipe

\* Closing waits for the reads parked on the handle to be cancelled.
SmbClose(r) ==
    /\ \A q \in smb.parked : q.fnum # r.fnum
    /\ IF Target(r) # NoPipe
       THEN /\ host' = [host EXCEPT !.pipe[Target(r)] = CloseEnd(@)]
            /\ smb' = [smb EXCEPT !.fid[r.fnum] = NoPipe]
            /\ Answer(r, "OK", NoMsg)
       ELSE Answer(r, "ERROR", NoMsg) /\ UNCHANGED <<host, smb>>

SmbRequest ==
    /\ transport.wire # <<>>
    /\ LET r == Head(transport.wire)
       IN  \/ r.kind = "open" /\ SmbOpen(r)
           \/ r.kind = "read" /\ SmbRead(r)
           \/ r.kind = "write" /\ SmbWrite(r)
           \/ r.kind = "close" /\ SmbClose(r)
    /\ transport' = [transport EXCEPT !.wire = Tail(@)]
    /\ UNCHANGED <<ac, user>>

\* The next request closes this handle.
ClosingNext(f) ==
    /\ transport.wire # <<>>
    /\ Head(transport.wire).kind = "close"
    /\ Head(transport.wire).fnum = f

\* A parked read gets data, or the news that there will be none.
SmbReadDone ==
    /\ Alive /\ ~transport.dead
    /\ \E r \in smb.parked :
          LET p == Target(r)
              s2c == host.pipe[p].s2c
          IN  /\ smb' = [smb EXCEPT !.parked = @ \ {r}]
              /\ \/ /\ s2c # <<>>
                    /\ host' = [host EXCEPT !.pipe[p].s2c = Tail(@)]
                    /\ Answer(r, "OK", Head(s2c))
                 \/ /\ (s2c = <<>> /\ ~Connected(p)) \/ ClosingNext(r.fnum)
                    /\ Answer(r, "ERROR", NoMsg)
                    /\ UNCHANGED host
    /\ UNCHANGED <<ac, transport, user>>

\* The client is gone: the server closes the handles of its session.
SmbSessionDown ==
    /\ ~Alive \/ transport.dead
    /\ \E f \in Fnum : smb.fid[f] # NoPipe
    /\ host' = [host EXCEPT !.pipe = [p \in PipeId |->
                   IF \E f \in Fnum : smb.fid[f] = p THEN CloseEnd(host.pipe[p])
                                                     ELSE host.pipe[p]]]
    /\ smb' = [fid |-> [f \in Fnum |-> NoPipe], parked |-> {}]
    /\ transport' = [transport EXCEPT !.wire = <<>>]
    /\ UNCHANGED <<ac, user, replies>>

SmbServer == SmbRequest \/ SmbReadDone \/ SmbSessionDown

-----------------------------------------------------------------------------
(***************************************************************************)
(* The service.  server_loop accepts control connections; thread k runs    *)
(* handle_connection for connection k, th[k].pc is the call it is at.      *)
(***************************************************************************)

HostOnly == UNCHANGED <<ac, transport, user, smb, replies>>

\* A thread of a service that is up.
At(k, pc) == host.th[k].pc = pc

Goto(h, k, pc) == [h EXCEPT !.th[k].pc = pc]

\* CreateNamedPipe for the next connection; the service may have reported
\* RUNNING before this first happens.  If it fails the loop ends, the service does not.
server_loop_listen ==
    /\ host.svc.running /\ host.svc.loop /\ ~host.svc.listening
    /\ host.nconn < host.env.conns
    /\ \A k \in Conn : ~At(k, "accepted")
    /\ \/ host' = [host EXCEPT !.svc.listening = TRUE]
       \/ "windows" \in host.env.faults /\ host' = [host EXCEPT !.svc.loop = FALSE]
    /\ HostOnly

\* ConnectNamedPipe has returned: start a thread, or fail to.
server_loop_accept(k) ==
    /\ At(k, "accepted")
    /\ \/ host' = Goto(host, k, "hgets")
       \/ /\ "windows" \in host.env.faults
          /\ host' = [Goto(host, k, "done") EXCEPT !.pipe[Ctrl(k)].st = "disconnected"]
    /\ HostOnly

\* Mutant: no FlushFileBuffers.
hprintf_unflushed(h, k, m, next) ==
    [h EXCEPT !.pipe[Ctrl(k)].s2c = IF h.pipe[Ctrl(k)].st = "connected"
                                    THEN Append(@, m) ELSE @,
              !.th[k] = [pc |-> next, next |-> next]]

\* WriteFile and FlushFileBuffers: the thread goes on when the client has
\* read the message (or is gone).
hprintf(h, k, m, next) ==
    [h EXCEPT !.pipe[Ctrl(k)].s2c = IF h.pipe[Ctrl(k)].st = "connected"
                                    THEN Append(@, m) ELSE @,
              !.th[k] = [pc |-> "flush", next |-> next]]

Flushed(p) == host.pipe[p].s2c = <<>> \/ ~Connected(p)

hprintf_flushed(k) ==
    /\ At(k, "flush")
    /\ Flushed(Ctrl(k))
    /\ host' = Goto(host, k, host.th[k].next)
    /\ HostOnly

\* One round of the loop of handle_connection: hgets and the command.
handle_connection(k) ==
    LET p == Ctrl(k)
        line == Head(host.pipe[p].c2s)
        h == [host EXCEPT !.pipe[p].c2s = Tail(@)]
    IN  /\ At(k, "hgets")
        /\ IF host.pipe[p].c2s = <<>>
           THEN ~Connected(p) /\ host' = Goto(host, k, "finish")
           ELSE host' =
                CASE line = "get version" /\ h.svc.ver # 0 ->
                        hprintf(h, k, Msg("version", h.svc.ver), "hgets")
                  [] line = "set" -> h
                  [] line = "run" -> Goto(h, k, "get_token")
                  [] OTHER -> hprintf(h, k, Msg("error", 0), "hgets")
        /\ HostOnly

get_token(k) ==
    /\ At(k, "get_token")
    /\ \/ host' = Goto(host, k, "create_pipes")
       \/ "windows" \in host.env.faults /\ host' = hprintf(host, k, Msg("error", 0), "finish")
    /\ HostOnly

create_pipes(k) ==
    /\ At(k, "create_pipes")
    /\ \/ host' = hprintf([host EXCEPT !.pipe[IO].st = "listening",
                                       !.pipe[ERR].st = "listening"],
                          k, Msg("std_io_err", k), "connect_pio")
       \/ "windows" \in host.env.faults /\ host' = hprintf(host, k, Msg("error", 0), "finish")
    /\ HostOnly

\* DisconnectNamedPipe and CloseHandle drop what the client has not read.
Disconnect(pipe) == [pipe EXCEPT !.st = "disconnected", !.s2c = <<>>]

ClosePipes(h) == [h EXCEPT !.pipe[IO] = Disconnect(@), !.pipe[ERR] = Disconnect(@)]

\* ConnectNamedPipe blocks until the client has opened the pipe; it fails if
\* the client has already closed it again.
connect(k, pc, p, next) ==
    /\ At(k, pc)
    /\ host.pipe[p].st # "listening"
    /\ host' = IF Connected(p)
               THEN Goto(host, k, next)
               ELSE hprintf(host, k, Msg("error", 0), "disconnect")
    /\ HostOnly

connect_pio(k) == connect(k, "connect_pio", IO, "connect_perr")
connect_perr(k) == connect(k, "connect_perr", ERR, "create_process")

\* Mutant: ResetEvent after ReadFile: a read that completes at once is missed.
create_process_late_reset(k) ==
    LET p == Ctrl(k)
    IN  /\ At(k, "create_process")
        /\ \/ host' = [Goto(host, k, "wait") EXCEPT
                          !.proc = "running",
                          !.armed = host.pipe[p].c2s = <<>> /\ Connected(p)]
           \/ /\ "windows" \in host.env.faults
              /\ host' = hprintf(host, k, Msg("error", 0), "disconnect")
        /\ HostOnly

\* CreateProcessAsUser, then an overlapped read of one byte of the control
\* pipe.  A read that fails at once (the client is gone and left nothing)
\* never signals the event.
create_process(k) ==
    LET p == Ctrl(k)
    IN  /\ At(k, "create_process")
        /\ \/ host' = [Goto(host, k, "wait") EXCEPT
                          !.proc = "running",
                          !.armed = host.pipe[p].c2s # <<>> \/ Connected(p)]
           \/ /\ "windows" \in host.env.faults
              /\ host' = hprintf(host, k, Msg("error", 0), "disconnect")
        /\ HostOnly

\* Mutant: a broken control pipe does not end the wait.
CtrlEvent_data_only(k) == host.armed /\ host.pipe[Ctrl(k)].c2s # <<>>

CtrlEvent(k) ==
    host.armed /\ (host.pipe[Ctrl(k)].c2s # <<>> \/ ~Connected(Ctrl(k)))

\* Mutant: GetExitCodeProcess is left out.
wait_for_process_no_code(k) ==
    /\ At(k, "wait")
    /\ CtrlEvent(k) \/ host.proc # "running"
    /\ host' = [Goto(host, k, "flush_pio") EXCEPT
                   !.proc = IF @ = "running" THEN "killed" ELSE @]
    /\ HostOnly

\* WaitForMultipleObjects: the control event has the lower index and wins.
wait_for_process(k) ==
    /\ At(k, "wait")
    /\ \/ /\ CtrlEvent(k)
          /\ host' = [Goto(host, k, "flush_pio") EXCEPT
                         !.proc = IF @ = "running" THEN "killed" ELSE @,
                         !.ec = AbortCode]
       \/ /\ ~CtrlEvent(k) /\ host.proc # "running"
          /\ host' = [Goto(host, k, "flush_pio") EXCEPT !.ec = ProcessCode]
    /\ HostOnly

\* Mutant: no FlushFileBuffers of the output pipe.
flush_pio_skipped(k) ==
    /\ At(k, "flush_pio")
    /\ host' = Goto(host, k, "flush_perr")
    /\ HostOnly

flush_pio(k) ==
    /\ At(k, "flush_pio")
    /\ Flushed(IO)
    /\ host' = Goto(host, k, "flush_perr")
    /\ HostOnly

flush_perr(k) ==
    /\ At(k, "flush_perr")
    /\ Flushed(ERR)
    /\ host' = hprintf(host, k, Msg("return_code", host.ec), "disconnect")
    /\ HostOnly

disconnect(k) ==
    /\ At(k, "disconnect")
    /\ host' = Goto(ClosePipes(host), k, "finish")
    /\ HostOnly

\* The end of handle_connection.
finish(k) ==
    /\ At(k, "finish")
    /\ Flushed(Ctrl(k))
    /\ host' = [Goto(host, k, "done") EXCEPT !.pipe[Ctrl(k)] = Disconnect(@)]
    /\ HostOnly

Thread(k) ==
    \/ server_loop_accept(k) \/ handle_connection(k) \/ hprintf_flushed(k)
    \/ get_token(k) \/ create_pipes(k) \/ connect_pio(k) \/ connect_perr(k)
    \/ create_process(k) \/ wait_for_process(k) \/ flush_pio(k) \/ flush_perr(k)
    \/ disconnect(k) \/ finish(k)

\* The remote process (external) writes to its output pipes and ends.
ProcessWrite(p) ==
    /\ host.proc = "running"
    /\ Connected(p)
    /\ Len(host.made.io) + Len(host.made.err) < host.env.out
    /\ LET n == Len(host.made[p[1]]) + 1
       IN  host' = [host EXCEPT !.made[p[1]] = Append(@, n),
                                !.pipe[p].s2c = Append(@, Msg("output", n))]
    /\ HostOnly

ProcessExit ==
    /\ host.proc = "running"
    /\ host' = [host EXCEPT !.proc = "exited"]
    /\ HostOnly

\* Another client stops the service, or it crashes.
ServiceDies ==
    /\ "service" \in host.env.faults
    /\ host.svc.running
    /\ ~host.died
    /\ host' = [StopService(host) EXCEPT !.died = TRUE]
    /\ HostOnly

Host ==
    \/ server_loop_listen
    \/ \E k \in Conn : Thread(k)
    \/ \E p \in {IO, ERR} : ProcessWrite(p)
    \/ ProcessExit
    \/ ServiceDies

-----------------------------------------------------------------------------
InitHost(env, svc) ==
    [env |-> env, svc |-> svc, nconn |-> 0,
     pipe |-> [p \in PipeId |-> [st |-> "none", c2s |-> <<>>, s2c |-> <<>>]],
     th |-> [k \in Conn |-> [pc |-> "none", next |-> "none"]],
     proc |-> "none", armed |-> FALSE, ec |-> 0,
     made |-> [io |-> <<>>, err |-> <<>>], died |-> FALSE]

\* The end of main: the control pipe is being opened.  The host has no service
\* (never installed, or --reinstall has removed it) or a running one.
Init ==
    LET main == With([ac |-> [p \in Name |-> async_context(p)],
                      t |-> smbcli_transport_init], "ctrl", async_open)
    IN  /\ ac = main.ac
        /\ transport = main.t
        /\ user = InitUser
        /\ \E env \in Scenarios, up \in BOOLEAN, v \in Versions :
              host = InitHost(env, [running |-> up, ver |-> v, loop |-> up, listening |-> up])
        /\ smb = [fid |-> [f \in Fnum |-> NoPipe], parked |-> {}]
        /\ replies = <<>>

Next == Client \/ SmbServer \/ Host

Spec == Init /\ [][Next]_vars

\* The event loop, the SMB server and the threads of the service make
\* progress; the timer is a timed event of the event loop.  Nothing is assumed
\* of the process, of signals, timeouts and failures.
Fairness ==
    /\ WF_vars(smbcli_transport_finish_recv)
    /\ WF_vars(smbcli_transport_dead)
    /\ WF_vars(timer)
    /\ WF_vars(SmbServer)
    /\ WF_vars(server_loop_listen)
    /\ \A k \in Conn : WF_vars(Thread(k))

FairSpec == Spec /\ Fairness

-----------------------------------------------------------------------------
PipeStates == {"none", "listening", "connected", "closed", "disconnected", "gone"}
ClientLines == {"get version", "set", "run", "abort", "input"}
ThreadCalls ==
    {"none", "accepted", "hgets", "flush", "get_token", "create_pipes",
     "connect_pio", "connect_perr", "create_process", "wait", "flush_pio",
     "flush_perr", "disconnect", "finish", "done"}

Messages ==
    [cmd : {"none", "version", "error", "std_io_err", "return_code", "output"}, arg : Nat]

Requests ==
    [mid : Nat, kind : Kinds, pipe : Name, fnum : Int, data : Seq(ClientLines),
     timed : BOOLEAN]

Replies ==
    [mid : Nat, status : {"OK", "OBJECT_NAME_NOT_FOUND", "ERROR"}, fnum : Int,
     msg : Messages]

Contexts ==
    [name : Name, fd : Nat, io_open : BOOLEAN, io_read : Int, io_write : Int,
     io_close : BOOLEAN, rreq : Int, wreq : {NULL}, wq : {<<>>}]

Transports ==
    [next_mid : Nat, pending_recv : SUBSET Requests, wire : Seq(Requests),
     request_timeout : BOOLEAN, dead : BOOLEAN, orphans : SUBSET Nat]

Users ==
    [state : {"OPENING", "GETTING_VERSION", "RUNNING", "CLOSING_FOR_REINSTALL"},
     activated : BOOLEAN, return_code : {1, 99, ProcessCode, AbortCode},
     abort_requested : BOOLEAN, handler : BOOLEAN, timers : Nat, stdin : Nat,
     got : [io : Seq(Nat), err : Seq(Nat)], aborted : BOOLEAN, exited : BOOLEAN,
     killed : BOOLEAN, fault : BOOLEAN]

Services == [running : BOOLEAN, ver : Nat, loop : BOOLEAN, listening : BOOLEAN]
Pipes == [st : PipeStates, c2s : Seq(ClientLines), s2c : Seq(Messages)]
Threads == [pc : ThreadCalls, next : ThreadCalls]

Hosts ==
    [env : Scenarios, svc : Services, nconn : 0 .. MaxConn,
     pipe : [PipeId -> Pipes], th : [Conn -> Threads],
     proc : {"none", "running", "exited", "killed"}, armed : BOOLEAN,
     ec : {0, ProcessCode, AbortCode}, made : [io : Seq(Nat), err : Seq(Nat)],
     died : BOOLEAN]

TypeOK ==
    /\ ac \in [Name -> Contexts]
    /\ transport \in Transports
    /\ user \in Users
    /\ host \in Hosts
    /\ smb \in [fid : [Fnum -> PipeId \cup {NoPipe}], parked : SUBSET Requests]
    /\ replies \in Seq(Replies)

\* winexe/changes, 0.4: "Turned off timeouts - proces do not disconnect after
\* 60sec": no request that can time out is left when the command is sent,
\* although async_read switches the timeout off only after its first request.
NoTimeoutWhileRunning ==
    user.state = "RUNNING" => \A r \in transport.pending_recv : ~r.timed

\* winexe/changes, 0.80: "winexesvc is replaced only if version differs on more
\* than last digit", also when an "abort" is answered with an error.
ReplacedOnlyIfVersionDiffers ==
    user.state = "CLOSING_FOR_REINSTALL" => host.svc.ver \div 10 # VERSION \div 10

\* on_ctrl_pipe_read looks at one command per read, and a read returns all
\* that is in the pipe: the service never has two lines there at a time, also
\* when it answers an abort besides what it was asked.
OneLinePerRead == \A k \in Conn : Len(host.pipe[Ctrl(k)].s2c) <= 1

\* One of the replacements of an outdated service succeeds: the last control
\* connection there is room for is not given up for another one.  The code has
\* no such limit: on_ctrl_pipe_close ignores what svc_uninstall and svc_install
\* return, so a client whose replacements fail each time tries again forever,
\* and nothing is claimed of it.
Settles == [](user.state = "CLOSING_FOR_REINSTALL" => host.nconn < host.env.conns)

\* The client exits once the process has ended, and also if no process was ever
\* started: whatever failed on the way, replacements of the service included,
\* as long as one of these succeeds in the end, it never waits forever.
EventuallyExits == Settles => <>user.exited \/ <>[](host.proc = "running")

\* A client that disappears after cmd_run has armed its read takes the process
\* with it.
NoOrphanProcess ==
    (~Alive \/ transport.dead) /\ host.armed /\ host.proc = "running" ~>
        (host.proc # "running" \/ host.died)

-----------------------------------------------------------------------------
\* winexe as its user sees it.
Command == INSTANCE RemoteCommand WITH
    Stream <- {"io", "err"},
    ExitCode <- ProcessCode,
    command <- host.proc,
    output <- host.made,
    shown <- user.got,
    aborted <- user.aborted,
    lost <- transport.dead \/ host.died \/ user.killed,
    status <- IF user.exited THEN user.return_code ELSE -1

\* Client, SMB server, service and process together behave like a command
\* that runs locally: when winexe ends it has shown all the output, in order
\* (FlushFileBuffers before return_code), and its exit status is what became
\* of the process, never the 99 main starts from; nothing kills a process for
\* which nobody asked.
ImplementsCommand == Command!Spec

\* ... and, if it does not replace the service forever, winexe does show the
\* output and come to its end, and an "abort" sent after "run" ends the process,
\* even if it arrives before the process exists.
ImplementsFairCommand == Command!Spec /\ (Settles => Command!Fairness)
=============================================================================
