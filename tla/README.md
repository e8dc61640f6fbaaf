# A TLA+ model of winexe

winexe runs a command on a Windows host: the client opens the named pipe of a small service
(winexesvc) over SMB, installs the service first if it is not there or outdated, hands it the command
line and copies standard input, output and error through two more pipes. This directory models the
client and the service, the installation of the service, and the libraries the client runs on: event
loop, packet stream and SMB transport. The rest of the source tree is the Samba 4 code base winexe is
built in.

## 1. The system

| Part | State it keeps | Operations | Talks to |
|---|---|---|---|
| client, `winexe/winexe.c` | state of the control pipe, three pipe contexts, return code, abort flag | `on_ctrl_pipe_*`, `on_io_pipe_*`, `on_err_pipe_*`, `timer`, `catch_alarm`, `exit_program` | async layer, service control, terminal |
| async layer, `winexe/async.c` | per pipe: handle, parameter blocks `io_*`, requests `rreq`/`wreq`, write queue | `async_open/read/write/close` and their `_recv` handlers | SMB transport below, callbacks of `winexe.c` above |
| service control, `winexe/service.c` | none of its own; the SCM's database and `winexesvc.exe` on ADMIN$ are shared by all clients | `svc_install`, `svc_uninstall`, `svc_UploadService` | SCM, SMB file server |
| service, `winexesvc/winexesvc.c` | listening instance of the control pipe, `conn_number`, per connection a thread with its pipes and its process | `server_loop`, `handle_connection`, `cmd_run`, `cmd_get`, `cmd_set` | named pipes, remote process |
| service start and stop, `winexesvc/service.c` | status reported to the SCM | `winexesvcStart`, `winexesvcCtrlHandler` | SCM |
| SMB transport, `libcli/raw/clitransport.c`, `rawrequest.c`, `rawtrans.c` | pending requests, next mid, timeouts, dead or not | send, match replies, receive synchronously or by handler, multi-part calls, time out, die | packet stream, event loop |
| packet stream, `lib/stream/packet.c`; its users are the transport and `librpc/rpc/dcerpc_sock.c` | partial packet, processing flag, send queue, disabled or not | `packet_recv`, `packet_send`, `packet_queue_run`, `packet_recv_enable/disable`, `packet_next_event` | socket, event loop |
| event loop, `lib/events/events_standard.c` | fd events and their epoll interest, timed events, `destruction_count` | add, change and free events; `std_event_loop_once` by epoll or select | kernel, every handler |

The client is single threaded: the event loop calls handlers, which call callbacks, which call back into
the async layer, and some of which run the loop again, before they return. On the host run concurrently
the SMB server, the service's accept loop, one thread per connection and the remote processes; other
clients install and remove the same service. What is hard: requests overlap with the close and reopening
of a pipe whose handle the server hands out again; replies, timeouts and errors of old requests arrive in
the middle of that; a dying connection fails all requests from within a loop whose handlers send new
ones; an abort may arrive before, during and after the command; process output, return code and the end
of the pipes travel separately; clients race each other through a dozen remote calls each; threads of
clients that have died keep their pipes, and so do processes that inherited them; numbers (mids, pipe
numbers) wrap around; events are freed while the loop is about to report them. The list with the lines
where each of these bites is `hazards` in PROJECT.json.

What makes the parts correct:

* winexe as a whole: a remote command looks like a local one. Output complete and in order, the exit
  status that of the process, an interrupt or a vanished client ends the process and nothing else does,
  the client ends unless it replaces the service in vain forever, only another version of it is replaced.
* async layer: a reply never finds its parameter block freed or its request pointer dangling; one read
  per buffer, on the current handle; a broken pipe or connection is never waited on.
* service control: `--reinstall`, `--uninstall` and `--interactive` do what they say, whatever the state
  of the host, and no polling loop hangs.
* service: a client gets the pipes of its own connection and is not held up by others; threads end.
* transport: every call ends, once, with its own answer or with a failure.
* packet stream: bytes in any segments are a queue of whole messages, and nothing is waited for that
  nobody will signal.
* event loop: nothing freed is called, nothing ready is forgotten, timers run in order.

## 2. Modules

| Module | Models | Form |
|---|---|---|
| `RemoteCommand` | what winexe promises its user | abstract specification |
| `WinexeSession`, `MCSession` | a complete run: client with three contexts, SMB server, service threads, process | state machine on top of `Async`; implements `RemoteCommand` |
| `WinexeSessionProofs`, `WinexeVersionProofs` | - | theorems about `WinexeSession` |
| `Async` | `async.c`, sending and destroying of requests | operators on a view `[c, t, ...]` of context and transport |
| `AsyncPipe`, `MCAsync` | one context, its owner in `winexe.c` (`User = "ctrl"` or `"io"`), an SMB server | state machine on top of `Async` |
| `AsyncPipeProofs` | - | theorems about `AsyncPipe` |
| `SvcControl`, `MCSvcControl` | several clients in `svc_install`/`svc_uninstall`, one action per remote call | state machine |
| `SvcControlProofs` | - | theorems about `SvcControl` |
| `Service`, `MCService` | the service with several connections, pipe names, inherited handles, restarts | state machine |
| `ServiceProofs` | - | theorems about `Service` |
| `RequestReply` | what the transport promises its callers | abstract specification |
| `Transport`, `MCTransport` | mids, matching, timeouts, multi-part calls, death | state machine; implements `RequestReply` |
| `TransportProofs` | - | theorems about `Transport`, the refinement included |
| `MessageStream` | what the packet layer promises its users | abstract specification |
| `Packet`, `MCPacket` | `packet.c` with its two users and the part of the event loop it sees | state machine; implements `MessageStream` |
| `PacketProofs` | - | theorems about `Packet`, the refinement included |
| `EventLoop`, `MCEventLoop` | `events_standard.c`, handlers that do anything to events | state machine |
| `EventLoopProofs` | - | theorems about `EventLoop` |

**Layers.** Each module assumes of the layer below what the module of that layer shows. `Transport` takes
whole packets, one at a time, in order (`Packet`); `AsyncPipe` and `WinexeSession` take a transport that
answers each request at most once with its own reply (`Transport`), and therefore use each mid once; all
of them run one handler at a time (`EventLoop`). `Service` takes from `WinexeSession` how one client and
its connection talk, `WinexeSession` takes from `SvcControl` how an installation can end.

**Views.** A handler of async.c is not a sequence of separate steps another event could interrupt, but it
is a composition: `async_read_recv` resets `rreq`, runs `cb_read`, which may close the pipe, and then
sends the next read. The operations are therefore functions on a view, a handler is their composition,
and an action replaces the state by one of the resulting views (`Become`). A callback that depends on
something outside has several results. `Packet`, `Transport` and `EventLoop` are written the same way.

**Scenarios.** A module's constant `Scenarios` is a set of environments (which faults may happen, who the
callers are, how many connections). Init picks one, `env` keeps it for the whole behaviour, so that a run
asks one question of several environments, and a combination too large to explore is left out by naming
it. The MC modules define the sets.

**WinexeSession.** Client actions are named after their handlers. Each blocking call of `cmd_run` is an
action of the connection's thread (`th[k].pc` is the call it is at): get_token, creation of the pipes,
the two ConnectNamedPipe, CreateProcessAsUser with the arming of the read on the control pipe,
WaitForMultipleObjects, the two FlushFileBuffers, disconnect, and the end of `handle_connection`.
`hprintf` is a write plus a step that waits until the client has read it. Lines on the control pipe are
the commands themselves; the version is a number, compared as in the code by `\div 10`.
`svc_install` and `svc_uninstall` appear by their outcomes.

**AsyncPipe.** `ac` is `struct async_context` (`io_read` and `io_write` keep the cached handle, because
stale handles are the question; `io_open` and `io_close` only whether the block is there), `transport`
the pending requests, the packets on the wire and the requests abandoned on a dead transport, `user`
what `winexe.c` adds. `smbcli_transport_dead` is an action per round of its loop, newest request first,
and `Ready` keeps the event loop out until it is through. A reply with success to a request whose block
is gone is a NULL dereference and sets `fault`. The server is external: in-order processing, requests
parked on empty or full pipes, failures on closed or disconnected handles.

**SvcControl.** `cl[c].pc` is the next remote call of client `c`, `ret` the caller to return to, `handles`
and `writing` what it holds open, leaks of early returns included. The SCM (external) has the four states
a service reports, deletes a marked service when it is stopped and unreferenced, refuses to start one
whose image is missing, incomplete or being written, and passes a stop only to a running service; a file
that is executed or open for writing cannot be deleted. The session is one step: the control pipe is
found, with a version, or not.

**Service.** `conn[k]` is a `connection_context` with its thread (`pc`, the call it is at), its two pipe
instances, its process and its client. A pipe instance lives while the service or a process that has
inherited the handle holds it (`held`), which is why a name can outlast its connection. `connSpace` and
`nrSpace` are 2^16 and 2^32 in the code; small ones make the numbers repeat.

**Transport.** `req[i]` is a `struct smbcli_request`, `t` the transport with `pending_recv` in the order
of the list. A synchronous caller (`caller`) is inside `smbcli_request_receive`, whose loop runs the
other handlers. Timeouts fire at any time while a timer is set; the server answers in any order, late or
never. `outcome` records how a call ended as its caller sees it, and what it would be if an answer
belonged to another request ("wrong answer", "again"), which `RequestReply` has no step for. Asynchronous
handlers end their call at its reply, as `smb_write_callback` and the handlers of async.c do.

**Packet.** A byte is a pair (packet, position), so a blob that is not exactly one packet is recognised.
Bytes arrive one at a time and `packet_recv` takes what is there, so every segmentation is covered; what
went out is kept as the position of the last byte and whether a byte was ever out of order (`garbled`).
`packet_recv` runs up to the call of the callback; `callback_returns` is what comes after it, and in
between the loop may run again (`nested`), the user may send, or free the context, and the connection may
break, in the nested loop too. `fde.misused` records a use of the fd event after the error handler has
freed it.

**EventLoop.** `stack` holds the invocations of `std_event_loop_once`: what a round has fetched from
epoll or select and not yet reported, the `destruction_count` it started with, and the handler it is
in. Handlers free, add and change any event and run the loop again.

## 3. Runs

| Run | Instance | Shows |
|---|---|---|
| `session_normal` | versions 0 (no `get`), 80, 90, 95 or no service; one `set` line, one input, up to three messages of output; `--uninstall` | `TypeOK`, `NoTimeoutWhileRunning`, `ReplacedOnlyIfVersionDiffers`, `ImplementsCommand` |
| `session_faults` | signals at any time; or lost connections, request timeouts, failing Windows calls and a dying service during a reinstallation; or two reinstallations whose calls may fail or bring back an outdated service | `OneLinePerRead`, `EventuallyExits`, `NoOrphanProcess`, `ImplementsFairCommand` |
| `session_abort_reinstall` | signal during a reinstallation | violated: `ReplacedOnlyIfVersionDiffers` |
| `async_pipes` | the control pipe with 2 handles and up to 7 client-initiated requests, or the I/O pipe with 1 handle and up to 6 | control pipe: `TypeOK`, `NoDanglingRequest`, `NoNullDeref`, `OneCurrentRead`, `ExitOnDeadTransport`; I/O pipe: `IoRequestsKept`; both: `DisconnectsHandled` |
| `async_serialized` | I/O pipe | violated: `WritesSerialized` |
| `svc_clients` | one client with all 12 option combinations on all initial hosts; two clients with `--uninstall`; two clients with failing calls, crashes, failing starts, slow exits | `TypeOK`, `FreshAfterReinstall`, `TypeHonoured`, `UninstallLeavesNothing`, `EveryClientEnds` |
| `svc_need_start` | one client with `--interactive 1` | violated: `InstallStarts` |
| `service` | three connections with pipe numbers that repeat; two with any Windows call failing; a service stopped and started again | `TypeOK`, `OwnPipes`, `NumberFree`, `Served`, `ThreadsEnd` |
| `transport` | six asynchronous requests over three mids; three calls of all kinds with bad replies and a dying connection | `TypeOK`, `PendingConsistent`, `ImplementsCalls` |
| `packet` | three packets in, two out, in any segments; SMB and DCERPC users, each with and without faults, with and without callbacks that run the loop | `TypeOK`, `Attentive`, `SendQueueServed`, `ReadsMatched`, `FreedFdEventUntouched`, `ImplementsStream` |
| `packet_fd_event` | the SMB user, callbacks that run the loop, faults | violated: `NoFreedFdEvent` |
| `event_loop` | two descriptors and two changes of events; one change with failing epoll calls; three timers over three ticks and one descriptor; loops two deep | `TypeOK`, `NoFreedEvent`, `InterestMatchesFlags`, `TimersInOrder`, `ReadyIsHandled`, `TimersFire` |

Deadlock is not checked: every one of these systems may come to rest (the program has ended, an idle
pipe waits for a process that says nothing, a transport has nothing to do).

### Refinements

* `WinexeSession` implements `RemoteCommand`. That the exit status is the process's, that all output has
  been shown before winexe ends, that nothing but an abort, a loss or the end of winexe kills the process
  and, with fairness, that an abort sent after `run` ends it are all consequences. The mapping takes the
  process, what it wrote and what the client printed as they are; `lost` is a dead transport, a dead
  service or a killed client.
* `Transport` implements `RequestReply`. "Its own answer" is in the mapping: `outcome` compares the
  request an answer was made for with the one it was matched to.
* `Packet` implements `MessageStream`; with its fairness for the SMB user, whose receiving is always on. A
  DCERPC user receives when it asks to, so nothing is promised about when.

### Bounds

* `MaxMid` (`AsyncPipe`) stops the sources of new requests (stdin, abort, data from the server), not what
  handlers send, so nothing pending is cut off. Seven requests of the control pipe cover open, get
  version, read, abort, close, reopen and the second round; six of the I/O pipe cover three overlapping
  writes with an error that closes the pipe under the others.
* Two handles for the control pipe, so that a reopened pipe may get the same or another one; I/O pipes
  are opened once.
* `MaxConn` (`WinexeSession`) is the number of control connections: two allow one reinstallation, three,
  which `session_faults` has, two. A replacement may fail, or leave a service of any version: the code
  ignores what `svc_uninstall` and `svc_install` return (winexe.c:244-247) and connects again. A client
  whose replacements all fail repeats this forever, so `EventuallyExits` and the fair half of
  `ImplementsFairCommand` have the condition `Settles`: the last connection there is room for is not
  closed for yet another reinstallation. The safety properties do not need it.
* `out`, `MaxIn`: messages written and read. `session_faults` has none in its second scenario: there the
  question is whether everything ends.
* `SvcControl` needs no bound: a client runs once and its loops revisit states.
* `MidSpace = 4`, `MaxPending = 2`, `MaxLate = 1` (`Transport`): `MaxLate` is how many requests younger
  than it an answer nobody waits for may arrive after, and `MaxLate + MaxPending < MidSpace` is
  assumed. The bound is sharp: with one more, the refinement fails, because `smbcli_transport_next_mid`
  skips the mids of pending requests and not those of requests that were destroyed or timed out. In the
  code the space is 2^16, so an answer has to be late by more than 65000 requests to be mistaken.
* `NumberFree` has the precondition `NumbersSuffice`: fewer connections to one service process than
  2^16, process ids that do not wrap. The restart scenario meets it. Where numbers do repeat
  (`Wrap`, `Fail`), creation of a pipe fails and the client is told; `Served` and `ThreadsEnd` hold without
  the precondition. `OwnPipes` does for one service process. Across restarts it needs it: a client that was
  told its number and has not opened its pipes when the service is stopped would find the pipes of the next
  process, if that used the number again.
* `MaxDepth = 2` (`EventLoop`): a handler that runs the loop, whose handler frees what the outer round
  has fetched. Two changes of events suffice for free and add again.
* Packets of two and three bytes with a two-byte header: with and without a body, a header split
  between segments, several packets in one segment.

### Fairness

Weak fairness of the event loop's handlers (a readable socket or an expired timer is served; that
the loop does so is `ReadyIsHandled` and `TimersFire`), of the SMB server, of each service thread, and in
`SvcControl` of each client and of the service process (polling loops sleep 100 ms and ask again; a poll is
enabled when the state it waits for has passed). In `Service` a client opens the pipes it is told of and
exits on an error, unless it dies. In `Transport` request timers expire (the default timeout is on).
In `EventLoop` the program keeps calling the loop and handlers return. Nothing is
assumed of the remote process, which may run forever, of standard input, of the peer of a connection, or
of any fault.

### What the violated runs show

* `WritesSerialized` (winexe/changes, 0.5: "async_write serialized"): `async_write` tests `wreq` and
  queues behind it, but nothing assigns `wreq`, so writes go out at once and the queue is never used. Order
  then depends on the server.
* `ReplacedOnlyIfVersionDiffers` (winexe/changes, 0.80): holds without signals (theorem `Replacement`); with a signal during a
  reinstallation the timer's abort, written with the handle the server hands out again, can precede
  `get version` on the new pipe; its error answer is taken for that of an old service.
* `InstallStarts` (comment above `svc_install`): `need_start` is read uninitialised with `--interactive`
  unless the type of the service had to be changed.
* `NoFreedFdEvent` (comment above `packet_destructor`): the packet context survives until `packet_recv` is
  through with it, its fd event does not. When a callback runs the loop, a packet arrives in that loop (it is
  held back and `processing` becomes 2) and a write fails, the error handler frees the fd event;
  `packet_recv` switches its READ flag on when the callback returns (packet.c:393). That this is the only
  such use is `FreedFdEventUntouched`, which holds and is proved.

## 4. Proofs

A theorem holds for every value of the constants: any number of clients, connections, requests,
descriptors, packets, any mid or number space. The assumptions are the ASSUMEs of the modules, which say
what the constants are (the scenarios are scenarios, bounds are numbers, packets have a header); those
that restrict more are named below. The proofs all have the form: an inductive invariant (`IInv`; where a
second one rests on the first, it has a name of its own), a lemma per operation or handler that says what
it does to a view or a record, a lemma per action that it keeps the invariant, and `NextInv` with a step
per action. TLC has checked each of these invariants on the instance of the module's run
(that of `Packet` with its one unbounded quantifier bounded by the length of the buffer).

**`AsyncPipeProofs`** (any set of handles, either user):

* `TypeCorrect`: `Spec => []TypeOK`; in particular `wreq` is always NULL and `wq` always empty, the cause
  of the first finding.
* `NoDangling`: `Spec => []NoDanglingRequest`.
* `DeadMeansExit`: `Spec => []ExitOnDeadTransport`.
* `NoNullDereference`: `Spec => []NoNullDeref`.
* `OneReadAtATime`: `Spec => []OneCurrentRead`.

`IInv` adds, for a view: mids of pending requests are below `next_mid` (`Fresh`), so a new request is told
from the old ones; `rreq` names an open or read that is pending, or an abandoned request (`RreqOK`); and
`Expecting`: in every state of the control pipe an open or a read is pending, and while the pipe is being
closed one of them is newer than every pending close. The last part is why a dying connection ends the
program: `smbcli_transport_dead` starts with the newest request, so it fails that read before the close,
whose handler would otherwise send an open nobody answers. (With the oldest first the property fails;
that is a mutant of the run.)

The last two theorems rest on a second invariant, `JInv`, because they depend on what the server still
answers: a handler dereferences `io_read`, `io_write` or `io_open` when its request succeeds, so one must
know which of the requests under way can still succeed. `Base` says where requests are: each is on the
wire, parked at the server or answered, in one place, and opens and closes are never overtaken and never
overtake. `Handle` relates the cached handles to the server's. `Phase` has a
part for each user and state. For the control pipe: while it is being opened, the reads that are left
from before are older than the open, and nothing succeeds unless the open has (`CtrlOpening`); when it is open, only reads
and writes are under way and the blocks they need are there (`CtrlOpen`); while it is being closed, whatever
was sent after the close fails (`CtrlClosing`). For an I/O pipe: opening, failed, open, and given up after a
failed read or write, when no write can succeed any more (`IoOpening` to `IoGivenUp`). `OneRead` is then a
consequence of when `async_read_recv` sends the next read.

**`WinexeSessionProofs`** (any versions, scenarios, number of connections and amount of output, signals
and faults included): `TypeCorrect` (`TypeOK`), `OneLine` (`OneLinePerRead`) and `NoTimeout`
(`NoTimeoutWhileRunning`). A handler here is `async.c` on one of three contexts, its callback in
`winexe.c`, and perhaps an installation and calls into the other contexts. `HandleReplyIs` therefore first shows
that every handler is a composition of few elementary steps (`Handled`: a block and its request freed, a
request sent, the user's state changed, the program ended, the service replaced), and the rest of the
proof goes through these.

* `LInv` is `Good` and `ServerOK`: a mid belongs to one request wherever it is; a reply fits its request
  (a read of the control pipe brings a line, an open a handle of that name); `rreq` names a request of
  its own pipe; handles lead to pipes of their name; only reads of open pipes are parked; and `HostOK`, that
  a control pipe holds at most one line, and none unless its thread is in FlushFileBuffers. The last part is
  why a read returns one whole line (`OneLinePerRead`) although pipes are byte streams: `hprintf` flushes
  after each line, so the service never writes the second before the client has read the first.
* `TInv` (theorem `Timeouts`): requests have the transport's timeout until `async_read` switches it off, which
  it does only after its first request; so the open of the control pipe, the `get version` write and the
  first read carry one. `Phase` has three parts: nothing but the open is under way (`Opening`), `get version` is being asked, with one
  read, which is timed (`Asking`), nothing timed is under way (`Quiet`). From the second to the third it takes
  `Order`: the write is answered before the read is, in the wire, among the parked requests and the
  replies, so that when the line with the version arrives, the last timed request is gone and no command
  that runs for long is cut off by it.

**`WinexeVersionProofs`** (the same, but without signals): `Replacement`
(`ReplacedOnlyIfVersionDiffers`), from `VInv` (theorem `Answers`), `LInv` and `TInv`. That there is no signal
has to be assumed: with one the run `session_abort_reinstall` violates the property. All other faults remain:
failing calls on the host, a service that dies, lost connections, timeouts. `VInv` is about a client that
runs on a live transport and says two things of it (`Current`).

* `Honest`: every line in an open control pipe and in a reply to a pending read is true of the installed
  service (`Told`: a version is its own; as long as no command was sent, an `error` comes from a service
  that has no version to tell). For that, a thread whose client has not sent `run` has got nothing but
  `get version` (`AskedOnly`), and a pipe that was never opened is empty (`Untouched`).
* `InState`: what each state of the client means for its requests. While the control pipe is being opened or
  closed all pending reads are `Doomed`: their handle is closed before the server gets to them and not handed
  out again ahead of them, so they bring no line; while it is in use at most one is not; and at most one
  handle of the control pipe is open. Otherwise a read left over from the connection to the old service
  could be answered with a line of the new one, or the answer of the old one be taken for the new one's.

The client's side of the proof goes through the same elementary steps as that of `WinexeSessionProofs`, the
server's through what one request may change (`Serves`, `Trusty`) and what a step of the service may
(`Going`).

**`ServiceProofs`** (any number of connections, restarts, process ids and numbers): `TypeCorrect`,
`NumbersFree` (`NumberFree`) and `PipesOwned` (`OwnPipes`). `IInv` says of one connection (`Good`) what its
thread's position implies for its pipe instances and, for a service that is never stopped (`Single`), that
the pipes of a client that was told of them and has not opened them are there, waiting; of two connections
(`Apart`) that they never hold instances of the same name. A client that opens a name therefore finds its
own pipes although numbers repeat: those are held, and nobody else can hold one of that name. And of all
(`Counted`, `Ascending`) that numbers are handed out in ascending order while they suffice, so that a new
one is above all that stuck threads and orphaned processes still hold.

**`SvcControlProofs`** (any number of clients, any options and faults, any state of the host):
`TypeCorrect`, `UninstallRemoves` (`UninstallLeavesNothing`), `ReinstallFresh` (`FreshAfterReinstall`) and
`InteractiveHonoured` (`TypeHonoured`). `IInv` has three parts.

* `Basic` holds in every scenario: what a client's next call says about its handles, the file and its caller
  (`Local`); a service to which there are handles exists, and one that is stopped and marked has some
  (`Referenced`); there is a process exactly if the service is not stopped, and then its file is complete and
  nobody writes it (`Executed`).
* `Responsible` is for scenarios in which all clients remove the service, no call fails, nobody is killed and
  stopped processes end in time (`Calm`, the preconditions of `UninstallLeavesNothing`). Unless everything
  is gone there is a client in charge of the next step (`InCharge`): of a starting service one that waits for
  it; of a running one a client that has not yet tried to stop it for the last time; of a stopping one a
  client with a handle that is still going to mark it; of a service that is stopped and marked, or gone,
  with its file left, one that still deletes the file. Each action hands that over, at worst to another
  client; when all have ended nobody can be in charge. The handles that early returns leak take part:
  they delay the deletion, and whoever leaks one has a later call of `svc_uninstall` before it.
* `Lone` is for a client that is alone (`Undisturbed`): the states of the service at each of its calls
  (`StatesAt`), and what has been achieved for `--reinstall` (`Fresh`) and `--interactive` (`Honoured`) by the
  time it makes the call. Both hold for a slow stop, too.

**`TransportProofs`** (any mid space, any number of requests): `TypeCorrect`, `PendingConsistency`
(`PendingConsistent`) and `ImplementsRequestReply`, that every step of the transport is one of
`RequestReply` or a stutter. Besides the ASSUMEs on types, the module assumes
`MaxLate + MaxPending < MidSpace`, see Bounds. The invariant: `Sound` relates the pending list, the states
of requests, their timers and the waiting caller; `Addressed`, every packet under way carries the mid of
its request; `Distant`, when `a` requests are younger than a request, `a < MaxLate`, then
`MaxLate - a` mids that are free are ahead of its mid in the order of `smbcli_transport_next_mid`, so no
new request gets its mid while an answer to it may still come; `Received` and `Chained`, the parts of a transaction arrive in order, and
nothing of it is under way between its two phases. That a matched answer is the request's own follows from
`Addressed` and `Distant`.

**`EventLoopProofs`** (any descriptors, timers, depth of nested loops): `TypeCorrect`, `FreedNeverCalled`
(`NoFreedEvent`), `InterestMatches` (`InterestMatchesFlags`), `TimersOrdered` (`TimersInOrder`). `Scheduled`
says that the list of timed events holds exactly the pending ones, sorted by time and then age. `Watch`
relates each fd event to its epoll interest (`InterestMatchesFlags` and: `has_event` exactly if there is an
interest). `Rounds` is what makes `NoFreedEvent` inductive: as long as a frame's count equals
`destruction_count`, everything it has still to report is a live event of the same generation; an outer
frame is in a handler, and the innermost one only goes on if the counts agree. It rests on `Watch`, because
what epoll reports was registered. `destruction_count` has 32 bits in the code and no bound in the model:
2^32 events freed within one handler would defeat the check.

**`PacketProofs`** (packets of any sizes, streams of any length, both users): `TypeCorrect`, `FdEventUntouched`
(`FreedFdEventUntouched`: once freed, the fd event is used by nothing but a callback's return after a nested
`packet_recv`), `ReadsCounted` (`ReadsMatched`), `AttentiveAlways` (`Attentive`), `SendQueueKept`
(`SendQueueServed`) and `ImplementsMessageStream`, that every step is one of `MessageStream` or a stutter.
`Good` is about a view, so that it can be carried from operation to operation within a handler, and has a
part for each concern: who is freed when (`Living`), `packet_size` against the buffer (`Sized`), reads
against the enabled flag (`Metered`), the flags of the fd event (`Watching`), the bytes of buffer and socket
(`Streaming`) and the send queue (`Queueing`). `Signalled`, that a complete packet in the buffer has an
event coming, holds between handlers. Induction over data is not available, so `Streaming` says of the bytes
in buffer and socket directly what an induction would yield (`Run`: each is the successor of the one before,
and later ones are later in the order of the stream); the lemmas show that appending a byte and cutting off a
packet keep that. What a step may do that the user sees (`Visible`: a packet handed over, the end, the
arrival of the last byte of a packet) is stated once and mapped to the steps of `MessageStream`.

The proof modules of `EventLoop`, `Transport` and `Packet` begin with lemmas about lists: what inserting,
prepending, removing the first occurrence and concatenating do to membership, order and injectivity.

Only model-checked:

* all liveness properties and the fairness in `ImplementsStream` and `ImplementsCalls`, which the prover
  does not handle; the theorems are about `Spec`, so about the safety half;
* `WinexeSession`'s refinement of `RemoteCommand`.

## 5. Not modelled

* **The vendored tree.** winexe is some 1800 lines of a tree of half a million: the Samba 4 technology
  preview with its servers, tools, tests, Heimdal, the IDL compiler and generated marshalling. Nearly all of
  it is not linked into winexe or reached only as the outcome of a call (authentication, DCE/RPC
  marshalling of the svcctl calls, talloc, parameters). The models cover winexe itself and, of the
  libraries, the layers with state and concurrency of their own that each request of winexe passes: event
  loop, packet stream, transport. Modelling Samba's servers would be another project.
* **WMI programs** (`wmi/`): chains of composite calls, one after the other, and marshalling of WBEM
  objects. Their transport is the DCERPC user of `Packet`.
* **Service images**: generated byte arrays.
* Failed allocations everywhere (including `async_open` freeing the context, and `handle_connection`,
  which leaves without closing the pipe), formatting and parsing of lines, the text of error messages,
  credentials, `parse_args`. The pause, continue and interrogate controls of the service change a status
  nobody asks for.
* Transport: session setup, signing, oplock breaks, readbraw, NTcancel, the NBT session request.
* Event loop: the aio and liboop backends, which winexe is not built with, and two fd events for one
  descriptor. The list of descriptors starts in one order.
* SIGINT and SIGTERM are one signal.

Seen while modelling, outside what a run checks:

* `packet_recv_enable` (packet.c:446) tests the reverse of what `packet_next_event` tests, so a user that
  enables receiving with a complete packet in the buffer would wait for the next segment. The model has the
  test as it stands; neither user in the client gets into that state, which `Attentive` confirms: the
  transport never disables receiving, and DCERPC over TCP never reads past a packet.
* A receive loop inside `async.fn` (rawrequest.c:336) waits for a packet that serialised reception
  (packet.c:235) holds back until `async.fn` returns. `smb_trans_callback` gets into it when the server splits
  the reply to one DCERPC request over SMB (dcerpc_smb.c:203, rawtrans.c:186): the call then ends with the
  request's timeout, which calls `async.fn` again and destroys the request the loop looks at, or, with
  `request_timeout` 0 (dcerpc_smb.c:309), not at all. The handlers of `Transport` end their call at the
  first reply; a split reply is modelled for synchronous callers.
* `get_token` (winexesvc.c:283) returns failure when `RevertToSelf` fails after the token was duplicated,
  and the caller then skips closing it.
* The one-byte read of the control pipe may still be pending when the process ends, and shares its
  `OVERLAPPED` with the following write (winexesvc.c:396). The byte is never looked at.
* With `--uninstall`, a client that exits while its process runs (connection lost, say) stops the service
  before the thread has seen the broken pipe, and the process survives; `NoOrphanProcess` is checked
  without that option.
* An abort that reaches the service before `run` is answered with an error and has no effect; the timer
  does not repeat it. In the refinement an abort counts when it is sent after `run`.
* A slow stop: without `promptExit` (the stopped process ends within the 300 ms `svc_uninstall` waits)
  `winexesvc.exe` may survive `--uninstall`, and an upgrade may start the old image again and repeat. Two
  clients that upgrade at the same time can do that to each other for as long as they keep meeting; the
  runs with two clients therefore start from compatible images. `FreshAfterReinstall` and `TypeHonoured`
  are for a client that is alone: another client may start the service in between, and `main` ignores the
  failure. `EveryClientEnds` covers repeated reinstallation for a lone client with `promptExit` only.
* The thread of a client that dies before it opens its pipes waits in `ConnectNamedPipe` until the service
  ends (`Stuck` in `Service`); the pipe number makes that harmless to others.

## 6. Plan

Done: all modules of section 2, their runs, the refinements; proofs about every state machine, and of every
safety invariant a passing run checks. Left: a proof that `WinexeSession` implements `RemoteCommand`.
