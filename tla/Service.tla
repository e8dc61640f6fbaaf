------------------------------ MODULE Service ------------------------------
(***************************************************************************)
(* winexesvc with several connections at once: server_loop, the thread     *)
(* that handle_connection is of each connection with the calls of cmd_run, *)
(* and what the threads share, the namespace of the pipes and the handles  *)
(* that processes inherit.  Clients come and go, and the service can be    *)
(* stopped and started again.  What a single client exchanges with its     *)
(* connection is the subject of WinexeSession; here a client sends "run",  *)
(* opens the two pipes it is told of, may send "abort" and reads all it is *)
(* sent, so that FlushFileBuffers returns.                                 *)
(***************************************************************************)
EXTENDS Naturals, Sequences, FiniteSets

CONSTANTS MaxConn,    \* bound: connections of a behaviour
          MaxStarts,  \* bound: service processes of a behaviour
          Scenarios   \* how far numbers reach and what may happen, see Scenario

\* One environment for a whole behaviour: connections and service processes it
\* has room for, connection numbers beside a process id (2^16 in the code),
\* pipe numbers (2^32, a DWORD), the Windows calls that may fail, and whether
\* clients may send "abort".
Scenario ==
    [conns : 0 .. MaxConn, starts : 1 .. MaxStarts, connSpace : Nat \ {0},
     nrSpace : Nat \ {0}, aborts : BOOLEAN,
     faults : SUBSET {"CreateNamedPipe", "ConnectNamedPipe", "CreateThread",
                      "get_token", "CreateProcess"}]

ASSUME BoundsAssumption == {MaxConn, MaxStarts} \subseteq Nat
ASSUME ScenariosAssumption == Scenarios \subseteq Scenario

VARIABLES env,    \* the scenario
          svc,    \* the service process: pid, conn_number and what server_loop does
          conn    \* the connections: connection_context, thread, client and process

vars == <<env, svc, conn>>

Side == {"io", "err"}
SvcProcess == 0    \* as the holder of a handle; process k is that of connection k

May(call) == call \in env.faults

-----------------------------------------------------------------------------
(***************************************************************************)
(* Named pipes.  An instance exists while somebody holds its server end.   *)
(***************************************************************************)
NoPipe == [st |-> "none", peer |-> 0, held |-> {}, inherit |-> FALSE]

Instances(s, nr) == {k \in DOMAIN conn : conn[k].nr = nr /\ conn[k].pipe[s].held # {}}

\* Mutant: any number of instances of a name.
NameFree_unlimited(s, nr) == TRUE

NameFree(s, nr) == Instances(s, nr) = {}

Created == [NoPipe EXCEPT !.st = "listening", !.held = {SvcProcess}]

CloseHandle(p, holder) == [p EXCEPT !.held = @ \ {holder}]
Opened(p, client) == [p EXCEPT !.st = "connected", !.peer = client]
Disconnect(p) == IF p.held = {} THEN p ELSE [p EXCEPT !.st = "disconnected"]

-----------------------------------------------------------------------------
\* server_loop
server_loop_create ==
    /\ svc.loop = "create"
    /\ Len(conn) < env.conns
    /\ \/ svc' = [svc EXCEPT !.loop = "listen"]
       \/ May("CreateNamedPipe") /\ svc' = [svc EXCEPT !.loop = "ended"]
    /\ UNCHANGED conn

\* The wait for a client fails: the loop starts over.
server_loop_not_connected ==
    /\ May("ConnectNamedPipe")
    /\ svc.loop = "listen"
    /\ svc' = [svc EXCEPT !.loop = "create"]
    /\ UNCHANGED conn

\* Mutant: the sum is not cut to a DWORD.
pipe_nr_wide(pid, n) == pid * env.connSpace + n

\* Mutant: the name depends on the process only.
pipe_nr_process(pid, n) == (pid * env.connSpace) % env.nrSpace

pipe_nr(pid, n) == (pid * env.connSpace + n) % env.nrSpace

\* A client connects and sends its command.
client_connect ==
    /\ svc.loop = "listen"
    /\ svc' = [svc EXCEPT !.loop = "connected"]
    /\ conn' = Append(conn, [pc |-> "accepted", nr |-> 0,
                             proc |-> "none", armed |-> FALSE,
                             client |-> "up", told |-> FALSE, opened |-> {}, abort |-> FALSE,
                             pipe |-> [s \in Side |-> NoPipe]])

\* The thread has a connection number of its own.
server_loop_connected ==
    LET k == Len(conn)
        n == svc.conn_number + 1
    IN  /\ svc.loop = "connected"
        /\ svc' = [svc EXCEPT !.loop = "create", !.conn_number = n]
        /\ \/ conn' = [conn EXCEPT ![k].pc = "hgets", ![k].nr = pipe_nr(svc.pid, n)]
           \/ May("CreateThread") /\ conn' = [conn EXCEPT ![k].pc = "done"]

-----------------------------------------------------------------------------
(***************************************************************************)
(* handle_connection and cmd_run of connection k; c is its context.        *)
(***************************************************************************)
Step(k, from, c) ==
    /\ conn[k].pc = from
    /\ conn' = [conn EXCEPT ![k] = c]
    /\ UNCHANGED svc

To(k, pc) == [conn[k] EXCEPT !.pc = pc]

\* The command line, or the end of the control pipe.
hgets(k) ==
    Step(k, "hgets", To(k, IF conn[k].client = "up" THEN "get_token" ELSE "finish"))

\* cmd_run returns at once if there is no token for the process.
get_token(k) ==
    \/ Step(k, "get_token", To(k, "create_io"))
    \/ May("get_token") /\ Step(k, "get_token", To(k, "finish"))

CloseAll(c) ==
    [c EXCEPT !.pc = "finish",
              !.pipe = [s \in Side |-> CloseHandle(Disconnect(@[s]), SvcProcess)]]

create_pipe(k, from, s, next) ==
    \/ /\ NameFree(s, conn[k].nr)
       /\ Step(k, from, [To(k, next) EXCEPT !.pipe[s] = Created])
    \/ /\ ~NameFree(s, conn[k].nr) \/ May("CreateNamedPipe")
       /\ Step(k, from, CloseAll(conn[k]))

create_io(k) == create_pipe(k, "create_io", "io", "create_err")

\* Mutant: the thread waits for the client before it tells it the number.
create_err_silent(k) == create_pipe(k, "create_err", "err", "connect_io")

create_err(k) == create_pipe(k, "create_err", "err", "std_io_err")

std_io_err(k) == Step(k, "std_io_err", [To(k, "connect_io") EXCEPT !.told = TRUE])

\* ConnectNamedPipe returns when a client has opened the pipe, and fails if
\* it has closed it again.
connect(k, from, s, next) ==
    /\ conn[k].pipe[s].st # "listening"
    /\ Step(k, from, IF conn[k].pipe[s].st = "connected" THEN To(k, next)
                     ELSE CloseAll(conn[k]))

connect_io(k) == connect(k, "connect_io", "io", "connect_err")
connect_err(k) == connect(k, "connect_err", "err", "inherit")

\* SetHandleInformation
inherit(k) ==
    Step(k, "inherit",
         [To(k, "create_process") EXCEPT
             !.pipe = [s \in Side |-> [@[s] EXCEPT !.inherit = TRUE]]])

\* The process inherits the pipes of every connection that are inheritable.
\* The read of the control pipe that follows never signals its event if it
\* fails at once.
create_process(k) ==
    /\ conn[k].pc = "create_process"
    /\ \/ LET Inherit(p) == IF p.inherit /\ SvcProcess \in p.held
                            THEN [p EXCEPT !.held = @ \cup {k}] ELSE p
              c == [To(k, "wait") EXCEPT !.proc = "running",
                                         !.armed = conn[k].client = "up" \/ conn[k].abort]
          IN  conn' = [j \in DOMAIN conn |->
                          [IF j = k THEN c ELSE conn[j] EXCEPT
                              !.pipe = [s \in Side |-> Inherit(@[s])]]]
       \/ May("CreateProcess") /\ conn' = [conn EXCEPT ![k] = CloseAll(@)]
    /\ UNCHANGED svc

\* Mutant: only data ends the wait.
ctrl_event_data(k) == conn[k].armed /\ conn[k].abort

ctrl_event(k) == conn[k].armed /\ (conn[k].abort \/ conn[k].client # "up")

\* The handles of a process that has ended are closed.
ProcessEnds(c, k) ==
    [j \in DOMAIN c |->
        [c[j] EXCEPT !.proc = IF j = k THEN "ended" ELSE @,
                     !.pipe = [s \in Side |-> CloseHandle(@[s], k)]]]

\* WaitForMultipleObjects, and TerminateProcess if the control pipe ended it.
wait_for_process(k) ==
    /\ conn[k].pc = "wait"
    /\ ctrl_event(k) \/ conn[k].proc = "ended"
    /\ conn' = [ProcessEnds(conn, k) EXCEPT ![k].pc = "return_code"]
    /\ UNCHANGED svc

\* The output is flushed, the client gets the return code, all is closed.
return_code(k) == Step(k, "return_code", CloseAll(conn[k]))

\* The end of handle_connection: the client sees the end of the control pipe.
finish(k) == Step(k, "finish", To(k, "done"))

Thread(k) ==
    \/ hgets(k) \/ get_token(k) \/ create_io(k) \/ create_err(k) \/ std_io_err(k)
    \/ connect_io(k) \/ connect_err(k) \/ inherit(k) \/ create_process(k)
    \/ wait_for_process(k) \/ return_code(k) \/ finish(k)

-----------------------------------------------------------------------------
\* The client of connection k.

\* It opens the pipes it was told of, in either order; what it finds is the
\* instance of that name, whoever has created it, or nothing.
client_open(k, s) ==
    LET found == {j \in Instances(s, conn[k].nr) : conn[j].pipe[s].st = "listening"}
        c == [conn EXCEPT ![k].opened = @ \cup {s}]
    IN  /\ conn[k].client = "up" /\ conn[k].told /\ s \notin conn[k].opened
        /\ IF found = {} THEN conn' = c
           ELSE \E j \in found :
                   conn' = [c EXCEPT ![j].pipe[s] = Opened(@, k)]
        /\ UNCHANGED svc

client_abort(k) ==
    /\ env.aborts
    /\ conn[k].client = "up" /\ ~conn[k].abort
    /\ conn' = [conn EXCEPT ![k].abort = TRUE]
    /\ UNCHANGED svc

\* Its ends of the pipes are closed.
Leave(k) ==
    /\ conn[k].client = "up"
    /\ conn' = [j \in DOMAIN conn |->
                   [conn[j] EXCEPT
                       !.client = IF j = k THEN "gone" ELSE @,
                       !.pipe = [s \in Side |->
                                    IF @[s].st = "connected" /\ @[s].peer = k
                                    THEN [@[s] EXCEPT !.st = "broken"] ELSE @[s]]]]
    /\ UNCHANGED svc

client_exit(k) == conn[k].pc = "done" /\ Leave(k)
client_dies(k) == conn[k].pc # "done" /\ Leave(k)

process_exit(k) ==
    /\ conn[k].proc = "running"
    /\ conn' = ProcessEnds(conn, k)
    /\ UNCHANGED svc

-----------------------------------------------------------------------------
\* winexesvcCtrlHandler: the process ends with all its threads and handles,
\* the processes it has started live on.
service_stop ==
    /\ svc.loop # "stopped"
    /\ svc' = [svc EXCEPT !.loop = "stopped"]
    /\ conn' = [k \in DOMAIN conn |->
                   [conn[k] EXCEPT !.pc = "done",
                                   !.pipe = [s \in Side |-> CloseHandle(@[s], SvcProcess)]]]

service_start ==
    /\ svc.loop = "stopped"
    /\ svc.pid < env.starts
    /\ svc' = [pid |-> svc.pid + 1, conn_number |-> 0, loop |-> "create"]
    /\ UNCHANGED conn

-----------------------------------------------------------------------------
Init ==
    /\ env \in Scenarios
    /\ svc = [pid |-> 1, conn_number |-> 0, loop |-> "create"]
    /\ conn = <<>>

server_loop == server_loop_create \/ server_loop_connected \/ server_loop_not_connected

Next ==
    /\ \/ server_loop \/ client_connect
       \/ \E k \in DOMAIN conn :
             \/ Thread(k) \/ process_exit(k)
             \/ \E s \in Side : client_open(k, s)
             \/ client_abort(k) \/ client_exit(k) \/ client_dies(k)
       \/ env.starts > 1 /\ service_stop
       \/ service_start
    /\ UNCHANGED env

Spec == Init /\ [][Next]_vars

\* Threads and clients go on while they can; processes, aborts, deaths, new
\* clients and the operator need not come.
Fairness ==
    /\ WF_vars((server_loop_create \/ server_loop_connected) /\ UNCHANGED env)
    /\ \A k \in 1 .. MaxConn :
          /\ WF_vars(k \in DOMAIN conn /\ Thread(k) /\ UNCHANGED env)
          /\ WF_vars(k \in DOMAIN conn /\ client_exit(k) /\ UNCHANGED env)
          /\ \A s \in Side :
                WF_vars(k \in DOMAIN conn /\ client_open(k, s) /\ UNCHANGED env)

FairSpec == Spec /\ Fairness

-----------------------------------------------------------------------------
Pc == {"accepted", "hgets", "get_token", "create_io", "create_err", "std_io_err",
       "connect_io", "connect_err", "inherit", "create_process", "wait",
       "return_code", "finish", "done"}

Pipes ==
    [st : {"none", "listening", "connected", "broken", "disconnected"},
     peer : 0 .. MaxConn, held : SUBSET (0 .. MaxConn), inherit : BOOLEAN]

Connections ==
    [pc : Pc, nr : 0 .. env.nrSpace - 1, proc : {"none", "running", "ended"},
     armed : BOOLEAN, client : {"up", "gone"}, told : BOOLEAN, opened : SUBSET Side,
     abort : BOOLEAN, pipe : [Side -> Pipes]]

\* The types; in particular a pipe number is a DWORD (cmd_run).
TypeOK ==
    /\ env \in Scenarios
    /\ svc \in [pid : 1 .. MaxStarts, conn_number : 0 .. MaxConn,
                loop : {"create", "listen", "connected", "ended", "stopped"}]
    /\ conn \in Seq(Connections)

\* A process has fewer connections than there are numbers beside its id, and
\* the ids of all processes fit beside them.
NumbersSuffice ==
    /\ env.conns < env.connSpace
    /\ (env.starts + 1) * env.connSpace <= env.nrSpace

\* "Send handle to client (it will use it to connect pipes)": whatever client
\* is connected to the pipes of a connection is the client of that connection,
\* also when pipe numbers repeat and threads of dead clients keep theirs.  Only
\* numbers of different service processes must differ: a client that was told
\* its number and has not opened its pipes when the service is stopped would
\* find those of the next process.
OwnPipes ==
    env.starts = 1 \/ NumbersSuffice =>
        \A k \in DOMAIN conn : \A s \in Side :
            conn[k].pipe[s].st = "connected" => conn[k].pipe[s].peer = k

\* The number of a connection is free when its pipes are created, although
\* threads of dead clients, processes that have inherited handles and earlier
\* services keep pipes open (changes, 0.74 and 0.75: the process id and the
\* connection number in the name are there for that).
NumberFree ==
    NumbersSuffice =>
        \A k \in DOMAIN conn :
            /\ conn[k].pc = "create_io" => NameFree("io", conn[k].nr)
            /\ conn[k].pc = "create_err" => NameFree("err", conn[k].nr)

\* A client that has connected is never left waiting for anything but its own
\* process, and not even for that once it has asked for the end of it,
\* whatever the other clients do.
Served ==
    \A k \in 1 .. MaxConn :
        LET running == k \in DOMAIN conn /\ conn[k].proc = "running" /\ ~conn[k].abort
        IN  k \in DOMAIN conn /\ ~running
            ~> running \/ (k \in DOMAIN conn /\ conn[k].client = "gone")

\* ConnectNamedPipe, without a time limit, waits for a client that is gone, or
\* the read of the control pipe failed before the wait.
Stuck(k) ==
    \/ conn[k].pc = "connect_io" /\ conn[k].pipe["io"].st = "listening"
    \/ conn[k].pc = "connect_err" /\ conn[k].pipe["err"].st = "listening"
    \/ conn[k].pc = "wait" /\ ~conn[k].armed /\ conn[k].proc = "running"

\* The thread of a client that is gone ends, its process killed, unless the
\* client left at one of the moments when the thread cannot notice.
ThreadsEnd ==
    \A k \in 1 .. MaxConn :
        k \in DOMAIN conn /\ conn[k].client = "gone"
        ~> k \in DOMAIN conn /\ (conn[k].pc = "done" \/ Stuck(k))
=============================================================================
