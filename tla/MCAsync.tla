------------------------------ MODULE MCAsync ------------------------------
(***************************************************************************)
(* Model-checking instance of AsyncPipe: a behaviour is one of the control *)
(* pipe (User = "ctrl", the constants of the configuration) or one of the  *)
(* I/O pipe, whose context has variables of its own.                       *)
(***************************************************************************)
EXTENDS AsyncPipe

CONSTANTS IoFnum, IoMaxMid     \* Fnum and MaxMid of the I/O pipe

VARIABLES pipe,                \* which of the two this behaviour is about
          ioAc, ioTransport, ioUser, ioSrv, ioReplies

Io == INSTANCE AsyncPipe WITH
    User <- "io", Fnum <- IoFnum, MaxMid <- IoMaxMid, ac <- ioAc,
    transport <- ioTransport, user <- ioUser, srv <- ioSrv, replies <- ioReplies

ioVars == <<ioAc, ioTransport, ioUser, ioSrv, ioReplies>>
allVars == <<vars, ioVars, pipe>>

EitherInit == Init /\ Io!Init /\ pipe \in {"ctrl", "io"}

CtrlNext == pipe = "ctrl" /\ Next /\ UNCHANGED <<ioVars, pipe>>
IoNext == pipe = "io" /\ Io!Next /\ UNCHANGED <<vars, pipe>>

Served(step, ioStep) ==
    \/ pipe = "ctrl" /\ step /\ UNCHANGED <<ioVars, pipe>>
    \/ pipe = "io" /\ ioStep /\ UNCHANGED <<vars, pipe>>

\* With AsyncPipe's fairness.
EitherSpec ==
    /\ EitherInit
    /\ [][CtrlNext \/ IoNext]_allVars
    /\ WF_allVars(Served(smbcli_transport_finish_recv, Io!smbcli_transport_finish_recv))
    /\ WF_allVars(Served(smbcli_transport_dead, Io!smbcli_transport_dead))
    /\ WF_allVars(Served(ServerStep, Io!ServerStep))
    /\ WF_allVars(Served(ServerCancel, Io!ServerCancel))

\* With any number of writes overlapping its read, each of which may fail, free
\* io_write and close the pipe again, the I/O pipe's rreq never names a freed
\* request, and every reply finds its block.
IoRequestsKept == Io!NoDanglingRequest /\ Io!NoNullDeref

\* Either pipe is given up when the service has disconnected it, also when the
\* error arrives among those of other requests.
DisconnectsHandled == DisconnectHandled /\ Io!DisconnectHandled
=============================================================================
