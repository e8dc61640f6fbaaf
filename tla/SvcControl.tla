----------------------------- MODULE SvcControl -----------------------------
(***************************************************************************)
(* Installation and removal of winexesvc (winexe/service.c) by several     *)
(* winexe clients at once, one action per remote call, against the service *)
(* control manager (SCM), the file winexesvc.exe on ADMIN$ and the service *)
(* process (winexesvc/service.c).  Which of svc_install and svc_uninstall  *)
(* a client calls, and what it makes of their results, is winexe.c: main,  *)
(* on_ctrl_pipe_error, on_ctrl_pipe_close, exit_program.  The session on   *)
(* the pipes is reduced to opening the control pipe and learning the       *)
(* version of the service; module WinexeSession has the rest.              *)
(*                                                                         *)
(* An image is "old" (another version: it will be replaced), "compat" (it  *)
(* differs in the last digit), "new" (the client's own) or "partial" (an   *)
(* upload that is not complete).                                           *)
(***************************************************************************)
EXTENDS Integers, FiniteSets

CONSTANTS Client,    \* the winexe processes
          Scenarios  \* who is there and what may happen, see Scenario

Complete == {"old", "compat", "new"}

Options == [reinstall : BOOLEAN, uninstall : BOOLEAN,
            interactive : {"ignore", "deny", "allow"}]

\* One environment for a whole behaviour: the clients that run in it, the
\* command line options they may have, what winexesvc.exe may be at first,
\* whether a stopped service process always ends within 300 ms, and the kinds
\* of failure that may happen.
Scenario ==
    [clients : (SUBSET Client) \ {{}}, options : SUBSET Options,
     files : SUBSET (Complete \cup {"none", "partial"}),
     promptExit : BOOLEAN, faults : SUBSET {"call", "crash", "start"}]

ASSUME ScenariosAssumption == Scenarios \subseteq Scenario

VARIABLES env,     \* the scenario
          cl,      \* the clients, see InitClient
          scm,     \* the service in the SCM's database
          file,    \* winexesvc.exe
          proc,    \* the service process
          exiting  \* a process of a stopped service has not ended yet

vars == <<env, cl, scm, file, proc, exiting>>

NoService == [exists |-> FALSE, marked |-> FALSE, interactive |-> FALSE,
              state |-> "STOPPED"]
NoProcess == [image |-> "none", interactive |-> FALSE, pipe |-> FALSE]

(***************************************************************************)
(* pc is the next remote call; ret says who called svc_(un)install; result *)
(* is how the last one ended; handles counts the open handles to the       *)
(* service and writing says that winexesvc.exe is open for writing, what   *)
(* early returns leave behind included; ran is the image of the service    *)
(* that executed the command.                                              *)
(***************************************************************************)
InitClient(opt) ==
    [opt |-> opt, pc |-> "open", ret |-> "main", result |-> "ok", handles |-> 0,
     writing |-> FALSE, activated |-> FALSE, ran |-> "none"]

At(c, pc) == cl[c].pc = pc

-----------------------------------------------------------------------------
(***************************************************************************)
(* winexe.c                                                                *)
(***************************************************************************)

svc_install(r, ret) == [r EXCEPT !.pc = "upload", !.ret = ret]

svc_uninstall(r, ret) == [r EXCEPT !.pc = "u_open", !.ret = ret]

async_open(r) == [r EXCEPT !.pc = "open"]

\* The end of the process closes its connections and their handles.
Exit(r) == [r EXCEPT !.pc = "gone", !.handles = 0, !.writing = FALSE]

exit_program(r) == IF r.opt.uninstall THEN svc_uninstall(r, "exit") ELSE Exit(r)

\* main before the connection to IPC$ is made.
main_install(r) ==
    IF r.opt.interactive = "ignore" THEN async_open(r) ELSE svc_install(r, "open")

main(opt) ==
    IF opt.reinstall THEN svc_uninstall(InitClient(opt), "main")
                     ELSE main_install(InitClient(opt))

\* The error of an open: the service is installed, once.
on_ctrl_pipe_error(r) ==
    IF r.activated THEN exit_program(r) ELSE svc_install(r, "error")

installed_on_error(r) ==
    IF r.result = "ok" THEN async_open([r EXCEPT !.activated = TRUE])
                       ELSE exit_program(r)

\* The control pipe of an outdated service has been closed.
on_ctrl_pipe_close(r) == svc_uninstall(r, "close")

\* svc_install or svc_uninstall returns, and its caller goes on.
Return(r, result) ==
    LET q == [r EXCEPT !.result = result]
    IN  CASE r.ret = "main" -> main_install(q)
          [] r.ret = "open" -> async_open(q)
          [] r.ret = "close" -> svc_install(q, "open")
          [] r.ret = "exit" -> Exit(q)
          [] r.ret = "error" -> installed_on_error(q)

Fail(r) == Return(r, "call failed")

Goto(r, pc) == [r EXCEPT !.pc = pc]

\* Client c becomes r and the service s; a service marked for deletion goes
\* when it is stopped and the last handle to it is closed.
Become(c, r, s) ==
    LET new == [cl EXCEPT ![c] = r]
    IN  /\ cl' = new
        /\ scm' = IF /\ s.marked /\ s.state = "STOPPED"
                     /\ \A d \in env.clients : new[d].handles = 0
                  THEN NoService ELSE s

HostSame == UNCHANGED <<file, proc, exiting>>

\* The client opens the control pipe and asks for the version.
open_pipe(c) ==
    LET r == cl[c]
    IN  /\ At(c, "open")
        /\ \/ /\ proc.pipe
              /\ Become(c, IF proc.image = "old"
                           THEN on_ctrl_pipe_close(r)
                           ELSE [Goto(r, "run") EXCEPT !.ran = proc.image], scm)
           \* no instance is free, or it is that of a process that is ending
           \/ (proc.pipe \/ exiting) /\ Become(c, exit_program(r), scm)
           \/ ~proc.pipe /\ Become(c, on_ctrl_pipe_error(r), scm)
        /\ HostSame

run(c) == At(c, "run") /\ Become(c, exit_program(cl[c]), scm) /\ HostSame

\* A client is killed.
crash(c) ==
    /\ "crash" \in env.faults
    /\ cl[c].pc \notin {"gone", "crashed"}
    /\ Become(c, [Exit(cl[c]) EXCEPT !.pc = "crashed"], scm)
    /\ HostSame

-----------------------------------------------------------------------------
(***************************************************************************)
(* svc_UploadService                                                       *)
(***************************************************************************)

InUse == proc # NoProcess \/ exiting

Writing == \E d \in env.clients : cl[d].writing

\* smbcli_unlink fails while the file is executed or open for writing.
smbcli_unlink == file' = IF InUse \/ Writing THEN file ELSE "none"

\* Mutant: SVC_FORCE_UPLOAD is not looked at.
svc_UploadService_lazy(c) ==
    /\ At(c, "upload")
    /\ Become(c, Goto(cl[c], IF file # "none" THEN "OpenService" ELSE "savefile"), scm)
    /\ HostSame

svc_UploadService(c) ==
    /\ At(c, "upload")
    /\ IF cl[c].opt.reinstall
       THEN smbcli_unlink /\ Become(c, Goto(cl[c], "savefile"), scm)
       ELSE /\ Become(c, Goto(cl[c], IF file # "none" THEN "OpenService"
                                                      ELSE "savefile"), scm)
            /\ UNCHANGED file
    /\ UNCHANGED <<proc, exiting>>

\* smb_composite_savefile opens the file for writing: this creates it, but
\* does not truncate one that exists.
savefile_open(c) ==
    /\ At(c, "savefile")
    /\ IF InUse
       THEN Become(c, Fail(cl[c]), scm) /\ UNCHANGED file
       ELSE /\ Become(c, [Goto(cl[c], "write") EXCEPT !.writing = TRUE], scm)
            /\ file' = IF file = "none" THEN "partial" ELSE file
    /\ UNCHANGED <<proc, exiting>>

\* The first of several writes, and the rest of them.  Clients that write at
\* the same time write the same bytes.
savefile_write(c) ==
    /\ \/ /\ At(c, "write")
          /\ file' = IF file = "new" THEN "new" ELSE "partial"
          /\ Become(c, Goto(cl[c], "write_rest"), scm)
       \/ /\ At(c, "write_rest")
          /\ file' = "new"
          /\ Become(c, Goto(cl[c], "close"), scm)
    /\ UNCHANGED <<proc, exiting>>

savefile_close(c) ==
    /\ At(c, "close")
    /\ Become(c, [Goto(cl[c], "OpenService") EXCEPT !.writing = FALSE], scm)
    /\ HostSame

-----------------------------------------------------------------------------
(***************************************************************************)
(* svc_install                                                             *)
(***************************************************************************)

Opened(r) == [r EXCEPT !.handles = @ + 1]

\* Where svc_install goes on when it did not set need_start: without
\* SVC_IGNORE_INTERACTIVE it reads the uninitialised variable.
StartOrNot(r) ==
    {Goto(r, "StartService")} \cup
    {Goto(r, "poll_start") : i \in {r.opt.interactive} \ {"ignore"}}

svc_OpenService(c) ==
    /\ At(c, "OpenService")
    /\ Become(c, CASE ~scm.exists -> Goto(cl[c], "CreateService")
                   [] scm.exists /\ cl[c].opt.interactive = "ignore" ->
                        Opened(Goto(cl[c], "StartService"))
                   [] OTHER -> Opened(Goto(cl[c], "QueryServiceStatus")), scm)
    /\ HostSame

svc_CreateService(c) ==
    /\ At(c, "CreateService")
    /\ IF scm.exists
       THEN Become(c, Fail(cl[c]), scm)
       ELSE \E r \in StartOrNot(Opened(cl[c])) :
               Become(c, r, [NoService EXCEPT
                                !.exists = TRUE,
                                !.interactive = r.opt.interactive = "allow"])
    /\ HostSame

\* Mutant: a service that may use the desktop is left as it is.
svc_QueryServiceStatus_lax(c) ==
    /\ At(c, "QueryServiceStatus")
    /\ IF ~scm.interactive /\ cl[c].opt.interactive = "allow"
       THEN Become(c, Goto(cl[c], IF scm.state = "STOPPED" THEN "ChangeServiceConfig"
                                                           ELSE "ControlService"), scm)
       ELSE \E r \in StartOrNot(cl[c]) : Become(c, r, scm)
    /\ HostSame

svc_QueryServiceStatus(c) ==
    /\ At(c, "QueryServiceStatus")
    /\ IF scm.interactive # (cl[c].opt.interactive = "allow")
       THEN Become(c, Goto(cl[c], IF scm.state = "STOPPED" THEN "ChangeServiceConfig"
                                                           ELSE "ControlService"), scm)
       ELSE \E r \in StartOrNot(cl[c]) : Become(c, r, scm)
    /\ HostSame

\* The SCM passes a stop on to a running service, and refuses any other.
StopAccepted == scm.state = "RUNNING"
StopPending == [scm EXCEPT !.state = "STOP_PENDING"]

svc_ControlService(c) ==
    /\ At(c, "ControlService")
    /\ IF StopAccepted
       THEN Become(c, Goto(cl[c], "ChangeServiceConfig"), StopPending)
       ELSE Become(c, Fail(cl[c]), scm)
    /\ HostSame

svc_ChangeServiceConfig(c) ==
    /\ At(c, "ChangeServiceConfig")
    /\ IF scm.marked
       THEN Become(c, Fail(cl[c]), scm)
       ELSE Become(c, Goto(cl[c], "poll_stop"),
                   [scm EXCEPT !.interactive = cl[c].opt.interactive = "allow"])
    /\ HostSame

\* The polling loops end with the first query that shows another state.
poll_stop(c) ==
    /\ At(c, "poll_stop")
    /\ scm.state # "STOP_PENDING"
    /\ Become(c, Goto(cl[c], "StartService"), scm)
    /\ HostSame

svc_StartService(c) ==
    /\ At(c, "StartService")
    /\ IF /\ ~scm.marked /\ scm.state = "STOPPED"
          /\ file \in Complete /\ ~Writing
       THEN /\ Become(c, Goto(cl[c], "poll_start"), [scm EXCEPT !.state = "START_PENDING"])
            /\ proc' = [image |-> file, interactive |-> scm.interactive, pipe |-> FALSE]
       ELSE Become(c, Fail(cl[c]), scm) /\ UNCHANGED proc
    /\ UNCHANGED <<file, exiting>>

\* Mutant: waits for the service to run.
poll_start_until_running(c) ==
    /\ At(c, "poll_start")
    /\ scm.state = "RUNNING"
    /\ Become(c, Goto(cl[c], "CloseServiceHandle"), scm)
    /\ HostSame

\* A service that does not run leaves the handle open.
poll_start(c) ==
    /\ At(c, "poll_start")
    /\ scm.state # "START_PENDING"
    /\ Become(c, IF scm.state = "RUNNING" THEN Goto(cl[c], "CloseServiceHandle")
                                          ELSE Return(cl[c], "not running"), scm)
    /\ HostSame

svc_CloseServiceHandle(c) ==
    /\ At(c, "CloseServiceHandle")
    /\ Become(c, Return([cl[c] EXCEPT !.handles = @ - 1], "ok"), scm)
    /\ HostSame

-----------------------------------------------------------------------------
(***************************************************************************)
(* svc_uninstall.  The results of stopping and deleting are not looked at. *)
(***************************************************************************)

u_open(c) ==
    /\ At(c, "u_open")
    /\ Become(c, IF scm.exists THEN Opened(Goto(cl[c], "u_stop")) ELSE Fail(cl[c]), scm)
    /\ HostSame

u_stop(c) ==
    /\ At(c, "u_stop")
    /\ \/ Become(c, Goto(cl[c], "u_poll"), IF StopAccepted THEN StopPending ELSE scm)
       \/ "call" \in env.faults /\ Become(c, Goto(cl[c], "u_poll"), scm)
    /\ HostSame

\* Mutant: the status is asked for only once.
u_poll_once(c) ==
    /\ At(c, "u_poll")
    /\ Become(c, IF scm.state = "STOPPED" THEN Goto(cl[c], "u_delete")
                                          ELSE Return(cl[c], "not stopped"), scm)
    /\ HostSame

u_poll(c) ==
    /\ At(c, "u_poll")
    /\ scm.state # "STOP_PENDING"
    /\ Become(c, IF scm.state = "STOPPED" THEN Goto(cl[c], "u_delete")
                                          ELSE Return(cl[c], "not stopped"), scm)
    /\ HostSame

u_delete(c) ==
    /\ At(c, "u_delete")
    /\ \/ Become(c, Goto(cl[c], "u_close"), [scm EXCEPT !.marked = TRUE])
       \/ "call" \in env.faults /\ Become(c, Goto(cl[c], "u_close"), scm)
    /\ HostSame

\* Mutant: both handles are closed through the service's.
u_close_twice(c) ==
    /\ At(c, "u_close")
    /\ Become(c, [Goto(cl[c], "u_unlink") EXCEPT !.handles = @ - 2], scm)
    /\ HostSame

u_close(c) ==
    /\ At(c, "u_close")
    /\ Become(c, [Goto(cl[c], "u_unlink") EXCEPT !.handles = @ - 1], scm)
    /\ HostSame

\* After a pause of 300 ms.
u_unlink(c) ==
    /\ At(c, "u_unlink")
    /\ env.promptExit => ~exiting
    /\ smbcli_unlink
    /\ Become(c, Return(cl[c], "ok"), scm)
    /\ UNCHANGED <<proc, exiting>>

\* A call whose result is looked at fails: the connection it needs cannot be
\* made, access is denied, the disk is full.
NT_ERR(c) ==
    /\ "call" \in env.faults
    /\ cl[c].pc \in {"upload", "savefile", "write", "write_rest", "close",
                     "OpenService", "CreateService", "QueryServiceStatus",
                     "ControlService", "ChangeServiceConfig", "poll_stop",
                     "StartService", "poll_start", "u_open", "u_poll", "u_unlink"}
    /\ Become(c, Fail(cl[c]), scm)
    /\ HostSame

ClientStep(c) ==
    \/ open_pipe(c) \/ run(c)
    \/ svc_UploadService(c) \/ savefile_open(c) \/ savefile_write(c) \/ savefile_close(c)
    \/ svc_OpenService(c) \/ svc_CreateService(c) \/ svc_QueryServiceStatus(c)
    \/ svc_ControlService(c) \/ svc_ChangeServiceConfig(c) \/ poll_stop(c)
    \/ svc_StartService(c) \/ poll_start(c) \/ svc_CloseServiceHandle(c)
    \/ u_open(c) \/ u_stop(c) \/ u_poll(c) \/ u_delete(c) \/ u_close(c) \/ u_unlink(c)

-----------------------------------------------------------------------------
(***************************************************************************)
(* The service process.                                                    *)
(***************************************************************************)

\* The process is gone for the SCM; it has to wind up before it ends.
Stopped(s) ==
    /\ scm' = IF s.marked /\ \A d \in env.clients : cl[d].handles = 0
              THEN NoService ELSE [s EXCEPT !.state = "STOPPED"]
    /\ proc' = NoProcess
    /\ exiting' = TRUE
    /\ UNCHANGED <<cl, file>>

winexesvcStart ==
    /\ scm.state = "START_PENDING"
    /\ \/ /\ scm' = [scm EXCEPT !.state = "RUNNING"]
          /\ UNCHANGED <<cl, file, proc, exiting>>
       \/ "start" \in env.faults /\ ~proc.pipe /\ Stopped(scm)

\* server_loop, in the thread winexesvcStart has created, makes the pipe.
server_loop ==
    /\ proc # NoProcess
    /\ ~proc.pipe
    /\ proc' = [proc EXCEPT !.pipe = TRUE]
    /\ UNCHANGED <<cl, scm, file, exiting>>

winexesvcCtrlHandler == scm.state = "STOP_PENDING" /\ Stopped(scm)

\* main of the service returns.
process_exit == exiting /\ exiting' = FALSE /\ UNCHANGED <<cl, scm, file, proc>>

Service == winexesvcStart \/ server_loop \/ winexesvcCtrlHandler \/ process_exit

-----------------------------------------------------------------------------
\* The host has no service, a stopped one, or one that is up.
InitialService(up, interactive) ==
    [exists |-> TRUE, marked |-> FALSE, interactive |-> interactive,
     state |-> IF up THEN "RUNNING" ELSE "STOPPED"]

Init ==
    /\ env \in Scenarios
    /\ \E opt \in [env.clients -> env.options] :
          cl = [c \in env.clients |-> main(opt[c])]
    /\ file \in env.files
    /\ exiting = FALSE
    /\ \/ scm = NoService /\ proc = NoProcess
       \/ \E i \in BOOLEAN : scm = InitialService(FALSE, i) /\ proc = NoProcess
       \/ \E i \in BOOLEAN :
             /\ file \in Complete
             /\ scm = InitialService(TRUE, i)
             /\ proc = [image |-> file, interactive |-> i, pipe |-> TRUE]

Next ==
    /\ \/ \E c \in env.clients : ClientStep(c) \/ crash(c) \/ NT_ERR(c)
       \/ Service
    /\ UNCHANGED env

Spec == Init /\ [][Next]_vars

\* Clients and the service process run on; the polling loops sleep and ask
\* again.  Nothing is assumed of failures.
Fairness ==
    /\ \A c \in Client : WF_vars(c \in env.clients /\ ClientStep(c) /\ UNCHANGED env)
    /\ WF_vars(winexesvcStart /\ UNCHANGED env)
    /\ WF_vars(server_loop /\ UNCHANGED env)
    /\ WF_vars(winexesvcCtrlHandler /\ UNCHANGED env)
    /\ WF_vars(process_exit /\ UNCHANGED env)

FairSpec == Spec /\ Fairness

-----------------------------------------------------------------------------
Calls ==
    {"open", "run", "gone", "crashed", "upload", "savefile", "write", "write_rest",
     "close", "OpenService", "CreateService", "QueryServiceStatus", "ControlService",
     "ChangeServiceConfig", "poll_stop", "StartService", "poll_start",
     "CloseServiceHandle", "u_open", "u_stop", "u_poll", "u_delete", "u_close", "u_unlink"}

TypeOK ==
    /\ env \in Scenarios
    /\ cl \in [env.clients ->
                 [opt : env.options, pc : Calls,
                  ret : {"main", "open", "close", "exit", "error"},
                  result : {"ok", "call failed", "not running", "not stopped"},
                  handles : Nat, writing : BOOLEAN, activated : BOOLEAN,
                  ran : Complete \cup {"none"}]]
    /\ scm \in [exists : BOOLEAN, marked : BOOLEAN, interactive : BOOLEAN,
                state : {"STOPPED", "START_PENDING", "RUNNING", "STOP_PENDING"}]
    /\ file \in {"none", "partial"} \cup Complete
    /\ proc \in [image : Complete \cup {"none"}, interactive : BOOLEAN, pipe : BOOLEAN]
    /\ exiting \in BOOLEAN

\* A client that nobody disturbs: no other client, no call that fails.
Undisturbed(c) == env.clients = {c} /\ env.faults \subseteq {"start"}

\* --reinstall, "Reinstall winexe service before remote execution": the command
\* of an undisturbed client is not executed by a service that was there before,
\* also if its version would do, although main looks at no result of
\* svc_uninstall.
FreshAfterReinstall ==
    \A c \in env.clients :
        Undisturbed(c) /\ cl[c].opt.reinstall => cl[c].ran \in {"none", "new"}

\* --interactive: the service that executes the command of an undisturbed
\* client was started with the access to the desktop it asked for, although
\* main looks at no result of svc_install.
TypeHonoured ==
    \A c \in env.clients :
        Undisturbed(c) /\ At(c, "run") /\ cl[c].opt.interactive # "ignore" =>
            proc.interactive = (cl[c].opt.interactive = "allow")

\* --uninstall, "Uninstall winexe service after remote execution": when all
\* clients have ended and wanted the service removed, neither the service nor
\* its file is left, although error returns leave handles open and clients
\* start what others are stopping.  This needs that no call fails, that no
\* client is killed, and that a stopped process ends within the 300 ms.
UninstallLeavesNothing ==
    /\ env.promptExit /\ env.faults \subseteq {"start"}
    /\ \A c \in env.clients : At(c, "gone") /\ cl[c].opt.uninstall
    => ~scm.exists /\ file = "none"

\* winexe/service.c, above svc_install: "Start, Creates, Install service if
\* necccesary": if none of its calls fails, the service runs.
InstallStarts == \A c \in env.clients : cl[c].result # "not running"

\* No polling loop keeps a client forever, whatever calls fail and whatever a
\* second client does meanwhile.  Replacing an outdated service ends too, for a
\* client that is alone and whose stopped service ends within the 300 ms; with a
\* slower one svc_install may start the old image again and again.
EveryClientEnds ==
    \A c \in Client : <>(c \in env.clients => cl[c].pc \in {"gone", "crashed"})
=============================================================================
