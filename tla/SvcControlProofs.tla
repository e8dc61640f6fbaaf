-------------------------- MODULE SvcControlProofs --------------------------
(***************************************************************************)
(* Proofs about SvcControl, for any number of clients with any options on  *)
(* a host in any state: type correctness, and that --uninstall,            *)
(* --reinstall and --interactive keep what they promise.                   *)
(***************************************************************************)
EXTENDS SvcControl, TLAPS

Saving == {"write", "write_rest", "close"}
Installing ==
    Saving \cup
    {"upload", "savefile", "OpenService", "CreateService", "QueryServiceStatus",
     "ControlService", "ChangeServiceConfig", "poll_stop", "StartService", "poll_start",
     "CloseServiceHandle"}
Uninstalling == {"u_open", "u_stop", "u_poll", "u_delete", "u_close", "u_unlink"}

\* The calls at which a client has a handle that it is going to close.
Holding ==
    {"QueryServiceStatus", "ControlService", "ChangeServiceConfig", "poll_stop",
     "StartService", "poll_start", "CloseServiceHandle",
     "u_stop", "u_poll", "u_delete", "u_close"}

Results == {"ok", "call failed", "not running", "not stopped"}
Clients ==
    [opt : env.options, pc : Calls, ret : {"main", "open", "close", "exit", "error"},
     result : Results, handles : Nat, writing : BOOLEAN,
     activated : BOOLEAN, ran : Complete \cup {"none"}]
States == {"STOPPED", "START_PENDING", "RUNNING", "STOP_PENDING"}
Services == [exists : BOOLEAN, marked : BOOLEAN, interactive : BOOLEAN, state : States]
Files == {"none", "partial"} \cup Complete
Processes == [image : Complete \cup {"none"}, interactive : BOOLEAN, pipe : BOOLEAN]

-----------------------------------------------------------------------------
(***************************************************************************)
(* The invariant.                                                          *)
(***************************************************************************)
\* What is known of a client on its own.
Local(r) ==
    /\ r \in Clients
    /\ r.pc \in Holding => r.handles > 0
    /\ r.pc \in {"gone", "crashed"} => r.handles = 0 /\ ~r.writing
    /\ r.pc \in Saving => r.writing
    /\ r.pc \in Installing => r.ret \in {"open", "error"}
    /\ r.pc \in Uninstalling => r.ret \in {"main", "close", "exit"}
    /\ r.ret = "exit" => r.pc \in Uninstalling \cup {"gone", "crashed"}
    /\ r.ret = "main" => ~r.activated

\* Open handles keep a service in the database, and only they keep one that is
\* stopped and marked for deletion.
Referenced ==
    /\ \A c \in env.clients : cl[c].handles > 0 => scm.exists
    /\ scm.marked /\ scm.state = "STOPPED" => \E c \in env.clients : cl[c].handles > 0

\* The process is that of the service, and its image is not touched.
Executed ==
    /\ proc = NoProcess <=> scm.state = "STOPPED"
    /\ proc # NoProcess => proc.image \in Complete /\ file \in Complete /\ ~Writing

Basic ==
    /\ env \in Scenarios
    /\ cl \in [env.clients -> Clients] /\ \A c \in env.clients : Local(cl[c])
    /\ scm \in Services /\ (~scm.exists => scm = NoService)
    /\ file \in Files /\ proc \in Processes /\ exiting \in BOOLEAN
    /\ Referenced /\ Executed

\* No call fails, nobody is killed, and all clients remove the service.
Calm ==
    /\ env.promptExit /\ env.faults \subseteq {"start"}
    /\ \A c \in env.clients : cl[c].opt.uninstall

\* The client has not yet tried to stop the service for the last time.
Before(r) == r.pc \in {"u_open", "u_stop"} \/ (r.ret # "exit" /\ r.pc # "gone")

\* The client has a handle other than the one it is about to close.
Keeps(r) == r.handles > (IF r.pc = "CloseServiceHandle" THEN 1 ELSE 0)

\* The client will delete the file, if the service s is going or gone.
Cleans(s, e, r) ==
    \/ r.pc \in Saving \cup {"u_unlink", "OpenService"}
    \/ Keeps(r)
    \/ ~s.exists /\ r.pc = "CreateService"
    \/ /\ ~s.exists /\ ~e
       /\ \/ r.pc \in {"upload", "savefile"}
          \/ r.pc = "open" /\ ~r.activated
          \/ r.pc = "u_open" /\ r.ret # "exit"

Going(s) == s.state = "STOPPED" /\ (s.marked \/ ~s.exists)

\* Client r will bring about the next step to the removal of service s and of
\* the file.
InCharge(s, e, r) ==
    /\ s.state = "START_PENDING" => r.pc = "poll_start"
    /\ s.state = "RUNNING" => Before(r)
    /\ s.state = "STOP_PENDING" => Keeps(r) /\ r.pc \notin {"u_delete", "u_close", "u_unlink"}
    /\ s.state = "STOPPED" /\ ~Going(s) => Before(r) \/ r.pc \in {"u_poll", "u_delete"}
    /\ Going(s) => Cleans(s, e, r)

Attended(s, f, e, clients) ==
    ~(Going(s) /\ f = "none") => \E c \in env.clients : InCharge(s, e, clients[c])

Responsible ==
    /\ \A c \in env.clients : cl[c].writing => cl[c].pc \in Saving
    /\ Attended(scm, file, exiting, cl)

\* The states of the service in which a client that is alone makes a call.
StatesAt(pc) ==
    CASE pc \in {"open", "upload", "savefile", "OpenService", "QueryServiceStatus",
                 "StartService", "u_open", "u_stop"} -> {"STOPPED", "RUNNING"}
      [] pc \in {"run", "ControlService", "CloseServiceHandle"} -> {"RUNNING"}
      [] pc \in Saving \cup {"CreateService", "u_delete", "u_close", "u_unlink"} -> {"STOPPED"}
      [] pc \in {"ChangeServiceConfig", "poll_stop", "u_poll"} -> {"STOPPED", "STOP_PENDING"}
      [] pc = "poll_start" -> {"STOPPED", "START_PENDING", "RUNNING"}
      [] OTHER -> States

Alone(s, r) ==
    /\ s.state \in StatesAt(r.pc)
    /\ s.marked => s.state = "STOPPED"
    /\ r.pc = "CreateService" => ~s.exists

\* The client is removing the service before it does anything else.
Clearing(r) == r.ret = "main" /\ r.pc \in Uninstalling

\* What --reinstall promises: once it is through with removing the service,
\* there is no process but of the image it has written.
Fresh(f, p, r) ==
    /\ r.ran \in {"none", "new"}
    /\ p = NoProcess \/ p.image = "new" \/ Clearing(r)
    /\ r.pc \in {"close", "OpenService", "CreateService", "QueryServiceStatus",
                 "ControlService", "ChangeServiceConfig", "poll_stop", "StartService"} =>
          f = "new"

\* What --interactive promises: once svc_install has been through, there is no
\* process but of the type asked for.
Honoured(s, p, r) ==
    LET want == r.opt.interactive = "allow"
    IN  /\ \/ p = NoProcess \/ p.interactive = want
           \/ Clearing(r)
           \/ r.pc = "upload" /\ ~r.opt.reinstall /\ r.ret = "open"
           \/ r.pc \in {"OpenService", "CreateService", "QueryServiceStatus", "ControlService",
                        "ChangeServiceConfig", "poll_stop", "gone"}
        /\ r.pc \in {"poll_stop", "StartService"} => s.interactive = want
        /\ p # NoProcess /\ r.pc # "poll_stop" => p.interactive = s.interactive

Lone(s, f, p, r) ==
    /\ Alone(s, r)
    /\ r.opt.reinstall => Fresh(f, p, r)
    /\ r.opt.interactive # "ignore" => Honoured(s, p, r)

IInv ==
    /\ Basic
    /\ Calm => Responsible
    /\ \A c \in env.clients : Undisturbed(c) => Lone(scm, file, proc, cl[c])

-----------------------------------------------------------------------------
(***************************************************************************)
(* What happens to the record of a client.                                 *)
(***************************************************************************)
Turned(r, q, pc, ret) ==
    /\ q \in Clients /\ q.pc = pc /\ q.ret = ret /\ q.opt = r.opt /\ q.handles = r.handles
    /\ q.writing = r.writing /\ q.activated = r.activated /\ q.ran = r.ran

Left(r, q, pc) ==
    /\ q \in Clients /\ q.pc = pc /\ q.ret = r.ret /\ q.opt = r.opt /\ q.handles = 0
    /\ ~q.writing /\ q.activated = r.activated /\ q.ran = r.ran

\* The service was installed because the pipe was not there.
Installed(r, q) ==
    /\ q \in Clients /\ q.pc = "open" /\ q.ret = "error" /\ q.opt = r.opt
    /\ q.handles = r.handles /\ q.writing = r.writing /\ q.activated /\ q.ran = r.ran

\* The next call.
LEMMA GotoFacts ==
    ASSUME NEW r \in Clients, NEW pc \in Calls
    PROVE  Turned(r, Goto(r, pc), pc, r.ret)
  BY DEF Goto, Clients, Turned

\* The end of a client.
LEMMA ExitFacts ==
    ASSUME NEW r \in Clients
    PROVE  /\ Left(r, Exit(r), "gone")
           /\ Left(r, [Exit(r) EXCEPT !.pc = "crashed"], "crashed")
  BY DEF Exit, Clients, Left, Calls

\* exit_program removes the service or ends the client.
LEMMA ExitProgramFacts ==
    ASSUME NEW r \in Clients
    PROVE  /\ r.opt.uninstall => Turned(r, exit_program(r), "u_open", "exit")
           /\ ~r.opt.uninstall => Left(r, exit_program(r), "gone")
  <1>1. Turned(r, svc_uninstall(r, "exit"), "u_open", "exit")
    BY DEF svc_uninstall, Clients, Turned, Calls
  <1> QED BY <1>1, ExitFacts DEF exit_program

\* main and the callbacks of the control pipe call a function.
LEMMA CallFacts ==
    ASSUME NEW r \in Clients
    PROVE  /\ Turned(r, on_ctrl_pipe_close(r), "u_open", "close")
           /\ Turned(r, svc_install(r, "error"), "upload", "error")
           /\ Turned(r, svc_install(r, "open"), "upload", "open")
           /\ Turned(r, async_open(r), "open", r.ret)
  BY DEF svc_uninstall, svc_install, async_open, on_ctrl_pipe_close, Clients, Turned, Calls

\* svc_install or svc_uninstall returns.
Returned(r, q, result) ==
    /\ r.ret = "main" /\ r.opt.interactive = "ignore" => Turned(r, q, "open", "main")
    /\ r.ret = "main" /\ r.opt.interactive # "ignore" => Turned(r, q, "upload", "open")
    /\ r.ret = "open" => Turned(r, q, "open", "open")
    /\ r.ret = "close" => Turned(r, q, "upload", "open")
    /\ r.ret = "exit" => Left(r, q, "gone")
    /\ r.ret = "error" /\ result = "ok" => Installed(r, q)
    /\ r.ret = "error" /\ result # "ok" /\ r.opt.uninstall => Turned(r, q, "u_open", "exit")
    /\ r.ret = "error" /\ result # "ok" /\ ~r.opt.uninstall => Left(r, q, "gone")

\* Where the caller of svc_install and svc_uninstall goes on.
LEMMA ReturnFacts ==
    ASSUME NEW r \in Clients,
           NEW result \in Results
    PROVE  Returned(r, Return(r, result), result)
  <1> DEFINE p == [r EXCEPT !.result = result]
  <1>1. /\ p \in Clients /\ p.ret = r.ret /\ p.opt = r.opt /\ p.result = result
        /\ \A q, pc, ret : Turned(p, q, pc, ret) => Turned(r, q, pc, ret)
        /\ \A q, pc : Left(p, q, pc) => Left(r, q, pc)
    BY DEF Clients, Turned, Left
  <1>2. r.ret = "error" => Installed(r, async_open([p EXCEPT !.activated = TRUE]))
    BY DEF Clients, Installed, async_open, Calls
  <1>4. r.ret \in {"main", "open", "close", "exit", "error"}
    BY DEF Clients
  <1>5. Return(r, result) = CASE r.ret = "main" -> main_install(p)
                              [] r.ret = "open" -> async_open(p)
                              [] r.ret = "close" -> svc_install(p, "open")
                              [] r.ret = "exit" -> Exit(p)
                              [] r.ret = "error" -> installed_on_error(p)
    BY DEF Return
  <1> HIDE DEF p
  <1>6. CASE r.ret = "main"
    BY <1>1, <1>5, <1>6, CallFacts DEF Returned, main_install
  <1>7. CASE r.ret = "open"
    BY <1>1, <1>5, <1>7, CallFacts DEF Returned
  <1>8. CASE r.ret = "close"
    BY <1>1, <1>5, <1>8, CallFacts DEF Returned
  <1>9. CASE r.ret = "exit"
    BY <1>1, <1>5, <1>9, ExitFacts DEF Returned
  <1>10. CASE r.ret = "error"
    BY <1>1, <1>2, <1>5, <1>10, ExitProgramFacts DEF Returned, installed_on_error
  <1> QED BY <1>4, <1>6, <1>7, <1>8, <1>9, <1>10

-----------------------------------------------------------------------------
(***************************************************************************)
(* A client acts.                                                          *)
(***************************************************************************)
Became(c, q, s) ==
    /\ cl' \in [env.clients -> Clients] /\ cl'[c] = q
    /\ \A d \in env.clients : d # c => cl'[d] = cl[d]
    /\ \/ /\ scm' = s
          /\ s.marked /\ s.state = "STOPPED" => \E d \in env.clients : cl'[d].handles # 0
       \/ /\ scm' = NoService /\ s.marked /\ s.state = "STOPPED"
          /\ \A d \in env.clients : cl'[d].handles = 0

\* Become only changes the client, and the service it is given.
LEMMA BecomeFacts ==
    ASSUME cl \in [env.clients -> Clients], NEW c \in env.clients, NEW q \in Clients, NEW s,
           Become(c, q, s)
    PROVE  Became(c, q, s)
  BY DEF Become, Became

\* What the service may become when a client acts.
Sensible(s, q) ==
    /\ s \in Services /\ (~s.exists => s = NoService) /\ (scm.exists => s.exists)
    /\ q.handles > 0 => s.exists

\* What a step of a client has to keep for Basic,
LEMMA BasicStep ==
    ASSUME Basic, UNCHANGED env, NEW c \in env.clients, NEW q, NEW s, Become(c, q, s),
           Local(q), Sensible(s, q),
           file' \in Files, proc' \in Processes, exiting' \in BOOLEAN,
           proc' = NoProcess <=> s.state = "STOPPED",
           proc' # NoProcess =>
               /\ proc'.image \in Complete /\ file' \in Complete
               /\ ~q.writing /\ \A d \in env.clients : d # c => ~cl[d].writing
    PROVE  Basic' /\ Became(c, q, s)
  <1>1. Became(c, q, s)
    BY BecomeFacts DEF Basic, Local
  <1>2. Clients' = Clients /\ env' = env
    BY DEF Clients
  <1>3. \A d \in env.clients : cl'[d].handles \in Nat
    BY <1>1 DEF Became, Clients
  <1>4. ASSUME NEW d \in env.clients
        PROVE  Local(cl[d])'
    <2>1. Local(cl'[d])
      BY <1>1 DEF Basic, Became
    <2> QED BY <1>2, <2>1 DEF Local
  <1>5. /\ env' \in Scenarios /\ cl' \in [env'.clients -> Clients']
        /\ \A d \in env'.clients : Local(cl[d])'
    BY <1>1, <1>2, <1>4 DEF Basic, Became
  <1>6. scm' \in Services /\ (~scm'.exists => scm' = NoService)
    <2>1. scm' = s \/ scm' = NoService
      BY <1>1 DEF Became
    <2>2. NoService \in Services
      BY DEF NoService, Services, States
    <2> QED BY <2>1, <2>2 DEF Sensible
  <1>7. Referenced'
    <2>1. \A d \in env.clients : cl'[d].handles > 0 => s.exists
      BY <1>1 DEF Became, Sensible, Basic, Referenced
    <2>2. CASE /\ scm' = s
               /\ s.marked /\ s.state = "STOPPED" => \E d \in env.clients : cl'[d].handles # 0
      BY <1>2, <1>3, <2>1, <2>2 DEF Referenced
    <2>3. CASE scm' = NoService /\ \A d \in env.clients : cl'[d].handles = 0
      BY <1>2, <2>3 DEF Referenced, NoService
    <2> QED BY <1>1, <2>2, <2>3 DEF Became
  <1>8. Executed'
    <2>1. scm'.state = s.state
      BY <1>1 DEF Became, NoService
    <2>2. proc' # NoProcess => ~Writing'
      BY <1>1, <1>2 DEF Became, Writing
    <2> QED BY <2>1, <2>2 DEF Executed
  <1> QED BY <1>1, <1>5, <1>6, <1>7, <1>8 DEF Basic

\* for the removal of the service,
LEMMA ChargeStep ==
    ASSUME Basic, UNCHANGED env, NEW c \in env.clients, NEW q, NEW s, Became(c, q, s),
           Sensible(s, q),
           \/ Going(s) /\ file' = "none"
           \/ InCharge(s, exiting', q)
           \/ \E d \in env.clients : d # c /\ InCharge(s, exiting', cl[d])
    PROVE  Attended(scm', file', exiting', cl')
  <1>1. CASE Going(s) /\ file' = "none"
    BY <1>1 DEF Became, Attended, Going, NoService
  <1>2. CASE \E d \in env.clients : InCharge(s, exiting', cl'[d])
    <2>1. PICK d \in env.clients : InCharge(s, exiting', cl'[d])
      BY <1>2
    <2>2. CASE scm' = s
      BY <2>1, <2>2 DEF Attended
    <2>3. CASE scm' = NoService /\ s.marked /\ s.state = "STOPPED" /\ cl'[d].handles = 0
      <3>1. Cleans(s, exiting', cl'[d]) /\ s.exists
        BY <2>1, <2>3 DEF InCharge, Going, Sensible, NoService
      <3>2. ~Keeps(cl'[d])
        BY <2>3 DEF Keeps
      <3>3. InCharge(NoService, exiting', cl'[d])
        BY <3>1, <3>2 DEF Cleans, InCharge, Going, NoService
      <3> QED BY <2>3, <3>3 DEF Attended
    <2> QED BY <2>2, <2>3 DEF Became
  <1>3. InCharge(s, exiting', q) => InCharge(s, exiting', cl'[c])
    BY DEF Became
  <1>4. ASSUME NEW d \in env.clients, d # c, InCharge(s, exiting', cl[d])
        PROVE  InCharge(s, exiting', cl'[d])
    BY <1>4 DEF Became
  <1> QED BY <1>1, <1>2, <1>3, <1>4

\* and for a client that is alone.
LEMMA LoneStep ==
    ASSUME NEW c \in env.clients, NEW q, NEW s, Became(c, q, s), Local(q), Sensible(s, q),
           proc' = NoProcess <=> s.state = "STOPPED",
           Lone(s, file', proc', q)
    PROVE  Lone(scm', file', proc', q)
  <1>1. CASE scm' = s
    BY <1>1
  <1>2. CASE scm' = NoService /\ s.marked /\ s.state = "STOPPED" /\ q.handles = 0
    <2>1. q.pc \notin Holding /\ proc' = NoProcess
      BY <1>2 DEF Local
    <2>2. Alone(NoService, q)
      BY <1>2 DEF Lone, Alone, NoService
    <2>3. q.opt.interactive # "ignore" => Honoured(NoService, proc', q)
      BY <2>1 DEF Lone, Honoured, NoService, Holding
    <2> QED BY <1>2, <2>2, <2>3 DEF Lone
  <1> QED BY <1>1, <1>2 DEF Became

\* A step of client c that keeps each part of the invariant keeps it as a whole.
LEMMA Step ==
    ASSUME IInv, UNCHANGED env, NEW c \in env.clients, NEW q, NEW s, Become(c, q, s),
           Local(q), q.opt = cl[c].opt, Sensible(s, q),
           file' \in Files, proc' \in Processes, exiting' = exiting,
           proc' = NoProcess <=> s.state = "STOPPED",
           proc' # NoProcess =>
               /\ proc'.image \in Complete /\ file' \in Complete
               /\ ~q.writing /\ \A d \in env.clients : d # c => ~cl[d].writing,
           Calm => /\ q.writing => q.pc \in Saving
                   /\ \/ Going(s) /\ file' = "none"
                      \/ InCharge(s, exiting, q)
                      \/ \E d \in env.clients : d # c /\ InCharge(s, exiting, cl[d]),
           Undisturbed(c) => Lone(s, file', proc', q)
    PROVE  IInv'
  <1>1. Basic' /\ Became(c, q, s)
    BY BasicStep DEF IInv, Basic
  <1>2. ASSUME Calm'
        PROVE  Responsible'
    <2>1. Calm
      <3>1. \A d \in env.clients : cl[d].opt = cl'[d].opt
        BY <1>1 DEF Became
      <3> QED BY <1>2, <3>1 DEF Calm
    <2>2. \A d \in env.clients : cl'[d].writing => cl'[d].pc \in Saving
      BY <1>1, <2>1 DEF IInv, Responsible, Became
    <2>3. Attended(scm', file', exiting', cl')
      BY <1>1, <2>1, ChargeStep DEF IInv
    <2> QED BY <2>2, <2>3 DEF Responsible, Attended
  <1>3. ASSUME NEW d \in env.clients, Undisturbed(d)'
        PROVE  Lone(scm, file, proc, cl[d])'
    <2>1. d = c /\ Undisturbed(c)
      BY <1>3 DEF Undisturbed
    <2>2. Lone(scm', file', proc', q)
      BY <1>1, <2>1, LoneStep
    <2> QED BY <1>1, <2>1, <2>2 DEF Became, Lone, Alone, Fresh, Honoured
  <1> QED BY <1>1, <1>2, <1>3 DEF IInv

\* A step of client c that changes nothing on the host, except that its handles
\* may be closed.
LEMMA QuietStep ==
    ASSUME IInv, UNCHANGED env, NEW c \in env.clients, NEW q, Become(c, q, scm), HostSame,
           Local(q), q.opt = cl[c].opt, q.handles > 0 => scm.exists,
           q.writing => cl[c].writing,
           Calm => /\ q.writing => q.pc \in Saving
                   /\ InCharge(scm, exiting, cl[c]) => InCharge(scm, exiting, q),
           Undisturbed(c) => Lone(scm, file, proc, q)
    PROVE  IInv'
  <1>1. /\ file' = file /\ proc' = proc /\ exiting' = exiting
        /\ file \in Files /\ proc \in Processes
        /\ proc = NoProcess <=> scm.state = "STOPPED"
    BY DEF HostSame, IInv, Basic, Executed
  <1>2. Sensible(scm, q)
    BY DEF IInv, Basic, Sensible
  <1>3. proc # NoProcess =>
            /\ proc.image \in Complete /\ file \in Complete
            /\ ~q.writing /\ \A d \in env.clients : d # c => ~cl[d].writing
    BY DEF IInv, Basic, Executed, Writing
  <1>4. Calm => \/ Going(scm) /\ file = "none"
                \/ InCharge(scm, exiting, q)
                \/ \E d \in env.clients : d # c /\ InCharge(scm, exiting, cl[d])
    BY DEF IInv, Responsible, Attended
  <1> QED BY <1>1, <1>2, <1>3, <1>4, Step

-----------------------------------------------------------------------------
(***************************************************************************)
(* The actions of a client.                                                *)
(***************************************************************************)
LEMMA ClientFacts ==
    ASSUME IInv, NEW c \in env.clients
    PROVE  /\ cl[c] \in Clients /\ Local(cl[c]) /\ cl[c].handles \in Nat
           /\ cl[c].handles > 0 => scm.exists
           /\ Undisturbed(c) => Lone(scm, file, proc, cl[c])
  BY DEF IInv, Basic, Referenced, Clients

\* The program ends, or removes the service first.
LEMMA ExitProgramStep ==
    ASSUME IInv, UNCHANGED env, NEW c \in env.clients,
           At(c, "run") \/ (At(c, "open") /\ (proc.pipe \/ exiting \/ cl[c].activated)),
           Become(c, exit_program(cl[c]), scm), HostSame
    PROVE  IInv'
  <1> DEFINE r == cl[c]
             q == exit_program(r)
  <1>1. /\ r \in Clients /\ Local(r) /\ r.handles \in Nat /\ r.pc \in {"open", "run"}
        /\ r.handles > 0 => scm.exists
        /\ Undisturbed(c) => Lone(scm, file, proc, r)
    BY ClientFacts DEF At
  <1>2. /\ r.opt.uninstall => Turned(r, q, "u_open", "exit")
        /\ ~r.opt.uninstall => Left(r, q, "gone")
    BY <1>1, ExitProgramFacts
  <1> HIDE DEF q
  <1>3. Local(q) /\ q.opt = r.opt /\ (q.handles > 0 => scm.exists) /\ (q.writing => r.writing)
    BY <1>1, <1>2 DEF Turned, Left, Local, Holding, Installing, Uninstalling, Saving
  <1>4. Calm => r.opt.uninstall /\ (r.writing => r.pc \in Saving)
    BY DEF IInv, Calm, Responsible
  <1>5. ASSUME Calm
        PROVE  /\ q.writing => q.pc \in Saving
               /\ InCharge(scm, exiting, r) => InCharge(scm, exiting, q)
    <2>1. Turned(r, q, "u_open", "exit")
      BY <1>2, <1>4, <1>5
    <2>2. r.pc = "open" /\ scm.state = "STOPPED" => exiting \/ r.activated
      BY DEF IInv, Basic, Executed, NoProcess, At
    <2> QED BY <1>1, <1>4, <1>5, <2>1, <2>2
        DEF Turned, Saving, InCharge, Before, Keeps, Cleans, Going
  <1>6. ASSUME Undisturbed(c)
        PROVE  Lone(scm, file, proc, q)
    BY <1>1, <1>2, <1>6
       DEF Turned, Left, Lone, Alone, Fresh, Honoured, StatesAt, States, Clearing,
         Uninstalling, Saving
  <1> QED BY <1>3, <1>5, <1>6, QuietStep DEF q

\* The control pipe is there, is busy, or is not there.
LEMMA OpenInv ==
    ASSUME IInv, UNCHANGED env, NEW c \in env.clients, open_pipe(c)
    PROVE  IInv'
  <1> DEFINE r == cl[c]
  <1>1. /\ r \in Clients /\ Local(r) /\ r.handles \in Nat /\ r.pc = "open"
        /\ r.handles > 0 => scm.exists
        /\ Undisturbed(c) => Lone(scm, file, proc, r)
    BY ClientFacts DEF At, open_pipe
  <1>2. /\ ~(r.writing /\ Calm)
        /\ proc.pipe => proc # NoProcess /\ proc.image \in Complete /\ scm.state # "STOPPED"
    BY <1>1 DEF IInv, Responsible, Saving, Basic, Executed, NoProcess
  <1>3. CASE (proc.pipe \/ exiting) /\ Become(c, exit_program(r), scm)
    BY <1>1, <1>3, ExitProgramStep DEF open_pipe, At
  <1>4. CASE r.activated /\ Become(c, exit_program(r), scm)
    BY <1>1, <1>4, ExitProgramStep DEF open_pipe, At
  <1>5. ASSUME NEW q, Become(c, q, scm),
               \/ Turned(r, q, "u_open", "close") /\ proc.pipe
               \/ Turned(r, q, "upload", "error") /\ ~r.activated
        PROVE  IInv'
    <2>1. Local(q) /\ q.opt = r.opt /\ (q.handles > 0 => scm.exists) /\ (q.writing => r.writing)
      BY <1>1, <1>5 DEF Turned, Local, Holding, Installing, Uninstalling, Saving
    <2>2. ASSUME Calm
          PROVE  /\ q.writing => q.pc \in Saving
                 /\ InCharge(scm, exiting, r) => InCharge(scm, exiting, q)
      BY <1>1, <1>2, <1>5, <2>1, <2>2 DEF Turned, InCharge, Before, Keeps, Cleans, Going, Saving
    <2>3. ASSUME Undisturbed(c)
          PROVE  Lone(scm, file, proc, q)
      BY <1>1, <1>5, <2>3
         DEF Turned, Lone, Alone, Fresh, Honoured, StatesAt, Clearing, Uninstalling, Saving
    <2> QED BY <1>5, <2>1, <2>2, <2>3, QuietStep DEF open_pipe
  <1>6. CASE /\ proc.pipe /\ proc.image # "old"
             /\ Become(c, [Goto(r, "run") EXCEPT !.ran = proc.image], scm)
    <2> DEFINE q == [Goto(r, "run") EXCEPT !.ran = proc.image]
    <2>1. /\ q \in Clients /\ q.pc = "run" /\ q.ret = r.ret /\ q.opt = r.opt
          /\ q.handles = r.handles
          /\ q.writing = r.writing /\ q.activated = r.activated /\ q.ran = proc.image
      BY <1>1, <1>2, <1>6 DEF Goto, Clients, Calls
    <2> HIDE DEF q
    <2>2. Local(q) /\ q.opt = r.opt /\ (q.handles > 0 => scm.exists) /\ (q.writing => r.writing)
      BY <1>1, <2>1 DEF Local, Holding, Installing, Uninstalling, Saving
    <2>3. ASSUME Calm
          PROVE  /\ q.writing => q.pc \in Saving
                 /\ InCharge(scm, exiting, r) => InCharge(scm, exiting, q)
      BY <1>1, <1>2, <1>6, <2>1, <2>3 DEF InCharge, Before, Keeps, Cleans, Going, Saving
    <2>4. ASSUME Undisturbed(c)
          PROVE  Lone(scm, file, proc, q)
      BY <1>1, <1>2, <1>6, <2>1, <2>4
         DEF Lone, Alone, Fresh, Honoured, StatesAt, Clearing, Uninstalling, Saving
    <2> QED BY <1>6, <2>2, <2>3, <2>4, QuietStep DEF open_pipe, q
  <1> QED BY <1>1, <1>3, <1>4, <1>5, <1>6, CallFacts DEF open_pipe, on_ctrl_pipe_error

\* The command has been executed.
LEMMA RunInv ==
    ASSUME IInv, UNCHANGED env, NEW c \in env.clients, run(c)
    PROVE  IInv'
  BY ExitProgramStep DEF run

\* A client is killed: its handles are closed.
LEMMA CrashInv ==
    ASSUME IInv, UNCHANGED env, NEW c \in env.clients, crash(c)
    PROVE  IInv'
  <1> DEFINE r == cl[c]
             q == [Exit(r) EXCEPT !.pc = "crashed"]
  <1>1. /\ r \in Clients /\ Local(r) /\ r.handles \in Nat
        /\ ~Calm /\ ~Undisturbed(c)
    BY ClientFacts DEF crash, Calm, Undisturbed
  <1>2. Left(r, q, "crashed")
    BY <1>1, ExitFacts
  <1> HIDE DEF q
  <1>3. Local(q) /\ q.opt = r.opt /\ (q.handles > 0 => scm.exists) /\ (q.writing => r.writing)
    BY <1>1, <1>2 DEF Left, Local, Holding, Installing, Uninstalling, Saving
  <1> QED BY <1>1, <1>3, QuietStep DEF crash, q

\* p is client c when svc_install or svc_uninstall returns from one of its calls.
AtReturn(c, p) ==
    LET r == cl[c]
    IN  /\ r.pc \in Installing \cup Uninstalling
        /\ p.ret = r.ret /\ p.opt = r.opt /\ p.writing = r.writing
        /\ p.activated = r.activated /\ p.ran = r.ran
        /\ \/ p.handles = r.handles
           \/ r.pc = "CloseServiceHandle" /\ r.handles = p.handles + 1

\* How its caller goes on.
Landed(r, p, q) ==
    /\ q \in Clients /\ q.opt = r.opt /\ q.ran = r.ran
    /\ \/ /\ q.handles = p.handles /\ q.writing = p.writing
          /\ \/ q.pc = "open" /\ q.ret = r.ret /\ r.ret \in {"main", "open", "error"}
             \/ q.pc = "upload" /\ q.ret = "open" /\ r.ret \in {"main", "close"}
             \/ q.pc = "u_open" /\ q.ret = "exit" /\ r.ret = "error" /\ r.opt.uninstall
          /\ r.ret = "main" => ~q.activated
       \/ /\ q.handles = 0 /\ ~q.writing /\ q.pc = "gone" /\ q.ret = r.ret
          /\ r.ret \in {"exit", "error"}
          /\ r.ret = "error" => ~r.opt.uninstall

\* A return leaves the client where its caller goes on.
LEMMA LandedFacts ==
    ASSUME IInv, NEW c \in env.clients, NEW p \in Clients, NEW result \in Results, AtReturn(c, p)
    PROVE  LET q == Return(p, result)
           IN  /\ Landed(cl[c], p, q) /\ Local(q) /\ p.handles \in Nat
               /\ q.handles > 0 => scm.exists
               /\ q.writing => cl[c].writing
  <1> DEFINE r == cl[c]
             q == Return(p, result)
  <1>1. /\ r \in Clients /\ Local(r) /\ r.handles \in Nat
        /\ r.handles > 0 => scm.exists
    BY ClientFacts
  <1>2. Returned(p, q, result)
    BY ReturnFacts
  <1>3. p.ret \in {"main", "open", "close", "exit", "error"} /\ p.handles \in Nat
    BY DEF Clients
  <1> HIDE DEF q
  <1>4. Landed(r, p, q)
    BY <1>1, <1>2, <1>3 DEF AtReturn, Landed, Returned, Turned, Installed, Left, Local
  <1>5. p.handles > 0 => scm.exists
    BY <1>1, <1>3 DEF AtReturn
  <1>6. Local(q) /\ (q.handles > 0 => scm.exists) /\ (q.writing => r.writing)
    BY <1>1, <1>3, <1>4, <1>5
       DEF AtReturn, Landed, Local, Holding, Installing, Uninstalling, Saving
  <1> QED BY <1>3, <1>4, <1>6 DEF q

\* The calls from which it may return when no call fails.
MayReturn(r) ==
    /\ r.pc \notin Saving \cup {"u_unlink", "OpenService", "upload"}
    /\ r.pc = "savefile" => scm.state # "STOPPED" \/ exiting
    /\ r.pc = "CreateService" => scm.exists
    /\ r.pc = "poll_start" => scm.state # "START_PENDING"
    /\ r.ret = "exit" =>
          ~scm.exists \/ (r.pc = "u_poll" /\ scm.state \in {"START_PENDING", "RUNNING"})

MayReturnAlone(r) ==
    \/ scm.state = "STOPPED"
    \/ scm.state = "RUNNING" /\ r.pc \in {"savefile", "StartService", "CloseServiceHandle"}

\* A return keeps the invariant when it may happen.
LEMMA ReturnStep ==
    ASSUME IInv, UNCHANGED env, NEW c \in env.clients, NEW p \in Clients,
           NEW result \in Results,
           Become(c, Return(p, result), scm), HostSame, AtReturn(c, p),
           Calm => MayReturn(cl[c]), Undisturbed(c) => MayReturnAlone(cl[c])
    PROVE  IInv'
  <1> DEFINE r == cl[c]
             q == Return(p, result)
  <1>1. /\ r \in Clients /\ Local(r) /\ r.handles \in Nat
        /\ r.handles > 0 => scm.exists
        /\ Undisturbed(c) => Lone(scm, file, proc, r)
    BY ClientFacts
  <1>2. /\ proc = NoProcess <=> scm.state = "STOPPED"
        /\ ~scm.exists => scm.state = "STOPPED"
        /\ scm.state \in States
    BY DEF IInv, Basic, Executed, NoService, Services
  <1>3. /\ Landed(r, p, q) /\ Local(q) /\ p.handles \in Nat
        /\ q.handles > 0 => scm.exists
        /\ q.writing => r.writing
    BY LandedFacts
  <1> HIDE DEF q
  <1>4. ASSUME Calm
        PROVE  /\ q.writing => q.pc \in Saving
               /\ InCharge(scm, exiting, r) => InCharge(scm, exiting, q)
    <2>1. MayReturn(r) /\ r.opt.uninstall /\ ~r.writing
      BY <1>4 DEF IInv, Calm, Responsible, MayReturn
    <2>2. SUFFICES ASSUME InCharge(scm, exiting, r)
                   PROVE  InCharge(scm, exiting, q)
      BY <1>3, <2>1
    <2>3. r.ret # "exit"
      BY <1>1, <1>2, <2>1, <2>2
         DEF MayReturn, InCharge, Before, Keeps, Cleans, Going, Local, Uninstalling, Saving
    <2>4. Keeps(r) => Keeps(q)
      BY <1>1, <1>3, <2>1, <2>3 DEF Keeps, AtReturn, Landed
    <2>5. r.pc # "open" /\ (r.pc = "u_open" => r.ret \in {"main", "close"})
      BY <1>1, <2>3 DEF AtReturn, Local, Installing, Uninstalling, Saving
    <2> QED BY <1>1, <1>2, <1>3, <2>1, <2>2, <2>3, <2>4, <2>5
            DEF MayReturn, Landed, InCharge, Before, Cleans, Going, Saving
  <1>5. ASSUME Undisturbed(c)
        PROVE  Lone(scm, file, proc, q)
    BY <1>1, <1>2, <1>3, <1>5
       DEF States, MayReturnAlone, Landed, Lone, Alone, Fresh, Honoured, StatesAt, Clearing,
           Uninstalling, Saving
  <1>6. q.opt = r.opt
    BY <1>3 DEF Landed
  <1> QED BY <1>3, <1>4, <1>5, <1>6, QuietStep DEF q

\* Client c goes on to another call of the same function.
Moves(r, q) ==
    /\ q \in Clients /\ q.ret = r.ret /\ q.opt = r.opt
    /\ q.activated = r.activated /\ q.ran = r.ran
    /\ q.writing => r.writing
    /\ q.pc \in Saving => q.writing
    /\ q.pc \in Holding => q.handles > 0
    /\ q.handles > 0 => scm.exists
    /\ \/ r.pc \in Installing /\ q.pc \in Installing
       \/ r.pc \in Uninstalling /\ q.pc \in Uninstalling

\* A move to another call keeps the invariant.
LEMMA MoveStep ==
    ASSUME IInv, UNCHANGED env, NEW c \in env.clients, NEW q, Become(c, q, scm), HostSame,
           Moves(cl[c], q),
           Calm => /\ q.writing => q.pc \in Saving
                   /\ InCharge(scm, exiting, cl[c]) => InCharge(scm, exiting, q),
           Undisturbed(c) => Lone(scm, file, proc, q)
    PROVE  IInv'
  <1>1. cl[c] \in Clients /\ Local(cl[c])
    BY ClientFacts
  <1>2. /\ Local(q) /\ q.opt = cl[c].opt /\ (q.handles > 0 => scm.exists)
        /\ q.writing => cl[c].writing
    BY <1>1 DEF Local, Moves, Installing, Uninstalling, Saving
  <1> QED BY <1>2, QuietStep

\* What is known when client c acts.
LEMMA SceneFacts ==
    ASSUME IInv, NEW c \in env.clients
    PROVE  /\ cl[c] \in Clients /\ Local(cl[c]) /\ cl[c].handles \in Nat
           /\ cl[c].handles > 0 => scm.exists
           /\ Undisturbed(c) => Lone(scm, file, proc, cl[c])
           /\ Calm => cl[c].opt.uninstall /\ (cl[c].writing => cl[c].pc \in Saving)
           /\ scm \in Services /\ scm.state \in States
           /\ ~scm.exists => scm = NoService /\ scm.state = "STOPPED" /\ ~scm.marked
           /\ proc = NoProcess <=> scm.state = "STOPPED"
           /\ scm.marked => scm.exists
  BY ClientFacts DEF IInv, Basic, Executed, NoService, Services, Calm, Responsible

Recounted(r, q, pc, n) ==
    /\ q \in Clients /\ q.pc = pc /\ q.ret = r.ret /\ q.opt = r.opt /\ q.handles = n
    /\ q.writing = r.writing /\ q.activated = r.activated /\ q.ran = r.ran

\* A handle is opened or closed.
LEMMA HandleFacts ==
    ASSUME NEW r \in Clients, NEW pc \in Calls
    PROVE  /\ Recounted(r, Opened(Goto(r, pc)), pc, r.handles + 1)
           /\ Recounted(r, Opened(r), r.pc, r.handles + 1)
           /\ r.handles > 0 =>
                 Recounted(r, [Goto(r, pc) EXCEPT !.handles = @ - 1], pc, r.handles - 1)
           /\ r.handles > 0 => Recounted(r, [r EXCEPT !.handles = @ - 1], r.pc, r.handles - 1)
  <1>1. r.handles \in Nat
    BY DEF Clients
  <1>2. Goto(r, pc) \in Clients /\ Goto(r, pc).handles = r.handles
    BY DEF Goto, Clients
  <1>3. Opened(Goto(r, pc)) \in Clients /\ Opened(r) \in Clients
    BY <1>1, <1>2 DEF Opened, Clients
  <1>4. /\ Recounted(r, Opened(Goto(r, pc)), pc, r.handles + 1)
        /\ Recounted(r, Opened(r), r.pc, r.handles + 1)
    BY <1>1, <1>3 DEF Opened, Goto, Clients, Recounted
  <1>5. ASSUME r.handles > 0
        PROVE  /\ Recounted(r, [Goto(r, pc) EXCEPT !.handles = @ - 1], pc, r.handles - 1)
               /\ Recounted(r, [r EXCEPT !.handles = @ - 1], r.pc, r.handles - 1)
    <2>1. r.handles - 1 \in Nat
      BY <1>1, <1>5
    <2>2. /\ [r EXCEPT !.handles = @ - 1] \in Clients
          /\ [Goto(r, pc) EXCEPT !.handles = @ - 1] \in Clients
      BY <1>2, <2>1 DEF Clients
    <2> QED BY <2>2 DEF Goto, Clients, Recounted
  <1> QED BY <1>4, <1>5

\* The file is closed.
LEMMA SavefileCloseInv ==
    ASSUME IInv, UNCHANGED env, NEW c \in env.clients, savefile_close(c)
    PROVE  IInv'
  <1> DEFINE r == cl[c]
  <1>1. /\ r \in Clients /\ Local(r) /\ r.handles \in Nat /\ r.pc = "close" /\ HostSame
        /\ r.handles > 0 => scm.exists
        /\ Undisturbed(c) => Lone(scm, file, proc, r)
        /\ Calm => r.opt.uninstall /\ (r.writing => r.pc \in Saving)
        /\ scm \in Services /\ scm.state \in States
        /\ ~scm.exists => scm.state = "STOPPED" /\ ~scm.marked
        /\ proc = NoProcess <=> scm.state = "STOPPED"
        /\ scm.marked => scm.exists
    BY SceneFacts DEF savefile_close, At
  <1>2. CASE Become(c, [Goto(r, "OpenService") EXCEPT !.writing = FALSE], scm)
    <2> DEFINE q == [Goto(r, "OpenService") EXCEPT !.writing = FALSE]
    <2>1. /\ q \in Clients /\ q.pc = "OpenService" /\ q.ret = r.ret /\ q.opt = r.opt
          /\ q.handles = r.handles /\ q.writing = FALSE
          /\ q.activated = r.activated /\ q.ran = r.ran
      BY <1>1 DEF Goto, Clients, Calls
    <2> HIDE DEF q
    <2>2. Moves(r, q)
      BY <1>1, <1>2, <2>1 DEF Moves, Local, Holding, Installing, Uninstalling, Saving
    <2>3. ASSUME Calm
          PROVE  /\ q.writing => q.pc \in Saving
                 /\ InCharge(scm, exiting, r) => InCharge(scm, exiting, q)
      BY <1>1, <1>2, <2>1, <2>3
         DEF InCharge, Before, Keeps, Cleans, Going, Saving, Local, Holding, Installing,
             Uninstalling
    <2>4. ASSUME Undisturbed(c)
          PROVE  Lone(scm, file, proc, q)
      BY <1>1, <1>2, <2>1, <2>4
         DEF Lone, Alone, Fresh, Honoured, StatesAt, Clearing, Uninstalling, Saving
    <2> QED BY <1>1, <1>2, <2>2, <2>3, <2>4, MoveStep DEF q
  <1> QED BY <1>1, <1>2 DEF savefile_close

\* The service is there, or has to be created.
LEMMA OpenServiceInv ==
    ASSUME IInv, UNCHANGED env, NEW c \in env.clients, svc_OpenService(c)
    PROVE  IInv'
  <1> DEFINE r == cl[c]
  <1>1. /\ r \in Clients /\ Local(r) /\ r.handles \in Nat /\ r.pc = "OpenService" /\ HostSame
        /\ r.handles > 0 => scm.exists
        /\ Undisturbed(c) => Lone(scm, file, proc, r)
        /\ Calm => r.opt.uninstall /\ (r.writing => r.pc \in Saving)
        /\ scm \in Services /\ scm.state \in States
        /\ ~scm.exists => scm.state = "STOPPED" /\ ~scm.marked
        /\ proc = NoProcess <=> scm.state = "STOPPED"
        /\ scm.marked => scm.exists
    BY SceneFacts DEF svc_OpenService, At
  <1>2. CASE ~scm.exists /\ Become(c, Goto(r, "CreateService"), scm)
    <2> DEFINE q == Goto(r, "CreateService")
    <2>1. /\ q \in Clients /\ q.pc = "CreateService" /\ q.ret = r.ret /\ q.opt = r.opt
          /\ q.handles = r.handles /\ q.writing = r.writing
          /\ q.activated = r.activated /\ q.ran = r.ran
      BY <1>1 DEF Goto, Clients, Calls
    <2> HIDE DEF q
    <2>2. Moves(r, q)
      BY <1>1, <1>2, <2>1 DEF Moves, Local, Holding, Installing, Uninstalling, Saving
    <2>3. ASSUME Calm
          PROVE  /\ q.writing => q.pc \in Saving
                 /\ InCharge(scm, exiting, r) => InCharge(scm, exiting, q)
      BY <1>1, <1>2, <2>1, <2>3
         DEF InCharge, Before, Keeps, Cleans, Going, Saving, Local, Holding, Installing,
             Uninstalling
    <2>4. ASSUME Undisturbed(c)
          PROVE  Lone(scm, file, proc, q)
      BY <1>1, <1>2, <2>1, <2>4
         DEF Lone, Alone, Fresh, Honoured, StatesAt, Clearing, Uninstalling, Saving
    <2> QED BY <1>1, <1>2, <2>2, <2>3, <2>4, MoveStep DEF q
  <1>3. CASE /\ scm.exists /\ r.opt.interactive = "ignore"
             /\ Become(c, Opened(Goto(r, "StartService")), scm)
    <2> DEFINE q == Opened(Goto(r, "StartService"))
    <2>1. /\ q \in Clients /\ q.pc = "StartService" /\ q.ret = r.ret /\ q.opt = r.opt
          /\ q.handles = r.handles + 1 /\ q.writing = r.writing
          /\ q.activated = r.activated /\ q.ran = r.ran
      <3>1. "StartService" \in Calls
        BY <1>1 DEF Calls
      <3>2. Recounted(r, q, "StartService", r.handles + 1)
        BY <1>1, <3>1, HandleFacts
      <3> QED BY <3>2 DEF Recounted
    <2> HIDE DEF q
    <2>2. Moves(r, q)
      BY <1>1, <1>3, <2>1 DEF Moves, Local, Holding, Installing, Uninstalling, Saving
    <2>3. ASSUME Calm
          PROVE  /\ q.writing => q.pc \in Saving
                 /\ InCharge(scm, exiting, r) => InCharge(scm, exiting, q)
      BY <1>1, <1>3, <2>1, <2>3
         DEF InCharge, Before, Keeps, Cleans, Going, Saving, Local, Holding, Installing,
             Uninstalling
    <2>4. ASSUME Undisturbed(c)
          PROVE  Lone(scm, file, proc, q)
      BY <1>1, <1>3, <2>1, <2>4
         DEF Lone, Alone, Fresh, Honoured, StatesAt, Clearing, Uninstalling, Saving
    <2> QED BY <1>1, <1>3, <2>2, <2>3, <2>4, MoveStep DEF q
  <1>4. CASE /\ scm.exists /\ r.opt.interactive # "ignore"
             /\ Become(c, Opened(Goto(r, "QueryServiceStatus")), scm)
    <2> DEFINE q == Opened(Goto(r, "QueryServiceStatus"))
    <2>1. /\ q \in Clients /\ q.pc = "QueryServiceStatus" /\ q.ret = r.ret /\ q.opt = r.opt
          /\ q.handles = r.handles + 1 /\ q.writing = r.writing
          /\ q.activated = r.activated /\ q.ran = r.ran
      <3>1. "QueryServiceStatus" \in Calls
        BY <1>1 DEF Calls
      <3>2. Recounted(r, q, "QueryServiceStatus", r.handles + 1)
        BY <1>1, <3>1, HandleFacts
      <3> QED BY <3>2 DEF Recounted
    <2> HIDE DEF q
    <2>2. Moves(r, q)
      BY <1>1, <1>4, <2>1 DEF Moves, Local, Holding, Installing, Uninstalling, Saving
    <2>3. ASSUME Calm
          PROVE  /\ q.writing => q.pc \in Saving
                 /\ InCharge(scm, exiting, r) => InCharge(scm, exiting, q)
      BY <1>1, <1>4, <2>1, <2>3
         DEF InCharge, Before, Keeps, Cleans, Going, Saving, Local, Holding, Installing,
             Uninstalling
    <2>4. ASSUME Undisturbed(c)
          PROVE  Lone(scm, file, proc, q)
      BY <1>1, <1>4, <2>1, <2>4
         DEF Lone, Alone, Fresh, Honoured, StatesAt, Clearing, Uninstalling, Saving
    <2> QED BY <1>1, <1>4, <2>2, <2>3, <2>4, MoveStep DEF q
  <1> QED BY <1>1, <1>2, <1>3, <1>4 DEF svc_OpenService

\* The type of the service is compared with the one asked for.
LEMMA QueryServiceStatusInv ==
    ASSUME IInv, UNCHANGED env, NEW c \in env.clients, svc_QueryServiceStatus(c)
    PROVE  IInv'
  <1> DEFINE r == cl[c]
  <1>1. /\ r \in Clients /\ Local(r) /\ r.handles \in Nat /\ r.pc = "QueryServiceStatus"
        /\ HostSame
        /\ r.handles > 0 => scm.exists
        /\ Undisturbed(c) => Lone(scm, file, proc, r)
        /\ Calm => r.opt.uninstall /\ (r.writing => r.pc \in Saving)
        /\ scm \in Services /\ scm.state \in States
        /\ ~scm.exists => scm.state = "STOPPED" /\ ~scm.marked
        /\ proc = NoProcess <=> scm.state = "STOPPED"
        /\ scm.marked => scm.exists
    BY SceneFacts DEF svc_QueryServiceStatus, At
  <1>2. CASE /\ scm.interactive # (r.opt.interactive = "allow") /\ scm.state = "STOPPED"
             /\ Become(c, Goto(r, "ChangeServiceConfig"), scm)
    <2> DEFINE q == Goto(r, "ChangeServiceConfig")
    <2>1. /\ q \in Clients /\ q.pc = "ChangeServiceConfig" /\ q.ret = r.ret /\ q.opt = r.opt
          /\ q.handles = r.handles /\ q.writing = r.writing
          /\ q.activated = r.activated /\ q.ran = r.ran
      BY <1>1 DEF Goto, Clients, Calls
    <2> HIDE DEF q
    <2>2. Moves(r, q)
      BY <1>1, <1>2, <2>1 DEF Moves, Local, Holding, Installing, Uninstalling, Saving
    <2>3. ASSUME Calm
          PROVE  /\ q.writing => q.pc \in Saving
                 /\ InCharge(scm, exiting, r) => InCharge(scm, exiting, q)
      BY <1>1, <1>2, <2>1, <2>3
         DEF InCharge, Before, Keeps, Cleans, Going, Saving, Local, Holding, Installing,
             Uninstalling
    <2>4. ASSUME Undisturbed(c)
          PROVE  Lone(scm, file, proc, q)
      BY <1>1, <1>2, <2>1, <2>4
         DEF Lone, Alone, Fresh, Honoured, StatesAt, Clearing, Uninstalling, Saving
    <2> QED BY <1>1, <1>2, <2>2, <2>3, <2>4, MoveStep DEF q
  <1>3. CASE /\ scm.interactive # (r.opt.interactive = "allow") /\ scm.state # "STOPPED"
             /\ Become(c, Goto(r, "ControlService"), scm)
    <2> DEFINE q == Goto(r, "ControlService")
    <2>1. /\ q \in Clients /\ q.pc = "ControlService" /\ q.ret = r.ret /\ q.opt = r.opt
          /\ q.handles = r.handles /\ q.writing = r.writing
          /\ q.activated = r.activated /\ q.ran = r.ran
      BY <1>1 DEF Goto, Clients, Calls
    <2> HIDE DEF q
    <2>2. Moves(r, q)
      BY <1>1, <1>3, <2>1 DEF Moves, Local, Holding, Installing, Uninstalling, Saving
    <2>3. ASSUME Calm
          PROVE  /\ q.writing => q.pc \in Saving
                 /\ InCharge(scm, exiting, r) => InCharge(scm, exiting, q)
      BY <1>1, <1>3, <2>1, <2>3
         DEF InCharge, Before, Keeps, Cleans, Going, Saving, Local, Holding, Installing,
             Uninstalling
    <2>4. ASSUME Undisturbed(c)
          PROVE  Lone(scm, file, proc, q)
      BY <1>1, <1>3, <2>1, <2>4
         DEF Lone, Alone, Fresh, Honoured, StatesAt, Clearing, Uninstalling, Saving
    <2> QED BY <1>1, <1>3, <2>2, <2>3, <2>4, MoveStep DEF q
  <1>4. CASE /\ scm.interactive = (r.opt.interactive = "allow")
             /\ Become(c, Goto(r, "StartService"), scm)
    <2> DEFINE q == Goto(r, "StartService")
    <2>1. /\ q \in Clients /\ q.pc = "StartService" /\ q.ret = r.ret /\ q.opt = r.opt
          /\ q.handles = r.handles /\ q.writing = r.writing
          /\ q.activated = r.activated /\ q.ran = r.ran
      BY <1>1 DEF Goto, Clients, Calls
    <2> HIDE DEF q
    <2>2. Moves(r, q)
      BY <1>1, <1>4, <2>1 DEF Moves, Local, Holding, Installing, Uninstalling, Saving
    <2>3. ASSUME Calm
          PROVE  /\ q.writing => q.pc \in Saving
                 /\ InCharge(scm, exiting, r) => InCharge(scm, exiting, q)
      BY <1>1, <1>4, <2>1, <2>3
         DEF InCharge, Before, Keeps, Cleans, Going, Saving, Local, Holding, Installing,
             Uninstalling
    <2>4. ASSUME Undisturbed(c)
          PROVE  Lone(scm, file, proc, q)
      BY <1>1, <1>4, <2>1, <2>4
         DEF Lone, Alone, Fresh, Honoured, StatesAt, Clearing, Uninstalling, Saving
    <2> QED BY <1>1, <1>4, <2>2, <2>3, <2>4, MoveStep DEF q
  <1>5. CASE /\ scm.interactive = (r.opt.interactive = "allow")
             /\ Become(c, Goto(r, "poll_start"), scm)
    <2> DEFINE q == Goto(r, "poll_start")
    <2>1. /\ q \in Clients /\ q.pc = "poll_start" /\ q.ret = r.ret /\ q.opt = r.opt
          /\ q.handles = r.handles /\ q.writing = r.writing
          /\ q.activated = r.activated /\ q.ran = r.ran
      BY <1>1 DEF Goto, Clients, Calls
    <2> HIDE DEF q
    <2>2. Moves(r, q)
      BY <1>1, <1>5, <2>1 DEF Moves, Local, Holding, Installing, Uninstalling, Saving
    <2>3. ASSUME Calm
          PROVE  /\ q.writing => q.pc \in Saving
                 /\ InCharge(scm, exiting, r) => InCharge(scm, exiting, q)
      BY <1>1, <1>5, <2>1, <2>3
         DEF InCharge, Before, Keeps, Cleans, Going, Saving, Local, Holding, Installing,
             Uninstalling
    <2>4. ASSUME Undisturbed(c)
          PROVE  Lone(scm, file, proc, q)
      BY <1>1, <1>5, <2>1, <2>4
         DEF Lone, Alone, Fresh, Honoured, StatesAt, Clearing, Uninstalling, Saving
    <2> QED BY <1>1, <1>5, <2>2, <2>3, <2>4, MoveStep DEF q
  <1> QED BY <1>1, <1>2, <1>3, <1>4, <1>5 DEF svc_QueryServiceStatus, StartOrNot

\* The service has stopped.
LEMMA PollStopInv ==
    ASSUME IInv, UNCHANGED env, NEW c \in env.clients, poll_stop(c)
    PROVE  IInv'
  <1> DEFINE r == cl[c]
  <1>1. /\ r \in Clients /\ Local(r) /\ r.handles \in Nat /\ r.pc = "poll_stop" /\ HostSame
        /\ r.handles > 0 => scm.exists
        /\ Undisturbed(c) => Lone(scm, file, proc, r)
        /\ Calm => r.opt.uninstall /\ (r.writing => r.pc \in Saving)
        /\ scm \in Services /\ scm.state \in States
        /\ ~scm.exists => scm.state = "STOPPED" /\ ~scm.marked
        /\ proc = NoProcess <=> scm.state = "STOPPED"
        /\ scm.marked => scm.exists
    BY SceneFacts DEF poll_stop, At
  <1>2. CASE scm.state # "STOP_PENDING" /\ Become(c, Goto(r, "StartService"), scm)
    <2> DEFINE q == Goto(r, "StartService")
    <2>1. /\ q \in Clients /\ q.pc = "StartService" /\ q.ret = r.ret /\ q.opt = r.opt
          /\ q.handles = r.handles /\ q.writing = r.writing
          /\ q.activated = r.activated /\ q.ran = r.ran
      BY <1>1 DEF Goto, Clients, Calls
    <2> HIDE DEF q
    <2>2. Moves(r, q)
      BY <1>1, <1>2, <2>1 DEF Moves, Local, Holding, Installing, Uninstalling, Saving
    <2>3. ASSUME Calm
          PROVE  /\ q.writing => q.pc \in Saving
                 /\ InCharge(scm, exiting, r) => InCharge(scm, exiting, q)
      BY <1>1, <1>2, <2>1, <2>3
         DEF InCharge, Before, Keeps, Cleans, Going, Saving, Local, Holding, Installing,
             Uninstalling
    <2>4. ASSUME Undisturbed(c)
          PROVE  Lone(scm, file, proc, q)
      BY <1>1, <1>2, <2>1, <2>4
         DEF Lone, Alone, Fresh, Honoured, StatesAt, Clearing, Uninstalling, Saving
    <2> QED BY <1>1, <1>2, <2>2, <2>3, <2>4, MoveStep DEF q
  <1> QED BY <1>1, <1>2 DEF poll_stop

\* The service is up, or did not start.
LEMMA PollStartInv ==
    ASSUME IInv, UNCHANGED env, NEW c \in env.clients, poll_start(c)
    PROVE  IInv'
  <1> DEFINE r == cl[c]
  <1>1. /\ r \in Clients /\ Local(r) /\ r.handles \in Nat /\ r.pc = "poll_start" /\ HostSame
        /\ r.handles > 0 => scm.exists
        /\ Undisturbed(c) => Lone(scm, file, proc, r)
        /\ Calm => r.opt.uninstall /\ (r.writing => r.pc \in Saving)
        /\ scm \in Services /\ scm.state \in States
        /\ ~scm.exists => scm.state = "STOPPED" /\ ~scm.marked
        /\ proc = NoProcess <=> scm.state = "STOPPED"
        /\ scm.marked => scm.exists
    BY SceneFacts DEF poll_start, At
  <1>2. CASE scm.state = "RUNNING" /\ Become(c, Goto(r, "CloseServiceHandle"), scm)
    <2> DEFINE q == Goto(r, "CloseServiceHandle")
    <2>1. /\ q \in Clients /\ q.pc = "CloseServiceHandle" /\ q.ret = r.ret /\ q.opt = r.opt
          /\ q.handles = r.handles /\ q.writing = r.writing
          /\ q.activated = r.activated /\ q.ran = r.ran
      BY <1>1 DEF Goto, Clients, Calls
    <2> HIDE DEF q
    <2>2. Moves(r, q)
      BY <1>1, <1>2, <2>1 DEF Moves, Local, Holding, Installing, Uninstalling, Saving
    <2>3. ASSUME Calm
          PROVE  /\ q.writing => q.pc \in Saving
                 /\ InCharge(scm, exiting, r) => InCharge(scm, exiting, q)
      BY <1>1, <1>2, <2>1, <2>3
         DEF InCharge, Before, Keeps, Cleans, Going, Saving, Local, Holding, Installing,
             Uninstalling
    <2>4. ASSUME Undisturbed(c)
          PROVE  Lone(scm, file, proc, q)
      BY <1>1, <1>2, <2>1, <2>4
         DEF Lone, Alone, Fresh, Honoured, StatesAt, Clearing, Uninstalling, Saving
    <2> QED BY <1>1, <1>2, <2>2, <2>3, <2>4, MoveStep DEF q
  <1>3. CASE /\ scm.state \notin {"START_PENDING", "RUNNING"}
             /\ Become(c, Return(r, "not running"), scm)
    <2>1. AtReturn(c, r)
      BY <1>1 DEF AtReturn, Installing, Uninstalling, Saving
    <2>2. Calm => MayReturn(r)
      BY <1>1, <1>3 DEF MayReturn, Saving, Local, Installing, Uninstalling
    <2>3. Undisturbed(c) => MayReturnAlone(r)
      BY <1>1, <1>3 DEF MayReturnAlone, Lone, Alone, StatesAt, Saving, Services, States
    <2> QED BY <1>1, <1>3, <2>1, <2>2, <2>3, ReturnStep DEF Results, Fail
  <1> QED BY <1>1, <1>2, <1>3 DEF poll_start

\* The service to remove is there or not.
LEMMA UOpenInv ==
    ASSUME IInv, UNCHANGED env, NEW c \in env.clients, u_open(c)
    PROVE  IInv'
  <1> DEFINE r == cl[c]
  <1>1. /\ r \in Clients /\ Local(r) /\ r.handles \in Nat /\ r.pc = "u_open" /\ HostSame
        /\ r.handles > 0 => scm.exists
        /\ Undisturbed(c) => Lone(scm, file, proc, r)
        /\ Calm => r.opt.uninstall /\ (r.writing => r.pc \in Saving)
        /\ scm \in Services /\ scm.state \in States
        /\ ~scm.exists => scm.state = "STOPPED" /\ ~scm.marked
        /\ proc = NoProcess <=> scm.state = "STOPPED"
        /\ scm.marked => scm.exists
    BY SceneFacts DEF u_open, At
  <1>2. CASE scm.exists /\ Become(c, Opened(Goto(r, "u_stop")), scm)
    <2> DEFINE q == Opened(Goto(r, "u_stop"))
    <2>1. /\ q \in Clients /\ q.pc = "u_stop" /\ q.ret = r.ret /\ q.opt = r.opt
          /\ q.handles = r.handles + 1 /\ q.writing = r.writing
          /\ q.activated = r.activated /\ q.ran = r.ran
      <3>1. "u_stop" \in Calls
        BY <1>1 DEF Calls
      <3>2. Recounted(r, q, "u_stop", r.handles + 1)
        BY <1>1, <3>1, HandleFacts
      <3> QED BY <3>2 DEF Recounted
    <2> HIDE DEF q
    <2>2. Moves(r, q)
      BY <1>1, <1>2, <2>1 DEF Moves, Local, Holding, Installing, Uninstalling, Saving
    <2>3. ASSUME Calm
          PROVE  /\ q.writing => q.pc \in Saving
                 /\ InCharge(scm, exiting, r) => InCharge(scm, exiting, q)
      BY <1>1, <1>2, <2>1, <2>3
         DEF InCharge, Before, Keeps, Cleans, Going, Saving, Local, Holding, Installing,
             Uninstalling
    <2>4. ASSUME Undisturbed(c)
          PROVE  Lone(scm, file, proc, q)
      BY <1>1, <1>2, <2>1, <2>4
         DEF Lone, Alone, Fresh, Honoured, StatesAt, Clearing, Uninstalling, Saving
    <2> QED BY <1>1, <1>2, <2>2, <2>3, <2>4, MoveStep DEF q
  <1>3. CASE ~scm.exists /\ Become(c, Fail(r), scm)
    <2>1. AtReturn(c, r)
      BY <1>1 DEF AtReturn, Installing, Uninstalling, Saving
    <2>2. Calm => MayReturn(r)
      BY <1>1, <1>3 DEF MayReturn, Saving, Local, Installing, Uninstalling
    <2>3. Undisturbed(c) => MayReturnAlone(r)
      BY <1>1, <1>3 DEF MayReturnAlone, Lone, Alone, StatesAt, Saving, Services, States
    <2> QED BY <1>1, <1>3, <2>1, <2>2, <2>3, ReturnStep DEF Results, Fail
  <1> QED BY <1>1, <1>2, <1>3 DEF u_open

\* The service has stopped, or somebody started it again.
LEMMA UPollInv ==
    ASSUME IInv, UNCHANGED env, NEW c \in env.clients, u_poll(c)
    PROVE  IInv'
  <1> DEFINE r == cl[c]
  <1>1. /\ r \in Clients /\ Local(r) /\ r.handles \in Nat /\ r.pc = "u_poll" /\ HostSame
        /\ r.handles > 0 => scm.exists
        /\ Undisturbed(c) => Lone(scm, file, proc, r)
        /\ Calm => r.opt.uninstall /\ (r.writing => r.pc \in Saving)
        /\ scm \in Services /\ scm.state \in States
        /\ ~scm.exists => scm.state = "STOPPED" /\ ~scm.marked
        /\ proc = NoProcess <=> scm.state = "STOPPED"
        /\ scm.marked => scm.exists
    BY SceneFacts DEF u_poll, At
  <1>2. CASE scm.state = "STOPPED" /\ Become(c, Goto(r, "u_delete"), scm)
    <2> DEFINE q == Goto(r, "u_delete")
    <2>1. /\ q \in Clients /\ q.pc = "u_delete" /\ q.ret = r.ret /\ q.opt = r.opt
          /\ q.handles = r.handles /\ q.writing = r.writing
          /\ q.activated = r.activated /\ q.ran = r.ran
      BY <1>1 DEF Goto, Clients, Calls
    <2> HIDE DEF q
    <2>2. Moves(r, q)
      BY <1>1, <1>2, <2>1 DEF Moves, Local, Holding, Installing, Uninstalling, Saving
    <2>3. ASSUME Calm
          PROVE  /\ q.writing => q.pc \in Saving
                 /\ InCharge(scm, exiting, r) => InCharge(scm, exiting, q)
      BY <1>1, <1>2, <2>1, <2>3
         DEF InCharge, Before, Keeps, Cleans, Going, Saving, Local, Holding, Installing,
             Uninstalling
    <2>4. ASSUME Undisturbed(c)
          PROVE  Lone(scm, file, proc, q)
      BY <1>1, <1>2, <2>1, <2>4
         DEF Lone, Alone, Fresh, Honoured, StatesAt, Clearing, Uninstalling, Saving
    <2> QED BY <1>1, <1>2, <2>2, <2>3, <2>4, MoveStep DEF q
  <1>3. CASE /\ scm.state \in {"START_PENDING", "RUNNING"}
             /\ Become(c, Return(r, "not stopped"), scm)
    <2>1. AtReturn(c, r)
      BY <1>1 DEF AtReturn, Installing, Uninstalling, Saving
    <2>2. Calm => MayReturn(r)
      BY <1>1, <1>3 DEF MayReturn, Saving, Local, Installing, Uninstalling
    <2>3. Undisturbed(c) => MayReturnAlone(r)
      BY <1>1, <1>3 DEF MayReturnAlone, Lone, Alone, StatesAt, Saving, Services, States
    <2> QED BY <1>1, <1>3, <2>1, <2>2, <2>3, ReturnStep DEF Results, Fail
  <1> QED BY <1>1, <1>2, <1>3 DEF u_poll, States

\* The last handle may go, and with it a service that is marked.
LEMMA UCloseInv ==
    ASSUME IInv, UNCHANGED env, NEW c \in env.clients, u_close(c)
    PROVE  IInv'
  <1> DEFINE r == cl[c]
  <1>1. /\ r \in Clients /\ Local(r) /\ r.handles \in Nat /\ r.pc = "u_close" /\ HostSame
        /\ r.handles > 0 => scm.exists
        /\ Undisturbed(c) => Lone(scm, file, proc, r)
        /\ Calm => r.opt.uninstall /\ (r.writing => r.pc \in Saving)
        /\ scm \in Services /\ scm.state \in States
        /\ ~scm.exists => scm.state = "STOPPED" /\ ~scm.marked
        /\ proc = NoProcess <=> scm.state = "STOPPED"
        /\ scm.marked => scm.exists
    BY SceneFacts DEF u_close, At
  <1>2. CASE Become(c, [Goto(r, "u_unlink") EXCEPT !.handles = @ - 1], scm)
    <2> DEFINE q == [Goto(r, "u_unlink") EXCEPT !.handles = @ - 1]
    <2>1. /\ q \in Clients /\ q.pc = "u_unlink" /\ q.ret = r.ret /\ q.opt = r.opt
          /\ q.handles = r.handles - 1 /\ q.writing = r.writing
          /\ q.activated = r.activated /\ q.ran = r.ran
      <3>1. "u_unlink" \in Calls /\ r.handles > 0
        BY <1>1 DEF Calls, Local, Holding
      <3>2. Recounted(r, q, "u_unlink", r.handles - 1)
        BY <1>1, <3>1, HandleFacts
      <3> QED BY <3>2 DEF Recounted
    <2> HIDE DEF q
    <2>2. Moves(r, q)
      BY <1>1, <1>2, <2>1 DEF Moves, Local, Holding, Installing, Uninstalling, Saving
    <2>3. ASSUME Calm
          PROVE  /\ q.writing => q.pc \in Saving
                 /\ InCharge(scm, exiting, r) => InCharge(scm, exiting, q)
      BY <1>1, <1>2, <2>1, <2>3
         DEF InCharge, Before, Keeps, Cleans, Going, Saving, Local, Holding, Installing,
             Uninstalling
    <2>4. ASSUME Undisturbed(c)
          PROVE  Lone(scm, file, proc, q)
      BY <1>1, <1>2, <2>1, <2>4
         DEF Lone, Alone, Fresh, Honoured, StatesAt, Clearing, Uninstalling, Saving
    <2> QED BY <1>1, <1>2, <2>2, <2>3, <2>4, MoveStep DEF q
  <1> QED BY <1>1, <1>2 DEF u_close

\* Closing the handle when the service runs, svc_install returns.
LEMMA CloseServiceHandleInv ==
    ASSUME IInv, UNCHANGED env, NEW c \in env.clients, svc_CloseServiceHandle(c)
    PROVE  IInv'
  <1> DEFINE r == cl[c]
             p == [r EXCEPT !.handles = @ - 1]
  <1>1. /\ r \in Clients /\ Local(r) /\ r.pc = "CloseServiceHandle" /\ HostSame
        /\ r.handles \in Nat /\ r.pc \in Calls
        /\ Undisturbed(c) => Lone(scm, file, proc, r)
        /\ Become(c, Return(p, "ok"), scm)
    BY SceneFacts DEF svc_CloseServiceHandle, At, Clients
  <1>2. r.handles > 0
    BY <1>1 DEF Local, Holding
  <1>3. Recounted(r, p, r.pc, r.handles - 1)
    BY <1>1, <1>2, HandleFacts
  <1> HIDE DEF p
  <1>4. AtReturn(c, p)
    BY <1>1, <1>3 DEF AtReturn, Recounted, Installing
  <1>5. MayReturn(r)
    BY <1>1 DEF MayReturn, Saving, Local, Installing
  <1>6. Undisturbed(c) => MayReturnAlone(r)
    BY <1>1 DEF MayReturnAlone, Lone, Alone, StatesAt, Saving
  <1>7. p \in Clients
    BY <1>3 DEF Recounted
  <1> QED BY <1>1, <1>4, <1>5, <1>6, <1>7, ReturnStep DEF Results

\* A call fails.
LEMMA FailureInv ==
    ASSUME IInv, UNCHANGED env, NEW c \in env.clients, NT_ERR(c)
    PROVE  IInv'
  <1>1. cl[c] \in Clients /\ ~Calm /\ ~Undisturbed(c)
    BY ClientFacts DEF NT_ERR, Calm, Undisturbed
  <1>2. AtReturn(c, cl[c])
    BY DEF NT_ERR, AtReturn, Installing, Uninstalling, Saving
  <1> QED BY <1>1, <1>2, ReturnStep DEF NT_ERR, Fail, Results

-----------------------------------------------------------------------------
(***************************************************************************)
(* Calls that change the file.                                             *)
(***************************************************************************)
LEMMA UnlinkFacts ==
    ASSUME IInv, smbcli_unlink
    PROVE  /\ file' \in Files /\ (file' # "none" => file' = file)
           /\ proc # NoProcess => file' = file /\ file' \in Complete
           /\ ~exiting /\ proc = NoProcess =>
                 file' = "none" \/ \E d \in env.clients : cl[d].writing
  BY DEF IInv, Basic, Executed, smbcli_unlink, InUse, Writing, Files

\* A call of svc_UploadService that leaves service and process alone.
LEMMA FileStep ==
    ASSUME IInv, UNCHANGED env, NEW c \in env.clients, NEW q, Become(c, q, scm),
           file' \in Files, UNCHANGED <<proc, exiting>>,
           proc # NoProcess => file' \in Complete,
           Local(q), q.opt = cl[c].opt, q.handles = cl[c].handles,
           q.writing => cl[c].writing \/ proc = NoProcess,
           Calm => /\ q.writing => q.pc \in Saving
                   /\ file' # "none" /\ file = "none" => InCharge(scm, exiting, q)
                   /\ InCharge(scm, exiting, cl[c]) => InCharge(scm, exiting, q),
           Undisturbed(c) => Lone(scm, file', proc, q)
    PROVE  IInv'
  <1>1. /\ proc' = proc /\ exiting' = exiting /\ proc \in Processes
        /\ proc = NoProcess <=> scm.state = "STOPPED"
    BY DEF IInv, Basic, Executed
  <1>2. Sensible(scm, q)
    BY ClientFacts DEF IInv, Basic, Sensible
  <1>3. proc # NoProcess =>
            /\ proc.image \in Complete /\ file' \in Complete
            /\ ~q.writing /\ \A d \in env.clients : d # c => ~cl[d].writing
    BY DEF IInv, Basic, Executed, Writing
  <1>4. Calm => \/ Going(scm) /\ file' = "none"
                \/ InCharge(scm, exiting, q)
                \/ \E d \in env.clients : d # c /\ InCharge(scm, exiting, cl[d])
    BY DEF IInv, Responsible, Attended
  <1> QED BY <1>1, <1>2, <1>3, <1>4, Step

\* The file is deleted, or kept.
LEMMA UploadInv ==
    ASSUME IInv, UNCHANGED env, NEW c \in env.clients, svc_UploadService(c)
    PROVE  IInv'
  <1> DEFINE r == cl[c]
  <1>1. /\ r \in Clients /\ Local(r) /\ r.handles \in Nat /\ r.pc = "upload"
        /\ Undisturbed(c) => Lone(scm, file, proc, r)
        /\ Calm => r.opt.uninstall /\ (r.writing => r.pc \in Saving)
        /\ UNCHANGED <<proc, exiting>>
        /\ proc # NoProcess => file \in Complete
        /\ file \in Files
    BY SceneFacts DEF svc_UploadService, At, IInv, Basic, Executed
  <1>2. /\ file' \in Files /\ (file' # "none" => file' = file)
        /\ proc # NoProcess => file' \in Complete
    BY <1>1, UnlinkFacts DEF svc_UploadService
  <1>3. ASSUME NEW pc \in {"savefile", "OpenService"}, Become(c, Goto(r, pc), scm),
               pc = "OpenService" => ~r.opt.reinstall,
               pc = "savefile" => r.opt.reinstall \/ file = "none"
        PROVE  IInv'
    <2> DEFINE q == Goto(r, pc)
    <2>1. Turned(r, q, pc, r.ret)
      BY <1>1, <1>3, GotoFacts DEF Calls
    <2> HIDE DEF q
    <2>2. Local(q)
      BY <1>1, <1>3, <2>1 DEF Turned, Local, Holding, Installing, Uninstalling, Saving
    <2>3. ASSUME Calm
          PROVE  /\ q.writing => q.pc \in Saving
                 /\ InCharge(scm, exiting, r) => InCharge(scm, exiting, q)
      BY <1>1, <1>3, <2>1, <2>3 DEF Turned, InCharge, Before, Keeps, Cleans, Going, Saving
    <2>4. ASSUME Undisturbed(c)
          PROVE  Lone(scm, file', proc, q)
      <3>1. file = "none" => proc = NoProcess
        BY <1>1 DEF Complete
      <3> QED BY <1>1, <1>3, <2>1, <2>4, <3>1
              DEF Turned, Lone, Alone, Fresh, Honoured, StatesAt, Clearing, Uninstalling, Saving
    <2>5. q.opt = r.opt /\ q.handles = r.handles /\ q.writing = r.writing
      BY <2>1 DEF Turned
    <2> QED BY <1>1, <1>2, <1>3, <2>2, <2>3, <2>4, <2>5, FileStep DEF q
  <1> QED BY <1>3 DEF svc_UploadService

\* The file is opened for writing, unless it is executed.
LEMMA SavefileOpenInv ==
    ASSUME IInv, UNCHANGED env, NEW c \in env.clients, savefile_open(c)
    PROVE  IInv'
  <1> DEFINE r == cl[c]
  <1>1. /\ r \in Clients /\ Local(r) /\ r.handles \in Nat /\ r.pc = "savefile"
        /\ Undisturbed(c) => Lone(scm, file, proc, r)
        /\ proc = NoProcess <=> scm.state = "STOPPED"
        /\ UNCHANGED <<proc, exiting>> /\ file \in Files
    BY SceneFacts DEF savefile_open, At, IInv, Basic
  <1>2. CASE InUse
    <2>1. AtReturn(c, r)
      BY <1>1 DEF AtReturn, Installing
    <2>2. MayReturn(r)
      BY <1>1, <1>2 DEF MayReturn, InUse, Saving, Local, Installing, Uninstalling
    <2>3. Undisturbed(c) => MayReturnAlone(r)
      BY <1>1 DEF MayReturnAlone, Lone, Alone, StatesAt
    <2>4. Become(c, Return(r, "call failed"), scm) /\ HostSame
      BY <1>2 DEF savefile_open, Fail, HostSame
    <2> QED BY <1>1, <2>1, <2>2, <2>3, <2>4, ReturnStep DEF Results
  <1>3. CASE ~InUse
    <2> DEFINE q == [Goto(r, "write") EXCEPT !.writing = TRUE]
    <2>1. /\ q \in Clients /\ q.pc = "write" /\ q.ret = r.ret /\ q.opt = r.opt
          /\ q.handles = r.handles /\ q.writing /\ q.activated = r.activated /\ q.ran = r.ran
      BY <1>1 DEF Goto, Clients, Calls
    <2> HIDE DEF q
    <2>2. Become(c, q, scm) /\ file' \in Files /\ proc = NoProcess /\ scm.state = "STOPPED"
      BY <1>1, <1>3 DEF savefile_open, q, InUse, Files
    <2>3. Local(q)
      BY <1>1, <2>1 DEF Local, Holding, Installing, Uninstalling, Saving
    <2>4. q.pc \in Saving /\ InCharge(scm, exiting, q)
      BY <1>1, <2>1, <2>2 DEF Saving, InCharge, Before, Cleans, Going, Local, Installing
    <2>5. ASSUME Undisturbed(c)
          PROVE  Lone(scm, file', proc, q)
      BY <1>1, <2>1, <2>2, <2>5
         DEF Lone, Alone, Fresh, Honoured, StatesAt, Clearing, Uninstalling, Saving
    <2> QED BY <1>1, <2>1, <2>2, <2>3, <2>4, <2>5, FileStep
  <1> QED BY <1>2, <1>3

\* While the file is written there is no process.
LEMMA SavefileWriteInv ==
    ASSUME IInv, UNCHANGED env, NEW c \in env.clients, savefile_write(c)
    PROVE  IInv'
  <1> DEFINE r == cl[c]
  <1>1. /\ r \in Clients /\ Local(r) /\ r.pc \in {"write", "write_rest"}
        /\ Undisturbed(c) => Lone(scm, file, proc, r)
        /\ proc = NoProcess <=> scm.state = "STOPPED"
        /\ UNCHANGED <<proc, exiting>>
    BY SceneFacts DEF savefile_write, At
  <1>2. r.writing /\ proc = NoProcess
    BY <1>1 DEF Local, Saving, IInv, Basic, Executed, Writing
  <1>3. ASSUME NEW pc \in {"write_rest", "close"}, Become(c, Goto(r, pc), scm), file' \in Files,
               pc = "close" => file' = "new"
        PROVE  IInv'
    <2> DEFINE q == Goto(r, pc)
    <2>1. Turned(r, q, pc, r.ret)
      BY <1>1, <1>3, GotoFacts DEF Calls
    <2> HIDE DEF q
    <2>2. Local(q)
      BY <1>1, <1>2, <1>3, <2>1 DEF Turned, Local, Holding, Installing, Uninstalling, Saving
    <2>3. q.pc \in Saving /\ InCharge(scm, exiting, q)
      BY <1>1, <1>2, <1>3, <2>1
         DEF Turned, Saving, InCharge, Before, Cleans, Going, Local, Installing
    <2>4. ASSUME Undisturbed(c)
          PROVE  Lone(scm, file', proc, q)
      BY <1>1, <1>2, <1>3, <2>1, <2>4
         DEF Turned, Lone, Alone, Fresh, Honoured, StatesAt, Clearing, Uninstalling, Saving
    <2>5. q.opt = r.opt /\ q.handles = r.handles /\ q.writing = r.writing
      BY <2>1 DEF Turned
    <2> QED BY <1>1, <1>2, <1>3, <2>2, <2>3, <2>4, <2>5, FileStep DEF q
  <1> QED BY <1>3 DEF savefile_write, Files, Complete

-----------------------------------------------------------------------------
(***************************************************************************)
(* Calls that change the service.                                          *)
(***************************************************************************)
\* A call of client c that makes the service s, which exists, of scm and leaves
\* the file and the process alone.
LEMMA ServiceStep ==
    ASSUME IInv, UNCHANGED env, NEW c \in env.clients, NEW q, NEW s, Become(c, q, s), HostSame,
           s \in Services, s.exists, s.state = "STOPPED" <=> scm.state = "STOPPED",
           Local(q), q.opt = cl[c].opt, q.writing => cl[c].writing,
           Calm => /\ q.writing => q.pc \in Saving
                   /\ \/ InCharge(s, exiting, q)
                      \/ \E d \in env.clients : d # c /\ InCharge(s, exiting, cl[d]),
           Undisturbed(c) => Lone(s, file, proc, q)
    PROVE  IInv'
  <1>1. /\ file' = file /\ proc' = proc /\ exiting' = exiting
        /\ file \in Files /\ proc \in Processes
        /\ proc = NoProcess <=> s.state = "STOPPED"
    BY DEF HostSame, IInv, Basic, Executed
  <1>2. Sensible(s, q)
    BY DEF Sensible
  <1>3. proc # NoProcess =>
            /\ proc.image \in Complete /\ file \in Complete
            /\ ~q.writing /\ \A d \in env.clients : d # c => ~cl[d].writing
    BY DEF IInv, Basic, Executed, Writing
  <1> QED BY <1>1, <1>2, <1>3, Step

\* Somebody is in charge as long as the service exists and is not going.
LEMMA SomebodyFacts ==
    ASSUME IInv, Calm, NEW c \in env.clients, ~Going(scm) \/ file # "none"
    PROVE  \/ InCharge(scm, exiting, cl[c])
           \/ \E d \in env.clients : d # c /\ InCharge(scm, exiting, cl[d])
  BY DEF IInv, Responsible, Attended

\* The service is created, unless somebody else has.
LEMMA CreateServiceInv ==
    ASSUME IInv, UNCHANGED env, NEW c \in env.clients, svc_CreateService(c)
    PROVE  IInv'
  <1> DEFINE r == cl[c]
  <1>1. /\ r \in Clients /\ Local(r) /\ r.handles \in Nat /\ r.pc = "CreateService" /\ HostSame
        /\ Undisturbed(c) => Lone(scm, file, proc, r)
        /\ Calm => r.opt.uninstall /\ (r.writing => r.pc \in Saving)
        /\ ~scm.exists => scm.state = "STOPPED"
        /\ proc = NoProcess <=> scm.state = "STOPPED"
    BY SceneFacts DEF svc_CreateService, At
  <1>2. CASE scm.exists
    <2>1. AtReturn(c, r)
      BY <1>1 DEF AtReturn, Installing
    <2>2. MayReturn(r)
      BY <1>1, <1>2 DEF MayReturn, Saving, Local, Installing, Uninstalling
    <2>3. ~Undisturbed(c)
      BY <1>1, <1>2 DEF Lone, Alone
    <2>4. Become(c, Return(r, "call failed"), scm)
      BY <1>2 DEF svc_CreateService, Fail
    <2> QED BY <1>1, <2>1, <2>2, <2>3, <2>4, ReturnStep DEF Results
  <1>3. CASE ~scm.exists
    <2> DEFINE s(q) == [NoService EXCEPT !.exists = TRUE,
                                     !.interactive = q.opt.interactive = "allow"]
    <2>1. PICK q \in StartOrNot(Opened(r)) : Become(c, q, s(q))
      BY <1>3 DEF svc_CreateService
    <2>2. PICK pc \in {"StartService", "poll_start"} : q = Goto(Opened(r), pc)
      BY <2>1 DEF StartOrNot
    <2>3. /\ q \in Clients /\ q.pc = pc /\ q.ret = r.ret /\ q.opt = r.opt
          /\ q.handles = r.handles + 1 /\ q.writing = r.writing /\ q.activated = r.activated
          /\ q.ran = r.ran
      <3> "open" \in Calls
        BY DEF Calls
      <3>1. Recounted(r, Opened(r), r.pc, r.handles + 1)
        BY <1>1, HandleFacts
      <3>2. pc \in Calls
        BY DEF Calls
      <3>3. Turned(Opened(r), q, pc, Opened(r).ret)
        BY <2>2, <3>1, <3>2, GotoFacts DEF Recounted
      <3> QED BY <3>1, <3>3 DEF Recounted, Turned
    <2>4. /\ s(q) \in Services /\ s(q).exists /\ ~s(q).marked /\ s(q).state = "STOPPED"
          /\ s(q).interactive = (r.opt.interactive = "allow")
      BY <2>3 DEF NoService, Services, States
    <2> HIDE DEF s
    <2>5. Local(q) /\ (q.writing => r.writing)
      BY <1>1, <2>2, <2>3 DEF Local, Holding, Installing, Uninstalling, Saving
    <2>6. ASSUME Calm
          PROVE  (q.writing => q.pc \in Saving) /\ InCharge(s(q), exiting, q)
      BY <1>1, <2>2, <2>3, <2>4, <2>6 DEF Saving, InCharge, Before, Going, Local, Installing
    <2>7. ASSUME Undisturbed(c)
          PROVE  Lone(s(q), file, proc, q)
      BY <1>1, <1>3, <2>2, <2>3, <2>4, <2>7
         DEF Lone, Alone, Fresh, Honoured, StatesAt, Clearing, Uninstalling, Saving
    <2> QED BY <1>1, <1>3, <2>1, <2>3, <2>4, <2>5, <2>6, <2>7, ServiceStep
  <1> QED BY <1>2, <1>3

\* The service that is told to stop.
LEMMA StopFacts ==
    ASSUME scm \in Services, scm.state = "RUNNING"
    PROVE  /\ StopPending \in Services /\ StopPending.exists = scm.exists
           /\ StopPending.marked = scm.marked /\ StopPending.interactive = scm.interactive
           /\ StopPending.state = "STOP_PENDING"
  BY DEF StopPending, Services, States

\* The service is stopped to change its type.
LEMMA ControlServiceInv ==
    ASSUME IInv, UNCHANGED env, NEW c \in env.clients, svc_ControlService(c)
    PROVE  IInv'
  <1> DEFINE r == cl[c]
             q == Goto(r, "ChangeServiceConfig")
  <1>1. /\ r \in Clients /\ Local(r) /\ r.handles \in Nat /\ r.pc = "ControlService" /\ HostSame
        /\ r.handles > 0 => scm.exists
        /\ Undisturbed(c) => Lone(scm, file, proc, r)
        /\ Calm => r.opt.uninstall /\ (r.writing => r.pc \in Saving)
        /\ scm \in Services
    BY SceneFacts DEF svc_ControlService, At
  <1>2. CASE ~StopAccepted
    <2>1. AtReturn(c, r)
      BY <1>1 DEF AtReturn, Installing
    <2>2. MayReturn(r)
      BY <1>1 DEF MayReturn, Saving, Local, Installing, Uninstalling
    <2>3. ~Undisturbed(c)
      BY <1>1, <1>2 DEF StopAccepted, Lone, Alone, StatesAt, Saving
    <2>4. Become(c, Return(r, "call failed"), scm)
      BY <1>2 DEF svc_ControlService, Fail
    <2> QED BY <1>1, <2>1, <2>2, <2>3, <2>4, ReturnStep DEF Results
  <1>3. CASE StopAccepted
    <2>1. Turned(r, q, "ChangeServiceConfig", r.ret)
      BY <1>1, GotoFacts DEF Calls
    <2>2. Become(c, q, StopPending) /\ scm.state = "RUNNING"
      BY <1>3 DEF svc_ControlService, StopAccepted
    <2> HIDE DEF q
    <2>3. /\ StopPending \in Services /\ StopPending.exists
          /\ StopPending.marked = scm.marked /\ StopPending.interactive = scm.interactive
          /\ StopPending.state = "STOP_PENDING"
      BY <1>1, <2>2, StopFacts DEF Local, Holding
    <2>4. Local(q) /\ q.opt = r.opt /\ (q.writing => r.writing)
      BY <1>1, <2>1 DEF Turned, Local, Holding, Installing, Uninstalling, Saving
    <2>5. ASSUME Calm
          PROVE  (q.writing => q.pc \in Saving) /\ InCharge(StopPending, exiting, q)
      BY <1>1, <2>1, <2>3, <2>5 DEF Turned, Saving, InCharge, Keeps, Going, Local, Holding
    <2>6. ASSUME Undisturbed(c)
          PROVE  Lone(StopPending, file, proc, q)
      BY <1>1, <2>1, <2>2, <2>3, <2>6
         DEF Turned, Lone, Alone, Fresh, Honoured, StatesAt, Clearing, Uninstalling, Saving
    <2> QED BY <1>1, <2>2, <2>3, <2>4, <2>5, <2>6, ServiceStep
  <1> QED BY <1>2, <1>3

\* The type is changed, unless the service is marked for deletion.
LEMMA ChangeServiceConfigInv ==
    ASSUME IInv, UNCHANGED env, NEW c \in env.clients, svc_ChangeServiceConfig(c)
    PROVE  IInv'
  <1> DEFINE r == cl[c]
             q == Goto(r, "poll_stop")
             s == [scm EXCEPT !.interactive = r.opt.interactive = "allow"]
  <1>1. /\ r \in Clients /\ Local(r) /\ r.handles \in Nat /\ r.pc = "ChangeServiceConfig"
        /\ HostSame
        /\ r.handles > 0 => scm.exists
        /\ Undisturbed(c) => Lone(scm, file, proc, r)
        /\ Calm => r.opt.uninstall /\ (r.writing => r.pc \in Saving)
        /\ scm \in Services
    BY SceneFacts DEF svc_ChangeServiceConfig, At
  <1>2. CASE scm.marked
    <2>1. AtReturn(c, r)
      BY <1>1 DEF AtReturn, Installing
    <2>2. MayReturn(r)
      BY <1>1 DEF MayReturn, Saving, Local, Installing, Uninstalling
    <2>3. Undisturbed(c) => MayReturnAlone(r)
      BY <1>1, <1>2 DEF MayReturnAlone, Lone, Alone
    <2>4. Become(c, Return(r, "call failed"), scm) /\ HostSame
      BY <1>2 DEF svc_ChangeServiceConfig, Fail
    <2> QED BY <1>1, <2>1, <2>2, <2>3, <2>4, ReturnStep DEF Results
  <1>3. CASE ~scm.marked
    <2>1. Turned(r, q, "poll_stop", r.ret)
      BY <1>1, GotoFacts DEF Calls
    <2>2. Become(c, q, s) /\ HostSame
      BY <1>3 DEF svc_ChangeServiceConfig
    <2>3. /\ s \in Services /\ s.exists /\ scm.exists /\ s.marked = scm.marked
          /\ s.state = scm.state /\ s.interactive = (r.opt.interactive = "allow")
      BY <1>1 DEF Services, Local, Holding
    <2> HIDE DEF q, s
    <2>4. Local(q) /\ q.opt = r.opt /\ (q.writing => r.writing)
      BY <1>1, <2>1 DEF Turned, Local, Holding, Installing, Uninstalling, Saving
    <2>5. ASSUME Calm
          PROVE  /\ q.writing => q.pc \in Saving
                 /\ \/ InCharge(s, exiting, q)
                    \/ \E d \in env.clients : d # c /\ InCharge(s, exiting, cl[d])
      <3>1. \/ InCharge(scm, exiting, r)
            \/ \E d \in env.clients : d # c /\ InCharge(scm, exiting, cl[d])
        BY <1>3, <2>3, <2>5, SomebodyFacts DEF Going
      <3>2. \A x : InCharge(scm, exiting, x) => InCharge(s, exiting, x)
        BY <1>3, <2>3 DEF InCharge, Going
      <3>3. InCharge(s, exiting, r) => InCharge(s, exiting, q)
        BY <1>1, <1>3, <2>1, <2>3 DEF Turned, InCharge, Before, Keeps, Going
      <3> QED BY <1>1, <2>1, <2>5, <3>1, <3>2, <3>3 DEF Turned, Saving
    <2>6. ASSUME Undisturbed(c)
          PROVE  Lone(s, file, proc, q)
      BY <1>1, <2>1, <2>3, <2>6
         DEF Turned, Lone, Alone, Fresh, Honoured, StatesAt, Clearing, Uninstalling, Saving
    <2> QED BY <2>2, <2>3, <2>4, <2>5, <2>6, ServiceStep
  <1> QED BY <1>2, <1>3

\* The process is started from the file, if it is complete.
LEMMA StartServiceInv ==
    ASSUME IInv, UNCHANGED env, NEW c \in env.clients, svc_StartService(c)
    PROVE  IInv'
  <1> DEFINE r == cl[c]
             q == Goto(r, "poll_start")
             s == [scm EXCEPT !.state = "START_PENDING"]
             Starts == ~scm.marked /\ scm.state = "STOPPED" /\ file \in Complete /\ ~Writing
  <1>1. /\ r \in Clients /\ Local(r) /\ r.handles \in Nat /\ r.pc = "StartService"
        /\ r.handles > 0 => scm.exists
        /\ Undisturbed(c) => Lone(scm, file, proc, r)
        /\ Calm => r.opt.uninstall /\ (r.writing => r.pc \in Saving)
        /\ scm \in Services /\ file \in Files
        /\ UNCHANGED <<file, exiting>>
    BY SceneFacts DEF svc_StartService, At, IInv, Basic
  <1>2. CASE ~Starts
    <2>1. AtReturn(c, r)
      BY <1>1 DEF AtReturn, Installing
    <2>2. MayReturn(r)
      BY <1>1 DEF MayReturn, Saving, Local, Installing, Uninstalling
    <2>3. Undisturbed(c) => MayReturnAlone(r)
      BY <1>1 DEF MayReturnAlone, Lone, Alone, StatesAt
    <2>4. Become(c, Return(r, "call failed"), scm) /\ HostSame
      BY <1>2 DEF svc_StartService, Fail, HostSame
    <2> QED BY <1>1, <2>1, <2>2, <2>3, <2>4, ReturnStep DEF Results
  <1>3. CASE Starts
    <2>1. Turned(r, q, "poll_start", r.ret)
      BY <1>1, GotoFacts DEF Calls
    <2>2. /\ Become(c, q, s)
          /\ proc' = [image |-> file, interactive |-> scm.interactive, pipe |-> FALSE]
      BY <1>3 DEF svc_StartService
    <2>3. /\ s \in Services /\ s.exists /\ ~s.marked /\ s.interactive = scm.interactive
          /\ s.state = "START_PENDING"
      BY <1>1, <1>3 DEF Services, States, Local, Holding
    <2>4. /\ proc' \in Processes /\ proc' # NoProcess /\ proc'.image = file
          /\ proc'.interactive = scm.interactive
      BY <1>1, <1>3, <2>2 DEF Processes, NoProcess, Complete, Services
    <2> HIDE DEF q, s
    <2>5. Local(q) /\ q.opt = r.opt
      BY <1>1, <2>1 DEF Turned, Local, Holding, Installing, Uninstalling, Saving
    <2>6. ~q.writing /\ \A d \in env.clients : d # c => ~cl[d].writing
      BY <1>3, <2>1 DEF Turned, Writing
    <2>7. Sensible(s, q)
      BY <2>3 DEF Sensible
    <2>8. InCharge(s, exiting, q)
      BY <2>1, <2>3 DEF Turned, InCharge, Going
    <2>9. ASSUME Undisturbed(c)
          PROVE  Lone(s, file', proc', q)
      BY <1>1, <2>1, <2>3, <2>4, <2>9
         DEF Turned, Lone, Alone, Fresh, Honoured, StatesAt, Clearing, Uninstalling, Saving
    <2> QED BY <1>1, <1>3, <2>2, <2>3, <2>4, <2>5, <2>6, <2>7, <2>8, <2>9, Step
  <1> QED BY <1>2, <1>3

\* The service is stopped to be removed.
LEMMA UStopInv ==
    ASSUME IInv, UNCHANGED env, NEW c \in env.clients, u_stop(c)
    PROVE  IInv'
  <1> DEFINE r == cl[c]
             q == Goto(r, "u_poll")
  <1>1. /\ r \in Clients /\ Local(r) /\ r.handles \in Nat /\ r.pc = "u_stop" /\ HostSame
        /\ r.handles > 0 => scm.exists
        /\ Undisturbed(c) => Lone(scm, file, proc, r)
        /\ Calm => r.opt.uninstall /\ (r.writing => r.pc \in Saving)
        /\ scm \in Services
    BY SceneFacts DEF u_stop, At
  <1>2. Turned(r, q, "u_poll", r.ret)
    BY <1>1, GotoFacts DEF Calls
  <1>3. CASE StopAccepted /\ Become(c, q, StopPending)
    <2>1. scm.state = "RUNNING"
      BY <1>3 DEF StopAccepted
    <2>2. /\ StopPending \in Services /\ StopPending.exists
          /\ StopPending.marked = scm.marked /\ StopPending.interactive = scm.interactive
          /\ StopPending.state = "STOP_PENDING"
      BY <1>1, <2>1, StopFacts DEF Local, Holding
    <2> HIDE DEF q
    <2>3. Local(q) /\ q.opt = r.opt /\ (q.writing => r.writing)
      BY <1>1, <1>2 DEF Turned, Local, Holding, Installing, Uninstalling, Saving
    <2>4. ASSUME Calm
          PROVE  (q.writing => q.pc \in Saving) /\ InCharge(StopPending, exiting, q)
      BY <1>1, <1>2, <2>2, <2>4 DEF Turned, Saving, InCharge, Keeps, Going, Local, Holding
    <2>5. ASSUME Undisturbed(c)
          PROVE  Lone(StopPending, file, proc, q)
      BY <1>1, <1>2, <2>1, <2>2, <2>5
         DEF Turned, Lone, Alone, Fresh, Honoured, StatesAt, Clearing, Uninstalling, Saving
    <2> QED BY <1>1, <1>3, <2>1, <2>2, <2>3, <2>4, <2>5, ServiceStep
  <1>4. CASE ~StopAccepted \/ "call" \in env.faults
    <2>1. CASE Become(c, q, scm)
      <3>1. scm.state # "RUNNING" \/ (~Calm /\ ~Undisturbed(c))
        BY <1>4 DEF StopAccepted, Calm, Undisturbed
      <3> HIDE DEF q
      <3>2. Moves(r, q)
        BY <1>1, <1>2 DEF Turned, Moves, Local, Holding, Installing, Uninstalling, Saving
      <3>3. ASSUME Calm
            PROVE  /\ q.writing => q.pc \in Saving
                   /\ InCharge(scm, exiting, r) => InCharge(scm, exiting, q)
        BY <1>1, <1>2, <3>1, <3>3
           DEF Turned, InCharge, Before, Keeps, Cleans, Going, Saving, Local, Holding
      <3>4. ASSUME Undisturbed(c)
            PROVE  Lone(scm, file, proc, q)
        BY <1>1, <1>2, <3>1, <3>4
           DEF Turned, Lone, Alone, Fresh, Honoured, StatesAt, Clearing, Uninstalling, Saving
      <3> QED BY <1>1, <2>1, <3>2, <3>3, <3>4, MoveStep
    <2>2. CASE StopAccepted /\ Become(c, q, StopPending)
      BY <1>3, <2>2
    <2> QED BY <1>4, <2>1, <2>2 DEF u_stop
  <1> QED BY <1>3, <1>4 DEF u_stop

\* The service is marked for deletion.
LEMMA UDeleteInv ==
    ASSUME IInv, UNCHANGED env, NEW c \in env.clients, u_delete(c)
    PROVE  IInv'
  <1> DEFINE r == cl[c]
             q == Goto(r, "u_close")
             s == [scm EXCEPT !.marked = TRUE]
  <1>1. /\ r \in Clients /\ Local(r) /\ r.handles \in Nat /\ r.pc = "u_delete" /\ HostSame
        /\ r.handles > 0 => scm.exists
        /\ Undisturbed(c) => Lone(scm, file, proc, r)
        /\ Calm => r.opt.uninstall /\ (r.writing => r.pc \in Saving)
        /\ scm \in Services /\ scm.state \in States
    BY SceneFacts DEF u_delete, At
  <1>2. Turned(r, q, "u_close", r.ret)
    BY <1>1, GotoFacts DEF Calls
  <1>3. CASE Become(c, q, s)
    <2>1. /\ s \in Services /\ s.exists /\ s.marked /\ s.interactive = scm.interactive
          /\ s.state = scm.state
      BY <1>1 DEF Services, Local, Holding
    <2> HIDE DEF q, s
    <2>2. Local(q) /\ q.opt = r.opt /\ (q.writing => r.writing)
      BY <1>1, <1>2 DEF Turned, Local, Holding, Installing, Uninstalling, Saving
    <2>3. ASSUME Calm
          PROVE  /\ q.writing => q.pc \in Saving
                 /\ \/ InCharge(s, exiting, q)
                    \/ \E d \in env.clients : d # c /\ InCharge(s, exiting, cl[d])
      <3>1. q.writing => q.pc \in Saving
        BY <1>1, <1>2, <2>3 DEF Turned, Saving
      <3>2. CASE scm.state = "STOPPED"
        <4>1. Keeps(q)
          BY <1>1, <1>2 DEF Turned, Keeps, Local, Holding
        <4> QED BY <2>1, <3>1, <3>2, <4>1 DEF InCharge, Going, Cleans
      <3>3. CASE scm.state # "STOPPED"
        <4>1. \/ InCharge(scm, exiting, r)
              \/ \E d \in env.clients : d # c /\ InCharge(scm, exiting, cl[d])
          BY <2>3, <3>3, SomebodyFacts DEF Going
        <4>2. \A x : InCharge(scm, exiting, x) => InCharge(s, exiting, x)
          BY <2>1, <3>3 DEF InCharge, Going
        <4>3. InCharge(s, exiting, r) => InCharge(s, exiting, q)
          BY <1>1, <1>2, <2>1, <3>3 DEF Turned, InCharge, Before, Going, States
        <4> QED BY <3>1, <4>1, <4>2, <4>3
      <3> QED BY <3>2, <3>3
    <2>4. ASSUME Undisturbed(c)
          PROVE  Lone(s, file, proc, q)
      BY <1>1, <1>2, <2>1, <2>4
         DEF Turned, Lone, Alone, Fresh, Honoured, StatesAt, Clearing, Uninstalling, Saving
    <2> QED BY <1>1, <1>3, <2>1, <2>2, <2>3, <2>4, ServiceStep
  <1>4. CASE "call" \in env.faults /\ Become(c, q, scm)
    <2>1. ~Calm /\ ~Undisturbed(c)
      BY <1>4 DEF Calm, Undisturbed
    <2> HIDE DEF q
    <2>2. Moves(r, q)
      BY <1>1, <1>2 DEF Turned, Moves, Local, Holding, Installing, Uninstalling, Saving
    <2> QED BY <1>1, <1>4, <2>1, <2>2, MoveStep
  <1> QED BY <1>3, <1>4 DEF u_delete

\* The file is deleted, unless somebody writes or executes it.
LEMMA UUnlinkInv ==
    ASSUME IInv, UNCHANGED env, NEW c \in env.clients, u_unlink(c)
    PROVE  IInv'
  <1> DEFINE r == cl[c]
             q == Return(r, "ok")
  <1>1. /\ r \in Clients /\ Local(r) /\ r.pc = "u_unlink"
        /\ Undisturbed(c) => Lone(scm, file, proc, r)
        /\ Calm => ~exiting
        /\ scm \in Services /\ scm.state \in States
        /\ proc = NoProcess <=> scm.state = "STOPPED"
        /\ UNCHANGED <<proc, exiting>>
        /\ Become(c, q, scm)
    BY SceneFacts DEF u_unlink, At, Calm
  <1>2. /\ file' \in Files /\ (proc # NoProcess => file' \in Complete)
        /\ ~exiting /\ proc = NoProcess =>
              file' = "none" \/ \E d \in env.clients : cl[d].writing
    BY UnlinkFacts DEF u_unlink
  <1>3. AtReturn(c, r)
    BY <1>1 DEF AtReturn, Uninstalling
  <1>4. /\ Landed(r, r, q) /\ Local(q)
        /\ q.handles > 0 => scm.exists
        /\ q.writing => r.writing
    BY <1>1, <1>3, LandedFacts DEF Results
  <1> HIDE DEF q
  <1>5. /\ q.opt = r.opt /\ Sensible(scm, q) /\ proc \in Processes
        /\ proc # NoProcess =>
              /\ proc.image \in Complete
              /\ ~q.writing /\ \A d \in env.clients : d # c => ~cl[d].writing
    BY <1>4 DEF Landed, Sensible, IInv, Basic, Executed, Writing
  <1>6. ASSUME Calm
        PROVE  /\ q.writing => q.pc \in Saving
               /\ \/ Going(scm) /\ file' = "none"
                  \/ InCharge(scm, exiting, q)
                  \/ \E d \in env.clients : d # c /\ InCharge(scm, exiting, cl[d])
    <2>1. ~q.writing
      BY <1>1, <1>4, <1>6 DEF IInv, Responsible, Saving
    <2>2. CASE ~Going(scm)
      <3>1. InCharge(scm, exiting, r) => InCharge(scm, exiting, q)
        BY <1>1, <1>4, <2>2 DEF Landed, Local, Uninstalling, InCharge, Before, States
      <3> QED BY <1>6, <2>1, <2>2, <3>1, SomebodyFacts
    <2>3. CASE Going(scm) /\ file' # "none"
      <3>1. PICK d \in env.clients : cl[d].writing
        BY <1>1, <1>2, <1>6, <2>3 DEF Going
      <3>2. cl[d].pc \in Saving /\ d # c
        BY <1>1, <1>6, <3>1 DEF IInv, Responsible, Saving
      <3>3. InCharge(scm, exiting, cl[d])
        BY <2>3, <3>2 DEF InCharge, Cleans, Going
      <3> QED BY <2>1, <3>2, <3>3
    <2> QED BY <2>1, <2>2, <2>3
  <1>7. ASSUME Undisturbed(c)
        PROVE  Lone(scm, file', proc, q)
    BY <1>1, <1>4, <1>7
       DEF Landed, Lone, Alone, Fresh, Honoured, StatesAt, States, Clearing, Uninstalling, Saving
  <1> QED BY <1>1, <1>2, <1>4, <1>5, <1>6, <1>7, Step

-----------------------------------------------------------------------------
(***************************************************************************)
(* The actions of the service process.                                     *)
(***************************************************************************)
LEMMA ProcessStep ==
    ASSUME IInv, UNCHANGED <<env, cl, file>>,
           scm' \in Services, scm'.exists \/ scm' = NoService,
           proc' \in Processes, exiting' \in BOOLEAN, Referenced', Executed',
           Calm => Attended(scm', file, exiting', cl),
           \A c \in env.clients : Undisturbed(c) => Lone(scm', file, proc', cl[c])
    PROVE  IInv'
  <1>1. /\ env' = env /\ cl' = cl /\ file' = file /\ Clients' = Clients
        /\ \A c \in env.clients : Local(cl[c])' <=> Local(cl[c])
    BY DEF Clients, Local
  <1>2. Basic'
    BY <1>1 DEF IInv, Basic
  <1>3. Calm' => Responsible'
    BY <1>1 DEF IInv, Calm, Responsible, Attended
  <1>4. ASSUME NEW c \in env.clients, Undisturbed(c)'
        PROVE  Lone(scm, file, proc, cl[c])'
    <2>1. Lone(scm', file, proc', cl[c])
      BY <1>1, <1>4 DEF Undisturbed
    <2> QED BY <1>1, <2>1 DEF Lone, Alone, Fresh, Honoured
  <1> QED BY <1>1, <1>2, <1>3, <1>4 DEF IInv

\* Somebody has a handle to a service that starts or stops, and will still
\* have it when the service has stopped.
LEMMA StoppedInv ==
    ASSUME IInv, UNCHANGED env, scm.state \in {"START_PENDING", "STOP_PENDING"}, Stopped(scm)
    PROVE  IInv'
  <1> DEFINE s == [scm EXCEPT !.state = "STOPPED"]
  <1>1. /\ scm \in Services /\ scm.exists /\ proc' = NoProcess /\ exiting' = TRUE
        /\ cl' = cl /\ file' = file /\ env' = env
        /\ \A d \in env.clients : cl[d].handles \in Nat /\ Local(cl[d])
    BY ClientFacts DEF IInv, Basic, NoService, Stopped
  <1>2. /\ s \in Services /\ s.exists /\ s.marked = scm.marked /\ s.state = "STOPPED"
        /\ s.interactive = scm.interactive
    BY <1>1 DEF Services, States
  <1>3. \/ /\ scm' = s
           /\ s.marked => \E d \in env.clients : cl[d].handles # 0
        \/ /\ scm' = NoService /\ scm.marked
           /\ \A d \in env.clients : cl[d].handles = 0
    BY <1>2 DEF Stopped
  <1> HIDE DEF s
  <1>4. scm' \in Services /\ (scm'.exists \/ scm' = NoService) /\ scm'.state = "STOPPED"
    <2>1. NoService \in Services /\ NoService.state = "STOPPED"
      BY DEF NoService, Services, States
    <2> QED BY <1>2, <1>3, <2>1
  <1>5. Referenced'
    BY <1>1, <1>2, <1>3 DEF Referenced, NoService
  <1>6. Executed' /\ proc' \in Processes
    BY <1>1, <1>4 DEF Executed, NoProcess, Processes
  <1>7. ASSUME Calm
        PROVE  Attended(scm', file, exiting', cl)
    <2>1. PICK d \in env.clients : InCharge(scm, exiting, cl[d])
      BY <1>7 DEF IInv, Responsible, Attended, Going
    <2>2. cl[d].handles > 0 /\ Keeps(cl[d])
      BY <1>1, <2>1 DEF InCharge, Keeps, Local, Holding
    <2>3. scm' = s
      BY <1>1, <1>3, <2>2
    <2>4. Before(cl[d]) \/ cl[d].pc = "u_poll"
      BY <1>1, <2>1, <2>2 DEF InCharge, Before, Local, Installing, Uninstalling
    <2>5. InCharge(s, exiting', cl[d])
      BY <1>2, <2>2, <2>4 DEF InCharge, Cleans, Going
    <2> QED BY <2>3, <2>5 DEF Attended
  <1>8. ASSUME NEW c \in env.clients, Undisturbed(c)
        PROVE  Lone(scm', file, proc', cl[c])
    <2>1. Lone(scm, file, proc, cl[c])
      BY <1>8, ClientFacts
    <2>2. scm' = s /\ ~scm.marked
      BY <1>3, <2>1 DEF Lone, Alone
    <2> QED BY <1>1, <1>2, <2>1, <2>2 DEF Lone, Alone, Fresh, Honoured, StatesAt, States, Saving
  <1> QED BY <1>1, <1>4, <1>5, <1>6, <1>7, <1>8, ProcessStep

\* The process reports that it runs, or that it could not start.
LEMMA StartInv ==
    ASSUME IInv, UNCHANGED env, winexesvcStart
    PROVE  IInv'
  <1> DEFINE s == [scm EXCEPT !.state = "RUNNING"]
  <1>1. scm.state = "START_PENDING" /\ scm \in Services /\ scm.exists
    BY DEF winexesvcStart, IInv, Basic, NoService
  <1>2. CASE Stopped(scm)
    BY <1>1, <1>2, StoppedInv
  <1>3. CASE scm' = s /\ UNCHANGED <<cl, file, proc, exiting>>
    <2>1. /\ s \in Services /\ s.exists /\ s.marked = scm.marked /\ s.state = "RUNNING"
          /\ s.interactive = scm.interactive
      BY <1>1 DEF Services, States
    <2> HIDE DEF s
    <2>2. Referenced' /\ Executed' /\ proc' \in Processes /\ exiting' \in BOOLEAN
      BY <1>1, <1>3, <2>1 DEF IInv, Basic, Referenced, Executed, Writing
    <2>3. ASSUME Calm
          PROVE  Attended(s, file, exiting', cl)
      <3>1. PICK d \in env.clients : InCharge(scm, exiting, cl[d])
        BY <1>1, <2>3 DEF IInv, Responsible, Attended, Going
      <3>2. Before(cl[d])
        BY <1>1, <3>1, ClientFacts DEF InCharge, Before, Local, Installing
      <3> QED BY <2>1, <3>2 DEF Attended, InCharge, Going
    <2>4. ASSUME NEW c \in env.clients, Undisturbed(c)
          PROVE  Lone(s, file, proc, cl[c])
      <3>1. Lone(scm, file, proc, cl[c])
        BY <2>4, ClientFacts
      <3> QED BY <1>1, <2>1, <3>1 DEF Lone, Alone, Fresh, Honoured, StatesAt, States, Saving
    <2> QED BY <1>3, <2>1, <2>2, <2>3, <2>4, ProcessStep
  <1> QED BY <1>2, <1>3 DEF winexesvcStart

\* The process makes the control pipe.
LEMMA ServerLoopInv ==
    ASSUME IInv, UNCHANGED env, server_loop
    PROVE  IInv'
  <1>1. /\ proc \in Processes /\ proc # NoProcess /\ scm \in Services
        /\ scm' = scm /\ exiting' = exiting /\ exiting \in BOOLEAN
        /\ cl' = cl /\ file' = file /\ env' = env
        /\ scm.exists \/ scm = NoService
    BY DEF server_loop, IInv, Basic
  <1>2. /\ proc' \in Processes /\ proc' # NoProcess /\ proc'.image = proc.image
        /\ proc'.interactive = proc.interactive
    <2>1. proc' = [proc EXCEPT !.pipe = TRUE]
      BY DEF server_loop
    <2> QED BY <1>1, <2>1 DEF Processes, NoProcess
  <1>3. Referenced' /\ Executed'
    BY <1>1, <1>2 DEF IInv, Basic, Referenced, Executed, Writing
  <1>4. Calm => Attended(scm', file, exiting', cl)
    BY <1>1 DEF IInv, Responsible
  <1>5. ASSUME NEW c \in env.clients, Undisturbed(c)
        PROVE  Lone(scm', file, proc', cl[c])
    <2>1. Lone(scm, file, proc, cl[c])
      BY <1>5, ClientFacts
    <2> QED BY <1>1, <1>2, <2>1 DEF Lone, Fresh, Honoured
  <1> QED BY <1>1, <1>2, <1>3, <1>4, <1>5, ProcessStep

\* The process of a stopped service ends.
LEMMA ProcessExitInv ==
    ASSUME IInv, UNCHANGED env, process_exit
    PROVE  IInv'
  <1>1. /\ exiting = TRUE /\ exiting' = FALSE /\ proc' = proc /\ scm' = scm
        /\ cl' = cl /\ file' = file /\ env' = env
        /\ proc \in Processes /\ scm \in Services /\ (scm.exists \/ scm = NoService)
    BY DEF process_exit, IInv, Basic
  <1>2. Referenced' /\ Executed'
    BY <1>1 DEF IInv, Basic, Referenced, Executed, Writing
  <1>3. \A r : InCharge(scm, TRUE, r) => InCharge(scm, FALSE, r)
    BY DEF InCharge, Cleans
  <1>4. Calm => Attended(scm', file, exiting', cl)
    BY <1>1, <1>3 DEF IInv, Responsible, Attended
  <1>5. \A c \in env.clients : Undisturbed(c) => Lone(scm', file, proc', cl[c])
    BY <1>1, ClientFacts
  <1> QED BY <1>1, <1>2, <1>4, <1>5, ProcessStep

-----------------------------------------------------------------------------
(***************************************************************************)
(* The invariant holds.                                                    *)
(***************************************************************************)
\* main has not made a call yet.
LEMMA MainFacts ==
    ASSUME NEW opt \in env.options
    PROVE  LET r == main(opt)
           IN  /\ r \in Clients /\ r.opt = opt /\ r.handles = 0 /\ ~r.writing
               /\ ~r.activated /\ r.ran = "none"
               /\ \/ r.pc = "u_open" /\ r.ret = "main"
                  \/ ~opt.reinstall /\ r.pc = "upload" /\ r.ret = "open"
                  \/ /\ ~opt.reinstall /\ opt.interactive = "ignore"
                     /\ r.pc = "open" /\ r.ret = "main"
  <1> DEFINE i == InitClient(opt)
  <1>1. /\ i \in Clients /\ i.opt = opt /\ i.handles = 0 /\ ~i.writing
        /\ ~i.activated /\ i.ran = "none" /\ i.ret = "main"
    BY DEF InitClient, Clients, Calls, Results
  <1> HIDE DEF i
  <1>2. /\ Turned(i, svc_install(i, "open"), "upload", "open")
        /\ Turned(i, async_open(i), "open", i.ret)
    BY <1>1, CallFacts
  <1>3. Turned(i, svc_uninstall(i, "main"), "u_open", "main")
    BY <1>1 DEF svc_uninstall, Clients, Turned, Calls
  <1>4. \/ main(opt) = svc_uninstall(i, "main")
        \/ ~opt.reinstall /\ main(opt) = svc_install(i, "open")
        \/ ~opt.reinstall /\ opt.interactive = "ignore" /\ main(opt) = async_open(i)
    BY <1>1 DEF main, main_install, i
  <1> QED BY <1>1, <1>2, <1>3, <1>4 DEF Turned

\* The invariant holds before the first call.
LEMMA InitInv == Init => IInv
  <1> SUFFICES ASSUME Init
               PROVE  IInv
    OBVIOUS
  <1>1. env \in Scenarios /\ env \in Scenario /\ file \in Files /\ exiting = FALSE
    BY ScenariosAssumption DEF Init, Scenario, Files, Complete
  <1>2. PICK opt \in [env.clients -> env.options] : cl = [c \in env.clients |-> main(opt[c])]
    BY DEF Init
  <1>3. ASSUME NEW c \in env.clients
        PROVE  LET r == cl[c]
               IN  /\ r \in Clients /\ r.handles = 0 /\ ~r.writing
                   /\ ~r.activated /\ r.ran = "none"
                   /\ \/ r.pc = "u_open" /\ r.ret = "main"
                      \/ ~r.opt.reinstall /\ r.pc = "upload" /\ r.ret = "open"
                      \/ /\ ~r.opt.reinstall /\ r.opt.interactive = "ignore"
                         /\ r.pc = "open" /\ r.ret = "main"
    BY <1>2, MainFacts
  <1>4. \A c \in env.clients : Local(cl[c])
    BY <1>3 DEF Local, Holding, Installing, Uninstalling, Saving
  <1> DEFINE Host ==
        /\ scm \in Services /\ ~scm.marked /\ scm.state \in {"STOPPED", "RUNNING"}
        /\ ~scm.exists => scm = NoService
        /\ proc \in Processes
        /\ \/ scm.state = "STOPPED" /\ proc = NoProcess
           \/ /\ scm.state = "RUNNING" /\ proc # NoProcess /\ file \in Complete
              /\ proc.image \in Complete /\ proc.interactive = scm.interactive
  <1>5. Host
    <2>1. CASE scm = NoService /\ proc = NoProcess
      BY <2>1 DEF NoService, NoProcess, Services, States, Processes
    <2>2. ASSUME NEW i \in BOOLEAN, scm = InitialService(FALSE, i), proc = NoProcess
          PROVE  Host
      BY <2>2 DEF InitialService, NoProcess, Services, States, Processes
    <2>3. ASSUME NEW i \in BOOLEAN, scm = InitialService(TRUE, i), file \in Complete,
                 proc = [image |-> file, interactive |-> i, pipe |-> TRUE]
          PROVE  Host
      BY <2>3 DEF InitialService, NoProcess, Services, States, Processes
    <2> QED BY <2>1, <2>2, <2>3 DEF Init
  <1>6. Basic
    <2>1. Referenced /\ Executed
      BY <1>3, <1>5 DEF Referenced, Executed, Writing
    <2>2. cl \in [env.clients -> Clients]
      BY <1>2, <1>3
    <2> QED BY <1>1, <1>4, <1>5, <2>1, <2>2 DEF Basic
  <1>7. Responsible
    <2>1. PICK c \in env.clients : TRUE
      BY <1>1 DEF Scenario
    <2>2. InCharge(scm, exiting, cl[c])
      BY <1>1, <1>3, <1>5 DEF InCharge, Before, Cleans, Going
    <2> QED BY <1>3, <2>2 DEF Responsible, Attended
  <1>8. \A c \in env.clients : Lone(scm, file, proc, cl[c])
    BY <1>3, <1>5
       DEF Lone, Alone, Fresh, Honoured, StatesAt, Clearing, Uninstalling, Saving
  <1> QED BY <1>6, <1>7, <1>8 DEF IInv

\* Every step keeps the invariant.
LEMMA NextInv == IInv /\ [Next]_vars => IInv'
  <1> SUFFICES ASSUME IInv, [Next]_vars
               PROVE  IInv'
    OBVIOUS
  <1>1. ASSUME NEW c \in env.clients, ClientStep(c), UNCHANGED env
        PROVE  IInv'
    <2>1. CASE open_pipe(c) BY <1>1, <2>1, OpenInv
    <2>2. CASE run(c) BY <1>1, <2>2, RunInv
    <2>3. CASE svc_UploadService(c) BY <1>1, <2>3, UploadInv
    <2>4. CASE savefile_open(c) BY <1>1, <2>4, SavefileOpenInv
    <2>5. CASE savefile_write(c) BY <1>1, <2>5, SavefileWriteInv
    <2>6. CASE savefile_close(c) BY <1>1, <2>6, SavefileCloseInv
    <2>7. CASE svc_OpenService(c) BY <1>1, <2>7, OpenServiceInv
    <2>8. CASE svc_CreateService(c) BY <1>1, <2>8, CreateServiceInv
    <2>9. CASE svc_QueryServiceStatus(c) BY <1>1, <2>9, QueryServiceStatusInv
    <2>10. CASE svc_ControlService(c) BY <1>1, <2>10, ControlServiceInv
    <2>11. CASE svc_ChangeServiceConfig(c) BY <1>1, <2>11, ChangeServiceConfigInv
    <2>12. CASE poll_stop(c) BY <1>1, <2>12, PollStopInv
    <2>13. CASE svc_StartService(c) BY <1>1, <2>13, StartServiceInv
    <2>14. CASE poll_start(c) BY <1>1, <2>14, PollStartInv
    <2>15. CASE svc_CloseServiceHandle(c) BY <1>1, <2>15, CloseServiceHandleInv
    <2>16. CASE u_open(c) BY <1>1, <2>16, UOpenInv
    <2>17. CASE u_stop(c) BY <1>1, <2>17, UStopInv
    <2>18. CASE u_poll(c) BY <1>1, <2>18, UPollInv
    <2>19. CASE u_delete(c) BY <1>1, <2>19, UDeleteInv
    <2>20. CASE u_close(c) BY <1>1, <2>20, UCloseInv
    <2>21. CASE u_unlink(c) BY <1>1, <2>21, UUnlinkInv
    <2> QED
      BY <1>1, <2>1, <2>2, <2>3, <2>4, <2>5, <2>6, <2>7, <2>8, <2>9, <2>10, <2>11, <2>12,
         <2>13, <2>14, <2>15, <2>16, <2>17, <2>18, <2>19, <2>20, <2>21
         DEF ClientStep
  <1>2. ASSUME NEW c \in env.clients, crash(c), UNCHANGED env
        PROVE  IInv'
    BY <1>2, CrashInv
  <1>3. ASSUME NEW c \in env.clients, NT_ERR(c), UNCHANGED env
        PROVE  IInv'
    BY <1>3, FailureInv
  <1>4. CASE winexesvcStart /\ UNCHANGED env
    BY <1>4, StartInv
  <1>5. CASE server_loop /\ UNCHANGED env
    BY <1>5, ServerLoopInv
  <1>6. CASE winexesvcCtrlHandler /\ UNCHANGED env
    BY <1>6, StoppedInv DEF winexesvcCtrlHandler
  <1>7. CASE process_exit /\ UNCHANGED env
    BY <1>7, ProcessExitInv
  <1>8. CASE UNCHANGED vars
    BY <1>8 DEF vars, IInv, Basic, Clients, Local, Referenced, Executed, Writing, Calm,
         Responsible, Attended, Undisturbed, Lone, Alone, Fresh, Honoured
  <1> QED BY <1>1, <1>2, <1>3, <1>4, <1>5, <1>6, <1>7, <1>8 DEF Next, Service

\* The invariant holds in every behaviour, failures and killed clients included.
THEOREM Invariance == Spec => []IInv
  BY InitInv, NextInv, PTL DEF Spec

\* The state of the clients, of the service, of its file and of its process is
\* always of the declared shape: no client closes more handles than it opened.
THEOREM TypeCorrect == Spec => []TypeOK
  <1>1. IInv => TypeOK
    BY DEF IInv, Basic, TypeOK, Clients, Results, Services, States, Files, Processes
  <1> QED BY <1>1, Invariance, PTL

\* svc_uninstall: when all clients asked for the removal of the service and have
\* ended, no call of theirs failed, none was killed and a stopped process ends
\* within the pause before the file is deleted, then neither the service nor
\* its file is left, whatever installations and removals overlapped.
THEOREM UninstallRemoves == Spec => []UninstallLeavesNothing
  <1>1. ASSUME IInv
        PROVE  UninstallLeavesNothing
    <2> SUFFICES ASSUME env.promptExit, env.faults \subseteq {"start"},
                        \A c \in env.clients : At(c, "gone") /\ cl[c].opt.uninstall
                 PROVE  ~scm.exists /\ file = "none"
      BY DEF UninstallLeavesNothing
    <2>1. \A c \in env.clients : cl[c].pc = "gone" /\ cl[c].handles = 0
      BY <1>1 DEF At, IInv, Basic, Local
    <2>2. Responsible
      BY <1>1 DEF IInv, Calm
    <2>3. \A c \in env.clients : ~InCharge(scm, exiting, cl[c])
      BY <1>1, <2>1
         DEF IInv, Basic, Services, States, InCharge, Before, Keeps, Cleans, Going, Saving
    <2>4. Going(scm) /\ file = "none"
      BY <2>2, <2>3 DEF Responsible, Attended
    <2>5. ~scm.marked
      BY <1>1, <2>1, <2>4 DEF IInv, Basic, Referenced, Going
    <2> QED BY <2>4, <2>5 DEF Going
  <1> QED BY <1>1, Invariance, PTL

\* main with --reinstall: the command of a client that nobody disturbs is only
\* executed by the image it has uploaded itself.
THEOREM ReinstallFresh == Spec => []FreshAfterReinstall
  <1>1. IInv => FreshAfterReinstall
    BY DEF IInv, FreshAfterReinstall, Lone, Fresh
  <1> QED BY <1>1, Invariance, PTL

\* svc_install with --interactive: the service that executes the command of a
\* client that nobody disturbs has the access to the desktop it asked for.
THEOREM InteractiveHonoured == Spec => []TypeHonoured
  <1>1. ASSUME IInv, NEW c \in env.clients, Undisturbed(c), At(c, "run"),
               cl[c].opt.interactive # "ignore"
        PROVE  proc.interactive = (cl[c].opt.interactive = "allow")
    <2>1. Lone(scm, file, proc, cl[c])
      BY <1>1, ClientFacts
    <2>2. proc # NoProcess
      BY <1>1, <2>1 DEF IInv, Basic, Executed, At, Lone, Alone, StatesAt, Saving
    <2> QED BY <1>1, <2>1, <2>2 DEF At, Lone, Honoured, Clearing, Uninstalling
  <1>2. IInv => TypeHonoured
    BY <1>1 DEF TypeHonoured
  <1> QED BY <1>2, Invariance, PTL
=============================================================================
