------------------------ MODULE WinexeSessionProofs -------------------------
(***************************************************************************)
(* Proofs about WinexeSession, for any versions, scenarios, number of      *)
(* connections and amount of output.                                       *)
(*                                                                         *)
(* 1. The host: each action of the service, the process and its pipes      *)
(*    keeps HostOK, in particular that a control pipe holds at most one    *)
(*    line, and none unless its thread waits in FlushFileBuffers.          *)
(* 2. The operations of async.c on a view of three contexts: what each     *)
(*    sends (Posted) and touches (Touched).                                *)
(* 3. The handlers with their callbacks, as compositions of these          *)
(*    (Handled): HandleReplyIs.  What follows uses only that form.         *)
(* 4. LInv: requests are in one place each, replies fit their requests,    *)
(*    handles lead to pipes of their name.  TypeOK, OneLinePerRead.        *)
(* 5. TInv: which requests can time out.  NoTimeoutWhileRunning.           *)
(***************************************************************************)
EXTENDS WinexeSession, TLAPS

\* Exit codes a process can have.
Codes == {ProcessCode, AbortCode}

CtrlMessages ==
    {m \in Messages : /\ m.cmd \in {"version", "error", "std_io_err", "return_code"}
                      /\ m.cmd = "return_code" => m.arg \in Codes}

ConnOK(h, k) ==
    LET p == h.pipe[Ctrl(k)]
        t == h.th[k]
    IN  /\ t.next \in {"none", "hgets", "finish", "connect_pio", "disconnect"}
        /\ t.pc \in {"flush_pio", "flush_perr"} => h.ec \in Codes
        /\ p.s2c \in Seq(CtrlMessages)
        /\ Len(p.s2c) <= 1
        /\ p.st = "connected" /\ t.pc # "flush" => p.s2c = <<>>
        /\ k > h.nconn => t.pc = "none" /\ p.s2c = <<>>

HostOK(h) == h \in Hosts /\ \A k \in Conn : ConnOK(h, k)

\* Names of pipes.
LEMMA PipeNames ==
    /\ IO \in PipeId /\ ERR \in PipeId /\ NoPipe \notin PipeId /\ IO # ERR
    /\ \A k \in Conn : Ctrl(k) \in PipeId /\ Ctrl(k) # IO /\ Ctrl(k) # ERR
    /\ \A j, k \in Conn : Ctrl(j) = Ctrl(k) => j = k
    /\ \A k : Ctrl(k)[1] = "ctrl"
    /\ IO[1] = "io" /\ ERR[1] = "err"
  <1>1. IO[1] = "io" /\ ERR[1] = "err" /\ \A k : Ctrl(k)[1] = "ctrl"
    BY DEF IO, ERR, Ctrl
  <1>2. NoPipe[1] = "none"
    BY DEF NoPipe
  <1> QED BY <1>1, <1>2 DEF IO, ERR, NoPipe, PipeId, Ctrl

Nexts == {"none", "hgets", "finish", "connect_pio", "disconnect"}

\* Thread k may leave the call it is at: what it wrote has been read.
MayLeave(h, k) ==
    /\ h.th[k].pc # "none"
    /\ \/ h.th[k].pc # "flush"
       \/ h.pipe[Ctrl(k)].s2c = <<>>
       \/ h.pipe[Ctrl(k)].st # "connected"

LEMMA GotoOK ==
    ASSUME NEW h, HostOK(h), NEW k \in Conn, NEW pc, pc \in ThreadCalls \ {"flush"},
           MayLeave(h, k), pc \in {"flush_pio", "flush_perr"} => h.ec \in Codes
    PROVE  /\ HostOK(Goto(h, k, pc))
           /\ Goto(h, k, pc).pipe = h.pipe
           /\ Goto(h, k, pc).nconn = h.nconn
           /\ Goto(h, k, pc).th[k].pc = pc
  <1> DEFINE g == Goto(h, k, pc)
  <1>1. h \in Hosts /\ h.th[k] \in Threads /\ h.th \in [Conn -> Threads]
    BY DEF HostOK, Hosts
  <1>2. g \in Hosts
    BY <1>1 DEF Hosts, Threads, Goto
  <1>3. g.pipe = h.pipe /\ g.ec = h.ec /\ g.nconn = h.nconn
    BY <1>1 DEF Goto, Hosts
  <1>4. \A j \in Conn : g.th[j].pc = IF j = k THEN pc ELSE h.th[j].pc
    BY <1>1 DEF Goto, Hosts, Threads
  <1>5. ASSUME NEW j \in Conn PROVE ConnOK(g, j)
    <2>1. g.th[j].next = h.th[j].next
      BY <1>1 DEF Goto, Hosts, Threads
    <2>3. ConnOK(h, j)
      BY DEF HostOK
    <2> QED BY <2>1, <1>4, <2>3, <1>3 DEF ConnOK, MayLeave
  <1> QED BY <1>2, <1>3, <1>4, <1>5 DEF HostOK

\* hprintf writes one line into an empty pipe.
LEMMA HprintfOK ==
    ASSUME NEW h, HostOK(h), NEW k \in Conn, NEW m \in CtrlMessages,
           NEW next, next \in Nexts,
           h.th[k].pc # "none", h.th[k].pc # "flush"
    PROVE  HostOK(hprintf(h, k, m, next))
  <1> DEFINE g == hprintf(h, k, m, next)
             s == IF h.pipe[Ctrl(k)].st = "connected"
                  THEN Append(h.pipe[Ctrl(k)].s2c, m) ELSE h.pipe[Ctrl(k)].s2c
  <1>1. /\ h \in Hosts /\ h.th \in [Conn -> Threads] /\ h.pipe \in [PipeId -> Pipes]
        /\ Ctrl(k) \in PipeId /\ h.pipe[Ctrl(k)] \in Pipes /\ ConnOK(h, k)
    BY PipeNames DEF HostOK, Hosts
  <1>2. m \in Messages /\ h.pipe[Ctrl(k)].s2c \in Seq(Messages)
    BY <1>1 DEF Pipes, CtrlMessages
  <1>3. s \in Seq(Messages)
    BY <1>2
  <1>4. [pc |-> "flush", next |-> next] \in Threads
    BY DEF Threads, Nexts, ThreadCalls
  <1>5. s \in Seq(CtrlMessages) /\ Len(s) <= 1
    BY <1>1 DEF ConnOK
  <1> HIDE DEF s
  <1>6. g = [h EXCEPT !.pipe[Ctrl(k)].s2c = s, !.th[k] = [pc |-> "flush", next |-> next]]
    BY DEF hprintf, s
  <1>7. g \in Hosts
    <2>1. [h.pipe EXCEPT ![Ctrl(k)].s2c = s] \in [PipeId -> Pipes]
      BY <1>1, <1>3 DEF Pipes
    <2>2. [h.th EXCEPT ![k] = [pc |-> "flush", next |-> next]] \in [Conn -> Threads]
      BY <1>1, <1>4
    <2> QED BY <1>1, <1>6, <2>1, <2>2 DEF Hosts
  <1>8. /\ g.ec = h.ec /\ g.nconn = h.nconn
        /\ g.pipe = [h.pipe EXCEPT ![Ctrl(k)].s2c = s]
        /\ g.th = [h.th EXCEPT ![k] = [pc |-> "flush", next |-> next]]
    BY <1>1, <1>6 DEF Hosts
  <1> HIDE DEF g
  <1>9. ASSUME NEW j \in Conn PROVE ConnOK(g, j)
    <2>1. ConnOK(h, j)
      BY DEF HostOK
    <2>2. CASE j = k
      <3>1. g.pipe[Ctrl(k)].s2c = s /\ g.pipe[Ctrl(k)].st = h.pipe[Ctrl(k)].st
        BY <1>1, <1>8 DEF Pipes
      <3>2. g.th[k].pc = "flush" /\ g.th[k].next = next
        BY <1>1, <1>8
      <3> QED BY <2>1, <2>2, <3>1, <3>2, <1>5, <1>8 DEF ConnOK, Nexts
    <2>3. CASE j # k
      <3>1. g.pipe[Ctrl(j)] = h.pipe[Ctrl(j)] /\ g.th[j] = h.th[j]
        BY <1>1, <1>8, <2>3, PipeNames
      <3> QED BY <2>1, <3>1, <1>8 DEF ConnOK
    <2> QED BY <2>2, <2>3
  <1> QED BY <1>7, <1>9 DEF HostOK, g

\* Changes that leave threads and control pipes alone, or only empty them.
Gentle(h, g) ==
    /\ g \in Hosts
    /\ g.nconn = h.nconn
    /\ g.ec = h.ec \/ g.ec \in Codes
    /\ \A j \in Conn : g.th[j] = h.th[j]
    /\ \A j \in Conn :
          \/ g.pipe[Ctrl(j)].s2c = h.pipe[Ctrl(j)].s2c
          \/ g.pipe[Ctrl(j)].s2c = <<>>
    /\ \A j \in Conn :
          \/ g.pipe[Ctrl(j)].st = h.pipe[Ctrl(j)].st
          \/ g.pipe[Ctrl(j)].st # "connected"

LEMMA GentleOK ==
    ASSUME NEW h, HostOK(h), NEW g, Gentle(h, g)
    PROVE  HostOK(g)
  <1>1. ASSUME NEW j \in Conn PROVE ConnOK(g, j)
    <2>1. ConnOK(h, j)
      BY DEF HostOK
    <2>2. <<>> \in Seq(CtrlMessages) /\ Len(<<>>) = 0
      OBVIOUS
    <2>3. g.th[j] = h.th[j] /\ g.nconn = h.nconn /\ (h.ec \in Codes => g.ec \in Codes)
      BY DEF Gentle
    <2>4. CASE g.pipe[Ctrl(j)].s2c = <<>>
      BY <2>1, <2>2, <2>3, <2>4 DEF ConnOK
    <2>5. CASE g.pipe[Ctrl(j)].s2c = h.pipe[Ctrl(j)].s2c
      <3>1. g.pipe[Ctrl(j)].st = "connected" => h.pipe[Ctrl(j)].st = "connected"
        BY DEF Gentle
      <3> QED BY <2>1, <2>3, <2>5, <3>1 DEF ConnOK
    <2> QED BY <2>4, <2>5 DEF Gentle
  <1> QED BY <1>1 DEF HostOK, Gentle

LEMMA ServiceMessages ==
    /\ \A v \in Nat : Msg("version", v) \in CtrlMessages
    /\ \A v \in Nat : Msg("std_io_err", v) \in CtrlMessages
    /\ Msg("error", 0) \in CtrlMessages
    /\ \A c \in Codes : Msg("return_code", c) \in CtrlMessages
  BY DEF Msg, CtrlMessages, Messages, Codes, ProcessCode, AbortCode

LEMMA StopServiceOK ==
    ASSUME NEW h, HostOK(h)
    PROVE  HostOK(StopService(h))
  <1> DEFINE g == StopService(h)
             P == [p \in PipeId |-> [h.pipe[p] EXCEPT !.st = IF @ = "none" THEN @ ELSE "gone"]]
             T == [k \in Conn |-> [h.th[k] EXCEPT !.pc = IF @ = "none" THEN @ ELSE "done"]]
             S == [h.svc EXCEPT !.running = FALSE, !.listening = FALSE]
  <1>1. h \in Hosts /\ h.th \in [Conn -> Threads] /\ h.pipe \in [PipeId -> Pipes] /\ h.svc \in Services
    BY DEF HostOK, Hosts
  <1>2. P \in [PipeId -> Pipes]
    BY <1>1 DEF Pipes, PipeStates
  <1>3. T \in [Conn -> Threads]
    BY <1>1 DEF Threads, ThreadCalls
  <1>4. S \in Services
    BY <1>1 DEF Services
  <1>5. g = [h EXCEPT !.svc = S, !.pipe = P, !.th = T]
    BY <1>1 DEF StopService, Hosts, Services
  <1>6. ASSUME NEW j \in Conn
        PROVE  /\ P[Ctrl(j)].s2c = h.pipe[Ctrl(j)].s2c
               /\ P[Ctrl(j)].st # "connected"
               /\ T[j].next = h.th[j].next
               /\ T[j].pc = IF h.th[j].pc = "none" THEN "none" ELSE "done"
    <2>1. h.pipe[Ctrl(j)] \in Pipes /\ h.th[j] \in Threads /\ Ctrl(j) \in PipeId
      BY <1>1, PipeNames
    <2> QED BY <2>1 DEF Pipes, Threads
  <1> HIDE DEF P, T, S
  <1>7. g \in Hosts
    BY <1>1, <1>2, <1>3, <1>4, <1>5 DEF Hosts
  <1>8. g.ec = h.ec /\ g.nconn = h.nconn /\ g.pipe = P /\ g.th = T
    BY <1>1, <1>5 DEF Hosts
  <1> HIDE DEF g
  <1>9. ASSUME NEW j \in Conn PROVE ConnOK(g, j)
    <2>1. ConnOK(h, j)
      BY DEF HostOK
    <2> QED BY <2>1, <1>6, <1>8 DEF ConnOK
  <1> QED BY <1>7, <1>9 DEF HostOK, g

LEMMA StartServiceOK ==
    ASSUME NEW h, HostOK(h), NEW v \in Nat
    PROVE  HostOK(StartService(h, v))
  <1> DEFINE g == StartService(h, v)
  <1>1. h \in Hosts
    BY DEF HostOK
  <1>2. [running |-> TRUE, ver |-> v, loop |-> TRUE, listening |-> FALSE] \in Services
    BY DEF Services
  <1>3. g \in Hosts
    BY <1>1, <1>2 DEF Hosts, StartService
  <1>4. g.ec = h.ec /\ g.nconn = h.nconn /\ g.pipe = h.pipe /\ g.th = h.th
    BY <1>1 DEF Hosts, StartService
  <1> QED BY <1>3, <1>4, GentleOK DEF Gentle

-----------------------------------------------------------------------------
LEMMA AcceptOK ==
    ASSUME HostOK(host), NEW k \in Conn, server_loop_accept(k)
    PROVE  HostOK(host')
  <1>1. MayLeave(host, k)
    BY DEF server_loop_accept, At, MayLeave
  <1>2. CASE host' = Goto(host, k, "hgets")
    BY <1>1, <1>2, GotoOK DEF ThreadCalls
  <1>3. CASE host' = [Goto(host, k, "done") EXCEPT !.pipe[Ctrl(k)].st = "disconnected"]
    <2> DEFINE g == Goto(host, k, "done")
    <2>1. HostOK(g)
      BY <1>1, GotoOK DEF ThreadCalls
    <2> HIDE DEF g
    <2>2. g \in Hosts /\ g.pipe \in [PipeId -> Pipes] /\ Ctrl(k) \in PipeId
      BY <2>1, PipeNames DEF HostOK, Hosts
    <2>3. [g.pipe EXCEPT ![Ctrl(k)].st = "disconnected"] \in [PipeId -> Pipes]
      BY <2>2 DEF Pipes, PipeStates
    <2>4. host' \in Hosts /\ host'.pipe = [g.pipe EXCEPT ![Ctrl(k)].st = "disconnected"]
          /\ host'.th = g.th /\ host'.ec = g.ec /\ host'.nconn = g.nconn
      BY <1>3, <2>2, <2>3 DEF Hosts, g
    <2>5. Gentle(g, host')
      BY <2>2, <2>4, PipeNames DEF Gentle, Pipes
    <2> QED BY <2>1, <2>5, GentleOK
  <1> QED BY <1>2, <1>3 DEF server_loop_accept

LEMMA FlushedOK ==
    ASSUME HostOK(host), NEW k \in Conn, hprintf_flushed(k)
    PROVE  HostOK(host')
  <1>1. MayLeave(host, k)
    BY DEF hprintf_flushed, At, MayLeave, Flushed, Connected
  <1>2. host.th[k].next \in Nexts
    BY DEF HostOK, ConnOK, Nexts
  <1>3. host.th[k].next \in ThreadCalls \ {"flush"} /\ host.th[k].next \notin {"flush_pio", "flush_perr"}
    BY <1>2 DEF Nexts, ThreadCalls
  <1> DEFINE next == host.th[k].next
  <1> HIDE DEF next
  <1>4. HostOK(Goto(host, k, next))
    BY <1>1, <1>3, GotoOK DEF next
  <1> QED BY <1>4 DEF hprintf_flushed, next

LEMMA TailLines ==
    ASSUME NEW h, HostOK(h), NEW k \in Conn, h.pipe[Ctrl(k)].c2s # <<>>,
           NEW g, g = [h EXCEPT !.pipe[Ctrl(k)].c2s = Tail(@)]
    PROVE  HostOK(g) /\ g.th = h.th /\ g.svc = h.svc
  <1>1. h \in Hosts /\ h.pipe \in [PipeId -> Pipes] /\ Ctrl(k) \in PipeId
    BY PipeNames DEF HostOK, Hosts
  <1>2. Tail(h.pipe[Ctrl(k)].c2s) \in Seq(ClientLines)
    BY <1>1 DEF Pipes
  <1>3. [h.pipe EXCEPT ![Ctrl(k)].c2s = Tail(@)] \in [PipeId -> Pipes]
    BY <1>1, <1>2 DEF Pipes
  <1>4. /\ g \in Hosts /\ g.pipe = [h.pipe EXCEPT ![Ctrl(k)].c2s = Tail(@)]
        /\ g.th = h.th /\ g.ec = h.ec /\ g.nconn = h.nconn /\ g.svc = h.svc
    BY <1>1, <1>3 DEF Hosts
  <1>5. Gentle(h, g)
    BY <1>1, <1>4, PipeNames DEF Gentle, Pipes
  <1> QED BY <1>4, <1>5, GentleOK

LEMMA ConnectionOK ==
    ASSUME HostOK(host), NEW k \in Conn, handle_connection(k)
    PROVE  HostOK(host')
  <1> DEFINE h == [host EXCEPT !.pipe[Ctrl(k)].c2s = Tail(@)]
  <1>1. At(k, "hgets")
    BY DEF handle_connection
  <1>2. CASE host.pipe[Ctrl(k)].c2s = <<>>
    <2>1. host' = Goto(host, k, "finish")
      BY <1>2 DEF handle_connection
    <2>2. MayLeave(host, k)
      BY <1>1 DEF At, MayLeave
    <2> QED BY <2>1, <2>2, GotoOK DEF ThreadCalls
  <1>3. CASE host.pipe[Ctrl(k)].c2s # <<>>
    <2>1. \/ host' = hprintf(h, k, Msg("version", h.svc.ver), "hgets")
          \/ host' = h
          \/ host' = Goto(h, k, "get_token")
          \/ host' = hprintf(h, k, Msg("error", 0), "hgets")
      BY <1>3 DEF handle_connection
    <2>2. HostOK(h) /\ h.th = host.th /\ h.svc = host.svc
      BY <1>3, TailLines
    <2> HIDE DEF h
    <2>3. h.th[k].pc = "hgets" /\ MayLeave(h, k)
      BY <1>1, <2>2 DEF At, MayLeave
    <2>4. h.svc.ver \in Nat
      BY <2>2 DEF HostOK, Hosts, Services
    <2>5. HostOK(hprintf(h, k, Msg("version", h.svc.ver), "hgets"))
      BY <2>2, <2>3, <2>4, HprintfOK, ServiceMessages DEF Nexts
    <2>6. HostOK(hprintf(h, k, Msg("error", 0), "hgets"))
      BY <2>2, <2>3, HprintfOK, ServiceMessages DEF Nexts
    <2>7. HostOK(Goto(h, k, "get_token"))
      BY <2>2, <2>3, GotoOK DEF ThreadCalls
    <2> QED BY <2>1, <2>2, <2>5, <2>6, <2>7
  <1> QED BY <1>2, <1>3

LEMMA ErrorOK ==
    ASSUME NEW h, HostOK(h), NEW k \in Conn, h.th[k].pc \notin {"none", "flush"}
    PROVE  /\ HostOK(hprintf(h, k, Msg("error", 0), "finish"))
           /\ HostOK(hprintf(h, k, Msg("error", 0), "disconnect"))
  BY HprintfOK, ServiceMessages DEF Nexts

LEMMA TokenOK ==
    ASSUME HostOK(host), NEW k \in Conn, get_token(k)
    PROVE  HostOK(host')
  <1>1. host.th[k].pc = "get_token" /\ MayLeave(host, k)
    BY DEF get_token, At, MayLeave
  <1>2. HostOK(Goto(host, k, "create_pipes"))
    BY <1>1, GotoOK DEF ThreadCalls
  <1>3. HostOK(hprintf(host, k, Msg("error", 0), "finish"))
    BY <1>1, ErrorOK
  <1> QED BY <1>2, <1>3 DEF get_token

LEMMA CreatePipesOK ==
    ASSUME HostOK(host), NEW k \in Conn, create_pipes(k)
    PROVE  HostOK(host')
  <1> DEFINE h == [host EXCEPT !.pipe[IO].st = "listening", !.pipe[ERR].st = "listening"]
  <1>1. host.th[k].pc = "create_pipes"
    BY DEF create_pipes, At
  <1>2. host \in Hosts /\ host.pipe \in [PipeId -> Pipes] /\ IO \in PipeId /\ ERR \in PipeId
    BY PipeNames DEF HostOK, Hosts
  <1> DEFINE P == [host.pipe EXCEPT ![IO].st = "listening", ![ERR].st = "listening"]
  <1>3. P \in [PipeId -> Pipes]
    BY <1>2 DEF Pipes, PipeStates
  <1>4. \A j \in Conn : P[Ctrl(j)] = host.pipe[Ctrl(j)]
    BY <1>2, PipeNames
  <1>5. h = [host EXCEPT !.pipe = P]
    BY <1>2 DEF Hosts
  <1> HIDE DEF P, h
  <1>6. /\ h \in Hosts /\ h.pipe = P /\ h.th = host.th /\ h.ec = host.ec
        /\ h.nconn = host.nconn
    BY <1>2, <1>3, <1>5 DEF Hosts
  <1>7. HostOK(h)
    BY <1>4, <1>6, GentleOK DEF Gentle
  <1>8. k \in Nat /\ Msg("std_io_err", k) \in CtrlMessages
    BY ServiceMessages DEF Conn
  <1>9. HostOK(hprintf(h, k, Msg("std_io_err", k), "connect_pio"))
    BY <1>1, <1>6, <1>7, <1>8, HprintfOK DEF Nexts
  <1>10. HostOK(hprintf(host, k, Msg("error", 0), "finish"))
    BY <1>1, ErrorOK
  <1> QED BY <1>9, <1>10 DEF create_pipes, h

LEMMA ConnectOK ==
    ASSUME HostOK(host), NEW k \in Conn, connect_pio(k) \/ connect_perr(k)
    PROVE  HostOK(host')
  <1>1. /\ host.th[k].pc \in {"connect_pio", "connect_perr"}
        /\ \/ host' = Goto(host, k, "connect_perr")
           \/ host' = Goto(host, k, "create_process")
           \/ host' = hprintf(host, k, Msg("error", 0), "disconnect")
    BY DEF connect_pio, connect_perr, connect, At
  <1>2. MayLeave(host, k)
    BY <1>1 DEF MayLeave
  <1>3. HostOK(Goto(host, k, "connect_perr")) /\ HostOK(Goto(host, k, "create_process"))
    BY <1>2, GotoOK DEF ThreadCalls
  <1>4. HostOK(hprintf(host, k, Msg("error", 0), "disconnect"))
    BY <1>1, ErrorOK
  <1> QED BY <1>1, <1>3, <1>4

LEMMA CreateProcessOK ==
    ASSUME HostOK(host), NEW k \in Conn, create_process(k)
    PROVE  HostOK(host')
  <1> DEFINE g == Goto(host, k, "wait")
             a == host.pipe[Ctrl(k)].c2s # <<>> \/ Connected(Ctrl(k))
  <1>1. host.th[k].pc = "create_process" /\ MayLeave(host, k)
    BY DEF create_process, At, MayLeave
  <1>2. HostOK(g)
    BY <1>1, GotoOK DEF ThreadCalls
  <1>3. a \in BOOLEAN
    OBVIOUS
  <1>4. \/ host' = [g EXCEPT !.proc = "running", !.armed = a]
        \/ host' = hprintf(host, k, Msg("error", 0), "disconnect")
    BY DEF create_process
  <1> HIDE DEF g, a
  <1>5. CASE host' = [g EXCEPT !.proc = "running", !.armed = a]
    <2>1. /\ host' \in Hosts /\ host'.pipe = g.pipe /\ host'.th = g.th /\ host'.ec = g.ec
          /\ host'.nconn = g.nconn
      BY <1>2, <1>3, <1>5 DEF HostOK, Hosts
    <2> QED BY <1>2, <2>1, GentleOK DEF Gentle
  <1>6. HostOK(hprintf(host, k, Msg("error", 0), "disconnect"))
    BY <1>1, ErrorOK
  <1> QED BY <1>4, <1>5, <1>6

LEMMA WaitOK ==
    ASSUME HostOK(host), NEW k \in Conn, wait_for_process(k)
    PROVE  HostOK(host')
  <1>1. host.th[k].pc = "wait" /\ MayLeave(host, k) /\ host \in Hosts
    BY DEF wait_for_process, At, MayLeave, HostOK
  <1>2. PICK c \in Codes, p \in {"none", "running", "exited", "killed"} :
           host' = [Goto(host, k, "flush_pio") EXCEPT !.proc = p, !.ec = c]
    <2> DEFINE g == Goto(host, k, "flush_pio")
    <2>1. g.proc = host.proc /\ host.proc \in {"none", "running", "exited", "killed"}
      BY <1>1 DEF Hosts, Goto
    <2>2. g = [g EXCEPT !.proc = host.proc]
      BY <1>1, <2>1 DEF Hosts, Goto
    <2>3. CASE host' = [g EXCEPT !.proc = IF @ = "running" THEN "killed" ELSE @, !.ec = AbortCode]
      BY <2>1, <2>3 DEF Codes
    <2>4. CASE host' = [g EXCEPT !.ec = ProcessCode]
      <3>1. host' = [g EXCEPT !.proc = host.proc, !.ec = ProcessCode]
        BY <2>2, <2>4
      <3> QED BY <2>1, <3>1 DEF Codes
    <2> QED BY <2>3, <2>4 DEF wait_for_process
  <1> DEFINE h == [host EXCEPT !.proc = p, !.ec = c]
  <1>3. /\ h \in Hosts /\ h.pipe = host.pipe /\ h.th = host.th /\ h.ec = c
        /\ h.nconn = host.nconn
    BY <1>1 DEF Hosts, Codes
  <1>4. HostOK(h)
    BY <1>3, GentleOK DEF Gentle
  <1>5. MayLeave(h, k)
    BY <1>1, <1>3 DEF MayLeave
  <1>6. host' = Goto(h, k, "flush_pio")
    BY <1>1, <1>2 DEF Hosts, Goto
  <1> HIDE DEF h
  <1>7. HostOK(Goto(h, k, "flush_pio"))
    BY <1>3, <1>4, <1>5, GotoOK DEF ThreadCalls
  <1> QED BY <1>6, <1>7

LEMMA FlushOutputOK ==
    ASSUME HostOK(host), NEW k \in Conn, flush_pio(k) \/ flush_perr(k)
    PROVE  HostOK(host')
  <1>1. /\ host.th[k].pc \in {"flush_pio", "flush_perr"}
        /\ \/ host' = Goto(host, k, "flush_perr")
           \/ host' = hprintf(host, k, Msg("return_code", host.ec), "disconnect")
    BY DEF flush_pio, flush_perr, At
  <1>2. host.ec \in Codes
    BY <1>1 DEF HostOK, ConnOK
  <1>3. MayLeave(host, k)
    BY <1>1 DEF MayLeave
  <1>4. HostOK(Goto(host, k, "flush_perr"))
    BY <1>2, <1>3, GotoOK DEF ThreadCalls
  <1>5. HostOK(hprintf(host, k, Msg("return_code", host.ec), "disconnect"))
    BY <1>1, <1>2, HprintfOK, ServiceMessages DEF Nexts
  <1> QED BY <1>1, <1>4, <1>5

\* DisconnectNamedPipe of one pipe.
LEMMA DisconnectOne ==
    ASSUME NEW h, HostOK(h), NEW p \in PipeId,
           NEW g, g = [h EXCEPT !.pipe[p] = Disconnect(@)]
    PROVE  HostOK(g) /\ g.th = h.th
  <1>1. h \in Hosts /\ h.pipe \in [PipeId -> Pipes] /\ h.pipe[p] \in Pipes
    BY DEF HostOK, Hosts
  <1>2. /\ Disconnect(h.pipe[p]) \in Pipes
        /\ Disconnect(h.pipe[p]).st = "disconnected"
        /\ Disconnect(h.pipe[p]).s2c = <<>>
    <2> DEFINE q == h.pipe[p]
    <2>1. q \in [st : PipeStates, c2s : Seq(ClientLines), s2c : Seq(Messages)]
      BY <1>1 DEF Pipes
    <2>2. "disconnected" \in PipeStates /\ <<>> \in Seq(Messages)
      BY DEF PipeStates
    <2> HIDE DEF q
    <2>3. [q EXCEPT !.st = "disconnected", !.s2c = <<>>] \in Pipes
      BY <2>1, <2>2 DEF Pipes
    <2>4. /\ [q EXCEPT !.st = "disconnected", !.s2c = <<>>].st = "disconnected"
          /\ [q EXCEPT !.st = "disconnected", !.s2c = <<>>].s2c = <<>>
      BY <2>1
    <2> QED BY <2>3, <2>4 DEF Disconnect, q
  <1>3. [h.pipe EXCEPT ![p] = Disconnect(@)] \in [PipeId -> Pipes]
    BY <1>1, <1>2
  <1>4. /\ g \in Hosts /\ g.pipe = [h.pipe EXCEPT ![p] = Disconnect(@)]
        /\ g.th = h.th /\ g.ec = h.ec /\ g.nconn = h.nconn
    BY <1>1, <1>3 DEF Hosts
  <1>5. \A q \in PipeId : \/ g.pipe[q] = h.pipe[q]
                          \/ g.pipe[q].st = "disconnected" /\ g.pipe[q].s2c = <<>>
    BY <1>1, <1>2, <1>4
  <1>6. Gentle(h, g)
    BY <1>4, <1>5, PipeNames DEF Gentle
  <1> QED BY <1>4, <1>6, GentleOK

LEMMA DisconnectOK ==
    ASSUME HostOK(host), NEW k \in Conn, disconnect(k)
    PROVE  HostOK(host')
  <1> DEFINE g1 == [host EXCEPT !.pipe[IO] = Disconnect(@)]
             g2 == [g1 EXCEPT !.pipe[ERR] = Disconnect(@)]
  <1>1. host.th[k].pc = "disconnect"
    BY DEF disconnect, At
  <1>2. IO \in PipeId /\ ERR \in PipeId
    BY PipeNames
  <1>3. ClosePipes(host) = g2
    <2>1. host \in Hosts /\ host.pipe \in [PipeId -> Pipes]
      BY DEF HostOK, Hosts
    <2>2. g1.pipe = [host.pipe EXCEPT ![IO] = Disconnect(host.pipe[IO])]
      BY <2>1 DEF Hosts
    <2>3. g1.pipe[ERR] = host.pipe[ERR]
      BY <1>2, <2>1, <2>2, PipeNames
    <2>4. ClosePipes(host) = [host EXCEPT !.pipe = [[host.pipe EXCEPT ![IO] = Disconnect(host.pipe[IO])]
                                                     EXCEPT ![ERR] = Disconnect(host.pipe[ERR])]]
      BY <2>1 DEF Hosts, ClosePipes
    <2>5. g2 = [g1 EXCEPT !.pipe = [g1.pipe EXCEPT ![ERR] = Disconnect(host.pipe[ERR])]]
      BY <2>3
    <2> QED BY <2>1, <2>2, <2>4, <2>5 DEF Hosts
  <1>4. HostOK(g1) /\ g1.th = host.th
    BY <1>2, DisconnectOne
  <1> HIDE DEF g1
  <1>5. HostOK(g2) /\ g2.th = host.th
    BY <1>2, <1>4, DisconnectOne
  <1> HIDE DEF g2
  <1>6. MayLeave(g2, k)
    BY <1>1, <1>5 DEF MayLeave
  <1>7. HostOK(Goto(g2, k, "finish"))
    BY <1>5, <1>6, GotoOK DEF ThreadCalls
  <1> QED BY <1>3, <1>7 DEF disconnect

LEMMA FinishOK ==
    ASSUME HostOK(host), NEW k \in Conn, finish(k)
    PROVE  HostOK(host')
  <1> DEFINE g == Goto(host, k, "done")
  <1>1. MayLeave(host, k) /\ Ctrl(k) \in PipeId
    BY PipeNames DEF finish, At, MayLeave
  <1>2. HostOK(g)
    BY <1>1, GotoOK DEF ThreadCalls
  <1>3. host' = [g EXCEPT !.pipe[Ctrl(k)] = Disconnect(@)]
    BY DEF finish
  <1> HIDE DEF g
  <1> QED BY <1>1, <1>2, <1>3, DisconnectOne

LEMMA ThreadOK ==
    ASSUME HostOK(host), NEW k \in Conn, Thread(k)
    PROVE  HostOK(host')
  BY AcceptOK, ConnectionOK, FlushedOK, TokenOK, CreatePipesOK, ConnectOK,
     CreateProcessOK, WaitOK, FlushOutputOK, DisconnectOK, FinishOK DEF Thread

LEMMA OthersOK ==
    ASSUME HostOK(host), server_loop_listen \/ ProcessExit \/ ServiceDies
    PROVE  HostOK(host')
  <1>1. host \in Hosts /\ host.svc \in Services
    BY DEF HostOK, Hosts
  <1>2. CASE server_loop_listen
    <2>1. PICK s \in Services : host' = [host EXCEPT !.svc = s]
      BY <1>1, <1>2 DEF server_loop_listen, Services
    <2>2. /\ host' \in Hosts /\ host'.pipe = host.pipe /\ host'.th = host.th
          /\ host'.ec = host.ec /\ host'.nconn = host.nconn
      BY <1>1, <2>1 DEF Hosts
    <2> QED BY <2>2, GentleOK DEF Gentle
  <1>3. CASE ProcessExit
    <2>1. /\ host' \in Hosts /\ host'.pipe = host.pipe /\ host'.th = host.th
          /\ host'.ec = host.ec /\ host'.nconn = host.nconn
      BY <1>1, <1>3 DEF Hosts, ProcessExit
    <2> QED BY <2>1, GentleOK DEF Gentle
  <1>4. CASE ServiceDies
    <2> DEFINE g == StopService(host)
    <2>1. HostOK(g)
      BY StopServiceOK
    <2>2. host' = [g EXCEPT !.died = TRUE]
      BY <1>4 DEF ServiceDies
    <2> HIDE DEF g
    <2>3. /\ host' \in Hosts /\ host'.pipe = g.pipe /\ host'.th = g.th
          /\ host'.ec = g.ec /\ host'.nconn = g.nconn
      BY <2>1, <2>2 DEF Hosts, HostOK
    <2> QED BY <2>1, <2>3, GentleOK DEF Gentle
  <1> QED BY <1>2, <1>3, <1>4

\* The process writes to the I/O pipes only.
LEMMA ProcessWriteOK ==
    ASSUME HostOK(host), NEW p, p \in {IO, ERR}, ProcessWrite(p)
    PROVE  HostOK(host')
  <1> DEFINE n == Len(host.made[p[1]]) + 1
             P == [host.pipe EXCEPT ![p].s2c = Append(@, Msg("output", n))]
             M == [host.made EXCEPT ![p[1]] = Append(@, n)]
  <1>1. /\ host \in Hosts /\ host.pipe \in [PipeId -> Pipes] /\ p \in PipeId
        /\ host.made \in [io : Seq(Nat), err : Seq(Nat)] /\ p[1] \in {"io", "err"}
    BY PipeNames DEF HostOK, Hosts
  <1>2. host.made[p[1]] \in Seq(Nat)
    BY <1>1
  <1>3. n \in Nat /\ Append(host.made[p[1]], n) \in Seq(Nat)
    BY <1>2
  <1>4. Msg("output", n) \in Messages
    BY <1>3 DEF Msg, Messages
  <1>5. host' = [host EXCEPT !.made = M, !.pipe = P]
    BY <1>1 DEF ProcessWrite, Hosts
  <1>6. M \in [io : Seq(Nat), err : Seq(Nat)]
    BY <1>1, <1>3
  <1> HIDE DEF n, M
  <1>7. Append(host.pipe[p].s2c, Msg("output", n)) \in Seq(Messages)
    BY <1>1, <1>4 DEF Pipes
  <1>8. P \in [PipeId -> Pipes]
    BY <1>1, <1>7 DEF Pipes
  <1>9. \A j \in Conn : P[Ctrl(j)] = host.pipe[Ctrl(j)]
    BY <1>1, PipeNames
  <1> HIDE DEF P
  <1>10. /\ host' \in Hosts /\ host'.pipe = P /\ host'.th = host.th
         /\ host'.ec = host.ec /\ host'.nconn = host.nconn
    BY <1>1, <1>5, <1>6, <1>8 DEF Hosts
  <1> QED BY <1>9, <1>10, GentleOK DEF Gentle

LEMMA HostActionOK ==
    ASSUME HostOK(host), Host
    PROVE  HostOK(host')
  BY ThreadOK, ProcessWriteOK, OthersOK DEF Host

-----------------------------------------------------------------------------
(***************************************************************************)
(* The client: what its operations do to a view.                           *)
(***************************************************************************)

\* File handles a request or context of this pipe may hold: none, that of a
\* context that was never opened, or one the server hands out for the name.
Handles(p) == {NULL, 0} \cup FnumFor(p)

Addressed(r) == r.fnum \in Handles(r.pipe)

ContextOK(c, p) ==
    /\ c.name = p
    /\ c.fd \in {0} \cup FnumFor(p)
    /\ c.io_read \in Handles(p)
    /\ c.io_write \in Handles(p)

ContextsOK(a) == a \in [Name -> Contexts] /\ \A p \in Name : ContextOK(a[p], p)

Views == [ac : [Name -> Contexts], t : Transports, u : Users, h : Hosts]

LEMMA HandleFacts ==
    /\ \A p \in Name : FnumFor(p) \subseteq Nat /\ NULL \in Handles(p) /\ 0 \in Handles(p)
    /\ \A p \in Name : {0} \cup FnumFor(p) \subseteq Handles(p) /\ Handles(p) \subseteq Int
    /\ \A p \in Name : FnumFor(p) \subseteq Handles(p) /\ FnumFor(p) \subseteq Fnum
    /\ \A p, q \in Name : \A f : f \in FnumFor(p) /\ f \in FnumFor(q) => p = q
    /\ \A p \in Name : NULL \notin FnumFor(p) /\ 0 \notin FnumFor(p)
    /\ \A p \in Name : Handles(p) \cap Fnum = FnumFor(p)
  <1>1. FnumFor("ctrl") = {1, 2} /\ FnumFor("io") = {3} /\ FnumFor("err") = {4}
    BY DEF FnumFor
  <1>2. ASSUME NEW p \in Name PROVE p = "ctrl" \/ p = "io" \/ p = "err"
    BY DEF Name
  <1>3. Fnum = {1, 2, 3, 4} /\ NULL = -1
    BY DEF Fnum, NULL
  <1>4. /\ \A p \in Name : FnumFor(p) \subseteq Nat /\ FnumFor(p) \subseteq Fnum
        /\ \A p \in Name : NULL \notin FnumFor(p) /\ 0 \notin FnumFor(p)
    BY <1>1, <1>2, <1>3
  <1>5. \A p, q \in Name : \A f : f \in FnumFor(p) /\ f \in FnumFor(q) => p = q
    BY <1>1, <1>2
  <1>6. 0 \notin Fnum /\ NULL \notin Fnum
    BY <1>3
  <1> QED BY <1>3, <1>4, <1>5, <1>6 DEF Handles

\* The request smbcli_transport_send builds, and where it goes.
Req(t, p, kind, f, d) ==
    [mid |-> t.next_mid, kind |-> kind, pipe |-> p, fnum |-> f, data |-> d,
     timed |-> t.request_timeout]

Push(t, r) ==
    IF t.dead
    THEN [t EXCEPT !.next_mid = @ + 1, !.orphans = @ \cup {r.mid}]
    ELSE [t EXCEPT !.next_mid = @ + 1, !.pending_recv = @ \cup {r}, !.wire = Append(@, r)]

Forget(t, m) == [t EXCEPT !.pending_recv = {r \in @ : r.mid # m}, !.orphans = @ \ {m}]

\* s is t after r was sent (or, on a dead transport, created and abandoned), K
\* being what remains pending of the earlier requests.
Delivered(t, s, r, K) ==
    /\ s \in Transports
    /\ K \subseteq t.pending_recv
    /\ s.next_mid = t.next_mid + 1
    /\ s.dead = t.dead
    /\ s.request_timeout = (t.request_timeout /\ r.kind # "read")
    /\ t.dead => s.pending_recv = K /\ s.wire = t.wire
    /\ ~t.dead => s.pending_recv = K \cup {r} /\ s.wire = Append(t.wire, r)

\* The request r belongs to pipe p and is the next one of transport t.
NextReq(t, r, p) ==
    /\ r \in Requests /\ Addressed(r)
    /\ r.pipe = p /\ r.mid = t.next_mid /\ r.timed = t.request_timeout

\* y is x after p's request r was sent.
Posted(x, y, p, r, K) ==
    /\ y \in Views
    /\ y.u = x.u /\ y.h = x.h
    /\ ContextsOK(y.ac)
    /\ \A q \in Name \ {p} : y.ac[q] = x.ac[q]
    /\ y.ac[p].rreq \in {NULL, x.ac[p].rreq, x.t.next_mid}
    /\ NextReq(x.t, r, p)
    /\ Delivered(x.t, y.t, r, K)

LEMMA PushIs ==
    ASSUME NEW t \in Transports, NEW r \in Requests
    PROVE  r.kind # "read" => Delivered(t, Push(t, r), r, t.pending_recv)
  <1>1. /\ t.next_mid + 1 \in Nat
        /\ t.orphans \cup {r.mid} \in SUBSET Nat
        /\ t.pending_recv \cup {r} \in SUBSET Requests
        /\ Append(t.wire, r) \in Seq(Requests)
    BY DEF Transports, Requests
  <1>2. CASE t.dead
    BY <1>1, <1>2 DEF Push, Delivered, Transports
  <1>3. CASE ~t.dead
    BY <1>1, <1>3 DEF Push, Delivered, Transports
  <1> QED BY <1>2, <1>3

PushRead(t, r) == [Push(t, r) EXCEPT !.request_timeout = FALSE]

\* ... and async_read, which also switches the timeout off.
LEMMA PushReadIs ==
    ASSUME NEW t \in Transports, NEW r \in Requests, r.kind = "read"
    PROVE  Delivered(t, PushRead(t, r), r, t.pending_recv)
  <1>1. /\ t.next_mid + 1 \in Nat
        /\ t.orphans \cup {r.mid} \in SUBSET Nat
        /\ t.pending_recv \cup {r} \in SUBSET Requests
        /\ Append(t.wire, r) \in Seq(Requests)
    BY DEF Transports, Requests
  <1>2. CASE t.dead
    BY <1>1, <1>2 DEF Push, PushRead, Delivered, Transports
  <1>3. CASE ~t.dead
    BY <1>1, <1>3 DEF Push, PushRead, Delivered, Transports
  <1> QED BY <1>2, <1>3

PutAt(x, y, p, c, t) == y = [x EXCEPT !.ac[p] = c, !.t = t]

LEMMA PutBack ==
    ASSUME NEW x \in Views, ContextsOK(x.ac), NEW p \in Name,
           NEW c \in Contexts, ContextOK(c, p), NEW t \in Transports,
           NEW y, PutAt(x, y, p, c, t)
    PROVE  /\ y \in Views /\ y.t = t /\ y.u = x.u /\ y.h = x.h
           /\ ContextsOK(y.ac)
           /\ \A q \in Name \ {p} : y.ac[q] = x.ac[q]
           /\ y.ac[p] = c
  <1>1. x.ac \in [Name -> Contexts]
    BY DEF Views
  <1> DEFINE a == [x.ac EXCEPT ![p] = c]
  <1>2. a \in [Name -> Contexts] /\ a[p] = c /\ \A q \in Name \ {p} : a[q] = x.ac[q]
    BY <1>1
  <1>3. ContextsOK(a)
    BY <1>2 DEF ContextsOK
  <1>4. y = [x EXCEPT !.ac = a, !.t = t]
    BY DEF Views, PutAt
  <1> HIDE DEF a
  <1>5. y \in Views /\ y.ac = a /\ y.t = t /\ y.u = x.u /\ y.h = x.h
    BY <1>2, <1>4 DEF Views
  <1> QED BY <1>2, <1>3, <1>5

LEMMA ContextOf ==
    ASSUME NEW x \in Views, ContextsOK(x.ac), NEW p \in Name
    PROVE  /\ x.ac[p] \in Contexts /\ ContextOK(x.ac[p], p)
           /\ x.ac[p].fd \in Handles(p) /\ x.ac[p].fd \in Int
           /\ x.ac[p].io_read \in Int /\ x.ac[p].io_write \in Int
           /\ x.t \in Transports /\ x.u \in Users
  <1>1. x.ac[p] \in Contexts /\ ContextOK(x.ac[p], p) /\ x.t \in Transports /\ x.u \in Users
    BY DEF Views, ContextsOK
  <1>2. x.ac[p].fd \in Handles(p)
    BY <1>1, HandleFacts DEF ContextOK
  <1>3. \A c \in Contexts : c.fd \in Int /\ c.io_read \in Int /\ c.io_write \in Int
    BY DEF Contexts
  <1> QED BY <1>1, <1>2, <1>3

\* An operation that puts back a context and delivers a request.
LEMMA PostIs ==
    ASSUME NEW x \in Views, ContextsOK(x.ac), NEW p \in Name,
           NEW c \in Contexts, ContextOK(c, p), NEW t, NEW r, NEW K,
           NextReq(x.t, r, p), Delivered(x.t, t, r, K),
           c.rreq \in {NULL, x.ac[p].rreq, x.t.next_mid},
           NEW y, PutAt(x, y, p, c, t)
    PROVE  Posted(x, y, p, r, K) /\ y.ac[p] = c
  <1>1. t \in Transports
    BY DEF Delivered
  <1> QED BY <1>1, PutBack DEF Posted

LEMMA OpenOp ==
    ASSUME NEW c \in Contexts, NEW t \in Transports
    PROVE  /\ async_open([c |-> c, t |-> t]).c = [c EXCEPT !.io_open = TRUE, !.rreq = t.next_mid]
           /\ async_open([c |-> c, t |-> t]).t = Push(t, Req(t, c.name, "open", NULL, <<>>))
  BY DEF async_open, smbcli_transport_send, Push, Req, Contexts

\* The handle in a parameter block, which is filled when it is allocated.
Block(f, fd) == IF f = NULL THEN fd ELSE f

LEMMA ReadOp ==
    ASSUME NEW c \in Contexts, NEW t \in Transports,
           NEW f, f = Block(c.io_read, c.fd)
    PROVE  /\ async_read([c |-> c, t |-> t]).c = [c EXCEPT !.io_read = f, !.rreq = t.next_mid]
           /\ async_read([c |-> c, t |-> t]).t =
                 PushRead(t, Req(t, c.name, "read", f, <<>>))
  BY DEF PushRead, async_read, smbcli_transport_send, Push, Req, Contexts, Block

LEMMA WriteOp ==
    ASSUME NEW c \in Contexts, NEW t \in Transports, NEW d,
           NEW f, f = Block(c.io_write, c.fd)
    PROVE  /\ async_write([c |-> c, t |-> t], d).c = [c EXCEPT !.io_write = f]
           /\ async_write([c |-> c, t |-> t], d).t = Push(t, Req(t, c.name, "write", f, d))
  BY DEF async_write, smbcli_transport_send, Push, Req, Contexts, Block

LEMMA CloseOp ==
    ASSUME NEW c \in Contexts, NEW t \in Transports,
           NEW t2, t2 = Forget(Forget(t, c.rreq), NULL)
    PROVE  /\ async_close([c |-> c, t |-> t]).c =
                 [c EXCEPT !.rreq = NULL, !.wreq = NULL, !.io_close = TRUE]
           /\ async_close([c |-> c, t |-> t]).t = Push(t2, Req(t2, c.name, "close", c.fd, <<>>))
  <1>1. c.wreq = NULL
    BY DEF Contexts
  <1>2. smbcli_request_destroy(smbcli_request_destroy(t, c.rreq), c.wreq) = t2
    BY <1>1 DEF smbcli_request_destroy, Forget
  <1> DEFINE x == [c |-> c, t |-> t]
             y == [x EXCEPT !.t = t2, !.c.rreq = NULL, !.c.wreq = NULL, !.c.io_close = TRUE]
  <1>3. async_close(x) = smbcli_transport_send(y, "close", y.c.fd, <<>>)
    BY <1>2 DEF async_close
  <1>4. /\ y.c = [c EXCEPT !.rreq = NULL, !.wreq = NULL, !.io_close = TRUE]
        /\ y.t = t2
        /\ y.c.fd = c.fd /\ y.c.name = c.name
    BY DEF Contexts
  <1>5. y = [y EXCEPT !.t = y.t] /\ DOMAIN y = {"c", "t"}
    OBVIOUS
  <1> HIDE DEF y
  <1>6. /\ smbcli_transport_send(y, "close", y.c.fd, <<>>).c = y.c
        /\ smbcli_transport_send(y, "close", y.c.fd, <<>>).t = Push(y.t, Req(y.t, y.c.name, "close", y.c.fd, <<>>))
    BY <1>5 DEF smbcli_transport_send, Push, Req
  <1> QED BY <1>3, <1>4, <1>6

\* Contexts after the assignments of the operations.
LEMMA ContextSets ==
    ASSUME NEW c \in Contexts, NEW p \in Name, ContextOK(c, p), NEW m \in Int,
           NEW f \in Handles(p), NEW g, g \in {0} \cup FnumFor(p), NEW b \in BOOLEAN
    PROVE  /\ [c EXCEPT !.io_open = TRUE, !.rreq = m] \in Contexts
           /\ ContextOK([c EXCEPT !.io_open = TRUE, !.rreq = m], p)
           /\ [c EXCEPT !.io_read = f, !.rreq = m] \in Contexts
           /\ ContextOK([c EXCEPT !.io_read = f, !.rreq = m], p)
           /\ [c EXCEPT !.io_write = f] \in Contexts
           /\ ContextOK([c EXCEPT !.io_write = f], p)
           /\ [c EXCEPT !.rreq = NULL, !.wreq = NULL, !.io_close = TRUE] \in Contexts
           /\ ContextOK([c EXCEPT !.rreq = NULL, !.wreq = NULL, !.io_close = TRUE], p)
           /\ [c EXCEPT !.rreq = NULL, !.io_open = FALSE, !.fd = g] \in Contexts
           /\ ContextOK([c EXCEPT !.rreq = NULL, !.io_open = FALSE, !.fd = g], p)
           /\ [c EXCEPT !.rreq = NULL] \in Contexts
           /\ ContextOK([c EXCEPT !.rreq = NULL], p)
           /\ [c EXCEPT !.wreq = NULL, !.io_write = f] \in Contexts
           /\ ContextOK([c EXCEPT !.wreq = NULL, !.io_write = f], p)
           /\ [c EXCEPT !.io_close = FALSE, !.io_open = FALSE, !.io_read = NULL,
                        !.io_write = NULL] \in Contexts
           /\ ContextOK([c EXCEPT !.io_close = FALSE, !.io_open = FALSE, !.io_read = NULL,
                        !.io_write = NULL], p)
  <1>1. /\ c.name = p /\ c.fd \in {0} \cup FnumFor(p) /\ c.io_read \in Handles(p)
        /\ c.io_write \in Handles(p)
    BY DEF ContextOK
  <1>2. f \in Int /\ NULL \in Int /\ g \in Nat /\ NULL \in Handles(p)
    BY HandleFacts DEF NULL
  <1>3. [c EXCEPT !.io_open = TRUE, !.rreq = m] \in Contexts
    BY <1>2 DEF Contexts
  <1>4. ContextOK([c EXCEPT !.io_open = TRUE, !.rreq = m], p)
    <2> DEFINE d == [c EXCEPT !.io_open = TRUE, !.rreq = m]
    <2>1. /\ d.name = c.name /\ (d.fd = c.fd \/ d.fd = g)
          /\ (d.io_read = c.io_read \/ d.io_read = f \/ d.io_read = NULL)
          /\ (d.io_write = c.io_write \/ d.io_write = f \/ d.io_write = NULL)
      BY DEF Contexts
    <2> HIDE DEF d
    <2>2. ContextOK(d, p)
      BY <1>1, <1>2, <2>1 DEF ContextOK
    <2> QED BY <2>2 DEF d
  <1>5. [c EXCEPT !.io_read = f, !.rreq = m] \in Contexts
    BY <1>2 DEF Contexts
  <1>6. ContextOK([c EXCEPT !.io_read = f, !.rreq = m], p)
    <2> DEFINE d == [c EXCEPT !.io_read = f, !.rreq = m]
    <2>1. /\ d.name = c.name /\ (d.fd = c.fd \/ d.fd = g)
          /\ (d.io_read = c.io_read \/ d.io_read = f \/ d.io_read = NULL)
          /\ (d.io_write = c.io_write \/ d.io_write = f \/ d.io_write = NULL)
      BY DEF Contexts
    <2> HIDE DEF d
    <2>2. ContextOK(d, p)
      BY <1>1, <1>2, <2>1 DEF ContextOK
    <2> QED BY <2>2 DEF d
  <1>7. [c EXCEPT !.io_write = f] \in Contexts
    BY <1>2 DEF Contexts
  <1>8. ContextOK([c EXCEPT !.io_write = f], p)
    <2> DEFINE d == [c EXCEPT !.io_write = f]
    <2>1. /\ d.name = c.name /\ (d.fd = c.fd \/ d.fd = g)
          /\ (d.io_read = c.io_read \/ d.io_read = f \/ d.io_read = NULL)
          /\ (d.io_write = c.io_write \/ d.io_write = f \/ d.io_write = NULL)
      BY DEF Contexts
    <2> HIDE DEF d
    <2>2. ContextOK(d, p)
      BY <1>1, <1>2, <2>1 DEF ContextOK
    <2> QED BY <2>2 DEF d
  <1>9. [c EXCEPT !.rreq = NULL, !.wreq = NULL, !.io_close = TRUE] \in Contexts
    BY <1>2 DEF Contexts
  <1>10. ContextOK([c EXCEPT !.rreq = NULL, !.wreq = NULL, !.io_close = TRUE], p)
    <2> DEFINE d == [c EXCEPT !.rreq = NULL, !.wreq = NULL, !.io_close = TRUE]
    <2>1. /\ d.name = c.name /\ (d.fd = c.fd \/ d.fd = g)
          /\ (d.io_read = c.io_read \/ d.io_read = f \/ d.io_read = NULL)
          /\ (d.io_write = c.io_write \/ d.io_write = f \/ d.io_write = NULL)
      BY DEF Contexts
    <2> HIDE DEF d
    <2>2. ContextOK(d, p)
      BY <1>1, <1>2, <2>1 DEF ContextOK
    <2> QED BY <2>2 DEF d
  <1>11. [c EXCEPT !.rreq = NULL, !.io_open = FALSE, !.fd = g] \in Contexts
    BY <1>2 DEF Contexts
  <1>12. ContextOK([c EXCEPT !.rreq = NULL, !.io_open = FALSE, !.fd = g], p)
    <2> DEFINE d == [c EXCEPT !.rreq = NULL, !.io_open = FALSE, !.fd = g]
    <2>1. /\ d.name = c.name /\ (d.fd = c.fd \/ d.fd = g)
          /\ (d.io_read = c.io_read \/ d.io_read = f \/ d.io_read = NULL)
          /\ (d.io_write = c.io_write \/ d.io_write = f \/ d.io_write = NULL)
      BY DEF Contexts
    <2> HIDE DEF d
    <2>2. ContextOK(d, p)
      BY <1>1, <1>2, <2>1 DEF ContextOK
    <2> QED BY <2>2 DEF d
  <1>13. [c EXCEPT !.rreq = NULL] \in Contexts
    BY <1>2 DEF Contexts
  <1>14. ContextOK([c EXCEPT !.rreq = NULL], p)
    <2> DEFINE d == [c EXCEPT !.rreq = NULL]
    <2>1. /\ d.name = c.name /\ (d.fd = c.fd \/ d.fd = g)
          /\ (d.io_read = c.io_read \/ d.io_read = f \/ d.io_read = NULL)
          /\ (d.io_write = c.io_write \/ d.io_write = f \/ d.io_write = NULL)
      BY DEF Contexts
    <2> HIDE DEF d
    <2>2. ContextOK(d, p)
      BY <1>1, <1>2, <2>1 DEF ContextOK
    <2> QED BY <2>2 DEF d
  <1>15. [c EXCEPT !.wreq = NULL, !.io_write = f] \in Contexts
    BY <1>2 DEF Contexts
  <1>16. ContextOK([c EXCEPT !.wreq = NULL, !.io_write = f], p)
    <2> DEFINE d == [c EXCEPT !.wreq = NULL, !.io_write = f]
    <2>1. /\ d.name = c.name /\ (d.fd = c.fd \/ d.fd = g)
          /\ (d.io_read = c.io_read \/ d.io_read = f \/ d.io_read = NULL)
          /\ (d.io_write = c.io_write \/ d.io_write = f \/ d.io_write = NULL)
      BY DEF Contexts
    <2> HIDE DEF d
    <2>2. ContextOK(d, p)
      BY <1>1, <1>2, <2>1 DEF ContextOK
    <2> QED BY <2>2 DEF d
  <1>17. [c EXCEPT !.io_close = FALSE, !.io_open = FALSE, !.io_read = NULL, !.io_write = NULL] \in Contexts
    BY <1>2 DEF Contexts
  <1>18. ContextOK([c EXCEPT !.io_close = FALSE, !.io_open = FALSE, !.io_read = NULL, !.io_write = NULL], p)
    <2> DEFINE d == [c EXCEPT !.io_close = FALSE, !.io_open = FALSE, !.io_read = NULL, !.io_write = NULL]
    <2>1. /\ d.name = c.name /\ (d.fd = c.fd \/ d.fd = g)
          /\ (d.io_read = c.io_read \/ d.io_read = f \/ d.io_read = NULL)
          /\ (d.io_write = c.io_write \/ d.io_write = f \/ d.io_write = NULL)
      BY DEF Contexts
    <2> HIDE DEF d
    <2>2. ContextOK(d, p)
      BY <1>1, <1>2, <2>1 DEF ContextOK
    <2> QED BY <2>2 DEF d
  <1> QED BY <1>3, <1>4, <1>5, <1>6, <1>7, <1>8, <1>9, <1>10, <1>11, <1>12, <1>13, <1>14, <1>15, <1>16, <1>17, <1>18

\* async_open, async_read, async_write and async_close each send one request.
LEMMA OpenPosts ==
    ASSUME NEW x \in Views, ContextsOK(x.ac), NEW p \in Name
    PROVE  \E r : /\ r.kind = "open"
                  /\ Posted(x, With(x, p, async_open), p, r, x.t.pending_recv)
  <1> DEFINE c == x.ac[p]
             c2 == [c EXCEPT !.io_open = TRUE, !.rreq = x.t.next_mid]
             r == Req(x.t, p, "open", NULL, <<>>)
             y == With(x, p, async_open)
  <1>1. c \in Contexts /\ ContextOK(c, p) /\ x.t \in Transports /\ c.name = p
    BY ContextOf DEF ContextOK
  <1>2. r \in Requests /\ r.mid = x.t.next_mid /\ r.kind = "open" /\ r.pipe = p
        /\ r.fnum = NULL /\ r.timed = x.t.request_timeout
    BY <1>1 DEF Req, Requests, Kinds, Transports, NULL
  <1>3. c2 \in Contexts /\ ContextOK(c2, p) /\ c2.rreq = x.t.next_mid
    <2> HIDE DEF c
    <2>1. x.t.next_mid \in Int /\ NULL \in Handles(p) /\ 0 \in {0} \cup FnumFor(p)
      BY <1>1, HandleFacts DEF Transports
    <2>2. c2 \in Contexts /\ ContextOK(c2, p)
      BY <1>1, <2>1, ContextSets
    <2> QED BY <1>1, <2>2 DEF Contexts
  <1>4. PutAt(x, y, p, c2, Push(x.t, r))
    <2>1. y = [x EXCEPT !.ac[p] = async_open([c |-> c, t |-> x.t]).c,
                        !.t = async_open([c |-> c, t |-> x.t]).t]
      BY DEF With
    <2> HIDE DEF c
    <2>2. async_open([c |-> c, t |-> x.t]).c = c2 /\ async_open([c |-> c, t |-> x.t]).t = Push(x.t, r)
      BY <1>1, OpenOp
    <2> QED BY <2>1, <2>2 DEF PutAt
  <1> HIDE DEF c, c2, r, y
  <1>5. Delivered(x.t, Push(x.t, r), r, x.t.pending_recv)
    BY <1>1, <1>2, PushIs
  <1>6. NextReq(x.t, r, p)
    BY <1>2, HandleFacts DEF NextReq, Addressed
  <1>7. Posted(x, y, p, r, x.t.pending_recv)
    BY <1>3, <1>4, <1>5, <1>6, PostIs
  <1> QED BY <1>2, <1>7 DEF y

LEMMA ReadPosts ==
    ASSUME NEW x \in Views, ContextsOK(x.ac), NEW p \in Name
    PROVE  \E r : /\ r.kind = "read"
                  /\ r.fnum = Block(x.ac[p].io_read, x.ac[p].fd)
                  /\ Posted(x, With(x, p, async_read), p, r, x.t.pending_recv)
                  /\ With(x, p, async_read).ac[p].io_read = r.fnum
                  /\ With(x, p, async_read).ac[p].fd = x.ac[p].fd
  <1> DEFINE c == x.ac[p]
             f == Block(c.io_read, c.fd)
             c2 == [c EXCEPT !.io_read = f, !.rreq = x.t.next_mid]
             r == Req(x.t, p, "read", f, <<>>)
             y == With(x, p, async_read)
             s == PushRead(x.t, r)
  <1>1. c \in Contexts /\ ContextOK(c, p) /\ x.t \in Transports /\ c.name = p
    BY ContextOf DEF ContextOK
  <1>2. f \in Handles(p) /\ f \in Int
    BY <1>1, ContextOf DEF ContextOK, Block
  <1>3. c2 \in Contexts /\ ContextOK(c2, p) /\ c2.io_read = f /\ c2.fd = c.fd
        /\ c2.rreq = x.t.next_mid
    <2> HIDE DEF f, c
    <2>1. x.t.next_mid \in Int /\ 0 \in {0} \cup FnumFor(p)
      BY <1>1 DEF Transports
    <2>2. c2 \in Contexts /\ ContextOK(c2, p)
      BY <1>1, <1>2, <2>1, ContextSets
    <2> QED BY <1>1, <2>2 DEF Contexts
  <1>4. PutAt(x, y, p, c2, s)
    <2>1. y = [x EXCEPT !.ac[p] = async_read([c |-> c, t |-> x.t]).c,
                        !.t = async_read([c |-> c, t |-> x.t]).t]
      BY DEF With
    <2> HIDE DEF c, f
    <2>3. f = Block(c.io_read, c.fd)
      BY DEF f
    <2>2. async_read([c |-> c, t |-> x.t]).c = c2 /\ async_read([c |-> c, t |-> x.t]).t = s
      BY <1>1, <2>3, ReadOp
    <2> QED BY <2>1, <2>2 DEF PutAt
  <1> HIDE DEF f
  <1>5. r \in Requests /\ r.mid = x.t.next_mid /\ r.kind = "read" /\ r.pipe = p
        /\ r.fnum = f /\ r.timed = x.t.request_timeout
    BY <1>1, <1>2 DEF Req, Requests, Kinds, Transports
  <1> HIDE DEF c, c2, r, y
  <1>6. Delivered(x.t, s, r, x.t.pending_recv)
    BY <1>1, <1>5, PushReadIs
  <1> HIDE DEF s
  <1>7. NextReq(x.t, r, p)
    BY <1>2, <1>5 DEF NextReq, Addressed
  <1>9. c2.rreq \in {NULL, x.ac[p].rreq, x.t.next_mid}
    BY <1>3 DEF c
  <1>8. Posted(x, y, p, r, x.t.pending_recv) /\ y.ac[p] = c2
    BY <1>3, <1>4, <1>6, <1>7, <1>9, PostIs
  <1> QED BY <1>3, <1>5, <1>8 DEF y, f, c

LEMMA WritePosts ==
    ASSUME NEW x \in Views, ContextsOK(x.ac), NEW p \in Name, NEW d \in Seq(ClientLines)
    PROVE  \E r : /\ r.kind = "write" /\ r.data = d
                  /\ r.fnum = Block(x.ac[p].io_write, x.ac[p].fd)
                  /\ Posted(x, Write(x, p, d), p, r, x.t.pending_recv)
                  /\ Write(x, p, d).ac[p].io_read = x.ac[p].io_read
                  /\ Write(x, p, d).ac[p].io_write = r.fnum
                  /\ Write(x, p, d).ac[p].fd = x.ac[p].fd
  <1> DEFINE c == x.ac[p]
             f == Block(c.io_write, c.fd)
             c2 == [c EXCEPT !.io_write = f]
             r == Req(x.t, p, "write", f, d)
             y == Write(x, p, d)
             s == Push(x.t, r)
  <1>1. c \in Contexts /\ ContextOK(c, p) /\ x.t \in Transports /\ c.name = p
    BY ContextOf DEF ContextOK
  <1>2. f \in Handles(p) /\ f \in Int
    BY <1>1, ContextOf DEF ContextOK, Block
  <1>3. c2 \in Contexts /\ ContextOK(c2, p) /\ c2.io_write = f /\ c2.fd = c.fd
        /\ c2.io_read = c.io_read /\ c2.rreq = c.rreq
    <2> HIDE DEF f, c
    <2>1. x.t.next_mid \in Int /\ 0 \in {0} \cup FnumFor(p)
      BY <1>1 DEF Transports
    <2>2. c2 \in Contexts /\ ContextOK(c2, p)
      BY <1>1, <1>2, <2>1, ContextSets
    <2> QED BY <1>1, <2>2 DEF Contexts
  <1>4. PutAt(x, y, p, c2, s)
    <2>1. y = [x EXCEPT !.ac[p] = async_write([c |-> c, t |-> x.t], d).c,
                        !.t = async_write([c |-> c, t |-> x.t], d).t]
      BY DEF With, Write
    <2> HIDE DEF c, f
    <2>3. f = Block(c.io_write, c.fd)
      BY DEF f
    <2>2. async_write([c |-> c, t |-> x.t], d).c = c2 /\ async_write([c |-> c, t |-> x.t], d).t = s
      BY <1>1, <2>3, WriteOp
    <2> QED BY <2>1, <2>2 DEF PutAt
  <1> HIDE DEF f
  <1>5. r \in Requests /\ r.mid = x.t.next_mid /\ r.kind = "write" /\ r.pipe = p
        /\ r.fnum = f /\ r.timed = x.t.request_timeout /\ r.data = d
    BY <1>1, <1>2 DEF Req, Requests, Kinds, Transports
  <1> HIDE DEF c, c2, r, y
  <1>6. Delivered(x.t, s, r, x.t.pending_recv)
    BY <1>1, <1>5, PushIs
  <1> HIDE DEF s
  <1>7. NextReq(x.t, r, p)
    BY <1>2, <1>5 DEF NextReq, Addressed
  <1>9. c2.rreq \in {NULL, x.ac[p].rreq, x.t.next_mid}
    BY <1>3 DEF c
  <1>8. Posted(x, y, p, r, x.t.pending_recv) /\ y.ac[p] = c2
    BY <1>3, <1>4, <1>6, <1>7, <1>9, PostIs
  <1> QED BY <1>3, <1>5, <1>8 DEF y, f, c

LEMMA ClosePosts ==
    ASSUME NEW x \in Views, ContextsOK(x.ac), NEW p \in Name
    PROVE  \E r : /\ r.kind = "close" /\ r.fnum = x.ac[p].fd
                  /\ Posted(x, With(x, p, async_close), p, r,
                            {q \in x.t.pending_recv : q.mid # x.ac[p].rreq})
                  /\ With(x, p, async_close).ac[p].io_read = x.ac[p].io_read
                  /\ With(x, p, async_close).ac[p].fd = x.ac[p].fd
  <1> DEFINE c == x.ac[p]
             t == x.t
             t2 == Forget(Forget(t, c.rreq), NULL)
             K == {q \in t.pending_recv : q.mid # c.rreq}
             c2 == [c EXCEPT !.rreq = NULL, !.wreq = NULL, !.io_close = TRUE]
             r == Req(t2, p, "close", c.fd, <<>>)
             y == With(x, p, async_close)
             s == Push(t2, r)
  <1>1. c \in Contexts /\ ContextOK(c, p) /\ t \in Transports /\ c.name = p
        /\ c.fd \in Handles(p) /\ c.fd \in Int
    BY ContextOf DEF ContextOK
  <1>2. c2 \in Contexts /\ ContextOK(c2, p) /\ c2.io_read = c.io_read /\ c2.fd = c.fd
        /\ c2.rreq = NULL
    <2> HIDE DEF c
    <2>1. 0 \in Int /\ 0 \in Handles(p) /\ 0 \in {0} \cup FnumFor(p)
      BY HandleFacts
    <2>2. c2 \in Contexts /\ ContextOK(c2, p)
      BY <1>1, <2>1, ContextSets
    <2> QED BY <1>1, <2>2 DEF Contexts
  <1>3. PutAt(x, y, p, c2, s)
    <2>1. y = [x EXCEPT !.ac[p] = async_close([c |-> c, t |-> x.t]).c,
                        !.t = async_close([c |-> c, t |-> x.t]).t]
      BY DEF With
    <2> HIDE DEF c, t2
    <2>2. t2 = Forget(Forget(t, c.rreq), NULL)
      BY DEF t2
    <2>3. async_close([c |-> c, t |-> x.t]).c = c2 /\ async_close([c |-> c, t |-> x.t]).t = s
      BY <1>1, <2>2, CloseOp
    <2> QED BY <2>1, <2>3 DEF PutAt
  <1>4. /\ t2 \in Transports /\ t2.next_mid = t.next_mid /\ t2.dead = t.dead
        /\ t2.request_timeout = t.request_timeout /\ t2.wire = t.wire
        /\ t2.pending_recv = K
    <2> HIDE DEF c
    <2>1. \A q \in t.pending_recv : q.mid # NULL
      BY <1>1 DEF Transports, Requests, NULL
    <2>2. {q \in K : q.mid # NULL} = K /\ K \in SUBSET Requests
      BY <1>1, <2>1 DEF Transports
    <2>3. (t.orphans \ {c.rreq}) \ {NULL} \in SUBSET Nat
      BY <1>1 DEF Transports
    <2>4. t2 = [t EXCEPT !.pending_recv = {q \in K : q.mid # NULL},
                         !.orphans = (t.orphans \ {c.rreq}) \ {NULL}]
      BY <1>1 DEF Forget, Transports
    <2> HIDE DEF K, t2
    <2> QED BY <1>1, <2>2, <2>3, <2>4 DEF Transports
  <1> HIDE DEF t2
  <1>5. r \in Requests /\ r.mid = t.next_mid /\ r.kind = "close" /\ r.pipe = p
        /\ r.fnum = c.fd /\ r.timed = t.request_timeout
    BY <1>1, <1>4 DEF Req, Requests, Kinds, Transports
  <1> HIDE DEF c, c2, r, y, K
  <1>6. Delivered(t2, s, r, t2.pending_recv)
    BY <1>4, <1>5, PushIs
  <1> HIDE DEF s
  <1>7. K \subseteq t.pending_recv
    BY DEF K
  <1>8. Delivered(x.t, s, r, K)
    BY <1>4, <1>6, <1>7 DEF Delivered
  <1>9. NextReq(x.t, r, p)
    BY <1>1, <1>5 DEF NextReq, Addressed
  <1>10. Posted(x, y, p, r, K) /\ y.ac[p] = c2
    BY <1>2, <1>3, <1>8, <1>9, PostIs DEF c
  <1> QED BY <1>2, <1>5, <1>10 DEF y, c, K

-----------------------------------------------------------------------------
\* The reply handlers, up to the callback, only touch the context.
Touched(x, y, p) ==
    /\ y \in Views
    /\ y.t = x.t /\ y.u = x.u /\ y.h = x.h
    /\ ContextsOK(y.ac)
    /\ \A q \in Name \ {p} : y.ac[q] = x.ac[q]
    /\ y.ac[p].rreq \in {NULL, x.ac[p].rreq}

LEMMA TouchIs ==
    ASSUME NEW x \in Views, ContextsOK(x.ac), NEW p \in Name,
           NEW c \in Contexts, ContextOK(c, p), NEW y, PutAt(x, y, p, c, x.t),
           c.rreq \in {NULL, x.ac[p].rreq}
    PROVE  Touched(x, y, p) /\ y.ac[p] = c
  <1>1. x.t \in Transports
    BY DEF Views
  <1> QED BY <1>1, PutBack DEF Touched

SameBlocks(x, y, p) ==
    y.ac[p].io_read = x.ac[p].io_read /\ y.ac[p].io_write = x.ac[p].io_write

OpenRecv(x, p, ok, f) == With(x, p, LAMBDA v : async_open_recv(v, ok, f))

LEMMA OpenRecvTouches ==
    ASSUME NEW x \in Views, ContextsOK(x.ac), NEW p \in Name,
           NEW ok \in BOOLEAN, NEW f, ok => f \in FnumFor(p)
    PROVE  LET y == OpenRecv(x, p, ok, f)
           IN  /\ Touched(x, y, p)
               /\ y.ac[p].rreq = NULL
               /\ ok => y.ac[p].fd = f
               /\ SameBlocks(x, y, p)
  <1> DEFINE c == x.ac[p]
             g == IF ok THEN f ELSE c.fd
             c2 == [c EXCEPT !.rreq = NULL, !.io_open = FALSE, !.fd = g]
             y == OpenRecv(x, p, ok, f)
  <1>1. c \in Contexts /\ ContextOK(c, p)
    BY ContextOf
  <1>2. g \in {0} \cup FnumFor(p) /\ (ok => g = f)
    BY <1>1 DEF ContextOK
  <1>3. PutAt(x, y, p, c2, x.t)
    <2>1. y = [x EXCEPT !.ac[p] = async_open_recv([c |-> c, t |-> x.t], ok, f).c,
                        !.t = async_open_recv([c |-> c, t |-> x.t], ok, f).t]
      BY DEF With, OpenRecv
    <2> HIDE DEF c
    <2>2. /\ async_open_recv([c |-> c, t |-> x.t], ok, f).c = c2
          /\ async_open_recv([c |-> c, t |-> x.t], ok, f).t = x.t
      BY <1>1 DEF async_open_recv, Contexts
    <2> QED BY <2>1, <2>2 DEF PutAt
  <1> HIDE DEF c, g, y
  <1>4. c2 \in Contexts /\ ContextOK(c2, p)
    <2>1. 0 \in Int /\ 0 \in Handles(p)
      BY HandleFacts
    <2> QED BY <1>1, <1>2, <2>1, ContextSets
  <1>5. c2.rreq = NULL /\ c2.fd = g /\ c2.io_read = c.io_read /\ c2.io_write = c.io_write
    BY <1>1 DEF Contexts
  <1> HIDE DEF c2
  <1>6. Touched(x, y, p) /\ y.ac[p] = c2
    BY <1>3, <1>4, <1>5, TouchIs DEF c
  <1> QED BY <1>2, <1>5, <1>6 DEF y, c, SameBlocks

LEMMA ReadRecvTouches ==
    ASSUME NEW x \in Views, ContextsOK(x.ac), NEW p \in Name
    PROVE  LET y == With(x, p, async_read_recv)
           IN  /\ Touched(x, y, p)
               /\ y.ac[p].rreq = NULL
               /\ y.ac[p].fd = x.ac[p].fd
               /\ y.ac[p].io_read = x.ac[p].io_read
               /\ y.ac[p].io_write = x.ac[p].io_write
  <1> DEFINE c == x.ac[p]
             c2 == [c EXCEPT !.rreq = NULL]
             y == With(x, p, async_read_recv)
  <1>1. c \in Contexts /\ ContextOK(c, p)
    BY ContextOf
  <1>3. PutAt(x, y, p, c2, x.t)
    <2>1. y = [x EXCEPT !.ac[p] = async_read_recv([c |-> c, t |-> x.t]).c,
                        !.t = async_read_recv([c |-> c, t |-> x.t]).t]
      BY DEF With
    <2> HIDE DEF c
    <2>2. /\ async_read_recv([c |-> c, t |-> x.t]).c = c2
          /\ async_read_recv([c |-> c, t |-> x.t]).t = x.t
      BY <1>1 DEF async_read_recv, Contexts
    <2> QED BY <2>1, <2>2 DEF PutAt
  <1> HIDE DEF c, y
  <1>4. c2 \in Contexts /\ ContextOK(c2, p)
    <2>1. 0 \in Int /\ 0 \in Handles(p) /\ 0 \in {0} \cup FnumFor(p)
      BY HandleFacts
    <2> QED BY <1>1, <2>1, ContextSets
  <1>5. c2.rreq = NULL /\ c2.fd = c.fd /\ c2.io_read = c.io_read /\ c2.io_write = c.io_write
    BY <1>1 DEF Contexts
  <1> HIDE DEF c2
  <1>6. Touched(x, y, p) /\ y.ac[p] = c2
    BY <1>3, <1>4, <1>5, TouchIs DEF c
  <1> QED BY <1>5, <1>6 DEF y, c

WriteRecv(x, p, ok) == With(x, p, LAMBDA v : async_write_recv(v, ok))

\* The write queue is empty: nothing follows.
LEMMA WriteRecvTouches ==
    ASSUME NEW x \in Views, ContextsOK(x.ac), NEW p \in Name, NEW ok \in BOOLEAN
    PROVE  LET y == WriteRecv(x, p, ok)
           IN  /\ Touched(x, y, p)
               /\ y.ac[p].rreq = x.ac[p].rreq
               /\ y.ac[p].fd = x.ac[p].fd
               /\ y.ac[p].io_read = x.ac[p].io_read
               /\ ok => y.ac[p].io_write = x.ac[p].io_write
  <1> DEFINE c == x.ac[p]
             g == IF ok THEN c.io_write ELSE NULL
             c2 == [c EXCEPT !.wreq = NULL, !.io_write = g]
             y == WriteRecv(x, p, ok)
  <1>1. c \in Contexts /\ ContextOK(c, p) /\ c.wq = <<>>
    BY ContextOf DEF Contexts
  <1>2. g \in Handles(p) /\ (ok => g = c.io_write)
    BY <1>1, HandleFacts DEF ContextOK
  <1>3. PutAt(x, y, p, c2, x.t)
    <2>1. y = [x EXCEPT !.ac[p] = async_write_recv([c |-> c, t |-> x.t], ok).c,
                        !.t = async_write_recv([c |-> c, t |-> x.t], ok).t]
      BY DEF With, WriteRecv
    <2> HIDE DEF c
    <2>2. /\ async_write_recv([c |-> c, t |-> x.t], ok).c = c2
          /\ async_write_recv([c |-> c, t |-> x.t], ok).t = x.t
      BY <1>1 DEF async_write_recv, Contexts
    <2> QED BY <2>1, <2>2 DEF PutAt
  <1> HIDE DEF c, g, y
  <1>4. c2 \in Contexts /\ ContextOK(c2, p)
    <2>1. 0 \in Int /\ 0 \in {0} \cup FnumFor(p)
      BY HandleFacts
    <2> QED BY <1>1, <1>2, <2>1, ContextSets
  <1>5. c2.rreq = c.rreq /\ c2.fd = c.fd /\ c2.io_read = c.io_read /\ c2.io_write = g
    BY <1>1 DEF Contexts
  <1> HIDE DEF c2
  <1>6. Touched(x, y, p) /\ y.ac[p] = c2
    BY <1>3, <1>4, <1>5, TouchIs DEF c
  <1> QED BY <1>2, <1>5, <1>6 DEF y, c

LEMMA CloseRecvTouches ==
    ASSUME NEW x \in Views, ContextsOK(x.ac), NEW p \in Name
    PROVE  LET y == With(x, p, async_close_recv)
           IN  /\ Touched(x, y, p)
               /\ y.ac[p].rreq = x.ac[p].rreq
               /\ y.ac[p].fd = x.ac[p].fd
               /\ y.ac[p].io_read = NULL
               /\ y.ac[p].io_write = NULL
  <1> DEFINE c == x.ac[p]
             c2 == [c EXCEPT !.io_close = FALSE, !.io_open = FALSE, !.io_read = NULL,
                             !.io_write = NULL]
             y == With(x, p, async_close_recv)
  <1>1. c \in Contexts /\ ContextOK(c, p)
    BY ContextOf
  <1>3. PutAt(x, y, p, c2, x.t)
    <2>1. y = [x EXCEPT !.ac[p] = async_close_recv([c |-> c, t |-> x.t]).c,
                        !.t = async_close_recv([c |-> c, t |-> x.t]).t]
      BY DEF With
    <2> HIDE DEF c
    <2>2. /\ async_close_recv([c |-> c, t |-> x.t]).c = c2
          /\ async_close_recv([c |-> c, t |-> x.t]).t = x.t
      BY <1>1 DEF async_close_recv, Contexts
    <2> QED BY <2>1, <2>2 DEF PutAt
  <1> HIDE DEF c, y
  <1>4. c2 \in Contexts /\ ContextOK(c2, p)
    <2>1. 0 \in Int /\ 0 \in Handles(p) /\ 0 \in {0} \cup FnumFor(p)
      BY HandleFacts
    <2> QED BY <1>1, <2>1, ContextSets
  <1>5. c2.rreq = c.rreq /\ c2.fd = c.fd /\ c2.io_read = NULL /\ c2.io_write = NULL
    BY <1>1 DEF Contexts
  <1> HIDE DEF c2
  <1>6. Touched(x, y, p) /\ y.ac[p] = c2
    BY <1>3, <1>4, <1>5, TouchIs DEF c
  <1> QED BY <1>5, <1>6 DEF y, c

-----------------------------------------------------------------------------
(***************************************************************************)
(* Requests and replies.  S is the set of requests parked at the server, R *)
(* the replies under way; a handler changes neither.                       *)
(***************************************************************************)

\* What the reply p to request r can say.
Fits(r, p) ==
    /\ p.status = "OK" /\ r.kind = "open" => p.fnum \in FnumFor(r.pipe)
    /\ p.status = "OK" /\ r.kind = "read" /\ r.pipe = "ctrl" => p.msg \in CtrlMessages
    /\ p.status = "OBJECT_NAME_NOT_FOUND" => r.kind = "open"

\* A pending request is the only one with its mid, wherever it is.
Known(t, S, R, r) ==
    /\ r.mid < t.next_mid
    /\ \A q \in t.pending_recv : q.mid = r.mid => q = r
    /\ \A q \in S : q.mid = r.mid => q = r
    /\ \A i \in DOMAIN t.wire : t.wire[i].mid = r.mid => t.wire[i] = r
    /\ \A i \in DOMAIN R : R[i].mid = r.mid => Fits(r, R[i])

\* Mids that have been handed out, each in one place.
Placed(t, S, R) ==
    /\ \A i \in DOMAIN t.wire : t.wire[i].mid < t.next_mid /\ Addressed(t.wire[i])
    /\ \A q \in S : q.mid < t.next_mid
    /\ \A i \in DOMAIN R : R[i].mid < t.next_mid
    /\ \A i, j \in DOMAIN t.wire : t.wire[i].mid = t.wire[j].mid => i = j
    /\ \A i \in DOMAIN t.wire : \A j \in DOMAIN R : t.wire[i].mid # R[j].mid
    /\ \A i \in DOMAIN t.wire : \A q \in S : t.wire[i].mid # q.mid
    /\ \A q \in S : \A j \in DOMAIN R : q.mid # R[j].mid
    /\ \A q, v \in S : q.mid = v.mid => q = v

Sequenced(t, S, R) ==
    /\ \A r \in t.pending_recv : Known(t, S, R, r)
    /\ Placed(t, S, R)

\* rreq names a request of its own pipe.
Own(a, t) ==
    \A p \in Name : /\ a[p].rreq < t.next_mid
                    /\ \A q \in t.pending_recv : q.mid = a[p].rreq => q.pipe = p

Good(x, S, R) ==
    /\ x \in Views
    /\ ContextsOK(x.ac)
    /\ HostOK(x.h)
    /\ Own(x.ac, x.t)
    /\ Sequenced(x.t, S, R)

\* The types of S and R.
Server(S, R) == S \subseteq Requests /\ R \in Seq(Replies)

LEMMA TouchedGood ==
    ASSUME NEW S, NEW R, NEW x, Good(x, S, R), NEW p \in Name, NEW y, Touched(x, y, p)
    PROVE  Good(y, S, R)
  <1>1. Own(y.ac, y.t)
    <2> SUFFICES ASSUME NEW q \in Name
                 PROVE  /\ y.ac[q].rreq < x.t.next_mid
                        /\ \A r \in x.t.pending_recv : r.mid = y.ac[q].rreq => r.pipe = q
      BY DEF Own, Touched
    <2>1. x.t \in Transports
      BY DEF Good, Views
    <2>2. /\ NULL < x.t.next_mid
          /\ \A r \in x.t.pending_recv : r.mid # NULL
      BY <2>1 DEF Transports, Requests, NULL
    <2>3. /\ x.ac[q].rreq < x.t.next_mid
          /\ \A r \in x.t.pending_recv : r.mid = x.ac[q].rreq => r.pipe = q
      BY DEF Good, Own
    <2>4. y.ac[q].rreq \in {NULL, x.ac[q].rreq}
      BY DEF Touched
    <2> QED BY <2>2, <2>3, <2>4
  <1>2. y \in Views /\ ContextsOK(y.ac) /\ y.h = x.h /\ y.t = x.t
    BY DEF Touched
  <1> QED BY <1>1, <1>2 DEF Good

LEMMA MidsAreNat ==
    /\ \A q \in Requests : q.mid \in Nat
    /\ \A q \in Replies : q.mid \in Nat
  <1>1. \A q \in Requests : q.mid \in Nat
    BY DEF Requests
  <1>2. \A q \in Replies : q.mid \in Nat
    BY DEF Replies
  <1> QED BY <1>1, <1>2

LEMMA Appended ==
    ASSUME NEW T, NEW s \in Seq(T), NEW e \in T, NEW n, n = Append(s, e)
    PROVE  /\ DOMAIN s = 1 .. Len(s) /\ Len(s) \in Nat
           /\ DOMAIN n = 1 .. Len(s) + 1
           /\ \A i \in DOMAIN s : i \in DOMAIN n /\ n[i] = s[i]
           /\ n[Len(s) + 1] = e
           /\ \A i \in DOMAIN n : i \in DOMAIN s \/ i = Len(s) + 1
  OBVIOUS

\* A request that is sent gets a mid nobody has.
LEMMA DeliveredSequenced ==
    ASSUME NEW S, NEW R, Server(S, R), NEW t \in Transports, Sequenced(t, S, R),
           NEW s, NEW r, NEW p, NEW K, NextReq(t, r, p), Delivered(t, s, r, K)
    PROVE  Sequenced(s, S, R)
  <1>1. /\ t.next_mid \in Nat /\ s.next_mid = t.next_mid + 1
        /\ \A q \in t.pending_recv : q.mid \in Nat
        /\ \A q \in S : q.mid \in Nat
        /\ r.mid = t.next_mid /\ r \in Requests
    <2>1. \A q \in S : q.mid \in Nat
      BY MidsAreNat DEF Server
    <2>2. t.next_mid \in Nat /\ t.pending_recv \subseteq Requests
      BY DEF Transports
    <2>3. \A q \in t.pending_recv : q.mid \in Nat
      BY <2>2, MidsAreNat
    <2> QED BY <2>1, <2>2, <2>3 DEF Delivered, NextReq
  <1>2. \A i \in DOMAIN R : R[i].mid \in Nat
    <2>1. R \in Seq(Replies)
      BY DEF Server
    <2>2. \A i \in DOMAIN R : R[i] \in Replies
      BY <2>1
    <2> QED BY <2>2, MidsAreNat
  <1>3. t.wire \in Seq(Requests)
    BY DEF Transports
  <1>4. \A i \in DOMAIN t.wire : t.wire[i].mid \in Nat
    <2>1. \A i \in DOMAIN t.wire : t.wire[i] \in Requests
      BY <1>3
    <2> QED BY <2>1, MidsAreNat
  <1>5. CASE t.dead
    <2>1. s.wire = t.wire /\ s.pending_recv \subseteq t.pending_recv
      BY <1>5 DEF Delivered
    <2>2. Placed(s, S, R)
      BY <1>1, <1>2, <1>4, <2>1 DEF Sequenced, Placed
    <2>3. ASSUME NEW q \in s.pending_recv PROVE Known(s, S, R, q)
      <3>1. q \in t.pending_recv /\ Known(t, S, R, q)
        BY <2>1 DEF Sequenced
      <3> QED BY <1>1, <2>1, <3>1 DEF Known
    <2> QED BY <2>2, <2>3 DEF Sequenced
  <1>6. CASE ~t.dead
    <2>1. s.wire = Append(t.wire, r) /\ s.pending_recv = K \cup {r} /\ K \subseteq t.pending_recv
      BY <1>6 DEF Delivered
    <2>2. /\ DOMAIN t.wire = 1 .. Len(t.wire) /\ Len(t.wire) \in Nat
          /\ \A i \in DOMAIN t.wire : i \in DOMAIN s.wire /\ s.wire[i] = t.wire[i]
          /\ s.wire[Len(t.wire) + 1] = r
          /\ \A i \in DOMAIN s.wire : i \in DOMAIN t.wire \/ i = Len(t.wire) + 1
      BY <1>1, <1>3, <2>1, Appended
    <2>3. Placed(t, S, R) /\ Addressed(r)
      BY DEF Sequenced, NextReq
    <2>4. \A i \in DOMAIN s.wire : \/ i \in DOMAIN t.wire /\ s.wire[i] = t.wire[i] /\ s.wire[i].mid < t.next_mid
                                   \/ i = Len(t.wire) + 1 /\ s.wire[i] = r
      BY <2>2, <2>3 DEF Placed
    <2>5. Placed(s, S, R)
      <3>1. \A i \in DOMAIN s.wire : s.wire[i].mid < s.next_mid /\ Addressed(s.wire[i])
        BY <1>1, <1>4, <2>3, <2>4 DEF Placed
      <3>2. \A i, j \in DOMAIN s.wire : s.wire[i].mid = s.wire[j].mid => i = j
        BY <1>1, <1>4, <2>3, <2>4 DEF Placed
      <3>3. \A i \in DOMAIN s.wire : \A j \in DOMAIN R : s.wire[i].mid # R[j].mid
        BY <1>1, <1>2, <2>3, <2>4 DEF Placed
      <3>4. \A i \in DOMAIN s.wire : \A q \in S : s.wire[i].mid # q.mid
        BY <1>1, <2>3, <2>4 DEF Placed
      <3>5. /\ \A q \in S : q.mid < s.next_mid
            /\ \A i \in DOMAIN R : R[i].mid < s.next_mid
            /\ \A q \in S : \A j \in DOMAIN R : q.mid # R[j].mid
            /\ \A q, v \in S : q.mid = v.mid => q = v
        BY <1>1, <1>2, <2>3 DEF Placed
      <3> QED BY <3>1, <3>2, <3>3, <3>4, <3>5 DEF Placed
    <2>6. ASSUME NEW q \in K PROVE Known(s, S, R, q)
      <3>1. Known(t, S, R, q) /\ q \in t.pending_recv
        BY <2>1 DEF Sequenced
      <3>2. q.mid < t.next_mid /\ q.mid \in Nat
        BY <1>1, <3>1 DEF Known
      <3>3. \A i \in DOMAIN s.wire : s.wire[i].mid = q.mid => s.wire[i] = q
        BY <1>1, <2>4, <3>1, <3>2 DEF Known
      <3>4. \A v \in s.pending_recv : v.mid = q.mid => v = q
        BY <1>1, <2>1, <3>1, <3>2 DEF Known
      <3> QED BY <1>1, <3>1, <3>2, <3>3, <3>4 DEF Known
    <2>7. Known(s, S, R, r)
      <3>1. \A v \in s.pending_recv : v.mid = r.mid => v = r
        <4>1. \A v \in K : v.mid < t.next_mid
          BY <2>1 DEF Sequenced, Known
        <4> QED BY <1>1, <2>1, <4>1
      <3>2. \A i \in DOMAIN s.wire : s.wire[i].mid = r.mid => s.wire[i] = r
        BY <1>1, <1>4, <2>4
      <3>3. /\ \A q \in S : q.mid # r.mid
            /\ \A i \in DOMAIN R : R[i].mid # r.mid
        BY <1>1, <1>2, <2>3 DEF Placed
      <3> QED BY <1>1, <3>1, <3>2, <3>3 DEF Known
    <2> QED BY <2>1, <2>5, <2>6, <2>7 DEF Sequenced
  <1> QED BY <1>5, <1>6

LEMMA PostedGood ==
    ASSUME NEW S, NEW R, Server(S, R), NEW x, Good(x, S, R), NEW p \in Name,
           NEW y, NEW r, NEW K, Posted(x, y, p, r, K)
    PROVE  Good(y, S, R)
  <1>1. x.t \in Transports /\ y \in Views /\ ContextsOK(y.ac) /\ y.h = x.h
    BY DEF Good, Views, Posted
  <1>2. NextReq(x.t, r, p) /\ Delivered(x.t, y.t, r, K) /\ Sequenced(x.t, S, R)
    BY DEF Posted, Good
  <1>3. Sequenced(y.t, S, R)
    BY <1>1, <1>2, DeliveredSequenced
  <1>4. Own(y.ac, y.t)
    <2> SUFFICES ASSUME NEW q \in Name
                 PROVE  /\ y.ac[q].rreq < y.t.next_mid
                        /\ \A v \in y.t.pending_recv : v.mid = y.ac[q].rreq => v.pipe = q
      BY DEF Own
    <2>1. /\ NULL < x.t.next_mid /\ x.t.next_mid \in Nat
          /\ \A v \in x.t.pending_recv : v.mid # NULL /\ v.mid \in Nat
      BY <1>1 DEF Transports, Requests, NULL
    <2>2. \A v \in x.t.pending_recv : v.mid < x.t.next_mid
      BY <1>2 DEF Sequenced, Known
    <2>3. /\ x.ac[q].rreq < x.t.next_mid /\ x.ac[q].rreq \in Int
          /\ \A v \in x.t.pending_recv : v.mid = x.ac[q].rreq => v.pipe = q
      <3>1. x.ac[q] \in Contexts
        BY DEF Good, Views
      <3> QED BY <3>1 DEF Good, Own, Contexts
    <2>4. y.ac[q].rreq \in {NULL, x.ac[q].rreq} \/ (q = p /\ y.ac[q].rreq = x.t.next_mid)
      BY DEF Posted
    <2>5. /\ y.t.next_mid = x.t.next_mid + 1
          /\ \A v \in y.t.pending_recv : v \in x.t.pending_recv \/ v = r
      BY <1>2 DEF Delivered
    <2>6. r.mid = x.t.next_mid /\ r.pipe = p
      BY <1>2 DEF NextReq
    <2> QED BY <2>1, <2>2, <2>3, <2>4, <2>5, <2>6 DEF NULL
  <1> QED BY <1>1, <1>3, <1>4 DEF Good

-----------------------------------------------------------------------------
(***************************************************************************)
(* What a reply handler with its callback may do, by kind of reply.        *)
(***************************************************************************)

\* Only the user's part changes.
Bare(x, y, u) ==
    /\ y \in Views
    /\ y.ac = x.ac /\ y.t = x.t /\ y.h = x.h /\ y.u = u

LEMMA BareIs ==
    ASSUME NEW x \in Views, NEW u \in Users
    PROVE  Bare(x, [x EXCEPT !.u = u], u)
  BY DEF Bare, Views

LEMMA BareGood ==
    ASSUME NEW S, NEW R, NEW x, Good(x, S, R), NEW y, NEW u, Bare(x, y, u)
    PROVE  Good(y, S, R)
  BY DEF Good, Bare

LEMMA UserSets ==
    ASSUME NEW u \in Users, NEW n \in Nat, NEW c \in Codes
    PROVE  /\ [u EXCEPT !.fault = TRUE] \in Users
           /\ [u EXCEPT !.activated = TRUE] \in Users
           /\ [u EXCEPT !.return_code = 1] \in Users
           /\ [u EXCEPT !.return_code = c] \in Users
           /\ [u EXCEPT !.state = "GETTING_VERSION", !.handler = TRUE,
                        !.timers = @ + 1] \in Users
           /\ [u EXCEPT !.state = "RUNNING"] \in Users
           /\ [u EXCEPT !.state = "CLOSING_FOR_REINSTALL"] \in Users
           /\ [u EXCEPT !.state = "OPENING"] \in Users
           /\ [u EXCEPT !.stdin = n] \in Users
           /\ [u EXCEPT !.got.io = Append(@, n)] \in Users
           /\ [u EXCEPT !.got.err = Append(@, n)] \in Users
           /\ [u EXCEPT !.exited = TRUE, !.timers = 0, !.stdin = 0] \in Users
           /\ [u EXCEPT !.killed = TRUE] \in Users
           /\ [u EXCEPT !.abort_requested = TRUE, !.handler = FALSE] \in Users
  <1>1. /\ [u EXCEPT !.fault = TRUE] \in Users
        /\ [u EXCEPT !.activated = TRUE] \in Users
        /\ [u EXCEPT !.return_code = 1] \in Users
        /\ [u EXCEPT !.return_code = c] \in Users
        /\ [u EXCEPT !.stdin = n] \in Users
        /\ [u EXCEPT !.killed = TRUE] \in Users
        /\ [u EXCEPT !.abort_requested = TRUE, !.handler = FALSE] \in Users
    BY DEF Users, Codes
  <1>2. /\ [u EXCEPT !.state = "RUNNING"] \in Users
        /\ [u EXCEPT !.state = "CLOSING_FOR_REINSTALL"] \in Users
        /\ [u EXCEPT !.state = "OPENING"] \in Users
    BY DEF Users
  <1>3. [u EXCEPT !.state = "GETTING_VERSION", !.handler = TRUE, !.timers = @ + 1] \in Users
    <2>1. u.timers + 1 \in Nat
      BY DEF Users
    <2> QED BY <2>1 DEF Users
  <1>4. [u EXCEPT !.exited = TRUE, !.timers = 0, !.stdin = 0] \in Users
    BY DEF Users
  <1>5. /\ u.got \in [io : Seq(Nat), err : Seq(Nat)]
        /\ [u.got EXCEPT !.io = Append(@, n)] \in [io : Seq(Nat), err : Seq(Nat)]
        /\ [u.got EXCEPT !.err = Append(@, n)] \in [io : Seq(Nat), err : Seq(Nat)]
    <2>1. u.got \in [io : Seq(Nat), err : Seq(Nat)]
      BY DEF Users
    <2>2. u.got.io \in Seq(Nat) /\ u.got.err \in Seq(Nat)
      BY <2>1
    <2>3. Append(u.got.io, n) \in Seq(Nat) /\ Append(u.got.err, n) \in Seq(Nat)
      BY <2>2
    <2> DEFINE a == Append(u.got.io, n)
               b == Append(u.got.err, n)
    <2> HIDE DEF a, b
    <2>4. /\ [u.got EXCEPT !.io = a] \in [io : Seq(Nat), err : Seq(Nat)]
          /\ [u.got EXCEPT !.err = b] \in [io : Seq(Nat), err : Seq(Nat)]
      BY <2>1, <2>3 DEF a, b
    <2> QED BY <2>1, <2>4 DEF a, b
  <1>6. /\ [u EXCEPT !.got.io = Append(@, n)] \in Users
        /\ [u EXCEPT !.got.err = Append(@, n)] \in Users
    BY <1>5 DEF Users
  <1> QED BY <1>1, <1>2, <1>3, <1>4, <1>6

\* exit_program and the default action of a signal: nothing is left of the
\* client; the service may have been stopped.
Ended(x, y) ==
    /\ y \in Views /\ ContextsOK(y.ac)
    /\ \A p \in Name : y.ac[p].rreq = NULL
    /\ y.t.pending_recv = {}
    /\ y.t.next_mid = x.t.next_mid /\ y.t.wire = x.t.wire /\ y.t.dead = x.t.dead
    /\ y.t.request_timeout = x.t.request_timeout
    /\ y.u.exited /\ y.u.state = x.u.state
    /\ y.u.timers = 0 /\ y.u.stdin = 0
    /\ y.h = x.h \/ y.h = StopService(x.h)

LEMMA ExitEnds ==
    ASSUME NEW x \in Views
    PROVE  /\ Ended(x, Exit(x)) /\ Exit(x).h = x.h
           /\ Exit(x).u = [x.u EXCEPT !.exited = TRUE, !.timers = 0, !.stdin = 0]
  <1> DEFINE a == [p \in Name |-> async_context(p)]
             t == [x.t EXCEPT !.pending_recv = {}, !.orphans = {}]
             u == [x.u EXCEPT !.exited = TRUE, !.timers = 0, !.stdin = 0]
  <1>1. x.u \in Users /\ x.t \in Transports
    BY DEF Views
  <1>2. u \in Users
    BY <1>1 DEF Users
  <1>3. u.exited /\ u.state = x.u.state /\ u.timers = 0 /\ u.stdin = 0
    BY <1>1 DEF Users
  <1>4. /\ t \in Transports /\ t.pending_recv = {} /\ t.next_mid = x.t.next_mid
        /\ t.wire = x.t.wire /\ t.dead = x.t.dead /\ t.request_timeout = x.t.request_timeout
    BY <1>1 DEF Transports
  <1>5. ASSUME NEW p \in Name
        PROVE  async_context(p) \in Contexts /\ ContextOK(async_context(p), p)
               /\ async_context(p).rreq = NULL
    <2>1. NULL \in Int /\ NULL \in Handles(p)
      BY HandleFacts DEF NULL
    <2>2. async_context(p) \in Contexts /\ async_context(p).rreq = NULL
      BY <2>1 DEF async_context, Contexts
    <2> QED BY <2>1, <2>2 DEF async_context, ContextOK
  <1>6. a \in [Name -> Contexts] /\ ContextsOK(a) /\ \A p \in Name : a[p].rreq = NULL
    BY <1>5 DEF ContextsOK
  <1>7. Exit(x) = [x EXCEPT !.u = u, !.ac = a, !.t = t]
    BY DEF Exit, Views
  <1> HIDE DEF a, t, u
  <1> DEFINE y == [x EXCEPT !.u = u, !.ac = a, !.t = t]
  <1>8. y \in Views /\ y.u = u /\ y.ac = a /\ y.t = t /\ y.h = x.h
    BY <1>2, <1>4, <1>6 DEF Views
  <1> HIDE DEF y
  <1>9. Ended(x, y)
    BY <1>3, <1>4, <1>6, <1>8 DEF Ended
  <1> QED BY <1>7, <1>8, <1>9 DEF y, u

LEMMA EndedGood ==
    ASSUME NEW S, NEW R, Server(S, R), NEW x, Good(x, S, R), NEW y, Ended(x, y)
    PROVE  Good(y, S, R)
  <1>1. HostOK(y.h)
    BY StopServiceOK DEF Good, Ended
  <1>2. Own(y.ac, y.t)
    <2>1. y.t.next_mid \in Nat
      BY DEF Ended, Views, Transports
    <2> QED BY <2>1 DEF Ended, Own, NULL
  <1>3. Sequenced(y.t, S, R)
    BY DEF Sequenced, Placed, Ended, Good
  <1> QED BY <1>1, <1>2, <1>3 DEF Ended, Good

LEMMA ExitProgramEnds ==
    ASSUME NEW x \in Views, HostOK(x.h)
    PROVE  Ended(x, exit_program(x))
  <1> DEFINE y == Exit(x)
             g == IF Uninstall THEN StopService(x.h) ELSE x.h
  <1>1. Ended(x, y) /\ y.h = x.h
    BY ExitEnds
  <1>2. g \in Hosts
    BY StopServiceOK DEF HostOK
  <1>3. exit_program(x) = [y EXCEPT !.h = g]
    BY <1>1 DEF exit_program
  <1> HIDE DEF y
  <1> DEFINE z == [y EXCEPT !.h = g]
  <1>4. g = x.h \/ g = StopService(x.h)
    OBVIOUS
  <1> HIDE DEF g
  <1>5. z \in Views /\ z.u = y.u /\ z.ac = y.ac /\ z.t = y.t /\ z.h = g
    BY <1>1, <1>2 DEF Views, Ended
  <1> HIDE DEF z
  <1>6. Ended(x, z)
    BY <1>1, <1>4, <1>5 DEF Ended
  <1> QED BY <1>3, <1>6 DEF z

\* The user's fields and the host are replaced.
Swapped(x, y, u, h) ==
    /\ y \in Views
    /\ y.ac = x.ac /\ y.t = x.t /\ y.u = u /\ y.h = h

\* What a handler of an I/O pipe may change of the user's state.
Aside(u, v) ==
    /\ v.state = u.state /\ v.activated = u.activated /\ v.timers = u.timers
    /\ v.exited = u.exited /\ v.fault = u.fault /\ v.abort_requested = u.abort_requested

\* async_read at the end of a handler of pipe p.
ReadsOn(z, y, p) ==
    \E r : /\ r.kind = "read"
           /\ r.fnum = Block(z.ac[p].io_read, z.ac[p].fd)
           /\ Posted(z, y, p, r, z.t.pending_recv)
           /\ y.ac[p].io_read = r.fnum
           /\ y.ac[p].fd = z.ac[p].fd

\* async_close.
Closes(z, y, p) ==
    \E r : /\ r.kind = "close" /\ r.fnum = z.ac[p].fd
           /\ Posted(z, y, p, r, {q \in z.t.pending_recv : q.mid # z.ac[p].rreq})
           /\ y.ac[p].io_read = z.ac[p].io_read
           /\ y.ac[p].fd = z.ac[p].fd

Opens(z, y, p) == \E r : r.kind = "open" /\ Posted(z, y, p, r, z.t.pending_recv)

Writes(z, y, p, d) ==
    \E r : /\ r.kind = "write" /\ r.data = d
           /\ r.fnum = Block(z.ac[p].io_write, z.ac[p].fd)
           /\ Posted(z, y, p, r, z.t.pending_recv)
           /\ y.ac[p].io_read = z.ac[p].io_read
           /\ y.ac[p].fd = z.ac[p].fd

\* The handler up to the callback.
Received(x, w, p) ==
    /\ Touched(x, w, p)
    /\ w.ac[p].fd = x.ac[p].fd
    /\ w.ac[p].io_read = x.ac[p].io_read

IoOutcome(x, y, p) ==
    \/ Touched(x, y, p)
    \/ \E w, z : /\ Touched(x, w, p)
                 /\ \E u \in Users : Bare(w, z, u) /\ Aside(w.u, u)
                 /\ ReadsOn(z, y, p)
    \/ \E w : Touched(x, w, p) /\ Closes(w, y, p)

CtrlOpened(x, y, f) ==
    \E w, z, v :
       /\ Touched(x, w, "ctrl")
       /\ w.ac["ctrl"].fd = f /\ w.ac["ctrl"].io_read = x.ac["ctrl"].io_read
       /\ Bare(w, z, [w.u EXCEPT !.state = "GETTING_VERSION", !.handler = TRUE, !.timers = @ + 1])
       /\ Writes(z, v, "ctrl", <<"get version">>)
       /\ ReadsOn(v, y, "ctrl")

\* on_ctrl_pipe_read
CtrlPipes(w, z) ==
    \E a, b, c : /\ Touched(w, a, "io") /\ Opens(a, b, "io")
                 /\ Touched(b, c, "err") /\ Opens(c, z, "err")

CtrlCode(w, z, m) ==
    m.arg \in Codes /\ Bare(w, z, [w.u EXCEPT !.return_code = m.arg])

CtrlRun(w, z, m) ==
    /\ m.cmd = "version" /\ SameVersion(m.arg)
    /\ \E v : /\ Writes(w, v, "ctrl", Setup \o <<"run">>)
              /\ Bare(v, z, [v.u EXCEPT !.state = "RUNNING"])

CtrlReplace(w, z, m) ==
    /\ \/ m.cmd = "version" /\ ~SameVersion(m.arg)
       \/ m.cmd = "error" /\ w.u.state = "GETTING_VERSION"
    /\ \E v : /\ Closes(w, v, "ctrl")
              /\ Bare(v, z, [v.u EXCEPT !.state = "CLOSING_FOR_REINSTALL"])

CtrlRead(x, y, m) ==
    \E w, z : /\ Received(x, w, "ctrl") /\ w.ac["ctrl"].rreq = NULL
              /\ \/ CtrlPipes(w, z)
                 \/ CtrlCode(w, z, m)
                 \/ CtrlRun(w, z, m)
                 \/ CtrlReplace(w, z, m)
                 \/ z = w
              /\ ReadsOn(z, y, "ctrl")

\* on_ctrl_pipe_error
CtrlError(x, y, func, status) ==
    \E w : /\ Touched(x, w, "ctrl")
           /\ func # "open" => w.ac["ctrl"].io_read = x.ac["ctrl"].io_read
           /\ \/ \E z : Bare(w, z, [w.u EXCEPT !.return_code = 1]) /\ Ended(z, y)
              \/ Ended(w, y)
              \/ y = w /\ func = "read" /\ w.u.state = "OPENING"
              \/ /\ ~w.u.activated /\ status = "OBJECT_NAME_NOT_FOUND"
                 /\ \E z, h : /\ h \in svc_install(w.h)
                              /\ Swapped(w, z, [w.u EXCEPT !.activated = TRUE], h)
                              /\ Opens(z, y, "ctrl")

\* on_ctrl_pipe_close
Left(h) == svc_uninstall(h) \cup UNION {svc_install(g) : g \in svc_uninstall(h)}

CtrlClosed(x, y) ==
    \E w : /\ Touched(x, w, "ctrl")
           /\ w.ac["ctrl"].io_read = NULL
           /\ \/ y = w /\ w.u.state # "CLOSING_FOR_REINSTALL"
              \/ /\ w.u.state = "CLOSING_FOR_REINSTALL"
                 /\ \E z, h : /\ h \in Left(w.h)
                              /\ Swapped(w, z, [w.u EXCEPT !.state = "OPENING"], h)
                              /\ Opens(z, y, "ctrl")

LEMMA Names == "ctrl" \in Name /\ "io" \in Name /\ "err" \in Name
               /\ \A p \in Name : p = "ctrl" \/ p = "io" \/ p = "err"
  BY DEF Name

\* The operations in these terms.
LEMMA Operations ==
    ASSUME NEW x \in Views, ContextsOK(x.ac), NEW p \in Name
    PROVE  /\ ReadsOn(x, With(x, p, async_read), p)
           /\ Closes(x, With(x, p, async_close), p)
           /\ Opens(x, With(x, p, async_open), p)
           /\ \A d \in Seq(ClientLines) : Writes(x, Write(x, p, d), p, d)
  <1>1. ReadsOn(x, With(x, p, async_read), p)
    BY ReadPosts DEF ReadsOn
  <1>2. Closes(x, With(x, p, async_close), p)
    BY ClosePosts DEF Closes
  <1>3. Opens(x, With(x, p, async_open), p)
    BY OpenPosts DEF Opens
  <1>4. \A d \in Seq(ClientLines) : Writes(x, Write(x, p, d), p, d)
    BY WritePosts DEF Writes
  <1> QED BY <1>1, <1>2, <1>3, <1>4

LEMMA PostedView ==
    ASSUME NEW x, NEW y, NEW p
    PROVE  /\ ReadsOn(x, y, p) => y \in Views /\ ContextsOK(y.ac) /\ y.u = x.u /\ y.h = x.h
           /\ Closes(x, y, p) => y \in Views /\ ContextsOK(y.ac) /\ y.u = x.u /\ y.h = x.h
           /\ Opens(x, y, p) => y \in Views /\ ContextsOK(y.ac) /\ y.u = x.u /\ y.h = x.h
           /\ \A d : Writes(x, y, p, d) => y \in Views /\ ContextsOK(y.ac) /\ y.u = x.u /\ y.h = x.h
           /\ Touched(x, y, p) => y \in Views /\ ContextsOK(y.ac) /\ y.u = x.u /\ y.h = x.h
  BY DEF ReadsOn, Closes, Opens, Writes, Posted, Touched

\* The handlers, by kind of request.
LEMMA HandleCases ==
    ASSUME NEW x, NEW r, NEW status, NEW f, NEW m,
           NEW y \in HandleReply(x, r, status, f, m)
    PROVE  \/ status = "OK" /\ NullDeref(x.ac[r.pipe], r.kind) /\ y = [x EXCEPT !.u.fault = TRUE]
           \/ /\ r.kind = "open" => y \in OpenReply(x, r.pipe, status, f)
              /\ r.kind = "read" => y \in ReadReply(x, r.pipe, status, m)
              /\ r.kind = "write" => y \in WriteReply(x, r.pipe, status)
              /\ r.kind = "close" => y \in CloseReply(x, r.pipe)
  BY DEF HandleReply

LEMMA SetupRuns == Setup \o <<"run">> \in Seq(ClientLines) /\ <<"get version">> \in Seq(ClientLines)
  <1>1. "get version" \in ClientLines /\ "run" \in ClientLines /\ "set" \in ClientLines
    BY DEF ClientLines
  <1>2. \A l \in ClientLines : <<l>> \in Seq(ClientLines)
    OBVIOUS
  <1>3. Setup \in Seq(ClientLines)
    <2>1. <<"set">> \in Seq(ClientLines)
      BY <1>1, <1>2
    <2>3. <<>> \in Seq(ClientLines)
      OBVIOUS
    <2>2. Setup = <<>> \/ Setup = <<"set">>
      BY SetupAssumption
    <2> QED BY <2>1, <2>2, <2>3
  <1>4. \A a, b \in Seq(ClientLines) : a \o b \in Seq(ClientLines)
    OBVIOUS
  <1> QED BY <1>1, <1>2, <1>3, <1>4

\* A handler of the I/O pipes.
LEMMA IoErrorIs ==
    ASSUME NEW w \in Views, ContextsOK(w.ac), NEW p \in Name \ {"ctrl"},
           NEW func, NEW status, NEW y \in cb_error(w, p, func, status)
    PROVE  Closes(w, y, p)
  <1>1. y = With(w, p, async_close)
    BY DEF cb_error
  <1> QED BY <1>1, Operations

LEMMA IoReply ==
    ASSUME NEW x \in Views, ContextsOK(x.ac), NEW p \in Name \ {"ctrl"},
           NEW status, NEW f, NEW m, status = "OK" => f \in FnumFor(p), m \in Messages,
           NEW y,
           \/ y \in OpenReply(x, p, status, f)
           \/ y \in ReadReply(x, p, status, m)
           \/ y \in WriteReply(x, p, status)
           \/ y \in CloseReply(x, p)
    PROVE  IoOutcome(x, y, p)
  <1>1. p \in Name /\ p # "ctrl" /\ (p = "io" \/ p = "err")
    BY DEF Name
  <1>2. CASE y \in OpenReply(x, p, status, f)
    <2> DEFINE ok == status = "OK"
               w == OpenRecv(x, p, ok, f)
    <2>1. ok \in BOOLEAN /\ (ok => f \in FnumFor(p))
      OBVIOUS
    <2>2. (ok /\ y = With(cb_open(w, p), p, async_read)) \/ (~ok /\ y \in cb_error(w, p, "open", status))
      <3>1. CASE ok
        BY <1>2, <3>1 DEF OpenReply, OpenRecv
      <3>2. CASE ~ok
        BY <1>2, <3>2 DEF OpenReply, OpenRecv
      <3> QED BY <3>1, <3>2
    <2>3. Touched(x, w, p)
      <3> HIDE DEF ok
      <3> QED BY <2>1, OpenRecvTouches
    <2> HIDE DEF w, ok
    <2>4. w \in Views /\ ContextsOK(w.ac)
      BY <2>3 DEF Touched
    <2>5. CASE y \in cb_error(w, p, "open", status)
      BY <2>3, <2>4, <2>5, IoErrorIs DEF IoOutcome
    <2>6. CASE y = With(cb_open(w, p), p, async_read)
      <3>1. PICK u \in Users : cb_open(w, p) = [w EXCEPT !.u = u] /\ Aside(w.u, u)
        <4>1. CASE p = "io"
          <5>1. cb_open(w, p) = [w EXCEPT !.u = [w.u EXCEPT !.stdin = MaxIn]]
            BY <4>1, <2>4 DEF cb_open, on_io_pipe_open, Views
          <5>2. w.u \in Users
            BY <2>4 DEF Views
          <5>3. [w.u EXCEPT !.stdin = MaxIn] \in Users /\ Aside(w.u, [w.u EXCEPT !.stdin = MaxIn])
            BY <5>2, BoundsAssumption DEF Users, Aside
          <5> QED BY <5>1, <5>3
        <4>2. CASE p = "err"
          <5>1. cb_open(w, p) = [w EXCEPT !.u = w.u] /\ w.u \in Users
            BY <4>2, <2>4 DEF cb_open, Views
          <5> QED BY <5>1 DEF Aside
        <4> QED BY <1>1, <4>1, <4>2
      <3> DEFINE z == [w EXCEPT !.u = u]
      <3>2. Bare(w, z, u)
        BY <2>4, BareIs
      <3>3. y = With(z, p, async_read)
        BY <2>6, <3>1
      <3> HIDE DEF z
      <3>4. z \in Views /\ ContextsOK(z.ac)
        BY <2>4, <3>2 DEF Bare
      <3>5. ReadsOn(z, y, p)
        BY <3>3, <3>4, Operations
      <3> QED BY <2>3, <3>1, <3>2, <3>5 DEF IoOutcome
    <2> QED BY <2>2, <2>5, <2>6
  <1>3. CASE y \in ReadReply(x, p, status, m)
    <2> DEFINE w == With(x, p, async_read_recv)
    <2>1. y = With(cb_read(w, p, m), p, async_read) \/ y \in cb_error(w, p, "read", status)
      BY <1>3 DEF ReadReply
    <2>2. Touched(x, w, p)
      BY ReadRecvTouches
    <2> HIDE DEF w
    <2>3. w \in Views /\ ContextsOK(w.ac)
      BY <2>2 DEF Touched
    <2>4. CASE y \in cb_error(w, p, "read", status)
      BY <2>2, <2>3, <2>4, IoErrorIs DEF IoOutcome
    <2>5. CASE y = With(cb_read(w, p, m), p, async_read)
      <3>1. w.u \in Users /\ m.arg \in Nat
        BY <2>3 DEF Views, Messages
      <3>2. PICK u \in Users : cb_read(w, p, m) = [w EXCEPT !.u = u] /\ Aside(w.u, u)
        <4>1. CASE p = "io"
          <5> DEFINE u == [w.u EXCEPT !.got.io = Append(@, m.arg)]
          <5>1. cb_read(w, p, m) = [w EXCEPT !.u = u]
            BY <4>1, <2>3 DEF cb_read, Views
          <5>2. u \in Users
            BY <3>1, UserSets DEF Codes
          <5>3. Aside(w.u, u)
            BY <3>1 DEF Aside, Users
          <5> QED BY <5>1, <5>2, <5>3
        <4>2. CASE p = "err"
          <5> DEFINE u == [w.u EXCEPT !.got.err = Append(@, m.arg)]
          <5>1. cb_read(w, p, m) = [w EXCEPT !.u = u]
            BY <4>2, <2>3 DEF cb_read, Views
          <5>2. u \in Users
            BY <3>1, UserSets DEF Codes
          <5>3. Aside(w.u, u)
            BY <3>1 DEF Aside, Users
          <5> QED BY <5>1, <5>2, <5>3
        <4> QED BY <1>1, <4>1, <4>2
      <3> DEFINE z == [w EXCEPT !.u = u]
      <3>3. Bare(w, z, u)
        BY <2>3, BareIs
      <3>4. y = With(z, p, async_read)
        BY <2>5, <3>2
      <3> HIDE DEF z
      <3>5. z \in Views /\ ContextsOK(z.ac)
        BY <2>3, <3>3 DEF Bare
      <3>6. ReadsOn(z, y, p)
        BY <3>4, <3>5, Operations
      <3> QED BY <2>2, <3>2, <3>3, <3>6 DEF IoOutcome
    <2> QED BY <2>1, <2>4, <2>5
  <1>4. CASE y \in WriteReply(x, p, status)
    <2> DEFINE ok == status = "OK"
               w == WriteRecv(x, p, ok)
    <2>1. y = w \/ y \in cb_error(w, p, "write", status)
      BY <1>4 DEF WriteReply, WriteRecv
    <2>2. Touched(x, w, p)
      <3>1. ok \in BOOLEAN
        OBVIOUS
      <3> HIDE DEF ok
      <3> QED BY <3>1, WriteRecvTouches
    <2> HIDE DEF w
    <2>3. w \in Views /\ ContextsOK(w.ac)
      BY <2>2 DEF Touched
    <2> QED BY <2>1, <2>2, <2>3, IoErrorIs DEF IoOutcome
  <1>5. CASE y \in CloseReply(x, p)
    <2>1. y = With(x, p, async_close_recv)
      BY <1>1, <1>5 DEF CloseReply, cb_close
    <2> QED BY <2>1, CloseRecvTouches DEF IoOutcome
  <1> QED BY <1>2, <1>3, <1>4, <1>5

\* on_ctrl_pipe_open, and the read that follows.
LEMMA CtrlOpenIs ==
    ASSUME NEW x \in Views, ContextsOK(x.ac), NEW f \in FnumFor("ctrl"),
           NEW status, status = "OK", NEW y \in OpenReply(x, "ctrl", status, f)
    PROVE  CtrlOpened(x, y, f)
  <1> DEFINE ok == status = "OK"
             w == OpenRecv(x, "ctrl", ok, f)
             u == [w.u EXCEPT !.state = "GETTING_VERSION", !.handler = TRUE, !.timers = @ + 1]
             z == [w EXCEPT !.u = u]
             v == Write(z, "ctrl", <<"get version">>)
  <1>1. y = With(cb_open(w, "ctrl"), "ctrl", async_read)
    BY DEF OpenReply, OpenRecv
  <1>2. Touched(x, w, "ctrl") /\ w.ac["ctrl"].fd = f /\ w.ac["ctrl"].io_read = x.ac["ctrl"].io_read
    <2>1. ok \in BOOLEAN /\ ok
      OBVIOUS
    <2> HIDE DEF ok
    <2>2. PICK p \in Name : p = "ctrl"
      BY Names
    <2>3. ok => f \in FnumFor(p)
      BY <2>2
    <2>4. Touched(x, OpenRecv(x, p, ok, f), p)
      BY <2>1, <2>3, OpenRecvTouches
    <2>5. ok => OpenRecv(x, p, ok, f).ac[p].fd = f
      BY <2>1, <2>3, OpenRecvTouches
    <2>6. SameBlocks(x, OpenRecv(x, p, ok, f), p)
      BY <2>1, <2>3, OpenRecvTouches
    <2> QED BY <2>1, <2>2, <2>4, <2>5, <2>6 DEF SameBlocks
  <1> HIDE DEF w
  <1>3. w \in Views /\ ContextsOK(w.ac) /\ w.u \in Users
    BY <1>2 DEF Touched, Views
  <1>4. cb_open(w, "ctrl") = v
    <2>1. [w EXCEPT !.u.state = "GETTING_VERSION", !.u.handler = TRUE, !.u.timers = @ + 1] = z
      BY <1>3 DEF Views
    <2> QED BY <2>1 DEF cb_open, on_ctrl_pipe_open
  <1>5. u \in Users
    BY <1>3, UserSets DEF Codes
  <1> HIDE DEF u
  <1>6. Bare(w, z, u)
    BY <1>3, <1>5, BareIs
  <1> HIDE DEF z
  <1>7. z \in Views /\ ContextsOK(z.ac)
    BY <1>3, <1>6 DEF Bare
  <1>8. Writes(z, v, "ctrl", <<"get version">>)
    BY <1>7, Operations, SetupRuns, Names
  <1> HIDE DEF v
  <1>9. v \in Views /\ ContextsOK(v.ac)
    BY <1>8, PostedView
  <1>10. ReadsOn(v, y, "ctrl")
    BY <1>1, <1>4, <1>9, Operations, Names
  <1> QED BY <1>2, <1>6, <1>8, <1>10 DEF CtrlOpened, u

\* The context of a pipe is allocated anew: async_open does not look at it.
LEMMA OpenPipeIs ==
    ASSUME NEW x \in Views, ContextsOK(x.ac), NEW p \in Name
    PROVE  \E a : Touched(x, a, p) /\ Opens(a, OpenPipe(x, p), p)
  <1> DEFINE a == [x EXCEPT !.ac[p] = async_context(p)]
  <1>1. async_context(p) \in Contexts /\ ContextOK(async_context(p), p)
        /\ async_context(p).rreq = NULL
    <2>1. NULL \in Int /\ NULL \in Handles(p)
      BY HandleFacts DEF NULL
    <2>2. async_context(p) \in Contexts /\ async_context(p).rreq = NULL
      BY <2>1 DEF async_context, Contexts
    <2> QED BY <2>1, <2>2 DEF async_context, ContextOK
  <1>2. PutAt(x, a, p, async_context(p), x.t)
    BY DEF PutAt, Views
  <1>3. OpenPipe(x, p) = With(a, p, async_open)
    BY DEF OpenPipe
  <1> HIDE DEF a
  <1>4. Touched(x, a, p)
    BY <1>1, <1>2, TouchIs
  <1>5. a \in Views /\ ContextsOK(a.ac)
    BY <1>4 DEF Touched
  <1> QED BY <1>3, <1>4, <1>5, Operations

LEMMA CtrlReadIs ==
    ASSUME NEW x \in Views, ContextsOK(x.ac), NEW m \in CtrlMessages,
           NEW y \in ReadReply(x, "ctrl", "OK", m)
    PROVE  CtrlRead(x, y, m)
  <1> DEFINE w == With(x, "ctrl", async_read_recv)
             z == on_ctrl_pipe_read(w, m)
  <1>1. y = With(z, "ctrl", async_read)
    BY DEF ReadReply, cb_read
  <1>2. Received(x, w, "ctrl") /\ w.ac["ctrl"].rreq = NULL
    BY ReadRecvTouches, Names DEF Received
  <1> HIDE DEF w
  <1>3. w \in Views /\ ContextsOK(w.ac) /\ w.u \in Users
    BY <1>2 DEF Received, Touched, Views
  <1>4. /\ m.cmd \in {"version", "error", "std_io_err", "return_code"}
        /\ m.cmd = "return_code" => m.arg \in Codes
    BY DEF CtrlMessages
  <1>5. ASSUME NEW v, Closes(w, v, "ctrl"),
               z = [v EXCEPT !.u.state = "CLOSING_FOR_REINSTALL"]
        PROVE  Bare(v, z, [v.u EXCEPT !.state = "CLOSING_FOR_REINSTALL"])
    <2>1. v \in Views /\ v.u \in Users
      BY <1>5, PostedView DEF Views
    <2>2. z = [v EXCEPT !.u = [v.u EXCEPT !.state = "CLOSING_FOR_REINSTALL"]]
      BY <1>5, <2>1 DEF Views
    <2>3. [v.u EXCEPT !.state = "CLOSING_FOR_REINSTALL"] \in Users
      BY <2>1, UserSets DEF Codes
    <2> QED BY <2>1, <2>2, <2>3, BareIs
  <1>6. ASSUME \/ m.cmd = "version" /\ ~SameVersion(m.arg)
               \/ m.cmd = "error" /\ w.u.state = "GETTING_VERSION",
               z = close_for_reinstall(w)
        PROVE  CtrlReplace(w, z, m)
    <2> DEFINE v == With(w, "ctrl", async_close)
    <2>1. Closes(w, v, "ctrl")
      BY <1>3, Operations, Names
    <2>2. z = [v EXCEPT !.u.state = "CLOSING_FOR_REINSTALL"]
      BY <1>6 DEF close_for_reinstall
    <2> HIDE DEF v, z
    <2>3. Bare(v, z, [v.u EXCEPT !.state = "CLOSING_FOR_REINSTALL"])
      BY <1>5, <2>1, <2>2
    <2> QED BY <1>6, <2>1, <2>3 DEF CtrlReplace
  <1>7. CASE m.cmd = "std_io_err"
    <2> DEFINE b == OpenPipe(w, "io")
    <2>1. z = OpenPipe(b, "err")
      BY <1>7 DEF on_ctrl_pipe_read
    <2>2. \E a : Touched(w, a, "io") /\ Opens(a, b, "io")
      BY <1>3, OpenPipeIs, Names
    <2> HIDE DEF b
    <2>3. b \in Views /\ ContextsOK(b.ac)
      BY <2>2, PostedView
    <2>4. \E c : Touched(b, c, "err") /\ Opens(c, z, "err")
      BY <2>1, <2>3, OpenPipeIs, Names
    <2>5. CtrlPipes(w, z) /\ z \in Views /\ ContextsOK(z.ac)
      BY <2>2, <2>4, PostedView DEF CtrlPipes
    <2> HIDE DEF z
    <2>6. ReadsOn(z, y, "ctrl")
      BY <1>1, <2>5, Operations, Names
    <2> QED BY <1>2, <2>5, <2>6 DEF CtrlRead
  <1>8. CASE m.cmd = "return_code"
    <2> DEFINE u == [w.u EXCEPT !.return_code = m.arg]
    <2>1. z = [w EXCEPT !.u = u]
      BY <1>3, <1>8 DEF on_ctrl_pipe_read, Views
    <2>2. u \in Users
      BY <1>3, <1>4, <1>8, UserSets
    <2> HIDE DEF u, z
    <2>3. Bare(w, z, u)
      BY <1>3, <2>1, <2>2, BareIs
    <2>4. z \in Views /\ ContextsOK(z.ac)
      BY <1>3, <2>3 DEF Bare
    <2>5. ReadsOn(z, y, "ctrl")
      BY <1>1, <2>4, Operations, Names
    <2>6. CtrlCode(w, z, m)
      BY <1>4, <1>8, <2>3 DEF CtrlCode, u
    <2> QED BY <1>2, <2>5, <2>6 DEF CtrlRead
  <1>9. CASE m.cmd = "version" /\ SameVersion(m.arg)
    <2> DEFINE v == Write(w, "ctrl", Setup \o <<"run">>)
               u == [v.u EXCEPT !.state = "RUNNING"]
    <2>1. Writes(w, v, "ctrl", Setup \o <<"run">>)
      BY <1>3, Operations, SetupRuns, Names
    <2>2. z = [v EXCEPT !.u.state = "RUNNING"]
      BY <1>9 DEF on_ctrl_pipe_read
    <2> HIDE DEF v, z
    <2>3. v \in Views /\ ContextsOK(v.ac) /\ v.u \in Users
      BY <2>1, PostedView DEF Views
    <2>4. z = [v EXCEPT !.u = u]
      BY <2>2, <2>3 DEF Views
    <2>5. u \in Users
      BY <2>3, UserSets DEF Codes
    <2> HIDE DEF u
    <2>6. Bare(v, z, u)
      BY <2>3, <2>4, <2>5, BareIs
    <2>7. z \in Views /\ ContextsOK(z.ac)
      BY <2>3, <2>6 DEF Bare
    <2>8. ReadsOn(z, y, "ctrl")
      BY <1>1, <2>7, Operations, Names
    <2>9. CtrlRun(w, z, m)
      BY <1>9, <2>1, <2>6 DEF CtrlRun, u
    <2> QED BY <1>2, <2>8, <2>9 DEF CtrlRead
  <1>10. CASE \/ m.cmd = "version" /\ ~SameVersion(m.arg)
              \/ m.cmd = "error" /\ w.u.state = "GETTING_VERSION"
    <2>1. z = close_for_reinstall(w)
      BY <1>10 DEF on_ctrl_pipe_read
    <2>2. CtrlReplace(w, z, m)
      BY <1>6, <1>10, <2>1
    <2> HIDE DEF z
    <2>3. z \in Views /\ ContextsOK(z.ac)
      <3>1. PICK v : Closes(w, v, "ctrl") /\ Bare(v, z, [v.u EXCEPT !.state = "CLOSING_FOR_REINSTALL"])
        BY <2>2 DEF CtrlReplace
      <3> QED BY <3>1, PostedView DEF Bare
    <2>4. ReadsOn(z, y, "ctrl")
      BY <1>1, <2>3, Operations, Names
    <2> QED BY <1>2, <2>2, <2>4 DEF CtrlRead
  <1>11. CASE m.cmd = "error" /\ w.u.state # "GETTING_VERSION"
    <2>1. z = w
      BY <1>11 DEF on_ctrl_pipe_read
    <2> HIDE DEF z
    <2>2. ReadsOn(w, y, "ctrl")
      BY <1>1, <1>3, <2>1, Operations, Names
    <2> QED BY <1>2, <2>2 DEF CtrlRead
  <1> QED BY <1>4, <1>7, <1>8, <1>9, <1>10, <1>11

\* svc_install and svc_uninstall leave a host in order.
LEMMA InstallOK ==
    ASSUME NEW h, HostOK(h)
    PROVE  /\ \A g \in svc_install(h) : HostOK(g)
           /\ \A g \in svc_uninstall(h) : HostOK(g)
           /\ \A g \in Left(h) : HostOK(g)
  <1>1. ASSUME NEW k, HostOK(k), NEW g \in svc_install(k) PROVE HostOK(g)
    <2>1. CASE k.svc.running
      BY <1>1, <2>1 DEF svc_install
    <2>2. CASE ~k.svc.running
      <3>1. PICK v \in Versions : g = StartService(k, v)
        BY <1>1, <2>2 DEF svc_install
      <3>2. v \in Nat
        BY VersionsAssumption
      <3> QED BY <1>1, <3>1, <3>2, StartServiceOK
    <2> QED BY <2>1, <2>2
  <1>2. ASSUME NEW g \in svc_uninstall(h) PROVE HostOK(g)
    <2>1. g = StopService(h) \/ g = h
      BY <1>2 DEF svc_uninstall
    <2> QED BY <2>1, StopServiceOK
  <1>3. ASSUME NEW g \in Left(h) PROVE HostOK(g)
    BY <1>1, <1>2, <1>3 DEF Left
  <1> QED BY <1>1, <1>2, <1>3

LEMMA SwapIs ==
    ASSUME NEW w \in Views, NEW u \in Users, NEW h \in Hosts
    PROVE  Swapped(w, [w EXCEPT !.u = u, !.h = h], u, h)
  BY DEF Swapped, Views

\* on_ctrl_pipe_error
LEMMA CtrlErrorCases ==
    ASSUME NEW w \in Views, ContextsOK(w.ac), HostOK(w.h), NEW func, NEW status,
           NEW y \in on_ctrl_pipe_error(w, func, status)
    PROVE  \/ \E z : Bare(w, z, [w.u EXCEPT !.return_code = 1]) /\ Ended(z, y)
           \/ Ended(w, y)
           \/ y = w /\ func = "read" /\ w.u.state = "OPENING"
           \/ /\ ~w.u.activated /\ status = "OBJECT_NAME_NOT_FOUND"
              /\ \E z, h : /\ h \in svc_install(w.h)
                           /\ Swapped(w, z, [w.u EXCEPT !.activated = TRUE], h)
                           /\ Opens(z, y, "ctrl")
  <1>1. w.u \in Users
    BY DEF Views
  <1>2. ASSUME y = exit_program([w EXCEPT !.u.return_code = 1])
        PROVE  \E z : Bare(w, z, [w.u EXCEPT !.return_code = 1]) /\ Ended(z, y)
    <2> DEFINE u == [w.u EXCEPT !.return_code = 1]
               z == [w EXCEPT !.u = u]
    <2>1. z = [w EXCEPT !.u.return_code = 1]
      BY DEF Views
    <2>2. u \in Users
      BY <1>1, UserSets DEF Codes
    <2> HIDE DEF u
    <2>3. Bare(w, z, u)
      BY <2>2, BareIs
    <2>4. y = exit_program(z)
      BY <1>2, <2>1
    <2> HIDE DEF z
    <2>5. z \in Views /\ HostOK(z.h)
      BY <2>3 DEF Bare
    <2>6. Ended(z, y)
      BY <2>4, <2>5, ExitProgramEnds
    <2> QED BY <2>3, <2>6 DEF u
  <1>3. ASSUME ~w.u.activated, status = "OBJECT_NAME_NOT_FOUND",
               NEW h \in svc_install(w.h),
               y = With([[w EXCEPT !.u.activated = TRUE] EXCEPT !.h = h], "ctrl", async_open)
        PROVE  \E z : Swapped(w, z, [w.u EXCEPT !.activated = TRUE], h) /\ Opens(z, y, "ctrl")
    <2> DEFINE u == [w.u EXCEPT !.activated = TRUE]
               z == [w EXCEPT !.u = u, !.h = h]
    <2>1. z = [[w EXCEPT !.u.activated = TRUE] EXCEPT !.h = h]
      BY DEF Views
    <2>2. u \in Users /\ h \in Hosts
      BY <1>1, UserSets, InstallOK DEF Codes, HostOK
    <2> HIDE DEF u
    <2>3. Swapped(w, z, u, h)
      BY <2>2, SwapIs
    <2>4. y = With(z, "ctrl", async_open)
      BY <1>3, <2>1
    <2> HIDE DEF z
    <2>5. z \in Views /\ ContextsOK(z.ac)
      BY <2>3 DEF Swapped
    <2>6. Opens(z, y, "ctrl")
      BY <2>4, <2>5, Operations, Names
    <2> QED BY <2>3, <2>6 DEF u
  <1>4. CASE ~w.u.activated /\ status = "OBJECT_NAME_NOT_FOUND"
    <2>1. y \in InstallAndOpen(w)
      BY <1>4 DEF on_ctrl_pipe_error
    <2>2. \/ y = exit_program([w EXCEPT !.u.return_code = 1])
          \/ \E h \in svc_install(w.h) :
                y = With([[w EXCEPT !.u.activated = TRUE] EXCEPT !.h = h], "ctrl", async_open)
      BY <2>1 DEF InstallAndOpen
    <2> QED BY <1>2, <1>3, <1>4, <2>2
  <1>5. CASE ~(~w.u.activated /\ status = "OBJECT_NAME_NOT_FOUND")
    <2>1. \/ y = exit_program([w EXCEPT !.u.return_code = 1])
          \/ y = w /\ func = "read" /\ w.u.state = "OPENING"
          \/ y = exit_program(w)
      BY <1>5 DEF on_ctrl_pipe_error
    <2> QED BY <1>2, <2>1, ExitProgramEnds
  <1> QED BY <1>4, <1>5

LEMMA CtrlErrorIs ==
    ASSUME NEW x \in Views, ContextsOK(x.ac), HostOK(x.h),
           NEW status, status # "OK", NEW f, NEW m, NEW func, NEW y,
           \/ func = "open" /\ y \in OpenReply(x, "ctrl", status, f)
           \/ func = "read" /\ y \in ReadReply(x, "ctrl", status, m)
           \/ func = "write" /\ y \in WriteReply(x, "ctrl", status)
    PROVE  CtrlError(x, y, func, status)
  <1>1. ASSUME NEW w, Touched(x, w, "ctrl"),
               func # "open" => w.ac["ctrl"].io_read = x.ac["ctrl"].io_read,
               y \in cb_error(w, "ctrl", func, status)
        PROVE  CtrlError(x, y, func, status)
    <2>1. w \in Views /\ ContextsOK(w.ac) /\ w.h = x.h
      BY <1>1 DEF Touched
    <2>2. y \in on_ctrl_pipe_error(w, func, status)
      BY <1>1 DEF cb_error
    <2>3. \/ \E z : Bare(w, z, [w.u EXCEPT !.return_code = 1]) /\ Ended(z, y)
          \/ Ended(w, y)
          \/ y = w /\ func = "read" /\ w.u.state = "OPENING"
          \/ /\ ~w.u.activated /\ status = "OBJECT_NAME_NOT_FOUND"
             /\ \E z, h : /\ h \in svc_install(w.h)
                          /\ Swapped(w, z, [w.u EXCEPT !.activated = TRUE], h)
                          /\ Opens(z, y, "ctrl")
      BY <2>1, <2>2, CtrlErrorCases
    <2> QED BY <1>1, <2>3 DEF CtrlError
  <1> DEFINE ok == status = "OK"
  <1>2. CASE func = "open" /\ y \in OpenReply(x, "ctrl", status, f)
    <2> DEFINE w == OpenRecv(x, "ctrl", ok, f)
    <2>1. y \in cb_error(w, "ctrl", "open", status)
      BY <1>2 DEF OpenReply, OpenRecv
    <2>2. Touched(x, w, "ctrl")
      <3>1. ok \in BOOLEAN /\ ~ok
        OBVIOUS
      <3> HIDE DEF ok
      <3>2. PICK p \in Name : p = "ctrl"
        BY Names
      <3>3. Touched(x, OpenRecv(x, p, ok, f), p)
        BY <3>1, OpenRecvTouches
      <3> QED BY <3>2, <3>3
    <2> HIDE DEF w
    <2> QED BY <1>1, <1>2, <2>1, <2>2
  <1>3. CASE func = "read" /\ y \in ReadReply(x, "ctrl", status, m)
    <2> DEFINE w == With(x, "ctrl", async_read_recv)
    <2>1. y \in cb_error(w, "ctrl", "read", status)
      BY <1>3 DEF ReadReply
    <2>2. Touched(x, w, "ctrl") /\ w.ac["ctrl"].io_read = x.ac["ctrl"].io_read
      BY ReadRecvTouches, Names
    <2> HIDE DEF w
    <2> QED BY <1>1, <1>3, <2>1, <2>2
  <1>4. CASE func = "write" /\ y \in WriteReply(x, "ctrl", status)
    <2> DEFINE w == WriteRecv(x, "ctrl", ok)
    <2>1. y \in cb_error(w, "ctrl", "write", status)
      BY <1>4 DEF WriteReply, WriteRecv
    <2>2. Touched(x, w, "ctrl") /\ w.ac["ctrl"].io_read = x.ac["ctrl"].io_read
      <3>1. ok \in BOOLEAN
        OBVIOUS
      <3> HIDE DEF ok
      <3> QED BY <3>1, WriteRecvTouches, Names
    <2> HIDE DEF w
    <2> QED BY <1>1, <1>4, <2>1, <2>2
  <1> QED BY <1>2, <1>3, <1>4

LEMMA CtrlWriteIs ==
    ASSUME NEW x \in Views, ContextsOK(x.ac), NEW status, status = "OK",
           NEW y \in WriteReply(x, "ctrl", status)
    PROVE  Received(x, y, "ctrl")
  <1> DEFINE ok == status = "OK"
             w == WriteRecv(x, "ctrl", ok)
  <1>1. y = w
    BY DEF WriteReply, WriteRecv
  <1>2. Touched(x, w, "ctrl") /\ w.ac["ctrl"].io_read = x.ac["ctrl"].io_read
        /\ w.ac["ctrl"].fd = x.ac["ctrl"].fd
    <2>1. ok \in BOOLEAN
      OBVIOUS
    <2> HIDE DEF ok
    <2> QED BY <2>1, WriteRecvTouches, Names
  <1> HIDE DEF w
  <1> QED BY <1>1, <1>2 DEF Received

\* on_ctrl_pipe_close
LEMMA CtrlClosedIs ==
    ASSUME NEW x \in Views, ContextsOK(x.ac), HostOK(x.h),
           NEW y \in CloseReply(x, "ctrl")
    PROVE  CtrlClosed(x, y)
  <1> DEFINE w == With(x, "ctrl", async_close_recv)
  <1>1. y \in on_ctrl_pipe_close(w)
    BY DEF CloseReply, cb_close
  <1>2. Touched(x, w, "ctrl") /\ w.ac["ctrl"].io_read = NULL
    BY CloseRecvTouches, Names
  <1> HIDE DEF w
  <1>3. w \in Views /\ ContextsOK(w.ac) /\ w.h = x.h /\ w.u \in Users
    BY <1>2 DEF Touched, Views
  <1>4. CASE w.u.state # "CLOSING_FOR_REINSTALL"
    <2>1. y = w
      BY <1>1, <1>4 DEF on_ctrl_pipe_close
    <2> QED BY <1>2, <1>4, <2>1 DEF CtrlClosed
  <1>5. CASE w.u.state = "CLOSING_FOR_REINSTALL"
    <2>1. PICK h \in Left(w.h) :
             y = With([[w EXCEPT !.u.state = "OPENING"] EXCEPT !.h = h], "ctrl", async_open)
      BY <1>1, <1>5 DEF on_ctrl_pipe_close, Left
    <2> DEFINE u == [w.u EXCEPT !.state = "OPENING"]
               z == [w EXCEPT !.u = u, !.h = h]
    <2>2. z = [[w EXCEPT !.u.state = "OPENING"] EXCEPT !.h = h]
      BY <1>3 DEF Views
    <2>3. u \in Users
      BY <1>3, UserSets DEF Codes
    <2>4. h \in Hosts
      BY <1>3, InstallOK DEF HostOK
    <2> HIDE DEF u
    <2>5. Swapped(w, z, u, h)
      BY <1>3, <2>3, <2>4, SwapIs
    <2>6. y = With(z, "ctrl", async_open)
      BY <2>1, <2>2
    <2> HIDE DEF z
    <2>7. z \in Views /\ ContextsOK(z.ac)
      BY <1>3, <2>5 DEF Swapped
    <2>8. Opens(z, y, "ctrl")
      BY <2>6, <2>7, Operations, Names
    <2> QED BY <1>2, <1>5, <2>5, <2>8 DEF CtrlClosed, u
  <1> QED BY <1>4, <1>5

\* The outcomes of completing request r with a reply.
Handled(x, y, r, status, f, m) ==
    \/ /\ status = "OK" /\ NullDeref(x.ac[r.pipe], r.kind)
       /\ Bare(x, y, [x.u EXCEPT !.fault = TRUE])
    \/ r.pipe # "ctrl" /\ IoOutcome(x, y, r.pipe)
    \/ r.pipe = "ctrl" /\ r.kind = "open" /\ status = "OK" /\ CtrlOpened(x, y, f)
    \/ r.pipe = "ctrl" /\ r.kind = "read" /\ status = "OK" /\ CtrlRead(x, y, m)
    \/ r.pipe = "ctrl" /\ r.kind = "write" /\ status = "OK" /\ Received(x, y, "ctrl")
    \/ /\ r.pipe = "ctrl" /\ r.kind \in {"open", "read", "write"} /\ status # "OK"
       /\ CtrlError(x, y, r.kind, status)
    \/ r.pipe = "ctrl" /\ r.kind = "close" /\ CtrlClosed(x, y)

\* The reply, as the arguments of the handler.
Sound(r, status, f, m) ==
    /\ status = "OK" /\ r.kind = "open" => f \in FnumFor(r.pipe)
    /\ status = "OK" /\ r.kind = "read" /\ r.pipe = "ctrl" => m \in CtrlMessages
    /\ status = "OBJECT_NAME_NOT_FOUND" => r.kind = "open"
    /\ m \in Messages

LEMMA HandleReplyIs ==
    ASSUME NEW x \in Views, ContextsOK(x.ac), HostOK(x.h), NEW r \in Requests,
           NEW status, NEW f, NEW m, Sound(r, status, f, m),
           NEW y \in HandleReply(x, r, status, f, m)
    PROVE  Handled(x, y, r, status, f, m)
  <1>1. /\ r.pipe \in Name /\ r.kind \in Kinds
        /\ r.kind = "open" \/ r.kind = "read" \/ r.kind = "write" \/ r.kind = "close"
    BY DEF Requests, Kinds
  <1>2. CASE /\ status = "OK" /\ NullDeref(x.ac[r.pipe], r.kind)
             /\ y = [x EXCEPT !.u.fault = TRUE]
    <2>1. x.u \in Users
      BY DEF Views
    <2>2. [x.u EXCEPT !.fault = TRUE] \in Users
      BY <2>1, UserSets DEF Codes
    <2>3. y = [x EXCEPT !.u = [x.u EXCEPT !.fault = TRUE]]
      BY <1>2 DEF Views
    <2> QED BY <1>2, <2>2, <2>3, BareIs DEF Handled
  <1>3. ASSUME /\ r.kind = "open" => y \in OpenReply(x, r.pipe, status, f)
               /\ r.kind = "read" => y \in ReadReply(x, r.pipe, status, m)
               /\ r.kind = "write" => y \in WriteReply(x, r.pipe, status)
               /\ r.kind = "close" => y \in CloseReply(x, r.pipe)
        PROVE  Handled(x, y, r, status, f, m)
    <2>1. CASE r.pipe # "ctrl"
      <3>2. CASE r.kind = "open"
        <4>1. y \in OpenReply(x, r.pipe, status, f) /\ (status = "OK" => f \in FnumFor(r.pipe))
          BY <1>3, <3>2 DEF Sound
        <4>2. r.pipe \in Name \ {"ctrl"} /\ m \in Messages
          BY <1>1, <2>1 DEF Sound
        <4>3. IoOutcome(x, y, r.pipe)
          BY <4>1, <4>2, IoReply
        <4> QED BY <2>1, <4>3 DEF Handled
      <3>3. CASE r.kind # "open"
        <4>1. \/ y \in ReadReply(x, r.pipe, status, m)
              \/ y \in WriteReply(x, r.pipe, status)
              \/ y \in CloseReply(x, r.pipe)
          BY <1>1, <1>3, <3>3
        <4>2. r.pipe \in Name \ {"ctrl"} /\ m \in Messages
          BY <1>1, <2>1 DEF Sound
        <4>3. PICK g : g \in FnumFor(r.pipe)
          BY <1>1, Names DEF FnumFor
        <4>4. IoOutcome(x, y, r.pipe)
          BY <4>1, <4>2, <4>3, IoReply
        <4> QED BY <2>1, <4>4 DEF Handled
      <3> QED BY <3>2, <3>3
    <2>2. CASE r.pipe = "ctrl" /\ r.kind = "open"
      <3>1. y \in OpenReply(x, "ctrl", status, f)
        BY <1>3, <2>2
      <3>2. CASE status = "OK"
        BY <2>2, <3>1, <3>2, CtrlOpenIs DEF Handled, Sound
      <3>3. CASE status # "OK"
        <4>1. CtrlError(x, y, "open", status)
          BY <3>1, <3>3, CtrlErrorIs
        <4> QED BY <2>2, <3>3, <4>1 DEF Handled
      <3> QED BY <3>2, <3>3
    <2>3. CASE r.pipe = "ctrl" /\ r.kind = "read"
      <3>1. y \in ReadReply(x, "ctrl", status, m)
        BY <1>3, <2>3
      <3>2. CASE status = "OK"
        BY <2>3, <3>1, <3>2, CtrlReadIs DEF Handled, Sound
      <3>3. CASE status # "OK"
        <4>1. CtrlError(x, y, "read", status)
          BY <3>1, <3>3, CtrlErrorIs
        <4> QED BY <2>3, <3>3, <4>1 DEF Handled
      <3> QED BY <3>2, <3>3
    <2>4. CASE r.pipe = "ctrl" /\ r.kind = "write"
      <3>1. y \in WriteReply(x, "ctrl", status)
        BY <1>3, <2>4
      <3>2. CASE status = "OK"
        BY <2>4, <3>1, <3>2, CtrlWriteIs DEF Handled
      <3>3. CASE status # "OK"
        <4>1. CtrlError(x, y, "write", status)
          BY <3>1, <3>3, CtrlErrorIs
        <4> QED BY <2>4, <3>3, <4>1 DEF Handled
      <3> QED BY <3>2, <3>3
    <2>5. CASE r.pipe = "ctrl" /\ r.kind = "close"
      <3>1. y \in CloseReply(x, "ctrl")
        BY <1>3, <2>5
      <3> QED BY <2>5, <3>1, CtrlClosedIs DEF Handled
    <2> QED BY <1>1, <2>1, <2>2, <2>3, <2>4, <2>5
  <1> QED BY <1>2, <1>3, HandleCases

-----------------------------------------------------------------------------
\* Every outcome leaves a view in order.
LEMMA StepsGood ==
    ASSUME NEW S, NEW R, Server(S, R), NEW x, Good(x, S, R), NEW y, NEW p \in Name
    PROVE  /\ ReadsOn(x, y, p) => Good(y, S, R)
           /\ Closes(x, y, p) => Good(y, S, R)
           /\ Opens(x, y, p) => Good(y, S, R)
           /\ \A d : Writes(x, y, p, d) => Good(y, S, R)
           /\ Touched(x, y, p) => Good(y, S, R)
           /\ Received(x, y, p) => Good(y, S, R)
           /\ Ended(x, y) => Good(y, S, R)
           /\ \A u : Bare(x, y, u) => Good(y, S, R)
           /\ \A u, h : Swapped(x, y, u, h) /\ HostOK(h) => Good(y, S, R)
  <1>1. ReadsOn(x, y, p) => Good(y, S, R)
    BY PostedGood DEF ReadsOn
  <1>2. Closes(x, y, p) => Good(y, S, R)
    BY PostedGood DEF Closes
  <1>3. Opens(x, y, p) => Good(y, S, R)
    BY PostedGood DEF Opens
  <1>4. \A d : Writes(x, y, p, d) => Good(y, S, R)
    BY PostedGood DEF Writes
  <1>5. Touched(x, y, p) => Good(y, S, R)
    BY TouchedGood
  <1>6. Received(x, y, p) => Good(y, S, R)
    BY TouchedGood DEF Received
  <1>7. Ended(x, y) => Good(y, S, R)
    BY EndedGood
  <1>8. \A u : Bare(x, y, u) => Good(y, S, R)
    BY BareGood
  <1>9. \A u, h : Swapped(x, y, u, h) /\ HostOK(h) => Good(y, S, R)
    BY DEF Swapped, Good
  <1> QED BY <1>1, <1>2, <1>3, <1>4, <1>5, <1>6, <1>7, <1>8, <1>9

LEMMA HandledGood ==
    ASSUME NEW S, NEW R, Server(S, R), NEW x, Good(x, S, R), NEW y, NEW r \in Requests,
           NEW status, NEW f, NEW m, Handled(x, y, r, status, f, m)
    PROVE  Good(y, S, R)
  <1>1. r.pipe \in Name
    BY DEF Requests
  <1>2. CASE Bare(x, y, [x.u EXCEPT !.fault = TRUE])
    BY <1>2, BareGood
  <1>3. ASSUME NEW p \in Name, IoOutcome(x, y, p) PROVE Good(y, S, R)
    <2>1. CASE Touched(x, y, p)
      BY <2>1, StepsGood
    <2>2. CASE \E w, z : /\ Touched(x, w, p)
                         /\ \E u \in Users : Bare(w, z, u) /\ Aside(w.u, u)
                         /\ ReadsOn(z, y, p)
      <3>1. PICK w, z : /\ Touched(x, w, p)
                        /\ \E u \in Users : Bare(w, z, u)
                        /\ ReadsOn(z, y, p)
        BY <2>2
      <3>2. Good(w, S, R)
        BY <3>1, StepsGood
      <3>3. Good(z, S, R)
        BY <3>1, <3>2, StepsGood
      <3> QED BY <3>1, <3>3, StepsGood
    <2>3. CASE \E w : Touched(x, w, p) /\ Closes(w, y, p)
      <3>1. PICK w : Touched(x, w, p) /\ Closes(w, y, p)
        BY <2>3
      <3>2. Good(w, S, R)
        BY <3>1, StepsGood
      <3> QED BY <3>1, <3>2, StepsGood
    <2> QED BY <1>3, <2>1, <2>2, <2>3 DEF IoOutcome
  <1>4. CASE CtrlOpened(x, y, f)
    <2>1. PICK w, z, v : /\ Touched(x, w, "ctrl")
                         /\ \E u : Bare(w, z, u)
                         /\ Writes(z, v, "ctrl", <<"get version">>)
                         /\ ReadsOn(v, y, "ctrl")
      BY <1>4 DEF CtrlOpened
    <2>2. Good(w, S, R)
      BY <2>1, StepsGood, Names
    <2>3. Good(z, S, R)
      BY <2>1, <2>2, StepsGood, Names
    <2>4. Good(v, S, R)
      BY <2>1, <2>3, StepsGood, Names
    <2> QED BY <2>1, <2>4, StepsGood, Names
  <1>5. CASE CtrlRead(x, y, m)
    <2>1. PICK w, z : /\ Received(x, w, "ctrl")
                      /\ \/ CtrlPipes(w, z)
                         \/ CtrlCode(w, z, m)
                         \/ CtrlRun(w, z, m)
                         \/ CtrlReplace(w, z, m)
                         \/ z = w
                      /\ ReadsOn(z, y, "ctrl")
      BY <1>5 DEF CtrlRead
    <2>2. Good(w, S, R)
      BY <2>1, StepsGood, Names
    <2>3. CASE CtrlPipes(w, z)
      <3>1. PICK a, b, c : /\ Touched(w, a, "io") /\ Opens(a, b, "io")
                           /\ Touched(b, c, "err") /\ Opens(c, z, "err")
        BY <2>3 DEF CtrlPipes
      <3>2. Good(a, S, R)
        BY <2>2, <3>1, StepsGood, Names
      <3>3. Good(b, S, R)
        BY <3>1, <3>2, StepsGood, Names
      <3>4. Good(c, S, R)
        BY <3>1, <3>3, StepsGood, Names
      <3>5. Good(z, S, R)
        BY <3>1, <3>4, StepsGood, Names
      <3> QED BY <2>1, <3>5, StepsGood, Names
    <2>4. CASE CtrlCode(w, z, m)
      <3>1. Good(z, S, R)
        BY <2>2, <2>4, StepsGood, Names DEF CtrlCode
      <3> QED BY <2>1, <3>1, StepsGood, Names
    <2>5. CASE CtrlRun(w, z, m)
      <3>1. PICK v : Writes(w, v, "ctrl", Setup \o <<"run">>) /\ \E u : Bare(v, z, u)
        BY <2>5 DEF CtrlRun
      <3>2. Good(v, S, R)
        BY <2>2, <3>1, StepsGood, Names
      <3>3. Good(z, S, R)
        BY <3>1, <3>2, StepsGood, Names
      <3> QED BY <2>1, <3>3, StepsGood, Names
    <2>6. CASE CtrlReplace(w, z, m)
      <3>1. PICK v : Closes(w, v, "ctrl") /\ \E u : Bare(v, z, u)
        BY <2>6 DEF CtrlReplace
      <3>2. Good(v, S, R)
        BY <2>2, <3>1, StepsGood, Names
      <3>3. Good(z, S, R)
        BY <3>1, <3>2, StepsGood, Names
      <3> QED BY <2>1, <3>3, StepsGood, Names
    <2>7. CASE z = w
      BY <2>1, <2>2, <2>7, StepsGood, Names
    <2> QED BY <2>1, <2>3, <2>4, <2>5, <2>6, <2>7
  <1>6. CASE Received(x, y, "ctrl")
    BY <1>6, StepsGood, Names
  <1>7. CASE CtrlError(x, y, r.kind, status)
    <2>1. PICK w : /\ Touched(x, w, "ctrl")
                   /\ \/ \E z : (\E u : Bare(w, z, u)) /\ Ended(z, y)
                      \/ Ended(w, y)
                      \/ y = w
                      \/ \E z, h : /\ h \in svc_install(w.h)
                                   /\ \E u : Swapped(w, z, u, h)
                                   /\ Opens(z, y, "ctrl")
      BY <1>7 DEF CtrlError
    <2>2. Good(w, S, R) /\ HostOK(w.h)
      BY <2>1, StepsGood, Names DEF Good
    <2>3. ASSUME NEW z, \E u : Bare(w, z, u), Ended(z, y) PROVE Good(y, S, R)
      <3>1. Good(z, S, R)
        BY <2>2, <2>3, StepsGood, Names
      <3> QED BY <2>3, <3>1, StepsGood, Names
    <2>4. ASSUME NEW z, NEW h \in svc_install(w.h), \E u : Swapped(w, z, u, h), Opens(z, y, "ctrl")
          PROVE  Good(y, S, R)
      <3>1. HostOK(h)
        BY <2>2, InstallOK
      <3>2. Good(z, S, R)
        BY <2>2, <2>4, <3>1, StepsGood, Names
      <3> QED BY <2>4, <3>2, StepsGood, Names
    <2>5. Ended(w, y) => Good(y, S, R)
      BY <2>2, StepsGood, Names
    <2> QED BY <2>1, <2>2, <2>3, <2>4, <2>5
  <1>8. CASE CtrlClosed(x, y)
    <2>1. PICK w : /\ Touched(x, w, "ctrl")
                   /\ \/ y = w
                      \/ \E z, h : /\ h \in Left(w.h)
                                   /\ \E u : Swapped(w, z, u, h)
                                   /\ Opens(z, y, "ctrl")
      BY <1>8 DEF CtrlClosed
    <2>2. Good(w, S, R) /\ HostOK(w.h)
      BY <2>1, StepsGood, Names DEF Good
    <2>3. ASSUME NEW z, NEW h \in Left(w.h), \E u : Swapped(w, z, u, h), Opens(z, y, "ctrl")
          PROVE  Good(y, S, R)
      <3>1. HostOK(h)
        BY <2>2, InstallOK
      <3>2. Good(z, S, R)
        BY <2>2, <2>3, <3>1, StepsGood, Names
      <3> QED BY <2>3, <3>2, StepsGood, Names
    <2> QED BY <2>1, <2>2, <2>3
  <1> QED BY <1>1, <1>2, <1>3, <1>4, <1>5, <1>6, <1>7, <1>8 DEF Handled

-----------------------------------------------------------------------------
(***************************************************************************)
(* The inductive invariant behind the types and OneLinePerRead.            *)
(***************************************************************************)

\* Handles lead to pipes of their name, and only reads of open pipes wait.
ServerOK ==
    /\ smb \in [fid : [Fnum -> PipeId \cup {NoPipe}], parked : SUBSET Requests]
    /\ replies \in Seq(Replies)
    /\ \A n \in Name : \A f \in FnumFor(n) : smb.fid[f] # NoPipe => smb.fid[f][1] = n
    /\ \A r \in smb.parked :
          Addressed(r) /\ r.kind = "read" /\ r.fnum \in Fnum /\ smb.fid[r.fnum] # NoPipe

LInv == Good(View, smb.parked, replies) /\ ServerOK

\* Some of the replies, and some of the parked requests, are gone.
Within(P, R) == \A i \in DOMAIN P : \E j \in DOMAIN R : P[i] = R[j]

LEMMA TailWithin ==
    ASSUME NEW T, NEW s \in Seq(T), s # <<>>
    PROVE  /\ Tail(s) \in Seq(T) /\ Within(Tail(s), s)
           /\ Head(s) \in T /\ Head(s) = s[1] /\ 1 \in DOMAIN s
           /\ \A i \in DOMAIN Tail(s) : i + 1 \in DOMAIN s /\ Tail(s)[i] = s[i + 1] /\ i \in Nat
           /\ \A i \in DOMAIN s : i # 1 => i - 1 \in DOMAIN Tail(s) /\ Tail(s)[i - 1] = s[i]
  <1>1. /\ Tail(s) \in Seq(T) /\ Head(s) \in T /\ Head(s) = s[1] /\ 1 \in DOMAIN s
        /\ \A i \in DOMAIN Tail(s) : i + 1 \in DOMAIN s /\ Tail(s)[i] = s[i + 1] /\ i \in Nat
        /\ \A i \in DOMAIN s : i # 1 => i - 1 \in DOMAIN Tail(s) /\ Tail(s)[i - 1] = s[i]
    OBVIOUS
  <1> QED BY <1>1 DEF Within

LEMMA NoneWithin == \A R : Within(<<>>, R)
  BY DEF Within

LEMMA ShrunkSequenced ==
    ASSUME NEW t, NEW S, NEW R, NEW Q, NEW P, Sequenced(t, S, R),
           Q \subseteq S, Within(P, R)
    PROVE  Sequenced(t, Q, P)
  <1>1. Placed(t, Q, P)
    BY DEF Sequenced, Placed, Within
  <1>2. ASSUME NEW r \in t.pending_recv PROVE Known(t, Q, P, r)
    <2>1. Known(t, S, R, r)
      BY DEF Sequenced
    <2> QED BY <2>1 DEF Known, Within
  <1> QED BY <1>1, <1>2 DEF Sequenced

LEMMA ShrunkGood ==
    ASSUME NEW x, NEW S, NEW R, NEW Q, NEW P, Good(x, S, R), Q \subseteq S, Within(P, R)
    PROVE  Good(x, Q, P)
  BY ShrunkSequenced DEF Good

LEMMA ServerTypes ==
    ASSUME ServerOK
    PROVE  /\ Server(smb.parked, replies)
           /\ smb.fid \in [Fnum -> PipeId \cup {NoPipe}] /\ smb.parked \subseteq Requests
           /\ replies \in Seq(Replies)
  BY DEF ServerOK, Server

LEMMA ViewFields ==
    /\ View.ac = ac /\ View.t = transport /\ View.u = user /\ View.h = host
    /\ View.ac' = ac' /\ View.t' = transport' /\ View.u' = user' /\ View.h' = host'
  BY DEF View

LEMMA ViewNow ==
    ASSUME NEW y \in Views, Become(y)
    PROVE  View' = y
  BY DEF View, Become, Views

\* The view in which the handler of r is called.
Minus(r) == [View EXCEPT !.t.pending_recv = @ \ {r}]

LEMMA MinusIs ==
    ASSUME LInv, NEW r
    PROVE  /\ Minus(r) \in Views
           /\ Minus(r).ac = ac /\ Minus(r).u = user /\ Minus(r).h = host
           /\ Minus(r).t = [transport EXCEPT !.pending_recv = @ \ {r}]
           /\ Minus(r).t.pending_recv = transport.pending_recv \ {r}
           /\ Minus(r).t.wire = transport.wire
           /\ Minus(r).t.next_mid = transport.next_mid
           /\ Minus(r).t.dead = transport.dead
           /\ Minus(r).t.request_timeout = transport.request_timeout
  <1> DEFINE t == [transport EXCEPT !.pending_recv = @ \ {r}]
  <1>1. View \in Views /\ transport \in Transports
    BY ViewFields DEF LInv, Good, Views
  <1>2. /\ t \in Transports /\ t.pending_recv = transport.pending_recv \ {r}
        /\ t.wire = transport.wire /\ t.next_mid = transport.next_mid /\ t.dead = transport.dead
        /\ t.request_timeout = transport.request_timeout
    BY <1>1 DEF Transports
  <1>3. Minus(r) = [View EXCEPT !.t = t]
    BY <1>1, ViewFields DEF Minus, Views
  <1> HIDE DEF t
  <1>4. /\ Minus(r) \in Views /\ Minus(r).t = t /\ Minus(r).ac = View.ac
        /\ Minus(r).u = View.u /\ Minus(r).h = View.h
    BY <1>1, <1>2, <1>3 DEF Views
  <1> QED BY <1>2, <1>4, ViewFields DEF t

LEMMA MinusGood ==
    ASSUME LInv, NEW r
    PROVE  Good(Minus(r), smb.parked, replies)
  <1> DEFINE x == Minus(r)
             S == smb.parked
             R == replies
  <1>1. /\ x \in Views /\ x.ac = ac /\ x.h = host
        /\ x.t.pending_recv \subseteq transport.pending_recv
        /\ x.t.wire = transport.wire /\ x.t.next_mid = transport.next_mid
    BY MinusIs
  <1>2. /\ ContextsOK(ac) /\ HostOK(host) /\ Own(ac, transport)
        /\ Sequenced(transport, S, R)
    BY ViewFields DEF LInv, Good
  <1> HIDE DEF x, S, R
  <1>3. Own(ac, x.t)
    BY <1>1, <1>2 DEF Own
  <1>4. Placed(x.t, S, R)
    BY <1>1, <1>2 DEF Sequenced, Placed
  <1>5. ASSUME NEW q \in x.t.pending_recv PROVE Known(x.t, S, R, q)
    <2>1. Known(transport, S, R, q)
      BY <1>1, <1>2 DEF Sequenced
    <2> QED BY <1>1, <2>1 DEF Known
  <1>6. Good(x, S, R)
    BY <1>1, <1>2, <1>3, <1>4, <1>5 DEF Good, Sequenced
  <1> QED BY <1>6 DEF x, S, R

LEMMA CompleteIs ==
    ASSUME LInv, NEW r \in transport.pending_recv, NEW status, NEW f, NEW m,
           Sound(r, status, f, m), Complete(r, status, f, m)
    PROVE  /\ Handled(Minus(r), View', r, status, f, m)
           /\ Good(View', smb.parked, replies)
  <1>1. PICK y \in HandleReply(Minus(r), r, status, f, m) : Become(y)
    BY DEF Complete, Minus
  <1>2. Good(Minus(r), smb.parked, replies) /\ Server(smb.parked, replies)
    BY MinusGood, ServerTypes DEF LInv
  <1>3. Minus(r) \in Views /\ ContextsOK(Minus(r).ac) /\ HostOK(Minus(r).h)
    BY <1>2 DEF Good
  <1>4. r \in Requests
    <2>1. transport \in Transports
      BY ViewFields DEF LInv, Good, Views
    <2> QED BY <2>1 DEF Transports
  <1>5. Handled(Minus(r), y, r, status, f, m)
    BY <1>1, <1>3, <1>4, HandleReplyIs
  <1>6. Good(y, smb.parked, replies)
    BY <1>2, <1>4, <1>5, HandledGood
  <1>7. View' = y
    BY <1>1, <1>6, ViewNow DEF Good
  <1> QED BY <1>5, <1>6, <1>7

\* What a reply that is received says to its request.
LEMMA ReplySound ==
    ASSUME LInv, replies # <<>>, NEW r \in transport.pending_recv,
           r.mid = Head(replies).mid
    PROVE  Sound(r, Head(replies).status, Head(replies).fnum, Head(replies).msg)
  <1>1. replies \in Seq(Replies)
    BY DEF LInv, ServerOK
  <1>2. Head(replies) \in Replies /\ Head(replies) = replies[1] /\ 1 \in DOMAIN replies
    BY <1>1, TailWithin
  <1>3. Known(transport, smb.parked, replies, r)
    BY ViewFields DEF LInv, Good, Sequenced
  <1>4. Fits(r, Head(replies))
    BY <1>2, <1>3 DEF Known
  <1>5. Head(replies).msg \in Messages
    BY <1>2 DEF Replies
  <1> QED BY <1>4, <1>5 DEF Fits, Sound

LEMMA ErrorSound == \A r : Sound(r, "ERROR", NULL, NoMsg)
  BY DEF Sound, Messages, NoMsg, Msg

-----------------------------------------------------------------------------
(***************************************************************************)
(* The steps of the client.                                                *)
(***************************************************************************)

\* A step of the client that leaves the server's part of the invariant alone.
LEMMA ClientStep ==
    ASSUME LInv, UNCHANGED smb, Good(View', smb.parked, replies),
           replies' \in Seq(Replies), Within(replies', replies)
    PROVE  LInv'
  <1>2. Good(View', smb.parked, replies')
    BY ShrunkGood
  <1>3. ServerOK'
    BY DEF LInv, ServerOK
  <1> QED BY <1>2, <1>3 DEF LInv

LEMMA FinishRecvOK ==
    ASSUME LInv, smbcli_transport_finish_recv
    PROVE  LInv'
  <1>1. replies # <<>> /\ replies \in Seq(Replies) /\ UNCHANGED smb
    BY DEF smbcli_transport_finish_recv, LInv, ServerOK
  <1>2. replies' \in Seq(Replies) /\ Within(replies', replies)
    <2>1. replies' = <<>> \/ replies' = Tail(replies)
      BY DEF smbcli_transport_finish_recv
    <2>2. <<>> \in Seq(Replies)
      OBVIOUS
    <2> QED BY <1>1, <2>1, <2>2, TailWithin, NoneWithin
  <1>3. Good(View', smb.parked, replies)
    <2>1. CASE UNCHANGED <<ac, transport, user, host>>
      BY <2>1 DEF LInv, View
    <2>2. CASE \E r \in transport.pending_recv :
                  /\ r.mid = Head(replies).mid
                  /\ Complete(r, Head(replies).status, Head(replies).fnum, Head(replies).msg)
      BY <1>1, <2>2, ReplySound, CompleteIs
    <2> QED BY <2>1, <2>2 DEF smbcli_transport_finish_recv
  <1> QED BY <1>1, <1>2, <1>3, ClientStep

LEMMA TimeoutOK ==
    ASSUME LInv, smbcli_timeout_handler
    PROVE  LInv'
  <1>1. replies \in Seq(Replies) /\ UNCHANGED smb
    BY DEF smbcli_timeout_handler, LInv, ServerOK
  <1>2. replies' \in Seq(Replies) /\ Within(replies', replies)
    <2>1. replies' = <<>> \/ replies' = replies
      BY DEF smbcli_timeout_handler
    <2>2. <<>> \in Seq(Replies) /\ Within(replies, replies)
      BY DEF Within
    <2> QED BY <1>1, <2>1, <2>2, NoneWithin
  <1>3. PICK r \in transport.pending_recv : Complete(r, "ERROR", NULL, NoMsg)
    BY DEF smbcli_timeout_handler
  <1>4. Good(View', smb.parked, replies)
    BY <1>3, ErrorSound, CompleteIs
  <1> QED BY <1>1, <1>2, <1>4, ClientStep

LEMMA TransportDeadOK ==
    ASSUME LInv, smbcli_transport_dead
    PROVE  LInv'
  <1>1. UNCHANGED <<smb, replies>> /\ replies \in Seq(Replies)
    BY DEF smbcli_transport_dead, LInv, ServerOK
  <1>2. PICK r \in transport.pending_recv : Complete(r, "ERROR", NULL, NoMsg)
    BY DEF smbcli_transport_dead
  <1>3. Good(View', smb.parked, replies)
    BY <1>2, ErrorSound, CompleteIs
  <1>4. Within(replies', replies) /\ replies' \in Seq(Replies)
    <2>1. Within(replies, replies)
      BY DEF Within
    <2> QED BY <1>1, <2>1
  <1> QED BY <1>1, <1>3, <1>4, ClientStep

\* Only the transport's wire is emptied (and the connection marked dead).
LEMMA WireGone ==
    ASSUME LInv, UNCHANGED <<ac, user, host>>,
           \/ transport' = [transport EXCEPT !.dead = TRUE, !.wire = <<>>]
           \/ transport' = [transport EXCEPT !.wire = <<>>]
    PROVE  Good(View', smb.parked, replies)
  <1>1. View \in Views /\ transport \in Transports
    BY ViewFields DEF LInv, Good, Views
  <1>2. /\ transport' \in Transports /\ transport'.wire = <<>>
        /\ transport'.next_mid = transport.next_mid
        /\ transport'.pending_recv = transport.pending_recv
    <2>1. <<>> \in Seq(Requests)
      OBVIOUS
    <2>2. CASE transport' = [transport EXCEPT !.dead = TRUE, !.wire = <<>>]
      BY <1>1, <2>1, <2>2 DEF Transports
    <2>3. CASE transport' = [transport EXCEPT !.wire = <<>>]
      BY <1>1, <2>1, <2>3 DEF Transports
    <2> QED BY <2>2, <2>3
  <1>3. View' \in Views
    BY <1>1, <1>2 DEF View, Views
  <1>4. Sequenced(transport', smb.parked, replies)
    <2>1. Sequenced(transport, smb.parked, replies)
      BY ViewFields DEF LInv, Good
    <2>2. Placed(transport', smb.parked, replies)
      BY <1>2, <2>1 DEF Sequenced, Placed
    <2>3. ASSUME NEW r \in transport.pending_recv PROVE Known(transport', smb.parked, replies, r)
      <3>1. Known(transport, smb.parked, replies, r)
        BY <2>1 DEF Sequenced
      <3> QED BY <1>2, <3>1 DEF Known
    <2> QED BY <1>2, <2>2, <2>3 DEF Sequenced
  <1>5. Own(ac', transport')
    BY <1>2, ViewFields DEF LInv, Good, Own
  <1> QED BY <1>3, <1>4, <1>5, ViewFields DEF LInv, Good

LEMMA SockDeadOK ==
    ASSUME LInv, smbcli_sock_dead
    PROVE  LInv'
  <1>1. /\ UNCHANGED <<ac, user, host, smb>> /\ replies' = <<>>
        /\ transport' = [transport EXCEPT !.dead = TRUE, !.wire = <<>>]
    BY DEF smbcli_sock_dead
  <1>2. Good(View', smb.parked, replies)
    BY <1>1, WireGone
  <1>3. replies' \in Seq(Replies) /\ Within(replies', replies)
    BY <1>1, NoneWithin
  <1> QED BY <1>1, <1>2, <1>3, ClientStep

LEMMA SignalOK ==
    ASSUME LInv, signal
    PROVE  LInv'
  <1>1. View \in Views /\ user \in Users /\ Good(View, smb.parked, replies)
        /\ Server(smb.parked, replies) /\ replies \in Seq(Replies) /\ UNCHANGED smb
    BY ViewFields, ServerTypes DEF LInv, Good, Views, signal
  <1>2. CASE user.handler
    <2> DEFINE u == [user EXCEPT !.abort_requested = TRUE, !.handler = FALSE]
               y == [View EXCEPT !.u = u]
    <2>1. y = [View EXCEPT !.u.abort_requested = TRUE, !.u.handler = FALSE]
      BY <1>1, ViewFields DEF Views
    <2>2. Become(y) /\ replies' = replies
      BY <1>2, <2>1 DEF signal
    <2>3. u \in Users
      BY <1>1, UserSets DEF Codes
    <2> HIDE DEF u
    <2>4. Bare(View, y, u)
      BY <1>1, <2>3, BareIs
    <2> HIDE DEF y
    <2>5. Good(y, smb.parked, replies)
      BY <1>1, <2>4, BareGood
    <2>6. View' = y
      BY <2>2, <2>5, ViewNow DEF Good
    <2>7. Within(replies, replies)
      BY DEF Within
    <2> QED BY <1>1, <2>2, <2>5, <2>6, <2>7, ClientStep
  <1>3. CASE ~user.handler
    <2> DEFINE e == Exit(View)
               u == [e.u EXCEPT !.killed = TRUE]
               y == [e EXCEPT !.u = u]
    <2>1. Ended(View, e)
      BY <1>1, ExitEnds
    <2>2. Become([e EXCEPT !.u.killed = TRUE]) /\ replies' = <<>>
      BY <1>3 DEF signal
    <2> HIDE DEF e
    <2>3. e \in Views /\ e.u \in Users
      BY <2>1 DEF Ended, Views
    <2>4. y = [e EXCEPT !.u.killed = TRUE]
      BY <2>3 DEF Views
    <2>5. u \in Users
      BY <2>3, UserSets DEF Codes
    <2> HIDE DEF u
    <2>6. Bare(e, y, u)
      BY <2>3, <2>5, BareIs
    <2> HIDE DEF y
    <2>7. Good(e, smb.parked, replies)
      BY <1>1, <2>1, EndedGood
    <2>8. Good(y, smb.parked, replies)
      BY <2>6, <2>7, BareGood
    <2>9. View' = y
      BY <2>2, <2>4, <2>8, ViewNow DEF Good
    <2>10. replies' \in Seq(Replies) /\ Within(replies', replies)
      BY <2>2, NoneWithin
    <2> QED BY <1>1, <2>8, <2>9, <2>10, ClientStep
  <1> QED BY <1>2, <1>3

\* timer and on_stdin_read_event: a field of the user changes, lines are written.
LEMMA WriteStep ==
    ASSUME LInv, NEW u \in Users, NEW p \in Name, NEW d \in Seq(ClientLines),
           Become(Write([View EXCEPT !.u = u], p, d)), UNCHANGED <<smb, replies>>
    PROVE  /\ LInv'
           /\ \E z : Bare(View, z, u) /\ Writes(z, View', p, d)
  <1> DEFINE z == [View EXCEPT !.u = u]
             y == Write(z, p, d)
  <1>1. View \in Views /\ Good(View, smb.parked, replies)
        /\ Server(smb.parked, replies) /\ replies \in Seq(Replies)
    BY ServerTypes DEF LInv, Good
  <1>2. Bare(View, z, u)
    BY <1>1, BareIs
  <1> HIDE DEF z
  <1>3. Good(z, smb.parked, replies)
    BY <1>1, <1>2, BareGood
  <1>4. Writes(z, y, p, d)
    BY <1>3, Operations DEF Good
  <1>5. Become(y)
    BY DEF z
  <1> HIDE DEF y
  <1>6. Good(y, smb.parked, replies)
    BY <1>1, <1>3, <1>4, StepsGood
  <1>7. View' = y
    BY <1>5, <1>6, ViewNow DEF Good
  <1>8. Within(replies, replies)
    BY DEF Within
  <1>9. LInv'
    BY <1>1, <1>6, <1>7, <1>8, ClientStep
  <1> QED BY <1>2, <1>4, <1>7, <1>9

\* What timer changes of the user's state.
Fired == [user EXCEPT !.timers = @ - 1, !.aborted = @ \/ user.state = "RUNNING"]

LEMMA TimerIs ==
    ASSUME LInv, timer
    PROVE  /\ LInv'
           /\ Fired \in Users /\ UNCHANGED <<smb, replies>> /\ user.timers > 0
           /\ \E z : Bare(View, z, Fired) /\ Writes(z, View', "ctrl", <<"abort">>)
  <1>1. View \in Views /\ user \in Users
    BY ViewFields DEF LInv, Good, Views
  <1>2. Fired \in Users /\ user.timers > 0
    <2>1. user.timers > 0
      BY DEF timer
    <2>2. user.timers - 1 \in Nat /\ (user.aborted \/ user.state = "RUNNING") \in BOOLEAN
      BY <1>1, <2>1 DEF Users
    <2> QED BY <1>1, <2>1, <2>2 DEF Fired, Users
  <1>3. [View EXCEPT !.u = Fired] =
           [View EXCEPT !.u.timers = @ - 1, !.u.aborted = @ \/ user.state = "RUNNING"]
    BY <1>1, ViewFields DEF Views, Fired
  <1>4. /\ Become(Write([View EXCEPT !.u = Fired], "ctrl", <<"abort">>))
        /\ UNCHANGED <<smb, replies>>
    BY <1>3 DEF timer
  <1>5. <<"abort">> \in Seq(ClientLines) /\ "ctrl" \in Name
    <2>1. \A l \in ClientLines : <<l>> \in Seq(ClientLines)
      OBVIOUS
    <2>2. "abort" \in ClientLines
      BY DEF ClientLines
    <2> QED BY <2>1, <2>2, Names
  <1> QED BY <1>2, <1>4, <1>5, WriteStep

Typed == [user EXCEPT !.stdin = @ - 1]

LEMMA StdinIs ==
    ASSUME LInv, on_stdin_read_event
    PROVE  /\ LInv'
           /\ Typed \in Users /\ UNCHANGED <<smb, replies>> /\ user.stdin > 0
           /\ \E z : Bare(View, z, Typed) /\ Writes(z, View', "io", <<"input">>)
  <1>1. View \in Views /\ user \in Users
    BY ViewFields DEF LInv, Good, Views
  <1>2. Typed \in Users /\ user.stdin > 0
    <2>1. user.stdin > 0
      BY DEF on_stdin_read_event
    <2>2. user.stdin - 1 \in Nat
      BY <1>1, <2>1 DEF Users
    <2> QED BY <1>1, <2>1, <2>2 DEF Typed, Users
  <1>3. [View EXCEPT !.u = Typed] = [View EXCEPT !.u.stdin = @ - 1]
    BY <1>1, ViewFields DEF Views, Typed
  <1>4. /\ Become(Write([View EXCEPT !.u = Typed], "io", <<"input">>))
        /\ UNCHANGED <<smb, replies>>
    BY <1>3 DEF on_stdin_read_event
  <1>5. <<"input">> \in Seq(ClientLines) /\ "io" \in Name
    <2>1. \A l \in ClientLines : <<l>> \in Seq(ClientLines)
      OBVIOUS
    <2>2. "input" \in ClientLines
      BY DEF ClientLines
    <2> QED BY <2>1, <2>2, Names
  <1> QED BY <1>2, <1>4, <1>5, WriteStep

LEMMA ClientOK ==
    ASSUME LInv, Client
    PROVE  LInv'
  BY FinishRecvOK, TimeoutOK, SockDeadOK, TransportDeadOK, SignalOK, TimerIs, StdinIs DEF Client

-----------------------------------------------------------------------------
(***************************************************************************)
(* The steps of the SMB server.                                            *)
(***************************************************************************)

\* The first packet of the wire has been taken.
Taken(t, s) ==
    /\ s.wire = Tail(t.wire) /\ s.pending_recv = t.pending_recv /\ s.next_mid = t.next_mid

LEMMA TakenIs ==
    ASSUME NEW t \in Transports, t.wire # <<>>
    PROVE  /\ [t EXCEPT !.wire = Tail(@)] \in Transports
           /\ Taken(t, [t EXCEPT !.wire = Tail(@)])
           /\ [t EXCEPT !.wire = Tail(@)].dead = t.dead
           /\ [t EXCEPT !.wire = Tail(@)].request_timeout = t.request_timeout
  <1>1. t.wire \in Seq(Requests)
    BY DEF Transports
  <1>2. Tail(t.wire) \in Seq(Requests)
    BY <1>1
  <1> QED BY <1>2 DEF Transports, Taken

\* Tail and element facts of a wire in order.
LEMMA WireFacts ==
    ASSUME NEW t \in Transports, t.wire # <<>>, NEW S, NEW R, Sequenced(t, S, R), NEW s, Taken(t, s)
    PROVE  /\ Head(t.wire) \in Requests /\ Head(t.wire) = t.wire[1] /\ 1 \in DOMAIN t.wire
           /\ Addressed(Head(t.wire)) /\ Head(t.wire).mid < t.next_mid
           /\ \A i \in DOMAIN s.wire : i + 1 \in DOMAIN t.wire /\ s.wire[i] = t.wire[i + 1] /\ i \in Nat
           /\ \A i \in DOMAIN s.wire : s.wire[i].mid # Head(t.wire).mid
           /\ \A i, j \in DOMAIN s.wire : s.wire[i].mid = s.wire[j].mid => i = j
           /\ \A i \in DOMAIN s.wire : s.wire[i].mid < t.next_mid /\ Addressed(s.wire[i])
           /\ \A q \in S : q.mid # Head(t.wire).mid
           /\ \A j \in DOMAIN R : R[j].mid # Head(t.wire).mid
           /\ \A q \in t.pending_recv : q.mid = Head(t.wire).mid => q = Head(t.wire)
  <1>1. t.wire \in Seq(Requests) /\ s.wire = Tail(t.wire) /\ Placed(t, S, R)
    BY DEF Transports, Taken, Sequenced
  <1>2. /\ Head(t.wire) \in Requests /\ Head(t.wire) = t.wire[1] /\ 1 \in DOMAIN t.wire
        /\ \A i \in DOMAIN s.wire : i + 1 \in DOMAIN t.wire /\ s.wire[i] = t.wire[i + 1] /\ i \in Nat
        /\ \A i \in DOMAIN s.wire : i + 1 # 1
    <2>1. /\ Head(t.wire) \in Requests /\ Head(t.wire) = t.wire[1] /\ 1 \in DOMAIN t.wire
          /\ \A i \in DOMAIN s.wire : i + 1 \in DOMAIN t.wire /\ s.wire[i] = t.wire[i + 1] /\ i \in Nat
      BY <1>1, TailWithin
    <2>2. \A i \in DOMAIN s.wire : i + 1 # 1
      BY <1>1
    <2> QED BY <2>1, <2>2
  <1>3. Addressed(Head(t.wire)) /\ Head(t.wire).mid < t.next_mid
    BY <1>1, <1>2 DEF Placed
  <1>4. \A i \in DOMAIN s.wire : s.wire[i].mid # Head(t.wire).mid
    BY <1>1, <1>2 DEF Placed
  <1>5. \A i, j \in DOMAIN s.wire : s.wire[i].mid = s.wire[j].mid => i = j
    <2>1. \A i, j \in DOMAIN s.wire : s.wire[i].mid = s.wire[j].mid => i + 1 = j + 1
      BY <1>1, <1>2 DEF Placed
    <2> QED BY <1>2, <2>1
  <1>6. \A i \in DOMAIN s.wire : s.wire[i].mid < t.next_mid /\ Addressed(s.wire[i])
    BY <1>1, <1>2 DEF Placed
  <1>7. \A q \in S : q.mid # Head(t.wire).mid
    BY <1>1, <1>2 DEF Placed
  <1>8. \A j \in DOMAIN R : R[j].mid # Head(t.wire).mid
    BY <1>1, <1>2 DEF Placed
  <1>9. \A q \in t.pending_recv : q.mid = Head(t.wire).mid => q = Head(t.wire)
    BY <1>2 DEF Sequenced, Known
  <1> QED BY <1>2, <1>3, <1>4, <1>5, <1>6, <1>7, <1>8, <1>9

\* The request is answered.
LEMMA AnsweredSequenced ==
    ASSUME NEW t \in Transports, t.wire # <<>>, NEW S, NEW R, Server(S, R),
           Sequenced(t, S, R), NEW s, Taken(t, s),
           NEW p \in Replies, p.mid = Head(t.wire).mid, Fits(Head(t.wire), p)
    PROVE  Sequenced(s, S, Append(R, p))
  <1> DEFINE P == Append(R, p)
             r == Head(t.wire)
  <1>1. R \in Seq(Replies)
    BY DEF Server
  <1>2. \A i \in DOMAIN P : (i \in DOMAIN R /\ P[i] = R[i]) \/ P[i] = p
    BY <1>1, Appended
  <1>3. /\ r.mid < t.next_mid
        /\ \A i \in DOMAIN s.wire : i + 1 \in DOMAIN t.wire /\ s.wire[i] = t.wire[i + 1]
        /\ \A i \in DOMAIN s.wire : s.wire[i].mid # r.mid
        /\ \A i, j \in DOMAIN s.wire : s.wire[i].mid = s.wire[j].mid => i = j
        /\ \A i \in DOMAIN s.wire : s.wire[i].mid < t.next_mid /\ Addressed(s.wire[i])
        /\ \A q \in S : q.mid # r.mid
        /\ \A q \in t.pending_recv : q.mid = r.mid => q = r
    BY WireFacts
  <1> HIDE DEF P, r
  <1>4. p.mid = r.mid /\ Fits(r, p)
    BY DEF r
  <1>5. s.pending_recv = t.pending_recv /\ s.next_mid = t.next_mid
    BY DEF Taken
  <1>6. Placed(t, S, R)
    BY DEF Sequenced
  <1>7. Placed(s, S, P)
    <2>1. /\ \A i \in DOMAIN s.wire : s.wire[i].mid < s.next_mid /\ Addressed(s.wire[i])
          /\ \A q \in S : q.mid < s.next_mid
          /\ \A i, j \in DOMAIN s.wire : s.wire[i].mid = s.wire[j].mid => i = j
          /\ \A q, v \in S : q.mid = v.mid => q = v
      BY <1>3, <1>5, <1>6 DEF Placed
    <2>2. \A i \in DOMAIN P : P[i].mid < s.next_mid
      BY <1>2, <1>3, <1>4, <1>5, <1>6 DEF Placed
    <2>3. \A i \in DOMAIN s.wire : \A j \in DOMAIN P : s.wire[i].mid # P[j].mid
      BY <1>2, <1>3, <1>4, <1>6 DEF Placed
    <2>4. \A i \in DOMAIN s.wire : \A q \in S : s.wire[i].mid # q.mid
      BY <1>3, <1>6 DEF Placed
    <2>5. \A q \in S : \A j \in DOMAIN P : q.mid # P[j].mid
      BY <1>2, <1>3, <1>4, <1>6 DEF Placed
    <2> QED BY <2>1, <2>2, <2>3, <2>4, <2>5 DEF Placed
  <1>8. ASSUME NEW q \in t.pending_recv PROVE Known(s, S, P, q)
    <2>1. Known(t, S, R, q)
      BY DEF Sequenced
    <2>2. \A i \in DOMAIN P : P[i].mid = q.mid => Fits(q, P[i])
      BY <1>2, <1>3, <1>4, <2>1 DEF Known
    <2>3. \A i \in DOMAIN s.wire : s.wire[i].mid = q.mid => s.wire[i] = q
      BY <1>3, <2>1 DEF Known
    <2> QED BY <1>5, <2>1, <2>2, <2>3 DEF Known
  <1>9. Sequenced(s, S, P)
    BY <1>5, <1>7, <1>8 DEF Sequenced
  <1> QED BY <1>9 DEF P

\* The request is parked.
LEMMA ParkedSequenced ==
    ASSUME NEW t \in Transports, t.wire # <<>>, NEW S, NEW R,
           Sequenced(t, S, R), NEW s, Taken(t, s)
    PROVE  Sequenced(s, S \cup {Head(t.wire)}, R)
  <1> DEFINE r == Head(t.wire)
             Q == S \cup {r}
  <1>1. /\ r.mid < t.next_mid
        /\ \A i \in DOMAIN s.wire : i + 1 \in DOMAIN t.wire /\ s.wire[i] = t.wire[i + 1]
        /\ \A i \in DOMAIN s.wire : s.wire[i].mid # r.mid
        /\ \A i, j \in DOMAIN s.wire : s.wire[i].mid = s.wire[j].mid => i = j
        /\ \A i \in DOMAIN s.wire : s.wire[i].mid < t.next_mid /\ Addressed(s.wire[i])
        /\ \A q \in S : q.mid # r.mid
        /\ \A j \in DOMAIN R : R[j].mid # r.mid
        /\ \A q \in t.pending_recv : q.mid = r.mid => q = r
    BY WireFacts
  <1> HIDE DEF r
  <1>2. \A q \in Q : q \in S \/ q = r
    OBVIOUS
  <1> HIDE DEF Q
  <1>3. s.pending_recv = t.pending_recv /\ s.next_mid = t.next_mid
    BY DEF Taken
  <1>4. Placed(t, S, R)
    BY DEF Sequenced
  <1>5. Placed(s, Q, R)
    <2>1. /\ \A i \in DOMAIN s.wire : s.wire[i].mid < s.next_mid /\ Addressed(s.wire[i])
          /\ \A j \in DOMAIN R : R[j].mid < s.next_mid
          /\ \A i, j \in DOMAIN s.wire : s.wire[i].mid = s.wire[j].mid => i = j
          /\ \A i \in DOMAIN s.wire : \A j \in DOMAIN R : s.wire[i].mid # R[j].mid
      BY <1>1, <1>3, <1>4 DEF Placed
    <2>2. /\ \A q \in Q : q.mid < s.next_mid
          /\ \A i \in DOMAIN s.wire : \A q \in Q : s.wire[i].mid # q.mid
          /\ \A q \in Q : \A j \in DOMAIN R : q.mid # R[j].mid
          /\ \A q, v \in Q : q.mid = v.mid => q = v
      BY <1>1, <1>2, <1>3, <1>4 DEF Placed
    <2> QED BY <2>1, <2>2 DEF Placed
  <1>6. ASSUME NEW q \in t.pending_recv PROVE Known(s, Q, R, q)
    <2>1. Known(t, S, R, q)
      BY DEF Sequenced
    <2>2. \A v \in Q : v.mid = q.mid => v = q
      BY <1>1, <1>2, <2>1 DEF Known
    <2>3. \A i \in DOMAIN s.wire : s.wire[i].mid = q.mid => s.wire[i] = q
      BY <1>1, <2>1 DEF Known
    <2> QED BY <1>3, <2>1, <2>2, <2>3 DEF Known
  <1>7. Sequenced(s, Q, R)
    BY <1>3, <1>5, <1>6 DEF Sequenced
  <1> QED BY <1>7 DEF Q, r

\* A parked read is answered.
LEMMA ReadSequenced ==
    ASSUME NEW t \in Transports, NEW S, NEW R, Server(S, R), Sequenced(t, S, R),
           NEW r \in S, NEW p \in Replies, p.mid = r.mid, Fits(r, p)
    PROVE  Sequenced(t, S \ {r}, Append(R, p))
  <1> DEFINE P == Append(R, p)
             Q == S \ {r}
  <1>1. R \in Seq(Replies)
    BY DEF Server
  <1>2. \A i \in DOMAIN P : (i \in DOMAIN R /\ P[i] = R[i]) \/ P[i] = p
    BY <1>1, Appended
  <1>3. Placed(t, S, R)
    BY DEF Sequenced
  <1>4. \A q \in Q : q \in S /\ q.mid # r.mid
    BY <1>3 DEF Placed
  <1> HIDE DEF P, Q
  <1>5. Placed(t, Q, P)
    <2>1. \A i \in DOMAIN P : P[i].mid < t.next_mid
      BY <1>2, <1>3 DEF Placed
    <2>2. \A i \in DOMAIN t.wire : \A j \in DOMAIN P : t.wire[i].mid # P[j].mid
      BY <1>2, <1>3 DEF Placed
    <2>3. \A q \in Q : \A j \in DOMAIN P : q.mid # P[j].mid
      BY <1>2, <1>3, <1>4 DEF Placed
    <2>4. /\ \A i \in DOMAIN t.wire : t.wire[i].mid < t.next_mid /\ Addressed(t.wire[i])
          /\ \A q \in Q : q.mid < t.next_mid
          /\ \A i, j \in DOMAIN t.wire : t.wire[i].mid = t.wire[j].mid => i = j
          /\ \A i \in DOMAIN t.wire : \A q \in Q : t.wire[i].mid # q.mid
          /\ \A q, v \in Q : q.mid = v.mid => q = v
      BY <1>3, <1>4 DEF Placed
    <2> QED BY <2>1, <2>2, <2>3, <2>4 DEF Placed
  <1>6. ASSUME NEW q \in t.pending_recv PROVE Known(t, Q, P, q)
    <2>1. Known(t, S, R, q)
      BY DEF Sequenced
    <2>2. r.mid = q.mid => r = q
      BY <2>1 DEF Known
    <2>3. \A i \in DOMAIN P : P[i].mid = q.mid => Fits(q, P[i])
      BY <1>2, <2>1, <2>2 DEF Known
    <2>4. \A v \in Q : v.mid = q.mid => v = q
      BY <1>4, <2>1 DEF Known
    <2> QED BY <2>1, <2>3, <2>4 DEF Known
  <1>7. Sequenced(t, Q, P)
    BY <1>5, <1>6 DEF Sequenced
  <1> QED BY <1>7 DEF P, Q

\* One pipe of the host is replaced.
PutPipe(h, p, q) == [h EXCEPT !.pipe[p] = q]

LEMMA PutPipeIs ==
    ASSUME NEW h \in Hosts, NEW p \in PipeId, NEW q \in Pipes
    PROVE  /\ PutPipe(h, p, q) \in Hosts
           /\ PutPipe(h, p, q).pipe[p] = q
           /\ \A o \in PipeId \ {p} : PutPipe(h, p, q).pipe[o] = h.pipe[o]
           /\ PutPipe(h, p, q).th = h.th /\ PutPipe(h, p, q).nconn = h.nconn
           /\ PutPipe(h, p, q).ec = h.ec /\ PutPipe(h, p, q).svc = h.svc
           /\ PutPipe(h, p, q).env = h.env
  <1> DEFINE P == [h.pipe EXCEPT ![p] = q]
             g == PutPipe(h, p, q)
  <1>1. h.pipe \in [PipeId -> Pipes]
    BY DEF Hosts
  <1>2. P \in [PipeId -> Pipes] /\ P[p] = q /\ \A o \in PipeId \ {p} : P[o] = h.pipe[o]
    BY <1>1
  <1>3. g = [h EXCEPT !.pipe = P]
    BY DEF PutPipe, Hosts
  <1> HIDE DEF P
  <1>4. /\ g \in Hosts /\ g.pipe = P /\ g.th = h.th /\ g.nconn = h.nconn /\ g.ec = h.ec
        /\ g.svc = h.svc /\ g.env = h.env
    BY <1>2, <1>3 DEF Hosts
  <1> QED BY <1>2, <1>4

\* ... by one with the same lines, or none, for the client to read.
LEMMA PutPipeOK ==
    ASSUME NEW h, HostOK(h), NEW p \in PipeId, NEW q \in Pipes,
           \/ p[1] # "ctrl"
           \/ /\ q.s2c = h.pipe[p].s2c \/ q.s2c = <<>>
              /\ q.st = h.pipe[p].st \/ q.st # "connected"
    PROVE  HostOK(PutPipe(h, p, q))
  <1> DEFINE g == PutPipe(h, p, q)
  <1>1. h \in Hosts
    BY DEF HostOK
  <1>2. /\ g \in Hosts /\ g.pipe[p] = q /\ \A o \in PipeId \ {p} : g.pipe[o] = h.pipe[o]
        /\ g.th = h.th /\ g.nconn = h.nconn /\ g.ec = h.ec
    BY <1>1, PutPipeIs
  <1> HIDE DEF g
  <1>3. ASSUME NEW j \in Conn
        PROVE  /\ g.pipe[Ctrl(j)].s2c = h.pipe[Ctrl(j)].s2c \/ g.pipe[Ctrl(j)].s2c = <<>>
               /\ g.pipe[Ctrl(j)].st = h.pipe[Ctrl(j)].st \/ g.pipe[Ctrl(j)].st # "connected"
    <2>1. CASE Ctrl(j) = p
      BY <1>2, <2>1, PipeNames
    <2>2. CASE Ctrl(j) # p
      <3>1. g.pipe[Ctrl(j)] = h.pipe[Ctrl(j)]
        BY <1>2, <2>2, PipeNames
      <3> QED BY <3>1
    <2> QED BY <2>1, <2>2
  <1>4. Gentle(h, g)
    BY <1>2, <1>3 DEF Gentle
  <1>5. HostOK(g)
    BY <1>4, GentleOK
  <1> QED BY <1>5 DEF g

LEMMA CloseEndIs ==
    ASSUME NEW q \in Pipes
    PROVE  /\ CloseEnd(q) \in Pipes
           /\ CloseEnd(q).s2c = q.s2c \/ CloseEnd(q).s2c = <<>>
           /\ CloseEnd(q).st = q.st \/ CloseEnd(q).st # "connected"
           /\ CloseEnd(q).c2s = q.c2s
  <1>1. <<>> \in Seq(Messages) /\ "closed" \in PipeStates
    BY DEF PipeStates
  <1>2. CASE q.st = "connected"
    <2>1. CloseEnd(q) = [q EXCEPT !.st = "closed", !.s2c = <<>>]
      BY <1>2 DEF CloseEnd
    <2> QED BY <1>1, <2>1 DEF Pipes
  <1>3. CASE q.st # "connected"
    BY <1>3 DEF CloseEnd
  <1> QED BY <1>2, <1>3

\* The pipe behind the handle of a request of the server.
LEMMA TargetIs ==
    ASSUME ServerOK, NEW r \in Requests, Addressed(r), Target(r) # NoPipe
    PROVE  /\ r.fnum \in FnumFor(r.pipe) /\ r.fnum \in Fnum
           /\ Target(r) = smb.fid[r.fnum] /\ Target(r) \in PipeId
           /\ Target(r)[1] = r.pipe
  <1>1. r.fnum \in Fnum /\ Target(r) = smb.fid[r.fnum]
    BY DEF Target
  <1>2. r.pipe \in Name
    BY DEF Requests
  <1>3. r.fnum \in FnumFor(r.pipe)
    BY <1>1, <1>2, HandleFacts DEF Addressed
  <1>4. smb.fid[r.fnum] \in PipeId
    BY <1>1, ServerTypes
  <1> QED BY <1>1, <1>2, <1>3, <1>4 DEF ServerOK

LEMMA CtrlTarget ==
    ASSUME NEW p \in PipeId
    PROVE  /\ p[1] = "ctrl" => \E k \in Conn : p = Ctrl(k) /\ p[2] = k
           /\ p[1] = "io" => p = IO
           /\ p[1] = "err" => p = ERR
  BY DEF PipeId, Ctrl, IO, ERR

-----------------------------------------------------------------------------
\* Assembling a step of the server.
LEMMA ServerStep ==
    ASSUME LInv, UNCHANGED <<ac, user>>, transport' \in Transports,
           transport'.pending_recv = transport.pending_recv,
           transport'.next_mid = transport.next_mid,
           HostOK(host'), Sequenced(transport', smb'.parked, replies'), ServerOK'
    PROVE  LInv'
  <1>1. View' \in Views
    BY ViewFields DEF LInv, Good, Views, View, HostOK
  <1>2. Own(ac', transport') /\ ContextsOK(ac')
    BY ViewFields DEF LInv, Good, Own
  <1> QED BY <1>1, <1>2, ViewFields DEF LInv, Good

LEMMA SendIs ==
    ASSUME ServerOK, NEW p \in Replies, Send(<<p>>)
    PROVE  /\ replies' = Append(replies, p) \/ replies' = <<>>
           /\ replies' \in Seq(Replies)
           /\ Within(replies', Append(replies, p))
  <1>1. replies \in Seq(Replies)
    BY DEF ServerOK
  <1>2. replies \o <<p>> = Append(replies, p)
    BY <1>1
  <1>3. replies' = Append(replies, p) \/ replies' = <<>>
    BY <1>2 DEF Send
  <1>4. Append(replies, p) \in Seq(Replies) /\ <<>> \in Seq(Replies)
    BY <1>1
  <1>5. Within(Append(replies, p), Append(replies, p))
    BY DEF Within
  <1> QED BY <1>3, <1>4, <1>5, NoneWithin

LEMMA ReplyIs ==
    ASSUME NEW r \in Requests, NEW status, status \in {"OK", "OBJECT_NAME_NOT_FOUND", "ERROR"},
           NEW f \in Int, NEW m \in Messages
    PROVE  /\ Reply(r, status, f, m) \in Replies
           /\ Reply(r, status, f, m).mid = r.mid /\ Reply(r, status, f, m).status = status
           /\ Reply(r, status, f, m).fnum = f /\ Reply(r, status, f, m).msg = m
  BY DEF Reply, Replies, Requests

\* A request is answered with p; the server's tables may change too.
LEMMA AnswerStep ==
    ASSUME LInv, UNCHANGED <<ac, user>>, transport.wire # <<>>,
           transport' = [transport EXCEPT !.wire = Tail(@)],
           HostOK(host'), smb'.parked = smb.parked,
           NEW p \in Replies, p.mid = Head(transport.wire).mid, Fits(Head(transport.wire), p),
           Send(<<p>>),
           replies' \in Seq(Replies) => ServerOK'
    PROVE  LInv'
  <1>1. /\ transport \in Transports /\ Sequenced(transport, smb.parked, replies)
        /\ ServerOK /\ Server(smb.parked, replies)
    BY ViewFields, ServerTypes DEF LInv, Good, Views
  <1>2. transport' \in Transports /\ Taken(transport, transport')
    BY <1>1, TakenIs
  <1>3. Sequenced(transport', smb.parked, Append(replies, p))
    BY <1>1, <1>2, AnsweredSequenced
  <1>4. replies' \in Seq(Replies) /\ Within(replies', Append(replies, p))
    BY <1>1, SendIs
  <1>5. Sequenced(transport', smb'.parked, replies')
    BY <1>3, <1>4, ShrunkSequenced
  <1>6. transport'.pending_recv = transport.pending_recv /\ transport'.next_mid = transport.next_mid
    BY <1>2 DEF Taken
  <1>7. ServerOK'
    BY <1>4
  <1> QED BY <1>2, <1>5, <1>6, <1>7, ServerStep

\* The server's tables when only replies change.
LEMMA TablesKept ==
    ASSUME ServerOK, smb' = smb, replies' \in Seq(Replies)
    PROVE  ServerOK'
  BY DEF ServerOK

\* A request that fails, or a write that succeeds.
LEMMA PlainAnswer ==
    ASSUME LInv, UNCHANGED <<ac, user>>, transport.wire # <<>>,
           transport' = [transport EXCEPT !.wire = Tail(@)],
           HostOK(host'), NEW status,
           \/ status = "ERROR"
           \/ status = "OK" /\ Head(transport.wire).kind \in {"write", "close"}
           \/ status = "OBJECT_NAME_NOT_FOUND" /\ Head(transport.wire).kind = "open",
           Answer(Head(transport.wire), status, NoMsg),
           smb'.parked = smb.parked,
           replies' \in Seq(Replies) => ServerOK'
    PROVE  LInv'
  <1> DEFINE r == Head(transport.wire)
             p == Reply(r, status, NULL, NoMsg)
  <1>1. transport \in Transports
    BY ViewFields DEF LInv, Good, Views
  <1>2. r \in Requests
    <2>1. transport.wire \in Seq(Requests)
      BY <1>1 DEF Transports
    <2> QED BY <2>1
  <1>3. NULL \in Int /\ NoMsg \in Messages
    BY DEF NULL, NoMsg, Msg, Messages
  <1>4. status \in {"OK", "OBJECT_NAME_NOT_FOUND", "ERROR"}
    OBVIOUS
  <1>5. p \in Replies /\ p.mid = r.mid /\ p.status = status
    <2> HIDE DEF r
    <2> QED BY <1>2, <1>3, <1>4, ReplyIs
  <1>6. Send(<<p>>)
    BY DEF Answer
  <1> HIDE DEF p
  <1>7. Fits(r, p)
    BY <1>5 DEF Fits
  <1> QED BY <1>5, <1>6, <1>7, AnswerStep

LEMMA OpenOK ==
    ASSUME LInv, UNCHANGED <<ac, user>>, transport.wire # <<>>,
           transport' = [transport EXCEPT !.wire = Tail(@)],
           NEW r, r = Head(transport.wire), r.kind = "open", SmbOpen(r)
    PROVE  LInv'
  <1>1. transport \in Transports /\ HostOK(host) /\ ServerOK
    BY ViewFields DEF LInv, Good, Views
  <1>2. r \in Requests /\ r.pipe \in Name
    <2>1. transport.wire \in Seq(Requests)
      BY <1>1 DEF Transports
    <2>2. r \in Requests
      BY <2>1
    <2> QED BY <2>2 DEF Requests
  <1>3. CASE /\ Answer(r, IF Exists(r.pipe) THEN "ERROR" ELSE "OBJECT_NAME_NOT_FOUND", NoMsg)
             /\ UNCHANGED <<host, smb>>
    <2> DEFINE status == IF Exists(r.pipe) THEN "ERROR" ELSE "OBJECT_NAME_NOT_FOUND"
    <2>1. status = "ERROR" \/ status = "OBJECT_NAME_NOT_FOUND"
      OBVIOUS
    <2>2. Answer(r, status, NoMsg)
      BY <1>3
    <2> HIDE DEF status
    <2>3. HostOK(host') /\ smb' = smb
      BY <1>1, <1>3
    <2>4. replies' \in Seq(Replies) => ServerOK'
      BY <1>1, <2>3, TablesKept
    <2> QED BY <2>1, <2>2, <2>3, <2>4, PlainAnswer
  <1>4. ASSUME NEW p \in Listening(r.pipe), NEW f \in FnumFor(r.pipe),
               smb.fid[f] = NoPipe,
               smb' = [smb EXCEPT !.fid[f] = p],
               host' = IF r.pipe = "ctrl"
                       THEN [host EXCEPT !.nconn = @ + 1, !.svc.listening = FALSE,
                                         !.pipe[p].st = "connected",
                                         !.th[p[2]].pc = "accepted"]
                       ELSE [host EXCEPT !.pipe[p].st = "connected"],
               Send(<<Reply(r, "OK", f, NoMsg)>>)
        PROVE  LInv'
    <2>1. p \in PipeId /\ p[1] = r.pipe
      BY <1>2, <1>4, PipeNames DEF Listening
    <2>2. /\ host \in Hosts /\ host.pipe \in [PipeId -> Pipes] /\ host.pipe[p] \in Pipes
          /\ host.th \in [Conn -> Threads] /\ host.svc \in Services
      BY <1>1, <2>1 DEF HostOK, Hosts
    <2> DEFINE q == [host.pipe[p] EXCEPT !.st = "connected"]
    <2>3. q \in Pipes /\ q.st = "connected" /\ q.s2c = host.pipe[p].s2c
      BY <2>2 DEF Pipes, PipeStates
    <2>4. HostOK(host')
      <3>1. CASE r.pipe # "ctrl"
        <4>1. host' = PutPipe(host, p, q)
          BY <1>4, <2>1, <2>2, <3>1 DEF PutPipe, Hosts
        <4> HIDE DEF q
        <4> QED BY <1>1, <2>1, <2>3, <3>1, <4>1, PutPipeOK
      <3>2. CASE r.pipe = "ctrl"
        <4>1. PICK k \in Conn : p = Ctrl(k) /\ k = host.nconn + 1
          BY <1>4, <3>2 DEF Listening
        <4>2. p[2] = k
          BY <4>1 DEF Ctrl
        <4> DEFINE P == [host.pipe EXCEPT ![p] = q]
                   T == [host.th EXCEPT ![k].pc = "accepted"]
                   S == [host.svc EXCEPT !.listening = FALSE]
        <4>3. host' = [host EXCEPT !.nconn = @ + 1, !.svc = S, !.pipe = P, !.th = T]
          BY <1>4, <2>2, <3>2, <4>2 DEF Hosts
        <4>4. P \in [PipeId -> Pipes] /\ P[p] = q /\ \A o \in PipeId \ {p} : P[o] = host.pipe[o]
          BY <2>1, <2>2, <2>3
        <4>5. T \in [Conn -> Threads]
          BY <2>2 DEF Threads, ThreadCalls
        <4>6. /\ T[k].pc = "accepted" /\ T[k].next = host.th[k].next
              /\ \A j \in Conn : j # k => T[j] = host.th[j]
          BY <2>2 DEF Threads
        <4>7. S \in Services
          BY <2>2 DEF Services
        <4>8. host.nconn + 1 \in 0 .. MaxConn /\ host.nconn \in Nat
          <5>1. host.nconn \in 0 .. MaxConn /\ k \in 1 .. MaxConn
            BY <2>2 DEF Hosts, Conn
          <5> QED BY <4>1, <5>1, BoundsAssumption
        <4> HIDE DEF P, T, S, q
        <4>9. /\ host' \in Hosts /\ host'.pipe = P /\ host'.th = T /\ host'.ec = host.ec
              /\ host'.nconn = host.nconn + 1
          BY <2>2, <4>3, <4>4, <4>5, <4>7, <4>8 DEF Hosts
        <4>10. ASSUME NEW j \in Conn PROVE ConnOK(host', j)
          <5>1. ConnOK(host, j) /\ j \in Nat
            BY <1>1 DEF HostOK, Conn
          <5>2. CASE j = k
            <6>1. host.th[k].pc = "none" /\ host.pipe[Ctrl(k)].s2c = <<>>
              BY <4>1, <4>8, <5>1, <5>2 DEF ConnOK
            <6>2. host'.pipe[Ctrl(k)].s2c = <<>> /\ host'.th[k].pc = "accepted"
                  /\ host'.th[k].next = host.th[k].next
              BY <2>3, <4>1, <4>4, <4>6, <4>9, <6>1
            <6>3. <<>> \in Seq(CtrlMessages) /\ Len(<<>>) <= 1
              OBVIOUS
            <6> QED BY <4>1, <4>8, <4>9, <5>1, <5>2, <6>2, <6>3 DEF ConnOK
          <5>3. CASE j # k
            <6>1. host'.pipe[Ctrl(j)] = host.pipe[Ctrl(j)] /\ host'.th[j] = host.th[j]
              BY <4>1, <4>4, <4>6, <4>9, <5>3, PipeNames
            <6> QED BY <4>8, <4>9, <5>1, <6>1 DEF ConnOK
          <5> QED BY <5>2, <5>3
        <4> QED BY <4>9, <4>10 DEF HostOK
      <3> QED BY <3>1, <3>2
    <2>5. f \in Fnum /\ f \in Int
      BY <1>2, HandleFacts
    <2>6. /\ smb.fid \in [Fnum -> PipeId \cup {NoPipe}] /\ smb.parked \subseteq Requests
          /\ smb \in [fid : [Fnum -> PipeId \cup {NoPipe}], parked : SUBSET Requests]
      BY <1>1 DEF ServerOK
    <2> DEFINE F == [smb.fid EXCEPT ![f] = p]
    <2>7. /\ F \in [Fnum -> PipeId \cup {NoPipe}] /\ F[f] = p
          /\ \A g \in Fnum : g # f => F[g] = smb.fid[g]
      BY <2>1, <2>5, <2>6
    <2>8. smb' = [smb EXCEPT !.fid = F]
      BY <1>4, <2>6
    <2> HIDE DEF F
    <2>9. /\ smb' \in [fid : [Fnum -> PipeId \cup {NoPipe}], parked : SUBSET Requests]
          /\ smb'.fid = F /\ smb'.parked = smb.parked
      BY <2>6, <2>7, <2>8
    <2>10. \A n \in Name : \A g \in FnumFor(n) : F[g] # NoPipe => F[g][1] = n
      <3> SUFFICES ASSUME NEW n \in Name, NEW g \in FnumFor(n), F[g] # NoPipe PROVE F[g][1] = n
        OBVIOUS
      <3>1. g \in Fnum
        BY HandleFacts
      <3>2. CASE g = f
        <4>1. n = r.pipe
          BY <1>2, <3>2, HandleFacts
        <4> QED BY <2>1, <2>7, <3>2, <4>1
      <3>3. CASE g # f
        BY <1>1, <2>7, <3>1, <3>3 DEF ServerOK
      <3> QED BY <3>2, <3>3
    <2>11. \A v \in smb.parked :
             Addressed(v) /\ v.kind = "read" /\ v.fnum \in Fnum /\ F[v.fnum] # NoPipe
      <3>1. p # NoPipe
        BY <2>1, PipeNames
      <3> QED BY <1>1, <2>7, <3>1 DEF ServerOK
    <2>12. replies' \in Seq(Replies) => ServerOK'
      BY <2>9, <2>10, <2>11 DEF ServerOK
    <2> DEFINE e == Reply(r, "OK", f, NoMsg)
    <2>13. e \in Replies /\ e.mid = r.mid /\ e.status = "OK" /\ e.fnum = f
      <3>1. NoMsg \in Messages
        BY DEF NoMsg, Msg, Messages
      <3> QED BY <1>2, <2>5, <3>1, ReplyIs
    <2>14. Send(<<e>>)
      BY <1>4
    <2> HIDE DEF e
    <2>15. Fits(r, e)
      BY <2>13 DEF Fits
    <2> QED BY <2>4, <2>9, <2>12, <2>13, <2>14, <2>15, AnswerStep
  <1> QED BY <1>3, <1>4 DEF SmbOpen

LEMMA ReadOK ==
    ASSUME LInv, UNCHANGED <<ac, user>>, transport.wire # <<>>,
           transport' = [transport EXCEPT !.wire = Tail(@)],
           NEW r, r = Head(transport.wire), r.kind = "read", SmbRead(r)
    PROVE  LInv'
  <1>1. /\ transport \in Transports /\ HostOK(host) /\ ServerOK
        /\ Sequenced(transport, smb.parked, replies)
    BY ViewFields DEF LInv, Good, Views
  <1>2. /\ transport' \in Transports /\ Taken(transport, transport')
        /\ transport'.pending_recv = transport.pending_recv
        /\ transport'.next_mid = transport.next_mid
    BY <1>1, TakenIs DEF Taken
  <1>3. r \in Requests /\ Addressed(r)
    BY <1>1, <1>2, WireFacts
  <1>4. HostOK(host')
    BY <1>1 DEF SmbRead
  <1>5. CASE Target(r) = NoPipe
    <2>1. Answer(r, "ERROR", NoMsg) /\ smb' = smb
      BY <1>5 DEF SmbRead
    <2>2. replies' \in Seq(Replies) => ServerOK'
      BY <1>1, <2>1, TablesKept
    <2> QED BY <1>4, <2>1, <2>2, PlainAnswer
  <1>6. CASE Target(r) # NoPipe
    <2>1. smb' = [smb EXCEPT !.parked = @ \cup {r}] /\ replies' = replies
      BY <1>6 DEF SmbRead
    <2>2. smb \in [fid : [Fnum -> PipeId \cup {NoPipe}], parked : SUBSET Requests]
      BY <1>1 DEF ServerOK
    <2>3. /\ smb' \in [fid : [Fnum -> PipeId \cup {NoPipe}], parked : SUBSET Requests]
          /\ smb'.fid = smb.fid /\ smb'.parked = smb.parked \cup {r}
      BY <1>3, <2>1, <2>2
    <2>4. r.fnum \in Fnum /\ smb.fid[r.fnum] # NoPipe
      BY <1>1, <1>3, <1>6, TargetIs
    <2>5. ServerOK'
      BY <1>1, <1>3, <2>1, <2>3, <2>4 DEF ServerOK
    <2>6. Sequenced(transport', smb'.parked, replies')
      BY <1>1, <1>2, <2>1, <2>3, ParkedSequenced
    <2> QED BY <1>2, <1>4, <2>5, <2>6, ServerStep
  <1> QED BY <1>5, <1>6

LEMMA WriteOK ==
    ASSUME LInv, UNCHANGED <<ac, user>>, transport.wire # <<>>,
           transport' = [transport EXCEPT !.wire = Tail(@)],
           NEW r, r = Head(transport.wire), r.kind = "write", SmbWrite(r)
    PROVE  LInv'
  <1>1. /\ transport \in Transports /\ HostOK(host) /\ ServerOK
        /\ Sequenced(transport, smb.parked, replies)
    BY ViewFields DEF LInv, Good, Views
  <1>2. transport' \in Transports /\ Taken(transport, transport')
    BY <1>1, TakenIs
  <1>3. r \in Requests /\ Addressed(r)
    BY <1>1, <1>2, WireFacts
  <1>4. smb' = smb /\ (replies' \in Seq(Replies) => ServerOK')
    BY <1>1, TablesKept DEF SmbWrite
  <1>5. CASE Target(r) # NoPipe /\ Connected(Target(r))
    <2> DEFINE p == Target(r)
               q == [host.pipe[p] EXCEPT !.c2s = @ \o r.data]
    <2>1. host' = [host EXCEPT !.pipe[p].c2s = @ \o r.data] /\ Answer(r, "OK", NoMsg)
      BY <1>5 DEF SmbWrite
    <2>2. p \in PipeId
      BY <1>1, <1>3, <1>5, TargetIs
    <2>3. host.pipe[p] \in Pipes /\ host \in Hosts
      BY <1>1, <2>2 DEF HostOK, Hosts
    <2>4. host' = PutPipe(host, p, q)
      BY <2>1, <2>2, <2>3 DEF PutPipe, Hosts
    <2>5. q \in Pipes /\ q.st = host.pipe[p].st /\ q.s2c = host.pipe[p].s2c
      <3>1. host.pipe[p].c2s \in Seq(ClientLines) /\ r.data \in Seq(ClientLines)
        BY <1>3, <2>3 DEF Pipes, Requests
      <3>2. host.pipe[p].c2s \o r.data \in Seq(ClientLines)
        BY <3>1
      <3> QED BY <2>3, <3>2 DEF Pipes
    <2> HIDE DEF p, q
    <2>6. HostOK(host')
      BY <1>1, <2>2, <2>4, <2>5, PutPipeOK
    <2> QED BY <1>4, <2>1, <2>6, PlainAnswer
  <1>6. CASE ~(Target(r) # NoPipe /\ Connected(Target(r)))
    <2>1. Answer(r, "ERROR", NoMsg) /\ host' = host
      BY <1>6 DEF SmbWrite
    <2>2. HostOK(host')
      BY <1>1, <2>1
    <2> QED BY <1>4, <2>1, <2>2, PlainAnswer
  <1> QED BY <1>5, <1>6

LEMMA CloseOK ==
    ASSUME LInv, UNCHANGED <<ac, user>>, transport.wire # <<>>,
           transport' = [transport EXCEPT !.wire = Tail(@)],
           NEW r, r = Head(transport.wire), r.kind = "close", SmbClose(r)
    PROVE  LInv'
  <1>1. /\ transport \in Transports /\ HostOK(host) /\ ServerOK
        /\ Sequenced(transport, smb.parked, replies)
    BY ViewFields DEF LInv, Good, Views
  <1>2. transport' \in Transports /\ Taken(transport, transport')
    BY <1>1, TakenIs
  <1>3. r \in Requests /\ Addressed(r)
    BY <1>1, <1>2, WireFacts
  <1>4. CASE Target(r) # NoPipe
    <2> DEFINE p == Target(r)
               q == CloseEnd(host.pipe[p])
    <2>1. /\ host' = PutPipe(host, p, q)
          /\ smb' = [smb EXCEPT !.fid[r.fnum] = NoPipe]
          /\ Answer(r, "OK", NoMsg)
      BY <1>4 DEF SmbClose, PutPipe
    <2>2. p \in PipeId /\ r.fnum \in Fnum
      BY <1>1, <1>3, <1>4, TargetIs
    <2>3. host.pipe[p] \in Pipes
      BY <1>1, <2>2 DEF HostOK, Hosts
    <2>4. HostOK(host')
      BY <1>1, <2>1, <2>2, <2>3, CloseEndIs, PutPipeOK
    <2>5. smb \in [fid : [Fnum -> PipeId \cup {NoPipe}], parked : SUBSET Requests]
      BY <1>1 DEF ServerOK
    <2> DEFINE F == [smb.fid EXCEPT ![r.fnum] = NoPipe]
    <2>6. smb' = [smb EXCEPT !.fid = F]
      BY <2>1, <2>5
    <2>7. /\ F \in [Fnum -> PipeId \cup {NoPipe}] /\ F[r.fnum] = NoPipe
          /\ \A g \in Fnum : g # r.fnum => F[g] = smb.fid[g]
      BY <2>2, <2>5
    <2> HIDE DEF F
    <2>8. /\ smb' \in [fid : [Fnum -> PipeId \cup {NoPipe}], parked : SUBSET Requests]
          /\ smb'.fid = F /\ smb'.parked = smb.parked
      BY <2>5, <2>6, <2>7
    <2>9. \A n \in Name : \A g \in FnumFor(n) : F[g] # NoPipe => F[g][1] = n
      BY <1>1, <2>7, HandleFacts DEF ServerOK
    <2>10. \A v \in smb.parked :
             Addressed(v) /\ v.kind = "read" /\ v.fnum \in Fnum /\ F[v.fnum] # NoPipe
      <3>1. \A v \in smb.parked : v.fnum # r.fnum
        BY DEF SmbClose
      <3> QED BY <1>1, <2>7, <3>1 DEF ServerOK
    <2>11. replies' \in Seq(Replies) => ServerOK'
      BY <2>8, <2>9, <2>10 DEF ServerOK
    <2> HIDE DEF p, q
    <2> QED BY <2>1, <2>4, <2>8, <2>11, PlainAnswer
  <1>5. CASE Target(r) = NoPipe
    <2>1. Answer(r, "ERROR", NoMsg) /\ host' = host /\ smb' = smb
      BY <1>5 DEF SmbClose
    <2>2. HostOK(host')
      BY <1>1, <2>1
    <2>3. replies' \in Seq(Replies) => ServerOK'
      BY <1>1, <2>1, TablesKept
    <2> QED BY <2>1, <2>2, <2>3, PlainAnswer
  <1> QED BY <1>4, <1>5

LEMMA RequestOK ==
    ASSUME LInv, SmbRequest
    PROVE  LInv'
  BY OpenOK, ReadOK, WriteOK, CloseOK DEF SmbRequest

\* A parked read is answered with p.
LEMMA ReadAnswerStep ==
    ASSUME LInv, UNCHANGED <<ac, transport, user>>, NEW r \in smb.parked,
           smb' = [smb EXCEPT !.parked = @ \ {r}], HostOK(host'),
           NEW p \in Replies, p.mid = r.mid, Fits(r, p), Send(<<p>>)
    PROVE  LInv'
  <1>1. /\ transport \in Transports /\ Sequenced(transport, smb.parked, replies)
        /\ ServerOK /\ Server(smb.parked, replies)
    BY ViewFields, ServerTypes DEF LInv, Good, Views
  <1>2. smb \in [fid : [Fnum -> PipeId \cup {NoPipe}], parked : SUBSET Requests]
    BY <1>1 DEF ServerOK
  <1>3. /\ smb' \in [fid : [Fnum -> PipeId \cup {NoPipe}], parked : SUBSET Requests]
        /\ smb'.fid = smb.fid /\ smb'.parked = smb.parked \ {r}
    BY <1>2
  <1>4. Sequenced(transport, smb.parked \ {r}, Append(replies, p))
    BY <1>1, ReadSequenced
  <1>5. replies' \in Seq(Replies) /\ Within(replies', Append(replies, p))
    BY <1>1, SendIs
  <1>6. Sequenced(transport', smb'.parked, replies')
    BY <1>3, <1>4, <1>5, ShrunkSequenced
  <1>7. ServerOK'
    BY <1>1, <1>3, <1>5 DEF ServerOK
  <1> QED BY <1>1, <1>6, <1>7, ServerStep

LEMMA ReadDoneOK ==
    ASSUME LInv, SmbReadDone
    PROVE  LInv'
  <1>1. transport \in Transports /\ HostOK(host) /\ ServerOK
    BY ViewFields DEF LInv, Good, Views
  <1>2. UNCHANGED <<ac, transport, user>>
    BY DEF SmbReadDone
  <1>3. PICK r \in smb.parked :
           /\ smb' = [smb EXCEPT !.parked = @ \ {r}]
           /\ \/ /\ host.pipe[Target(r)].s2c # <<>>
                 /\ host' = [host EXCEPT !.pipe[Target(r)].s2c = Tail(@)]
                 /\ Answer(r, "OK", Head(host.pipe[Target(r)].s2c))
              \/ Answer(r, "ERROR", NoMsg) /\ UNCHANGED host
    BY DEF SmbReadDone
  <1>4. r \in Requests /\ Addressed(r) /\ r.kind = "read" /\ r.fnum \in Fnum
        /\ smb.fid[r.fnum] # NoPipe
    BY <1>1, ServerTypes DEF ServerOK
  <1>5. Target(r) # NoPipe
    BY <1>4 DEF Target
  <1>6. Target(r) \in PipeId /\ Target(r)[1] = r.pipe
    BY <1>1, <1>4, <1>5, TargetIs
  <1>7. NoMsg \in Messages /\ NULL \in Int
    BY DEF NoMsg, Msg, Messages, NULL
  <1>8. CASE Answer(r, "ERROR", NoMsg) /\ UNCHANGED host
    <2> DEFINE e == Reply(r, "ERROR", NULL, NoMsg)
    <2>1. e \in Replies /\ e.mid = r.mid /\ e.status = "ERROR"
      BY <1>4, <1>7, ReplyIs
    <2>2. Send(<<e>>)
      BY <1>8 DEF Answer
    <2> HIDE DEF e
    <2>3. Fits(r, e)
      BY <2>1 DEF Fits
    <2>4. HostOK(host')
      BY <1>1, <1>8
    <2> QED BY <1>2, <1>3, <2>1, <2>2, <2>3, <2>4, ReadAnswerStep
  <1>9. CASE /\ host.pipe[Target(r)].s2c # <<>>
             /\ host' = [host EXCEPT !.pipe[Target(r)].s2c = Tail(@)]
             /\ Answer(r, "OK", Head(host.pipe[Target(r)].s2c))
    <2> DEFINE p == Target(r)
               s == host.pipe[p].s2c
               q == [host.pipe[p] EXCEPT !.s2c = Tail(@)]
               e == Reply(r, "OK", NULL, Head(s))
    <2>1. p \in PipeId /\ p[1] = r.pipe
      BY <1>6
    <2>2. host.pipe[p] \in Pipes /\ host \in Hosts
      BY <1>1, <2>1 DEF HostOK, Hosts
    <2>3. s \in Seq(Messages) /\ s # <<>>
      BY <1>9, <2>2 DEF Pipes
    <2>4. Head(s) \in Messages /\ Tail(s) \in Seq(Messages)
      BY <2>3
    <2>5. host' = PutPipe(host, p, q)
      BY <1>9, <2>1, <2>2 DEF PutPipe, Hosts
    <2>6. Answer(r, "OK", Head(s))
      BY <1>9
    <2> HIDE DEF p
    <2>7. q \in Pipes /\ q.st = host.pipe[p].st /\ q.s2c = Tail(s)
      BY <2>2, <2>4 DEF Pipes
    <2>8. ASSUME p[1] = "ctrl" PROVE s \in Seq(CtrlMessages) /\ Len(s) <= 1
      <3>1. PICK k \in Conn : p = Ctrl(k)
        BY <2>1, <2>8, CtrlTarget
      <3> QED BY <1>1, <3>1 DEF HostOK, ConnOK
    <2>9. p[1] = "ctrl" => Tail(s) = <<>> /\ Head(s) \in CtrlMessages
      BY <2>3, <2>8
    <2> HIDE DEF s, q
    <2>10. HostOK(host')
      BY <1>1, <2>1, <2>5, <2>7, <2>9, PutPipeOK
    <2>11. e \in Replies /\ e.mid = r.mid /\ e.status = "OK" /\ e.msg = Head(s)
      BY <1>4, <1>7, <2>4, ReplyIs
    <2>12. Send(<<e>>)
      BY <2>6 DEF Answer
    <2> HIDE DEF e
    <2>13. Fits(r, e)
      BY <1>4, <2>1, <2>9, <2>11 DEF Fits
    <2> QED BY <1>2, <1>3, <2>10, <2>11, <2>12, <2>13, ReadAnswerStep
  <1> QED BY <1>3, <1>8, <1>9

LEMMA SessionDownOK ==
    ASSUME LInv, SmbSessionDown
    PROVE  LInv'
  <1>1. /\ transport \in Transports /\ HostOK(host) /\ ServerOK /\ host \in Hosts
        /\ Sequenced(transport, smb.parked, replies) /\ replies \in Seq(Replies)
    BY ViewFields DEF LInv, Good, Views, ServerOK, HostOK
  <1>2. /\ smb' = [fid |-> [f \in Fnum |-> NoPipe], parked |-> {}]
        /\ transport' = [transport EXCEPT !.wire = <<>>]
        /\ UNCHANGED <<ac, user, replies>>
    BY DEF SmbSessionDown
  <1> DEFINE P == [p \in PipeId |-> IF \E f \in Fnum : smb.fid[f] = p THEN CloseEnd(host.pipe[p])
                                                                     ELSE host.pipe[p]]
  <1>3. host' = [host EXCEPT !.pipe = P]
    BY DEF SmbSessionDown
  <1>4. \A p \in PipeId : host.pipe[p] \in Pipes
    BY <1>1 DEF Hosts
  <1>5. \A p \in PipeId :
          /\ P[p] \in Pipes
          /\ P[p].s2c = host.pipe[p].s2c \/ P[p].s2c = <<>>
          /\ P[p].st = host.pipe[p].st \/ P[p].st # "connected"
    BY <1>4, CloseEndIs
  <1>6. P \in [PipeId -> Pipes]
    BY <1>5
  <1> HIDE DEF P
  <1>7. /\ host' \in Hosts /\ host'.pipe = P /\ host'.th = host.th
        /\ host'.ec = host.ec /\ host'.nconn = host.nconn
    BY <1>1, <1>3, <1>6 DEF Hosts
  <1>8. HostOK(host')
    BY <1>1, <1>5, <1>7, GentleOK, PipeNames DEF Gentle
  <1>9. /\ transport' \in Transports /\ transport'.wire = <<>>
        /\ transport'.pending_recv = transport.pending_recv
        /\ transport'.next_mid = transport.next_mid
    <2>1. <<>> \in Seq(Requests)
      OBVIOUS
    <2> QED BY <1>1, <1>2, <2>1 DEF Transports
  <1>10. Sequenced(transport', {}, replies)
    <2>1. Placed(transport', {}, replies)
      BY <1>1, <1>9 DEF Sequenced, Placed
    <2>2. ASSUME NEW r \in transport.pending_recv PROVE Known(transport', {}, replies, r)
      <3>1. Known(transport, smb.parked, replies, r)
        BY <1>1 DEF Sequenced
      <3> QED BY <1>9, <3>1 DEF Known
    <2> QED BY <1>9, <2>1, <2>2 DEF Sequenced
  <1>11. ServerOK'
    <2>1. /\ smb' \in [fid : [Fnum -> PipeId \cup {NoPipe}], parked : SUBSET Requests]
          /\ smb'.parked = {} /\ \A f \in Fnum : smb'.fid[f] = NoPipe
      BY <1>2
    <2> QED BY <1>1, <1>2, <2>1, HandleFacts DEF ServerOK
  <1>12. Sequenced(transport', smb'.parked, replies')
    BY <1>2, <1>10
  <1> QED BY <1>2, <1>8, <1>9, <1>11, <1>12, ServerStep

LEMMA HostStepOK ==
    ASSUME LInv, Host
    PROVE  LInv'
  <1>1. HostOK(host)
    BY ViewFields DEF LInv, Good
  <1>2. HostOK(host')
    BY <1>1, HostActionOK
  <1>3. HostOnly
    BY DEF Host, server_loop_listen, Thread, ProcessWrite, ProcessExit, ServiceDies,
       server_loop_accept, handle_connection, hprintf_flushed, get_token, create_pipes,
       connect_pio, connect_perr, connect, create_process, wait_for_process, flush_pio,
       flush_perr, disconnect, finish
  <1>4. /\ UNCHANGED <<ac, transport, user, smb, replies>>
        /\ transport \in Transports /\ Sequenced(transport, smb.parked, replies) /\ ServerOK
    BY <1>3, ViewFields DEF HostOnly, LInv, Good, Views
  <1>5. ServerOK'
    BY <1>4 DEF ServerOK
  <1> QED BY <1>2, <1>4, <1>5, ServerStep

-----------------------------------------------------------------------------
\* The host as the client finds it.
LEMMA InitHostOK ==
    ASSUME NEW env \in Scenarios, NEW up \in BOOLEAN, NEW v \in Versions
    PROVE  HostOK(InitHost(env, [running |-> up, ver |-> v, loop |-> up, listening |-> up]))
  <1> DEFINE svc == [running |-> up, ver |-> v, loop |-> up, listening |-> up]
             h == InitHost(env, svc)
             empty == [st |-> "none", c2s |-> <<>>, s2c |-> <<>>]
             none == [pc |-> "none", next |-> "none"]
  <1>1. svc \in Services
    BY VersionsAssumption DEF Services
  <1>2. <<>> \in Seq(ClientLines) /\ <<>> \in Seq(Messages) /\ <<>> \in Seq(Nat)
        /\ <<>> \in Seq(CtrlMessages) /\ Len(<<>>) <= 1
    OBVIOUS
  <1>3. empty \in Pipes /\ none \in Threads
    BY <1>2 DEF Pipes, PipeStates, Threads, ThreadCalls
  <1>4. [io |-> <<>>, err |-> <<>>] \in [io : Seq(Nat), err : Seq(Nat)]
    BY <1>2
  <1> HIDE DEF svc
  <1>5. /\ h.pipe = [p \in PipeId |-> empty] /\ h.th = [k \in Conn |-> none]
        /\ h.nconn = 0 /\ h.ec = 0
    BY DEF InitHost
  <1>6. h \in Hosts
    <2>1. [p \in PipeId |-> empty] \in [PipeId -> Pipes] /\ [k \in Conn |-> none] \in [Conn -> Threads]
      BY <1>3
    <2>2. 0 \in 0 .. MaxConn
      BY BoundsAssumption
    <2> QED BY <1>1, <1>4, <2>1, <2>2 DEF InitHost, Hosts
  <1>7. ASSUME NEW k \in Conn PROVE ConnOK(h, k)
    <2>1. h.pipe[Ctrl(k)] = empty /\ h.th[k] = none
      BY <1>5, PipeNames
    <2> HIDE DEF h
    <2> QED BY <1>2, <2>1 DEF ConnOK
  <1>8. HostOK(h)
    BY <1>6, <1>7 DEF HostOK
  <1> QED BY <1>8 DEF svc

\* The view before main opens the control pipe.
LEMMA FirstOpen ==
    ASSUME Init
    PROVE  /\ HostOK(host) /\ user = InitUser /\ user \in Users
           /\ replies = <<>> /\ smb.parked = {} /\ smb.fid = [f \in Fnum |-> NoPipe]
           /\ smb \in [fid : [Fnum -> PipeId \cup {NoPipe}], parked : SUBSET Requests]
           /\ \E x : /\ Good(x, {}, <<>>) /\ Opens(x, View, "ctrl")
                     /\ x.t = smbcli_transport_init /\ x.u = InitUser /\ x.h = host
                     /\ \A p \in Name : x.ac[p] = async_context(p)
  <1> DEFINE a == [p \in Name |-> async_context(p)]
             t == smbcli_transport_init
             x == [ac |-> a, t |-> t, u |-> user, h |-> host]
             y == With(x, "ctrl", async_open)
             w == [ac |-> a, t |-> t]
  <1>1. HostOK(host)
    BY InitHostOK DEF Init
  <1>2. user = InitUser /\ user \in Users
    <2>1. <<>> \in Seq(Nat)
      OBVIOUS
    <2>2. [io |-> <<>>, err |-> <<>>] \in [io : Seq(Nat), err : Seq(Nat)]
      BY <2>1
    <2>3. user = InitUser
      BY DEF Init
    <2> QED BY <2>2, <2>3 DEF InitUser, Users
  <1>3. replies = <<>> /\ smb = [fid |-> [f \in Fnum |-> NoPipe], parked |-> {}]
    BY DEF Init
  <1>4. t \in Transports /\ t.pending_recv = {} /\ t.wire = <<>> /\ t.next_mid = 1
    <2>1. <<>> \in Seq(Requests)
      OBVIOUS
    <2> QED BY <2>1 DEF smbcli_transport_init, Transports
  <1>5. ASSUME NEW p \in Name
        PROVE  async_context(p) \in Contexts /\ ContextOK(async_context(p), p)
               /\ async_context(p).rreq = NULL
    <2>1. NULL \in Int /\ NULL \in Handles(p)
      BY HandleFacts DEF NULL
    <2>2. async_context(p) \in Contexts /\ async_context(p).rreq = NULL
      BY <2>1 DEF async_context, Contexts
    <2> QED BY <2>1, <2>2 DEF async_context, ContextOK
  <1>6. a \in [Name -> Contexts] /\ ContextsOK(a) /\ \A p \in Name : a[p].rreq = NULL
    BY <1>5 DEF ContextsOK
  <1>7. \A p \in Name : a[p] = async_context(p)
    OBVIOUS
  <1> DEFINE m == async_open([c |-> a["ctrl"], t |-> t])
  <1>8. ac = [a EXCEPT !["ctrl"] = m.c] /\ transport = m.t
    BY DEF Init, With
  <1>9. y.ac = [a EXCEPT !["ctrl"] = m.c] /\ y.t = m.t /\ y.u = user /\ y.h = host
        /\ y = [ac |-> y.ac, t |-> y.t, u |-> user, h |-> host]
    <2>1. y = [x EXCEPT !.ac["ctrl"] = m.c, !.t = m.t]
      BY DEF With
    <2> HIDE DEF a, t, m, y
    <2> QED BY <2>1
  <1>10. y = View
    BY <1>8, <1>9 DEF View
  <1> HIDE DEF a, t, m
  <1>11. x \in Views
    BY <1>1, <1>2, <1>4, <1>6 DEF Views, HostOK
  <1>12. Sequenced(t, {}, <<>>)
    BY <1>4 DEF Sequenced, Placed
  <1>13. Own(a, t)
    BY <1>4, <1>6 DEF Own, NULL
  <1>14. Good(x, {}, <<>>)
    BY <1>1, <1>6, <1>11, <1>12, <1>13 DEF Good
  <1>15. x.t = t /\ x.u = InitUser /\ x.h = host /\ x.ac = a
    BY <1>2
  <1> HIDE DEF x
  <1>16. Opens(x, y, "ctrl")
    BY <1>14, Operations, Names DEF Good
  <1> HIDE DEF y
  <1>17. Opens(x, View, "ctrl")
    BY <1>10, <1>16
  <1>18. /\ smb \in [fid : [Fnum -> PipeId \cup {NoPipe}], parked : SUBSET Requests]
         /\ smb.parked = {} /\ smb.fid = [f \in Fnum |-> NoPipe]
    BY <1>3
  <1> QED BY <1>1, <1>2, <1>3, <1>7, <1>14, <1>15, <1>17, <1>18 DEF t

LEMMA InitOK ==
    ASSUME Init
    PROVE  LInv
  <1>1. PICK x : Good(x, {}, <<>>) /\ Opens(x, View, "ctrl")
    BY FirstOpen
  <1>2. Server({}, <<>>)
    BY DEF Server
  <1>3. Good(View, {}, <<>>)
    BY <1>1, <1>2, StepsGood, Names
  <1>4. ServerOK
    <2>1. <<>> \in Seq(Replies)
      OBVIOUS
    <2> QED BY <2>1, FirstOpen, HandleFacts DEF ServerOK
  <1> QED BY <1>3, <1>4, FirstOpen DEF LInv

LEMMA NextOK ==
    ASSUME LInv, [Next]_vars
    PROVE  LInv'
  <1>1. CASE UNCHANGED vars
    BY <1>1 DEF vars, LInv, ServerOK, View
  <1> QED BY <1>1, ClientOK, RequestOK, ReadDoneOK, SessionDownOK, HostStepOK DEF Next, SmbServer

\* The requests, contexts, handles and hosts of every behaviour are in order.
THEOREM Ordered == Spec => []LInv
  <1>1. Init => LInv
    BY InitOK
  <1>2. LInv /\ [Next]_vars => LInv'
    BY NextOK
  <1> QED BY <1>1, <1>2, PTL DEF Spec

\* Contexts, transport, user, host and server keep their types in every
\* behaviour, for any versions, scenarios and number of connections: wreq is
\* never set and no write is ever queued (async.c).
THEOREM TypeCorrect == Spec => []TypeOK
  <1>1. LInv => TypeOK
    BY ViewFields DEF LInv, Good, Views, ServerOK, TypeOK
  <1> QED BY <1>1, Ordered, PTL

\* winexesvc.c, hprintf: WriteFile is followed by FlushFileBuffers, so the
\* service never puts a second line into a control pipe before the client has
\* read the first, and on_ctrl_pipe_read gets one command per read.
THEOREM OneLine == Spec => []OneLinePerRead
  <1>1. LInv => OneLinePerRead
    BY ViewFields DEF LInv, Good, HostOK, ConnOK, OneLinePerRead
  <1> QED BY <1>1, Ordered, PTL

-----------------------------------------------------------------------------
(***************************************************************************)
(* NoTimeoutWhileRunning.                                                  *)
(***************************************************************************)

\* s is t after some requests were sent and others forgotten.
Grew(t, s) ==
    /\ t \in Transports /\ s \in Transports
    /\ s.dead = t.dead
    /\ s.next_mid >= t.next_mid
    /\ \A i \in DOMAIN t.wire : i \in DOMAIN s.wire /\ s.wire[i] = t.wire[i]
    /\ \A i \in DOMAIN s.wire : i \in DOMAIN t.wire \/ s.wire[i].mid >= t.next_mid
    /\ \A q \in s.pending_recv : q \in t.pending_recv \/ q.mid >= t.next_mid
    /\ ~t.request_timeout =>
          /\ ~s.request_timeout
          /\ \A q \in s.pending_recv : q \in t.pending_recv \/ ~q.timed

LEMMA GrewDelivered ==
    ASSUME NEW t \in Transports, NEW s, NEW p, NEW r, NEW K,
           NextReq(t, r, p), Delivered(t, s, r, K)
    PROVE  Grew(t, s)
  <1>1. t.next_mid \in Nat /\ t.wire \in Seq(Requests)
    BY DEF Transports
  <1>2. r \in Requests /\ r.mid = t.next_mid /\ r.timed = t.request_timeout
    BY DEF NextReq
  <1>3. /\ s \in Transports /\ s.dead = t.dead /\ s.next_mid = t.next_mid + 1
        /\ K \subseteq t.pending_recv
        /\ s.request_timeout = (t.request_timeout /\ r.kind # "read")
    BY DEF Delivered
  <1>4. CASE t.dead
    <2>1. s.pending_recv = K /\ s.wire = t.wire
      BY <1>4 DEF Delivered
    <2>2. t.next_mid + 1 >= t.next_mid
      BY <1>1
    <2>3. /\ \A i \in DOMAIN t.wire : i \in DOMAIN s.wire /\ s.wire[i] = t.wire[i]
          /\ \A i \in DOMAIN s.wire : i \in DOMAIN t.wire
          /\ \A q \in s.pending_recv : q \in t.pending_recv
          /\ s.next_mid >= t.next_mid /\ s.dead = t.dead
          /\ ~t.request_timeout => ~s.request_timeout
      BY <1>3, <2>1, <2>2
    <2> QED BY <1>3, <2>3 DEF Grew
  <1>5. CASE ~t.dead
    <2>1. s.wire = Append(t.wire, r) /\ s.pending_recv = K \cup {r}
      BY <1>5 DEF Delivered
    <2>2. /\ \A i \in DOMAIN t.wire : i \in DOMAIN s.wire /\ s.wire[i] = t.wire[i]
          /\ s.wire[Len(t.wire) + 1] = r
          /\ \A i \in DOMAIN s.wire : i \in DOMAIN t.wire \/ i = Len(t.wire) + 1
      BY <1>1, <1>2, <2>1, Appended
    <2>3. \A q \in s.pending_recv : q \in t.pending_recv \/ q = r
      BY <1>3, <2>1
    <2>4. t.next_mid + 1 >= t.next_mid /\ r.mid >= t.next_mid
      BY <1>1, <1>2
    <2> QED BY <1>2, <1>3, <2>2, <2>3, <2>4 DEF Grew
  <1> QED BY <1>4, <1>5

LEMMA GrewSame ==
    ASSUME NEW t \in Transports, NEW s \in Transports, s.dead = t.dead,
           s.next_mid = t.next_mid, s.wire = t.wire, s.pending_recv \subseteq t.pending_recv,
           s.request_timeout = t.request_timeout
    PROVE  Grew(t, s)
  <1>1. t.next_mid >= t.next_mid
    BY DEF Transports
  <1> QED BY <1>1 DEF Grew

LEMMA GrewTrans ==
    ASSUME NEW t, NEW s, NEW v, Grew(t, s), Grew(s, v)
    PROVE  Grew(t, v)
  <1>1. t \in Transports /\ s \in Transports /\ v \in Transports
    BY DEF Grew
  <1>2. t.next_mid \in Nat /\ s.next_mid \in Nat /\ v.next_mid \in Nat
    BY <1>1 DEF Transports
  <1>3. \A i \in DOMAIN v.wire : v.wire[i].mid \in Nat
    <2>1. v.wire \in Seq(Requests)
      BY <1>1 DEF Transports
    <2>2. \A i \in DOMAIN v.wire : v.wire[i] \in Requests
      BY <2>1
    <2> QED BY <2>2, MidsAreNat
  <1>4. \A q \in v.pending_recv : q.mid \in Nat
    <2>1. v.pending_recv \subseteq Requests
      BY <1>1 DEF Transports
    <2> QED BY <2>1, MidsAreNat
  <1>5. v.dead = t.dead /\ v.next_mid >= t.next_mid
    BY <1>2 DEF Grew
  <1>6. \A i \in DOMAIN t.wire : i \in DOMAIN v.wire /\ v.wire[i] = t.wire[i]
    BY DEF Grew
  <1>7. \A i \in DOMAIN v.wire : i \in DOMAIN t.wire \/ v.wire[i].mid >= t.next_mid
    <2> SUFFICES ASSUME NEW i \in DOMAIN v.wire, i \notin DOMAIN t.wire
                 PROVE  v.wire[i].mid >= t.next_mid
      OBVIOUS
    <2>1. CASE i \in DOMAIN s.wire
      BY <2>1 DEF Grew
    <2>2. CASE i \notin DOMAIN s.wire
      <3>1. v.wire[i].mid >= s.next_mid /\ s.next_mid >= t.next_mid
        BY <2>2 DEF Grew
      <3> QED BY <1>2, <1>3, <3>1
    <2> QED BY <2>1, <2>2
  <1>8. \A q \in v.pending_recv : q \in t.pending_recv \/ q.mid >= t.next_mid
    <2> SUFFICES ASSUME NEW q \in v.pending_recv, q \notin t.pending_recv
                 PROVE  q.mid >= t.next_mid
      OBVIOUS
    <2>1. CASE q \in s.pending_recv
      BY <2>1 DEF Grew
    <2>2. CASE q \notin s.pending_recv
      <3>1. q.mid >= s.next_mid /\ s.next_mid >= t.next_mid
        BY <2>2 DEF Grew
      <3> QED BY <1>2, <1>4, <3>1
    <2> QED BY <2>1, <2>2
  <1>9. ~t.request_timeout =>
          /\ ~v.request_timeout
          /\ \A q \in v.pending_recv : q \in t.pending_recv \/ ~q.timed
    BY DEF Grew
  <1> QED BY <1>1, <1>5, <1>6, <1>7, <1>8, <1>9 DEF Grew

\* ... and for views.
Later(x, y) == x \in Views /\ y \in Views /\ Grew(x.t, y.t)

LEMMA LaterTrans ==
    ASSUME NEW x, NEW y, NEW z, Later(x, y), Later(y, z)
    PROVE  Later(x, z)
  BY GrewTrans DEF Later

LEMMA StepsLater ==
    ASSUME NEW x \in Views, NEW y, NEW p
    PROVE  /\ ReadsOn(x, y, p) => Later(x, y)
           /\ Closes(x, y, p) => Later(x, y)
           /\ Opens(x, y, p) => Later(x, y)
           /\ \A d : Writes(x, y, p, d) => Later(x, y)
           /\ Touched(x, y, p) => Later(x, y)
           /\ Received(x, y, p) => Later(x, y)
           /\ Ended(x, y) => Later(x, y)
           /\ \A u : Bare(x, y, u) => Later(x, y)
           /\ \A u, h : Swapped(x, y, u, h) => Later(x, y)
  <1>1. x.t \in Transports
    BY DEF Views
  <1>2. ASSUME NEW r, NEW K, Posted(x, y, p, r, K) PROVE Later(x, y)
    <2>1. y \in Views /\ NextReq(x.t, r, p) /\ Delivered(x.t, y.t, r, K)
      BY <1>2 DEF Posted
    <2> QED BY <1>1, <2>1, GrewDelivered DEF Later
  <1>3. ASSUME y \in Views, y.t = x.t PROVE Later(x, y)
    BY <1>1, <1>3, GrewSame DEF Later
  <1>4. ReadsOn(x, y, p) => Later(x, y)
    BY <1>2 DEF ReadsOn
  <1>5. Closes(x, y, p) => Later(x, y)
    BY <1>2 DEF Closes
  <1>6. Opens(x, y, p) => Later(x, y)
    BY <1>2 DEF Opens
  <1>7. \A d : Writes(x, y, p, d) => Later(x, y)
    BY <1>2 DEF Writes
  <1>8. Touched(x, y, p) => Later(x, y)
    BY <1>3 DEF Touched
  <1>9. Received(x, y, p) => Later(x, y)
    BY <1>8 DEF Received
  <1>10. ASSUME Ended(x, y) PROVE Later(x, y)
    <2>1. y \in Views /\ y.t \in Transports
      BY <1>10 DEF Ended, Views
    <2>2. /\ y.t.dead = x.t.dead /\ y.t.next_mid = x.t.next_mid /\ y.t.wire = x.t.wire
          /\ y.t.pending_recv \subseteq x.t.pending_recv
          /\ y.t.request_timeout = x.t.request_timeout
      BY <1>10 DEF Ended
    <2> QED BY <1>1, <2>1, <2>2, GrewSame DEF Later
  <1>11. \A u : Bare(x, y, u) => Later(x, y)
    BY <1>3 DEF Bare
  <1>12. \A u, h : Swapped(x, y, u, h) => Later(x, y)
    BY <1>3 DEF Swapped
  <1> QED BY <1>4, <1>5, <1>6, <1>7, <1>8, <1>9, <1>10, <1>11, <1>12

\* Every handler sends requests, and forgets some, but takes none back.
LEMMA HandledLater ==
    ASSUME NEW x \in Views, NEW y, NEW r \in Requests,
           NEW status, NEW f, NEW m, Handled(x, y, r, status, f, m)
    PROVE  Later(x, y)
  <1>1. r.pipe \in Name
    BY DEF Requests
  <1>2. CASE Bare(x, y, [x.u EXCEPT !.fault = TRUE])
    BY <1>2, StepsLater
  <1>3. ASSUME NEW p \in Name, IoOutcome(x, y, p) PROVE Later(x, y)
    <2>1. CASE Touched(x, y, p)
      BY <2>1, StepsLater
    <2>2. CASE \E w, z : /\ Touched(x, w, p)
                         /\ \E u \in Users : Bare(w, z, u) /\ Aside(w.u, u)
                         /\ ReadsOn(z, y, p)
      <3>1. PICK w, z : /\ Touched(x, w, p)
                        /\ \E u \in Users : Bare(w, z, u)
                        /\ ReadsOn(z, y, p)
        BY <2>2
      <3>2. Later(x, w) /\ w \in Views
        BY <3>1, StepsLater DEF Later
      <3>3. Later(w, z) /\ z \in Views
        BY <3>1, <3>2, StepsLater DEF Later
      <3>4. Later(z, y)
        BY <3>1, <3>3, StepsLater
      <3> QED BY <3>2, <3>3, <3>4, LaterTrans
    <2>3. CASE \E w : Touched(x, w, p) /\ Closes(w, y, p)
      <3>1. PICK w : Touched(x, w, p) /\ Closes(w, y, p)
        BY <2>3
      <3>2. Later(x, w) /\ w \in Views
        BY <3>1, StepsLater DEF Later
      <3>3. Later(w, y)
        BY <3>1, <3>2, StepsLater
      <3> QED BY <3>2, <3>3, LaterTrans
    <2> QED BY <1>3, <2>1, <2>2, <2>3 DEF IoOutcome
  <1>4. CASE CtrlOpened(x, y, f)
    <2>1. PICK w, z, v : /\ Touched(x, w, "ctrl")
                         /\ \E u : Bare(w, z, u)
                         /\ Writes(z, v, "ctrl", <<"get version">>)
                         /\ ReadsOn(v, y, "ctrl")
      BY <1>4 DEF CtrlOpened
    <2>2. Later(x, w) /\ w \in Views
      BY <2>1, StepsLater DEF Later
    <2>3. Later(w, z) /\ z \in Views
      BY <2>1, <2>2, StepsLater DEF Later
    <2>4. Later(z, v) /\ v \in Views
      BY <2>1, <2>3, StepsLater DEF Later
    <2>5. Later(v, y)
      BY <2>1, <2>4, StepsLater
    <2> QED BY <2>2, <2>3, <2>4, <2>5, LaterTrans
  <1>5. CASE CtrlRead(x, y, m)
    <2>1. PICK w, z : /\ Received(x, w, "ctrl")
                      /\ \/ CtrlPipes(w, z)
                         \/ CtrlCode(w, z, m)
                         \/ CtrlRun(w, z, m)
                         \/ CtrlReplace(w, z, m)
                         \/ z = w
                      /\ ReadsOn(z, y, "ctrl")
      BY <1>5 DEF CtrlRead
    <2>2. Later(x, w) /\ w \in Views
      BY <2>1, StepsLater DEF Later
    <2>3. CASE CtrlPipes(w, z)
      <3>1. PICK a, b, c : /\ Touched(w, a, "io") /\ Opens(a, b, "io")
                           /\ Touched(b, c, "err") /\ Opens(c, z, "err")
        BY <2>3 DEF CtrlPipes
      <3>2. Later(w, a) /\ a \in Views
        BY <2>2, <3>1, StepsLater DEF Later
      <3>3. Later(a, b) /\ b \in Views
        BY <3>1, <3>2, StepsLater DEF Later
      <3>4. Later(b, c) /\ c \in Views
        BY <3>1, <3>3, StepsLater DEF Later
      <3>5. Later(c, z) /\ z \in Views
        BY <3>1, <3>4, StepsLater DEF Later
      <3>6. Later(x, z)
        BY <2>2, <3>2, <3>3, <3>4, <3>5, LaterTrans
      <3>7. Later(z, y)
        BY <2>1, <3>5, StepsLater
      <3> QED BY <3>6, <3>7, LaterTrans
    <2>4. CASE CtrlCode(w, z, m)
      <3>1. Later(w, z) /\ z \in Views
        BY <2>2, <2>4, StepsLater DEF CtrlCode, Later
      <3>2. Later(z, y)
        BY <2>1, <3>1, StepsLater
      <3> QED BY <2>2, <3>1, <3>2, LaterTrans
    <2>5. CASE CtrlRun(w, z, m)
      <3>1. PICK v : Writes(w, v, "ctrl", Setup \o <<"run">>) /\ \E u : Bare(v, z, u)
        BY <2>5 DEF CtrlRun
      <3>2. Later(w, v) /\ v \in Views
        BY <2>2, <3>1, StepsLater DEF Later
      <3>3. Later(v, z) /\ z \in Views
        BY <3>1, <3>2, StepsLater DEF Later
      <3>4. Later(z, y)
        BY <2>1, <3>3, StepsLater
      <3> QED BY <2>2, <3>2, <3>3, <3>4, LaterTrans
    <2>6. CASE CtrlReplace(w, z, m)
      <3>1. PICK v : Closes(w, v, "ctrl") /\ \E u : Bare(v, z, u)
        BY <2>6 DEF CtrlReplace
      <3>2. Later(w, v) /\ v \in Views
        BY <2>2, <3>1, StepsLater DEF Later
      <3>3. Later(v, z) /\ z \in Views
        BY <3>1, <3>2, StepsLater DEF Later
      <3>4. Later(z, y)
        BY <2>1, <3>3, StepsLater
      <3> QED BY <2>2, <3>2, <3>3, <3>4, LaterTrans
    <2>7. CASE z = w
      <3>1. Later(w, y)
        BY <2>1, <2>2, <2>7, StepsLater
      <3> QED BY <2>2, <3>1, LaterTrans
    <2> QED BY <2>1, <2>3, <2>4, <2>5, <2>6, <2>7
  <1>6. CASE Received(x, y, "ctrl")
    BY <1>6, StepsLater
  <1>7. CASE CtrlError(x, y, r.kind, status)
    <2>1. PICK w : /\ Touched(x, w, "ctrl")
                   /\ \/ \E z : (\E u : Bare(w, z, u)) /\ Ended(z, y)
                      \/ Ended(w, y)
                      \/ y = w
                      \/ \E z, h : (\E u : Swapped(w, z, u, h)) /\ Opens(z, y, "ctrl")
      BY <1>7 DEF CtrlError
    <2>2. Later(x, w) /\ w \in Views
      BY <2>1, StepsLater DEF Later
    <2>3. ASSUME NEW z, \E u : Bare(w, z, u), Ended(z, y) PROVE Later(w, y)
      <3>1. Later(w, z) /\ z \in Views
        BY <2>2, <2>3, StepsLater DEF Later
      <3>2. Later(z, y)
        BY <2>3, <3>1, StepsLater
      <3> QED BY <3>1, <3>2, LaterTrans
    <2>4. ASSUME NEW z, NEW h, \E u : Swapped(w, z, u, h), Opens(z, y, "ctrl")
          PROVE  Later(w, y)
      <3>1. Later(w, z) /\ z \in Views
        BY <2>2, <2>4, StepsLater DEF Later
      <3>2. Later(z, y)
        BY <2>4, <3>1, StepsLater
      <3> QED BY <3>1, <3>2, LaterTrans
    <2>5. Ended(w, y) => Later(w, y)
      BY <2>2, StepsLater
    <2> QED BY <2>1, <2>2, <2>3, <2>4, <2>5, LaterTrans
  <1>8. CASE CtrlClosed(x, y)
    <2>1. PICK w : /\ Touched(x, w, "ctrl")
                   /\ \/ y = w
                      \/ \E z, h : (\E u : Swapped(w, z, u, h)) /\ Opens(z, y, "ctrl")
      BY <1>8 DEF CtrlClosed
    <2>2. Later(x, w) /\ w \in Views
      BY <2>1, StepsLater DEF Later
    <2>3. ASSUME NEW z, NEW h, \E u : Swapped(w, z, u, h), Opens(z, y, "ctrl")
          PROVE  Later(w, y)
      <3>1. Later(w, z) /\ z \in Views
        BY <2>2, <2>3, StepsLater DEF Later
      <3>2. Later(z, y)
        BY <2>3, <3>1, StepsLater
      <3> QED BY <3>1, <3>2, LaterTrans
    <2> QED BY <2>1, <2>2, <2>3, LaterTrans
  <1> QED BY <1>1, <1>2, <1>3, <1>4, <1>5, <1>6, <1>7, <1>8 DEF Handled

-----------------------------------------------------------------------------
\* Before the control pipe is open: nothing but its open is under way.
Opening(x) ==
    /\ x.t.request_timeout
    /\ x.u.state = "OPENING" /\ x.u.timers = 0 /\ x.u.stdin = 0
    /\ \A r \in x.t.pending_recv :
          /\ r.kind = "open" /\ r.pipe = "ctrl"
          /\ \A q \in x.t.pending_recv : q = r

\* "get version" has been sent: one read, which has a timeout, and writes.
Asking(x) ==
    /\ ~x.t.request_timeout
    /\ x.u.state = "GETTING_VERSION" /\ x.u.stdin = 0
    /\ \A r \in x.t.pending_recv : r.pipe = "ctrl" /\ r.kind \in {"read", "write"}
    /\ \A r \in x.t.pending_recv : r.kind = "read" => r.timed
    /\ \A r, q \in x.t.pending_recv : r.kind = "read" /\ q.kind = "read" => q = r

\* No request can time out any more.
Quiet(x) == ~x.t.request_timeout /\ \A r \in x.t.pending_recv : ~r.timed

Phase(x) == Opening(x) \/ Asking(x) \/ Quiet(x)

\* A timed write is answered before the timed read is.
Answered(R, w) == \E j \in DOMAIN R : R[j].mid = w.mid

Before(t, S, R, w, r) ==
    /\ \A i \in DOMAIN R : R[i].mid = r.mid => \E j \in DOMAIN R : j < i /\ R[j].mid = w.mid
    /\ r \in S => Answered(R, w)
    /\ \A i \in DOMAIN t.wire : t.wire[i].mid = r.mid =>
          Answered(R, w) \/ \E j \in DOMAIN t.wire : j < i /\ t.wire[j].mid = w.mid

Pair(t, w, r) ==
    /\ w \in t.pending_recv /\ w.timed /\ w.kind = "write"
    /\ r \in t.pending_recv /\ r.timed /\ r.kind = "read"

Order(t, S, R) == \A w, r : Pair(t, w, r) => Before(t, S, R, w, r)

TInv == Phase(View) /\ (Alive /\ ~transport.dead => Order(transport, smb.parked, replies))

\* Order when no pair is under way.
LEMMA NoPair ==
    ASSUME NEW x, NEW S, NEW R, Opening(x) \/ Quiet(x)
    PROVE  Order(x.t, S, R)
  BY DEF Order, Pair, Opening, Quiet

LEMMA OrderFewer ==
    ASSUME NEW t, NEW S, NEW R, Order(t, S, R), NEW s,
           s.pending_recv \subseteq t.pending_recv, s.wire = t.wire
    PROVE  Order(s, S, R)
  BY DEF Order, Pair, Before

LEMMA OrderLater ==
    ASSUME NEW t, NEW S, NEW R, Order(t, S, R), Sequenced(t, S, R), NEW s, Grew(t, s),
           ~t.request_timeout
    PROVE  Order(s, S, R)
  <1> SUFFICES ASSUME NEW w, NEW r, Pair(s, w, r) PROVE Before(s, S, R, w, r)
    BY DEF Order
  <1>1. w \in t.pending_recv /\ r \in t.pending_recv
    BY DEF Pair, Grew
  <1>2. Before(t, S, R, w, r)
    BY <1>1 DEF Order, Pair
  <1>3. r.mid < t.next_mid /\ r.mid \in Nat /\ t.next_mid \in Nat
    <2>1. t \in Transports
      BY DEF Grew
    <2>2. r \in Requests /\ t.next_mid \in Nat
      BY <1>1, <2>1 DEF Transports
    <2>3. r.mid < t.next_mid
      BY <1>1 DEF Sequenced, Known
    <2> QED BY <2>2, <2>3, MidsAreNat
  <1>4. \A i \in DOMAIN s.wire : s.wire[i].mid = r.mid => i \in DOMAIN t.wire
    BY <1>3 DEF Grew
  <1>5. \A i \in DOMAIN t.wire : i \in DOMAIN s.wire /\ s.wire[i] = t.wire[i]
    BY DEF Grew
  <1> QED BY <1>2, <1>4, <1>5 DEF Before

LEMMA OrderTail ==
    ASSUME NEW t, NEW S, NEW R \in Seq(Replies), R # <<>>, Order(t, S, R),
           \A q \in t.pending_recv : q.mid # Head(R).mid
    PROVE  Order(t, S, Tail(R))
  <1> SUFFICES ASSUME NEW w, NEW r, Pair(t, w, r) PROVE Before(t, S, Tail(R), w, r)
    BY DEF Order
  <1> DEFINE P == Tail(R)
  <1>1. Before(t, S, R, w, r)
    BY DEF Order
  <1>2. R[1].mid # w.mid
    BY TailWithin DEF Pair
  <1>3. /\ \A i \in DOMAIN P : i + 1 \in DOMAIN R /\ P[i] = R[i + 1] /\ i \in Nat
        /\ \A i \in DOMAIN R : i # 1 => i - 1 \in DOMAIN P /\ P[i - 1] = R[i]
        /\ \A i \in DOMAIN R : i \in Nat
    BY TailWithin
  <1> HIDE DEF P
  <1>4. Answered(R, w) => Answered(P, w)
    BY <1>2, <1>3 DEF Answered
  <1>5. ASSUME NEW i \in DOMAIN P, P[i].mid = r.mid
        PROVE  \E j \in DOMAIN P : j < i /\ P[j].mid = w.mid
    <2>1. i + 1 \in DOMAIN R /\ R[i + 1].mid = r.mid /\ i \in Nat
      BY <1>3, <1>5
    <2>2. PICK j \in DOMAIN R : j < i + 1 /\ R[j].mid = w.mid
      BY <1>1, <2>1 DEF Before
    <2>3. j - 1 \in DOMAIN P /\ P[j - 1].mid = w.mid /\ j \in Nat
      BY <1>2, <1>3, <2>2
    <2>4. j - 1 < i
      BY <2>1, <2>2, <2>3
    <2> QED BY <2>3, <2>4
  <1>6. Before(t, S, P, w, r)
    BY <1>1, <1>4, <1>5 DEF Before
  <1> QED BY <1>6 DEF P

\* The phases depend on what is pending and on what may start more.
LEMMA PhaseSame ==
    ASSUME NEW x, NEW y, y.t.pending_recv \subseteq x.t.pending_recv,
           y.t.request_timeout = x.t.request_timeout,
           y.u.state = x.u.state, y.u.timers = x.u.timers, y.u.stdin = x.u.stdin
    PROVE  /\ Opening(x) => Opening(y)
           /\ Asking(x) => Asking(y)
           /\ Quiet(x) => Quiet(y)
           /\ Phase(x) => Phase(y)
  BY DEF Phase, Opening, Asking, Quiet

LEMMA QuietLater ==
    ASSUME NEW x, NEW y, Quiet(x), Later(x, y)
    PROVE  Quiet(y)
  BY DEF Quiet, Later, Grew

LEMMA PhaseEnded ==
    ASSUME NEW x, NEW y, Phase(x), Ended(x, y)
    PROVE  Phase(y)
  <1>1. y.t.pending_recv = {} /\ y.t.request_timeout = x.t.request_timeout
        /\ y.u.timers = 0 /\ y.u.stdin = 0 /\ y.u.state = x.u.state
    BY DEF Ended
  <1> QED BY <1>1 DEF Phase, Opening, Asking, Quiet

\* The open of the control pipe is answered: "get version" and the first read
\* are sent, in this order, the last requests that can time out; or the pipe is
\* opened again, or nothing is under way any more.
LEMMA OpeningHandled ==
    ASSUME NEW S, NEW R, Server(S, R), NEW x, Opening(x), x.t.pending_recv = {},
           Good(x, S, R), NEW r \in Requests, r.kind = "open", r.pipe = "ctrl",
           NEW y, NEW status, NEW f, NEW m, Handled(x, y, r, status, f, m)
    PROVE  Phase(y) /\ Order(y.t, S, R)
  <1>1. x \in Views /\ x.t \in Transports
    BY DEF Good, Views
  <1>2. CASE Bare(x, y, [x.u EXCEPT !.fault = TRUE])
    <2>1. y.t = x.t /\ y.u = [x.u EXCEPT !.fault = TRUE] /\ x.u \in Users
      BY <1>1, <1>2 DEF Bare, Views
    <2>2. y.u.state = x.u.state /\ y.u.timers = x.u.timers /\ y.u.stdin = x.u.stdin
      BY <2>1 DEF Users
    <2>3. Opening(y)
      BY <2>1, <2>2, PhaseSame
    <2> QED BY <2>3, NoPair DEF Phase
  <1>3. CASE CtrlOpened(x, y, f)
    <2>1. PICK w, z, v :
             /\ Touched(x, w, "ctrl")
             /\ Bare(w, z, [w.u EXCEPT !.state = "GETTING_VERSION", !.handler = TRUE, !.timers = @ + 1])
             /\ Writes(z, v, "ctrl", <<"get version">>)
             /\ ReadsOn(v, y, "ctrl")
      BY <1>3 DEF CtrlOpened
    <2>2. z.t = x.t /\ z.u.state = "GETTING_VERSION" /\ z.u.stdin = 0
      <3>1. w.t = x.t /\ w.u = x.u /\ x.u \in Users
        BY <1>1, <2>1 DEF Touched, Views
      <3>2. z.t = w.t /\ z.u = [w.u EXCEPT !.state = "GETTING_VERSION", !.handler = TRUE, !.timers = @ + 1]
        BY <2>1 DEF Bare
      <3> QED BY <3>1, <3>2 DEF Users, Opening
    <2>3. PICK a : a.kind = "write" /\ Posted(z, v, "ctrl", a, z.t.pending_recv)
      BY <2>1 DEF Writes
    <2>4. PICK b : b.kind = "read" /\ Posted(v, y, "ctrl", b, v.t.pending_recv)
      BY <2>1 DEF ReadsOn
    <2>5. y.u.state = "GETTING_VERSION" /\ y.u.stdin = 0
      BY <2>2, <2>3, <2>4 DEF Posted
    <2>6. /\ v.t \in Transports /\ v.t.next_mid = x.t.next_mid + 1 /\ v.t.dead = x.t.dead
          /\ v.t.request_timeout
          /\ x.t.dead => v.t.pending_recv = {}
          /\ ~x.t.dead => v.t.pending_recv = {a} /\ v.t.wire = Append(x.t.wire, a)
          /\ a \in Requests /\ a.pipe = "ctrl" /\ a.mid = x.t.next_mid /\ a.timed
      BY <2>2, <2>3 DEF Posted, NextReq, Delivered, Opening
    <2>7. /\ y.t.dead = x.t.dead /\ ~y.t.request_timeout
          /\ x.t.dead => y.t.pending_recv = {}
          /\ ~x.t.dead => y.t.pending_recv = {a, b} /\ y.t.wire = Append(v.t.wire, b)
          /\ b \in Requests /\ b.pipe = "ctrl" /\ b.mid = v.t.next_mid /\ b.timed
      BY <2>4, <2>6 DEF Posted, NextReq, Delivered
    <2>8. CASE x.t.dead
      <3>1. Quiet(y)
        BY <2>7, <2>8 DEF Quiet
      <3> QED BY <3>1, NoPair DEF Phase
    <2>9. CASE ~x.t.dead
      <3>1. \A q \in y.t.pending_recv : q = a \/ q = b
        BY <2>7, <2>9
      <3>2. Asking(y)
        BY <2>3, <2>4, <2>5, <2>6, <2>7, <3>1 DEF Asking
      <3>3. x.t.next_mid \in Nat /\ x.t.wire \in Seq(Requests)
        BY <1>1 DEF Transports
      <3>4. b.mid = x.t.next_mid + 1
        BY <2>6, <2>7
      <3>5. \A n \in Nat : n < x.t.next_mid => n # b.mid
        BY <3>3, <3>4
      <3>6. S \subseteq Requests /\ R \in Seq(Replies) /\ Placed(x.t, S, R)
        BY DEF Server, Good, Sequenced
      <3>7. \A i \in DOMAIN R : R[i].mid # b.mid
        <4>1. \A i \in DOMAIN R : R[i] \in Replies /\ R[i].mid < x.t.next_mid
          BY <3>6 DEF Placed
        <4>2. \A i \in DOMAIN R : R[i].mid \in Nat
          BY <4>1 DEF Replies
        <4> QED BY <3>5, <4>1, <4>2
      <3>8. b \notin S
        <4>1. b \in S => b.mid < x.t.next_mid
          BY <3>6 DEF Placed
        <4>2. b.mid \in Nat
          BY <2>7, MidsAreNat
        <4> QED BY <3>5, <4>1, <4>2
      <3> DEFINE n == Len(x.t.wire)
      <3>9. n \in Nat /\ v.t.wire \in Seq(Requests) /\ Len(v.t.wire) = n + 1
            /\ n + 1 \in DOMAIN v.t.wire /\ v.t.wire[n + 1] = a
        <4>1. v.t.wire = Append(x.t.wire, a) /\ a \in Requests
          BY <2>6, <2>9
        <4> QED BY <3>3, <4>1
      <3>10. /\ \A i \in DOMAIN v.t.wire : i \in DOMAIN y.t.wire /\ y.t.wire[i] = v.t.wire[i]
             /\ \A i \in DOMAIN y.t.wire : i \in DOMAIN v.t.wire \/ i = Len(v.t.wire) + 1
        <4>1. y.t.wire = Append(v.t.wire, b) /\ b \in Requests /\ v.t.wire \in Seq(Requests)
          BY <2>7, <2>9, <3>9
        <4> HIDE DEF n
        <4> QED BY <4>1, Appended
      <3>11. \A i \in DOMAIN v.t.wire : v.t.wire[i].mid # b.mid
        <4>1. \A i \in DOMAIN v.t.wire : v.t.wire[i] = a \/ (i \in DOMAIN x.t.wire /\ v.t.wire[i] = x.t.wire[i])
          BY <2>6, <2>9, <3>3, Appended
        <4>2. \A i \in DOMAIN x.t.wire : x.t.wire[i].mid < x.t.next_mid /\ x.t.wire[i].mid \in Nat
          <5>1. \A i \in DOMAIN x.t.wire : x.t.wire[i].mid < x.t.next_mid
            BY <3>6 DEF Placed
          <5>2. \A i \in DOMAIN x.t.wire : x.t.wire[i] \in Requests
            BY <3>3
          <5> QED BY <5>1, <5>2, MidsAreNat
        <4>3. a.mid # b.mid
          BY <2>6, <3>3, <3>4
        <4> QED BY <3>5, <4>1, <4>2, <4>3
      <3>12. n + 1 < Len(v.t.wire) + 1
        BY <3>9
      <3> HIDE DEF n
      <3>13. Before(y.t, S, R, a, b)
        <4>1. ASSUME NEW i \in DOMAIN y.t.wire, y.t.wire[i].mid = b.mid
              PROVE  \E j \in DOMAIN y.t.wire : j < i /\ y.t.wire[j].mid = a.mid
          <5>1. i = Len(v.t.wire) + 1
            BY <3>10, <3>11, <4>1
          <5>2. n + 1 \in DOMAIN y.t.wire /\ y.t.wire[n + 1].mid = a.mid
            BY <3>9, <3>10
          <5> QED BY <3>12, <5>1, <5>2
        <4> QED BY <3>7, <3>8, <4>1 DEF Before
      <3>14. ASSUME NEW p, NEW q, Pair(y.t, p, q) PROVE p = a /\ q = b
        BY <2>3, <2>4, <3>1, <3>14 DEF Pair
      <3>15. Order(y.t, S, R)
        BY <3>13, <3>14 DEF Order
      <3> QED BY <3>2, <3>15 DEF Phase
    <2> QED BY <2>8, <2>9
  <1>4. CASE CtrlError(x, y, r.kind, status)
    <2>1. PICK w : /\ Touched(x, w, "ctrl")
                   /\ \/ \E z : Bare(w, z, [w.u EXCEPT !.return_code = 1]) /\ Ended(z, y)
                      \/ Ended(w, y)
                      \/ \E z, h : /\ Swapped(w, z, [w.u EXCEPT !.activated = TRUE], h)
                                   /\ Opens(z, y, "ctrl")
      BY <1>4 DEF CtrlError
    <2>2. w.t = x.t /\ w.u = x.u /\ x.u \in Users
      BY <1>1, <2>1 DEF Touched, Views
    <2>3. ASSUME NEW z, z.t = x.t, z.u.state = x.u.state, Ended(z, y) PROVE Opening(y)
      BY <2>3 DEF Ended, Opening
    <2>4. ASSUME NEW z, Bare(w, z, [w.u EXCEPT !.return_code = 1]) PROVE z.t = x.t /\ z.u.state = x.u.state
      <3>1. z.u = [x.u EXCEPT !.return_code = 1] /\ z.t = x.t
        BY <2>2, <2>4 DEF Bare
      <3> QED BY <2>2, <3>1 DEF Users
    <2>5. ASSUME NEW z, NEW h, Swapped(w, z, [w.u EXCEPT !.activated = TRUE], h), Opens(z, y, "ctrl")
          PROVE Opening(y)
      <3>1. z.u = [x.u EXCEPT !.activated = TRUE] /\ z.t = x.t
        BY <2>2, <2>5 DEF Swapped
      <3>2. z.u.state = x.u.state /\ z.u.timers = x.u.timers /\ z.u.stdin = x.u.stdin
        BY <2>2, <3>1 DEF Users
      <3>3. PICK b : b.kind = "open" /\ Posted(z, y, "ctrl", b, z.t.pending_recv)
        BY <2>5 DEF Opens
      <3>4. /\ y.u = z.u /\ b.pipe = "ctrl" /\ y.t.request_timeout
            /\ y.t.pending_recv \subseteq {b}
        BY <3>1, <3>3 DEF Posted, NextReq, Delivered, Opening
      <3> QED BY <3>2, <3>3, <3>4 DEF Opening
    <2>6. Opening(y)
      BY <2>1, <2>2, <2>3, <2>4, <2>5
    <2> QED BY <2>6, NoPair DEF Phase
  <1> QED BY <1>2, <1>3, <1>4 DEF Handled

\* The handler of r in any phase, R being the replies left.
LEMMA CompletePhase ==
    ASSUME LInv, Phase(View), NEW r \in transport.pending_recv,
           NEW y, NEW status, NEW f, NEW m, Sound(r, status, f, m),
           Handled(Minus(r), y, r, status, f, m),
           status = "OK" => \A w : ~Pair(transport, w, r),
           NEW R, R \in Seq(Replies), Within(R, replies),
           ~transport.dead => Order(Minus(r).t, smb.parked, R)
    PROVE  Phase(y) /\ (~transport.dead => Order(y.t, smb.parked, R))
  <1> DEFINE x == Minus(r)
             S == smb.parked
  <1>1. /\ x \in Views /\ x.t.pending_recv = transport.pending_recv \ {r} /\ x.u = user
        /\ x.t.request_timeout = transport.request_timeout /\ x.t.dead = transport.dead
    BY MinusIs
  <1>2. Good(x, S, R) /\ Server(S, R)
    <2>1. Good(x, S, replies) /\ S \subseteq Requests
      BY MinusGood, ServerTypes DEF LInv
    <2>2. Good(x, S, R)
      BY <2>1, ShrunkGood
    <2> QED BY <2>1, <2>2 DEF Server
  <1>3. r \in Requests
    <2>1. transport \in Transports
      BY ViewFields DEF LInv, Good, Views
    <2> QED BY <2>1 DEF Transports
  <1>4. Handled(x, y, r, status, f, m) /\ (~transport.dead => Order(x.t, S, R))
    OBVIOUS
  <1> HIDE DEF x, S
  <1>5. Later(x, y)
    BY <1>1, <1>3, <1>4, HandledLater
  <1>6. CASE Opening(View)
    <2>1. r.kind = "open" /\ r.pipe = "ctrl" /\ transport.pending_recv \ {r} = {}
      BY <1>6, ViewFields DEF Opening
    <2>2. Opening(x)
      BY <1>1, <1>6, PhaseSame, ViewFields
    <2>3. x.t.pending_recv = {}
      BY <1>1, <2>1
    <2>4. Phase(y) /\ Order(y.t, S, R)
      BY <1>2, <1>3, <1>4, <2>1, <2>2, <2>3, OpeningHandled
    <2> QED BY <2>4 DEF S
  <1>7. ASSUME ~x.t.request_timeout PROVE ~transport.dead => Order(y.t, S, R)
    <2> SUFFICES ASSUME ~transport.dead PROVE Order(y.t, S, R)
      OBVIOUS
    <2>1. Order(x.t, S, R) /\ Sequenced(x.t, S, R) /\ Grew(x.t, y.t)
      BY <1>2, <1>4, <1>5 DEF Good, Later
    <2> QED BY <1>7, <2>1, OrderLater
  <1>8. CASE Quiet(View)
    <2>1. Quiet(x)
      BY <1>1, <1>8, PhaseSame, ViewFields
    <2>2. Quiet(y)
      BY <1>5, <2>1, QuietLater
    <2> QED BY <1>7, <2>1, <2>2 DEF Quiet, Phase, S
  <1>9. CASE Asking(View)
    <2>1. /\ r.pipe = "ctrl" /\ r.kind \in {"read", "write"} /\ user.state = "GETTING_VERSION"
          /\ r.kind = "read" => r.timed
      BY <1>9, ViewFields DEF Asking
    <2>2. Asking(x) /\ ~x.t.request_timeout /\ x.u.state = "GETTING_VERSION"
      <3>1. Asking(x)
        BY <1>1, <1>9, PhaseSame, ViewFields
      <3> QED BY <3>1 DEF Asking
    <2>3. ASSUME status = "OK", r.kind = "read" PROVE Quiet(x)
      <3>1. \A w \in transport.pending_recv : w.kind = "write" => ~w.timed
        BY <2>1, <2>3 DEF Pair
      <3>2. \A q \in transport.pending_recv : q.kind = "read" => q = r
        BY <1>9, <2>3, ViewFields DEF Asking
      <3>3. \A q \in transport.pending_recv : q.kind = "read" \/ q.kind = "write"
        BY <1>9, ViewFields DEF Asking
      <3> QED BY <1>1, <2>2, <3>1, <3>2, <3>3 DEF Quiet
    <2>4. CASE status = "OK" /\ r.kind = "read"
      <3>1. Quiet(y)
        BY <1>5, <2>3, <2>4, QuietLater
      <3> QED BY <1>7, <2>2, <3>1 DEF Phase, S
    <2>5. CASE status = "OK" /\ r.kind = "write"
      <3>1. Bare(x, y, [x.u EXCEPT !.fault = TRUE]) \/ Received(x, y, "ctrl")
        BY <1>4, <2>1, <2>5 DEF Handled
      <3>2. CASE Received(x, y, "ctrl")
        <4>1. y.t = x.t /\ y.u = x.u
          BY <3>2 DEF Received, Touched
        <4>2. Asking(y)
          BY <2>2, <4>1, PhaseSame
        <4> QED BY <1>7, <2>2, <4>2 DEF Phase, S
      <3>3. CASE Bare(x, y, [x.u EXCEPT !.fault = TRUE])
        <4>1. y.t = x.t /\ y.u = [x.u EXCEPT !.fault = TRUE] /\ x.u \in Users
          BY <1>1, <3>3 DEF Bare, Views
        <4>2. y.u.state = x.u.state /\ y.u.timers = x.u.timers /\ y.u.stdin = x.u.stdin
          BY <4>1 DEF Users
        <4>3. Asking(y)
          BY <2>2, <4>1, <4>2, PhaseSame
        <4> QED BY <1>7, <2>2, <4>3 DEF Phase, S
      <3> QED BY <3>1, <3>2, <3>3
    <2>6. CASE status # "OK"
      <3>1. CtrlError(x, y, r.kind, status)
        BY <1>4, <2>1, <2>6 DEF Handled
      <3>2. status # "OBJECT_NAME_NOT_FOUND"
        BY <2>1 DEF Sound
      <3>3. PICK w : /\ Touched(x, w, "ctrl")
                     /\ \/ \E z : Ended(z, y)
                        \/ y = w /\ w.u.state = "OPENING"
        BY <3>1, <3>2 DEF CtrlError
      <3>4. w.u = x.u
        BY <3>3 DEF Touched
      <3>5. y.t.pending_recv = {}
        BY <2>2, <3>3, <3>4 DEF Ended
      <3>6. ~y.t.request_timeout
        BY <1>5, <2>2 DEF Later, Grew
      <3>7. Quiet(y)
        BY <3>5, <3>6 DEF Quiet
      <3> QED BY <1>7, <2>2, <3>7 DEF Phase, S
    <2> QED BY <2>1, <2>4, <2>5, <2>6
  <1> QED BY <1>6, <1>8, <1>9 DEF Phase

\* A pair, and the answer to its read is the first reply: impossible.
LEMMA ReadAfterWrite ==
    ASSUME NEW t, NEW S, NEW R \in Seq(Replies), R # <<>>, Order(t, S, R), NEW r, r.mid = Head(R).mid
    PROVE  \A w : ~Pair(t, w, r)
  <1> SUFFICES ASSUME NEW w, Pair(t, w, r) PROVE FALSE
    OBVIOUS
  <1>1. 1 \in DOMAIN R /\ R[1].mid = r.mid
    BY TailWithin
  <1>2. PICK j \in DOMAIN R : j < 1
    BY <1>1 DEF Order, Before
  <1> QED BY <1>2

LEMMA FinishRecvTimed ==
    ASSUME LInv, TInv, smbcli_transport_finish_recv
    PROVE  TInv'
  <1> DEFINE p == Head(replies)
             S == smb.parked
  <1>1. /\ Alive /\ replies # <<>> /\ UNCHANGED smb /\ replies \in Seq(Replies)
        /\ transport.dead => transport.pending_recv = {}
        /\ user'.exited \/ replies' = Tail(replies)
    BY DEF smbcli_transport_finish_recv, Ready, LInv, ServerOK
  <1>2. Tail(replies) \in Seq(Replies) /\ Within(Tail(replies), replies)
    BY <1>1, TailWithin
  <1>3. CASE /\ \A r \in transport.pending_recv : r.mid # p.mid
             /\ UNCHANGED <<ac, transport, user, host>>
    <2>1. Phase(View')
      BY <1>3 DEF TInv, View
    <2>2. ~transport.dead => Order(transport, S, Tail(replies))
      BY <1>1, <1>3, OrderTail DEF TInv
    <2>3. user'.exited = user.exited /\ ~user.exited /\ transport' = transport /\ smb' = smb
      BY <1>1, <1>3 DEF Alive
    <2>4. replies' = Tail(replies)
      BY <1>1, <2>3
    <2> QED BY <2>1, <2>2, <2>3, <2>4 DEF TInv
  <1>4. ASSUME NEW r \in transport.pending_recv, r.mid = p.mid,
               Complete(r, p.status, p.fnum, p.msg)
        PROVE  TInv'
    <2>1. ~transport.dead
      BY <1>1
    <2>2. Order(transport, S, replies) /\ Phase(View)
      BY <1>1, <2>1 DEF TInv
    <2>3. Sound(r, p.status, p.fnum, p.msg)
      BY <1>1, <1>4, ReplySound
    <2>4. Handled(Minus(r), View', r, p.status, p.fnum, p.msg)
      BY <1>4, <2>3, CompleteIs
    <2>5. \A w : ~Pair(transport, w, r)
      BY <1>1, <1>4, <2>2, ReadAfterWrite
    <2>6. /\ Minus(r).t.pending_recv = transport.pending_recv \ {r}
          /\ Minus(r).t.wire = transport.wire
      BY MinusIs
    <2>7. Order(Minus(r).t, S, replies)
      BY <2>2, <2>6, OrderFewer
    <2>8. \A q \in Minus(r).t.pending_recv : q.mid # p.mid
      <3>1. Known(transport, S, replies, r)
        BY ViewFields DEF LInv, Good, Sequenced
      <3> QED BY <1>4, <2>6, <3>1 DEF Known
    <2>9. Order(Minus(r).t, S, Tail(replies))
      BY <1>1, <2>7, <2>8, OrderTail
    <2> HIDE DEF p
    <2>10. Phase(View') /\ Order(View'.t, S, Tail(replies))
      BY <1>2, <2>1, <2>2, <2>3, <2>4, <2>5, <2>9, CompletePhase
    <2>11. Order(transport', smb.parked, Tail(replies))
      BY <2>10, ViewFields
    <2> QED BY <1>1, <2>10, <2>11 DEF TInv, Alive
  <1> QED BY <1>3, <1>4 DEF smbcli_transport_finish_recv

LEMMA TimeoutTimed ==
    ASSUME LInv, TInv, smbcli_timeout_handler
    PROVE  TInv'
  <1> DEFINE S == smb.parked
  <1>1. /\ Alive /\ UNCHANGED smb /\ replies \in Seq(Replies)
        /\ user'.exited \/ replies' = replies
    BY DEF smbcli_timeout_handler, Ready, LInv, ServerOK
  <1>2. PICK r \in transport.pending_recv : Complete(r, "ERROR", NULL, NoMsg)
    BY DEF smbcli_timeout_handler
  <1>3. Handled(Minus(r), View', r, "ERROR", NULL, NoMsg) /\ Sound(r, "ERROR", NULL, NoMsg)
    BY <1>2, ErrorSound, CompleteIs
  <1>4. /\ Minus(r).t.pending_recv = transport.pending_recv \ {r}
        /\ Minus(r).t.wire = transport.wire /\ Minus(r).t.dead = transport.dead
        /\ Minus(r) \in Views
    BY MinusIs
  <1>5. ~transport.dead => Order(Minus(r).t, S, replies)
    BY <1>1, <1>4, OrderFewer DEF TInv
  <1>6. Within(replies, replies)
    BY DEF Within
  <1>7. Phase(View') /\ (~transport.dead => Order(View'.t, S, replies))
    BY <1>1, <1>3, <1>5, <1>6, CompletePhase DEF TInv
  <1>8. transport'.dead = transport.dead
    <2>1. r \in Requests
      <3>1. transport \in Transports
        BY ViewFields DEF LInv, Good, Views
      <3> QED BY <3>1 DEF Transports
    <2>2. Later(Minus(r), View')
      BY <1>3, <1>4, <2>1, HandledLater
    <2> QED BY <1>4, <2>2, ViewFields DEF Later, Grew
  <1> QED BY <1>1, <1>7, <1>8, ViewFields DEF TInv, Alive

LEMMA TransportDeadTimed ==
    ASSUME LInv, TInv, smbcli_transport_dead
    PROVE  TInv'
  <1>1. /\ Alive /\ transport.dead /\ UNCHANGED <<smb, replies>> /\ replies \in Seq(Replies)
    BY DEF smbcli_transport_dead, LInv, ServerOK
  <1>2. PICK r \in transport.pending_recv : Complete(r, "ERROR", NULL, NoMsg)
    BY DEF smbcli_transport_dead
  <1>3. Handled(Minus(r), View', r, "ERROR", NULL, NoMsg) /\ Sound(r, "ERROR", NULL, NoMsg)
    BY <1>2, ErrorSound, CompleteIs
  <1>4. Minus(r).t.dead = transport.dead /\ Minus(r) \in Views
    BY MinusIs
  <1>5. Within(replies, replies)
    BY DEF Within
  <1>6. Phase(View')
    BY <1>1, <1>3, <1>5, CompletePhase DEF TInv
  <1>7. transport'.dead
    <2>1. r \in Requests
      <3>1. transport \in Transports
        BY ViewFields DEF LInv, Good, Views
      <3> QED BY <3>1 DEF Transports
    <2>2. Later(Minus(r), View')
      BY <1>3, <1>4, <2>1, HandledLater
    <2> QED BY <1>1, <1>4, <2>2, ViewFields DEF Later, Grew
  <1> QED BY <1>6, <1>7 DEF TInv

LEMMA SockDeadTimed ==
    ASSUME LInv, TInv, smbcli_sock_dead
    PROVE  TInv'
  <1>1. /\ UNCHANGED <<ac, user, host>>
        /\ transport' = [transport EXCEPT !.dead = TRUE, !.wire = <<>>]
        /\ transport \in Transports
    BY ViewFields DEF smbcli_sock_dead, LInv, Good, Views
  <1>2. /\ transport'.dead /\ transport'.pending_recv = transport.pending_recv
        /\ transport'.request_timeout = transport.request_timeout
    BY <1>1 DEF Transports
  <1>3. Phase(View')
    BY <1>1, <1>2, PhaseSame, ViewFields DEF TInv
  <1> QED BY <1>2, <1>3 DEF TInv

LEMMA SignalTimed ==
    ASSUME LInv, TInv, signal
    PROVE  TInv'
  <1>1. View \in Views /\ user \in Users /\ UNCHANGED smb
    BY ViewFields DEF LInv, Good, Views, signal
  <1>2. CASE user.handler
    <2> DEFINE y == [View EXCEPT !.u.abort_requested = TRUE, !.u.handler = FALSE]
    <2>1. Become(y) /\ replies' = replies
      BY <1>2 DEF signal
    <2>2. /\ transport' = transport /\ user'.state = user.state /\ user'.timers = user.timers
          /\ user'.stdin = user.stdin /\ user'.exited = user.exited /\ user'.fault = user.fault
      <3>1. y.t = View.t /\ y.u = [View.u EXCEPT !.abort_requested = TRUE, !.handler = FALSE]
        BY <1>1 DEF Views
      <3>2. transport' = y.t /\ user' = y.u
        BY <2>1 DEF Become
      <3>3. transport' = transport /\ user' = [user EXCEPT !.abort_requested = TRUE, !.handler = FALSE]
        BY <3>1, <3>2, ViewFields
      <3> QED BY <1>1, <3>3 DEF Users
    <2> HIDE DEF y
    <2>3. Phase(View')
      BY <2>2, PhaseSame, ViewFields DEF TInv
    <2> QED BY <1>1, <2>1, <2>2, <2>3 DEF TInv, Alive
  <1>3. CASE ~user.handler
    <2> DEFINE e == Exit(View)
               y == [e EXCEPT !.u.killed = TRUE]
    <2>1. Ended(View, e)
      BY <1>1, ExitEnds
    <2>2. Become(y)
      BY <1>3 DEF signal
    <2> HIDE DEF e
    <2>3. e \in Views /\ e.u \in Users /\ e.u.exited
      BY <2>1 DEF Ended, Views
    <2>4. /\ y.t = e.t /\ y.u.state = e.u.state /\ y.u.timers = e.u.timers
          /\ y.u.stdin = e.u.stdin /\ y.u.exited
      <3>1. y.t = e.t /\ y.u = [e.u EXCEPT !.killed = TRUE]
        BY <2>3 DEF Views
      <3> QED BY <2>3, <3>1 DEF Users
    <2>5. transport' = y.t /\ user' = y.u
      BY <2>2 DEF Become
    <2> HIDE DEF y
    <2>6. Phase(e)
      BY <2>1, PhaseEnded DEF TInv
    <2>7. Phase(View')
      BY <2>4, <2>5, <2>6, PhaseSame, ViewFields
    <2> QED BY <2>4, <2>5, <2>7 DEF TInv, Alive
  <1> QED BY <1>2, <1>3

\* timer writes to the control pipe; on_stdin_read_event once the I/O pipe is open.
LEMMA WriteTimed ==
    ASSUME LInv, TInv, NEW u \in Users, NEW z, NEW p, NEW d,
           Bare(View, z, u), Writes(z, View', p, d), UNCHANGED <<smb, replies>>,
           u.state = user.state, u.exited = user.exited, u.fault = user.fault,
           ~Opening(View), Asking(View) => p = "ctrl" /\ u.stdin = 0
    PROVE  TInv'
  <1> DEFINE y == View'
  <1>1. View \in Views /\ z \in Views /\ z.t = transport /\ z.u = u
    BY ViewFields DEF LInv, Good, Bare
  <1>2. Later(View, z) /\ Later(z, y)
    BY <1>1, StepsLater
  <1>3. Later(View, y)
    BY <1>2, LaterTrans
  <1>4. Phase(View) /\ ~transport.request_timeout
    BY ViewFields DEF TInv, Phase, Asking, Quiet
  <1>5. Grew(transport, transport') /\ transport'.dead = transport.dead
    BY <1>3, ViewFields DEF Later, Grew
  <1>6. PICK r : r.kind = "write" /\ Posted(z, y, p, r, z.t.pending_recv)
    BY DEF Writes
  <1>7. user' = u
    BY <1>1, <1>6, ViewFields DEF Posted
  <1>8. Alive' /\ ~transport'.dead => Order(transport', smb.parked, replies)
    <2>1. Sequenced(transport, smb.parked, replies)
      BY ViewFields DEF LInv, Good
    <2>2. Alive' /\ ~transport'.dead => Order(transport, smb.parked, replies)
      BY <1>5, <1>7 DEF TInv, Alive
    <2> QED BY <1>4, <1>5, <2>1, <2>2, OrderLater
  <1>9. Phase(y)
    <2>1. CASE Quiet(View)
      BY <1>3, <2>1, QuietLater DEF Phase
    <2>2. CASE Asking(View)
      <3>1. /\ r.pipe = "ctrl" /\ ~transport'.request_timeout
            /\ transport'.pending_recv \subseteq transport.pending_recv \cup {r}
        BY <1>1, <1>4, <1>6, <2>2, ViewFields DEF Posted, NextReq, Delivered
      <3>2. \A q \in transport'.pending_recv : q \in transport.pending_recv \/ q = r
        BY <3>1
      <3>3. user'.state = "GETTING_VERSION" /\ user'.stdin = 0
        BY <1>7, <2>2, ViewFields DEF Asking
      <3>4. /\ \A q \in transport'.pending_recv : q.pipe = "ctrl" /\ q.kind \in {"read", "write"}
            /\ \A q \in transport'.pending_recv : q.kind = "read" => q \in transport.pending_recv
        BY <1>6, <2>2, <3>1, <3>2, ViewFields DEF Asking
      <3>5. /\ \A q \in transport'.pending_recv : q.kind = "read" => q.timed
            /\ \A q, v \in transport'.pending_recv : q.kind = "read" /\ v.kind = "read" => v = q
        BY <2>2, <3>4, ViewFields DEF Asking
      <3>6. Asking(y)
        BY <3>1, <3>3, <3>4, <3>5, ViewFields DEF Asking
      <3> QED BY <3>6 DEF Phase
    <2> QED BY <1>4, <2>1, <2>2 DEF Phase
  <1> QED BY <1>8, <1>9 DEF TInv

LEMMA TimerTimed ==
    ASSUME LInv, TInv, timer
    PROVE  TInv'
  <1>1. user \in Users
    BY ViewFields DEF LInv, Good, Views
  <1>2. /\ Fired.state = user.state /\ Fired.exited = user.exited /\ Fired.fault = user.fault
        /\ Fired.stdin = user.stdin
    BY <1>1 DEF Fired, Users
  <1>3. ~Opening(View)
    BY TimerIs, ViewFields DEF Opening
  <1>4. Asking(View) => Fired.stdin = 0
    BY <1>2, ViewFields DEF Asking
  <1> QED BY <1>2, <1>3, <1>4, TimerIs, WriteTimed

LEMMA StdinTimed ==
    ASSUME LInv, TInv, on_stdin_read_event
    PROVE  TInv'
  <1>1. user \in Users
    BY ViewFields DEF LInv, Good, Views
  <1>2. Typed.state = user.state /\ Typed.exited = user.exited /\ Typed.fault = user.fault
    BY <1>1 DEF Typed, Users
  <1>3. ~Opening(View) /\ ~Asking(View)
    BY StdinIs, ViewFields DEF Opening, Asking
  <1> QED BY <1>2, <1>3, StdinIs, WriteTimed

LEMMA ClientTimed ==
    ASSUME LInv, TInv, Client
    PROVE  TInv'
  BY FinishRecvTimed, TimeoutTimed, SockDeadTimed, TransportDeadTimed, SignalTimed, TimerTimed,
     StdinTimed DEF Client

\* The server takes a request from the wire and answers it.
LEMMA OrderAnswer ==
    ASSUME NEW t \in Transports, t.wire # <<>>, NEW S, NEW R, Server(S, R),
           Sequenced(t, S, R), NEW s, Taken(t, s), Order(t, S, R),
           NEW p \in Replies, p.mid = Head(t.wire).mid
    PROVE  Order(s, S, Append(R, p))
  <1> DEFINE P == Append(R, p)
  <1> SUFFICES ASSUME NEW w, NEW r, Pair(s, w, r) PROVE Before(s, S, P, w, r)
    BY DEF Order
  <1>1. Before(t, S, R, w, r)
    BY DEF Order, Pair, Taken
  <1>2. R \in Seq(Replies) /\ t.wire \in Seq(Requests) /\ s.wire = Tail(t.wire)
    BY DEF Server, Transports, Taken
  <1>3. /\ \A i \in DOMAIN R : i \in DOMAIN P /\ P[i] = R[i]
        /\ Len(R) + 1 \in DOMAIN P /\ P[Len(R) + 1] = p
        /\ \A i \in DOMAIN P : i \in DOMAIN R \/ i = Len(R) + 1
        /\ \A i \in DOMAIN R : i < Len(R) + 1
    <2>1. /\ \A i \in DOMAIN R : i \in DOMAIN P /\ P[i] = R[i]
          /\ DOMAIN R = 1 .. Len(R) /\ Len(R) \in Nat
          /\ DOMAIN P = 1 .. Len(R) + 1 /\ P[Len(R) + 1] = p
          /\ \A i \in DOMAIN P : i \in DOMAIN R \/ i = Len(R) + 1
      BY <1>2, Appended
    <2> HIDE DEF P
    <2> QED BY <2>1
  <1> HIDE DEF P
  <1>4. /\ 1 \in DOMAIN t.wire /\ p.mid = t.wire[1].mid
        /\ \A i \in DOMAIN s.wire : i + 1 \in DOMAIN t.wire /\ s.wire[i] = t.wire[i + 1] /\ i \in Nat
        /\ \A i \in DOMAIN t.wire : i # 1 => i - 1 \in DOMAIN s.wire /\ s.wire[i - 1] = t.wire[i]
    BY <1>2, TailWithin
  <1>5. \A i \in DOMAIN t.wire : i \in Nat /\ i >= 1
    BY <1>2
  <1>6. Answered(R, w) => Answered(P, w)
    BY <1>3 DEF Answered
  <1>7. t.wire[1].mid = r.mid => \E j \in DOMAIN R : R[j].mid = w.mid
    BY <1>1, <1>4, <1>5 DEF Before, Answered
  <1>8. ASSUME NEW i \in DOMAIN P, P[i].mid = r.mid
        PROVE  \E j \in DOMAIN P : j < i /\ P[j].mid = w.mid
    <2>1. CASE i \in DOMAIN R
      BY <1>1, <1>3, <1>8, <2>1 DEF Before
    <2>2. CASE i = Len(R) + 1
      <3>1. PICK j \in DOMAIN R : R[j].mid = w.mid
        BY <1>3, <1>4, <1>7, <1>8, <2>2
      <3> QED BY <1>3, <2>2, <3>1
    <2> QED BY <1>3, <2>1, <2>2
  <1>9. ASSUME NEW i \in DOMAIN s.wire, s.wire[i].mid = r.mid
        PROVE  Answered(P, w) \/ \E j \in DOMAIN s.wire : j < i /\ s.wire[j].mid = w.mid
    <2>1. i + 1 \in DOMAIN t.wire /\ t.wire[i + 1].mid = r.mid /\ i \in Nat
      BY <1>4, <1>9
    <2>2. Answered(R, w) \/ \E j \in DOMAIN t.wire : j < i + 1 /\ t.wire[j].mid = w.mid
      BY <1>1, <2>1 DEF Before
    <2>3. ASSUME NEW j \in DOMAIN t.wire, j < i + 1, t.wire[j].mid = w.mid
          PROVE  Answered(P, w) \/ \E n \in DOMAIN s.wire : n < i /\ s.wire[n].mid = w.mid
      <3>1. CASE j = 1
        BY <1>3, <1>4, <2>3, <3>1 DEF Answered
      <3>2. CASE j # 1
        <4>1. j - 1 \in DOMAIN s.wire /\ s.wire[j - 1].mid = w.mid
          BY <1>4, <2>3, <3>2
        <4>2. j - 1 < i
          BY <1>5, <2>1, <2>3
        <4> QED BY <4>1, <4>2
      <3> QED BY <3>1, <3>2
    <2> QED BY <1>6, <2>2, <2>3
  <1> QED BY <1>1, <1>6, <1>8, <1>9 DEF Before

\* A read waits for the pipe.
LEMMA OrderPark ==
    ASSUME NEW t \in Transports, t.wire # <<>>, NEW S, NEW R,
           Sequenced(t, S, R), NEW s, Taken(t, s), Order(t, S, R), Head(t.wire).kind = "read"
    PROVE  Order(s, S \cup {Head(t.wire)}, R)
  <1> DEFINE h == Head(t.wire)
  <1> SUFFICES ASSUME NEW w, NEW r, Pair(s, w, r) PROVE Before(s, S \cup {h}, R, w, r)
    BY DEF Order
  <1>1. Before(t, S, R, w, r)
    BY DEF Order, Pair, Taken
  <1>2. t.wire \in Seq(Requests) /\ s.wire = Tail(t.wire)
    BY DEF Transports, Taken
  <1>3. /\ 1 \in DOMAIN t.wire /\ h = t.wire[1]
        /\ \A i \in DOMAIN s.wire : i + 1 \in DOMAIN t.wire /\ s.wire[i] = t.wire[i + 1] /\ i \in Nat
        /\ \A i \in DOMAIN t.wire : i # 1 => i - 1 \in DOMAIN s.wire /\ s.wire[i - 1] = t.wire[i]
    BY <1>2, TailWithin
  <1>4. \A i \in DOMAIN t.wire : i \in Nat /\ i >= 1
    BY <1>2
  <1>5. h.kind = "read"
    OBVIOUS
  <1> HIDE DEF h
  <1>6. h = r => Answered(R, w)
    <2>1. t.wire[1].mid = r.mid => Answered(R, w) \/ \E j \in DOMAIN t.wire : j < 1
      BY <1>1, <1>3 DEF Before
    <2>2. ~ \E j \in DOMAIN t.wire : j < 1
      BY <1>4
    <2> QED BY <1>3, <2>1, <2>2
  <1>7. t.wire[1].mid # w.mid
    <2>1. Known(t, S, R, w) /\ w.kind = "write"
      BY DEF Pair, Sequenced, Taken
    <2> QED BY <1>3, <1>5, <2>1 DEF Known
  <1>8. ASSUME NEW i \in DOMAIN s.wire, s.wire[i].mid = r.mid
        PROVE  Answered(R, w) \/ \E j \in DOMAIN s.wire : j < i /\ s.wire[j].mid = w.mid
    <2>1. i + 1 \in DOMAIN t.wire /\ t.wire[i + 1].mid = r.mid /\ i \in Nat
      BY <1>3, <1>8
    <2>2. Answered(R, w) \/ \E j \in DOMAIN t.wire : j < i + 1 /\ t.wire[j].mid = w.mid
      BY <1>1, <2>1 DEF Before
    <2>3. ASSUME NEW j \in DOMAIN t.wire, j < i + 1, t.wire[j].mid = w.mid
          PROVE  \E n \in DOMAIN s.wire : n < i /\ s.wire[n].mid = w.mid
      <3>1. j - 1 \in DOMAIN s.wire /\ s.wire[j - 1].mid = w.mid
        BY <1>3, <1>7, <2>3
      <3>2. j - 1 < i
        BY <1>4, <2>1, <2>3
      <3> QED BY <3>1, <3>2
    <2> QED BY <2>2, <2>3
  <1>9. r \in S \cup {h} => Answered(R, w)
    BY <1>1, <1>6 DEF Before
  <1> QED BY <1>1, <1>8, <1>9 DEF Before

\* ... and is answered.
LEMMA OrderRead ==
    ASSUME NEW t, NEW S, NEW R, Server(S, R), Sequenced(t, S, R), Order(t, S, R),
           NEW q \in S, NEW p \in Replies, p.mid = q.mid
    PROVE  Order(t, S \ {q}, Append(R, p))
  <1> DEFINE P == Append(R, p)
  <1> SUFFICES ASSUME NEW w, NEW r, Pair(t, w, r) PROVE Before(t, S \ {q}, P, w, r)
    BY DEF Order
  <1>1. Before(t, S, R, w, r)
    BY DEF Order
  <1>2. R \in Seq(Replies)
    BY DEF Server
  <1>3. /\ \A i \in DOMAIN R : i \in DOMAIN P /\ P[i] = R[i]
        /\ P[Len(R) + 1] = p
        /\ \A i \in DOMAIN P : i \in DOMAIN R \/ i = Len(R) + 1
        /\ \A i \in DOMAIN R : i < Len(R) + 1
    <2>1. /\ \A i \in DOMAIN R : i \in DOMAIN P /\ P[i] = R[i]
          /\ DOMAIN R = 1 .. Len(R) /\ Len(R) \in Nat /\ P[Len(R) + 1] = p
          /\ \A i \in DOMAIN P : i \in DOMAIN R \/ i = Len(R) + 1
      BY <1>2, Appended
    <2> HIDE DEF P
    <2> QED BY <2>1
  <1> HIDE DEF P
  <1>4. Answered(R, w) => Answered(P, w)
    BY <1>3 DEF Answered
  <1>5. q.mid = r.mid => q = r
    BY DEF Sequenced, Known, Pair
  <1>6. ASSUME NEW i \in DOMAIN P, P[i].mid = r.mid
        PROVE  \E j \in DOMAIN P : j < i /\ P[j].mid = w.mid
    <2>1. CASE i \in DOMAIN R
      BY <1>1, <1>3, <1>6, <2>1 DEF Before
    <2>2. CASE i = Len(R) + 1
      <3>1. PICK j \in DOMAIN R : R[j].mid = w.mid
        BY <1>1, <1>3, <1>5, <1>6, <2>2 DEF Before, Answered
      <3> QED BY <1>3, <2>2, <3>1
    <2> QED BY <1>3, <2>1, <2>2
  <1> QED BY <1>1, <1>4, <1>6 DEF Before

LEMMA RequestTimed ==
    ASSUME LInv, TInv, SmbRequest
    PROVE  TInv'
  <1> DEFINE r == Head(transport.wire)
  <1>1. /\ transport.wire # <<>> /\ transport' = [transport EXCEPT !.wire = Tail(@)]
        /\ UNCHANGED <<ac, user>>
    BY DEF SmbRequest
  <1>2. /\ transport \in Transports /\ Sequenced(transport, smb.parked, replies)
        /\ ServerOK /\ Server(smb.parked, replies) /\ replies \in Seq(Replies)
    BY ViewFields, ServerTypes DEF LInv, Good, Views
  <1>3. /\ Taken(transport, transport') /\ transport'.dead = transport.dead
        /\ transport'.pending_recv = transport.pending_recv
        /\ transport'.request_timeout = transport.request_timeout
    BY <1>1, <1>2, TakenIs DEF Taken
  <1>4. r \in Requests
    BY <1>1, <1>2, <1>3, WireFacts
  <1>5. Phase(View')
    BY <1>1, <1>3, PhaseSame, ViewFields DEF TInv
  <1>6. Alive' = Alive
    BY <1>1 DEF Alive
  <1>7. ASSUME NEW p, p.mid = r.mid, p \in Replies, Send(<<p>>), smb'.parked = smb.parked,
               Alive, ~transport.dead
        PROVE  Order(transport', smb'.parked, replies')
    <2>1. replies' = Append(replies, p)
      <3>1. replies' = replies \o <<p>>
        BY <1>7 DEF Send, Alive
      <3> QED BY <1>2, <1>7, <3>1
    <2>2. Order(transport', smb.parked, Append(replies, p))
      BY <1>1, <1>2, <1>3, <1>7, OrderAnswer DEF TInv
    <2> QED BY <1>7, <2>1, <2>2
  <1>8. ASSUME NEW status, NEW m \in Messages, status \in {"OK", "OBJECT_NAME_NOT_FOUND", "ERROR"},
               NEW f \in Int, Send(<<Reply(r, status, f, m)>>), smb'.parked = smb.parked,
               Alive, ~transport.dead
        PROVE  Order(transport', smb'.parked, replies')
    <2> DEFINE p == Reply(r, status, f, m)
    <2> HIDE DEF r
    <2>1. p \in Replies /\ p.mid = r.mid
      BY <1>4, <1>8, ReplyIs
    <2>2. Send(<<p>>)
      BY <1>8
    <2> HIDE DEF p
    <2> QED BY <1>7, <1>8, <2>1, <2>2
  <1>9. NULL \in Int /\ NoMsg \in Messages
    BY DEF NULL, NoMsg, Msg, Messages
  <1>10. ASSUME NEW status, status \in {"OK", "OBJECT_NAME_NOT_FOUND", "ERROR"},
                Answer(r, status, NoMsg), smb'.parked = smb.parked, Alive, ~transport.dead
         PROVE  Order(transport', smb'.parked, replies')
    BY <1>8, <1>9, <1>10 DEF Answer
  <1>11. smb \in [fid : [Fnum -> PipeId \cup {NoPipe}], parked : SUBSET Requests]
    BY <1>2 DEF ServerOK
  <1>12. ASSUME Alive, ~transport.dead PROVE Order(transport', smb'.parked, replies')
    <2> HIDE DEF r
    <2>1. CASE r.kind = "open" /\ SmbOpen(r)
      <3>1. r.pipe \in Name
        BY <1>4 DEF Requests
      <3>2. CASE \E p, f : /\ f \in FnumFor(r.pipe) /\ smb' = [smb EXCEPT !.fid[f] = p]
                           /\ Send(<<Reply(r, "OK", f, NoMsg)>>)
        <4>1. PICK p, f : /\ f \in FnumFor(r.pipe) /\ smb' = [smb EXCEPT !.fid[f] = p]
                          /\ Send(<<Reply(r, "OK", f, NoMsg)>>)
          BY <3>2
        <4>2. smb'.parked = smb.parked
          BY <1>11, <4>1
        <4>3. f \in Int
          BY <3>1, <4>1, HandleFacts
        <4> QED BY <1>8, <1>9, <1>12, <4>1, <4>2, <4>3
      <3>3. CASE /\ Answer(r, IF Exists(r.pipe) THEN "ERROR" ELSE "OBJECT_NAME_NOT_FOUND", NoMsg)
                 /\ smb' = smb
        BY <1>10, <1>12, <3>3
      <3> QED BY <2>1, <3>2, <3>3 DEF SmbOpen
    <2>2. CASE r.kind = "read" /\ SmbRead(r)
      <3>1. CASE smb' = [smb EXCEPT !.parked = @ \cup {r}] /\ replies' = replies
        <4>1. smb'.parked = smb.parked \cup {r}
          BY <1>11, <3>1
        <4>2. Order(transport', smb.parked \cup {r}, replies)
          BY <1>1, <1>2, <1>3, <1>12, <2>2, OrderPark DEF TInv, r
        <4> QED BY <3>1, <4>1, <4>2
      <3>2. CASE Answer(r, "ERROR", NoMsg) /\ smb' = smb
        BY <1>10, <1>12, <3>2
      <3> QED BY <2>2, <3>1, <3>2 DEF SmbRead
    <2>3. CASE r.kind = "write" /\ SmbWrite(r)
      <3>1. smb' = smb /\ (Answer(r, "OK", NoMsg) \/ Answer(r, "ERROR", NoMsg))
        BY <2>3 DEF SmbWrite
      <3> QED BY <1>10, <1>12, <3>1
    <2>4. CASE r.kind = "close" /\ SmbClose(r)
      <3>1. \/ smb' = [smb EXCEPT !.fid[r.fnum] = NoPipe] /\ Answer(r, "OK", NoMsg)
            \/ smb' = smb /\ Answer(r, "ERROR", NoMsg)
        BY <2>4 DEF SmbClose
      <3>2. smb'.parked = smb.parked
        BY <1>11, <3>1
      <3> QED BY <1>10, <1>12, <3>1, <3>2
    <2> QED BY <2>1, <2>2, <2>3, <2>4 DEF SmbRequest, r
  <1> QED BY <1>3, <1>5, <1>6, <1>12 DEF TInv

LEMMA ReadDoneTimed ==
    ASSUME LInv, TInv, SmbReadDone
    PROVE  TInv'
  <1>1. Alive /\ ~transport.dead /\ UNCHANGED <<ac, transport, user>>
    BY DEF SmbReadDone
  <1>2. /\ ServerOK /\ Server(smb.parked, replies) /\ replies \in Seq(Replies)
        /\ Sequenced(transport, smb.parked, replies) /\ HostOK(host)
    BY ViewFields, ServerTypes DEF LInv, Good
  <1>3. PICK r \in smb.parked :
           /\ smb' = [smb EXCEPT !.parked = @ \ {r}]
           /\ \/ /\ host.pipe[Target(r)].s2c # <<>>
                 /\ Answer(r, "OK", Head(host.pipe[Target(r)].s2c))
              \/ Answer(r, "ERROR", NoMsg)
    BY DEF SmbReadDone
  <1>4. smb \in [fid : [Fnum -> PipeId \cup {NoPipe}], parked : SUBSET Requests]
    BY <1>2 DEF ServerOK
  <1>5. smb'.parked = smb.parked \ {r} /\ r \in Requests
    BY <1>3, <1>4
  <1>6. Phase(View')
    BY <1>1, PhaseSame, ViewFields DEF TInv
  <1>7. ASSUME NEW p \in Replies, p.mid = r.mid, Send(<<p>>) PROVE Order(transport', smb'.parked, replies')
    <2>1. replies' = Append(replies, p)
      <3>1. replies' = replies \o <<p>>
        BY <1>1, <1>7 DEF Send, Alive
      <3> QED BY <1>2, <1>7, <3>1
    <2>2. Order(transport, smb.parked \ {r}, Append(replies, p))
      BY <1>1, <1>2, <1>7, OrderRead DEF TInv
    <2> QED BY <1>1, <1>5, <2>1, <2>2
  <1>8. NULL \in Int /\ NoMsg \in Messages
    BY DEF NULL, NoMsg, Msg, Messages
  <1>9. CASE Answer(r, "ERROR", NoMsg)
    <2> DEFINE p == Reply(r, "ERROR", NULL, NoMsg)
    <2>1. p \in Replies /\ p.mid = r.mid
      BY <1>5, <1>8, ReplyIs
    <2>2. Send(<<p>>)
      BY <1>9 DEF Answer
    <2> HIDE DEF p
    <2>3. Order(transport', smb'.parked, replies')
      BY <1>7, <2>1, <2>2
    <2> QED BY <1>6, <2>3 DEF TInv
  <1>10. CASE /\ host.pipe[Target(r)].s2c # <<>>
              /\ Answer(r, "OK", Head(host.pipe[Target(r)].s2c))
    <2> DEFINE m == Head(host.pipe[Target(r)].s2c)
               p == Reply(r, "OK", NULL, m)
    <2>1. Target(r) \in PipeId
      <3>1. Addressed(r) /\ r.fnum \in Fnum /\ smb.fid[r.fnum] # NoPipe
        BY <1>2 DEF ServerOK
      <3>2. Target(r) # NoPipe
        BY <3>1 DEF Target
      <3> QED BY <1>2, <1>5, <3>1, <3>2, TargetIs
    <2>2. host.pipe[Target(r)].s2c \in Seq(Messages)
      <3>1. host.pipe[Target(r)] \in Pipes
        BY <1>2, <2>1 DEF HostOK, Hosts
      <3> QED BY <3>1 DEF Pipes
    <2>3. m \in Messages
      BY <1>10, <2>2
    <2>4. Send(<<p>>)
      BY <1>10 DEF Answer
    <2> HIDE DEF m
    <2>5. p \in Replies /\ p.mid = r.mid
      BY <1>5, <1>8, <2>3, ReplyIs
    <2> HIDE DEF p
    <2>6. Order(transport', smb'.parked, replies')
      BY <1>7, <2>4, <2>5
    <2> QED BY <1>6, <2>6 DEF TInv
  <1> QED BY <1>3, <1>9, <1>10

LEMMA SessionDownTimed ==
    ASSUME LInv, TInv, SmbSessionDown
    PROVE  TInv'
  <1>1. /\ ~Alive \/ transport.dead
        /\ transport' = [transport EXCEPT !.wire = <<>>] /\ UNCHANGED <<ac, user>>
        /\ transport \in Transports
    BY ViewFields DEF SmbSessionDown, LInv, Good, Views
  <1>2. /\ transport'.pending_recv = transport.pending_recv /\ transport'.dead = transport.dead
        /\ transport'.request_timeout = transport.request_timeout
    BY <1>1 DEF Transports
  <1>3. Phase(View')
    BY <1>1, <1>2, PhaseSame, ViewFields DEF TInv
  <1> QED BY <1>1, <1>2, <1>3 DEF TInv, Alive

LEMMA HostTimed ==
    ASSUME TInv, Host
    PROVE  TInv'
  <1>1. UNCHANGED <<ac, transport, user, smb, replies>>
    BY DEF Host, server_loop_listen, Thread, ProcessWrite, ProcessExit, ServiceDies,
       server_loop_accept, handle_connection, hprintf_flushed, get_token, create_pipes,
       connect_pio, connect_perr, connect, create_process, wait_for_process, flush_pio,
       flush_perr, disconnect, finish, HostOnly
  <1>2. Phase(View')
    BY <1>1, PhaseSame, ViewFields DEF TInv
  <1> QED BY <1>1, <1>2 DEF TInv, Alive

LEMMA InitTimed ==
    ASSUME Init
    PROVE  TInv
  <1>1. PICK x : Opens(x, View, "ctrl") /\ x.t = smbcli_transport_init /\ x.u = InitUser
    BY FirstOpen
  <1>2. x.t.request_timeout /\ x.t.pending_recv = {} /\ ~x.t.dead
    BY <1>1 DEF smbcli_transport_init
  <1>3. x.u.state = "OPENING" /\ x.u.timers = 0 /\ x.u.stdin = 0
    BY <1>1 DEF InitUser
  <1>4. PICK b : b.kind = "open" /\ Posted(x, View, "ctrl", b, x.t.pending_recv)
    BY <1>1 DEF Opens
  <1>5. /\ View.u = x.u /\ b.pipe = "ctrl" /\ View.t.request_timeout
        /\ View.t.pending_recv = {b}
    BY <1>2, <1>4 DEF Posted, NextReq, Delivered
  <1>6. Opening(View)
    BY <1>3, <1>4, <1>5 DEF Opening
  <1> QED BY <1>6, NoPair, ViewFields DEF TInv, Phase

LEMMA NextTimed ==
    ASSUME LInv, TInv, [Next]_vars
    PROVE  TInv'
  <1>1. CASE UNCHANGED vars
    BY <1>1 DEF vars, TInv, View, Alive
  <1> QED BY <1>1, ClientTimed, RequestTimed, ReadDoneTimed, SessionDownTimed, HostTimed
          DEF Next, SmbServer

\* Behind NoTimeoutWhileRunning: the client is opening the control pipe, or
\* asking for the version with one timed read, or no request can time out any
\* more, and a timed write is answered before the timed read.
THEOREM Timeouts == Spec => []TInv
  <1>1. Init => TInv
    BY InitTimed
  <1>2. LInv /\ TInv /\ [Next]_vars => TInv'
    BY NextTimed
  <1> QED BY <1>1, <1>2, Ordered, PTL DEF Spec

\* winexe/changes, 0.4: "Turned off timeouts": when the client has sent "run",
\* no pending request has a timeout, although async_read switches the timeout
\* off only after its first request, and "get version" was sent before that.
THEOREM NoTimeout == Spec => []NoTimeoutWhileRunning
  <1>1. TInv => NoTimeoutWhileRunning
    BY ViewFields DEF TInv, Phase, Opening, Asking, Quiet, NoTimeoutWhileRunning
  <1> QED BY <1>1, Timeouts, PTL
=============================================================================
