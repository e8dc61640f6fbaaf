------------------------ MODULE WinexeVersionProofs -------------------------
(***************************************************************************)
(* ReplacedOnlyIfVersionDiffers for WinexeSession without signals: what    *)
(* the service says on a control pipe is about the service that is         *)
(* installed, and an answer to an earlier connection cannot be taken for   *)
(* one to the current one.                                                 *)
(*                                                                         *)
(* 1. VInv, in terms of Honest (lines are true) and InState (what a state  *)
(*    of the client means for its requests and the open handles).          *)
(* 2. Steps of the service: Going.                                         *)
(* 3. Requests sent, answers dropped: Sent, Fewer.                         *)
(* 4. The handlers of the client, from the form WinexeSessionProofs gives  *)
(*    them (Handled).                                                      *)
(* 5. The requests and reads the SMB server answers: Serves, Trusty.       *)
(***************************************************************************)
EXTENDS WinexeSessionProofs

\* The handles of the control pipe that are open.
OpenCtrl(F) == {f \in FnumFor("ctrl") : F[f] # NoPipe}

Is(r, kind) == r.pipe = "ctrl" /\ r.kind = kind

\* The read r will not succeed: its handle is closed when the server gets to
\* it, and not opened again before.
Doomed(t, S, F, R, r) ==
    /\ r \notin S
    /\ \A i \in DOMAIN R : R[i].mid = r.mid => R[i].status # "OK"
    /\ \A i \in DOMAIN t.wire : t.wire[i].mid = r.mid =>
          /\ \/ r.fnum \notin OpenCtrl(F)
             \/ \E j \in DOMAIN t.wire :
                   j < i /\ t.wire[j].kind = "close" /\ t.wire[j].fnum = r.fnum
          /\ \A j \in DOMAIN t.wire : j < i => ~Is(t.wire[j], "open")

\* What a line of the service says; early: no command has been sent yet.
Told(h, early, m) ==
    /\ m.cmd = "version" => m.arg = h.svc.ver
    /\ early /\ m.cmd = "error" => h.svc.ver = 0

\* Thread k has got nothing but "get version".
AskedOnly(h, k) ==
    /\ h.th[k].pc \in {"accepted", "hgets", "flush", "finish", "done"}
    /\ h.th[k].pc = "flush" => h.th[k].next = "hgets"
    /\ \A i \in DOMAIN h.pipe[Ctrl(k)].c2s : h.pipe[Ctrl(k)].c2s[i] = "get version"

Fine(h, early, k) ==
    /\ k <= h.nconn
    /\ \A i \in DOMAIN h.pipe[Ctrl(k)].s2c : Told(h, early, h.pipe[Ctrl(k)].s2c[i])
    /\ early => AskedOnly(h, k)

Untouched(h) == \A k \in Conn : k > h.nconn => h.pipe[Ctrl(k)].c2s = <<>>

Reached(h, early, F) == \A k \in Conn, f \in OpenCtrl(F) : F[f] = Ctrl(k) => Fine(h, early, k)

\* Opens and closes of the control pipe on the wire are awaited.
Awaited(t) ==
    \A i \in DOMAIN t.wire :
        Is(t.wire[i], "open") \/ Is(t.wire[i], "close") => t.wire[i] \in t.pending_recv

Asks(t) == \A i \in DOMAIN t.wire : Is(t.wire[i], "write") => t.wire[i].data = <<"get version">>

Heard(t, h, R, early) ==
    \A r \in t.pending_recv : Is(r, "read") =>
        \A i \in DOMAIN R : R[i].mid = r.mid /\ R[i].status = "OK" => Told(h, early, R[i].msg)

Honest(t, h, F, R, early) ==
    /\ Awaited(t)
    /\ early => Asks(t)
    /\ Heard(t, h, R, early)
    /\ Reached(h, early, F)
    /\ Untouched(h)

AllDoomed(t, S, F, R) == \A r \in t.pending_recv : Is(r, "read") => Doomed(t, S, F, R, r)

Sole(t, kind) == \A q, o \in t.pending_recv : Is(q, kind) /\ Is(o, kind) => q = o

None(t, kind) == \A q \in t.pending_recv : ~Is(q, kind)

BeingOpened(t, S, F, R) ==
    /\ None(t, "close") /\ Sole(t, "open")
    /\ \A o \in t.pending_recv : Is(o, "open") =>
          /\ (\E i \in DOMAIN t.wire : t.wire[i].mid = o.mid) => OpenCtrl(F) = {}
          /\ \A i \in DOMAIN R : R[i].mid = o.mid =>
                OpenCtrl(F) \subseteq (IF R[i].status = "OK" THEN {R[i].fnum} ELSE {})
    /\ AllDoomed(t, S, F, R)

Hopeful(t, S, F, R, r) == Is(r, "read") /\ ~Doomed(t, S, F, R, r)

InUse(t, fd, S, F, R) ==
    /\ None(t, "close") /\ None(t, "open")
    /\ OpenCtrl(F) \subseteq {fd}
    /\ \A r, q \in t.pending_recv : Hopeful(t, S, F, R, r) /\ Hopeful(t, S, F, R, q) => r = q

BeingClosed(t, fd, S, F, R) ==
    /\ None(t, "open") /\ Sole(t, "close")
    /\ OpenCtrl(F) \subseteq {fd}
    /\ \A q \in t.pending_recv : Is(q, "close") =>
          /\ q.fnum = fd
          /\ \A i \in DOMAIN R : R[i].mid = q.mid => OpenCtrl(F) = {}
    /\ AllDoomed(t, S, F, R)

InState(t, fd, ver, state, S, F, R) ==
    /\ state = "OPENING" => BeingOpened(t, S, F, R)
    /\ state \in {"GETTING_VERSION", "RUNNING"} => InUse(t, fd, S, F, R)
    /\ state = "RUNNING" => SameVersion(ver)
    /\ state = "CLOSING_FOR_REINSTALL" => BeingClosed(t, fd, S, F, R)

Current(x, S, F, R) ==
    /\ Honest(x.t, x.h, F, R, x.u.state # "RUNNING")
    /\ InState(x.t, x.ac["ctrl"].fd, x.h.svc.ver, x.u.state, S, F, R)

Differs(u, h) == u.state = "CLOSING_FOR_REINSTALL" => ~SameVersion(h.svc.ver)

VInv ==
    "signal" \notin host.env.faults =>
      /\ Differs(user, host)
      /\ Alive => ~user.abort_requested
      /\ Alive /\ ~transport.dead => Current(View, smb.parked, smb.fid, replies)

-----------------------------------------------------------------------------
\* What a step of the host does to control pipe k and its thread: a line that
\* is added is true, and a thread that was only asked for its version stays so.
Kept(h, g) == g.env = h.env /\ g.svc.ver = h.svc.ver /\ g.nconn = h.nconn

Line(h, k, m) ==
    /\ m.cmd = "version" => m.arg = h.svc.ver
    /\ m.cmd = "error" /\ AskedOnly(h, k) => h.svc.ver = 0

Steady(h, g, k) ==
    /\ \A i \in DOMAIN g.pipe[Ctrl(k)].s2c :
          \/ \E j \in DOMAIN h.pipe[Ctrl(k)].s2c :
                g.pipe[Ctrl(k)].s2c[i] = h.pipe[Ctrl(k)].s2c[j]
          \/ Line(h, k, g.pipe[Ctrl(k)].s2c[i])
    /\ AskedOnly(h, k) => AskedOnly(g, k)
    /\ h.pipe[Ctrl(k)].c2s = <<>> => g.pipe[Ctrl(k)].c2s = <<>>

Going(h, g) == Kept(h, g) /\ \A k \in Conn : Steady(h, g, k)

LEMMA SteadyFine ==
    ASSUME NEW h, NEW g, NEW k \in Conn, Kept(h, g), Steady(h, g, k),
           NEW early, Fine(h, early, k)
    PROVE  Fine(g, early, k)
  <1>1. ASSUME NEW i \in DOMAIN g.pipe[Ctrl(k)].s2c
        PROVE  Told(g, early, g.pipe[Ctrl(k)].s2c[i])
    <2>1. CASE \E j \in DOMAIN h.pipe[Ctrl(k)].s2c :
                  g.pipe[Ctrl(k)].s2c[i] = h.pipe[Ctrl(k)].s2c[j]
      BY <2>1 DEF Fine, Told, Kept
    <2>2. CASE Line(h, k, g.pipe[Ctrl(k)].s2c[i])
      BY <2>2 DEF Fine, Told, Kept, Line
    <2> QED BY <2>1, <2>2 DEF Steady
  <1> QED BY <1>1 DEF Fine, Kept, Steady

\* Only thread k and its pipe are concerned.
Focus(h, g, k) ==
    /\ Kept(h, g)
    /\ \A j \in Conn \ {k} : g.th[j] = h.th[j] /\ g.pipe[Ctrl(j)] = h.pipe[Ctrl(j)]

LEMMA SameSteady ==
    ASSUME NEW h, NEW g, Kept(h, g), NEW k \in Conn, g.th[k] = h.th[k],
           g.pipe[Ctrl(k)].c2s = h.pipe[Ctrl(k)].c2s, g.pipe[Ctrl(k)].s2c = h.pipe[Ctrl(k)].s2c
    PROVE  Steady(h, g, k)
  BY DEF Steady, AskedOnly

LEMMA FocusSteady ==
    ASSUME NEW h, NEW g, NEW k \in Conn, Focus(h, g, k), Steady(h, g, k)
    PROVE  \A j \in Conn : Steady(h, g, j)
  <1> SUFFICES ASSUME NEW j \in Conn, j # k PROVE Steady(h, g, j)
    OBVIOUS
  <1>1. g.th[j] = h.th[j] /\ g.pipe[Ctrl(j)] = h.pipe[Ctrl(j)] /\ Kept(h, g)
    BY DEF Focus
  <1> QED BY <1>1, SameSteady

LEMMA GotoIs ==
    ASSUME NEW h, h \in Hosts, NEW k \in Conn, NEW pc, pc \in ThreadCalls
    PROVE  /\ Goto(h, k, pc) \in Hosts
           /\ Goto(h, k, pc).pipe = h.pipe
           /\ Focus(h, Goto(h, k, pc), k)
           /\ Goto(h, k, pc).th[k].pc = pc
  <1>1. h.th \in [Conn -> Threads]
    BY DEF Hosts
  <1>2. Goto(h, k, pc) \in Hosts
    BY <1>1 DEF Hosts, Threads, Goto
  <1>3. /\ Goto(h, k, pc).pipe = h.pipe /\ Goto(h, k, pc).env = h.env
        /\ Goto(h, k, pc).svc = h.svc /\ Goto(h, k, pc).nconn = h.nconn
    BY DEF Goto, Hosts
  <1>4. /\ Goto(h, k, pc).th[k].pc = pc
        /\ \A j \in Conn \ {k} : Goto(h, k, pc).th[j] = h.th[j]
    BY <1>1 DEF Goto, Hosts, Threads
  <1> QED BY <1>2, <1>3, <1>4 DEF Focus, Kept

LEMMA HprintfIs ==
    ASSUME NEW h, h \in Hosts, NEW k \in Conn, NEW m, NEW next
    PROVE  /\ Focus(h, hprintf(h, k, m, next), k)
           /\ hprintf(h, k, m, next).th[k] = [pc |-> "flush", next |-> next]
           /\ hprintf(h, k, m, next).pipe[Ctrl(k)].c2s = h.pipe[Ctrl(k)].c2s
           /\ \/ hprintf(h, k, m, next).pipe[Ctrl(k)].s2c = Append(h.pipe[Ctrl(k)].s2c, m)
              \/ hprintf(h, k, m, next).pipe[Ctrl(k)].s2c = h.pipe[Ctrl(k)].s2c
  <1> DEFINE g == hprintf(h, k, m, next)
             s == IF h.pipe[Ctrl(k)].st = "connected"
                  THEN Append(h.pipe[Ctrl(k)].s2c, m) ELSE h.pipe[Ctrl(k)].s2c
  <1>1. /\ h.th \in [Conn -> Threads] /\ h.pipe \in [PipeId -> Pipes]
        /\ Ctrl(k) \in PipeId /\ h.pipe[Ctrl(k)] \in Pipes
    BY PipeNames DEF Hosts
  <1>2. g = [h EXCEPT !.pipe[Ctrl(k)].s2c = s, !.th[k] = [pc |-> "flush", next |-> next]]
    BY DEF hprintf
  <1>3. s = Append(h.pipe[Ctrl(k)].s2c, m) \/ s = h.pipe[Ctrl(k)].s2c
    OBVIOUS
  <1> HIDE DEF s
  <1>4. /\ g.env = h.env /\ g.svc = h.svc /\ g.nconn = h.nconn
        /\ g.pipe = [h.pipe EXCEPT ![Ctrl(k)].s2c = s]
        /\ g.th = [h.th EXCEPT ![k] = [pc |-> "flush", next |-> next]]
    BY <1>2 DEF Hosts
  <1> HIDE DEF g
  <1>5. g.pipe[Ctrl(k)].s2c = s /\ g.pipe[Ctrl(k)].c2s = h.pipe[Ctrl(k)].c2s
    BY <1>1, <1>4 DEF Pipes
  <1>6. g.th[k] = [pc |-> "flush", next |-> next]
    BY <1>1, <1>4
  <1>7. ASSUME NEW j \in Conn \ {k} PROVE g.th[j] = h.th[j] /\ g.pipe[Ctrl(j)] = h.pipe[Ctrl(j)]
    BY <1>1, <1>4, PipeNames
  <1>8. Focus(h, g, k)
    BY <1>4, <1>7 DEF Focus, Kept
  <1> QED BY <1>3, <1>5, <1>6, <1>8 DEF g

\* A line, written by a thread that is past the questions or answers one.
LEMMA HprintfSteady ==
    ASSUME NEW h, h \in Hosts, NEW k \in Conn, NEW m, m \in Messages, NEW next,
           Line(h, k, m), AskedOnly(h, k) => next = "hgets"
    PROVE  Going(h, hprintf(h, k, m, next))
  <1> DEFINE g == hprintf(h, k, m, next)
  <1>1. /\ Focus(h, g, k) /\ g.th[k] = [pc |-> "flush", next |-> next]
        /\ g.pipe[Ctrl(k)].c2s = h.pipe[Ctrl(k)].c2s
        /\ \/ g.pipe[Ctrl(k)].s2c = Append(h.pipe[Ctrl(k)].s2c, m)
           \/ g.pipe[Ctrl(k)].s2c = h.pipe[Ctrl(k)].s2c
    BY HprintfIs
  <1> HIDE DEF g
  <1>2. h.pipe[Ctrl(k)].s2c \in Seq(Messages)
    BY PipeNames DEF Hosts, Pipes
  <1>3. ASSUME NEW i \in DOMAIN g.pipe[Ctrl(k)].s2c
        PROVE  \/ \E j \in DOMAIN h.pipe[Ctrl(k)].s2c :
                     g.pipe[Ctrl(k)].s2c[i] = h.pipe[Ctrl(k)].s2c[j]
               \/ Line(h, k, g.pipe[Ctrl(k)].s2c[i])
    <2>1. CASE g.pipe[Ctrl(k)].s2c = Append(h.pipe[Ctrl(k)].s2c, m)
      <3>1. ASSUME NEW s \in Seq(Messages), NEW n \in DOMAIN Append(s, m)
            PROVE  Append(s, m)[n] = m \/ (n \in DOMAIN s /\ Append(s, m)[n] = s[n])
        OBVIOUS
      <3> QED BY <1>2, <2>1, <3>1
    <2>2. CASE g.pipe[Ctrl(k)].s2c = h.pipe[Ctrl(k)].s2c
      BY <2>2
    <2> QED BY <1>1, <2>1, <2>2
  <1>4. AskedOnly(h, k) => AskedOnly(g, k)
    <2>1. g.th[k].pc = "flush" /\ g.th[k].next = next
      BY <1>1
    <2> QED BY <1>1, <2>1 DEF AskedOnly
  <1>5. Steady(h, g, k)
    BY <1>1, <1>3, <1>4 DEF Steady
  <1>6. Kept(h, g)
    BY <1>1 DEF Focus
  <1> QED BY <1>1, <1>5, <1>6, FocusSteady DEF g, Going

\* A thread goes on to its next call, with its pipe as it was.
LEMMA GotoSteady ==
    ASSUME NEW h, h \in Hosts, NEW k \in Conn, NEW pc, pc \in ThreadCalls,
           AskedOnly(h, k) => pc \in {"hgets", "finish", "done"}
    PROVE  Going(h, Goto(h, k, pc))
  <1> DEFINE g == Goto(h, k, pc)
  <1>1. g.pipe = h.pipe /\ Focus(h, g, k) /\ g.th[k].pc = pc
    BY GotoIs
  <1> HIDE DEF g
  <1>2. AskedOnly(h, k) => AskedOnly(g, k)
    BY <1>1 DEF AskedOnly
  <1>3. Steady(h, g, k)
    BY <1>1, <1>2 DEF Steady
  <1> QED BY <1>1, <1>3, FocusSteady DEF Focus, Going, g

\* Two steps in one.
LEMMA GoingTwice ==
    ASSUME NEW h, NEW g, NEW f, Going(h, g), Kept(g, f),
           \A j \in Conn : /\ f.th[j] = g.th[j]
                           /\ f.pipe[Ctrl(j)].c2s = g.pipe[Ctrl(j)].c2s
                           /\ \/ f.pipe[Ctrl(j)].s2c = g.pipe[Ctrl(j)].s2c
                              \/ f.pipe[Ctrl(j)].s2c = <<>>
    PROVE  Going(h, f)
  <1>1. Kept(h, f)
    BY DEF Going, Kept
  <1>2. ASSUME NEW j \in Conn PROVE Steady(h, f, j)
    <2>1. /\ Steady(h, g, j) /\ f.th[j] = g.th[j]
          /\ f.pipe[Ctrl(j)].c2s = g.pipe[Ctrl(j)].c2s
      BY DEF Going
    <2>2. AskedOnly(g, j) => AskedOnly(f, j)
      BY <2>1 DEF AskedOnly
    <2>3. CASE f.pipe[Ctrl(j)].s2c = g.pipe[Ctrl(j)].s2c
      BY <2>1, <2>2, <2>3 DEF Steady
    <2>4. CASE f.pipe[Ctrl(j)].s2c = <<>>
      <3>1. \A i \in DOMAIN f.pipe[Ctrl(j)].s2c : FALSE
        BY <2>4
      <3> QED BY <2>1, <2>2, <3>1 DEF Steady
    <2> QED BY <2>3, <2>4
  <1> QED BY <1>1, <1>2 DEF Going

LEMMA AcceptSteady ==
    ASSUME host \in Hosts, NEW k \in Conn, server_loop_accept(k)
    PROVE  Going(host, host')
  <1>1. CASE host' = Goto(host, k, "hgets")
    BY <1>1, GotoSteady DEF ThreadCalls
  <1>2. CASE host' = [Goto(host, k, "done") EXCEPT !.pipe[Ctrl(k)].st = "disconnected"]
    <2> DEFINE g == Goto(host, k, "done")
    <2>1. g \in Hosts /\ Going(host, g)
      BY GotoIs, GotoSteady DEF ThreadCalls
    <2>2. host' = [g EXCEPT !.pipe[Ctrl(k)].st = "disconnected"]
      BY <1>2
    <2> HIDE DEF g
    <2>3. g.pipe \in [PipeId -> Pipes]
      BY <2>1 DEF Hosts
    <2>4. /\ host'.th = g.th /\ Kept(g, host')
          /\ host'.pipe = [g.pipe EXCEPT ![Ctrl(k)].st = "disconnected"]
      BY <2>1, <2>2 DEF Hosts, Kept
    <2>5. ASSUME NEW j \in Conn
          PROVE  /\ host'.pipe[Ctrl(j)].c2s = g.pipe[Ctrl(j)].c2s
                 /\ host'.pipe[Ctrl(j)].s2c = g.pipe[Ctrl(j)].s2c
      <3>1. CASE j = k
        BY <2>3, <2>4, <3>1, PipeNames DEF Pipes
      <3>2. CASE j # k
        <4>1. Ctrl(j) # Ctrl(k) /\ Ctrl(j) \in PipeId /\ Ctrl(k) \in PipeId
          BY <3>2, PipeNames
        <4>2. host'.pipe[Ctrl(j)] = g.pipe[Ctrl(j)]
          BY <2>3, <2>4, <4>1
        <4> QED BY <4>2
      <3> QED BY <3>1, <3>2
    <2>6. ASSUME NEW f, f = host' PROVE Going(host, f)
      <3>1. Kept(g, f)
        BY <2>4, <2>6
      <3>2. \A j \in Conn : /\ f.th[j] = g.th[j]
                             /\ f.pipe[Ctrl(j)].c2s = g.pipe[Ctrl(j)].c2s
                             /\ f.pipe[Ctrl(j)].s2c = g.pipe[Ctrl(j)].s2c
        BY <2>4, <2>5, <2>6
      <3> QED BY <2>1, <3>1, <3>2, GoingTwice
    <2> QED BY <2>6
  <1> QED BY <1>1, <1>2 DEF server_loop_accept

LEMMA FlushedSteady ==
    ASSUME HostOK(host), NEW k \in Conn, hprintf_flushed(k)
    PROVE  Going(host, host')
  <1>1. host \in Hosts /\ host' = Goto(host, k, host.th[k].next) /\ host.th[k].pc = "flush"
    BY DEF HostOK, hprintf_flushed, At
  <1>2. host.th[k].next \in ThreadCalls
    BY <1>1 DEF Hosts, Threads
  <1>3. AskedOnly(host, k) => host.th[k].next = "hgets"
    BY <1>1 DEF AskedOnly
  <1> QED BY <1>1, <1>2, <1>3, GotoSteady

\* The line read is gone.
LEMMA TailSteady ==
    ASSUME host \in Hosts, NEW k \in Conn, host.pipe[Ctrl(k)].c2s # <<>>, NEW h,
           h = [host EXCEPT !.pipe[Ctrl(k)].c2s = Tail(@)]
    PROVE  /\ h \in Hosts /\ h.svc = host.svc /\ h.th = host.th
           /\ Going(host, h) /\ Focus(host, h, k)
           /\ h.pipe[Ctrl(k)].s2c = host.pipe[Ctrl(k)].s2c
           /\ AskedOnly(host, k) => Head(host.pipe[Ctrl(k)].c2s) = "get version"
  <1> DEFINE s == host.pipe[Ctrl(k)].c2s
             P == [host.pipe EXCEPT ![Ctrl(k)].c2s = Tail(s)]
  <1>1. host.pipe \in [PipeId -> Pipes] /\ s \in Seq(ClientLines) /\ Ctrl(k) \in PipeId
    BY PipeNames DEF Hosts, Pipes
  <1>2. /\ Tail(s) \in Seq(ClientLines) /\ Head(s) = s[1] /\ 1 \in DOMAIN s
        /\ \A i \in DOMAIN Tail(s) : i + 1 \in DOMAIN s /\ Tail(s)[i] = s[i + 1]
    BY <1>1, TailWithin
  <1>3. P \in [PipeId -> Pipes]
    BY <1>1, <1>2 DEF Pipes
  <1>4. h = [host EXCEPT !.pipe = P]
    BY DEF Hosts
  <1>5. /\ P[Ctrl(k)].s2c = host.pipe[Ctrl(k)].s2c /\ P[Ctrl(k)].c2s = Tail(s)
        /\ \A j \in Conn : j # k => P[Ctrl(j)] = host.pipe[Ctrl(j)]
    BY <1>1, PipeNames DEF Pipes
  <1> HIDE DEF P
  <1>6. h \in Hosts /\ h.svc = host.svc /\ h.th = host.th /\ h.pipe = P /\ Kept(host, h)
    BY <1>3, <1>4 DEF Hosts, Kept
  <1>7. AskedOnly(host, k) => AskedOnly(h, k) /\ Head(s) = "get version"
    BY <1>2, <1>5, <1>6 DEF AskedOnly
  <1>8. Steady(host, h, k)
    BY <1>5, <1>6, <1>7 DEF Steady
  <1>9. Focus(host, h, k)
    BY <1>5, <1>6 DEF Focus
  <1> QED BY <1>5, <1>6, <1>7, <1>8, <1>9, FocusSteady DEF Going

LEMMA GoingTrans ==
    ASSUME NEW h, NEW g, NEW f, Going(h, g), Going(g, f)
    PROVE  Going(h, f)
  <1>1. Kept(h, f)
    BY DEF Going, Kept
  <1>2. ASSUME NEW k \in Conn PROVE Steady(h, f, k)
    <2>1. Steady(h, g, k) /\ Steady(g, f, k) /\ g.svc.ver = h.svc.ver
      BY DEF Going, Kept
    <2>2. ASSUME NEW m, Line(g, k, m) PROVE Line(h, k, m)
      BY <2>1, <2>2 DEF Line, Steady
    <2> QED BY <2>1, <2>2 DEF Steady
  <1> QED BY <1>1, <1>2 DEF Going

\* One round of handle_connection: the first line is taken and answered.
LEMMA ConnectionSteady ==
    ASSUME host \in Hosts, NEW k \in Conn, handle_connection(k)
    PROVE  Going(host, host')
  <1> DEFINE s == host.pipe[Ctrl(k)].c2s
             h == [host EXCEPT !.pipe[Ctrl(k)].c2s = Tail(@)]
  <1>1. CASE s = <<>>
    <2>1. host' = Goto(host, k, "finish")
      BY <1>1 DEF handle_connection
    <2> QED BY <2>1, GotoSteady DEF ThreadCalls
  <1>2. CASE s # <<>>
    <2>1. \/ Head(s) = "get version" /\ h.svc.ver # 0
             /\ host' = hprintf(h, k, Msg("version", h.svc.ver), "hgets")
          \/ Head(s) = "set" /\ host' = h
          \/ Head(s) = "run" /\ host' = Goto(h, k, "get_token")
          \/ ~(Head(s) = "get version" /\ h.svc.ver # 0)
             /\ host' = hprintf(h, k, Msg("error", 0), "hgets")
      BY <1>2 DEF handle_connection
    <2>2. /\ h \in Hosts /\ h.svc = host.svc /\ h.th = host.th
          /\ Going(host, h) /\ Focus(host, h, k)
          /\ h.pipe[Ctrl(k)].s2c = host.pipe[Ctrl(k)].s2c
          /\ AskedOnly(host, k) => Head(s) = "get version"
      BY <1>2, TailSteady
    <2> HIDE DEF h
    <2>3. CASE host' = h
      BY <2>2, <2>3
    <2>4. CASE host' = hprintf(h, k, Msg("version", h.svc.ver), "hgets")
      <3>1. Msg("version", h.svc.ver) \in Messages
        BY <2>2 DEF Msg, Messages, Hosts, Services
      <3>2. Line(h, k, Msg("version", h.svc.ver))
        BY DEF Line, Msg
      <3>3. Going(h, host')
        BY <2>2, <2>4, <3>1, <3>2, HprintfSteady
      <3> QED BY <2>2, <3>3, GoingTrans
    <2>5. CASE Head(s) = "run" /\ host' = Goto(h, k, "get_token")
      <3>1. "get_token" \in ThreadCalls /\ h \in Hosts
        BY <2>2 DEF ThreadCalls
      <3>2. Focus(h, host', k) /\ host'.pipe = h.pipe
        BY <2>5, <3>1, GotoIs, Zenon
      <3>3. Focus(host, host', k)
        BY <2>2, <3>2 DEF Focus, Kept
      <3>4. ~AskedOnly(host, k)
        BY <2>2, <2>5
      <3>5. host'.pipe[Ctrl(k)].s2c = host.pipe[Ctrl(k)].s2c
        BY <2>2, <3>2
      <3>6. Steady(host, host', k)
        BY <1>2, <3>4, <3>5 DEF Steady
      <3> QED BY <3>3, <3>6, FocusSteady DEF Going, Focus
    <2>6. CASE ~(Head(s) = "get version" /\ h.svc.ver # 0)
             /\ host' = hprintf(h, k, Msg("error", 0), "hgets")
      <3>1. /\ Focus(h, host', k)
            /\ host'.th[k] = [pc |-> "flush", next |-> "hgets"]
            /\ host'.pipe[Ctrl(k)].c2s = h.pipe[Ctrl(k)].c2s
            /\ \/ host'.pipe[Ctrl(k)].s2c = Append(h.pipe[Ctrl(k)].s2c, Msg("error", 0))
               \/ host'.pipe[Ctrl(k)].s2c = h.pipe[Ctrl(k)].s2c
        <4>1. ASSUME NEW f, f \in Hosts, NEW m, NEW next, NEW g, g = hprintf(f, k, m, next)
              PROVE  /\ Focus(f, g, k)
                     /\ g.th[k] = [pc |-> "flush", next |-> next]
                     /\ g.pipe[Ctrl(k)].c2s = f.pipe[Ctrl(k)].c2s
                     /\ \/ g.pipe[Ctrl(k)].s2c = Append(f.pipe[Ctrl(k)].s2c, m)
                        \/ g.pipe[Ctrl(k)].s2c = f.pipe[Ctrl(k)].s2c
          BY <4>1, HprintfIs
        <4>2. h \in Hosts /\ host' = hprintf(h, k, Msg("error", 0), "hgets")
          BY <2>2, <2>6
        <4> QED BY <4>1, <4>2
      <3>2. Focus(host, host', k)
        BY <2>2, <3>1 DEF Focus, Kept
      <3>3. Line(host, k, Msg("error", 0))
        BY <2>2, <2>6 DEF Line, Msg
      <3>4. AskedOnly(host, k) => AskedOnly(host', k)
        <4>1. AskedOnly(host, k) => AskedOnly(h, k)
          BY <2>2 DEF Going, Steady
        <4>2. host'.th[k].pc = "flush" /\ host'.th[k].next = "hgets"
          BY <3>1
        <4> QED BY <3>1, <4>1, <4>2 DEF AskedOnly
      <3>5. ASSUME NEW i \in DOMAIN host'.pipe[Ctrl(k)].s2c
            PROVE  \/ \E j \in DOMAIN host.pipe[Ctrl(k)].s2c :
                         host'.pipe[Ctrl(k)].s2c[i] = host.pipe[Ctrl(k)].s2c[j]
                   \/ Line(host, k, host'.pipe[Ctrl(k)].s2c[i])
        <4>1. ASSUME NEW a \in Seq(Messages), NEW m \in Messages, NEW n \in DOMAIN Append(a, m)
              PROVE  Append(a, m)[n] = m \/ (n \in DOMAIN a /\ Append(a, m)[n] = a[n])
          OBVIOUS
        <4>2. host.pipe[Ctrl(k)].s2c \in Seq(Messages) /\ Msg("error", 0) \in Messages
          BY PipeNames, ServiceMessages DEF Hosts, Pipes, CtrlMessages
        <4>3. \/ host'.pipe[Ctrl(k)].s2c = Append(host.pipe[Ctrl(k)].s2c, Msg("error", 0))
              \/ host'.pipe[Ctrl(k)].s2c = host.pipe[Ctrl(k)].s2c
          BY <2>2, <3>1
        <4>4. CASE host'.pipe[Ctrl(k)].s2c = Append(host.pipe[Ctrl(k)].s2c, Msg("error", 0))
          BY <3>3, <4>1, <4>2, <4>4
        <4>5. CASE host'.pipe[Ctrl(k)].s2c = host.pipe[Ctrl(k)].s2c
          BY <4>5
        <4> QED BY <4>3, <4>4, <4>5
      <3>6. Steady(host, host', k)
        BY <1>2, <3>4, <3>5 DEF Steady
      <3> QED BY <3>2, <3>6, FocusSteady DEF Going, Focus
    <2> QED BY <2>1, <2>3, <2>4, <2>5, <2>6
  <1> QED BY <1>1, <1>2

\* A thread that is past the questions.
LEMMA LateError ==
    ASSUME host \in Hosts, NEW k \in Conn, ~AskedOnly(host, k), NEW next
    PROVE  Going(host, hprintf(host, k, Msg("error", 0), next))
  <1>1. Line(host, k, Msg("error", 0)) /\ Msg("error", 0) \in Messages
    BY ServiceMessages DEF Line, Msg, CtrlMessages
  <1> QED BY <1>1, HprintfSteady

LEMMA Late ==
    ASSUME NEW k \in Conn,
           host.th[k].pc \in ThreadCalls \ {"accepted", "hgets", "flush", "finish", "done"}
    PROVE  ~AskedOnly(host, k)
  BY DEF AskedOnly

LEMMA LateSteady ==
    ASSUME NEW g, NEW k \in Conn, ~AskedOnly(host, k), Focus(host, g, k),
           g.pipe[Ctrl(k)].c2s = host.pipe[Ctrl(k)].c2s,
           g.pipe[Ctrl(k)].s2c = host.pipe[Ctrl(k)].s2c
    PROVE  Going(host, g)
  <1>1. Steady(host, g, k)
    BY DEF Steady
  <1> QED BY <1>1, FocusSteady DEF Going, Focus

LEMMA LateActions ==
    ASSUME host \in Hosts, NEW k \in Conn,
           \/ get_token(k) \/ connect_pio(k) \/ connect_perr(k) \/ flush_pio(k) \/ flush_perr(k)
    PROVE  Going(host, host')
  <1>1. ~AskedOnly(host, k)
    BY Late DEF get_token, connect_pio, connect_perr, connect, flush_pio, flush_perr, At, ThreadCalls
  <1>2. \/ \E pc \in ThreadCalls : host' = Goto(host, k, pc)
        \/ \E next : host' = hprintf(host, k, Msg("error", 0), next)
        \/ host' = hprintf(host, k, Msg("return_code", host.ec), "disconnect")
    BY DEF get_token, connect_pio, connect_perr, connect, flush_pio, flush_perr, ThreadCalls
  <1>3. CASE \E pc \in ThreadCalls : host' = Goto(host, k, pc)
    BY <1>1, <1>3, GotoSteady
  <1>4. CASE \E next : host' = hprintf(host, k, Msg("error", 0), next)
    BY <1>1, <1>4, LateError
  <1>5. CASE host' = hprintf(host, k, Msg("return_code", host.ec), "disconnect")
    <2>1. Line(host, k, Msg("return_code", host.ec))
      BY DEF Line, Msg
    <2>2. Msg("return_code", host.ec) \in Messages
      BY DEF Msg, Messages, Hosts, ProcessCode, AbortCode
    <2> QED BY <1>1, <1>5, <2>1, <2>2, HprintfSteady
  <1> QED BY <1>2, <1>3, <1>4, <1>5

\* A step that leaves threads and control pipes alone.
LEMMA ApartSteady ==
    ASSUME NEW h, NEW g, Kept(h, g), g.th = h.th,
           \A j \in Conn : g.pipe[Ctrl(j)] = h.pipe[Ctrl(j)]
    PROVE  Going(h, g)
  BY SameSteady DEF Going

LEMMA CreatePipesSteady ==
    ASSUME host \in Hosts, NEW k \in Conn, create_pipes(k)
    PROVE  Going(host, host')
  <1> DEFINE h == [host EXCEPT !.pipe[IO].st = "listening", !.pipe[ERR].st = "listening"]
             P == [host.pipe EXCEPT ![IO].st = "listening", ![ERR].st = "listening"]
  <1>1. ~AskedOnly(host, k)
    BY Late DEF create_pipes, At, ThreadCalls
  <1>2. host.pipe \in [PipeId -> Pipes] /\ IO \in PipeId /\ ERR \in PipeId
    BY PipeNames DEF Hosts
  <1>3. P \in [PipeId -> Pipes]
    BY <1>2 DEF Pipes, PipeStates
  <1>4. \A j \in Conn : P[Ctrl(j)] = host.pipe[Ctrl(j)]
    BY <1>2, PipeNames
  <1>5. h = [host EXCEPT !.pipe = P]
    BY <1>2 DEF Hosts
  <1>6. \/ host' = hprintf(h, k, Msg("std_io_err", k), "connect_pio")
        \/ host' = hprintf(host, k, Msg("error", 0), "finish")
    BY DEF create_pipes
  <1> HIDE DEF P, h
  <1>7. h \in Hosts /\ h.pipe = P /\ h.th = host.th /\ Kept(host, h)
    BY <1>3, <1>5 DEF Hosts, Kept
  <1>8. Going(host, h)
    BY <1>4, <1>7, ApartSteady
  <1>9. ~AskedOnly(h, k)
    BY <1>1, <1>4, <1>7 DEF AskedOnly
  <1>10. Line(h, k, Msg("std_io_err", k)) /\ Msg("std_io_err", k) \in Messages
    BY DEF Line, Msg, Messages, Conn
  <1>11. CASE host' = hprintf(h, k, Msg("std_io_err", k), "connect_pio")
    <2>1. Going(h, host')
      BY <1>7, <1>9, <1>10, <1>11, HprintfSteady
    <2> QED BY <1>8, <2>1, GoingTrans
  <1> QED BY <1>1, <1>6, <1>11, LateError

LEMMA ProcessSteady ==
    ASSUME host \in Hosts, NEW k \in Conn, create_process(k) \/ wait_for_process(k)
    PROVE  Going(host, host')
  <1>1. ~AskedOnly(host, k)
    BY Late DEF create_process, wait_for_process, At, ThreadCalls
  <1>2. CASE create_process(k)
    <2> DEFINE g == Goto(host, k, "wait")
               a == host.pipe[Ctrl(k)].c2s # <<>> \/ Connected(Ctrl(k))
    <2>1. \/ host' = [g EXCEPT !.proc = "running", !.armed = a]
          \/ host' = hprintf(host, k, Msg("error", 0), "disconnect")
      BY <1>2 DEF create_process
    <2>2. g \in Hosts /\ Going(host, g)
      BY <1>1, GotoIs, GotoSteady DEF ThreadCalls
    <2> HIDE DEF g, a
    <2>3. CASE host' = [g EXCEPT !.proc = "running", !.armed = a]
      <3>1. host'.pipe = g.pipe /\ host'.th = g.th /\ Kept(g, host')
        BY <2>2, <2>3 DEF Hosts, Kept
      <3>2. Going(g, host')
        BY <3>1, ApartSteady
      <3> QED BY <2>2, <3>2, GoingTrans
    <2> QED BY <1>1, <2>1, <2>3, LateError
  <1>3. CASE wait_for_process(k)
    <2> DEFINE g == Goto(host, k, "flush_pio")
    <2>1. \/ \E p : host' = [g EXCEPT !.proc = p, !.ec = AbortCode]
          \/ host' = [g EXCEPT !.ec = ProcessCode]
      BY <1>3 DEF wait_for_process
    <2>2. g \in Hosts /\ Going(host, g)
      BY <1>1, GotoIs, GotoSteady DEF ThreadCalls
    <2> HIDE DEF g
    <2>3. host'.pipe = g.pipe /\ host'.th = g.th /\ Kept(g, host')
      BY <2>1, <2>2 DEF Hosts, Kept
    <2>4. Going(g, host')
      BY <2>3, ApartSteady
    <2> QED BY <2>2, <2>4, GoingTrans
  <1> QED BY <1>2, <1>3

LEMMA DisconnectSteady ==
    ASSUME host \in Hosts, NEW k \in Conn, disconnect(k)
    PROVE  Going(host, host')
  <1> DEFINE A == Disconnect(host.pipe[IO])
             B == Disconnect(host.pipe[ERR])
  <1>1. ~AskedOnly(host, k)
    BY Late DEF disconnect, At, ThreadCalls
  <1>2. /\ host.pipe \in [PipeId -> Pipes] /\ host.th \in [Conn -> Threads]
        /\ IO \in PipeId /\ ERR \in PipeId /\ IO # ERR
    BY PipeNames DEF Hosts
  <1>3. host' = [host EXCEPT !.pipe = [[host.pipe EXCEPT ![IO] = A] EXCEPT ![ERR] = B],
                             !.th = [host.th EXCEPT ![k].pc = "finish"]]
    BY <1>2 DEF disconnect, ClosePipes, Goto, Hosts
  <1> HIDE DEF A, B
  <1>4. /\ host'.pipe = [[host.pipe EXCEPT ![IO] = A] EXCEPT ![ERR] = B]
        /\ host'.th = [host.th EXCEPT ![k].pc = "finish"]
        /\ Kept(host, host')
    BY <1>3 DEF Hosts, Kept
  <1>5. \A j \in Conn : host'.pipe[Ctrl(j)] = host.pipe[Ctrl(j)]
    BY <1>2, <1>4, PipeNames
  <1>6. \A j \in Conn \ {k} : host'.th[j] = host.th[j]
    BY <1>2, <1>4
  <1>7. ASSUME NEW g, g = host' PROVE Going(host, g)
    <2>1. Focus(host, g, k)
      BY <1>4, <1>5, <1>6, <1>7 DEF Focus
    <2> QED BY <1>1, <1>5, <1>7, <2>1, LateSteady
  <1> QED BY <1>7

LEMMA FinishSteady ==
    ASSUME host \in Hosts, NEW k \in Conn, finish(k)
    PROVE  Going(host, host')
  <1> DEFINE g == Goto(host, k, "done")
             q == g.pipe[Ctrl(k)]
  <1>1. g \in Hosts /\ Going(host, g)
    BY GotoIs, GotoSteady DEF ThreadCalls
  <1>2. host' = [g EXCEPT !.pipe[Ctrl(k)] = Disconnect(q)]
    BY DEF finish
  <1> HIDE DEF g
  <1>3. g.pipe \in [PipeId -> Pipes] /\ Ctrl(k) \in PipeId /\ q \in Pipes
    BY <1>1, PipeNames DEF Hosts
  <1>4. Disconnect(q).c2s = q.c2s /\ Disconnect(q).s2c = <<>>
    BY <1>3 DEF Disconnect, Pipes
  <1>5. host'.pipe = [g.pipe EXCEPT ![Ctrl(k)] = Disconnect(q)] /\ host'.th = g.th /\ Kept(g, host')
    BY <1>1, <1>2 DEF Hosts, Kept
  <1>6. ASSUME NEW j \in Conn
        PROVE  /\ host'.pipe[Ctrl(j)].c2s = g.pipe[Ctrl(j)].c2s
               /\ \/ host'.pipe[Ctrl(j)].s2c = g.pipe[Ctrl(j)].s2c
                  \/ host'.pipe[Ctrl(j)].s2c = <<>>
    <2>1. CASE j = k
      BY <1>3, <1>4, <1>5, <2>1
    <2>2. CASE j # k
      <3>1. host'.pipe[Ctrl(j)] = g.pipe[Ctrl(j)]
        BY <1>3, <1>5, <2>2, PipeNames
      <3> QED BY <3>1
    <2> QED BY <2>1, <2>2
  <1>7. ASSUME NEW f, f = host' PROVE Going(host, f)
    <2>1. Kept(g, f) /\ f.th = g.th
      BY <1>5, <1>7
    <2>2. \A j \in Conn : /\ f.pipe[Ctrl(j)].c2s = g.pipe[Ctrl(j)].c2s
                          /\ \/ f.pipe[Ctrl(j)].s2c = g.pipe[Ctrl(j)].s2c
                             \/ f.pipe[Ctrl(j)].s2c = <<>>
      BY <1>6, <1>7
    <2> QED BY <1>1, <2>1, <2>2, GoingTwice
  <1> QED BY <1>7

LEMMA StopIs ==
    ASSUME NEW h, h \in Hosts, NEW g, g = StopService(h)
    PROVE  /\ Kept(h, g) /\ Going(h, g)
           /\ \A j \in Conn : g.pipe[Ctrl(j)].c2s = h.pipe[Ctrl(j)].c2s
  <1> DEFINE P == [p \in PipeId |-> [h.pipe[p] EXCEPT !.st = IF @ = "none" THEN @ ELSE "gone"]]
             T == [k \in Conn |-> [h.th[k] EXCEPT !.pc = IF @ = "none" THEN @ ELSE "done"]]
             S == [h.svc EXCEPT !.running = FALSE, !.listening = FALSE]
  <1>1. h.th \in [Conn -> Threads] /\ h.pipe \in [PipeId -> Pipes] /\ h.svc \in Services
    BY DEF Hosts
  <1>2. g = [h EXCEPT !.svc = S, !.pipe = P, !.th = T]
    BY <1>1 DEF StopService, Hosts
  <1>3. S.ver = h.svc.ver
    BY <1>1 DEF Services
  <1>4. ASSUME NEW j \in Conn
        PROVE  P[Ctrl(j)].c2s = h.pipe[Ctrl(j)].c2s /\ P[Ctrl(j)].s2c = h.pipe[Ctrl(j)].s2c
    <2>1. Ctrl(j) \in PipeId /\ h.pipe[Ctrl(j)] \in Pipes
      BY <1>1, PipeNames
    <2> DEFINE q == h.pipe[Ctrl(j)]
               v == IF q.st = "none" THEN q.st ELSE "gone"
    <2>2. P[Ctrl(j)] = [q EXCEPT !.st = v]
      BY <2>1
    <2> HIDE DEF v, q, P
    <2>3. P[Ctrl(j)].c2s = q.c2s /\ P[Ctrl(j)].s2c = q.s2c
      BY <2>1, <2>2 DEF Pipes, q
    <2> QED BY <2>3 DEF q
  <1>5. ASSUME NEW j \in Conn, h.th[j].pc # "none" PROVE T[j].pc = "done"
    <2>1. h.th[j] \in Threads
      BY <1>1
    <2> QED BY <1>5, <2>1 DEF Threads
  <1> HIDE DEF P, T, S
  <1>6. /\ g.svc = S /\ g.pipe = P /\ g.th = T /\ g.env = h.env /\ g.nconn = h.nconn
    BY <1>2 DEF Hosts
  <1>7. Kept(h, g)
    BY <1>3, <1>6 DEF Kept
  <1>8. ASSUME NEW j \in Conn PROVE Steady(h, g, j)
    <2>1. AskedOnly(h, j) => AskedOnly(g, j)
      <3>1. AskedOnly(h, j) => h.th[j].pc # "none"
        BY DEF AskedOnly
      <3> QED BY <1>4, <1>5, <1>6, <3>1 DEF AskedOnly
    <2> QED BY <1>4, <1>6, <2>1 DEF Steady
  <1> QED BY <1>4, <1>6, <1>7, <1>8 DEF Going

LEMMA ApartActions ==
    ASSUME host \in Hosts,
           \/ server_loop_listen \/ ProcessExit \/ ServiceDies
           \/ \E p \in {IO, ERR} : ProcessWrite(p)
    PROVE  Going(host, host')
  <1>1. CASE server_loop_listen \/ ProcessExit
    <2>1. host.svc \in Services
      BY DEF Hosts
    <2>2. \/ \E v \in Services : v.ver = host.svc.ver /\ host' = [host EXCEPT !.svc = v]
          \/ host' = [host EXCEPT !.proc = "exited"]
      <3>1. CASE server_loop_listen
        <4>1. \/ host' = [host EXCEPT !.svc = [host.svc EXCEPT !.listening = TRUE]]
              \/ host' = [host EXCEPT !.svc = [host.svc EXCEPT !.loop = FALSE]]
          BY <3>1 DEF server_loop_listen, Hosts
        <4>2. /\ [host.svc EXCEPT !.listening = TRUE] \in Services
              /\ [host.svc EXCEPT !.listening = TRUE].ver = host.svc.ver
              /\ [host.svc EXCEPT !.loop = FALSE] \in Services
              /\ [host.svc EXCEPT !.loop = FALSE].ver = host.svc.ver
          BY <2>1 DEF Services
        <4> QED BY <4>1, <4>2
      <3>2. CASE ProcessExit
        BY <3>2 DEF ProcessExit
      <3> QED BY <1>1, <3>1, <3>2
    <2>3. host'.th = host.th /\ host'.pipe = host.pipe /\ Kept(host, host')
      BY <2>2 DEF Hosts, Kept
    <2> QED BY <2>3, ApartSteady
  <1>2. CASE ServiceDies
    <2> DEFINE g == StopService(host)
    <2>1. host' = [g EXCEPT !.died = TRUE]
      BY <1>2 DEF ServiceDies
    <2>2. Going(host, g)
      BY StopIs
    <2>3. g.th = host'.th /\ host'.pipe = g.pipe /\ host'.env = g.env /\ host'.svc = g.svc
          /\ host'.nconn = g.nconn
      BY <2>1 DEF StopService, Hosts
    <2> HIDE DEF g
    <2>4. Going(g, host')
      BY <2>3, ApartSteady DEF Kept
    <2> QED BY <2>2, <2>4, GoingTrans
  <1>3. CASE \E p \in {IO, ERR} : ProcessWrite(p)
    <2>1. PICK p \in {IO, ERR} : ProcessWrite(p)
      BY <1>3
    <2> DEFINE n == Len(host.made[p[1]]) + 1
               P == [host.pipe EXCEPT ![p].s2c = Append(@, Msg("output", n))]
               M == [host.made EXCEPT ![p[1]] = Append(@, n)]
    <2>2. host.pipe \in [PipeId -> Pipes] /\ p \in PipeId
      BY PipeNames DEF Hosts
    <2>3. host' = [host EXCEPT !.made = M, !.pipe = P]
      BY <2>1 DEF ProcessWrite, Hosts
    <2>4. \A j \in Conn : P[Ctrl(j)] = host.pipe[Ctrl(j)]
      BY <2>2, PipeNames
    <2> HIDE DEF M, P
    <2>5. host'.th = host.th /\ host'.pipe = P /\ Kept(host, host')
      BY <2>3 DEF Hosts, Kept
    <2> QED BY <2>4, <2>5, ApartSteady
  <1> QED BY <1>1, <1>2, <1>3

LEMMA HostGoing ==
    ASSUME HostOK(host), Host
    PROVE  Going(host, host')
  <1>1. host \in Hosts
    BY DEF HostOK
  <1>2. ASSUME NEW k \in Conn, Thread(k) PROVE Going(host, host')
    BY <1>1, <1>2, AcceptSteady, ConnectionSteady, FlushedSteady, LateActions, CreatePipesSteady,
       ProcessSteady, DisconnectSteady, FinishSteady DEF Thread
  <1> QED BY <1>1, <1>2, ApartActions DEF Host

LEMMA GoingUntouched ==
    ASSUME NEW h, NEW g, Going(h, g), Untouched(h)
    PROVE  Untouched(g)
  BY DEF Going, Steady, Kept, Untouched

LEMMA GoingReached ==
    ASSUME NEW h, NEW g, Going(h, g), NEW early, NEW F, Reached(h, early, F)
    PROVE  Reached(g, early, F)
  <1> SUFFICES ASSUME NEW k \in Conn, NEW f \in OpenCtrl(F), F[f] = Ctrl(k)
               PROVE  Fine(g, early, k)
    BY DEF Reached
  <1>1. Fine(h, early, k) /\ Kept(h, g) /\ Steady(h, g, k)
    BY DEF Reached, Going
  <1> QED BY <1>1, SteadyFine

\* Steps of the host.
LEMMA GoingCurrent ==
    ASSUME NEW x, NEW y, NEW S, NEW F, NEW R, Current(x, S, F, R), Going(x.h, y.h),
           y.t = x.t, y.u = x.u, y.ac = x.ac
    PROVE  Current(y, S, F, R)
  <1>1. y.h.svc.ver = x.h.svc.ver
    BY DEF Going, Kept
  <1> DEFINE e == x.u.state # "RUNNING"
  <1>2. Honest(x.t, x.h, F, R, e) /\ InState(x.t, x.ac["ctrl"].fd, x.h.svc.ver, x.u.state, S, F, R)
    BY DEF Current
  <1> HIDE DEF e
  <1>3. Honest(x.t, y.h, F, R, e)
    <2>1. Reached(y.h, e, F) /\ Untouched(y.h)
      BY <1>2, GoingUntouched, GoingReached DEF Honest
    <2>2. Heard(x.t, y.h, R, e)
      BY <1>1, <1>2 DEF Honest, Heard, Told
    <2> QED BY <1>2, <2>1, <2>2 DEF Honest
  <1> QED BY <1>1, <1>2, <1>3 DEF Current, e

-----------------------------------------------------------------------------
(***************************************************************************)
(* Sending a request.                                                      *)
(***************************************************************************)

\* q has been sent on t, which is then s; earlier requests of the control pipe
\* are still awaited.
Sent(t, s, q, S, R) ==
    /\ Server(S, R) /\ Sequenced(t, S, R)
    /\ t \in Transports /\ s \in Transports /\ q \in Requests
    /\ q.mid = t.next_mid
    /\ q \in s.pending_recv
    /\ \A r \in s.pending_recv : r = q \/ r \in t.pending_recv
    /\ \A r \in t.pending_recv : r.pipe = "ctrl" => r \in s.pending_recv
    /\ s.wire = Append(t.wire, q)

LEMMA SentMids ==
    ASSUME NEW t, NEW s, NEW q, NEW S, NEW R, Sent(t, s, q, S, R)
    PROVE  /\ \A r \in t.pending_recv : r.mid # q.mid
           /\ q \notin S
           /\ \A i \in DOMAIN R : R[i].mid # q.mid
           /\ \A i \in DOMAIN t.wire : i \in Nat /\ t.wire[i].mid # q.mid
           /\ t.wire \in Seq(Requests) /\ Len(t.wire) \in Nat
           /\ DOMAIN t.wire = 1 .. Len(t.wire) /\ DOMAIN s.wire = 1 .. Len(t.wire) + 1
           /\ \A i \in DOMAIN t.wire : i \in DOMAIN s.wire /\ s.wire[i] = t.wire[i]
           /\ Len(t.wire) + 1 \in DOMAIN s.wire /\ s.wire[Len(t.wire) + 1] = q
           /\ \A i \in DOMAIN s.wire : i \in DOMAIN t.wire \/ i = Len(t.wire) + 1
  <1>1. t.wire \in Seq(Requests) /\ q \in Requests /\ s.wire = Append(t.wire, q)
        /\ q.mid = t.next_mid /\ t.next_mid \in Nat /\ t.pending_recv \subseteq Requests
    BY DEF Sent, Transports
  <1>2. /\ DOMAIN t.wire = 1 .. Len(t.wire) /\ Len(t.wire) \in Nat
        /\ DOMAIN s.wire = 1 .. Len(t.wire) + 1
        /\ \A i \in DOMAIN t.wire : i \in DOMAIN s.wire /\ s.wire[i] = t.wire[i]
        /\ s.wire[Len(t.wire) + 1] = q
        /\ \A i \in DOMAIN s.wire : i \in DOMAIN t.wire \/ i = Len(t.wire) + 1
    BY <1>1, Appended
  <1>3. ASSUME NEW r \in t.pending_recv PROVE r.mid # q.mid
    <2>1. r.mid < t.next_mid /\ r.mid \in Nat
      BY <1>1, MidsAreNat DEF Sent, Sequenced, Known
    <2> QED BY <1>1, <2>1
  <1>4. q \notin S
    <2> SUFFICES ASSUME q \in S PROVE FALSE
      OBVIOUS
    <2>1. q.mid < t.next_mid
      BY DEF Sent, Sequenced, Placed
    <2> QED BY <1>1, <2>1
  <1>5. ASSUME NEW i \in DOMAIN R PROVE R[i].mid # q.mid
    <2>1. R[i].mid < t.next_mid /\ R[i].mid \in Nat
      BY MidsAreNat DEF Sent, Sequenced, Placed, Server
    <2> QED BY <1>1, <2>1
  <1>6. ASSUME NEW i \in DOMAIN t.wire PROVE i \in Nat /\ t.wire[i].mid # q.mid
    <2>1. t.wire[i].mid < t.next_mid /\ t.wire[i].mid \in Nat
      BY <1>1, MidsAreNat DEF Sent, Sequenced, Placed
    <2> QED BY <1>1, <1>2, <2>1
  <1> QED BY <1>1, <1>2, <1>3, <1>4, <1>5, <1>6

LEMMA SentDoomed ==
    ASSUME NEW t, NEW s, NEW q, NEW S, NEW F, NEW R, Sent(t, s, q, S, R),
           NEW r \in t.pending_recv, Doomed(t, S, F, R, r)
    PROVE  Doomed(s, S, F, R, r)
  <1> SUFFICES ASSUME NEW i \in DOMAIN s.wire, s.wire[i].mid = r.mid
               PROVE  /\ \/ r.fnum \notin OpenCtrl(F)
                         \/ \E j \in DOMAIN s.wire :
                               j < i /\ s.wire[j].kind = "close" /\ s.wire[j].fnum = r.fnum
                      /\ \A j \in DOMAIN s.wire : j < i => ~Is(s.wire[j], "open")
    BY DEF Doomed
  <1>1. i \in DOMAIN t.wire /\ t.wire[i].mid = r.mid
    BY SentMids
  <1>2. /\ \/ r.fnum \notin OpenCtrl(F)
           \/ \E j \in DOMAIN t.wire :
                 j < i /\ t.wire[j].kind = "close" /\ t.wire[j].fnum = r.fnum
        /\ \A j \in DOMAIN t.wire : j < i => ~Is(t.wire[j], "open")
    BY <1>1 DEF Doomed
  <1>3. ASSUME NEW j \in DOMAIN s.wire, j < i PROVE j \in DOMAIN t.wire /\ s.wire[j] = t.wire[j]
    BY <1>1, <1>3, SentMids
  <1>4. \A j \in DOMAIN t.wire : j \in DOMAIN s.wire /\ s.wire[j] = t.wire[j]
    BY SentMids
  <1> QED BY <1>2, <1>3, <1>4

\* A read sent behind the close of its handle, or with a handle that is closed.
LEMMA FreshDoomed ==
    ASSUME NEW t, NEW s, NEW q, NEW S, NEW F, NEW R, Sent(t, s, q, S, R),
           \A j \in DOMAIN t.wire : ~Is(t.wire[j], "open"),
           \/ q.fnum \notin OpenCtrl(F)
           \/ \E j \in DOMAIN t.wire : t.wire[j].kind = "close" /\ t.wire[j].fnum = q.fnum
    PROVE  Doomed(s, S, F, R, q)
  <1>1. q \notin S /\ \A i \in DOMAIN R : R[i].mid # q.mid
    BY SentMids
  <1> SUFFICES ASSUME NEW i \in DOMAIN s.wire, s.wire[i].mid = q.mid
               PROVE  /\ \/ q.fnum \notin OpenCtrl(F)
                         \/ \E j \in DOMAIN s.wire :
                               j < i /\ s.wire[j].kind = "close" /\ s.wire[j].fnum = q.fnum
                      /\ \A j \in DOMAIN s.wire : j < i => ~Is(s.wire[j], "open")
    BY <1>1 DEF Doomed
  <1>2. i = Len(t.wire) + 1
    BY SentMids
  <1>3. \A j \in DOMAIN t.wire : j < i /\ j \in DOMAIN s.wire /\ s.wire[j] = t.wire[j]
    BY <1>2, SentMids
  <1>4. \A j \in DOMAIN s.wire : j < i => j \in DOMAIN t.wire
    BY <1>2, SentMids
  <1> QED BY <1>3, <1>4

\* A reply is to a request sent before.
LEMMA SentOld ==
    ASSUME NEW t, NEW s, NEW q, NEW S, NEW R, Sent(t, s, q, S, R),
           NEW r \in s.pending_recv, NEW i \in DOMAIN R, R[i].mid = r.mid
    PROVE  r \in t.pending_recv
  <1>1. r # q
    <2> SUFFICES ASSUME r = q PROVE FALSE
      OBVIOUS
    <2>1. \A j \in DOMAIN R : R[j].mid # q.mid
      BY SentMids
    <2> QED BY <2>1
  <1>2. \A v \in s.pending_recv : v = q \/ v \in t.pending_recv
    BY DEF Sent
  <1> QED BY <1>1, <1>2

Question(q) == Is(q, "write") => q.data = <<"get version">>

LEMMA SentAsks ==
    ASSUME NEW t, NEW s, NEW q, NEW S, NEW R, Sent(t, s, q, S, R), Asks(t), Question(q)
    PROVE  Asks(s)
  <1> SUFFICES ASSUME NEW i \in DOMAIN s.wire PROVE Question(s.wire[i])
    BY Zenon DEF Asks, Question
  <1>1. /\ \A j \in DOMAIN t.wire : s.wire[j] = t.wire[j]
        /\ s.wire[Len(t.wire) + 1] = q
        /\ i \in DOMAIN t.wire \/ i = Len(t.wire) + 1
    BY SentMids
  <1>2. CASE i \in DOMAIN t.wire
    <2>1. s.wire[i] = t.wire[i]
      BY <1>1, <1>2
    <2>2. Question(t.wire[i])
      BY <1>2, Zenon DEF Asks, Question
    <2> QED BY <2>1, <2>2
  <1>3. CASE i = Len(t.wire) + 1
    BY <1>1, <1>3
  <1> QED BY <1>1, <1>2, <1>3

EarlyAsks(t, early) == early => Asks(t)

\* A request that may be sent before the command.
Polite(q, early) == early => Question(q)

LEMMA HonestParts ==
    ASSUME NEW t, NEW h, NEW F, NEW R, NEW e, Honest(t, h, F, R, e)
    PROVE  Awaited(t) /\ EarlyAsks(t, e) /\ Heard(t, h, R, e) /\ Reached(h, e, F) /\ Untouched(h)
  BY Zenon DEF Honest, EarlyAsks

LEMMA HonestIs ==
    ASSUME NEW t, NEW h, NEW F, NEW R, NEW e,
           Awaited(t) /\ EarlyAsks(t, e) /\ Heard(t, h, R, e) /\ Reached(h, e, F) /\ Untouched(h)
    PROVE  Honest(t, h, F, R, e)
  BY Zenon DEF Honest, EarlyAsks

LEMMA SentHonest ==
    ASSUME NEW t, NEW s, NEW q, NEW S, NEW F, NEW R, Sent(t, s, q, S, R), NEW h, NEW e,
           Honest(t, h, F, R, e), Polite(q, e)
    PROVE  Honest(s, h, F, R, e)
  <1>1. Awaited(t) /\ EarlyAsks(t, e) /\ Heard(t, h, R, e) /\ Reached(h, e, F) /\ Untouched(h)
    BY HonestParts
  <1>2. Awaited(s)
    <2> SUFFICES ASSUME NEW i \in DOMAIN s.wire,
                        Is(s.wire[i], "open") \/ Is(s.wire[i], "close")
                 PROVE  s.wire[i] \in s.pending_recv
      BY DEF Awaited
    <2>1. CASE i \in DOMAIN t.wire
      <3>1. s.wire[i] = t.wire[i]
        BY <2>1, SentMids
      <3>2. s.wire[i] \in t.pending_recv
        BY <1>1, <2>1, <3>1 DEF Awaited
      <3> QED BY <3>2 DEF Sent, Is
    <2>2. CASE i = Len(t.wire) + 1
      <3>1. s.wire[i] = q
        BY <2>2, SentMids
      <3> QED BY <3>1 DEF Sent
    <2> QED BY <2>1, <2>2, SentMids
  <1>3. EarlyAsks(s, e)
    BY <1>1, SentAsks, Zenon DEF EarlyAsks, Polite
  <1>4. Heard(s, h, R, e)
    <2> SUFFICES ASSUME NEW r \in s.pending_recv, Is(r, "read"), NEW i \in DOMAIN R,
                        R[i].mid = r.mid, R[i].status = "OK"
                 PROVE  Told(h, e, R[i].msg)
      BY Zenon DEF Heard
    <2>1. r \in t.pending_recv
      BY SentOld
    <2>2. Heard(t, h, R, e)
      BY <1>1
    <2> QED BY <2>1, <2>2, Zenon DEF Heard
  <1> QED BY <1>1, <1>2, <1>3, <1>4, HonestIs

\* Nothing of the control pipe is under way that could still succeed.
Drained(t, fd, S, F, R) ==
    /\ None(t, "close") /\ None(t, "open")
    /\ OpenCtrl(F) \subseteq {fd}
    /\ AllDoomed(t, S, F, R)

Neutral(q) == ~Is(q, "open") /\ ~Is(q, "close") /\ ~Is(q, "read")

LEMMA SentAllDoomed ==
    ASSUME NEW t, NEW s, NEW q, NEW S, NEW F, NEW R, Sent(t, s, q, S, R),
           AllDoomed(t, S, F, R), Is(q, "read") => Doomed(s, S, F, R, q)
    PROVE  AllDoomed(s, S, F, R)
  <1> SUFFICES ASSUME NEW r \in s.pending_recv, Is(r, "read") PROVE Doomed(s, S, F, R, r)
    BY DEF AllDoomed
  <1>1. CASE r = q
    BY <1>1
  <1>2. CASE r \in t.pending_recv
    BY <1>2, SentDoomed DEF AllDoomed
  <1> QED BY <1>1, <1>2 DEF Sent

LEMMA SentNone ==
    ASSUME NEW t, NEW s, NEW q, NEW S, NEW R, Sent(t, s, q, S, R), NEW kind, ~Is(q, kind)
    PROVE  /\ None(t, kind) => None(s, kind)
           /\ Sole(t, kind) => Sole(s, kind)
  BY DEF Sent, None, Sole

\* The parameters of a request that is sent on a live connection.
LEMMA PostedSent ==
    ASSUME NEW S, NEW R, Server(S, R), NEW x, Good(x, S, R), ~x.t.dead,
           NEW y, NEW p, NEW r, NEW K, Posted(x, y, p, r, K),
           \A q \in x.t.pending_recv : q.pipe = "ctrl" => q \in K
    PROVE  Sent(x.t, y.t, r, S, R) /\ ~y.t.dead /\ r.pipe = p
  <1>1. x.t \in Transports /\ Sequenced(x.t, S, R)
    BY DEF Good, Views
  <1>2. NextReq(x.t, r, p) /\ Delivered(x.t, y.t, r, K)
    BY DEF Posted
  <1>3. r \in Requests /\ r.mid = x.t.next_mid /\ r.pipe = p
    BY <1>2 DEF NextReq
  <1>4. /\ y.t \in Transports /\ y.t.pending_recv = K \cup {r} /\ y.t.wire = Append(x.t.wire, r)
        /\ K \subseteq x.t.pending_recv /\ y.t.dead = x.t.dead
    BY <1>2 DEF Delivered
  <1> QED BY <1>1, <1>3, <1>4 DEF Sent

\* async_close of a pipe forgets no request of the control pipe.
LEMMA CloseKeeps ==
    ASSUME NEW S, NEW R, NEW x, Good(x, S, R), NEW p \in Name,
           p # "ctrl" \/ x.ac[p].rreq = NULL,
           NEW K, K = {q \in x.t.pending_recv : q.mid # x.ac[p].rreq},
           NEW q \in x.t.pending_recv, q.pipe = "ctrl"
    PROVE  q \in K
  <1>1. q.mid \in Nat
    BY MidsAreNat DEF Good, Views, Transports
  <1>2. q.mid = x.ac[p].rreq => q.pipe = p
    BY DEF Good, Own
  <1>3. q.mid # NULL
    BY <1>1 DEF NULL
  <1> QED BY <1>2, <1>3

-----------------------------------------------------------------------------
\* A request that is neither open, close nor read of the control pipe.
LEMMA SentWire ==
    ASSUME NEW t, NEW s, NEW q, NEW S, NEW R, Sent(t, s, q, S, R),
           NEW o \in t.pending_recv, NEW i \in DOMAIN s.wire, s.wire[i].mid = o.mid
    PROVE  \E j \in DOMAIN t.wire : t.wire[j].mid = o.mid
  <1>1. i \in DOMAIN t.wire \/ i = Len(t.wire) + 1
    BY SentMids
  <1>2. i # Len(t.wire) + 1
    BY SentMids
  <1>3. s.wire[i] = t.wire[i]
    BY <1>1, <1>2, SentMids
  <1> QED BY <1>1, <1>2, <1>3

LEMMA SentNeutral ==
    ASSUME NEW t, NEW s, NEW q, NEW S, NEW R, Sent(t, s, q, S, R), Neutral(q),
           NEW o \in s.pending_recv, Is(o, "open") \/ Is(o, "close") \/ Is(o, "read")
    PROVE  o \in t.pending_recv
  BY DEF Sent, Neutral

LEMMA SentOpened ==
    ASSUME NEW t, NEW s, NEW q, NEW S, NEW F, NEW R, Sent(t, s, q, S, R), Neutral(q),
           BeingOpened(t, S, F, R)
    PROVE  BeingOpened(s, S, F, R)
  <1>1. None(s, "close") /\ Sole(s, "open")
    BY SentNone DEF Neutral, BeingOpened
  <1>2. AllDoomed(s, S, F, R)
    BY SentAllDoomed DEF Neutral, BeingOpened
  <1>3. ASSUME NEW o \in s.pending_recv, Is(o, "open")
        PROVE  /\ (\E i \in DOMAIN s.wire : s.wire[i].mid = o.mid) => OpenCtrl(F) = {}
               /\ \A i \in DOMAIN R : R[i].mid = o.mid =>
                     OpenCtrl(F) \subseteq (IF R[i].status = "OK" THEN {R[i].fnum} ELSE {})
    <2>1. o \in t.pending_recv
      BY <1>3, SentNeutral
    <2>2. (\E i \in DOMAIN s.wire : s.wire[i].mid = o.mid) =>
             \E i \in DOMAIN t.wire : t.wire[i].mid = o.mid
      BY <2>1, SentWire
    <2>3. (\E i \in DOMAIN t.wire : t.wire[i].mid = o.mid) => OpenCtrl(F) = {}
      BY <1>3, <2>1 DEF BeingOpened
    <2>4. \A i \in DOMAIN R : R[i].mid = o.mid =>
             OpenCtrl(F) \subseteq (IF R[i].status = "OK" THEN {R[i].fnum} ELSE {})
      BY <1>3, <2>1 DEF BeingOpened
    <2> QED BY <2>2, <2>3, <2>4
  <1> QED BY <1>1, <1>2, <1>3 DEF BeingOpened

LEMMA SentInUse ==
    ASSUME NEW t, NEW s, NEW q, NEW S, NEW F, NEW R, Sent(t, s, q, S, R), Neutral(q),
           NEW fd, InUse(t, fd, S, F, R)
    PROVE  InUse(s, fd, S, F, R)
  <1>1. None(s, "close") /\ None(s, "open")
    BY SentNone DEF Neutral, InUse
  <1>2. ASSUME NEW r \in s.pending_recv, Hopeful(s, S, F, R, r)
        PROVE  r \in t.pending_recv /\ Hopeful(t, S, F, R, r)
    <2>1. Is(r, "read") /\ ~Doomed(s, S, F, R, r)
      BY <1>2 DEF Hopeful
    <2>2. r \in t.pending_recv
      BY <2>1, SentNeutral
    <2> QED BY <2>1, <2>2, SentDoomed DEF Hopeful
  <1> QED BY <1>1, <1>2 DEF InUse

LEMMA SentClosed ==
    ASSUME NEW t, NEW s, NEW q, NEW S, NEW F, NEW R, Sent(t, s, q, S, R),
           ~Is(q, "open"), ~Is(q, "close"), Is(q, "read") => Doomed(s, S, F, R, q),
           NEW fd, BeingClosed(t, fd, S, F, R)
    PROVE  BeingClosed(s, fd, S, F, R)
  <1>1. None(s, "open") /\ Sole(s, "close")
    BY SentNone DEF BeingClosed
  <1>2. AllDoomed(s, S, F, R)
    BY SentAllDoomed DEF BeingClosed
  <1>3. ASSUME NEW o \in s.pending_recv, Is(o, "close")
        PROVE  o.fnum = fd /\ \A i \in DOMAIN R : R[i].mid = o.mid => OpenCtrl(F) = {}
    <2>1. o \in t.pending_recv
      BY <1>3 DEF Sent
    <2> QED BY <1>3, <2>1 DEF BeingClosed
  <1> QED BY <1>1, <1>2, <1>3 DEF BeingClosed

LEMMA SentState ==
    ASSUME NEW t, NEW s, NEW q, NEW S, NEW F, NEW R, Sent(t, s, q, S, R), Neutral(q),
           NEW fd, NEW ver, NEW state, InState(t, fd, ver, state, S, F, R)
    PROVE  InState(s, fd, ver, state, S, F, R)
  <1>1. BeingClosed(t, fd, S, F, R) => BeingClosed(s, fd, S, F, R)
    BY SentClosed DEF Neutral
  <1> QED BY <1>1, SentOpened, SentInUse DEF InState

-----------------------------------------------------------------------------
\* The next request when nothing is under way that could succeed.
LEMMA DrainedPost ==
    ASSUME NEW t, NEW s, NEW q, NEW S, NEW F, NEW R, Sent(t, s, q, S, R), Neutral(q),
           NEW fd, Drained(t, fd, S, F, R)
    PROVE  Drained(s, fd, S, F, R)
  <1>1. None(s, "close") /\ None(s, "open")
    BY SentNone DEF Neutral, Drained
  <1>2. AllDoomed(s, S, F, R)
    BY SentAllDoomed DEF Neutral, Drained
  <1> QED BY <1>1, <1>2 DEF Drained

LEMMA DrainedRead ==
    ASSUME NEW t, NEW s, NEW q, NEW S, NEW F, NEW R, Sent(t, s, q, S, R), Is(q, "read"),
           NEW fd, Drained(t, fd, S, F, R)
    PROVE  InUse(s, fd, S, F, R)
  <1>1. ~Is(q, "open") /\ ~Is(q, "close")
    BY DEF Is
  <1>2. None(s, "close") /\ None(s, "open")
    BY <1>1, SentNone DEF Drained
  <1>3. ASSUME NEW r \in s.pending_recv, Hopeful(s, S, F, R, r)
        PROVE  r = q
    <2>1. Is(r, "read") /\ ~Doomed(s, S, F, R, r)
      BY <1>3 DEF Hopeful
    <2>2. r \in t.pending_recv => Doomed(t, S, F, R, r)
      BY <2>1 DEF Drained, AllDoomed
    <2>3. r \notin t.pending_recv
      BY <2>1, <2>2, SentDoomed
    <2> QED BY <2>3 DEF Sent
  <1> QED BY <1>2, <1>3 DEF InUse, Drained

\* async_close, and the async_read behind it: the read finds its handle closed.
LEMMA DrainedClose ==
    ASSUME NEW t, NEW s, NEW q, NEW S, NEW F, NEW R, Sent(t, s, q, S, R), Is(q, "close"),
           NEW fd, q.fnum = fd, Drained(t, fd, S, F, R)
    PROVE  BeingClosed(s, fd, S, F, R)
  <1>1. ~Is(q, "open") /\ ~Is(q, "read")
    BY DEF Is
  <1>2. None(s, "open")
    BY <1>1, SentNone DEF Drained
  <1>3. ASSUME NEW o \in s.pending_recv, Is(o, "close") PROVE o = q
    BY <1>3 DEF Sent, Drained, None
  <1>4. \A i \in DOMAIN R : R[i].mid # q.mid
    BY SentMids
  <1>5. AllDoomed(s, S, F, R)
    BY <1>1, SentAllDoomed DEF Drained
  <1>6. Sole(s, "close")
    BY <1>3 DEF Sole
  <1>7. \A o \in s.pending_recv : Is(o, "close") =>
           o.fnum = fd /\ \A i \in DOMAIN R : R[i].mid = o.mid => OpenCtrl(F) = {}
    BY <1>3, <1>4
  <1>8. OpenCtrl(F) \subseteq {fd}
    BY DEF Drained
  <1> QED BY <1>2, <1>5, <1>6, <1>7, <1>8 DEF BeingClosed

LEMMA ReadBehindClose ==
    ASSUME NEW t, NEW s, NEW v, NEW q, NEW r, NEW S, NEW F, NEW R,
           Sent(t, s, q, S, R), Is(q, "close"), Sent(s, v, r, S, R), Is(r, "read"),
           Awaited(s), NEW fd, q.fnum = fd, BeingClosed(s, fd, S, F, R)
    PROVE  BeingClosed(v, fd, S, F, R)
  <1>1. ~Is(r, "open") /\ ~Is(r, "close")
    BY DEF Is
  <1>2. \A j \in DOMAIN s.wire : ~Is(s.wire[j], "open")
    BY DEF Awaited, BeingClosed, None
  <1>3. \/ r.fnum \notin OpenCtrl(F)
        \/ \E j \in DOMAIN s.wire : s.wire[j].kind = "close" /\ s.wire[j].fnum = r.fnum
    <2>1. CASE r.fnum = fd
      <3>1. Len(t.wire) + 1 \in DOMAIN s.wire /\ s.wire[Len(t.wire) + 1] = q
        BY SentMids
      <3>2. q.kind = "close" /\ q.fnum = r.fnum
        BY <2>1 DEF Is
      <3> QED BY <3>1, <3>2
    <2>2. CASE r.fnum # fd
      BY <2>2 DEF BeingClosed
    <2> QED BY <2>1, <2>2
  <1>4. Doomed(v, S, F, R, r)
    BY <1>2, <1>3, FreshDoomed
  <1> QED BY <1>1, <1>4, SentClosed

\* async_open when the handle before is closed.
LEMMA Reopened ==
    ASSUME NEW t, NEW s, NEW q, NEW S, NEW F, NEW R, Sent(t, s, q, S, R), Is(q, "open"),
           None(t, "open"), None(t, "close"), OpenCtrl(F) = {}, AllDoomed(t, S, F, R)
    PROVE  BeingOpened(s, S, F, R)
  <1>1. ~Is(q, "close") /\ ~Is(q, "read")
    BY DEF Is
  <1>2. None(s, "close")
    BY <1>1, SentNone
  <1>3. ASSUME NEW o \in s.pending_recv, Is(o, "open") PROVE o = q
    BY <1>3 DEF Sent, None
  <1>4. \A i \in DOMAIN R : R[i].mid # q.mid
    BY SentMids
  <1>5. AllDoomed(s, S, F, R)
    BY <1>1, SentAllDoomed
  <1>6. Sole(s, "open")
    BY <1>3 DEF Sole
  <1>7. \A o \in s.pending_recv : Is(o, "open") =>
           \A i \in DOMAIN R : R[i].mid # o.mid
    BY <1>3, <1>4
  <1> QED BY <1>2, <1>5, <1>6, <1>7 DEF BeingOpened

\* A new service: nothing that could be heard is about the old one.
LEMMA FreshHonest ==
    ASSUME NEW t, NEW h, NEW g, NEW S, NEW F, NEW R, NEW e, Honest(t, h, F, R, e),
           OpenCtrl(F) = {}, AllDoomed(t, S, F, R), Untouched(g)
    PROVE  Honest(t, g, F, R, e)
  <1>1. Awaited(t) /\ EarlyAsks(t, e)
    BY HonestParts
  <1>2. Heard(t, g, R, e)
    <2> SUFFICES ASSUME NEW r \in t.pending_recv, Is(r, "read"), NEW i \in DOMAIN R,
                        R[i].mid = r.mid, R[i].status = "OK"
                 PROVE  FALSE
      BY Zenon DEF Heard
    <2>1. Doomed(t, S, F, R, r)
      BY DEF AllDoomed
    <2> QED BY <2>1 DEF Doomed
  <1>3. Reached(g, e, F)
    BY Zenon DEF Reached
  <1> QED BY <1>1, <1>2, <1>3, HonestIs

-----------------------------------------------------------------------------
\* Some requests are no longer awaited.
Fewer(t, s) == s.pending_recv \subseteq t.pending_recv /\ s.wire = t.wire

LEMMA FewerState ==
    ASSUME NEW t, NEW s, Fewer(t, s), NEW S, NEW F, NEW R, NEW fd, NEW ver, NEW state
    PROVE  /\ AllDoomed(t, S, F, R) => AllDoomed(s, S, F, R)
           /\ BeingOpened(t, S, F, R) => BeingOpened(s, S, F, R)
           /\ InUse(t, fd, S, F, R) => InUse(s, fd, S, F, R)
           /\ BeingClosed(t, fd, S, F, R) => BeingClosed(s, fd, S, F, R)
           /\ InState(t, fd, ver, state, S, F, R) => InState(s, fd, ver, state, S, F, R)
  <1>1. s.pending_recv \subseteq t.pending_recv /\ s.wire = t.wire
    BY DEF Fewer
  <1>2. \A r : Doomed(t, S, F, R, r) <=> Doomed(s, S, F, R, r)
    BY <1>1 DEF Doomed
  <1>3. AllDoomed(t, S, F, R) => AllDoomed(s, S, F, R)
    BY <1>1, <1>2 DEF AllDoomed
  <1>4. \A kind : (None(t, kind) => None(s, kind)) /\ (Sole(t, kind) => Sole(s, kind))
    BY <1>1 DEF None, Sole
  <1>5. ASSUME BeingOpened(t, S, F, R) PROVE BeingOpened(s, S, F, R)
    <2>1. None(s, "close") /\ Sole(s, "open") /\ AllDoomed(s, S, F, R)
      BY <1>3, <1>4, <1>5 DEF BeingOpened
    <2>2. \A o \in s.pending_recv : Is(o, "open") =>
          /\ (\E i \in DOMAIN s.wire : s.wire[i].mid = o.mid) => OpenCtrl(F) = {}
          /\ \A i \in DOMAIN R : R[i].mid = o.mid =>
                OpenCtrl(F) \subseteq (IF R[i].status = "OK" THEN {R[i].fnum} ELSE {})
      BY <1>1, <1>5 DEF BeingOpened
    <2> QED BY <2>1, <2>2 DEF BeingOpened
  <1>6. ASSUME InUse(t, fd, S, F, R) PROVE InUse(s, fd, S, F, R)
    BY <1>1, <1>2, <1>4, <1>6 DEF InUse, Hopeful
  <1>7. ASSUME BeingClosed(t, fd, S, F, R) PROVE BeingClosed(s, fd, S, F, R)
    BY <1>1, <1>3, <1>4, <1>7 DEF BeingClosed
  <1> QED BY <1>3, <1>5, <1>6, <1>7 DEF InState

LEMMA FewerHonest ==
    ASSUME NEW t, NEW s, Fewer(t, s), NEW h, NEW F, NEW R, NEW e, Honest(t, h, F, R, e),
           \A i \in DOMAIN t.wire :
               /\ Is(t.wire[i], "open") \/ Is(t.wire[i], "close")
               /\ t.wire[i] \in t.pending_recv
               => t.wire[i] \in s.pending_recv
    PROVE  Honest(s, h, F, R, e)
  <1>1. Awaited(t) /\ EarlyAsks(t, e) /\ Heard(t, h, R, e) /\ Reached(h, e, F) /\ Untouched(h)
    BY HonestParts
  <1>2. s.pending_recv \subseteq t.pending_recv /\ s.wire = t.wire
    BY DEF Fewer
  <1>3. Awaited(s)
    BY <1>1, <1>2 DEF Awaited
  <1>4. Asks(t) => Asks(s)
    BY <1>2, Zenon DEF Asks
  <1>5. EarlyAsks(s, e)
    BY <1>1, <1>4, Zenon DEF EarlyAsks
  <1>6. Heard(s, h, R, e)
    BY <1>1, <1>2, Zenon DEF Heard
  <1> QED BY <1>1, <1>3, <1>5, <1>6, HonestIs

-----------------------------------------------------------------------------
\* Some replies are gone.
LEMMA LesserDoomed ==
    ASSUME NEW t, NEW S, NEW F, NEW R, NEW P, Within(P, R), NEW r, Doomed(t, S, F, R, r)
    PROVE  Doomed(t, S, F, P, r)
  <1>1. r \notin S
    BY DEF Doomed
  <1>2. \A i \in DOMAIN P : P[i].mid = r.mid => P[i].status # "OK"
    BY DEF Doomed, Within
  <1>3. \A i \in DOMAIN t.wire : t.wire[i].mid = r.mid =>
          /\ \/ r.fnum \notin OpenCtrl(F)
             \/ \E j \in DOMAIN t.wire :
                   j < i /\ t.wire[j].kind = "close" /\ t.wire[j].fnum = r.fnum
          /\ \A j \in DOMAIN t.wire : j < i => ~Is(t.wire[j], "open")
    BY DEF Doomed
  <1> QED BY <1>1, <1>2, <1>3 DEF Doomed

LEMMA LesserState ==
    ASSUME NEW t, NEW S, NEW F, NEW R, NEW P, Within(P, R), NEW fd, NEW ver, NEW state,
           InState(t, fd, ver, state, S, F, R)
    PROVE  InState(t, fd, ver, state, S, F, P)
  <1>1. AllDoomed(t, S, F, R) => AllDoomed(t, S, F, P)
    BY LesserDoomed DEF AllDoomed
  <1>2. ASSUME BeingOpened(t, S, F, R) PROVE BeingOpened(t, S, F, P)
    <2>1. None(t, "close") /\ Sole(t, "open") /\ AllDoomed(t, S, F, P)
      BY <1>1, <1>2 DEF BeingOpened
    <2>2. ASSUME NEW o \in t.pending_recv, Is(o, "open")
          PROVE  /\ (\E i \in DOMAIN t.wire : t.wire[i].mid = o.mid) => OpenCtrl(F) = {}
                 /\ \A i \in DOMAIN P : P[i].mid = o.mid =>
                       OpenCtrl(F) \subseteq (IF P[i].status = "OK" THEN {P[i].fnum} ELSE {})
      <3>1. (\E i \in DOMAIN t.wire : t.wire[i].mid = o.mid) => OpenCtrl(F) = {}
        BY <1>2, <2>2 DEF BeingOpened
      <3>2. \A i \in DOMAIN R : R[i].mid = o.mid =>
               OpenCtrl(F) \subseteq (IF R[i].status = "OK" THEN {R[i].fnum} ELSE {})
        BY <1>2, <2>2 DEF BeingOpened
      <3>3. ASSUME NEW i \in DOMAIN P, P[i].mid = o.mid
            PROVE  OpenCtrl(F) \subseteq (IF P[i].status = "OK" THEN {P[i].fnum} ELSE {})
        <4>1. PICK j \in DOMAIN R : P[i] = R[j]
          BY DEF Within
        <4> QED BY <3>2, <3>3, <4>1
      <3> QED BY <3>1, <3>3
    <2> QED BY <2>1, <2>2 DEF BeingOpened
  <1>3. ASSUME InUse(t, fd, S, F, R) PROVE InUse(t, fd, S, F, P)
    BY <1>3, LesserDoomed DEF InUse, Hopeful
  <1>4. ASSUME BeingClosed(t, fd, S, F, R) PROVE BeingClosed(t, fd, S, F, P)
    <2>1. \A q \in t.pending_recv : Is(q, "close") =>
             q.fnum = fd /\ \A i \in DOMAIN P : P[i].mid = q.mid => OpenCtrl(F) = {}
      BY <1>4 DEF BeingClosed, Within
    <2> QED BY <1>1, <1>4, <2>1 DEF BeingClosed
  <1> QED BY <1>2, <1>3, <1>4 DEF InState

LEMMA LesserCurrent ==
    ASSUME NEW x, NEW S, NEW F, NEW R, NEW P, Within(P, R), Current(x, S, F, R)
    PROVE  Current(x, S, F, P)
  <1> DEFINE e == x.u.state # "RUNNING"
  <1>1. Honest(x.t, x.h, F, R, e)
    BY DEF Current
  <1> HIDE DEF e
  <1>2. Awaited(x.t) /\ EarlyAsks(x.t, e) /\ Heard(x.t, x.h, R, e) /\ Reached(x.h, e, F) /\ Untouched(x.h)
    BY <1>1, HonestParts
  <1>3. Heard(x.t, x.h, P, e)
    <2> SUFFICES ASSUME NEW r \in x.t.pending_recv, Is(r, "read"), NEW i \in DOMAIN P,
                        P[i].mid = r.mid, P[i].status = "OK"
                 PROVE  Told(x.h, e, P[i].msg)
      BY Zenon DEF Heard
    <2>1. PICK j \in DOMAIN R : P[i] = R[j]
      BY DEF Within
    <2>2. R[j].mid = r.mid /\ R[j].status = "OK"
      BY <2>1
    <2>3. Told(x.h, e, R[j].msg)
      BY <1>2, <2>2, Zenon DEF Heard
    <2> QED BY <2>1, <2>3
  <1>4. Honest(x.t, x.h, F, P, e)
    BY <1>2, <1>3, HonestIs
  <1>5. InState(x.t, x.ac["ctrl"].fd, x.h.svc.ver, x.u.state, S, F, P)
    BY LesserState DEF Current
  <1> QED BY <1>4, <1>5 DEF Current, e

-----------------------------------------------------------------------------
(***************************************************************************)
(* The handlers of the client.                                             *)
(***************************************************************************)

\* The connection is up, and everything in order.
Online(x, S, R) == Server(S, R) /\ Good(x, S, R) /\ ~x.t.dead

LEMMA OnlineSteps ==
    ASSUME NEW S, NEW R, NEW x, Online(x, S, R), NEW y, NEW p \in Name
    PROVE  /\ Touched(x, y, p) => Online(y, S, R)
           /\ Received(x, y, p) => Online(y, S, R)
           /\ \A u : Bare(x, y, u) => Online(y, S, R)
           /\ \A u, h : Swapped(x, y, u, h) /\ HostOK(h) => Online(y, S, R)
           /\ ReadsOn(x, y, p) => Online(y, S, R)
           /\ Opens(x, y, p) => Online(y, S, R)
           /\ Closes(x, y, p) => Online(y, S, R)
           /\ \A d : Writes(x, y, p, d) => Online(y, S, R)
  <1>1. Server(S, R) /\ Good(x, S, R) /\ ~x.t.dead
    BY DEF Online
  <1>2. ASSUME NEW r, NEW K, Posted(x, y, p, r, K) PROVE ~y.t.dead
    BY <1>1, <1>2 DEF Posted, Delivered
  <1>3. /\ Touched(x, y, p) => ~y.t.dead
        /\ Received(x, y, p) => ~y.t.dead
        /\ \A u : Bare(x, y, u) => ~y.t.dead
        /\ \A u, h : Swapped(x, y, u, h) => ~y.t.dead
    BY <1>1 DEF Touched, Received, Bare, Swapped
  <1>4. /\ ReadsOn(x, y, p) => ~y.t.dead
        /\ Opens(x, y, p) => ~y.t.dead
        /\ Closes(x, y, p) => ~y.t.dead
        /\ \A d : Writes(x, y, p, d) => ~y.t.dead
    BY <1>2, Zenon DEF ReadsOn, Opens, Closes, Writes
  <1>5. /\ ReadsOn(x, y, p) => Good(y, S, R)
        /\ Closes(x, y, p) => Good(y, S, R)
        /\ Opens(x, y, p) => Good(y, S, R)
        /\ \A d : Writes(x, y, p, d) => Good(y, S, R)
        /\ Touched(x, y, p) => Good(y, S, R)
        /\ Received(x, y, p) => Good(y, S, R)
        /\ \A u : Bare(x, y, u) => Good(y, S, R)
        /\ \A u, h : Swapped(x, y, u, h) /\ HostOK(h) => Good(y, S, R)
    BY <1>1, StepsGood, Zenon
  <1> QED BY <1>1, <1>3, <1>4, <1>5, Zenon DEF Online

\* Each operation sends one request.
LEMMA OnlineSent ==
    ASSUME NEW S, NEW R, NEW x, Online(x, S, R), NEW y, NEW p \in Name
    PROVE  /\ ReadsOn(x, y, p) => \E r : r.pipe = p /\ r.kind = "read" /\ Sent(x.t, y.t, r, S, R)
           /\ Opens(x, y, p) => \E r : r.pipe = p /\ r.kind = "open" /\ Sent(x.t, y.t, r, S, R)
           /\ \A d : Writes(x, y, p, d) =>
                 \E r : r.pipe = p /\ r.kind = "write" /\ r.data = d /\ Sent(x.t, y.t, r, S, R)
           /\ Closes(x, y, p) /\ (p # "ctrl" \/ x.ac[p].rreq = NULL) =>
                 \E r : /\ r.pipe = p /\ r.kind = "close" /\ r.fnum = x.ac[p].fd
                        /\ Sent(x.t, y.t, r, S, R)
  <1>1. Server(S, R) /\ Good(x, S, R) /\ ~x.t.dead
    BY DEF Online
  <1>2. ASSUME NEW r, Posted(x, y, p, r, x.t.pending_recv)
        PROVE  Sent(x.t, y.t, r, S, R) /\ r.pipe = p
    BY <1>1, <1>2, PostedSent
  <1>3. ASSUME NEW r, p # "ctrl" \/ x.ac[p].rreq = NULL,
               Posted(x, y, p, r, {q \in x.t.pending_recv : q.mid # x.ac[p].rreq})
        PROVE  Sent(x.t, y.t, r, S, R) /\ r.pipe = p
    <2>1. PICK K : K = {q \in x.t.pending_recv : q.mid # x.ac[p].rreq}
      OBVIOUS
    <2>2. \A q \in x.t.pending_recv : q.pipe = "ctrl" => q \in K
      BY <1>1, <1>3, <2>1, CloseKeeps
    <2>3. Posted(x, y, p, r, K)
      BY <1>3, <2>1
    <2> QED BY <1>1, <2>2, <2>3, PostedSent
  <1>4. ReadsOn(x, y, p) => \E r : r.pipe = p /\ r.kind = "read" /\ Sent(x.t, y.t, r, S, R)
    BY <1>2, Zenon DEF ReadsOn
  <1>5. Opens(x, y, p) => \E r : r.pipe = p /\ r.kind = "open" /\ Sent(x.t, y.t, r, S, R)
    BY <1>2, Zenon DEF Opens
  <1>6. \A d : Writes(x, y, p, d) =>
           \E r : r.pipe = p /\ r.kind = "write" /\ r.data = d /\ Sent(x.t, y.t, r, S, R)
    BY <1>2, Zenon DEF Writes
  <1>7. Closes(x, y, p) /\ (p # "ctrl" \/ x.ac[p].rreq = NULL) =>
           \E r : /\ r.pipe = p /\ r.kind = "close" /\ r.fnum = x.ac[p].fd
                  /\ Sent(x.t, y.t, r, S, R)
    BY <1>3, Zenon DEF Closes
  <1> QED BY <1>4, <1>5, <1>6, <1>7

\* What Current depends on.
LEMMA SameCurrent ==
    ASSUME NEW S, NEW F, NEW R, NEW x, NEW y, Current(x, S, F, R), y.t = x.t, y.h = x.h,
           y.u.state = x.u.state, y.ac["ctrl"].fd = x.ac["ctrl"].fd
    PROVE  Current(y, S, F, R)
  BY DEF Current

\* A request of another pipe, or a write to the control pipe.
LEMMA SentCurrent ==
    ASSUME NEW S, NEW F, NEW R, NEW x, NEW y, NEW q, Current(x, S, F, R),
           Sent(x.t, y.t, q, S, R), Neutral(q), Question(q), y.h = x.h,
           y.u.state = x.u.state, y.ac["ctrl"].fd = x.ac["ctrl"].fd
    PROVE  Current(y, S, F, R)
  <1> DEFINE e == x.u.state # "RUNNING"
  <1>1. Honest(x.t, x.h, F, R, e)
    BY DEF Current
  <1>2. InState(x.t, x.ac["ctrl"].fd, x.h.svc.ver, x.u.state, S, F, R)
    BY DEF Current
  <1>3. InState(y.t, x.ac["ctrl"].fd, x.h.svc.ver, x.u.state, S, F, R)
    BY <1>2, SentState
  <1> HIDE DEF e
  <1>4. Honest(y.t, x.h, F, R, e)
    BY <1>1, SentHonest, Zenon DEF Polite
  <1> QED BY <1>3, <1>4 DEF Current, e

LEMMA OtherPipe ==
    ASSUME NEW q, q.pipe # "ctrl"
    PROVE  Neutral(q) /\ Question(q)
  BY DEF Neutral, Question, Is

LEMMA TouchedOther ==
    ASSUME NEW S, NEW F, NEW R, NEW x, Current(x, S, F, R), NEW p, p # "ctrl",
           NEW y, Touched(x, y, p)
    PROVE  Current(y, S, F, R)
  <1>1. y.t = x.t /\ y.h = x.h /\ y.u.state = x.u.state /\ y.ac["ctrl"].fd = x.ac["ctrl"].fd
    BY Names DEF Touched
  <1> QED BY <1>1, SameCurrent

\* A request of an I/O pipe.
LEMMA OtherFields ==
    ASSUME NEW x, NEW y, NEW p, p # "ctrl",
           Opens(x, y, p) \/ Closes(x, y, p) \/ ReadsOn(x, y, p) \/ \E d : Writes(x, y, p, d)
    PROVE  y.h = x.h /\ y.u = x.u /\ y.ac["ctrl"] = x.ac["ctrl"]
  <1>1. PICK r, K : Posted(x, y, p, r, K)
    BY Zenon DEF Opens, Closes, ReadsOn, Writes
  <1> QED BY <1>1, Names DEF Posted

LEMMA OtherCurrent ==
    ASSUME NEW S, NEW F, NEW R, NEW x, Online(x, S, R), Current(x, S, F, R),
           NEW p \in Name, p # "ctrl", NEW y,
           Opens(x, y, p) \/ Closes(x, y, p) \/ ReadsOn(x, y, p) \/ \E d : Writes(x, y, p, d)
    PROVE  Current(y, S, F, R)
  <1>1. y.h = x.h /\ y.u = x.u /\ y.ac["ctrl"] = x.ac["ctrl"]
    BY OtherFields
  <1>2. PICK q : q.pipe = p /\ Sent(x.t, y.t, q, S, R)
    <2>1. CASE Opens(x, y, p)
      BY <2>1, OnlineSent
    <2>2. CASE Closes(x, y, p)
      BY <2>2, OnlineSent
    <2>3. CASE ReadsOn(x, y, p)
      BY <2>3, OnlineSent
    <2>4. CASE \E d : Writes(x, y, p, d)
      <3>1. PICK d : Writes(x, y, p, d)
        BY <2>4
      <3> QED BY <3>1, OnlineSent
    <2> QED BY <2>1, <2>2, <2>3, <2>4
  <1>3. Neutral(q) /\ Question(q)
    BY <1>2, OtherPipe
  <1> QED BY <1>1, <1>2, <1>3, SentCurrent

LEMMA IoCurrent ==
    ASSUME NEW S, NEW F, NEW R, NEW x, Online(x, S, R), Current(x, S, F, R),
           NEW p \in Name, p # "ctrl", NEW y, IoOutcome(x, y, p)
    PROVE  /\ Current(y, S, F, R)
           /\ y.h = x.h /\ y.u.state = x.u.state /\ y.u.abort_requested = x.u.abort_requested
  <1>1. CASE Touched(x, y, p)
    BY <1>1, TouchedOther DEF Touched
  <1>2. CASE \E w, z : /\ Touched(x, w, p)
                       /\ \E u \in Users : Bare(w, z, u) /\ Aside(w.u, u)
                       /\ ReadsOn(z, y, p)
    <2>1. PICK w, z : /\ Touched(x, w, p)
                      /\ \E u \in Users : Bare(w, z, u) /\ Aside(w.u, u)
                      /\ ReadsOn(z, y, p)
      BY <1>2, Zenon
    <2>2. Current(w, S, F, R) /\ Online(w, S, R) /\ w.h = x.h /\ w.u = x.u
      BY <2>1, TouchedOther, OnlineSteps DEF Touched
    <2>3. PICK u \in Users : Bare(w, z, u) /\ Aside(w.u, u)
      BY <2>1
    <2>4. /\ z.t = w.t /\ z.h = w.h /\ z.ac = w.ac /\ z.u.state = w.u.state
          /\ z.u.abort_requested = w.u.abort_requested
      BY <2>3 DEF Bare, Aside
    <2>5. Current(z, S, F, R)
      BY <2>2, <2>4, SameCurrent
    <2>6. Online(z, S, R)
      BY <2>2, <2>3, OnlineSteps, Zenon
    <2>7. Current(y, S, F, R)
      BY <2>1, <2>5, <2>6, OtherCurrent
    <2>8. y.h = z.h /\ y.u = z.u
      BY <2>1, OtherFields
    <2> QED BY <2>2, <2>4, <2>7, <2>8
  <1>3. CASE \E w : Touched(x, w, p) /\ Closes(w, y, p)
    <2>1. PICK w : Touched(x, w, p) /\ Closes(w, y, p)
      BY <1>3
    <2>2. Current(w, S, F, R) /\ Online(w, S, R) /\ w.h = x.h /\ w.u = x.u
      BY <2>1, TouchedOther, OnlineSteps DEF Touched
    <2>3. Current(y, S, F, R)
      BY <2>1, <2>2, OtherCurrent
    <2>4. y.h = w.h /\ y.u = w.u
      BY <2>1, OtherFields
    <2> QED BY <2>2, <2>3, <2>4
  <1> QED BY <1>1, <1>2, <1>3 DEF IoOutcome

-----------------------------------------------------------------------------
\* x is v without the request r.
Dropped(v, x, r) ==
    /\ x.ac = v.ac /\ x.u = v.u /\ x.h = v.h
    /\ x.t.pending_recv = v.t.pending_recv \ {r} /\ x.t.wire = v.t.wire

\* The request r has been answered.
Replied(R, r, status, f, m) ==
    \E i \in DOMAIN R :
        R[i].mid = r.mid /\ R[i].status = status /\ R[i].fnum = f /\ R[i].msg = m

LEMMA DroppedHonest ==
    ASSUME NEW S, NEW F, NEW R, NEW v, NEW r \in v.t.pending_recv, Sequenced(v.t, S, R),
           NEW x, Dropped(v, x, r),
           \/ \E status, f, m : Replied(R, r, status, f, m)
           \/ ~Is(r, "open") /\ ~Is(r, "close"),
           NEW h, NEW e, Honest(v.t, h, F, R, e)
    PROVE  Honest(x.t, h, F, R, e) /\ Fewer(v.t, x.t)
  <1>1. Fewer(v.t, x.t)
    BY DEF Dropped, Fewer
  <1>2. ASSUME NEW i \in DOMAIN v.t.wire,
               Is(v.t.wire[i], "open") \/ Is(v.t.wire[i], "close"),
               v.t.wire[i] \in v.t.pending_recv
        PROVE  v.t.wire[i] \in x.t.pending_recv
    <2>1. v.t.wire[i] # r
      <3>1. CASE \E status, f, m : Replied(R, r, status, f, m)
        <4>1. PICK j \in DOMAIN R : R[j].mid = r.mid
          BY <3>1 DEF Replied
        <4>2. v.t.wire[i].mid # R[j].mid
          BY DEF Sequenced, Placed
        <4> QED BY <4>1, <4>2
      <3>2. CASE ~Is(r, "open") /\ ~Is(r, "close")
        BY <1>2, <3>2
      <3> QED BY <3>1, <3>2
    <2> QED BY <1>2, <2>1 DEF Dropped
  <1> QED BY <1>1, <1>2, FewerHonest

LEMMA DroppedCurrent ==
    ASSUME NEW S, NEW F, NEW R, NEW v, NEW r \in v.t.pending_recv, Sequenced(v.t, S, R),
           NEW x, Dropped(v, x, r),
           \/ \E status, f, m : Replied(R, r, status, f, m)
           \/ ~Is(r, "open") /\ ~Is(r, "close"),
           Current(v, S, F, R)
    PROVE  Current(x, S, F, R)
  <1> DEFINE e == v.u.state # "RUNNING"
  <1>1. Honest(v.t, v.h, F, R, e) /\ InState(v.t, v.ac["ctrl"].fd, v.h.svc.ver, v.u.state, S, F, R)
    BY DEF Current
  <1> HIDE DEF e
  <1>2. Honest(x.t, v.h, F, R, e) /\ Fewer(v.t, x.t)
    BY <1>1, DroppedHonest
  <1>3. InState(x.t, v.ac["ctrl"].fd, v.h.svc.ver, v.u.state, S, F, R)
    BY <1>1, <1>2, FewerState
  <1>4. x.ac = v.ac /\ x.u = v.u /\ x.h = v.h
    BY DEF Dropped
  <1> QED BY <1>2, <1>3, <1>4 DEF Current, e

-----------------------------------------------------------------------------
LEMMA CurrentIs ==
    ASSUME NEW S, NEW F, NEW R, NEW x
    PROVE  /\ x.u.state # "RUNNING" =>
                (Current(x, S, F, R) <=>
                   /\ Honest(x.t, x.h, F, R, TRUE)
                   /\ InState(x.t, x.ac["ctrl"].fd, x.h.svc.ver, x.u.state, S, F, R))
           /\ x.u.state = "RUNNING" =>
                (Current(x, S, F, R) <=>
                   /\ Honest(x.t, x.h, F, R, FALSE)
                   /\ InState(x.t, x.ac["ctrl"].fd, x.h.svc.ver, x.u.state, S, F, R))
  <1>1. CASE x.u.state # "RUNNING"
    <2>1. (x.u.state # "RUNNING") = TRUE
      BY <1>1
    <2> QED BY <1>1, <2>1 DEF Current
  <1>2. CASE x.u.state = "RUNNING"
    <2>1. (x.u.state # "RUNNING") = FALSE
      BY <1>2
    <2> QED BY <1>2, <2>1 DEF Current
  <1> QED BY <1>1, <1>2

\* Once the command is sent less is asked of the service.
LEMMA HonestLate ==
    ASSUME NEW t, NEW h, NEW F, NEW R, NEW e, Honest(t, h, F, R, e)
    PROVE  Honest(t, h, F, R, FALSE)
  <1>1. Awaited(t) /\ Heard(t, h, R, e) /\ Reached(h, e, F) /\ Untouched(h)
    BY HonestParts
  <1>2. \A m : Told(h, e, m) => Told(h, FALSE, m)
    BY Zenon DEF Told
  <1>3. \A k : Fine(h, e, k) => Fine(h, FALSE, k)
    BY <1>2, Zenon DEF Fine
  <1>4. Heard(t, h, R, FALSE)
    BY <1>1, <1>2, Zenon DEF Heard
  <1>5. Reached(h, FALSE, F)
    BY <1>1, <1>3, Zenon DEF Reached
  <1>6. EarlyAsks(t, FALSE)
    BY Zenon DEF EarlyAsks
  <1> QED BY <1>1, <1>4, <1>5, <1>6, HonestIs

\* Lines written to the control pipe.
LEMMA LinesSent ==
    ASSUME NEW S, NEW R, NEW x, Online(x, S, R), NEW y, NEW d, Writes(x, y, "ctrl", d)
    PROVE  /\ y.u = x.u /\ y.h = x.h /\ y.ac["ctrl"].fd = x.ac["ctrl"].fd
           /\ Online(y, S, R)
           /\ \E q : Sent(x.t, y.t, q, S, R) /\ Neutral(q) /\ q.data = d
  <1>1. y.u = x.u /\ y.h = x.h
    BY PostedView
  <1>2. y.ac["ctrl"].fd = x.ac["ctrl"].fd
    BY Zenon DEF Writes
  <1>3. Online(y, S, R)
    BY OnlineSteps, Names
  <1>4. PICK q : q.pipe = "ctrl" /\ q.kind = "write" /\ q.data = d /\ Sent(x.t, y.t, q, S, R)
    <2>1. ASSUME NEW p \in Name
          PROVE  \A a : Writes(x, y, p, a) =>
             \E q : q.pipe = p /\ q.kind = "write" /\ q.data = a /\ Sent(x.t, y.t, q, S, R)
      BY OnlineSent
    <2>2. "ctrl" \in Name
      BY Names
    <2>3. \E q : q.pipe = "ctrl" /\ q.kind = "write" /\ q.data = d /\ Sent(x.t, y.t, q, S, R)
      BY <2>1, <2>2
    <2> QED BY <2>3
  <1>5. Neutral(q)
    BY <1>4 DEF Neutral, Is
  <1> QED BY <1>1, <1>2, <1>3, <1>4, <1>5

\* async_read of the control pipe.
LEMMA ReadSent ==
    ASSUME NEW S, NEW R, NEW x, Online(x, S, R), NEW y, ReadsOn(x, y, "ctrl")
    PROVE  /\ y.u = x.u /\ y.h = x.h /\ y.ac["ctrl"].fd = x.ac["ctrl"].fd
           /\ \E q : Sent(x.t, y.t, q, S, R) /\ Is(q, "read") /\ Question(q)
  <1>1. y.u = x.u /\ y.h = x.h
    BY PostedView
  <1>2. y.ac["ctrl"].fd = x.ac["ctrl"].fd
    BY Zenon DEF ReadsOn
  <1>4. PICK q : q.pipe = "ctrl" /\ q.kind = "read" /\ Sent(x.t, y.t, q, S, R)
    BY OnlineSent, Names
  <1>5. Is(q, "read") /\ Question(q)
    BY <1>4 DEF Is, Question
  <1> QED BY <1>1, <1>2, <1>4, <1>5

\* A handler ends with async_read.
LEMMA ReadOnCurrent ==
    ASSUME NEW S, NEW F, NEW R, NEW x, Online(x, S, R), NEW y, ReadsOn(x, y, "ctrl"),
           Drained(x.t, x.ac["ctrl"].fd, S, F, R), NEW e,
           Honest(x.t, x.h, F, R, e)
    PROVE  /\ InUse(y.t, y.ac["ctrl"].fd, S, F, R) /\ Honest(y.t, y.h, F, R, e)
           /\ y.u = x.u /\ y.h = x.h
  <1>1. y.u = x.u /\ y.h = x.h /\ y.ac["ctrl"].fd = x.ac["ctrl"].fd
    BY ReadSent
  <1>2. PICK q : Sent(x.t, y.t, q, S, R) /\ Is(q, "read") /\ Question(q)
    BY ReadSent
  <1>3. InUse(y.t, x.ac["ctrl"].fd, S, F, R)
    BY <1>2, DrainedRead
  <1>4. Polite(q, e)
    BY <1>2, Zenon DEF Polite
  <1>5. Honest(y.t, x.h, F, R, e)
    BY <1>2, <1>4, SentHonest
  <1> QED BY <1>1, <1>3, <1>5

\* on_ctrl_pipe_open
LEMMA OpenedCurrent ==
    ASSUME NEW S, NEW F, NEW R, NEW v, NEW r \in v.t.pending_recv, Sequenced(v.t, S, R),
           Current(v, S, F, R), v.u \in Users, NEW x, Dropped(v, x, r), Online(x, S, R), Is(r, "open"),
           NEW f, NEW m, NEW y, Replied(R, r, "OK", f, m), CtrlOpened(x, y, f)
    PROVE  /\ Current(y, S, F, R) /\ y.h = x.h /\ y.u.state = "GETTING_VERSION"
           /\ y.u.abort_requested = x.u.abort_requested
  <1>1. /\ Honest(v.t, v.h, F, R, v.u.state # "RUNNING")
        /\ InState(v.t, v.ac["ctrl"].fd, v.h.svc.ver, v.u.state, S, F, R)
    BY DEF Current
  <1>2. v.u.state = "OPENING"
    BY <1>1 DEF InState, InUse, BeingClosed, None, Users
  <1>3. BeingOpened(v.t, S, F, R)
    BY <1>1, <1>2 DEF InState
  <1>4. Honest(v.t, v.h, F, R, TRUE)
    BY <1>2, CurrentIs
  <1>5. Honest(x.t, v.h, F, R, TRUE) /\ Fewer(v.t, x.t)
    BY <1>4, DroppedHonest
  <1>6. OpenCtrl(F) \subseteq {f}
    <2>1. PICK i \in DOMAIN R : R[i].mid = r.mid /\ R[i].status = "OK" /\ R[i].fnum = f
      BY DEF Replied
    <2>2. OpenCtrl(F) \subseteq (IF R[i].status = "OK" THEN {R[i].fnum} ELSE {})
      BY <1>3, <2>1 DEF BeingOpened
    <2> QED BY <2>1, <2>2
  <1>7. None(x.t, "close") /\ None(x.t, "open")
    BY <1>3 DEF BeingOpened, None, Sole, Dropped
  <1>8. Drained(x.t, f, S, F, R)
    BY <1>3, <1>5, <1>6, <1>7, FewerState DEF Drained, BeingOpened
  <1>9. PICK w, z, a : /\ Touched(x, w, "ctrl") /\ w.ac["ctrl"].fd = f
                       /\ Bare(w, z, [w.u EXCEPT !.state = "GETTING_VERSION", !.handler = TRUE,
                                                 !.timers = @ + 1])
                       /\ Writes(z, a, "ctrl", <<"get version">>)
                       /\ ReadsOn(a, y, "ctrl")
    BY Zenon DEF CtrlOpened
  <1>10. w.t = x.t /\ w.h = x.h /\ w.u = x.u /\ Online(w, S, R) /\ w.u \in Users
    <2>1. Touched(x, w, "ctrl")
      BY <1>9
    <2>2. w.t = x.t /\ w.h = x.h /\ w.u = x.u
      BY <2>1 DEF Touched
    <2>3. x.u = v.u
      BY DEF Dropped
    <2> QED BY <2>1, <2>2, <2>3, OnlineSteps, Names
  <1>11. /\ z.t = x.t /\ z.h = x.h /\ z.ac["ctrl"].fd = f /\ Online(z, S, R)
         /\ z.u.state = "GETTING_VERSION" /\ z.u.abort_requested = x.u.abort_requested
    <2> DEFINE u == [w.u EXCEPT !.state = "GETTING_VERSION", !.handler = TRUE, !.timers = @ + 1]
    <2>1. Bare(w, z, u)
      BY <1>9
    <2>2. u.state = "GETTING_VERSION" /\ u.abort_requested = w.u.abort_requested
      BY <1>10 DEF Users
    <2> HIDE DEF u
    <2>3. z.ac = w.ac /\ z.t = w.t /\ z.h = w.h /\ z.u = u
      BY <2>1 DEF Bare
    <2>4. Online(z, S, R)
      BY <1>10, <2>1, OnlineSteps, Names, Zenon
    <2>5. w.ac["ctrl"].fd = f
      BY <1>9
    <2> QED BY <1>10, <2>2, <2>3, <2>4, <2>5
  <1>12. PICK d : d = <<"get version">> /\ Writes(z, a, "ctrl", d)
    BY <1>9, Zenon
  <1>13. /\ a.u = z.u /\ a.h = z.h /\ a.ac["ctrl"].fd = z.ac["ctrl"].fd /\ Online(a, S, R)
         /\ \E q : Sent(z.t, a.t, q, S, R) /\ Neutral(q) /\ Question(q)
    <2>1. Writes(z, a, "ctrl", d) /\ Online(z, S, R)
      BY <1>11, <1>12
    <2>2. /\ a.u = z.u /\ a.h = z.h /\ a.ac["ctrl"].fd = z.ac["ctrl"].fd /\ Online(a, S, R)
          /\ \E q : Sent(z.t, a.t, q, S, R) /\ Neutral(q) /\ q.data = d
      BY <2>1, LinesSent
    <2>3. PICK q : Sent(z.t, a.t, q, S, R) /\ Neutral(q) /\ q.data = d
      BY <2>2
    <2>4. Question(q)
      BY <1>12, <2>3 DEF Question
    <2> QED BY <2>2, <2>3, <2>4
  <1>14. PICK q : Sent(z.t, a.t, q, S, R) /\ Neutral(q) /\ Question(q)
    BY <1>13
  <1>15. Drained(a.t, f, S, F, R)
    BY <1>8, <1>11, <1>14, DrainedPost
  <1>16. Honest(a.t, v.h, F, R, TRUE)
    <2>1. Polite(q, TRUE)
      BY <1>14, Zenon DEF Polite
    <2>2. Honest(z.t, v.h, F, R, TRUE)
      BY <1>5, <1>11
    <2> QED BY <1>14, <2>1, <2>2, SentHonest, Zenon
  <1>17. x.h = v.h
    BY DEF Dropped
  <1>18. /\ InUse(y.t, y.ac["ctrl"].fd, S, F, R) /\ Honest(y.t, y.h, F, R, TRUE)
         /\ y.u = a.u /\ y.h = a.h
    <2>1. ReadsOn(a, y, "ctrl")
      BY <1>9
    <2>2. Honest(a.t, a.h, F, R, TRUE)
      BY <1>11, <1>13, <1>16, <1>17
    <2>3. Drained(a.t, a.ac["ctrl"].fd, S, F, R)
      BY <1>11, <1>13, <1>15
    <2>4. Online(a, S, R)
      BY <1>13
    <2>5. PICK e : e = TRUE
      OBVIOUS
    <2>6. Honest(a.t, a.h, F, R, e)
      BY <2>2, <2>5
    <2>7. /\ InUse(y.t, y.ac["ctrl"].fd, S, F, R) /\ Honest(y.t, y.h, F, R, e)
          /\ y.u = a.u /\ y.h = a.h
      BY <2>1, <2>3, <2>4, <2>6, ReadOnCurrent
    <2> QED BY <2>5, <2>7
  <1>19. y.u.state = "GETTING_VERSION"
    BY <1>11, <1>13, <1>18
  <1>20. InState(y.t, y.ac["ctrl"].fd, y.h.svc.ver, y.u.state, S, F, R)
    BY <1>18, <1>19 DEF InState
  <1>21. Current(y, S, F, R)
    BY <1>18, <1>19, <1>20, CurrentIs
  <1> QED BY <1>11, <1>13, <1>18, <1>19, <1>21

-----------------------------------------------------------------------------
\* The control pipe is open, and no read of it can succeed: a handler of a read
\* is running.
Idle(x, S, F, R) ==
    /\ x.u.state \in {"GETTING_VERSION", "RUNNING"}
    /\ x.u.state = "RUNNING" => SameVersion(x.h.svc.ver)
    /\ Drained(x.t, x.ac["ctrl"].fd, S, F, R)
    /\ Honest(x.t, x.h, F, R, x.u.state # "RUNNING")

LEMMA IdleRead ==
    ASSUME NEW S, NEW F, NEW R, NEW x, Online(x, S, R), Idle(x, S, F, R),
           NEW y, ReadsOn(x, y, "ctrl")
    PROVE  Current(y, S, F, R) /\ y.u = x.u /\ y.h = x.h
  <1> DEFINE e == x.u.state # "RUNNING"
  <1>1. Drained(x.t, x.ac["ctrl"].fd, S, F, R) /\ Honest(x.t, x.h, F, R, e)
    BY DEF Idle
  <1> HIDE DEF e
  <1>2. /\ InUse(y.t, y.ac["ctrl"].fd, S, F, R) /\ Honest(y.t, y.h, F, R, e)
        /\ y.u = x.u /\ y.h = x.h
    <2>1. Drained(x.t, x.ac["ctrl"].fd, S, F, R)
      BY <1>1
    <2>2. PICK b : b = e
      OBVIOUS
    <2>3. Honest(x.t, x.h, F, R, b)
      BY <1>1, <2>2
    <2>4. /\ InUse(y.t, y.ac["ctrl"].fd, S, F, R) /\ Honest(y.t, y.h, F, R, b)
          /\ y.u = x.u /\ y.h = x.h
      <3>1. InUse(y.t, y.ac["ctrl"].fd, S, F, R)
        BY <2>1, <2>3, ReadOnCurrent, Zenon
      <3>2. Honest(y.t, y.h, F, R, b)
        BY <2>1, <2>3, ReadOnCurrent, Zenon
      <3>3. y.u = x.u /\ y.h = x.h
        BY PostedView
      <3> QED BY <3>1, <3>2, <3>3
    <2> QED BY <2>2, <2>4
  <1>3. InState(y.t, y.ac["ctrl"].fd, y.h.svc.ver, y.u.state, S, F, R)
    <2>1. /\ x.u.state \in {"GETTING_VERSION", "RUNNING"}
          /\ x.u.state = "RUNNING" => SameVersion(x.h.svc.ver)
      BY Zenon DEF Idle
    <2>2. /\ y.u.state \in {"GETTING_VERSION", "RUNNING"}
          /\ y.u.state = "RUNNING" => SameVersion(y.h.svc.ver)
      BY <1>2, <2>1
    <2> QED BY <1>2, <2>2 DEF InState
  <1> QED BY <1>2, <1>3 DEF Current, e

LEMMA IdleSame ==
    ASSUME NEW S, NEW F, NEW R, NEW x, NEW y, Idle(x, S, F, R), y.t = x.t, y.h = x.h,
           y.u.state = x.u.state, y.ac["ctrl"].fd = x.ac["ctrl"].fd
    PROVE  Idle(y, S, F, R)
  BY DEF Idle

LEMMA IdleSent ==
    ASSUME NEW S, NEW F, NEW R, NEW x, NEW y, NEW q, Idle(x, S, F, R),
           Sent(x.t, y.t, q, S, R), Neutral(q), Question(q), y.h = x.h,
           y.u.state = x.u.state, y.ac["ctrl"].fd = x.ac["ctrl"].fd
    PROVE  Idle(y, S, F, R)
  <1> DEFINE e == x.u.state # "RUNNING"
  <1>1. Drained(x.t, x.ac["ctrl"].fd, S, F, R) /\ Honest(x.t, x.h, F, R, e)
    BY DEF Idle
  <1>2. Drained(y.t, x.ac["ctrl"].fd, S, F, R)
    BY <1>1, DrainedPost
  <1> HIDE DEF e
  <1>3. Polite(q, e)
    BY Zenon DEF Polite
  <1>4. Honest(y.t, x.h, F, R, e)
    BY <1>1, <1>3, SentHonest
  <1> QED BY <1>2, <1>4 DEF Idle, e

\* std_io_err: the other pipes are opened.
LEMMA IdleOpens ==
    ASSUME NEW S, NEW F, NEW R, NEW x, Online(x, S, R), Idle(x, S, F, R),
           NEW p \in Name, p # "ctrl", NEW a, Touched(x, a, p), NEW y, Opens(a, y, p)
    PROVE  Idle(y, S, F, R) /\ Online(y, S, R) /\ y.u = x.u /\ y.h = x.h
  <1>1. a.t = x.t /\ a.h = x.h /\ a.u = x.u /\ a.ac["ctrl"] = x.ac["ctrl"]
    BY Names DEF Touched
  <1>2. Idle(a, S, F, R) /\ Online(a, S, R)
    BY <1>1, IdleSame, OnlineSteps
  <1>3. y.h = a.h /\ y.u = a.u /\ y.ac["ctrl"] = a.ac["ctrl"]
    BY OtherFields
  <1>4. PICK q : q.pipe = p /\ Sent(a.t, y.t, q, S, R)
    BY <1>2, OnlineSent
  <1>5. Neutral(q) /\ Question(q)
    BY <1>4, OtherPipe
  <1>6. Idle(y, S, F, R)
    BY <1>2, <1>3, <1>4, <1>5, IdleSent
  <1>7. Online(y, S, R)
    BY <1>2, OnlineSteps
  <1> QED BY <1>1, <1>3, <1>6, <1>7

LEMMA IdlePipes ==
    ASSUME NEW S, NEW F, NEW R, NEW w, Online(w, S, R), Idle(w, S, F, R), NEW z, CtrlPipes(w, z)
    PROVE  Idle(z, S, F, R) /\ Online(z, S, R) /\ z.u = w.u /\ z.h = w.h
  <1>1. PICK a, b, c : /\ Touched(w, a, "io") /\ Opens(a, b, "io")
                       /\ Touched(b, c, "err") /\ Opens(c, z, "err")
    BY Zenon DEF CtrlPipes
  <1>2. Idle(b, S, F, R) /\ Online(b, S, R) /\ b.u = w.u /\ b.h = w.h
    BY <1>1, IdleOpens, Names
  <1>3. Idle(z, S, F, R) /\ Online(z, S, R) /\ z.u = b.u /\ z.h = b.h
    BY <1>1, <1>2, IdleOpens, Names
  <1> QED BY <1>2, <1>3

\* The version is the right one: "run" is sent.
LEMMA IdleRun ==
    ASSUME NEW S, NEW F, NEW R, NEW w, Online(w, S, R), Idle(w, S, F, R), w.u \in Users,
           NEW z, NEW m, CtrlRun(w, z, m), m.cmd = "version" => m.arg = w.h.svc.ver
    PROVE  /\ Idle(z, S, F, R) /\ Online(z, S, R) /\ z.h = w.h
           /\ z.u.state = "RUNNING" /\ z.u.abort_requested = w.u.abort_requested
  <1>1. SameVersion(w.h.svc.ver)
    BY DEF CtrlRun
  <1>2. PICK d, v : Writes(w, v, "ctrl", d) /\ Bare(v, z, [v.u EXCEPT !.state = "RUNNING"])
    BY Zenon DEF CtrlRun
  <1>3. /\ v.u = w.u /\ v.h = w.h /\ v.ac["ctrl"].fd = w.ac["ctrl"].fd /\ Online(v, S, R)
        /\ \E q : Sent(w.t, v.t, q, S, R) /\ Neutral(q) /\ q.data = d
    BY <1>2, LinesSent
  <1>4. PICK q : Sent(w.t, v.t, q, S, R) /\ Neutral(q)
    BY <1>3
  <1>5. Drained(w.t, w.ac["ctrl"].fd, S, F, R) /\ Honest(w.t, w.h, F, R, w.u.state # "RUNNING")
    BY DEF Idle
  <1>6. Drained(v.t, w.ac["ctrl"].fd, S, F, R)
    BY <1>4, <1>5, DrainedPost
  <1>7. Honest(v.t, w.h, F, R, FALSE)
    <2>1. Honest(w.t, w.h, F, R, FALSE)
      BY <1>5, HonestLate, Zenon
    <2>2. PICK e : e = FALSE
      OBVIOUS
    <2>3. Polite(q, e)
      BY <2>2, Zenon DEF Polite
    <2>4. Honest(w.t, w.h, F, R, e)
      BY <2>1, <2>2
    <2>5. Honest(v.t, w.h, F, R, e)
      BY <1>4, <2>3, <2>4, SentHonest
    <2> QED BY <2>2, <2>5
  <1>8. /\ z.t = v.t /\ z.h = v.h /\ z.ac = v.ac /\ Online(z, S, R)
        /\ z.u.state = "RUNNING" /\ z.u.abort_requested = v.u.abort_requested
    <2> DEFINE u == [v.u EXCEPT !.state = "RUNNING"]
    <2>1. Bare(v, z, u)
      BY <1>2
    <2>2. u.state = "RUNNING" /\ u.abort_requested = v.u.abort_requested
      BY <1>3 DEF Users
    <2> HIDE DEF u
    <2>3. z.ac = v.ac /\ z.t = v.t /\ z.h = v.h /\ z.u = u
      BY <2>1 DEF Bare
    <2>4. Online(z, S, R)
      BY <1>3, <2>1, OnlineSteps, Names, Zenon
    <2> QED BY <2>2, <2>3, <2>4
  <1>9. Drained(z.t, z.ac["ctrl"].fd, S, F, R)
    BY <1>3, <1>6, <1>8
  <1>10. Honest(z.t, z.h, F, R, z.u.state # "RUNNING")
    <2>1. (z.u.state # "RUNNING") = FALSE
      BY <1>8
    <2>2. Honest(z.t, z.h, F, R, FALSE)
      BY <1>3, <1>7, <1>8
    <2> QED BY <2>1, <2>2
  <1>11. SameVersion(z.h.svc.ver)
    BY <1>1, <1>3, <1>8
  <1> QED BY <1>3, <1>8, <1>9, <1>10, <1>11 DEF Idle

LEMMA CloseSent ==
    ASSUME NEW S, NEW R, NEW x, Online(x, S, R), NEW y, Closes(x, y, "ctrl"), x.ac["ctrl"].rreq = NULL
    PROVE  /\ y.u = x.u /\ y.h = x.h /\ y.ac["ctrl"].fd = x.ac["ctrl"].fd /\ Online(y, S, R)
           /\ \E q : /\ Sent(x.t, y.t, q, S, R) /\ Is(q, "close") /\ Question(q)
                     /\ q.fnum = x.ac["ctrl"].fd
  <1>1. y.u = x.u /\ y.h = x.h
    BY PostedView
  <1>2. y.ac["ctrl"].fd = x.ac["ctrl"].fd
    BY Zenon DEF Closes
  <1>3. Online(y, S, R)
    BY OnlineSteps, Names
  <1>4. PICK q : /\ q.pipe = "ctrl" /\ q.kind = "close" /\ q.fnum = x.ac["ctrl"].fd
                 /\ Sent(x.t, y.t, q, S, R)
    BY OnlineSent, Names
  <1>5. Is(q, "close") /\ Question(q)
    BY <1>4 DEF Is, Question
  <1> QED BY <1>1, <1>2, <1>3, <1>4, <1>5

LEMMA PoliteQuestion ==
    ASSUME NEW t, NEW s, NEW q, NEW S, NEW F, NEW R, Sent(t, s, q, S, R), NEW h, NEW e,
           Honest(t, h, F, R, e), Question(q)
    PROVE  Honest(s, h, F, R, e)
  <1>1. Polite(q, e)
    BY Zenon DEF Polite
  <1> QED BY <1>1, SentHonest

\* The service is to be replaced: it said so itself.
LEMMA IdleReplace ==
    ASSUME NEW S, NEW F, NEW R, NEW w, Online(w, S, R), Idle(w, S, F, R), w.u \in Users,
           w.ac["ctrl"].rreq = NULL, NEW m, NEW z, CtrlReplace(w, z, m), NEW y, ReadsOn(z, y, "ctrl"),
           m.cmd = "version" => m.arg = w.h.svc.ver,
           m.cmd = "error" /\ w.u.state = "GETTING_VERSION" => w.h.svc.ver = 0
    PROVE  /\ Current(y, S, F, R) /\ y.h = w.h /\ ~SameVersion(w.h.svc.ver)
           /\ y.u.state = "CLOSING_FOR_REINSTALL" /\ y.u.abort_requested = w.u.abort_requested
  <1>1. ~SameVersion(0)
    BY DEF SameVersion, VERSION
  <1>2. ~SameVersion(w.h.svc.ver)
    BY <1>1 DEF CtrlReplace
  <1>3. w.u.state = "GETTING_VERSION" /\ Drained(w.t, w.ac["ctrl"].fd, S, F, R)
        /\ Honest(w.t, w.h, F, R, w.u.state # "RUNNING")
    BY <1>2 DEF Idle
  <1>4. Honest(w.t, w.h, F, R, TRUE)
    <2>1. (w.u.state # "RUNNING") = TRUE
      BY <1>3
    <2> QED BY <1>3, <2>1
  <1>5. PICK v : /\ Closes(w, v, "ctrl")
                 /\ Bare(v, z, [v.u EXCEPT !.state = "CLOSING_FOR_REINSTALL"])
    BY Zenon DEF CtrlReplace
  <1>6. v.u = w.u /\ v.h = w.h /\ v.ac["ctrl"].fd = w.ac["ctrl"].fd /\ Online(v, S, R)
    BY <1>5, CloseSent
  <1>7. PICK q : /\ Sent(w.t, v.t, q, S, R) /\ Is(q, "close") /\ Question(q)
                 /\ q.fnum = w.ac["ctrl"].fd
    BY <1>5, CloseSent
  <1>8. BeingClosed(v.t, w.ac["ctrl"].fd, S, F, R)
    BY <1>3, <1>7, DrainedClose
  <1>9. Honest(v.t, w.h, F, R, TRUE)
    <2>1. PICK e : e = TRUE
      OBVIOUS
    <2>2. Honest(w.t, w.h, F, R, e)
      BY <1>4, <2>1
    <2>3. Honest(v.t, w.h, F, R, e)
      BY <1>7, <2>2, PoliteQuestion
    <2> QED BY <2>1, <2>3
  <1>10. /\ z.t = v.t /\ z.h = v.h /\ z.ac = v.ac /\ Online(z, S, R)
         /\ z.u.state = "CLOSING_FOR_REINSTALL" /\ z.u.abort_requested = v.u.abort_requested
    <2> DEFINE u == [v.u EXCEPT !.state = "CLOSING_FOR_REINSTALL"]
    <2>1. Bare(v, z, u)
      BY <1>5
    <2>2. u.state = "CLOSING_FOR_REINSTALL" /\ u.abort_requested = v.u.abort_requested
      BY <1>6 DEF Users
    <2> HIDE DEF u
    <2>3. z.ac = v.ac /\ z.t = v.t /\ z.h = v.h /\ z.u = u
      BY <2>1 DEF Bare
    <2>4. Online(z, S, R)
      BY <1>6, <2>1, OnlineSteps, Names, Zenon
    <2> QED BY <2>2, <2>3, <2>4
  <1>11. y.u = z.u /\ y.h = z.h /\ y.ac["ctrl"].fd = z.ac["ctrl"].fd
    BY <1>10, ReadSent
  <1>12. PICK r : Sent(z.t, y.t, r, S, R) /\ Is(r, "read") /\ Question(r)
    BY <1>10, ReadSent
  <1>13. Sent(v.t, y.t, r, S, R) /\ Is(r, "read") /\ Question(r)
    BY <1>10, <1>12
  <1>14. Awaited(v.t)
    BY <1>9, HonestParts, Zenon
  <1>15. BeingClosed(y.t, w.ac["ctrl"].fd, S, F, R)
    BY <1>7, <1>8, <1>13, <1>14, ReadBehindClose
  <1>16. Honest(y.t, w.h, F, R, TRUE)
    <2>1. PICK e : e = TRUE
      OBVIOUS
    <2>2. Honest(v.t, w.h, F, R, e)
      BY <1>9, <2>1
    <2>3. Honest(y.t, w.h, F, R, e)
      BY <1>13, <2>2, PoliteQuestion
    <2> QED BY <2>1, <2>3
  <1>17. y.h = w.h /\ y.ac["ctrl"].fd = w.ac["ctrl"].fd /\ y.u.state = "CLOSING_FOR_REINSTALL"
         /\ y.u.abort_requested = w.u.abort_requested
    BY <1>6, <1>10, <1>11
  <1>18. InState(y.t, y.ac["ctrl"].fd, y.h.svc.ver, y.u.state, S, F, R)
    BY <1>15, <1>17 DEF InState
  <1>19. Current(y, S, F, R)
    BY <1>16, <1>17, <1>18, CurrentIs
  <1> QED BY <1>2, <1>17, <1>19

\* on_ctrl_pipe_read
LEMMA ReadCurrent ==
    ASSUME NEW S, NEW F, NEW R, NEW v, NEW r \in v.t.pending_recv, Sequenced(v.t, S, R),
           Current(v, S, F, R), v.u \in Users, NEW x, Dropped(v, x, r), Online(x, S, R), Is(r, "read"),
           NEW f, NEW m, NEW y, Replied(R, r, "OK", f, m), CtrlRead(x, y, m)
    PROVE  /\ Current(y, S, F, R) /\ y.h = x.h /\ Differs(y.u, y.h)
           /\ y.u.abort_requested = x.u.abort_requested
  <1>1. InState(v.t, v.ac["ctrl"].fd, v.h.svc.ver, v.u.state, S, F, R)
    BY DEF Current
  <1>2. PICK i \in DOMAIN R : R[i].mid = r.mid /\ R[i].status = "OK" /\ R[i].msg = m
    BY DEF Replied
  <1>3. ~Doomed(v.t, S, F, R, r)
    BY <1>2 DEF Doomed
  <1>4. v.u.state \in {"GETTING_VERSION", "RUNNING"}
    BY <1>1, <1>3 DEF InState, BeingOpened, BeingClosed, AllDoomed, Users
  <1>5. InUse(v.t, v.ac["ctrl"].fd, S, F, R)
    BY <1>1, <1>4 DEF InState
  <1>6. x.ac = v.ac /\ x.u = v.u /\ x.h = v.h
    BY DEF Dropped
  <1>7. AllDoomed(x.t, S, F, R)
    <2> SUFFICES ASSUME NEW q \in x.t.pending_recv, Is(q, "read") PROVE Doomed(x.t, S, F, R, q)
      BY DEF AllDoomed
    <2>1. q \in v.t.pending_recv /\ q # r
      BY DEF Dropped
    <2>2. Doomed(v.t, S, F, R, q)
      BY <1>3, <1>5, <2>1 DEF InUse, Hopeful
    <2>3. x.t.wire = v.t.wire
      BY DEF Dropped
    <2> QED BY <2>2, <2>3 DEF Doomed
  <1>8. Drained(x.t, x.ac["ctrl"].fd, S, F, R)
    BY <1>5, <1>6, <1>7 DEF Drained, InUse, None, Dropped
  <1>9. /\ m.cmd = "version" => m.arg = v.h.svc.ver
        /\ m.cmd = "error" /\ v.u.state = "GETTING_VERSION" => v.h.svc.ver = 0
    <2>1. CASE v.u.state = "GETTING_VERSION"
      <3>1. Honest(v.t, v.h, F, R, TRUE)
        BY <2>1, CurrentIs
      <3>2. Heard(v.t, v.h, R, TRUE)
        BY <3>1, HonestParts, Zenon
      <3>3. Told(v.h, TRUE, m)
        BY <1>2, <3>2, Zenon DEF Heard
      <3> QED BY <3>3 DEF Told
    <2>2. CASE v.u.state = "RUNNING"
      <3>1. Honest(v.t, v.h, F, R, FALSE)
        BY <2>2, CurrentIs
      <3>2. Heard(v.t, v.h, R, FALSE)
        BY <3>1, HonestParts, Zenon
      <3>3. Told(v.h, FALSE, m)
        BY <1>2, <3>2, Zenon DEF Heard
      <3> QED BY <2>2, <3>3 DEF Told
    <2> QED BY <1>4, <2>1, <2>2
  <1>10. Honest(x.t, x.h, F, R, x.u.state # "RUNNING")
    BY DroppedCurrent DEF Current
  <1>11. Idle(x, S, F, R)
    BY <1>1, <1>4, <1>6, <1>8, <1>10 DEF Idle, InState
  <1>12. PICK w, z : /\ Received(x, w, "ctrl") /\ w.ac["ctrl"].rreq = NULL
                     /\ \/ CtrlPipes(w, z)
                        \/ CtrlCode(w, z, m)
                        \/ CtrlRun(w, z, m)
                        \/ CtrlReplace(w, z, m)
                        \/ z = w
                     /\ ReadsOn(z, y, "ctrl")
    BY Zenon DEF CtrlRead
  <1>13. w.t = x.t /\ w.h = x.h /\ w.u = x.u /\ w.ac["ctrl"].fd = x.ac["ctrl"].fd
    BY <1>12 DEF Received, Touched
  <1>14. Idle(w, S, F, R) /\ Online(w, S, R)
    BY <1>11, <1>12, <1>13, IdleSame, OnlineSteps, Names
  <1>15. w.u \in Users /\ w.u.state \in {"GETTING_VERSION", "RUNNING"}
    BY <1>4, <1>6, <1>13
  <1>16. ASSUME Idle(z, S, F, R), Online(z, S, R), z.h = w.h,
                z.u.abort_requested = w.u.abort_requested
         PROVE  /\ Current(y, S, F, R) /\ y.h = x.h /\ Differs(y.u, y.h)
                /\ y.u.abort_requested = x.u.abort_requested
    <2>1. Current(y, S, F, R) /\ y.u = z.u /\ y.h = z.h
      BY <1>12, <1>16, IdleRead
    <2>2. z.u.state \in {"GETTING_VERSION", "RUNNING"}
      BY <1>16, Zenon DEF Idle
    <2>3. Differs(y.u, y.h)
      BY <2>1, <2>2 DEF Differs
    <2> QED BY <1>13, <1>16, <2>1, <2>3
  <1>17. CASE CtrlPipes(w, z)
    BY <1>14, <1>16, <1>17, IdlePipes
  <1>18. CASE CtrlCode(w, z, m)
    <2> DEFINE u == [w.u EXCEPT !.return_code = m.arg]
    <2>1. Bare(w, z, u)
      BY <1>18 DEF CtrlCode
    <2>2. u.state = w.u.state /\ u.abort_requested = w.u.abort_requested
      BY <1>15 DEF Users
    <2> HIDE DEF u
    <2>3. z.ac = w.ac /\ z.t = w.t /\ z.h = w.h /\ z.u = u
      BY <2>1 DEF Bare
    <2>4. Online(z, S, R)
      BY <1>14, <2>1, OnlineSteps, Names, Zenon
    <2>5. Idle(z, S, F, R)
      BY <1>14, <2>2, <2>3, IdleSame
    <2> QED BY <1>16, <2>2, <2>3, <2>4, <2>5
  <1>19. CASE CtrlRun(w, z, m)
    <2>1. m.cmd = "version" => m.arg = w.h.svc.ver
      BY <1>6, <1>9, <1>13
    <2> QED BY <1>14, <1>15, <1>16, <1>19, <2>1, IdleRun
  <1>20. CASE CtrlReplace(w, z, m)
    <2>1. /\ m.cmd = "version" => m.arg = w.h.svc.ver
          /\ m.cmd = "error" /\ w.u.state = "GETTING_VERSION" => w.h.svc.ver = 0
      BY <1>6, <1>9, <1>13
    <2>2. /\ Current(y, S, F, R) /\ y.h = w.h /\ ~SameVersion(w.h.svc.ver)
          /\ y.u.state = "CLOSING_FOR_REINSTALL" /\ y.u.abort_requested = w.u.abort_requested
      BY <1>12, <1>14, <1>15, <1>20, <2>1, IdleReplace
    <2> QED BY <1>13, <2>2 DEF Differs
  <1>21. CASE z = w
    BY <1>14, <1>16, <1>21
  <1> QED BY <1>12, <1>17, <1>18, <1>19, <1>20, <1>21

-----------------------------------------------------------------------------
\* svc_install and svc_uninstall leave the lines in the pipes alone.
Spared(h, g) == g.env = h.env /\ (Untouched(h) => Untouched(g))

LEMMA InstallSpares ==
    ASSUME NEW h, HostOK(h)
    PROVE  /\ \A g \in svc_install(h) : Spared(h, g)
           /\ \A g \in Left(h) : Spared(h, g)
  <1>1. ASSUME NEW k, HostOK(k), NEW g \in svc_install(k) PROVE Spared(k, g)
    <2>1. CASE k.svc.running
      BY <1>1, <2>1 DEF svc_install, Spared
    <2>2. CASE ~k.svc.running
      <3>1. PICK v \in Versions : g = StartService(k, v)
        BY <1>1, <2>2 DEF svc_install
      <3>2. g.nconn = k.nconn /\ g.pipe = k.pipe /\ g.env = k.env
        BY <1>1, <3>1 DEF HostOK, Hosts, StartService
      <3> QED BY <3>2 DEF Spared, Untouched
    <2> QED BY <2>1, <2>2
  <1>2. ASSUME NEW g \in svc_uninstall(h) PROVE HostOK(g) /\ Spared(h, g)
    <2>1. g = StopService(h) \/ g = h
      BY <1>2 DEF svc_uninstall
    <2>2. HostOK(g)
      BY <1>2, InstallOK
    <2>3. CASE g = StopService(h)
      <3>1. Kept(h, g) /\ Going(h, g)
        BY <2>3, StopIs DEF HostOK
      <3>2. Untouched(h) => Untouched(g)
        BY <3>1, GoingUntouched
      <3> QED BY <2>2, <3>1, <3>2 DEF Spared, Kept
    <2>4. CASE g = h
      BY <2>2, <2>4 DEF Spared
    <2> QED BY <2>1, <2>3, <2>4
  <1>3. ASSUME NEW g \in Left(h) PROVE Spared(h, g)
    <2>1. CASE g \in svc_uninstall(h)
      BY <1>2, <2>1
    <2>2. CASE g \in UNION {svc_install(k) : k \in svc_uninstall(h)}
      <3>1. PICK k \in svc_uninstall(h) : g \in svc_install(k)
        BY <2>2
      <3>2. Spared(h, k) /\ Spared(k, g)
        BY <1>1, <1>2, <3>1
      <3> QED BY <3>2 DEF Spared
    <2> QED BY <1>3, <2>1, <2>2 DEF Left
  <1> QED BY <1>1, <1>3

\* exit_program: nothing but the outcome is left.
Over(y) == y.u.exited \/ y.u.fault

LEMMA EndedOver ==
    ASSUME NEW x, HostOK(x.h), Differs(x.u, x.h), NEW y, Ended(x, y)
    PROVE  Over(y) /\ Differs(y.u, y.h) /\ y.h.env = x.h.env
  <1>1. y.u.exited /\ y.u.state = x.u.state /\ (y.h = x.h \/ y.h = StopService(x.h))
    BY DEF Ended
  <1>2. y.h.svc.ver = x.h.svc.ver /\ y.h.env = x.h.env
    BY <1>1, StopIs DEF HostOK, Kept
  <1> QED BY <1>1, <1>2 DEF Over, Differs

\* No handle of the control pipe is open or being opened.
Vacant(x, h, S, F, R) ==
    /\ Honest(x.t, h, F, R, TRUE) /\ Untouched(x.h)
    /\ OpenCtrl(F) = {} /\ AllDoomed(x.t, S, F, R)
    /\ None(x.t, "open") /\ None(x.t, "close")

\* The control pipe is opened again, perhaps to another service.
LEMMA ReopenCurrent ==
    ASSUME NEW S, NEW F, NEW R, NEW x, Online(x, S, R), x.u.state = "OPENING", NEW h,
           Vacant(x, h, S, F, R), NEW y, Opens(x, y, "ctrl")
    PROVE  Current(y, S, F, R) /\ y.u = x.u /\ y.h = x.h
  <1>1. /\ Honest(x.t, h, F, R, TRUE) /\ Untouched(x.h)
        /\ OpenCtrl(F) = {} /\ AllDoomed(x.t, S, F, R)
        /\ None(x.t, "open") /\ None(x.t, "close")
    BY DEF Vacant
  <1>2. y.u = x.u /\ y.h = x.h
    BY PostedView
  <1>3. PICK q : q.pipe = "ctrl" /\ q.kind = "open" /\ Sent(x.t, y.t, q, S, R)
    BY OnlineSent, Names
  <1>4. Is(q, "open") /\ Question(q)
    BY <1>3 DEF Is, Question
  <1>5. BeingOpened(y.t, S, F, R)
    BY <1>1, <1>3, <1>4, Reopened
  <1>6. PICK e : e = TRUE
    OBVIOUS
  <1>7. Honest(x.t, h, F, R, e)
    BY <1>1, <1>6
  <1>8. Honest(x.t, x.h, F, R, e)
    BY <1>1, <1>7, FreshHonest
  <1>9. Honest(y.t, x.h, F, R, e)
    BY <1>3, <1>4, <1>8, PoliteQuestion
  <1>10. Honest(y.t, y.h, F, R, TRUE)
    BY <1>2, <1>6, <1>9
  <1>11. InState(y.t, y.ac["ctrl"].fd, y.h.svc.ver, y.u.state, S, F, R)
    BY <1>2, <1>5 DEF InState
  <1>12. y.u.state # "RUNNING"
    BY <1>2
  <1> QED BY <1>2, <1>10, <1>11, <1>12, CurrentIs

\* The answer to r is being handled: x is the view v without r.
Handling(v, x, r, S, F, R) ==
    /\ r \in v.t.pending_recv /\ Sequenced(v.t, S, R) /\ Current(v, S, F, R)
    /\ v.u \in Users /\ Dropped(v, x, r) /\ Online(x, S, R)

\* The answer that the pipe does not exist is one to an open.
NotFound(R, r, status, f, m) ==
    status = "OBJECT_NAME_NOT_FOUND" => Is(r, "open") /\ Replied(R, r, status, f, m)

\* on_ctrl_pipe_error
LEMMA ErrorCurrent ==
    ASSUME NEW S, NEW F, NEW R, NEW v, NEW r, NEW x, Handling(v, x, r, S, F, R), r.pipe = "ctrl",
           Differs(v.u, v.h), NEW status, NEW f, NEW m, NEW y, CtrlError(x, y, r.kind, status),
           NotFound(R, r, status, f, m)
    PROVE  /\ Over(y) \/ Current(y, S, F, R)
           /\ Over(y) \/ y.u.abort_requested = x.u.abort_requested
           /\ Differs(y.u, y.h) /\ y.h.env = x.h.env
  <1>1. r \in v.t.pending_recv /\ Sequenced(v.t, S, R) /\ Current(v, S, F, R)
        /\ v.u \in Users /\ Dropped(v, x, r) /\ Online(x, S, R)
    BY DEF Handling
  <1> USE <1>1
  <1>2. x.ac = v.ac /\ x.u = v.u /\ x.h = v.h
    BY DEF Dropped
  <1>3. HostOK(x.h)
    BY DEF Online, Good
  <1>4. PICK w : /\ Touched(x, w, "ctrl")
                 /\ \/ \E z : Bare(w, z, [w.u EXCEPT !.return_code = 1]) /\ Ended(z, y)
                    \/ Ended(w, y)
                    \/ y = w /\ r.kind = "read" /\ w.u.state = "OPENING"
                    \/ /\ ~w.u.activated /\ status = "OBJECT_NAME_NOT_FOUND"
                       /\ \E z, h : /\ h \in svc_install(w.h)
                                    /\ Swapped(w, z, [w.u EXCEPT !.activated = TRUE], h)
                                    /\ Opens(z, y, "ctrl")
    BY Zenon DEF CtrlError
  <1>5. w.t = x.t /\ w.h = x.h /\ w.u = x.u /\ Online(w, S, R)
    BY <1>4, OnlineSteps, Names DEF Touched
  <1>6. CASE \E z : Bare(w, z, [w.u EXCEPT !.return_code = 1]) /\ Ended(z, y)
    <2>1. PICK z : Bare(w, z, [w.u EXCEPT !.return_code = 1]) /\ Ended(z, y)
      BY <1>6
    <2>2. z.h = w.h /\ z.u = [w.u EXCEPT !.return_code = 1]
      BY <2>1 DEF Bare
    <2>3. z.u.state = w.u.state
      BY <1>2, <1>5, <2>2 DEF Users
    <2>4. Differs(z.u, z.h)
      BY <1>2, <1>5, <2>2, <2>3 DEF Differs
    <2>5. Over(y) /\ Differs(y.u, y.h) /\ y.h.env = z.h.env
      BY <1>3, <1>5, <2>1, <2>2, <2>4, EndedOver
    <2> QED BY <1>5, <2>2, <2>5
  <1>7. CASE Ended(w, y)
    <2>1. Differs(w.u, w.h)
      BY <1>2, <1>5
    <2>2. Over(y) /\ Differs(y.u, y.h) /\ y.h.env = w.h.env
      BY <1>3, <1>5, <1>7, <2>1, EndedOver
    <2> QED BY <1>5, <2>2
  <1>8. CASE y = w /\ r.kind = "read" /\ w.u.state = "OPENING"
    <2>1. ~Is(r, "open") /\ ~Is(r, "close")
      BY <1>8 DEF Is
    <2>2. Current(x, S, F, R)
      BY <2>1, DroppedCurrent
    <2>3. x.u.state = "OPENING" /\ y.u.state = "OPENING" /\ y.t = x.t /\ y.h = x.h /\ y.u = x.u
      BY <1>5, <1>8
    <2>4. Honest(x.t, x.h, F, R, TRUE) /\ InState(x.t, x.ac["ctrl"].fd, x.h.svc.ver, x.u.state, S, F, R)
      BY <2>2, <2>3, CurrentIs
    <2>5. InState(y.t, y.ac["ctrl"].fd, y.h.svc.ver, y.u.state, S, F, R)
      BY <2>3, <2>4 DEF InState
    <2>6. Honest(y.t, y.h, F, R, TRUE)
      BY <2>3, <2>4
    <2>7. Current(y, S, F, R)
      BY <2>3, <2>5, <2>6, CurrentIs
    <2> QED BY <2>3, <2>7 DEF Differs
  <1>9. CASE /\ ~w.u.activated /\ status = "OBJECT_NAME_NOT_FOUND"
             /\ \E z, h : /\ h \in svc_install(w.h)
                          /\ Swapped(w, z, [w.u EXCEPT !.activated = TRUE], h)
                          /\ Opens(z, y, "ctrl")
    <2>1. PICK z, h : /\ h \in svc_install(w.h)
                      /\ Swapped(w, z, [w.u EXCEPT !.activated = TRUE], h)
                      /\ Opens(z, y, "ctrl")
      BY <1>9, Zenon
    <2>2. Is(r, "open") /\ Replied(R, r, status, f, m) /\ status = "OBJECT_NAME_NOT_FOUND"
      BY <1>9 DEF NotFound
    <2>3. InState(v.t, v.ac["ctrl"].fd, v.h.svc.ver, v.u.state, S, F, R)
      BY DEF Current
    <2>4. v.u.state = "OPENING"
      BY <2>2, <2>3 DEF InState, InUse, BeingClosed, None, Users
    <2>5. BeingOpened(v.t, S, F, R)
      BY <2>3, <2>4 DEF InState
    <2>6. Honest(v.t, v.h, F, R, TRUE)
      BY <2>4, CurrentIs
    <2>7. Honest(x.t, v.h, F, R, TRUE) /\ Fewer(v.t, x.t)
      BY <2>2, <2>6, DroppedHonest
    <2>8. OpenCtrl(F) = {}
      <3>1. PICK i \in DOMAIN R : R[i].mid = r.mid /\ R[i].status = "OBJECT_NAME_NOT_FOUND"
        BY <2>2 DEF Replied
      <3>2. OpenCtrl(F) \subseteq (IF R[i].status = "OK" THEN {R[i].fnum} ELSE {})
        BY <2>2, <2>5, <3>1 DEF BeingOpened
      <3> QED BY <3>1, <3>2
    <2>9. None(x.t, "close") /\ None(x.t, "open")
      BY <2>2, <2>5 DEF BeingOpened, None, Sole, Dropped
    <2>10. AllDoomed(x.t, S, F, R)
      BY <2>5, <2>7, FewerState DEF BeingOpened
    <2>11. /\ z.t = x.t /\ z.h = h /\ z.u.state = "OPENING"
           /\ z.u.abort_requested = x.u.abort_requested
      <3> DEFINE u == [w.u EXCEPT !.activated = TRUE]
      <3>1. Swapped(w, z, u, h)
        BY <2>1
      <3>2. u.state = w.u.state /\ u.abort_requested = w.u.abort_requested
        BY <1>2, <1>5 DEF Users
      <3> HIDE DEF u
      <3>3. z.t = w.t /\ z.h = h /\ z.u = u
        BY <3>1 DEF Swapped
      <3> QED BY <1>2, <1>5, <2>4, <3>2, <3>3
    <2>12. HostOK(h) /\ Spared(x.h, h)
      BY <1>3, <1>5, <2>1, InstallOK, InstallSpares
    <2>13. Online(z, S, R)
      BY <1>5, <2>1, <2>12, OnlineSteps, Names, Zenon
    <2>14. Untouched(z.h)
      <3>1. Untouched(x.h)
        BY <1>2, <2>6, HonestParts, Zenon
      <3> QED BY <2>11, <2>12, <3>1 DEF Spared
    <2>15. Honest(z.t, v.h, F, R, TRUE) /\ AllDoomed(z.t, S, F, R)
           /\ None(z.t, "open") /\ None(z.t, "close")
      BY <2>7, <2>9, <2>10, <2>11
    <2>16. Current(y, S, F, R) /\ y.u = z.u /\ y.h = z.h
      <3>1. Opens(z, y, "ctrl") /\ z.u.state = "OPENING"
        BY <2>1, <2>11
      <3>2. Vacant(z, v.h, S, F, R)
        BY <2>8, <2>14, <2>15 DEF Vacant
      <3> QED BY <2>13, <3>1, <3>2, ReopenCurrent
    <2>17. y.h.env = x.h.env
      BY <2>11, <2>12, <2>16 DEF Spared
    <2> QED BY <2>11, <2>16, <2>17 DEF Differs
  <1> QED BY <1>4, <1>6, <1>7, <1>8, <1>9

\* on_ctrl_pipe_close: the handle is closed, the service is replaced (or not).
LEMMA ClosedCurrent ==
    ASSUME NEW S, NEW F, NEW R, NEW v, NEW r \in v.t.pending_recv, Sequenced(v.t, S, R),
           Current(v, S, F, R), v.u \in Users,
           NEW x, Dropped(v, x, r), Online(x, S, R), Is(r, "close"),
           NEW status, NEW f, NEW m, NEW y, Replied(R, r, status, f, m), CtrlClosed(x, y)
    PROVE  /\ Current(y, S, F, R) /\ y.u.abort_requested = x.u.abort_requested
           /\ Differs(y.u, y.h) /\ y.h.env = x.h.env
  <1>1. x.ac = v.ac /\ x.u = v.u /\ x.h = v.h
    BY DEF Dropped
  <1>2. HostOK(x.h)
    BY DEF Online, Good
  <1>3. InState(v.t, v.ac["ctrl"].fd, v.h.svc.ver, v.u.state, S, F, R)
    BY DEF Current
  <1>4. v.u.state = "CLOSING_FOR_REINSTALL"
    BY <1>3 DEF InState, InUse, BeingOpened, None, Users
  <1>5. BeingClosed(v.t, v.ac["ctrl"].fd, S, F, R)
    BY <1>3, <1>4 DEF InState
  <1>6. Honest(v.t, v.h, F, R, TRUE)
    BY <1>4, CurrentIs
  <1>7. Honest(x.t, v.h, F, R, TRUE) /\ Fewer(v.t, x.t)
    BY <1>6, DroppedHonest
  <1>8. OpenCtrl(F) = {}
    <2>1. PICK i \in DOMAIN R : R[i].mid = r.mid
      BY DEF Replied
    <2> QED BY <1>5, <2>1 DEF BeingClosed
  <1>9. None(x.t, "close") /\ None(x.t, "open")
    BY <1>5 DEF BeingClosed, None, Sole, Dropped
  <1>10. AllDoomed(x.t, S, F, R)
    BY <1>5, <1>7, FewerState DEF BeingClosed
  <1>11. PICK w : /\ Touched(x, w, "ctrl")
                  /\ \/ y = w /\ w.u.state # "CLOSING_FOR_REINSTALL"
                     \/ /\ w.u.state = "CLOSING_FOR_REINSTALL"
                        /\ \E z, h : /\ h \in Left(w.h)
                                     /\ Swapped(w, z, [w.u EXCEPT !.state = "OPENING"], h)
                                     /\ Opens(z, y, "ctrl")
    BY Zenon DEF CtrlClosed
  <1>12. w.t = x.t /\ w.h = x.h /\ w.u = x.u /\ Online(w, S, R)
    BY <1>11, OnlineSteps, Names DEF Touched
  <1>13. w.u.state = "CLOSING_FOR_REINSTALL"
    BY <1>1, <1>4, <1>12
  <1>14. PICK z, h : /\ h \in Left(w.h)
                     /\ Swapped(w, z, [w.u EXCEPT !.state = "OPENING"], h)
                     /\ Opens(z, y, "ctrl")
    BY <1>11, <1>13, Zenon
  <1>15. /\ z.t = x.t /\ z.h = h /\ z.u.state = "OPENING"
         /\ z.u.abort_requested = x.u.abort_requested
    <2> DEFINE u == [w.u EXCEPT !.state = "OPENING"]
    <2>1. Swapped(w, z, u, h)
      BY <1>14
    <2>2. u.state = "OPENING" /\ u.abort_requested = w.u.abort_requested
      BY <1>1, <1>12 DEF Users
    <2> HIDE DEF u
    <2>3. z.t = w.t /\ z.h = h /\ z.u = u
      BY <2>1 DEF Swapped
    <2> QED BY <1>12, <2>2, <2>3
  <1>16. HostOK(h) /\ Spared(x.h, h)
    BY <1>2, <1>12, <1>14, InstallOK, InstallSpares
  <1>17. Online(z, S, R)
    BY <1>12, <1>14, <1>16, OnlineSteps, Names, Zenon
  <1>18. Untouched(z.h)
    <2>1. Untouched(x.h)
      BY <1>1, <1>6, HonestParts, Zenon
    <2> QED BY <1>15, <1>16, <2>1 DEF Spared
  <1>19. Vacant(z, v.h, S, F, R)
    BY <1>7, <1>8, <1>9, <1>10, <1>15, <1>18 DEF Vacant
  <1>20. Opens(z, y, "ctrl") /\ z.u.state = "OPENING"
    BY <1>14, <1>15
  <1>21. Current(y, S, F, R) /\ y.u = z.u /\ y.h = z.h
    BY <1>17, <1>19, <1>20, ReopenCurrent
  <1>22. y.h.env = x.h.env
    BY <1>15, <1>16, <1>21 DEF Spared
  <1> QED BY <1>15, <1>21, <1>22 DEF Differs

LEMMA OpenedHandled ==
    ASSUME NEW S, NEW F, NEW R, NEW v, NEW r, NEW x, Handling(v, x, r, S, F, R), Is(r, "open"),
           NEW f, NEW m, NEW y, Replied(R, r, "OK", f, m), CtrlOpened(x, y, f)
    PROVE  /\ Current(y, S, F, R) /\ y.h = x.h /\ y.u.state = "GETTING_VERSION"
           /\ y.u.abort_requested = x.u.abort_requested
  <1>1. r \in v.t.pending_recv /\ Sequenced(v.t, S, R) /\ Current(v, S, F, R)
        /\ v.u \in Users /\ Dropped(v, x, r) /\ Online(x, S, R)
    BY DEF Handling
  <1> QED BY <1>1, OpenedCurrent

LEMMA ReadHandled ==
    ASSUME NEW S, NEW F, NEW R, NEW v, NEW r, NEW x, Handling(v, x, r, S, F, R), Is(r, "read"),
           NEW f, NEW m, NEW y, Replied(R, r, "OK", f, m), CtrlRead(x, y, m)
    PROVE  /\ Current(y, S, F, R) /\ y.h = x.h /\ Differs(y.u, y.h)
           /\ y.u.abort_requested = x.u.abort_requested
  BY ReadCurrent DEF Handling

\* A handler that is called with an answer, or because of a timeout.
LEMMA HandledCurrent ==
    ASSUME NEW S, NEW F, NEW R, NEW v, NEW r \in v.t.pending_recv, Sequenced(v.t, S, R),
           Current(v, S, F, R), v.u \in Users, Differs(v.u, v.h),
           NEW x, Dropped(v, x, r), Online(x, S, R), r \in Requests,
           NEW status, NEW f, NEW m, NEW y, Handled(x, y, r, status, f, m), Sound(r, status, f, m),
           Replied(R, r, status, f, m) \/ (status = "ERROR" /\ ~Is(r, "close"))
    PROVE  /\ Over(y) \/ Current(y, S, F, R)
           /\ Over(y) \/ y.u.abort_requested = x.u.abort_requested
           /\ Differs(y.u, y.h) /\ y.h.env = x.h.env
  <1>1. x.ac = v.ac /\ x.u = v.u /\ x.h = v.h
    BY DEF Dropped
  <1>2. Handling(v, x, r, S, F, R)
    BY DEF Handling
  <1>3. CASE /\ status = "OK" /\ NullDeref(x.ac[r.pipe], r.kind)
             /\ Bare(x, y, [x.u EXCEPT !.fault = TRUE])
    <2>1. y.h = x.h /\ y.u = [x.u EXCEPT !.fault = TRUE]
      BY <1>3 DEF Bare
    <2>2. y.u.fault /\ y.u.state = x.u.state
      BY <1>1, <2>1 DEF Users
    <2> QED BY <1>1, <2>1, <2>2 DEF Over, Differs
  <1>4. CASE r.pipe # "ctrl" /\ IoOutcome(x, y, r.pipe)
    <2>1. ~Is(r, "open") /\ ~Is(r, "close") /\ r.pipe \in Name
      BY <1>4 DEF Is, Requests
    <2>2. Current(x, S, F, R)
      BY <2>1, DroppedCurrent
    <2>3. /\ Current(y, S, F, R)
          /\ y.h = x.h /\ y.u.state = x.u.state /\ y.u.abort_requested = x.u.abort_requested
      BY <1>4, <2>1, <2>2, IoCurrent
    <2> QED BY <1>1, <2>3 DEF Differs
  <1>5. CASE r.pipe = "ctrl" /\ r.kind = "open" /\ status = "OK" /\ CtrlOpened(x, y, f)
    <2>1. Is(r, "open") /\ Replied(R, r, "OK", f, m)
      BY <1>5 DEF Is
    <2>2. /\ Current(y, S, F, R) /\ y.h = x.h /\ y.u.state = "GETTING_VERSION"
          /\ y.u.abort_requested = x.u.abort_requested
      BY <1>2, <1>5, <2>1, OpenedHandled
    <2> QED BY <2>2 DEF Differs
  <1>6. CASE r.pipe = "ctrl" /\ r.kind = "read" /\ status = "OK" /\ CtrlRead(x, y, m)
    <2>1. Is(r, "read") /\ Replied(R, r, "OK", f, m)
      BY <1>6 DEF Is
    <2>2. /\ Current(y, S, F, R) /\ y.h = x.h /\ Differs(y.u, y.h)
          /\ y.u.abort_requested = x.u.abort_requested
      BY <1>2, <1>6, <2>1, ReadHandled
    <2> QED BY <2>2
  <1>7. CASE r.pipe = "ctrl" /\ r.kind = "write" /\ status = "OK" /\ Received(x, y, "ctrl")
    <2>1. ~Is(r, "open") /\ ~Is(r, "close")
      BY <1>7 DEF Is
    <2>2. Current(x, S, F, R)
      BY <2>1, DroppedCurrent
    <2>3. y.t = x.t /\ y.h = x.h /\ y.u = x.u /\ y.ac["ctrl"].fd = x.ac["ctrl"].fd
      BY <1>7 DEF Received, Touched
    <2>4. Current(y, S, F, R)
      BY <2>2, <2>3, SameCurrent
    <2> QED BY <1>1, <2>3, <2>4
  <1>8. CASE /\ r.pipe = "ctrl" /\ r.kind \in {"open", "read", "write"} /\ status # "OK"
             /\ CtrlError(x, y, r.kind, status)
    <2>1. NotFound(R, r, status, f, m)
      BY <1>8 DEF Sound, Is, NotFound
    <2> QED BY <1>2, <1>8, <2>1, ErrorCurrent
  <1>9. CASE r.pipe = "ctrl" /\ r.kind = "close" /\ CtrlClosed(x, y)
    <2>1. Is(r, "close") /\ Replied(R, r, status, f, m)
      BY <1>9 DEF Is
    <2> QED BY <1>9, <2>1, ClosedCurrent
  <1> QED BY <1>3, <1>4, <1>5, <1>6, <1>7, <1>8, <1>9 DEF Handled

-----------------------------------------------------------------------------
(***************************************************************************)
(* The steps of the client.                                                *)
(***************************************************************************)

\* Only a read that succeeds makes the client replace the service.
LEMMA IoFields ==
    ASSUME NEW x, NEW y, NEW p, p # "ctrl", IoOutcome(x, y, p)
    PROVE  y.h = x.h /\ y.u.state = x.u.state /\ y.u.abort_requested = x.u.abort_requested
  <1>1. CASE Touched(x, y, p)
    BY <1>1 DEF Touched
  <1>2. CASE \E w, z : /\ Touched(x, w, p)
                       /\ \E u \in Users : Bare(w, z, u) /\ Aside(w.u, u)
                       /\ ReadsOn(z, y, p)
    <2>1. PICK w, z : /\ Touched(x, w, p)
                      /\ \E u \in Users : Bare(w, z, u) /\ Aside(w.u, u)
                      /\ ReadsOn(z, y, p)
      BY <1>2, Zenon
    <2>2. w.h = x.h /\ w.u = x.u
      BY <2>1 DEF Touched
    <2>3. z.h = w.h /\ z.u.state = w.u.state /\ z.u.abort_requested = w.u.abort_requested
      BY <2>1 DEF Bare, Aside
    <2>4. y.h = z.h /\ y.u = z.u
      BY <2>1, OtherFields
    <2> QED BY <2>2, <2>3, <2>4
  <1>3. CASE \E w : Touched(x, w, p) /\ Closes(w, y, p)
    <2>1. PICK w : Touched(x, w, p) /\ Closes(w, y, p)
      BY <1>3
    <2>2. w.h = x.h /\ w.u = x.u
      BY <2>1 DEF Touched
    <2>3. y.h = w.h /\ y.u = w.u
      BY <2>1, OtherFields
    <2> QED BY <2>2, <2>3
  <1> QED BY <1>1, <1>2, <1>3 DEF IoOutcome

LEMMA FailedDiffers ==
    ASSUME NEW x, x.u \in Users, HostOK(x.h), Differs(x.u, x.h), NEW r, NEW f, NEW m, NEW y,
           Handled(x, y, r, "ERROR", f, m)
    PROVE  /\ Over(y) \/ y.u.abort_requested = x.u.abort_requested
           /\ Differs(y.u, y.h) /\ y.h.env = x.h.env
  <1>1. CASE r.pipe # "ctrl" /\ IoOutcome(x, y, r.pipe)
    BY <1>1, IoFields DEF Differs
  <1>2. CASE CtrlError(x, y, r.kind, "ERROR")
    <2>1. PICK w : /\ Touched(x, w, "ctrl")
                   /\ \/ \E z : Bare(w, z, [w.u EXCEPT !.return_code = 1]) /\ Ended(z, y)
                      \/ Ended(w, y)
                      \/ y = w /\ r.kind = "read" /\ w.u.state = "OPENING"
      BY <1>2, Zenon DEF CtrlError
    <2>2. w.h = x.h /\ w.u = x.u
      BY <2>1 DEF Touched
    <2>3. CASE \E z : Bare(w, z, [w.u EXCEPT !.return_code = 1]) /\ Ended(z, y)
      <3>1. PICK z : Bare(w, z, [w.u EXCEPT !.return_code = 1]) /\ Ended(z, y)
        BY <2>3
      <3>2. z.h = w.h /\ z.u = [w.u EXCEPT !.return_code = 1]
        BY <3>1 DEF Bare
      <3>3. z.u.state = w.u.state
        BY <2>2, <3>2 DEF Users
      <3>4. Differs(z.u, z.h) /\ HostOK(z.h)
        BY <2>2, <3>2, <3>3 DEF Differs
      <3>5. Over(y) /\ Differs(y.u, y.h) /\ y.h.env = z.h.env
        BY <3>1, <3>4, EndedOver
      <3> QED BY <2>2, <3>2, <3>5
    <2>4. CASE Ended(w, y)
      <3>1. Over(y) /\ Differs(y.u, y.h) /\ y.h.env = w.h.env
        BY <2>2, <2>4, EndedOver
      <3> QED BY <2>2, <3>1
    <2>5. CASE y = w
      BY <2>2, <2>5
    <2> QED BY <2>1, <2>3, <2>4, <2>5
  <1>3. CASE CtrlClosed(x, y)
    <2>1. PICK w : /\ Touched(x, w, "ctrl")
                   /\ \/ y = w
                      \/ \E z, h : /\ h \in Left(w.h)
                                   /\ Swapped(w, z, [w.u EXCEPT !.state = "OPENING"], h)
                                   /\ Opens(z, y, "ctrl")
      BY <1>3, Zenon DEF CtrlClosed
    <2>2. w.h = x.h /\ w.u = x.u
      BY <2>1 DEF Touched
    <2>3. CASE y = w
      BY <2>2, <2>3
    <2>4. CASE \E z, h : /\ h \in Left(w.h)
                         /\ Swapped(w, z, [w.u EXCEPT !.state = "OPENING"], h)
                         /\ Opens(z, y, "ctrl")
      <3>1. PICK z, h : /\ h \in Left(w.h)
                        /\ Swapped(w, z, [w.u EXCEPT !.state = "OPENING"], h)
                        /\ Opens(z, y, "ctrl")
        BY <2>4, Zenon
      <3>2. z.h = h /\ z.u = [w.u EXCEPT !.state = "OPENING"]
        BY <3>1 DEF Swapped
      <3>3. z.u.state = "OPENING" /\ z.u.abort_requested = w.u.abort_requested
        BY <2>2, <3>2 DEF Users
      <3>4. y.u = z.u /\ y.h = z.h
        BY <3>1, PostedView
      <3>5. Spared(x.h, h)
        BY <2>2, <3>1, InstallSpares
      <3> QED BY <2>2, <3>2, <3>3, <3>4, <3>5 DEF Spared, Differs
    <2> QED BY <2>1, <2>3, <2>4
  <1> QED BY <1>1, <1>2, <1>3 DEF Handled

\* A close of the control pipe cannot time out.
LEMMA CloseUntimed ==
    ASSUME TInv, NEW r \in transport.pending_recv, r.timed
    PROVE  ~Is(r, "close")
  BY ViewFields DEF TInv, Phase, Opening, Asking, Quiet, Is

LEMMA MinusDropped ==
    ASSUME LInv, NEW r
    PROVE  /\ Dropped(View, Minus(r), r)
           /\ ~transport.dead => Online(Minus(r), smb.parked, replies)
           /\ View.u \in Users /\ Minus(r).u = user /\ Minus(r).h = host
           /\ HostOK(host) /\ Sequenced(View.t, smb.parked, replies)
           /\ transport.pending_recv \subseteq Requests
  <1>1. Dropped(View, Minus(r), r)
    BY MinusIs, ViewFields DEF Dropped
  <1>2. Server(smb.parked, replies)
    BY ServerTypes DEF LInv
  <1>3. Good(Minus(r), smb.parked, replies)
    BY MinusGood
  <1>4. Minus(r).t.dead = transport.dead /\ Minus(r).u = user /\ Minus(r).h = host
    BY MinusIs
  <1>5. ~transport.dead => Online(Minus(r), smb.parked, replies)
    BY <1>2, <1>3, <1>4 DEF Online
  <1>6. View.u \in Users /\ HostOK(host) /\ Sequenced(View.t, smb.parked, replies)
        /\ transport \in Transports
    BY ViewFields DEF LInv, Good, Views
  <1> QED BY <1>1, <1>4, <1>5, <1>6 DEF Transports

\* A handler does not change what may fail.
LEMMA HandledEnv ==
    ASSUME NEW x, HostOK(x.h), NEW r, NEW status, NEW f, NEW m, NEW y,
           Handled(x, y, r, status, f, m)
    PROVE  y.h.env = x.h.env
  <1>1. ASSUME NEW w, w.h = x.h, NEW h, h \in svc_install(w.h) \/ h \in Left(w.h), NEW u, NEW z,
               Swapped(w, z, u, h), Opens(z, y, "ctrl")
        PROVE  y.h.env = x.h.env
    <2>1. Spared(x.h, h)
      BY <1>1, InstallSpares
    <2>2. z.h = h
      BY <1>1 DEF Swapped
    <2>3. y.h = z.h
      BY <1>1, PostedView
    <2> QED BY <2>1, <2>2, <2>3 DEF Spared
  <1>2. ASSUME NEW z, z.h = x.h, Ended(z, y) PROVE y.h.env = x.h.env
    <2>1. y.h = x.h \/ y.h = StopService(x.h)
      BY <1>2 DEF Ended
    <2> QED BY <2>1, StopIs DEF HostOK, Kept
  <1>3. CASE \E u : Bare(x, y, u)
    BY <1>3 DEF Bare
  <1>4. CASE r.pipe # "ctrl" /\ IoOutcome(x, y, r.pipe)
    BY <1>4, IoFields
  <1>5. CASE CtrlOpened(x, y, f)
    <2>1. PICK w, z, v : /\ Touched(x, w, "ctrl")
                         /\ \E u : Bare(w, z, u)
                         /\ \E d : Writes(z, v, "ctrl", d)
                         /\ ReadsOn(v, y, "ctrl")
      BY <1>5, Zenon DEF CtrlOpened
    <2>2. w.h = x.h /\ z.h = w.h
      BY <2>1 DEF Touched, Bare
    <2>3. v.h = z.h /\ y.h = v.h
      BY <2>1, PostedView, Zenon
    <2> QED BY <2>2, <2>3
  <1>6. CASE CtrlRead(x, y, m)
    <2>1. PICK w, z : /\ Received(x, w, "ctrl")
                      /\ \/ CtrlPipes(w, z)
                         \/ CtrlCode(w, z, m)
                         \/ CtrlRun(w, z, m)
                         \/ CtrlReplace(w, z, m)
                         \/ z = w
                      /\ ReadsOn(z, y, "ctrl")
      BY <1>6, Zenon DEF CtrlRead
    <2>2. w.h = x.h
      BY <2>1 DEF Received, Touched
    <2>3. y.h = z.h
      BY <2>1, PostedView
    <2>4. CASE CtrlPipes(w, z)
      <3>1. PICK a, b, c : /\ Touched(w, a, "io") /\ Opens(a, b, "io")
                           /\ Touched(b, c, "err") /\ Opens(c, z, "err")
        BY <2>4, Zenon DEF CtrlPipes
      <3>2. a.h = w.h /\ c.h = b.h
        BY <3>1 DEF Touched
      <3>3. b.h = a.h /\ z.h = c.h
        BY <3>1, PostedView
      <3> QED BY <2>2, <2>3, <3>2, <3>3
    <2>5. CASE CtrlCode(w, z, m)
      BY <2>2, <2>3, <2>5 DEF CtrlCode, Bare
    <2>6. CASE \E v, u : (Closes(w, v, "ctrl") \/ \E d : Writes(w, v, "ctrl", d)) /\ Bare(v, z, u)
      <3>1. PICK v, u : (Closes(w, v, "ctrl") \/ \E d : Writes(w, v, "ctrl", d)) /\ Bare(v, z, u)
        BY <2>6
      <3>2. v.h = w.h
        BY <3>1, PostedView, Zenon
      <3>3. z.h = v.h
        BY <3>1 DEF Bare
      <3> QED BY <2>2, <2>3, <3>2, <3>3
    <2>7. CASE CtrlRun(w, z, m)
      BY <2>6, <2>7, Zenon DEF CtrlRun
    <2>8. CASE CtrlReplace(w, z, m)
      BY <2>6, <2>8, Zenon DEF CtrlReplace
    <2>9. CASE z = w
      BY <2>2, <2>3, <2>9
    <2> QED BY <2>1, <2>4, <2>5, <2>7, <2>8, <2>9
  <1>7. CASE Received(x, y, "ctrl")
    BY <1>7 DEF Received, Touched
  <1>8. CASE CtrlError(x, y, r.kind, status)
    <2>1. PICK w : /\ Touched(x, w, "ctrl")
                   /\ \/ \E z, u : Bare(w, z, u) /\ Ended(z, y)
                      \/ Ended(w, y)
                      \/ y = w
                      \/ \E z, h, u : /\ h \in svc_install(w.h)
                                      /\ Swapped(w, z, u, h)
                                      /\ Opens(z, y, "ctrl")
      BY <1>8, Zenon DEF CtrlError
    <2>2. w.h = x.h
      BY <2>1 DEF Touched
    <2>3. CASE \E z, u : Bare(w, z, u) /\ Ended(z, y)
      <3>1. PICK z, u : Bare(w, z, u) /\ Ended(z, y)
        BY <2>3
      <3>2. z.h = x.h
        BY <2>2, <3>1 DEF Bare
      <3> QED BY <1>2, <3>1, <3>2
    <2>4. CASE \E z, h, u : h \in svc_install(w.h) /\ Swapped(w, z, u, h) /\ Opens(z, y, "ctrl")
      <3>1. PICK z, h, u : h \in svc_install(w.h) /\ Swapped(w, z, u, h) /\ Opens(z, y, "ctrl")
        BY <2>4
      <3> QED BY <1>1, <2>2, <3>1
    <2>5. CASE y = w
      BY <2>2, <2>5
    <2>6. CASE Ended(w, y)
      BY <1>2, <2>2, <2>6
    <2> QED BY <2>1, <2>3, <2>4, <2>5, <2>6
  <1>9. CASE CtrlClosed(x, y)
    <2>1. PICK w : /\ Touched(x, w, "ctrl")
                   /\ \/ y = w
                      \/ \E z, h, u : /\ h \in Left(w.h)
                                      /\ Swapped(w, z, u, h)
                                      /\ Opens(z, y, "ctrl")
      BY <1>9, Zenon DEF CtrlClosed
    <2>2. w.h = x.h
      BY <2>1 DEF Touched
    <2>3. CASE \E z, h, u : h \in Left(w.h) /\ Swapped(w, z, u, h) /\ Opens(z, y, "ctrl")
      <3>1. PICK z, h, u : h \in Left(w.h) /\ Swapped(w, z, u, h) /\ Opens(z, y, "ctrl")
        BY <2>3
      <3> QED BY <1>1, <2>2, <3>1
    <2>4. CASE y = w
      BY <2>2, <2>4
    <2> QED BY <2>1, <2>3, <2>4
  <1> QED BY <1>3, <1>4, <1>5, <1>6, <1>7, <1>8, <1>9, Zenon DEF Handled

\* What a handler leaves behind, the replies and the server as they were.
Settled(F, S, R) ==
    "signal" \notin host.env.faults =>
      /\ Differs(user', host')
      /\ Alive' => ~user'.abort_requested
      /\ Alive' /\ ~transport'.dead => Current(View', S, F, R)

LEMMA SettledVer ==
    ASSUME host'.env = host.env, Settled(smb'.fid, smb'.parked, replies')
    PROVE  VInv'
  BY DEF VInv, Settled

LEMMA CompleteSettled ==
    ASSUME LInv, VInv, Alive, NEW r \in transport.pending_recv,
           NEW status, NEW f, NEW m, Complete(r, status, f, m), Sound(r, status, f, m),
           \/ Replied(replies, r, status, f, m)
           \/ status = "ERROR" /\ ~Is(r, "close")
           \/ status = "ERROR" /\ transport.dead
    PROVE  /\ host'.env = host.env /\ transport'.dead = transport.dead
           /\ (status = "ERROR" \/ ~transport.dead) => Settled(smb.fid, smb.parked, replies)
  <1> DEFINE x == Minus(r)
             S == smb.parked
             R == replies
             F == smb.fid
  <1>1. /\ Dropped(View, x, r) /\ (~transport.dead => Online(x, S, R))
        /\ View.u \in Users /\ x.u = user /\ x.h = host
        /\ HostOK(host) /\ Sequenced(View.t, S, R) /\ r \in Requests
    BY MinusDropped
  <1>2. Handled(x, View', r, status, f, m)
    BY CompleteIs
  <1>3. x \in Views /\ x.t.dead = transport.dead
    BY MinusIs
  <1> HIDE DEF x, S, R, F
  <1>4. host'.env = host.env
    <2>1. View'.h.env = x.h.env
      BY <1>1, <1>2, HandledEnv
    <2> QED BY <1>1, <2>1, ViewFields
  <1>5. transport'.dead = transport.dead
    <2>1. Later(x, View')
      BY <1>1, <1>2, <1>3, HandledLater
    <2> QED BY <1>3, <2>1, ViewFields DEF Later, Grew
  <1>6. CASE "signal" \notin host.env.faults /\ ~transport.dead
    <2>1. /\ Differs(View.u, View.h) /\ ~user.abort_requested /\ Current(View, S, F, R)
      BY <1>6, ViewFields DEF VInv, S, F, R
    <2>2. r \in View.t.pending_recv
      BY ViewFields
    <2>3. Replied(R, r, status, f, m) \/ (status = "ERROR" /\ ~Is(r, "close"))
      BY <1>6 DEF R
    <2>4. Online(x, S, R)
      BY <1>1, <1>6
    <2>5. /\ Over(View') \/ Current(View', S, F, R)
          /\ Over(View') \/ View'.u.abort_requested = x.u.abort_requested
          /\ Differs(View'.u, View'.h)
      BY <1>1, <1>2, <2>1, <2>2, <2>3, <2>4, HandledCurrent
    <2>6. Over(View') <=> ~Alive'
      BY ViewFields DEF Over, Alive
    <2>7. Settled(F, S, R)
      BY <1>1, <2>1, <2>5, <2>6, ViewFields DEF Settled
    <2> QED BY <1>4, <1>5, <2>7 DEF F, S, R
  <1>7. CASE "signal" \notin host.env.faults /\ transport.dead /\ status = "ERROR"
    <2>1. Differs(x.u, x.h) /\ ~user.abort_requested /\ x.u \in Users /\ HostOK(x.h)
      BY <1>1, <1>7, ViewFields DEF VInv
    <2>2. Handled(x, View', r, "ERROR", f, m)
      BY <1>2, <1>7
    <2>3. /\ Over(View') \/ View'.u.abort_requested = x.u.abort_requested
          /\ Differs(View'.u, View'.h)
      BY <2>1, <2>2, FailedDiffers
    <2>4. Over(View') <=> ~Alive'
      BY ViewFields DEF Over, Alive
    <2>5. Settled(F, S, R)
      BY <1>1, <1>5, <1>7, <2>1, <2>3, <2>4, ViewFields DEF Settled
    <2> QED BY <1>4, <1>5, <2>5 DEF F, S, R
  <1>8. CASE "signal" \in host.env.faults
    BY <1>4, <1>5, <1>8 DEF Settled
  <1> QED BY <1>4, <1>5, <1>6, <1>7, <1>8

LEMMA FinishRecvVer ==
    ASSUME LInv, VInv, smbcli_transport_finish_recv
    PROVE  VInv'
  <1> DEFINE p == Head(replies)
  <1>1. /\ Alive /\ replies # <<>> /\ UNCHANGED smb /\ replies \in Seq(Replies)
        /\ transport.dead => transport.pending_recv = {}
        /\ user'.exited \/ replies' = Tail(replies)
    BY DEF smbcli_transport_finish_recv, Ready, LInv, ServerOK
  <1>2. Within(Tail(replies), replies)
    BY <1>1, TailWithin
  <1>3. CASE UNCHANGED <<ac, transport, user, host>>
    <2>1. View' = View /\ Alive' = Alive /\ user' = user /\ host' = host /\ transport' = transport
      BY <1>3 DEF View, Alive
    <2>2. replies' = Tail(replies)
      BY <1>1, <2>1 DEF Alive
    <2>3. CASE "signal" \notin host.env.faults
      <3>1. /\ Differs(user, host) /\ ~user.abort_requested
            /\ ~transport.dead => Current(View, smb.parked, smb.fid, replies)
        BY <1>1, <2>3 DEF VInv
      <3>2. ~transport.dead => Current(View, smb.parked, smb.fid, Tail(replies))
        BY <1>2, <3>1, LesserCurrent
      <3> QED BY <1>1, <2>1, <2>2, <3>1, <3>2 DEF VInv
    <2> QED BY <2>1, <2>3 DEF VInv
  <1>4. ASSUME NEW r \in transport.pending_recv, r.mid = p.mid,
               Complete(r, p.status, p.fnum, p.msg)
        PROVE  VInv'
    <2>1. ~transport.dead
      BY <1>1
    <2>2. Sound(r, p.status, p.fnum, p.msg)
      BY <1>1, <1>4, ReplySound
    <2>3. Replied(replies, r, p.status, p.fnum, p.msg)
      <3>1. 1 \in DOMAIN replies /\ replies[1] = p
        BY <1>1, TailWithin
      <3> QED BY <1>4, <3>1 DEF Replied
    <2> HIDE DEF p
    <2>4. host'.env = host.env /\ Settled(smb.fid, smb.parked, replies)
      BY <1>1, <1>4, <2>1, <2>2, <2>3, CompleteSettled
    <2>5. CASE user'.exited
      BY <2>4, <2>5 DEF Settled, VInv, Alive
    <2>6. CASE replies' = Tail(replies)
      <3>1. Current(View', smb.parked, smb.fid, replies) =>
               Current(View', smb.parked, smb.fid, replies')
        BY <1>2, <2>6, LesserCurrent
      <3>2. Settled(smb'.fid, smb'.parked, replies')
        BY <1>1, <2>4, <3>1 DEF Settled
      <3> QED BY <2>4, <3>2, SettledVer
    <2> QED BY <1>1, <2>5, <2>6
  <1> QED BY <1>3, <1>4 DEF smbcli_transport_finish_recv

LEMMA TimeoutVer ==
    ASSUME LInv, TInv, VInv, smbcli_timeout_handler
    PROVE  VInv'
  <1>1. /\ Alive /\ UNCHANGED smb
        /\ user'.exited \/ replies' = replies
    BY DEF smbcli_timeout_handler, Ready
  <1>2. PICK r \in transport.pending_recv : r.timed /\ Complete(r, "ERROR", NULL, NoMsg)
    BY DEF smbcli_timeout_handler
  <1>3. Sound(r, "ERROR", NULL, NoMsg)
    BY <1>2, ErrorSound
  <1>4. ~Is(r, "close")
    BY <1>2, CloseUntimed
  <1>5. host'.env = host.env /\ Settled(smb.fid, smb.parked, replies)
    BY <1>1, <1>2, <1>3, <1>4, CompleteSettled
  <1>6. CASE user'.exited
    BY <1>5, <1>6 DEF Settled, VInv, Alive
  <1>7. CASE replies' = replies
    BY <1>1, <1>5, <1>7, SettledVer
  <1> QED BY <1>1, <1>6, <1>7

LEMMA TransportDeadVer ==
    ASSUME LInv, VInv, smbcli_transport_dead
    PROVE  VInv'
  <1>1. Alive /\ transport.dead /\ UNCHANGED <<smb, replies>>
    BY DEF smbcli_transport_dead
  <1>2. PICK r \in transport.pending_recv : Complete(r, "ERROR", NULL, NoMsg)
    BY DEF smbcli_transport_dead
  <1>3. Sound(r, "ERROR", NULL, NoMsg)
    BY <1>2, ErrorSound
  <1>4. host'.env = host.env /\ Settled(smb.fid, smb.parked, replies)
    BY <1>1, <1>2, <1>3, CompleteSettled
  <1> QED BY <1>1, <1>4, SettledVer

LEMMA SockDeadVer ==
    ASSUME LInv, VInv, smbcli_sock_dead
    PROVE  VInv'
  <1>1. /\ UNCHANGED <<ac, user, host>>
        /\ transport' = [transport EXCEPT !.dead = TRUE, !.wire = <<>>]
        /\ transport \in Transports
    BY ViewFields DEF smbcli_sock_dead, LInv, Good, Views
  <1>2. transport'.dead /\ Alive' = Alive
    BY <1>1 DEF Transports, Alive
  <1>3. user' = user /\ host' = host
    BY <1>1
  <1> QED BY <1>2, <1>3 DEF VInv

LEMMA SignalVer ==
    ASSUME LInv, signal
    PROVE  VInv'
  <1>1. View \in Views /\ "signal" \in host.env.faults
    BY DEF LInv, Good, signal
  <1>2. host'.env = host.env
    <2>1. CASE user.handler
      <3> DEFINE y == [View EXCEPT !.u.abort_requested = TRUE, !.u.handler = FALSE]
      <3>1. Become(y)
        BY <2>1 DEF signal
      <3>2. y.h = View.h
        BY <1>1 DEF Views
      <3> HIDE DEF y
      <3> QED BY <3>1, <3>2, ViewFields DEF Become
    <2>2. CASE ~user.handler
      <3> DEFINE e == Exit(View)
                 y == [e EXCEPT !.u.killed = TRUE]
      <3>1. Ended(View, e) /\ e.h = View.h
        BY <1>1, ExitEnds
      <3>2. Become(y)
        BY <2>2 DEF signal
      <3> HIDE DEF e
      <3>3. y.h = e.h
        BY <3>1 DEF Ended, Views
      <3> HIDE DEF y
      <3> QED BY <3>1, <3>2, <3>3, ViewFields DEF Become
    <2> QED BY <2>1, <2>2
  <1> QED BY <1>1, <1>2 DEF VInv

LEMMA TimerVer ==
    ASSUME LInv, VInv, timer
    PROVE  VInv'
  <1>1. Alive /\ user.abort_requested
    BY DEF timer, Ready
  <1>2. "signal" \in host.env.faults
    BY <1>1 DEF VInv
  <1>3. PICK z : Bare(View, z, Fired) /\ Writes(z, View', "ctrl", <<"abort">>)
    BY TimerIs
  <1>4. z.h = host
    BY <1>3, ViewFields DEF Bare
  <1>5. View'.h = z.h
    BY <1>3, PostedView, Zenon
  <1>6. host' = host
    BY <1>4, <1>5, ViewFields
  <1> QED BY <1>2, <1>6 DEF VInv

LEMMA StdinVer ==
    ASSUME LInv, VInv, on_stdin_read_event
    PROVE  VInv'
  <1>1. PICK z : Bare(View, z, Typed) /\ Writes(z, View', "io", <<"input">>)
    BY StdinIs
  <1>2. z.h = host /\ z.t = transport /\ z.u = Typed /\ z.ac = ac
    BY <1>1, ViewFields DEF Bare
  <1>3. View'.h = z.h /\ View'.u = z.u
    BY <1>1, PostedView, Zenon
  <1>4. host' = host /\ user' = Typed /\ user \in Users /\ Alive /\ UNCHANGED <<smb, replies>>
    BY <1>2, <1>3, StdinIs, ViewFields DEF LInv, Good, Views, on_stdin_read_event, Ready
  <1>5. /\ Typed.state = user.state /\ Typed.abort_requested = user.abort_requested
        /\ Typed.exited = user.exited /\ Typed.fault = user.fault
    BY <1>4 DEF Typed, Users
  <1>6. CASE "signal" \notin host.env.faults
    <2>1. Differs(user', host') /\ ~user'.abort_requested
      BY <1>4, <1>5, <1>6 DEF VInv, Differs
    <2>2. ASSUME ~transport.dead PROVE Current(View', smb.parked, smb.fid, replies)
      <3>1. Server(smb.parked, replies) /\ Good(View, smb.parked, replies)
        BY ServerTypes DEF LInv, Server
      <3>2. Online(View, smb.parked, replies) /\ Current(View, smb.parked, smb.fid, replies)
        BY <1>4, <1>6, <2>2, <3>1, ViewFields DEF Online, VInv
      <3>3. Online(z, smb.parked, replies)
        BY <1>1, <3>2, OnlineSteps, Names, Zenon
      <3>4. Current(z, smb.parked, smb.fid, replies)
        <4>1. z.t = View.t /\ z.h = View.h /\ z.u.state = View.u.state /\ z.ac = View.ac
          BY <1>2, <1>5, ViewFields
        <4> QED BY <3>2, <4>1, SameCurrent
      <3> QED BY <1>1, <3>3, <3>4, OtherCurrent, Names
    <2>3. transport'.dead = transport.dead
      <3>1. PICK q, K : Posted(z, View', "io", q, K)
        BY <1>1, Zenon DEF Writes
      <3> QED BY <1>2, <3>1, ViewFields DEF Posted, Delivered
    <2> QED BY <1>4, <2>1, <2>2, <2>3 DEF VInv
  <1> QED BY <1>4, <1>6 DEF VInv

LEMMA ClientVer ==
    ASSUME LInv, TInv, VInv, Client
    PROVE  VInv'
  BY FinishRecvVer, TimeoutVer, SockDeadVer, TransportDeadVer, SignalVer, TimerVer,
     StdinVer DEF Client

-----------------------------------------------------------------------------
(***************************************************************************)
(* The steps of the server.                                                *)
(***************************************************************************)

\* Only the reply p is new.
Plus(R, P, p) == \A i \in DOMAIN P : P[i] = p \/ \E j \in DOMAIN R : P[i] = R[j]

LEMMA PlusAppend ==
    ASSUME NEW R \in Seq(Replies), NEW p \in Replies
    PROVE  Plus(R, Append(R, p), p) /\ Plus(R, R, p)
  <1> DEFINE P == Append(R, p)
  <1>1. /\ \A i \in DOMAIN R : P[i] = R[i]
        /\ P[Len(R) + 1] = p
        /\ \A i \in DOMAIN P : i \in DOMAIN R \/ i = Len(R) + 1
    BY Appended
  <1> HIDE DEF P
  <1>2. Plus(R, P, p)
    BY <1>1 DEF Plus
  <1> QED BY <1>2 DEF Plus, P

\* The request q opens and closes only its own handle.
Freed(F, G, q) ==
    /\ Is(q, "open") \/ OpenCtrl(G) \subseteq OpenCtrl(F)
    /\ q.kind = "close" => q.fnum \notin OpenCtrl(G)

LEMMA WireSplit ==
    ASSUME NEW t \in Transports, t.wire # <<>>, NEW s, Taken(t, s), NEW q, q = Head(t.wire)
    PROVE  /\ 1 \in DOMAIN t.wire /\ q = t.wire[1]
           /\ \A i \in DOMAIN s.wire : i + 1 \in DOMAIN t.wire /\ s.wire[i] = t.wire[i + 1] /\ i \in Nat
           /\ \A i \in DOMAIN t.wire : i # 1 => i - 1 \in DOMAIN s.wire /\ s.wire[i - 1] = t.wire[i]
           /\ \A i \in DOMAIN t.wire : i \in Nat /\ i >= 1
           /\ \A i \in DOMAIN s.wire : i >= 1
           /\ s.pending_recv = t.pending_recv
  <1>1. t.wire \in Seq(Requests) /\ s.wire = Tail(t.wire) /\ s.pending_recv = t.pending_recv
    BY DEF Transports, Taken
  <1>2. s.wire \in Seq(Requests)
    BY <1>1, TailWithin
  <1>3. /\ \A i \in DOMAIN t.wire : i \in Nat /\ i >= 1
        /\ \A i \in DOMAIN s.wire : i >= 1
    BY <1>1, <1>2
  <1> QED BY <1>1, <1>3, TailWithin

LEMMA TakenDoomed ==
    ASSUME NEW t \in Transports, t.wire # <<>>, NEW s, Taken(t, s), NEW q, q = Head(t.wire),
           NEW S, NEW F, NEW R, NEW G, Freed(F, G, q), NEW P, NEW p, Plus(R, P, p), p.mid = q.mid,
           NEW r, Doomed(t, S, F, R, r), r.mid = q.mid => p.status # "OK"
    PROVE  Doomed(s, S, G, P, r)
  <1>1. /\ 1 \in DOMAIN t.wire /\ q = t.wire[1]
        /\ \A i \in DOMAIN s.wire : i + 1 \in DOMAIN t.wire /\ s.wire[i] = t.wire[i + 1] /\ i \in Nat
        /\ \A i \in DOMAIN t.wire : i # 1 => i - 1 \in DOMAIN s.wire /\ s.wire[i - 1] = t.wire[i]
        /\ \A i \in DOMAIN t.wire : i \in Nat /\ i >= 1
        /\ \A i \in DOMAIN s.wire : i >= 1
    BY WireSplit
  <1>2. r \notin S
    BY DEF Doomed
  <1>3. \A i \in DOMAIN P : P[i].mid = r.mid => P[i].status # "OK"
    BY DEF Doomed, Plus
  <1>4. ASSUME NEW i \in DOMAIN s.wire, s.wire[i].mid = r.mid
        PROVE  /\ \/ r.fnum \notin OpenCtrl(G)
                  \/ \E j \in DOMAIN s.wire :
                        j < i /\ s.wire[j].kind = "close" /\ s.wire[j].fnum = r.fnum
               /\ \A j \in DOMAIN s.wire : j < i => ~Is(s.wire[j], "open")
    <2>1. i + 1 \in DOMAIN t.wire /\ t.wire[i + 1].mid = r.mid /\ i \in Nat
      BY <1>1, <1>4
    <2>2. /\ \/ r.fnum \notin OpenCtrl(F)
             \/ \E j \in DOMAIN t.wire :
                   j < i + 1 /\ t.wire[j].kind = "close" /\ t.wire[j].fnum = r.fnum
          /\ \A j \in DOMAIN t.wire : j < i + 1 => ~Is(t.wire[j], "open")
      BY <2>1 DEF Doomed
    <2>3. 1 < i + 1
      BY <1>1, <1>4, <2>1
    <2>4. ~Is(q, "open")
      BY <1>1, <2>2, <2>3
    <2>5. OpenCtrl(G) \subseteq OpenCtrl(F)
      BY <2>4 DEF Freed
    <2>6. \A j \in DOMAIN s.wire : j < i => ~Is(s.wire[j], "open")
      <3> SUFFICES ASSUME NEW j \in DOMAIN s.wire, j < i PROVE ~Is(s.wire[j], "open")
        OBVIOUS
      <3>1. j + 1 \in DOMAIN t.wire /\ s.wire[j] = t.wire[j + 1] /\ j \in Nat
        BY <1>1
      <3>2. j + 1 < i + 1
        BY <2>1, <3>1
      <3> QED BY <2>2, <3>1, <3>2
    <2>7. ASSUME NEW j \in DOMAIN t.wire, j < i + 1, t.wire[j].kind = "close", t.wire[j].fnum = r.fnum
          PROVE  \/ r.fnum \notin OpenCtrl(G)
                 \/ \E n \in DOMAIN s.wire :
                       n < i /\ s.wire[n].kind = "close" /\ s.wire[n].fnum = r.fnum
      <3>1. CASE j = 1
        BY <1>1, <2>7, <3>1 DEF Freed
      <3>2. CASE j # 1
        <4>1. j - 1 \in DOMAIN s.wire /\ s.wire[j - 1] = t.wire[j]
          BY <1>1, <3>2
        <4>2. j - 1 < i
          BY <1>1, <2>1, <2>7
        <4> QED BY <2>7, <4>1, <4>2
      <3> QED BY <3>1, <3>2
    <2> QED BY <2>2, <2>5, <2>6, <2>7
  <1> QED BY <1>2, <1>3, <1>4 DEF Doomed

\* The read is doomed still.
Dooms(t, S, F, R, s, T, G, P) ==
    /\ s.pending_recv = t.pending_recv
    /\ \A r \in t.pending_recv : Is(r, "read") /\ Doomed(t, S, F, R, r) => Doomed(s, T, G, P, r)

\* Every open and close on the wire was there before.
LEMMA DoomsState ==
    ASSUME NEW t, NEW S, NEW F, NEW R, NEW s, NEW T, NEW G, NEW P, Dooms(t, S, F, R, s, T, G, P),
           \A i \in DOMAIN s.wire : \E j \in DOMAIN t.wire : s.wire[i] = t.wire[j],
           OpenCtrl(G) = OpenCtrl(F), NEW p, Plus(R, P, p),
           \A o \in t.pending_recv : o.mid = p.mid => ~Is(o, "open") /\ ~Is(o, "close"),
           NEW fd, NEW ver, NEW state, InState(t, fd, ver, state, S, F, R)
    PROVE  InState(s, fd, ver, state, T, G, P)
  <1>1. s.pending_recv = t.pending_recv
    BY DEF Dooms
  <1>2. AllDoomed(t, S, F, R) => AllDoomed(s, T, G, P)
    BY DEF Dooms, AllDoomed
  <1>3. \A r \in t.pending_recv : Hopeful(s, T, G, P, r) => Hopeful(t, S, F, R, r)
    BY DEF Dooms, Hopeful
  <1>4. \A k : (None(t, k) => None(s, k)) /\ (Sole(t, k) => Sole(s, k))
    BY <1>1 DEF None, Sole
  <1>5. ASSUME NEW o \in t.pending_recv, Is(o, "open") \/ Is(o, "close"), NEW i \in DOMAIN P, P[i].mid = o.mid
        PROVE  \E j \in DOMAIN R : R[j] = P[i]
    BY <1>5 DEF Plus
  <1>6. ASSUME BeingOpened(t, S, F, R) PROVE BeingOpened(s, T, G, P)
    <2>1. None(s, "close") /\ Sole(s, "open") /\ AllDoomed(s, T, G, P)
      BY <1>2, <1>4, <1>6 DEF BeingOpened
    <2>2. ASSUME NEW o \in s.pending_recv, Is(o, "open")
          PROVE  /\ (\E i \in DOMAIN s.wire : s.wire[i].mid = o.mid) => OpenCtrl(G) = {}
                 /\ \A i \in DOMAIN P : P[i].mid = o.mid =>
                       OpenCtrl(G) \subseteq (IF P[i].status = "OK" THEN {P[i].fnum} ELSE {})
      BY <1>1, <1>5, <1>6, <2>2 DEF BeingOpened
    <2> QED BY <2>1, <2>2 DEF BeingOpened
  <1>7. ASSUME InUse(t, fd, S, F, R) PROVE InUse(s, fd, T, G, P)
    BY <1>1, <1>3, <1>4, <1>7 DEF InUse
  <1>8. ASSUME BeingClosed(t, fd, S, F, R) PROVE BeingClosed(s, fd, T, G, P)
    <2>1. None(s, "open") /\ Sole(s, "close") /\ AllDoomed(s, T, G, P) /\ OpenCtrl(G) \subseteq {fd}
      BY <1>2, <1>4, <1>8 DEF BeingClosed
    <2>2. ASSUME NEW o \in s.pending_recv, Is(o, "close")
          PROVE  o.fnum = fd /\ \A i \in DOMAIN P : P[i].mid = o.mid => OpenCtrl(G) = {}
      BY <1>1, <1>5, <1>8, <2>2 DEF BeingClosed
    <2> QED BY <2>1, <2>2 DEF BeingClosed
  <1> QED BY <1>6, <1>7, <1>8 DEF InState

\* The request q has been answered with p.
Serves(F, G, q, p) ==
    /\ Freed(F, G, q)
    /\ Is(q, "open") /\ OpenCtrl(F) = {} =>
          OpenCtrl(G) \subseteq (IF p.status = "OK" THEN {p.fnum} ELSE {})

LEMMA ServedState ==
    ASSUME NEW t \in Transports, t.wire # <<>>, NEW s, Taken(t, s), NEW q, q = Head(t.wire),
           NEW S, NEW F, NEW R, Sequenced(t, S, R), Awaited(t), NEW G, NEW P, NEW p,
           Serves(F, G, q, p), Plus(R, P, p), p.mid = q.mid,
           \A r \in t.pending_recv : Is(r, "read") /\ Doomed(t, S, F, R, r) /\ r.mid = q.mid =>
               p.status # "OK",
           NEW fd, NEW ver, NEW state, InState(t, fd, ver, state, S, F, R)
    PROVE  InState(s, fd, ver, state, S, G, P)
  <1>1. /\ 1 \in DOMAIN t.wire /\ q = t.wire[1]
        /\ \A i \in DOMAIN s.wire : i + 1 \in DOMAIN t.wire /\ s.wire[i] = t.wire[i + 1] /\ i \in Nat
        /\ s.pending_recv = t.pending_recv
    BY WireSplit
  <1>2. Freed(F, G, q)
    BY DEF Serves
  <1>3. \A r \in t.pending_recv : Is(r, "read") /\ Doomed(t, S, F, R, r) => Doomed(s, S, G, P, r)
    BY <1>2, TakenDoomed
  <1>4. AllDoomed(t, S, F, R) => AllDoomed(s, S, G, P)
    BY <1>1, <1>3 DEF AllDoomed
  <1>5. \A r \in t.pending_recv : Hopeful(s, S, G, P, r) => Hopeful(t, S, F, R, r)
    BY <1>3 DEF Hopeful
  <1>6. \A k : (None(t, k) => None(s, k)) /\ (Sole(t, k) => Sole(s, k))
    BY <1>1 DEF None, Sole
  <1>7. Is(q, "open") \/ Is(q, "close") => q \in t.pending_recv
    BY <1>1 DEF Awaited
  <1>8. /\ \A i \in DOMAIN s.wire : s.wire[i].mid # q.mid
        /\ \A j \in DOMAIN R : R[j].mid # q.mid
        /\ \A o \in t.pending_recv : o.mid = q.mid => o = q
    BY WireFacts
  <1>9. \A i \in DOMAIN P : P[i] = p \/ \E j \in DOMAIN R : P[i] = R[j]
    BY DEF Plus
  <1>10. None(t, "open") => OpenCtrl(G) \subseteq OpenCtrl(F)
    BY <1>2, <1>7 DEF None, Freed
  <1>11. ASSUME BeingOpened(t, S, F, R) PROVE BeingOpened(s, S, G, P)
    <2>1. None(s, "close") /\ Sole(s, "open") /\ AllDoomed(s, S, G, P)
      BY <1>4, <1>6, <1>11 DEF BeingOpened
    <2>2. ASSUME NEW o \in s.pending_recv, Is(o, "open")
          PROVE  /\ (\E i \in DOMAIN s.wire : s.wire[i].mid = o.mid) => OpenCtrl(G) = {}
                 /\ \A i \in DOMAIN P : P[i].mid = o.mid =>
                       OpenCtrl(G) \subseteq (IF P[i].status = "OK" THEN {P[i].fnum} ELSE {})
      <3>1. /\ (\E i \in DOMAIN t.wire : t.wire[i].mid = o.mid) => OpenCtrl(F) = {}
            /\ \A i \in DOMAIN R : R[i].mid = o.mid =>
                  OpenCtrl(F) \subseteq (IF R[i].status = "OK" THEN {R[i].fnum} ELSE {})
        BY <1>1, <1>11, <2>2 DEF BeingOpened
      <3>2. CASE o = q
        <4>1. OpenCtrl(G) \subseteq (IF p.status = "OK" THEN {p.fnum} ELSE {})
          BY <1>1, <2>2, <3>1, <3>2 DEF Serves
        <4> QED BY <1>8, <1>9, <3>2, <4>1
      <3>3. CASE o # q
        <4>1. ~Is(q, "open")
          BY <1>1, <1>7, <1>11, <2>2, <3>3 DEF BeingOpened, Sole
        <4>2. OpenCtrl(G) \subseteq OpenCtrl(F)
          BY <1>2, <4>1 DEF Freed
        <4>3. o.mid # q.mid
          BY <1>1, <1>8, <3>3
        <4>4. (\E i \in DOMAIN s.wire : s.wire[i].mid = o.mid) => OpenCtrl(G) = {}
          BY <1>1, <3>1, <4>2
        <4>5. ASSUME NEW i \in DOMAIN P, P[i].mid = o.mid
              PROVE  OpenCtrl(G) \subseteq (IF P[i].status = "OK" THEN {P[i].fnum} ELSE {})
          <5>1. PICK j \in DOMAIN R : P[i] = R[j]
            BY <1>9, <4>3, <4>5
          <5> QED BY <3>1, <4>2, <4>5, <5>1
        <4> QED BY <4>4, <4>5
      <3> QED BY <3>2, <3>3
    <2> QED BY <2>1, <2>2 DEF BeingOpened
  <1>12. ASSUME InUse(t, fd, S, F, R) PROVE InUse(s, fd, S, G, P)
    BY <1>1, <1>5, <1>6, <1>10, <1>12 DEF InUse
  <1>13. ASSUME BeingClosed(t, fd, S, F, R) PROVE BeingClosed(s, fd, S, G, P)
    <2>1. None(s, "open") /\ Sole(s, "close") /\ AllDoomed(s, S, G, P) /\ OpenCtrl(G) \subseteq {fd}
      BY <1>4, <1>6, <1>10, <1>13 DEF BeingClosed
    <2>2. ASSUME NEW o \in s.pending_recv, Is(o, "close")
          PROVE  o.fnum = fd /\ \A i \in DOMAIN P : P[i].mid = o.mid => OpenCtrl(G) = {}
      <3>1. o.fnum = fd /\ \A i \in DOMAIN R : R[i].mid = o.mid => OpenCtrl(F) = {}
        BY <1>1, <1>13, <2>2 DEF BeingClosed
      <3>2. CASE o = q
        <4>1. fd \notin OpenCtrl(G)
          BY <1>2, <2>2, <3>1, <3>2 DEF Freed, Is
        <4>2. OpenCtrl(G) = {}
          BY <2>1, <4>1
        <4> QED BY <3>1, <4>2
      <3>3. CASE o # q
        <4>1. o.mid # q.mid /\ OpenCtrl(G) \subseteq OpenCtrl(F)
          BY <1>1, <1>8, <1>10, <1>13, <3>3 DEF BeingClosed
        <4> QED BY <1>9, <3>1, <4>1
      <3> QED BY <3>2, <3>3
    <2> QED BY <2>1, <2>2 DEF BeingClosed
  <1> QED BY <1>11, <1>12, <1>13 DEF InState

\* What the service says stays true, G being the open handles.
Faithful(h, g, e, G) ==
    /\ g.env = h.env /\ g.svc.ver = h.svc.ver
    /\ Reached(g, e, G) /\ Untouched(g)

LEMMA GoingFaithful ==
    ASSUME NEW h, NEW g, Going(h, g), NEW e, NEW F, Reached(h, e, F), Untouched(h),
           NEW G, \A f \in OpenCtrl(G) : f \in OpenCtrl(F) /\ G[f] = F[f]
    PROVE  Faithful(h, g, e, G)
  <1>1. Reached(g, e, F) /\ Untouched(g) /\ g.env = h.env /\ g.svc.ver = h.svc.ver
    BY GoingReached, GoingUntouched DEF Going, Kept
  <1>2. Reached(g, e, G)
    BY <1>1 DEF Reached
  <1> QED BY <1>1, <1>2 DEF Faithful

\* The lines the service may read are the same, those for the client are fewer.
LEMMA PutPipeGoing ==
    ASSUME NEW h \in Hosts, NEW p \in PipeId, NEW q \in Pipes,
           \/ p[1] # "ctrl"
           \/ /\ q.c2s = h.pipe[p].c2s
              /\ \A i \in DOMAIN q.s2c : \E j \in DOMAIN h.pipe[p].s2c : q.s2c[i] = h.pipe[p].s2c[j]
    PROVE  Going(h, PutPipe(h, p, q))
  <1> DEFINE g == PutPipe(h, p, q)
  <1>1. /\ g.pipe[p] = q /\ \A o \in PipeId \ {p} : g.pipe[o] = h.pipe[o]
        /\ g.th = h.th /\ g.nconn = h.nconn /\ g.svc = h.svc /\ g.env = h.env
    BY PutPipeIs
  <1> HIDE DEF g
  <1>2. Kept(h, g)
    BY <1>1 DEF Kept
  <1>3. ASSUME NEW k \in Conn PROVE Steady(h, g, k)
    <2>1. CASE Ctrl(k) = p
      <3>1. /\ g.pipe[Ctrl(k)].c2s = h.pipe[Ctrl(k)].c2s
            /\ \A i \in DOMAIN g.pipe[Ctrl(k)].s2c : \E j \in DOMAIN h.pipe[Ctrl(k)].s2c :
                  g.pipe[Ctrl(k)].s2c[i] = h.pipe[Ctrl(k)].s2c[j]
        BY <1>1, <2>1, PipeNames
      <3>2. g.th[k] = h.th[k]
        BY <1>1
      <3>3. AskedOnly(h, k) => AskedOnly(g, k)
        BY <3>1, <3>2 DEF AskedOnly
      <3> QED BY <3>1, <3>3 DEF Steady
    <2>2. CASE Ctrl(k) # p
      <3>1. g.pipe[Ctrl(k)] = h.pipe[Ctrl(k)] /\ g.th[k] = h.th[k]
        BY <1>1, <2>2, PipeNames
      <3> QED BY <1>2, <3>1, SameSteady
    <2> QED BY <2>1, <2>2
  <1> QED BY <1>2, <1>3 DEF Going, g

LEMMA StillGoing ==
    ASSUME NEW h
    PROVE  Going(h, h)
  BY SameSteady DEF Going, Kept

LEMMA AcceptedAsked ==
    ASSUME NEW g, NEW k, g.pipe[Ctrl(k)].c2s = <<>>, g.th[k].pc = "accepted"
    PROVE  AskedOnly(g, k)
  BY DEF AskedOnly

LEMMA OneMore ==
    ASSUME NEW T, NEW s \in Seq(T), NEW v \in T, NEW n, n = s \o <<v>>
    PROVE  \A i \in DOMAIN n : n[i] = v \/ \E j \in DOMAIN s : n[i] = s[j]
  <1>1. n = Append(s, v)
    OBVIOUS
  <1> QED BY <1>1, Appended

\* A new connection: nobody has written to its pipe.
LEMMA OpenFaithful ==
    ASSUME NEW h, HostOK(h), NEW k \in Conn, k = h.nconn + 1, NEW g,
           g = [h EXCEPT !.nconn = @ + 1, !.svc.listening = FALSE,
                         !.pipe[Ctrl(k)].st = "connected", !.th[k].pc = "accepted"],
           NEW F, NEW G, NEW f, G[f] = Ctrl(k), \A j \in FnumFor("ctrl") : j # f => G[j] = F[j],
           NEW e, Reached(h, e, F), Untouched(h)
    PROVE  Faithful(h, g, e, G)
  <1> DEFINE q == [h.pipe[Ctrl(k)] EXCEPT !.st = "connected"]
             P == [h.pipe EXCEPT ![Ctrl(k)] = q]
             T == [h.th EXCEPT ![k].pc = "accepted"]
             S == [h.svc EXCEPT !.listening = FALSE]
  <1>1. /\ h \in Hosts /\ h.pipe \in [PipeId -> Pipes] /\ h.th \in [Conn -> Threads]
        /\ h.svc \in Services /\ Ctrl(k) \in PipeId /\ h.pipe[Ctrl(k)] \in Pipes
    BY PipeNames DEF HostOK, Hosts
  <1>2. q.s2c = h.pipe[Ctrl(k)].s2c /\ q.c2s = h.pipe[Ctrl(k)].c2s
    BY <1>1 DEF Pipes
  <1>3. g = [h EXCEPT !.nconn = @ + 1, !.svc = S, !.pipe = P, !.th = T]
    BY <1>1 DEF Hosts
  <1>4. P[Ctrl(k)] = q /\ \A o \in PipeId \ {Ctrl(k)} : P[o] = h.pipe[o]
    BY <1>1
  <1>5. T[k].pc = "accepted" /\ \A j \in Conn : j # k => T[j] = h.th[j]
    BY <1>1 DEF Threads
  <1>6. S.ver = h.svc.ver
    BY <1>1 DEF Services
  <1> HIDE DEF P, T, S, q
  <1>7. /\ g.pipe = P /\ g.th = T /\ g.nconn = h.nconn + 1 /\ g.svc = S /\ g.env = h.env
    BY <1>1, <1>3 DEF Hosts
  <1>8. h.nconn \in Nat /\ k \in Nat
    BY <1>1, BoundsAssumption DEF Hosts, Conn
  <1>9. h.pipe[Ctrl(k)].s2c = <<>> /\ h.pipe[Ctrl(k)].c2s = <<>>
    <2>1. ConnOK(h, k) /\ k > h.nconn
      BY <1>8 DEF HostOK
    <2> QED BY <2>1 DEF ConnOK, Untouched
  <1>10. \A j \in Conn : j # k => g.pipe[Ctrl(j)] = h.pipe[Ctrl(j)] /\ g.th[j] = h.th[j]
    BY <1>4, <1>5, <1>7, PipeNames
  <1>11. g.pipe[Ctrl(k)].s2c = <<>> /\ g.pipe[Ctrl(k)].c2s = <<>> /\ g.th[k].pc = "accepted"
    BY <1>2, <1>4, <1>5, <1>7, <1>9
  <1>12. Untouched(g)
    <2> SUFFICES ASSUME NEW j \in Conn, j > g.nconn PROVE g.pipe[Ctrl(j)].c2s = <<>>
      BY DEF Untouched
    <2>1. j > h.nconn /\ j # k
      BY <1>7, <1>8 DEF Conn
    <2> QED BY <1>10, <2>1 DEF Untouched
  <1>13. Reached(g, e, G)
    <2> SUFFICES ASSUME NEW j \in Conn, NEW n \in OpenCtrl(G), G[n] = Ctrl(j) PROVE Fine(g, e, j)
      BY DEF Reached
    <2>1. CASE j = k
      <3>1. AskedOnly(g, k)
        BY <1>11, AcceptedAsked
      <3>2. k <= g.nconn
        BY <1>7, <1>8
      <3>3. DOMAIN g.pipe[Ctrl(k)].s2c = {}
        BY <1>11
      <3> QED BY <2>1, <3>1, <3>2, <3>3 DEF Fine
    <2>2. CASE j # k
      <3>1. n # f
        BY <2>2, PipeNames
      <3>2. n \in OpenCtrl(F) /\ F[n] = Ctrl(j)
        BY <3>1 DEF OpenCtrl
      <3>3. Fine(h, e, j)
        BY <3>2 DEF Reached
      <3>4. g.pipe[Ctrl(j)] = h.pipe[Ctrl(j)] /\ g.th[j] = h.th[j] /\ g.svc.ver = h.svc.ver
        BY <1>6, <1>7, <1>10, <2>2
      <3>5. j <= g.nconn
        BY <1>7, <1>8, <3>3 DEF Fine, Conn
      <3>6. AskedOnly(h, j) => AskedOnly(g, j)
        BY <3>4 DEF AskedOnly
      <3>7. \A m : Told(h, e, m) => Told(g, e, m)
        BY <3>4 DEF Told
      <3>8. \A i \in DOMAIN g.pipe[Ctrl(j)].s2c : Told(g, e, g.pipe[Ctrl(j)].s2c[i])
        BY <3>3, <3>4, <3>7, Zenon DEF Fine
      <3> QED BY <3>3, <3>5, <3>6, <3>8, Zenon DEF Fine
    <2> QED BY <2>1, <2>2
  <1>14. g.env = h.env /\ g.svc.ver = h.svc.ver
    BY <1>6, <1>7
  <1> QED BY <1>12, <1>13, <1>14 DEF Faithful

\* A write to the control pipe; before the command it is a question.
LEMMA WriteFaithful ==
    ASSUME NEW h, HostOK(h), NEW k \in Conn, NEW q \in Pipes, NEW r \in Requests, Is(r, "write"),
           q.s2c = h.pipe[Ctrl(k)].s2c, q.c2s = h.pipe[Ctrl(k)].c2s \o r.data,
           NEW F, NEW f \in OpenCtrl(F), F[f] = Ctrl(k),
           NEW e, Reached(h, e, F), Untouched(h), Polite(r, e)
    PROVE  Faithful(h, PutPipe(h, Ctrl(k), q), e, F)
  <1> DEFINE g == PutPipe(h, Ctrl(k), q)
  <1>1. h \in Hosts /\ Ctrl(k) \in PipeId
    BY PipeNames DEF HostOK
  <1>2. /\ g.pipe[Ctrl(k)] = q /\ \A o \in PipeId \ {Ctrl(k)} : g.pipe[o] = h.pipe[o]
        /\ g.th = h.th /\ g.nconn = h.nconn /\ g.svc = h.svc /\ g.env = h.env
    BY <1>1, PutPipeIs
  <1> HIDE DEF g
  <1>3. Fine(h, e, k)
    BY DEF Reached
  <1>4. k <= h.nconn
    BY <1>3 DEF Fine
  <1>5. \A j \in Conn : j # k => g.pipe[Ctrl(j)] = h.pipe[Ctrl(j)]
    BY <1>2, PipeNames
  <1>6. Untouched(g)
    <2> SUFFICES ASSUME NEW j \in Conn, j > g.nconn PROVE g.pipe[Ctrl(j)].c2s = <<>>
      BY DEF Untouched
    <2>1. j > h.nconn
      BY <1>2
    <2>2. j # k
      <3>1. h.nconn \in Int /\ k \in Int /\ j \in Int
        BY <1>1, BoundsAssumption DEF Hosts, Conn
      <3> QED BY <1>4, <2>1, <3>1
    <2> QED BY <1>5, <2>1, <2>2 DEF Untouched
  <1>7. \A m : Told(h, e, m) => Told(g, e, m)
    BY <1>2 DEF Told
  <1>8. ASSUME Question(r), AskedOnly(h, k) PROVE AskedOnly(g, k)
    <2>1. r.data = <<"get version">>
      BY <1>8 DEF Question
    <2>2. h.pipe[Ctrl(k)].c2s \in Seq(ClientLines)
      BY <1>1 DEF Hosts, Pipes
    <2>3. \A i \in DOMAIN q.c2s :
             q.c2s[i] = "get version" \/ \E j \in DOMAIN h.pipe[Ctrl(k)].c2s : q.c2s[i] = h.pipe[Ctrl(k)].c2s[j]
      <3>1. PICK v \in ClientLines : v = "get version"
        BY DEF ClientLines
      <3>2. q.c2s = h.pipe[Ctrl(k)].c2s \o <<v>>
        BY <2>1, <3>1
      <3>3. \A i \in DOMAIN q.c2s :
               q.c2s[i] = v \/ \E j \in DOMAIN h.pipe[Ctrl(k)].c2s : q.c2s[i] = h.pipe[Ctrl(k)].c2s[j]
        <4>1. PICK s, n : s = h.pipe[Ctrl(k)].c2s /\ n = q.c2s
          OBVIOUS
        <4>2. s \in Seq(ClientLines) /\ n = s \o <<v>>
          BY <2>2, <3>2, <4>1
        <4>3. \A i \in DOMAIN n : n[i] = v \/ \E j \in DOMAIN s : n[i] = s[j]
          BY <4>2, OneMore
        <4> QED BY <4>1, <4>3
      <3> QED BY <3>1, <3>3
    <2>4. \A i \in DOMAIN q.c2s : q.c2s[i] = "get version"
      BY <1>8, <2>3 DEF AskedOnly
    <2> QED BY <1>2, <1>8, <2>4 DEF AskedOnly
  <1>9. Fine(g, e, k)
    <2>1. e => AskedOnly(g, k)
      BY <1>3, <1>8, Zenon DEF Fine, Polite
    <2>2. g.pipe[Ctrl(k)].s2c = h.pipe[Ctrl(k)].s2c
      BY <1>2
    <2>3. \A i \in DOMAIN g.pipe[Ctrl(k)].s2c : Told(g, e, g.pipe[Ctrl(k)].s2c[i])
      BY <1>3, <1>7, <2>2, Zenon DEF Fine
    <2>4. k <= g.nconn
      BY <1>2, <1>4
    <2> QED BY <2>1, <2>3, <2>4, Zenon DEF Fine
  <1>10. ASSUME NEW j \in Conn, j # k, Fine(h, e, j) PROVE Fine(g, e, j)
    <2>1. g.pipe[Ctrl(j)] = h.pipe[Ctrl(j)] /\ g.th[j] = h.th[j] /\ g.nconn = h.nconn
      BY <1>2, <1>5, <1>10
    <2>2. AskedOnly(h, j) => AskedOnly(g, j)
      BY <2>1 DEF AskedOnly
    <2>3. \A i \in DOMAIN g.pipe[Ctrl(j)].s2c : Told(g, e, g.pipe[Ctrl(j)].s2c[i])
      BY <1>7, <1>10, <2>1, Zenon DEF Fine
    <2>4. j <= g.nconn
      BY <1>10, <2>1 DEF Fine
    <2> QED BY <1>10, <2>2, <2>3, <2>4, Zenon DEF Fine
  <1>11. Reached(g, e, F)
    BY <1>9, <1>10 DEF Reached
  <1> QED BY <1>2, <1>6, <1>11 DEF Faithful, g

\* The replies and the wire of an honest service.
LEMMA TakenHonest ==
    ASSUME NEW t, NEW s, s.pending_recv = t.pending_recv,
           \A i \in DOMAIN s.wire : \E j \in DOMAIN t.wire : s.wire[i] = t.wire[j],
           NEW h, NEW F, NEW R, NEW e, Honest(t, h, F, R, e),
           NEW g, NEW G, Faithful(h, g, e, G), NEW P, NEW p, Plus(R, P, p),
           \A r \in t.pending_recv : Is(r, "read") /\ p.mid = r.mid /\ p.status = "OK" =>
               Told(h, e, p.msg)
    PROVE  Honest(s, g, G, P, e)
  <1>1. Awaited(t) /\ EarlyAsks(t, e) /\ Heard(t, h, R, e) /\ Reached(g, e, G) /\ Untouched(g)
    BY HonestParts DEF Faithful
  <1>2. Awaited(s)
    BY <1>1 DEF Awaited
  <1>3. EarlyAsks(s, e)
    <2>1. Asks(t) => Asks(s)
      <3> SUFFICES ASSUME Asks(t), NEW i \in DOMAIN s.wire PROVE Question(s.wire[i])
        BY Zenon DEF Asks, Question
      <3>1. PICK j \in DOMAIN t.wire : s.wire[i] = t.wire[j]
        OBVIOUS
      <3>2. Question(t.wire[j])
        BY Zenon DEF Asks, Question
      <3> QED BY <3>1, <3>2
    <2> QED BY <1>1, <2>1, Zenon DEF EarlyAsks
  <1>4. \A m : Told(h, e, m) => Told(g, e, m)
    BY DEF Told, Faithful
  <1>5. Heard(s, g, P, e)
    <2> SUFFICES ASSUME NEW r \in s.pending_recv, Is(r, "read"), NEW i \in DOMAIN P,
                        P[i].mid = r.mid, P[i].status = "OK"
                 PROVE  Told(g, e, P[i].msg)
      BY Zenon DEF Heard
    <2>1. r \in t.pending_recv
      OBVIOUS
    <2>2. CASE P[i] = p
      BY <1>4, <2>1, <2>2
    <2>3. CASE \E j \in DOMAIN R : P[i] = R[j]
      <3>1. PICK j \in DOMAIN R : P[i] = R[j]
        BY <2>3
      <3>2. R[j].mid = r.mid /\ R[j].status = "OK"
        BY <3>1
      <3>3. Told(h, e, R[j].msg)
        BY <1>1, <2>1, <3>2, Zenon DEF Heard
      <3> QED BY <1>4, <3>1, <3>3
    <2> QED BY <2>2, <2>3 DEF Plus
  <1> QED BY <1>1, <1>2, <1>3, <1>5, HonestIs

LEMMA ServerVer ==
    ASSUME VInv, UNCHANGED <<ac, user>>, transport'.dead = transport.dead,
           host'.env = host.env, host'.svc.ver = host.svc.ver,
           Alive /\ ~transport.dead /\ Current(View, smb.parked, smb.fid, replies) =>
               Current(View', smb'.parked, smb'.fid, replies')
    PROVE  VInv'
  <1>1. Alive' = Alive /\ user' = user
    BY DEF Alive
  <1>2. Differs(user, host) => Differs(user', host')
    BY <1>1 DEF Differs
  <1> QED BY <1>1, <1>2 DEF VInv

\* The host after the request q is as faithful as before.
Trusty(q) ==
    \A e : Reached(host, e, smb.fid) /\ Untouched(host) /\ Polite(q, e) =>
              Faithful(host, host', e, smb'.fid)

LEMMA AnswerCurrent ==
    ASSUME LInv, Alive, Current(View, smb.parked, smb.fid, replies),
           UNCHANGED <<ac, user>>, transport.wire # <<>>,
           transport' = [transport EXCEPT !.wire = Tail(@)],
           NEW q, q = Head(transport.wire), NEW p \in Replies, p.mid = q.mid, Send(<<p>>),
           smb'.parked = smb.parked, Serves(smb.fid, smb'.fid, q, p), Trusty(q),
           q.kind = "read" => p.status # "OK", host'.svc.ver = host.svc.ver
    PROVE  Current(View', smb'.parked, smb'.fid, replies')
  <1> DEFINE S == smb.parked
             F == smb.fid
             G == smb'.fid
             R == replies
             P == replies'
             t == transport
             s == transport'
             e == user.state # "RUNNING"
             fd == ac["ctrl"].fd
  <1>1. /\ t \in Transports /\ Sequenced(t, S, R) /\ R \in Seq(Replies)
    BY ViewFields DEF LInv, Good, Views, ServerOK
  <1>2. Taken(t, s)
    BY <1>1, TakenIs
  <1>3. Honest(t, host, F, R, e) /\ InState(t, fd, host.svc.ver, user.state, S, F, R)
    BY ViewFields DEF Current
  <1>4. P = Append(R, p)
    <2>1. P = R \o <<p>>
      BY DEF Send, Alive
    <2> QED BY <1>1, <2>1
  <1>5. Plus(R, P, p)
    BY <1>1, <1>4, PlusAppend
  <1>6. /\ t.wire # <<>> /\ q = Head(t.wire) /\ Serves(F, G, q, p)
    OBVIOUS
  <1>7. View'.t = s /\ View'.h = host' /\ View'.u = user /\ View'.ac = ac
    BY ViewFields
  <1> HIDE DEF S, F, G, R, P, t, s, e, fd
  <1>8. /\ 1 \in DOMAIN t.wire /\ q = t.wire[1] /\ s.pending_recv = t.pending_recv
        /\ \A i \in DOMAIN s.wire : i + 1 \in DOMAIN t.wire /\ s.wire[i] = t.wire[i + 1]
    BY <1>1, <1>2, <1>6, WireSplit
  <1>9. \A r \in t.pending_recv : r.mid = q.mid => r = q
    BY <1>1, <1>2, <1>6, WireFacts
  <1>10. Awaited(t) /\ EarlyAsks(t, e) /\ Reached(host, e, F) /\ Untouched(host)
    BY <1>3, HonestParts
  <1>11. \A r \in t.pending_recv : Is(r, "read") /\ r.mid = q.mid => p.status # "OK"
    BY <1>9 DEF Is
  <1>12. InState(s, fd, host.svc.ver, user.state, S, G, P)
    BY <1>1, <1>2, <1>3, <1>5, <1>6, <1>10, <1>11, ServedState
  <1>13. Polite(q, e)
    <2>1. Asks(t) => Question(q)
      <3>1. PICK i \in DOMAIN t.wire : q = t.wire[i]
        BY <1>8
      <3>2. Asks(t) => Question(t.wire[i])
        BY Zenon DEF Asks, Question
      <3> QED BY <3>1, <3>2
    <2> QED BY <1>10, <2>1, Zenon DEF EarlyAsks, Polite
  <1>14. Faithful(host, host', e, G)
    BY <1>10, <1>13, Zenon DEF Trusty, F, G
  <1>15. \A i \in DOMAIN s.wire : \E j \in DOMAIN t.wire : s.wire[i] = t.wire[j]
    BY <1>8
  <1>16. \A r \in t.pending_recv : Is(r, "read") /\ p.mid = r.mid /\ p.status = "OK" =>
             Told(host, e, p.msg)
    BY <1>11
  <1>17. Honest(s, host', G, P, e)
    BY <1>3, <1>5, <1>8, <1>14, <1>15, <1>16, TakenHonest
  <1> QED BY <1>7, <1>12, <1>17 DEF Current, S, G, P, e, fd

\* The head of the wire, and the step as a whole.
LEMMA AnswerVer ==
    ASSUME LInv, VInv, UNCHANGED <<ac, user>>, transport.wire # <<>>,
           transport' = [transport EXCEPT !.wire = Tail(@)],
           NEW q, q = Head(transport.wire), NEW p \in Replies, p.mid = q.mid, Send(<<p>>),
           smb'.parked = smb.parked, Serves(smb.fid, smb'.fid, q, p), Trusty(q),
           q.kind = "read" => p.status # "OK",
           host'.svc.ver = host.svc.ver, host'.env = host.env
    PROVE  VInv'
  <1>1. transport'.dead = transport.dead
    <2>1. transport \in Transports
      BY ViewFields DEF LInv, Good, Views
    <2> QED BY <2>1, TakenIs
  <1>2. Alive /\ Current(View, smb.parked, smb.fid, replies) =>
             Current(View', smb'.parked, smb'.fid, replies')
    BY AnswerCurrent
  <1> QED BY <1>1, <1>2, ServerVer

\* A request that is answered without a handle.
LEMMA PlainVer ==
    ASSUME LInv, VInv, UNCHANGED <<ac, user>>, transport.wire # <<>>,
           transport' = [transport EXCEPT !.wire = Tail(@)],
           NEW q, q = Head(transport.wire), NEW status, Answer(q, status, NoMsg),
           status \in {"OK", "OBJECT_NAME_NOT_FOUND", "ERROR"},
           smb'.parked = smb.parked, Freed(smb.fid, smb'.fid, q), Trusty(q),
           OpenCtrl(smb'.fid) \subseteq OpenCtrl(smb.fid),
           q.kind = "read" => status # "OK",
           host'.svc.ver = host.svc.ver, host'.env = host.env
    PROVE  VInv'
  <1> DEFINE p == Reply(q, status, NULL, NoMsg)
  <1>1. transport \in Transports
    BY ViewFields DEF LInv, Good, Views
  <1>2. q \in Requests
    <2>1. transport.wire \in Seq(Requests)
      BY <1>1 DEF Transports
    <2> QED BY <2>1
  <1>3. NULL \in Int /\ NoMsg \in Messages
    BY DEF NULL, NoMsg, Msg, Messages
  <1>4. p \in Replies /\ p.mid = q.mid /\ p.status = status
    BY <1>2, <1>3, ReplyIs
  <1>5. Send(<<p>>)
    BY DEF Answer
  <1> HIDE DEF p
  <1>6. Serves(smb.fid, smb'.fid, q, p)
    BY DEF Serves
  <1> QED BY <1>4, <1>5, <1>6, AnswerVer

LEMMA GoingTrusty ==
    ASSUME NEW q, Going(host, host'),
           \A f \in OpenCtrl(smb'.fid) : f \in OpenCtrl(smb.fid) /\ smb'.fid[f] = smb.fid[f]
    PROVE  Trusty(q) /\ host'.svc.ver = host.svc.ver /\ host'.env = host.env
  <1>1. ASSUME NEW e, Reached(host, e, smb.fid), Untouched(host)
        PROVE  Faithful(host, host', e, smb'.fid)
    BY <1>1, GoingFaithful
  <1>2. host'.svc.ver = host.svc.ver /\ host'.env = host.env
    BY DEF Going, Kept
  <1> QED BY <1>1, <1>2, Zenon DEF Trusty

\* A request for a handle that is not open, or one that fails.
LEMMA RefusedVer ==
    ASSUME LInv, VInv, UNCHANGED <<ac, user>>, transport.wire # <<>>,
           transport' = [transport EXCEPT !.wire = Tail(@)],
           NEW q, q = Head(transport.wire), NEW status, Answer(q, status, NoMsg),
           status \in {"OBJECT_NAME_NOT_FOUND", "ERROR"},
           smb' = smb, host' = host, q.kind = "close" => Target(q) = NoPipe
    PROVE  VInv'
  <1>1. Going(host, host')
    BY StillGoing
  <1>2. Trusty(q) /\ host'.svc.ver = host.svc.ver /\ host'.env = host.env
    BY <1>1, GoingTrusty
  <1>3. Freed(smb.fid, smb'.fid, q)
    <2>1. q.kind = "close" => q.fnum \notin OpenCtrl(smb.fid)
      BY HandleFacts, Names DEF OpenCtrl, Target
    <2> QED BY <2>1 DEF Freed
  <1>4. /\ status \in {"OK", "OBJECT_NAME_NOT_FOUND", "ERROR"}
        /\ q.kind = "read" => status # "OK"
    OBVIOUS
  <1>5. smb'.parked = smb.parked /\ OpenCtrl(smb'.fid) \subseteq OpenCtrl(smb.fid)
    OBVIOUS
  <1> QED BY <1>2, <1>3, <1>4, <1>5, PlainVer

LEMMA WriteVer ==
    ASSUME LInv, VInv, UNCHANGED <<ac, user>>, transport.wire # <<>>,
           transport' = [transport EXCEPT !.wire = Tail(@)],
           NEW r, r = Head(transport.wire), r.kind = "write", SmbWrite(r)
    PROVE  VInv'
  <1>1. /\ transport \in Transports /\ HostOK(host) /\ ServerOK
        /\ Sequenced(transport, smb.parked, replies)
    BY ViewFields DEF LInv, Good, Views
  <1>2. transport' \in Transports /\ Taken(transport, transport')
    BY <1>1, TakenIs
  <1>3. r \in Requests /\ Addressed(r)
    BY <1>1, <1>2, WireFacts
  <1>4. smb' = smb /\ r.kind # "close" /\ r.kind # "read"
    BY DEF SmbWrite
  <1>5. CASE Target(r) # NoPipe /\ Connected(Target(r))
    <2> DEFINE p == Target(r)
               q == [host.pipe[p] EXCEPT !.c2s = @ \o r.data]
    <2>1. host' = [host EXCEPT !.pipe[p].c2s = @ \o r.data] /\ Answer(r, "OK", NoMsg)
      BY <1>5 DEF SmbWrite
    <2>2. /\ p \in PipeId /\ p[1] = r.pipe /\ r.fnum \in FnumFor(r.pipe)
          /\ p = smb.fid[r.fnum] /\ p # NoPipe
      BY <1>1, <1>3, <1>5, TargetIs
    <2>3. host.pipe[p] \in Pipes /\ host \in Hosts
      BY <1>1, <2>2 DEF HostOK, Hosts
    <2>4. host' = PutPipe(host, p, q)
      BY <2>1, <2>2, <2>3 DEF PutPipe, Hosts
    <2>5. /\ q \in Pipes /\ q.s2c = host.pipe[p].s2c
          /\ q.c2s = host.pipe[p].c2s \o r.data
      <3>1. host.pipe[p].c2s \in Seq(ClientLines) /\ r.data \in Seq(ClientLines)
        BY <1>3, <2>3 DEF Pipes, Requests
      <3>2. host.pipe[p].c2s \o r.data \in Seq(ClientLines)
        BY <3>1
      <3> QED BY <2>3, <3>2 DEF Pipes
    <2> HIDE DEF p, q
    <2>6. Trusty(r) /\ host'.svc.ver = host.svc.ver /\ host'.env = host.env
      <3>1. CASE r.pipe # "ctrl"
        <4>1. Going(host, host')
          BY <2>2, <2>3, <2>4, <2>5, <3>1, PutPipeGoing
        <4> QED BY <1>4, <4>1, GoingTrusty
      <3>2. CASE r.pipe = "ctrl"
        <4>1. PICK k \in Conn : p = Ctrl(k)
          BY <2>2, <3>2, CtrlTarget
        <4>2. r.fnum \in OpenCtrl(smb.fid) /\ smb.fid[r.fnum] = Ctrl(k)
          BY <2>2, <3>2, <4>1 DEF OpenCtrl
        <4>3. Is(r, "write")
          BY <3>2 DEF Is
        <4>4. q.s2c = host.pipe[Ctrl(k)].s2c /\ q.c2s = host.pipe[Ctrl(k)].c2s \o r.data
          BY <2>5, <4>1
        <4>5. ASSUME NEW e, Reached(host, e, smb.fid), Untouched(host), Polite(r, e)
              PROVE  Faithful(host, PutPipe(host, Ctrl(k), q), e, smb.fid)
          BY <1>1, <1>3, <2>5, <4>2, <4>3, <4>4, <4>5, WriteFaithful
        <4>6. host' = PutPipe(host, Ctrl(k), q)
          BY <2>4, <4>1
        <4>7. Trusty(r)
          BY <1>4, <4>5, <4>6, Zenon DEF Trusty
        <4>8. host'.svc = host.svc /\ host'.env = host.env
          <5>1. p \in PipeId /\ host \in Hosts /\ q \in Pipes
            BY <2>2, <2>3, <2>5
          <5>2. PutPipe(host, p, q).svc = host.svc /\ PutPipe(host, p, q).env = host.env
            BY <5>1, PutPipeIs
          <5> QED BY <2>4, <5>2
        <4> QED BY <4>7, <4>8
      <3> QED BY <3>1, <3>2
    <2>7. Freed(smb.fid, smb'.fid, r) /\ OpenCtrl(smb'.fid) \subseteq OpenCtrl(smb.fid)
      BY <1>4 DEF Freed
    <2>8. "OK" \in {"OK", "OBJECT_NAME_NOT_FOUND", "ERROR"} /\ smb'.parked = smb.parked
      BY <1>4
    <2> QED BY <1>4, <2>1, <2>6, <2>7, <2>8, PlainVer
  <1>6. CASE ~(Target(r) # NoPipe /\ Connected(Target(r)))
    <2>1. Answer(r, "ERROR", NoMsg) /\ host' = host
      BY <1>6 DEF SmbWrite
    <2>2. "ERROR" \in {"OBJECT_NAME_NOT_FOUND", "ERROR"}
      OBVIOUS
    <2> QED BY <1>4, <2>1, <2>2, RefusedVer
  <1> QED BY <1>5, <1>6

LEMMA CloseVer ==
    ASSUME LInv, VInv, UNCHANGED <<ac, user>>, transport.wire # <<>>,
           transport' = [transport EXCEPT !.wire = Tail(@)],
           NEW r, r = Head(transport.wire), r.kind = "close", SmbClose(r)
    PROVE  VInv'
  <1>1. /\ transport \in Transports /\ HostOK(host) /\ ServerOK
        /\ Sequenced(transport, smb.parked, replies)
    BY ViewFields DEF LInv, Good, Views
  <1>2. transport' \in Transports /\ Taken(transport, transport')
    BY <1>1, TakenIs
  <1>3. r \in Requests /\ Addressed(r)
    BY <1>1, <1>2, WireFacts
  <1>4. CASE Target(r) # NoPipe
    <2> DEFINE p == Target(r)
               q == CloseEnd(host.pipe[p])
    <2>1. /\ host' = PutPipe(host, p, q)
          /\ smb' = [smb EXCEPT !.fid[r.fnum] = NoPipe]
          /\ Answer(r, "OK", NoMsg)
      BY <1>4 DEF SmbClose, PutPipe
    <2>2. p \in PipeId /\ r.fnum \in Fnum
      BY <1>1, <1>3, <1>4, TargetIs
    <2>3. host.pipe[p] \in Pipes /\ host \in Hosts
      BY <1>1, <2>2 DEF HostOK, Hosts
    <2>4. /\ q \in Pipes /\ q.c2s = host.pipe[p].c2s
          /\ q.s2c = host.pipe[p].s2c \/ q.s2c = <<>>
      BY <2>3, CloseEndIs
    <2>5. smb \in [fid : [Fnum -> PipeId \cup {NoPipe}], parked : SUBSET Requests]
      BY <1>1 DEF ServerOK
    <2> DEFINE F == [smb.fid EXCEPT ![r.fnum] = NoPipe]
    <2>6. smb' = [smb EXCEPT !.fid = F]
      BY <2>1, <2>5
    <2>7. F[r.fnum] = NoPipe /\ \A g \in Fnum : g # r.fnum => F[g] = smb.fid[g]
      BY <2>2, <2>5
    <2> HIDE DEF F, p, q
    <2>8. smb'.fid = F /\ smb'.parked = smb.parked
      BY <2>5, <2>6
    <2>9. Going(host, host')
      <3>1. \A i \in DOMAIN q.s2c : \E j \in DOMAIN host.pipe[p].s2c : q.s2c[i] = host.pipe[p].s2c[j]
        BY <2>4
      <3> QED BY <2>1, <2>2, <2>3, <2>4, <3>1, PutPipeGoing
    <2>10. \A f \in OpenCtrl(smb'.fid) : f \in OpenCtrl(smb.fid) /\ smb'.fid[f] = smb.fid[f]
      BY <2>7, <2>8, HandleFacts, Names DEF OpenCtrl
    <2>11. Trusty(r) /\ host'.svc.ver = host.svc.ver /\ host'.env = host.env
      BY <2>9, <2>10, GoingTrusty
    <2>12. Freed(smb.fid, smb'.fid, r) /\ OpenCtrl(smb'.fid) \subseteq OpenCtrl(smb.fid)
      BY <2>7, <2>8, <2>10 DEF Freed, OpenCtrl
    <2>13. "OK" \in {"OK", "OBJECT_NAME_NOT_FOUND", "ERROR"} /\ r.kind # "read"
      OBVIOUS
    <2> QED BY <2>1, <2>8, <2>11, <2>12, <2>13, PlainVer
  <1>5. CASE Target(r) = NoPipe
    <2>1. Answer(r, "ERROR", NoMsg) /\ host' = host /\ smb' = smb
      BY <1>5 DEF SmbClose
    <2>2. "ERROR" \in {"OBJECT_NAME_NOT_FOUND", "ERROR"}
      OBVIOUS
    <2> QED BY <1>5, <2>1, <2>2, RefusedVer
  <1> QED BY <1>4, <1>5

LEMMA OpenVer ==
    ASSUME LInv, VInv, UNCHANGED <<ac, user>>, transport.wire # <<>>,
           transport' = [transport EXCEPT !.wire = Tail(@)],
           NEW r, r = Head(transport.wire), r.kind = "open", SmbOpen(r)
    PROVE  VInv'
  <1>1. transport \in Transports /\ HostOK(host) /\ ServerOK
    BY ViewFields DEF LInv, Good, Views
  <1>2. r \in Requests /\ r.pipe \in Name
    <2>1. transport.wire \in Seq(Requests)
      BY <1>1 DEF Transports
    <2>2. r \in Requests
      BY <2>1
    <2> QED BY <2>2 DEF Requests
  <1>3. CASE /\ Answer(r, IF Exists(r.pipe) THEN "ERROR" ELSE "OBJECT_NAME_NOT_FOUND", NoMsg)
             /\ UNCHANGED <<host, smb>>
    <2> DEFINE status == IF Exists(r.pipe) THEN "ERROR" ELSE "OBJECT_NAME_NOT_FOUND"
    <2>1. status \in {"OBJECT_NAME_NOT_FOUND", "ERROR"}
      OBVIOUS
    <2>2. Answer(r, status, NoMsg)
      BY <1>3
    <2> HIDE DEF status
    <2>3. host' = host /\ smb' = smb /\ r.kind # "close"
      BY <1>3
    <2> QED BY <2>1, <2>2, <2>3, RefusedVer
  <1>4. ASSUME NEW p \in Listening(r.pipe), NEW f \in FnumFor(r.pipe),
               smb.fid[f] = NoPipe,
               smb' = [smb EXCEPT !.fid[f] = p],
               host' = IF r.pipe = "ctrl"
                       THEN [host EXCEPT !.nconn = @ + 1, !.svc.listening = FALSE,
                                         !.pipe[p].st = "connected",
                                         !.th[p[2]].pc = "accepted"]
                       ELSE [host EXCEPT !.pipe[p].st = "connected"],
               Send(<<Reply(r, "OK", f, NoMsg)>>)
        PROVE  VInv'
    <2>1. p \in PipeId /\ p[1] = r.pipe
      BY <1>2, <1>4, PipeNames DEF Listening
    <2>2. host \in Hosts /\ host.pipe[p] \in Pipes /\ host.svc \in Services
      BY <1>1, <2>1 DEF HostOK, Hosts
    <2> DEFINE q == [host.pipe[p] EXCEPT !.st = "connected"]
    <2>3. q \in Pipes
      BY <2>2 DEF Pipes, PipeStates
    <2>4. f \in Fnum /\ f \in Int
      BY <1>2, HandleFacts
    <2>5. smb \in [fid : [Fnum -> PipeId \cup {NoPipe}], parked : SUBSET Requests]
      BY <1>1 DEF ServerOK
    <2> DEFINE F == [smb.fid EXCEPT ![f] = p]
    <2>6. F[f] = p /\ \A g \in Fnum : g # f => F[g] = smb.fid[g]
      BY <2>4, <2>5
    <2>7. smb' = [smb EXCEPT !.fid = F]
      BY <1>4, <2>5
    <2> HIDE DEF F
    <2>8. smb'.fid = F /\ smb'.parked = smb.parked
      BY <2>5, <2>7
    <2> DEFINE e == Reply(r, "OK", f, NoMsg)
    <2>9. e \in Replies /\ e.mid = r.mid /\ e.status = "OK" /\ e.fnum = f
      <3>1. NoMsg \in Messages
        BY DEF NoMsg, Msg, Messages
      <3> QED BY <1>2, <2>4, <3>1, ReplyIs
    <2>10. Send(<<e>>)
      BY <1>4
    <2> HIDE DEF e
    <2>11. \A g \in FnumFor("ctrl") : g \in Fnum
      BY HandleFacts, Names
    <2>12. CASE r.pipe # "ctrl"
      <3>1. host' = PutPipe(host, p, q)
        BY <1>4, <2>1, <2>2, <2>12 DEF PutPipe, Hosts
      <3> HIDE DEF q
      <3>2. Going(host, host')
        BY <2>1, <2>2, <2>3, <2>12, <3>1, PutPipeGoing
      <3>3. f \notin FnumFor("ctrl")
        BY <1>2, <2>12, HandleFacts, Names
      <3>4. \A g \in FnumFor("ctrl") : smb'.fid[g] = smb.fid[g]
        BY <2>6, <2>8, <2>11, <3>3
      <3>5. \A g \in OpenCtrl(smb'.fid) : g \in OpenCtrl(smb.fid) /\ smb'.fid[g] = smb.fid[g]
        BY <3>4 DEF OpenCtrl
      <3>6. Trusty(r) /\ host'.svc.ver = host.svc.ver /\ host'.env = host.env
        BY <3>2, <3>5, GoingTrusty
      <3>7. Serves(smb.fid, smb'.fid, r, e)
        <4>1. OpenCtrl(smb'.fid) \subseteq OpenCtrl(smb.fid) /\ ~Is(r, "open") /\ r.kind # "close"
          BY <2>12, <3>5 DEF Is
        <4> QED BY <4>1 DEF Serves, Freed
      <3>8. r.kind # "read"
        OBVIOUS
      <3> QED BY <2>8, <2>9, <2>10, <3>6, <3>7, <3>8, AnswerVer
    <2>13. CASE r.pipe = "ctrl"
      <3>1. PICK k \in Conn : p = Ctrl(k) /\ k = host.nconn + 1
        BY <1>4, <2>13 DEF Listening
      <3>2. p[2] = k
        BY <3>1 DEF Ctrl
      <3> DEFINE g == [host EXCEPT !.nconn = @ + 1, !.svc.listening = FALSE,
                                   !.pipe[Ctrl(k)].st = "connected", !.th[k].pc = "accepted"]
      <3>3. host' = g
        BY <1>4, <2>13, <3>1, <3>2
      <3>4. smb'.fid[f] = Ctrl(k) /\ \A j \in FnumFor("ctrl") : j # f => smb'.fid[j] = smb.fid[j]
        BY <2>6, <2>8, <2>11, <3>1
      <3>5. ASSUME NEW b, Reached(host, b, smb.fid), Untouched(host)
            PROVE  Faithful(host, host', b, smb'.fid)
        <4>1. PICK v : v = host'
          OBVIOUS
        <4>2. v = g
          BY <3>3, <4>1
        <4>3. Faithful(host, v, b, smb'.fid)
          BY <1>1, <3>1, <3>4, <3>5, <4>2, OpenFaithful
        <4> QED BY <4>1, <4>3
      <3>6. Trusty(r)
        BY <3>5, Zenon DEF Trusty
      <3>7. host'.svc = [host.svc EXCEPT !.listening = FALSE] /\ host'.env = host.env
        BY <2>2, <3>3 DEF Hosts
      <3>8. host'.svc.ver = host.svc.ver
        BY <2>2, <3>7 DEF Services
      <3> HIDE DEF g
      <3>9. Is(r, "open") /\ r.kind # "close"
        BY <2>13 DEF Is
      <3>10. OpenCtrl(smb.fid) = {} => OpenCtrl(smb'.fid) \subseteq {f}
        BY <3>4 DEF OpenCtrl
      <3>11. Serves(smb.fid, smb'.fid, r, e)
        BY <2>9, <3>9, <3>10 DEF Serves, Freed
      <3>12. r.kind # "read"
        OBVIOUS
      <3> QED BY <2>8, <2>9, <2>10, <3>6, <3>7, <3>8, <3>11, <3>12, AnswerVer
    <2> QED BY <2>12, <2>13
  <1> QED BY <1>3, <1>4 DEF SmbOpen

\* A read of an open pipe waits at the server.
LEMMA ParkedState ==
    ASSUME NEW t \in Transports, t.wire # <<>>, NEW s, Taken(t, s), NEW q, q = Head(t.wire),
           NEW S, NEW F, NEW R, Sequenced(t, S, R), q.kind = "read",
           q.pipe = "ctrl" => q.fnum \in OpenCtrl(F), NEW p, p.mid = q.mid, p.status # "OK",
           Plus(R, R, p), NEW fd, NEW ver, NEW state, InState(t, fd, ver, state, S, F, R)
    PROVE  InState(s, fd, ver, state, S \cup {q}, F, R)
  <1>1. /\ 1 \in DOMAIN t.wire /\ q = t.wire[1] /\ s.pending_recv = t.pending_recv
        /\ \A i \in DOMAIN s.wire : i + 1 \in DOMAIN t.wire /\ s.wire[i] = t.wire[i + 1]
        /\ \A i \in DOMAIN t.wire : i \in Nat /\ i >= 1
    BY WireSplit
  <1>2. \A o \in t.pending_recv : o.mid = q.mid => o = q
    BY WireFacts
  <1>3. Freed(F, F, q)
    BY DEF Freed
  <1>4. ASSUME NEW r \in t.pending_recv, Is(r, "read"), Doomed(t, S, F, R, r)
        PROVE  Doomed(s, S \cup {q}, F, R, r)
    <2>1. Doomed(s, S, F, R, r)
      BY <1>3, <1>4, TakenDoomed
    <2>2. r # q
      <3> SUFFICES ASSUME r = q PROVE FALSE
        OBVIOUS
      <3>1. q.fnum \in OpenCtrl(F)
        BY <1>4 DEF Is
      <3>2. \E j \in DOMAIN t.wire : j < 1
        BY <1>1, <1>4, <3>1 DEF Doomed
      <3> QED BY <1>1, <3>2
    <2> QED BY <2>1, <2>2 DEF Doomed
  <1>5. Dooms(t, S, F, R, s, S \cup {q}, F, R)
    BY <1>1, <1>4 DEF Dooms
  <1>6. \A o \in t.pending_recv : o.mid = p.mid => ~Is(o, "open") /\ ~Is(o, "close")
    BY <1>2 DEF Is
  <1>7. \A i \in DOMAIN s.wire : \E j \in DOMAIN t.wire : s.wire[i] = t.wire[j]
    BY <1>1
  <1> QED BY <1>5, <1>6, <1>7, DoomsState

LEMMA ParkedCurrent ==
    ASSUME LInv, Current(View, smb.parked, smb.fid, replies),
           UNCHANGED <<ac, user, host, replies>>, transport.wire # <<>>,
           transport' = [transport EXCEPT !.wire = Tail(@)],
           NEW q, q = Head(transport.wire), q.kind = "read",
           smb'.parked = smb.parked \cup {q}, smb'.fid = smb.fid,
           q.pipe = "ctrl" => q.fnum \in OpenCtrl(smb.fid)
    PROVE  Current(View', smb'.parked, smb'.fid, replies')
  <1> DEFINE S == smb.parked
             F == smb.fid
             R == replies
             t == transport
             s == transport'
             e == user.state # "RUNNING"
             fd == ac["ctrl"].fd
             p == Reply(q, "ERROR", NULL, NoMsg)
  <1>1. /\ t \in Transports /\ Sequenced(t, S, R) /\ R \in Seq(Replies)
    BY ViewFields DEF LInv, Good, Views, ServerOK
  <1>2. Taken(t, s)
    BY <1>1, TakenIs
  <1>3. q \in Requests
    BY <1>1, <1>2, WireFacts
  <1>4. p \in Replies /\ p.mid = q.mid /\ p.status # "OK"
    <2>1. NULL \in Int /\ NoMsg \in Messages
      BY DEF NULL, NoMsg, Msg, Messages
    <2> QED BY <1>3, <2>1, ReplyIs
  <1>5. Honest(t, host, F, R, e) /\ InState(t, fd, host.svc.ver, user.state, S, F, R)
    BY ViewFields DEF Current
  <1>6. t.wire # <<>> /\ q = Head(t.wire) /\ (q.pipe = "ctrl" => q.fnum \in OpenCtrl(F))
    OBVIOUS
  <1>7. /\ View'.t = s /\ View'.h = host /\ View'.u = user /\ View'.ac = ac
        /\ smb'.parked = S \cup {q} /\ smb'.fid = F /\ replies' = R
    BY ViewFields
  <1> HIDE DEF S, F, R, t, s, e, fd, p
  <1>8. Plus(R, R, p)
    BY <1>1, <1>4, PlusAppend
  <1>9. InState(s, fd, host.svc.ver, user.state, S \cup {q}, F, R)
    BY <1>1, <1>2, <1>4, <1>5, <1>6, <1>8, ParkedState
  <1>10. /\ s.pending_recv = t.pending_recv
         /\ \A i \in DOMAIN s.wire : \E j \in DOMAIN t.wire : s.wire[i] = t.wire[j]
    BY <1>1, <1>2, <1>6, WireSplit
  <1>11. Reached(host, e, F) /\ Untouched(host)
    BY <1>5, HonestParts
  <1>12. Faithful(host, host, e, F)
    BY <1>11, StillGoing, GoingFaithful
  <1>13. \A r \in t.pending_recv : Is(r, "read") /\ p.mid = r.mid /\ p.status = "OK" =>
             Told(host, e, p.msg)
    BY <1>4
  <1>14. Honest(s, host, F, R, e)
    BY <1>5, <1>8, <1>10, <1>12, <1>13, TakenHonest
  <1> QED BY <1>7, <1>9, <1>14 DEF Current, e, fd

LEMMA ReadVer ==
    ASSUME LInv, VInv, UNCHANGED <<ac, user>>, transport.wire # <<>>,
           transport' = [transport EXCEPT !.wire = Tail(@)],
           NEW r, r = Head(transport.wire), r.kind = "read", SmbRead(r)
    PROVE  VInv'
  <1>1. /\ transport \in Transports /\ HostOK(host) /\ ServerOK
        /\ Sequenced(transport, smb.parked, replies)
    BY ViewFields DEF LInv, Good, Views
  <1>2. transport'.dead = transport.dead /\ Taken(transport, transport')
    BY <1>1, TakenIs
  <1>3. r \in Requests /\ Addressed(r)
    BY <1>1, <1>2, WireFacts
  <1>4. host' = host
    BY DEF SmbRead
  <1>5. CASE Target(r) = NoPipe
    <2>1. Answer(r, "ERROR", NoMsg) /\ smb' = smb /\ r.kind # "close"
      BY <1>5 DEF SmbRead
    <2>2. "ERROR" \in {"OBJECT_NAME_NOT_FOUND", "ERROR"}
      OBVIOUS
    <2> QED BY <1>4, <2>1, <2>2, RefusedVer
  <1>6. CASE Target(r) # NoPipe
    <2>1. smb' = [smb EXCEPT !.parked = @ \cup {r}] /\ replies' = replies
      BY <1>6 DEF SmbRead
    <2>2. smb \in [fid : [Fnum -> PipeId \cup {NoPipe}], parked : SUBSET Requests]
      BY <1>1 DEF ServerOK
    <2>3. smb'.fid = smb.fid /\ smb'.parked = smb.parked \cup {r}
      BY <2>1, <2>2
    <2>4. r.pipe = "ctrl" => r.fnum \in OpenCtrl(smb.fid)
      BY <1>1, <1>3, <1>6, TargetIs DEF OpenCtrl
    <2>5. Current(View, smb.parked, smb.fid, replies) =>
             Current(View', smb'.parked, smb'.fid, replies')
      BY <1>4, <2>1, <2>3, <2>4, ParkedCurrent
    <2> QED BY <1>2, <1>4, <2>5, ServerVer
  <1> QED BY <1>5, <1>6

LEMMA RequestVer ==
    ASSUME LInv, VInv, SmbRequest
    PROVE  VInv'
  BY OpenVer, ReadVer, WriteVer, CloseVer DEF SmbRequest

\* A parked read is answered with p.
LEMMA ReadAnswerCurrent ==
    ASSUME LInv, Alive, Current(View, smb.parked, smb.fid, replies),
           UNCHANGED <<ac, transport, user>>, NEW r \in smb.parked,
           smb'.parked = smb.parked \ {r}, smb'.fid = smb.fid, Going(host, host'),
           NEW p \in Replies, p.mid = r.mid, Send(<<p>>),
           \A e : Reached(host, e, smb.fid) /\ p.status = "OK" /\ r.pipe = "ctrl" =>
                     Told(host, e, p.msg)
    PROVE  Current(View', smb'.parked, smb'.fid, replies')
  <1> DEFINE S == smb.parked
             F == smb.fid
             R == replies
             P == replies'
             t == transport
             e == user.state # "RUNNING"
             fd == ac["ctrl"].fd
  <1>1. /\ t \in Transports /\ Sequenced(t, S, R) /\ R \in Seq(Replies) /\ r.kind = "read"
    BY ViewFields DEF LInv, Good, Views, ServerOK
  <1>2. Honest(t, host, F, R, e) /\ InState(t, fd, host.svc.ver, user.state, S, F, R)
    BY ViewFields DEF Current
  <1>3. P = Append(R, p)
    <2>1. P = R \o <<p>>
      BY DEF Send, Alive
    <2> QED BY <1>1, <2>1
  <1>4. Plus(R, P, p)
    BY <1>1, <1>3, PlusAppend
  <1>5. /\ View'.t = t /\ View'.h = host' /\ View'.u = user /\ View'.ac = ac
        /\ smb'.parked = S \ {r} /\ smb'.fid = F /\ r \in S
    BY ViewFields
  <1>6. /\ host'.svc.ver = host.svc.ver
    BY DEF Going, Kept
  <1>7. \A b : Reached(host, b, F) /\ p.status = "OK" /\ r.pipe = "ctrl" => Told(host, b, p.msg)
    OBVIOUS
  <1> HIDE DEF S, F, R, P, t, e, fd
  <1>8. \A o \in t.pending_recv : o.mid = p.mid => o = r
    BY <1>1, <1>5 DEF Sequenced, Known
  <1>9. ASSUME NEW v \in t.pending_recv, Is(v, "read"), Doomed(t, S, F, R, v)
        PROVE  Doomed(t, S \ {r}, F, P, v)
    <2>1. v \notin S /\ v.mid # p.mid
      BY <1>5, <1>8, <1>9 DEF Doomed
    <2>2. \A i \in DOMAIN P : P[i].mid = v.mid => P[i].status # "OK"
      BY <1>4, <1>9, <2>1 DEF Doomed, Plus
    <2> QED BY <1>9, <2>1, <2>2 DEF Doomed
  <1>10. Dooms(t, S, F, R, t, S \ {r}, F, P)
    BY <1>9 DEF Dooms
  <1>11. \A o \in t.pending_recv : o.mid = p.mid => ~Is(o, "open") /\ ~Is(o, "close")
    BY <1>1, <1>8 DEF Is
  <1>12. \A i \in DOMAIN t.wire : \E j \in DOMAIN t.wire : t.wire[i] = t.wire[j]
    OBVIOUS
  <1>13. InState(t, fd, host.svc.ver, user.state, S \ {r}, F, P)
    BY <1>2, <1>4, <1>10, <1>11, <1>12, DoomsState
  <1>14. Reached(host, e, F) /\ Untouched(host)
    BY <1>2, HonestParts
  <1>15. Faithful(host, host', e, F)
    BY <1>14, GoingFaithful
  <1>16. \A v \in t.pending_recv : Is(v, "read") /\ p.mid = v.mid /\ p.status = "OK" =>
             Told(host, e, p.msg)
    <2> SUFFICES ASSUME NEW v \in t.pending_recv, Is(v, "read"), p.mid = v.mid, p.status = "OK"
                 PROVE  Told(host, e, p.msg)
      OBVIOUS
    <2>1. r.pipe = "ctrl"
      BY <1>8 DEF Is
    <2> QED BY <1>7, <1>14, <2>1
  <1>17. Honest(t, host', F, P, e)
    BY <1>2, <1>4, <1>12, <1>15, <1>16, TakenHonest
  <1> QED BY <1>5, <1>6, <1>13, <1>17 DEF Current, P, e, fd

LEMMA ReadAnswerVer ==
    ASSUME LInv, VInv, UNCHANGED <<ac, transport, user>>, NEW r \in smb.parked,
           smb' = [smb EXCEPT !.parked = @ \ {r}], Going(host, host'),
           NEW p \in Replies, p.mid = r.mid, Send(<<p>>),
           \A e : Reached(host, e, smb.fid) /\ p.status = "OK" /\ r.pipe = "ctrl" =>
                     Told(host, e, p.msg)
    PROVE  VInv'
  <1>1. smb \in [fid : [Fnum -> PipeId \cup {NoPipe}], parked : SUBSET Requests]
    BY DEF LInv, ServerOK
  <1>2. smb'.fid = smb.fid /\ smb'.parked = smb.parked \ {r}
    BY <1>1
  <1>3. Alive /\ Current(View, smb.parked, smb.fid, replies) =>
           Current(View', smb'.parked, smb'.fid, replies')
    BY <1>2, ReadAnswerCurrent
  <1>4. host'.env = host.env /\ host'.svc.ver = host.svc.ver
    BY DEF Going, Kept
  <1> QED BY <1>3, <1>4, ServerVer

LEMMA ReadDoneVer ==
    ASSUME LInv, VInv, SmbReadDone
    PROVE  VInv'
  <1>1. transport \in Transports /\ HostOK(host) /\ ServerOK
    BY ViewFields DEF LInv, Good, Views
  <1>2. UNCHANGED <<ac, transport, user>>
    BY DEF SmbReadDone
  <1>3. PICK r \in smb.parked :
           /\ smb' = [smb EXCEPT !.parked = @ \ {r}]
           /\ \/ /\ host.pipe[Target(r)].s2c # <<>>
                 /\ host' = [host EXCEPT !.pipe[Target(r)].s2c = Tail(@)]
                 /\ Answer(r, "OK", Head(host.pipe[Target(r)].s2c))
              \/ Answer(r, "ERROR", NoMsg) /\ UNCHANGED host
    BY DEF SmbReadDone
  <1>4. r \in Requests /\ Addressed(r) /\ r.kind = "read" /\ r.fnum \in Fnum
        /\ smb.fid[r.fnum] # NoPipe
    BY <1>1, ServerTypes DEF ServerOK
  <1>5. Target(r) # NoPipe
    BY <1>4 DEF Target
  <1>6. /\ Target(r) \in PipeId /\ Target(r)[1] = r.pipe /\ r.fnum \in FnumFor(r.pipe)
        /\ Target(r) = smb.fid[r.fnum]
    BY <1>1, <1>4, <1>5, TargetIs
  <1>7. NoMsg \in Messages /\ NULL \in Int
    BY DEF NoMsg, Msg, Messages, NULL
  <1>8. CASE Answer(r, "ERROR", NoMsg) /\ UNCHANGED host
    <2> DEFINE e == Reply(r, "ERROR", NULL, NoMsg)
    <2>1. e \in Replies /\ e.mid = r.mid /\ e.status = "ERROR"
      BY <1>4, <1>7, ReplyIs
    <2>2. Send(<<e>>)
      BY <1>8 DEF Answer
    <2> HIDE DEF e
    <2>3. Going(host, host')
      BY <1>8, StillGoing
    <2>4. \A b : Reached(host, b, smb.fid) /\ e.status = "OK" /\ r.pipe = "ctrl" =>
                    Told(host, b, e.msg)
      BY <2>1
    <2> QED BY <1>2, <1>3, <2>1, <2>2, <2>3, <2>4, ReadAnswerVer
  <1>9. CASE /\ host.pipe[Target(r)].s2c # <<>>
             /\ host' = [host EXCEPT !.pipe[Target(r)].s2c = Tail(@)]
             /\ Answer(r, "OK", Head(host.pipe[Target(r)].s2c))
    <2> DEFINE p == Target(r)
               s == host.pipe[p].s2c
               q == [host.pipe[p] EXCEPT !.s2c = Tail(@)]
               e == Reply(r, "OK", NULL, Head(s))
    <2>1. p \in PipeId /\ p[1] = r.pipe /\ p = smb.fid[r.fnum]
      BY <1>6
    <2>2. host.pipe[p] \in Pipes /\ host \in Hosts
      BY <1>1, <2>1 DEF HostOK, Hosts
    <2>3. s \in Seq(Messages) /\ s # <<>>
      BY <1>9, <2>2 DEF Pipes
    <2>4. Head(s) \in Messages /\ Tail(s) \in Seq(Messages)
      BY <2>3
    <2>5. host' = PutPipe(host, p, q)
      BY <1>9, <2>1, <2>2 DEF PutPipe, Hosts
    <2>6. Answer(r, "OK", Head(s))
      BY <1>9
    <2> HIDE DEF p
    <2>7. q \in Pipes /\ q.c2s = host.pipe[p].c2s /\ q.s2c = Tail(s)
      BY <2>2, <2>4 DEF Pipes
    <2>8. s = host.pipe[p].s2c
      OBVIOUS
    <2> HIDE DEF s, q
    <2>9. /\ \A i \in DOMAIN Tail(s) : i + 1 \in DOMAIN s /\ Tail(s)[i] = s[i + 1]
          /\ 1 \in DOMAIN s /\ Head(s) = s[1]
      BY <2>3
    <2>10. \A i \in DOMAIN q.s2c : \E j \in DOMAIN host.pipe[p].s2c : q.s2c[i] = host.pipe[p].s2c[j]
      BY <2>7, <2>8, <2>9
    <2>11. Going(host, host')
      BY <2>1, <2>2, <2>5, <2>7, <2>10, PutPipeGoing
    <2>12. e \in Replies /\ e.mid = r.mid /\ e.status = "OK" /\ e.msg = Head(s)
      BY <1>4, <1>7, <2>4, ReplyIs
    <2>13. Send(<<e>>)
      BY <2>6 DEF Answer
    <2> HIDE DEF e
    <2>14. ASSUME NEW b, Reached(host, b, smb.fid), r.pipe = "ctrl" PROVE Told(host, b, e.msg)
      <3>1. PICK k \in Conn : p = Ctrl(k)
        BY <2>1, <2>14, CtrlTarget
      <3>2. r.fnum \in OpenCtrl(smb.fid) /\ smb.fid[r.fnum] = Ctrl(k)
        BY <1>4, <1>6, <2>1, <2>14, <3>1 DEF OpenCtrl
      <3>3. Fine(host, b, k)
        BY <2>14, <3>2 DEF Reached
      <3>4. 1 \in DOMAIN host.pipe[Ctrl(k)].s2c /\ e.msg = host.pipe[Ctrl(k)].s2c[1]
        BY <2>8, <2>9, <2>12, <3>1
      <3> QED BY <3>3, <3>4, Zenon DEF Fine
    <2> QED BY <1>2, <1>3, <2>11, <2>12, <2>13, <2>14, ReadAnswerVer
  <1> QED BY <1>3, <1>8, <1>9

LEMMA SessionDownVer ==
    ASSUME LInv, VInv, SmbSessionDown
    PROVE  VInv'
  <1>1. transport \in Transports /\ host \in Hosts
    BY ViewFields DEF LInv, Good, Views, HostOK
  <1>2. /\ ~Alive \/ transport.dead
        /\ transport' = [transport EXCEPT !.wire = <<>>] /\ UNCHANGED <<ac, user>>
    BY DEF SmbSessionDown
  <1> DEFINE P == [p \in PipeId |-> IF \E f \in Fnum : smb.fid[f] = p THEN CloseEnd(host.pipe[p])
                                                                     ELSE host.pipe[p]]
  <1>3. host' = [host EXCEPT !.pipe = P]
    BY DEF SmbSessionDown
  <1> HIDE DEF P
  <1>4. host'.env = host.env /\ host'.svc = host.svc
    BY <1>1, <1>3 DEF Hosts
  <1>5. transport'.dead = transport.dead
    BY <1>1, <1>2 DEF Transports
  <1> QED BY <1>2, <1>4, <1>5, ServerVer

LEMMA HostVer ==
    ASSUME LInv, VInv, Host
    PROVE  VInv'
  <1>1. UNCHANGED <<ac, transport, user, smb, replies>>
    BY DEF Host, server_loop_listen, Thread, ProcessWrite, ProcessExit, ServiceDies,
       server_loop_accept, handle_connection, hprintf_flushed, get_token, create_pipes,
       connect_pio, connect_perr, connect, create_process, wait_for_process, flush_pio,
       flush_perr, disconnect, finish, HostOnly
  <1>2. Going(host, host')
    BY ViewFields, HostGoing DEF LInv, Good
  <1>3. host'.env = host.env /\ host'.svc.ver = host.svc.ver
    BY <1>2 DEF Going, Kept
  <1>4. /\ View'.t = View.t /\ View'.u = View.u /\ View'.ac = View.ac
        /\ Going(View.h, View'.h)
    BY <1>1, <1>2, ViewFields
  <1>5. Current(View, smb.parked, smb.fid, replies) =>
           Current(View', smb'.parked, smb'.fid, replies')
    BY <1>1, <1>4, GoingCurrent
  <1> QED BY <1>1, <1>3, <1>5, ServerVer

LEMMA InitVer ==
    ASSUME Init
    PROVE  VInv
  <1>1. PICK x : /\ Good(x, {}, <<>>) /\ Opens(x, View, "ctrl")
                 /\ x.t = smbcli_transport_init /\ x.u = InitUser /\ x.h = host
    BY FirstOpen
  <1>2. /\ user = InitUser /\ replies = <<>> /\ smb.parked = {}
        /\ smb.fid = [f \in Fnum |-> NoPipe]
    BY FirstOpen
  <1>3. x.t.pending_recv = {} /\ x.t.wire = <<>> /\ ~x.t.dead
    BY <1>1 DEF smbcli_transport_init
  <1>4. user.state = "OPENING" /\ ~user.abort_requested
    BY <1>2 DEF InitUser
  <1>5. Online(x, {}, <<>>)
    BY <1>1, <1>3 DEF Online, Server
  <1>6. OpenCtrl(smb.fid) = {}
    BY <1>2, HandleFacts, Names DEF OpenCtrl
  <1>7. Untouched(host)
    <2>1. PICK env, svc : host = InitHost(env, svc)
      BY DEF Init
    <2>2. host.pipe = [p \in PipeId |-> [st |-> "none", c2s |-> <<>>, s2c |-> <<>>]]
      BY <2>1 DEF InitHost
    <2>3. \A k \in Conn : host.pipe[Ctrl(k)].c2s = <<>>
      BY <2>2, PipeNames
    <2> QED BY <2>3 DEF Untouched
  <1>8. Honest(x.t, host, smb.fid, <<>>, TRUE)
    BY <1>3, <1>6, <1>7 DEF Honest, Awaited, Asks, Heard, Reached
  <1>9. AllDoomed(x.t, {}, smb.fid, <<>>) /\ None(x.t, "open") /\ None(x.t, "close")
    BY <1>3 DEF AllDoomed, None
  <1>10. Vacant(x, host, {}, smb.fid, <<>>)
    BY <1>1, <1>6, <1>7, <1>8, <1>9 DEF Vacant
  <1>11. x.u.state = "OPENING"
    BY <1>1, <1>2, <1>4
  <1>12. Current(View, {}, smb.fid, <<>>)
    BY <1>1, <1>5, <1>10, <1>11, ReopenCurrent
  <1>13. Differs(user, host)
    BY <1>4 DEF Differs
  <1> QED BY <1>2, <1>4, <1>12, <1>13 DEF VInv

LEMMA NextVer ==
    ASSUME LInv, TInv, VInv, [Next]_vars
    PROVE  VInv'
  <1>1. CASE UNCHANGED vars
    BY <1>1 DEF vars, VInv, View, Alive
  <1> QED BY <1>1, ClientVer, RequestVer, ReadDoneVer, SessionDownVer, HostVer
          DEF Next, SmbServer

\* Behind ReplacedOnlyIfVersionDiffers: without signals, what is in a control
\* pipe or on its way back is what the installed service says of itself, and a
\* read sent on an earlier connection is never answered with data.
THEOREM Answers == Spec => []VInv
  <1>1. Init => VInv
    BY InitVer
  <1>2. LInv /\ TInv /\ VInv /\ [Next]_vars => VInv'
    BY NextVer
  <1> QED BY <1>1, <1>2, Ordered, Timeouts, PTL DEF Spec

\* winexe/changes, 0.80: "winexesvc is replaced only if version differs on more
\* than last digit": unless a signal makes the client send "abort", it closes
\* the control pipe for a reinstall only when the service that is installed
\* has another version, although on_ctrl_pipe_read takes any "error" in
\* STATE_GETTING_VERSION for the answer of an old service, and a read of the
\* closed connection may still be pending when the new one asks.
THEOREM Replacement ==
    Spec => []("signal" \notin host.env.faults => ReplacedOnlyIfVersionDiffers)
  <1>1. VInv => ("signal" \notin host.env.faults => ReplacedOnlyIfVersionDiffers)
    BY DEF VInv, Differs, SameVersion, ReplacedOnlyIfVersionDiffers
  <1> QED BY <1>1, Answers, PTL
=============================================================================
