--------------------------- MODULE ServiceProofs ---------------------------
(***************************************************************************)
(* Proofs about Service, for any number of connections and restarts and    *)
(* any number space: type correctness, NumberFree and OwnPipes.            *)
(***************************************************************************)
EXTENDS Service, TLAPS

Loops == {"create", "listen", "connected", "ended", "stopped"}

\* What a thread has not reached it has not done.
Unborn == {"accepted", "hgets", "get_token", "create_io"}

NotYet(c) ==
    /\ c.pc \in Unborn => \A s \in Side : c.pipe[s].held = {}
    /\ c.pc = "create_err" => c.pipe["err"].held = {}
    /\ c.pc \in Unborn \cup {"create_err", "std_io_err"} => ~c.told

\* A connection that has, or may get, pipes or whose client was told of them
\* has a number (0 is the one of none).
Numbered(c) ==
    (c.told \/ c.pc \notin {"accepted", "done"} \/ \E s \in Side : c.pipe[s].held # {}) =>
        c.nr # 0

\* The pipe is waiting for its client.
Waiting(c, s) == c.pipe[s].st = "listening" /\ SvcProcess \in c.pipe[s].held

\* Connection k of a service that is never stopped: its pipes wait for its
\* client as long as that has not opened them, and only it is connected to them.
Single(k, c) ==
    /\ ~c.told => c.opened = {}
    /\ \A s \in Side :
          /\ c.pipe[s].st = "connected" => c.pipe[s].peer = k /\ s \in c.opened
          /\ c.pipe[s].st = "broken" => c.client = "gone"
          /\ c.told /\ c.client = "up" /\ s \notin c.opened => Waiting(c, s)
    /\ c.pc = "create_err" => Waiting(c, "io")
    /\ c.pc = "std_io_err" => Waiting(c, "io") /\ Waiting(c, "err")
    /\ c.pc \in {"connect_io", "connect_err"} =>
          c.told /\ \A s \in Side : c.pipe[s].st \in {"listening", "connected", "broken"}
    /\ c.pc = "connect_err" => "io" \in c.opened
    /\ c.pc \in {"inherit", "create_process", "wait", "return_code"} => c.opened = Side

\* Only its own client is connected to the pipes of connection k.
Owned(k, c) == \A s \in Side : c.pipe[s].st = "connected" => c.pipe[s].peer = k

Good(k, c) ==
    /\ c \in Connections
    /\ NotYet(c)
    /\ NumbersSuffice => Numbered(c) /\ Owned(k, c)
    /\ env.starts = 1 => Single(k, c)

\* A name has one instance, and numbers that suffice are given once.
Apart(c, d) ==
    /\ \A s \in Side : c.pipe[s].held # {} /\ d.pipe[s].held # {} => c.nr # d.nr
    /\ NumbersSuffice /\ c.nr = d.nr => c.nr = 0

Counted ==
    /\ env \in Scenarios
    /\ svc \in [pid : 1 .. env.starts, conn_number : 0 .. MaxConn, loop : Loops]
    /\ Len(conn) <= env.conns
    /\ svc.conn_number <= Len(conn)
    /\ svc.loop = "listen" => Len(conn) < env.conns
    /\ svc.loop = "connected" =>
          /\ Len(conn) > 0 /\ svc.conn_number < Len(conn)
          /\ conn[Len(conn)].pc = "accepted"

\* Numbers are handed out in ascending order.
Ascending ==
    NumbersSuffice =>
        \A k \in DOMAIN conn : conn[k].nr <= svc.pid * env.connSpace + svc.conn_number

\* The inductive invariant.
IInv ==
    /\ Counted
    /\ conn \in Seq(Connections)
    /\ \A k \in DOMAIN conn : Good(k, conn[k])
    /\ \A j, k \in DOMAIN conn : j # k => Apart(conn[j], conn[k])
    /\ Ascending

-----------------------------------------------------------------------------
\* What the assumptions say of the scenario of a behaviour.
LEMMA EnvFacts ==
    ASSUME env \in Scenarios
    PROVE  /\ env.conns \in 0 .. MaxConn /\ env.starts \in 1 .. MaxStarts
           /\ env.connSpace \in Nat \ {0} /\ env.nrSpace \in Nat \ {0}
           /\ MaxConn \in Nat /\ MaxStarts \in Nat
           /\ env.conns \in Nat /\ env.starts \in Nat
  BY BoundsAssumption, ScenariosAssumption DEF Scenario

\* Good and Apart look at the scenario only.
LEMMA SameEnv ==
    ASSUME UNCHANGED env
    PROVE  /\ \A k, c : Good(k, c)' <=> Good(k, c)
           /\ NumbersSuffice' <=> NumbersSuffice
           /\ Connections' = Connections
  BY DEF Good, NumbersSuffice, Connections

\* The step from c to d gives no name to a pipe.
Kept(c, d) ==
    /\ d.nr = c.nr
    /\ \A s \in Side : d.pipe[s].held # {} => c.pipe[s].held # {}
    /\ c.pc = "accepted" => d.pc = "accepted"

\* A step of threads or clients preserves the invariant if it does for each
\* connection and creates no pipe.
LEMMA AllUpdated ==
    ASSUME IInv, UNCHANGED <<env, svc>>,
           conn' \in Seq(Connections), Len(conn') = Len(conn),
           \A j \in DOMAIN conn : Good(j, conn'[j]) /\ Kept(conn[j], conn'[j])
    PROVE  IInv'
  <1>1. /\ DOMAIN conn' = DOMAIN conn /\ DOMAIN conn = 1 .. Len(conn)
        /\ Len(conn) \in Nat
    BY DEF IInv
  <1>2. Counted'
    BY <1>1 DEF IInv, Counted, Kept
  <1>3. \A k \in DOMAIN conn' : Good(k, conn[k])'
    BY <1>1 DEF Good, NumbersSuffice, Connections
  <1>4. ASSUME NEW j \in DOMAIN conn, NEW k \in DOMAIN conn, j # k
        PROVE  Apart(conn[j], conn[k])' 
    <2>1. Apart(conn[j], conn[k])
      BY <1>4 DEF IInv
    <2> QED BY <2>1, SameEnv DEF Apart, Kept
  <1>5. Ascending'
    BY <1>1, SameEnv DEF IInv, Ascending, Kept
  <1>6. conn' \in Seq(Connections)'
    BY SameEnv
  <1> QED BY <1>1, <1>2, <1>3, <1>4, <1>5, <1>6 DEF IInv

\* The same for a step of one thread or client, which may create a pipe if
\* there is none of its name.
LEMMA OneUpdated ==
    ASSUME IInv, UNCHANGED <<env, svc>>, NEW k \in DOMAIN conn, NEW c,
           conn' = [conn EXCEPT ![k] = c], Good(k, c), c.nr = conn[k].nr,
           conn[k].pc = "accepted" => c.pc = "accepted",
           \A s \in Side : c.pipe[s].held # {} =>
               conn[k].pipe[s].held # {} \/ NameFree(s, conn[k].nr)
    PROVE  IInv'
  <1>1. /\ conn \in Seq(Connections) /\ c \in Connections
        /\ DOMAIN conn = 1 .. Len(conn) /\ Len(conn) \in Nat
    BY DEF IInv, Good
  <1>2. /\ conn' \in Seq(Connections) /\ Len(conn') = Len(conn)
        /\ DOMAIN conn' = DOMAIN conn
        /\ conn'[k] = c /\ \A j \in DOMAIN conn : j # k => conn'[j] = conn[j]
    BY <1>1
  <1>3. Counted'
    BY <1>1, <1>2 DEF IInv, Counted
  <1>4. \A j \in DOMAIN conn' : Good(j, conn[j])'
    <2>1. \A j \in DOMAIN conn' : Good(j, conn'[j])
      BY <1>2 DEF IInv
    <2> QED BY <2>1 DEF Good, NumbersSuffice, Connections
  <1>5. ASSUME NEW j \in DOMAIN conn, j # k
        PROVE  Apart(conn[j], c) /\ Apart(c, conn[j])
    <2>1. Apart(conn[j], conn[k])
      BY <1>5 DEF IInv
    <2>2. \A s \in Side : NameFree(s, conn[k].nr) =>
              ~(conn[j].nr = conn[k].nr /\ conn[j].pipe[s].held # {})
      BY DEF NameFree, Instances
    <2> QED BY <2>1, <2>2 DEF Apart
  <1>6. \A i, j \in DOMAIN conn' : i # j => Apart(conn'[i], conn'[j])
    BY <1>2, <1>5 DEF IInv
  <1>7. \A i, j \in DOMAIN conn' : i # j => Apart(conn[i], conn[j])'
    BY <1>6, SameEnv DEF Apart
  <1>8. Ascending'
    BY <1>2, SameEnv DEF IInv, Ascending
  <1>9. conn' \in Seq(Connections)'
    BY <1>2, SameEnv
  <1> QED BY <1>3, <1>4, <1>7, <1>8, <1>9 DEF IInv

LEMMA OneKept ==
    ASSUME IInv, UNCHANGED <<env, svc>>, NEW k \in DOMAIN conn, NEW c,
           conn' = [conn EXCEPT ![k] = c], Good(k, c), Kept(conn[k], c)
    PROVE  IInv'
  BY OneUpdated DEF Kept

-----------------------------------------------------------------------------
\* A step of a thread that leaves its pipes alone.
LEMMA PlainStep ==
    ASSUME IInv, UNCHANGED env, NEW k \in DOMAIN conn, NEW pc \in Pc, NEW to \in Pc,
           Step(k, pc, To(k, to)), pc # "accepted", Good(k, To(k, to))
    PROVE  IInv'
  <1>1. conn[k] \in Connections
    BY DEF IInv, Good
  <1>2. /\ To(k, to).nr = conn[k].nr /\ To(k, to).pipe = conn[k].pipe
    BY <1>1 DEF To, Connections
  <1>3. /\ conn[k].pc # "accepted" /\ UNCHANGED <<env, svc>>
        /\ conn' = [conn EXCEPT ![k] = To(k, to)]
    BY DEF Step
  <1>4. \A s \in Side : To(k, to).pipe[s].held # {} => conn[k].pipe[s].held # {}
    BY <1>2
  <1> HIDE DEF To
  <1> QED BY <1>2, <1>3, <1>4, OneUpdated

\* hgets, get_token, the successful connects and the end of the thread.
LEMMA PlainInv ==
    ASSUME IInv, UNCHANGED env, NEW k \in DOMAIN conn,
           hgets(k) \/ get_token(k) \/ finish(k)
    PROVE  IInv'
  <1>1. conn[k] \in Connections /\ Good(k, conn[k])
    BY DEF IInv, Good
  <1>2. ASSUME conn[k].pc = "hgets", NEW to \in {"get_token", "finish"}
        PROVE  Good(k, To(k, to))
    BY <1>1, <1>2 DEF Good, To, NotYet, Numbered, Owned, Single, Waiting,
              Connections, Unborn, Pc
  <1>3. ASSUME conn[k].pc = "get_token", NEW to \in {"create_io", "finish"}
        PROVE  Good(k, To(k, to))
    BY <1>1, <1>3 DEF Good, To, NotYet, Numbered, Owned, Single, Waiting,
              Connections, Unborn, Pc
  <1>4. ASSUME conn[k].pc = "finish"
        PROVE  Good(k, To(k, "done"))
    BY <1>1, <1>4 DEF Good, To, NotYet, Numbered, Owned, Single, Waiting,
              Connections, Unborn, Pc
  <1>5. CASE hgets(k)
    BY <1>2, <1>5, PlainStep DEF hgets, Step, Pc
  <1>6. CASE get_token(k)
    BY <1>3, <1>6, PlainStep DEF get_token, Step, Pc
  <1>7. CASE finish(k)
    BY <1>4, <1>7, PlainStep DEF finish, Step, Pc
  <1> QED BY <1>5, <1>6, <1>7

-----------------------------------------------------------------------------
\* Disconnecting and closing both pipes.
LEMMA Closed ==
    ASSUME NEW c \in Connections
    PROVE  LET d == CloseAll(c)
           IN  /\ d \in Connections /\ d.pc = "finish" /\ d.nr = c.nr /\ d.told = c.told
               /\ d.client = c.client /\ d.opened = c.opened
               /\ \A s \in Side :
                     /\ d.pipe[s].held \subseteq c.pipe[s].held
                     /\ d.pipe[s].peer = c.pipe[s].peer
                     /\ d.pipe[s].st = c.pipe[s].st \/ d.pipe[s].st = "disconnected"
  <1> DEFINE P == [s \in Side |-> CloseHandle(Disconnect(c.pipe[s]), SvcProcess)]
  <1>1. ASSUME NEW s \in Side
        PROVE  /\ P[s] \in Pipes /\ P[s].held \subseteq c.pipe[s].held
               /\ P[s].peer = c.pipe[s].peer
               /\ P[s].st = c.pipe[s].st \/ P[s].st = "disconnected"
    <2>1. c.pipe[s] \in Pipes
      BY DEF Connections
    <2> QED BY <2>1 DEF CloseHandle, Disconnect, Pipes
  <1>2. P \in [Side -> Pipes]
    BY <1>1
  <1>3. CloseAll(c) = [c EXCEPT !.pc = "finish", !.pipe = P]
    BY DEF CloseAll
  <1> HIDE DEF P
  <1>4. CloseAll(c) \in Connections
    BY <1>2, <1>3 DEF Connections, Pc
  <1>5. /\ CloseAll(c).pc = "finish" /\ CloseAll(c).nr = c.nr
        /\ CloseAll(c).told = c.told /\ CloseAll(c).client = c.client
        /\ CloseAll(c).opened = c.opened /\ CloseAll(c).pipe = P
    BY <1>3 DEF Connections
  <1> QED BY <1>1, <1>4, <1>5

\* A thread may close its pipes if no client is on its way to them.
LEMMA ClosedInv ==
    ASSUME IInv, UNCHANGED env, NEW k \in DOMAIN conn, NEW pc \in Pc \ {"accepted", "done"},
           Step(k, pc, CloseAll(conn[k])),
           env.starts = 1 =>
               ~conn[k].told \/ conn[k].client = "gone" \/ conn[k].opened = Side
    PROVE  IInv'
  <1> DEFINE d == CloseAll(conn[k])
  <1>1. conn[k] \in Connections /\ Good(k, conn[k])
    BY DEF IInv, Good
  <1>2. /\ d \in Connections /\ d.pc = "finish" /\ d.nr = conn[k].nr
        /\ d.told = conn[k].told /\ d.client = conn[k].client
        /\ d.opened = conn[k].opened
        /\ \A s \in Side :
              /\ d.pipe[s].held \subseteq conn[k].pipe[s].held
              /\ d.pipe[s].peer = conn[k].pipe[s].peer
              /\ d.pipe[s].st = conn[k].pipe[s].st \/ d.pipe[s].st = "disconnected"
    BY <1>1, Closed
  <1>3. /\ conn[k].pc \notin {"accepted", "done"} /\ UNCHANGED <<env, svc>>
        /\ conn' = [conn EXCEPT ![k] = d]
    BY DEF Step
  <1> HIDE DEF d
  <1>4. NotYet(d)
    BY <1>2 DEF NotYet, Unborn
  <1>5. NumbersSuffice => Numbered(d) /\ Owned(k, d)
    BY <1>1, <1>2, <1>3 DEF Good, Numbered, Owned
  <1>6. env.starts = 1 => Single(k, d)
    BY <1>1, <1>2 DEF Good, Single, Connections
  <1>7. Good(k, d)
    BY <1>2, <1>4, <1>5, <1>6 DEF Good
  <1> QED BY <1>2, <1>3, <1>7, OneUpdated

\* CreateNamedPipe.
LEMMA CreateInv ==
    ASSUME IInv, UNCHANGED env, NEW k \in DOMAIN conn, create_io(k) \/ create_err(k)
    PROVE  IInv'
  <1>1. conn[k] \in Connections /\ Good(k, conn[k])
    BY DEF IInv, Good
  <1>2. ASSUME conn[k].pc \in {"create_io", "create_err"}
        PROVE  ~conn[k].told
    BY <1>1, <1>2 DEF Good, NotYet, Unborn
  <1>3. Created \in Pipes /\ Created.st = "listening" /\ SvcProcess \in Created.held
    <2>1. SvcProcess \in 0 .. MaxConn
      BY BoundsAssumption DEF SvcProcess
    <2>2. {SvcProcess} \in SUBSET (0 .. MaxConn) /\ 0 \in 0 .. MaxConn
      BY <2>1 DEF SvcProcess
    <2>3. NoPipe \in Pipes
      BY <2>2 DEF NoPipe, Pipes
    <2> QED BY <2>2, <2>3 DEF Created, Pipes
  <1>4. ASSUME NEW from \in {"create_io", "create_err"}, NEW s \in Side, NEW next \in Pc,
               NameFree(s, conn[k].nr),
               Step(k, from, [To(k, next) EXCEPT !.pipe[s] = Created]),
               \/ from = "create_io" /\ s = "io" /\ next = "create_err"
               \/ from = "create_err" /\ s = "err" /\ next = "std_io_err"
        PROVE  IInv'
    <2> DEFINE d == [To(k, next) EXCEPT !.pipe[s] = Created]
    <2>1. /\ d \in Connections /\ d.nr = conn[k].nr /\ d.pc = next
          /\ d.told = conn[k].told /\ d.opened = conn[k].opened
          /\ d.client = conn[k].client
          /\ d.pipe[s] = Created
          /\ \A z \in Side : z # s => d.pipe[z] = conn[k].pipe[z]
      BY <1>1, <1>3 DEF To, Connections
    <2>2. /\ conn[k].pc = from /\ UNCHANGED <<env, svc>>
          /\ conn' = [conn EXCEPT ![k] = d]
      BY <1>4 DEF Step
    <2> HIDE DEF d
    <2>3. NotYet(d)
      BY <1>1, <1>4, <2>1, <2>2 DEF Good, NotYet, Unborn, Side
    <2>4. NumbersSuffice => Numbered(d) /\ Owned(k, d)
      BY <1>1, <1>3, <1>4, <2>1, <2>2 DEF Good, Numbered, Owned
    <2>5. env.starts = 1 => Single(k, d)
      BY <1>1, <1>2, <1>3, <1>4, <2>1, <2>2 DEF Good, Single, Waiting, Side
    <2>6. Good(k, d)
      BY <2>1, <2>3, <2>4, <2>5 DEF Good
    <2>7. \A z \in Side : d.pipe[z].held # {} =>
              conn[k].pipe[z].held # {} \/ NameFree(z, conn[k].nr)
      BY <1>4, <2>1
    <2>8. conn[k].pc # "accepted"
      BY <2>2
    <2> QED BY <2>1, <2>2, <2>6, <2>7, <2>8, OneUpdated
  <1>5. ASSUME NEW from \in {"create_io", "create_err"},
               Step(k, from, CloseAll(conn[k]))
        PROVE  IInv'
    BY <1>2, <1>5, ClosedInv DEF Step, Pc
  <1> QED BY <1>4, <1>5 DEF create_io, create_err, create_pipe, Pc, Side

\* The client is told the number: from now on its pipes wait for it.
LEMMA ToldInv ==
    ASSUME IInv, UNCHANGED env, NEW k \in DOMAIN conn, std_io_err(k)
    PROVE  IInv'
  <1> DEFINE d == [To(k, "connect_io") EXCEPT !.told = TRUE]
  <1>1. conn[k] \in Connections /\ Good(k, conn[k])
    BY DEF IInv, Good
  <1>2. /\ d \in Connections /\ d.nr = conn[k].nr /\ d.pc = "connect_io" /\ d.told
        /\ d.pipe = conn[k].pipe /\ d.opened = conn[k].opened /\ d.client = conn[k].client
    BY <1>1 DEF To, Connections, Pc
  <1>3. /\ conn[k].pc = "std_io_err" /\ UNCHANGED <<env, svc>>
        /\ conn' = [conn EXCEPT ![k] = d]
    BY DEF std_io_err, Step
  <1> HIDE DEF d
  <1>4. NotYet(d)
    BY <1>2 DEF NotYet, Unborn
  <1>5. NumbersSuffice => Numbered(d) /\ Owned(k, d)
    BY <1>1, <1>2, <1>3 DEF Good, Numbered, Owned
  <1>6. env.starts = 1 => Single(k, d)
    BY <1>1, <1>2, <1>3 DEF Good, Single, Waiting, Side
  <1>7. Good(k, d)
    BY <1>2, <1>4, <1>5, <1>6 DEF Good
  <1>8. Kept(conn[k], d)
    BY <1>2, <1>3 DEF Kept
  <1> QED BY <1>3, <1>7, <1>8, OneKept

\* ConnectNamedPipe: only the connection's own client can have opened the pipe.
LEMMA ConnectInv ==
    ASSUME IInv, UNCHANGED env, NEW k \in DOMAIN conn, connect_io(k) \/ connect_err(k)
    PROVE  IInv'
  <1>1. conn[k] \in Connections /\ Good(k, conn[k])
    BY DEF IInv, Good
  <1>2. ASSUME NEW from \in {"connect_io", "connect_err"}, NEW s \in Side, NEW next \in Pc,
               \/ from = "connect_io" /\ s = "io" /\ next = "connect_err"
               \/ from = "connect_err" /\ s = "err" /\ next = "inherit",
               connect(k, from, s, next)
        PROVE  IInv'
    <2>1. conn[k].pc = from
      BY <1>2 DEF connect, Step
    <2>2. CASE conn[k].pipe[s].st = "connected"
      <3>1. Step(k, from, To(k, next))
        BY <1>2, <2>2 DEF connect
      <3>2. /\ To(k, next) \in Connections /\ To(k, next).pc = next
            /\ To(k, next).pipe = conn[k].pipe /\ To(k, next).opened = conn[k].opened
            /\ To(k, next).client = conn[k].client /\ To(k, next).told = conn[k].told
            /\ To(k, next).nr = conn[k].nr
        BY <1>1 DEF To, Connections
      <3> HIDE DEF To
      <3>3. NotYet(To(k, next))
        BY <1>2, <3>2 DEF NotYet, Unborn
      <3>4. NumbersSuffice => Numbered(To(k, next)) /\ Owned(k, To(k, next))
        BY <1>1, <1>2, <2>1, <3>2 DEF Good, Numbered, Owned
      <3>5. env.starts = 1 => Single(k, To(k, next))
        <4> SUFFICES ASSUME env.starts = 1 PROVE Single(k, To(k, next))
          OBVIOUS
        <4>1. Single(k, conn[k])
          BY <1>1 DEF Good
        <4>2. s \in conn[k].opened
          BY <2>2, <4>1 DEF Single
        <4>3. CASE from = "connect_io"
          BY <1>2, <2>1, <3>2, <4>1, <4>2, <4>3 DEF Single, Waiting
        <4>4. CASE from = "connect_err"
          <5>1. conn[k].opened = Side
            BY <1>1, <1>2, <2>1, <4>1, <4>2, <4>4 DEF Single, Side, Connections
          <5> QED BY <1>2, <2>1, <3>2, <4>1, <4>4, <5>1 DEF Single, Waiting
        <4> QED BY <4>3, <4>4
      <3>6. Good(k, To(k, next))
        BY <3>2, <3>3, <3>4, <3>5 DEF Good
      <3> QED BY <3>1, <3>6, PlainStep DEF Pc
    <2>3. CASE conn[k].pipe[s].st # "connected"
      <3>1. Step(k, from, CloseAll(conn[k])) /\ conn[k].pipe[s].st # "listening"
        BY <1>2, <2>3 DEF connect
      <3>2. env.starts = 1 => conn[k].client = "gone"
        BY <1>1, <2>1, <2>3, <3>1 DEF Good, Single
      <3> QED BY <3>1, <3>2, ClosedInv DEF Pc
    <2> QED BY <2>2, <2>3
  <1> QED BY <1>2 DEF connect_io, connect_err, Pc, Side

\* SetHandleInformation, and the end of cmd_run.
LEMMA InheritInv ==
    ASSUME IInv, UNCHANGED env, NEW k \in DOMAIN conn, inherit(k) \/ return_code(k)
    PROVE  IInv'
  <1>1. conn[k] \in Connections /\ Good(k, conn[k])
    BY DEF IInv, Good
  <1>2. CASE return_code(k)
    <2>1. env.starts = 1 => conn[k].opened = Side
      BY <1>1, <1>2 DEF return_code, Step, Good, Single
    <2> QED BY <1>2, <2>1, ClosedInv DEF return_code, Pc
  <1>3. CASE inherit(k)
    <2> DEFINE P == [s \in Side |-> [conn[k].pipe[s] EXCEPT !.inherit = TRUE]]
               d == [To(k, "create_process") EXCEPT !.pipe = P]
    <2>1. ASSUME NEW s \in Side
          PROVE  /\ P[s] \in Pipes /\ P[s].held = conn[k].pipe[s].held
                 /\ P[s].st = conn[k].pipe[s].st /\ P[s].peer = conn[k].pipe[s].peer
      <3>1. conn[k].pipe[s] \in Pipes
        BY <1>1 DEF Connections
      <3> QED BY <3>1 DEF Pipes
    <2>2. P \in [Side -> Pipes]
      BY <2>1
    <2>3. /\ conn[k].pc = "inherit" /\ UNCHANGED <<env, svc>>
          /\ conn' = [conn EXCEPT ![k] = d]
      <3>1. To(k, "create_process").pipe = conn[k].pipe
        BY <1>1 DEF To, Connections
      <3> QED BY <1>3, <3>1 DEF inherit, Step
    <2> HIDE DEF P
    <2>4. /\ d \in Connections /\ d.nr = conn[k].nr /\ d.pc = "create_process"
          /\ d.told = conn[k].told /\ d.opened = conn[k].opened
          /\ d.client = conn[k].client /\ d.pipe = P
      BY <1>1, <2>2 DEF To, Connections, Pc
    <2> HIDE DEF d
    <2>5. NotYet(d)
      BY <2>4 DEF NotYet, Unborn
    <2>6. NumbersSuffice => Numbered(d) /\ Owned(k, d)
      BY <1>1, <2>1, <2>3, <2>4 DEF Good, Numbered, Owned
    <2>7. env.starts = 1 => Single(k, d)
      BY <1>1, <2>1, <2>3, <2>4 DEF Good, Single, Waiting, Side
    <2>8. Good(k, d)
      BY <2>4, <2>5, <2>6, <2>7 DEF Good
    <2>9. Kept(conn[k], d)
      BY <2>1, <2>3, <2>4 DEF Kept
    <2> QED BY <2>3, <2>8, <2>9, OneKept
  <1> QED BY <1>2, <1>3

-----------------------------------------------------------------------------
\* Only who holds the pipes differs between c and d, and the service still does
\* where it did.
HeldOnly(c, d) ==
    /\ d \in Connections /\ d.pc = c.pc /\ d.nr = c.nr
    /\ d.told = c.told /\ d.client = c.client /\ d.opened = c.opened
    /\ \A s \in Side :
          /\ d.pipe[s].st = c.pipe[s].st /\ d.pipe[s].peer = c.pipe[s].peer
          /\ SvcProcess \in c.pipe[s].held => SvcProcess \in d.pipe[s].held
          /\ d.pipe[s].held # {} => c.pipe[s].held # {}

LEMMA HeldGood ==
    ASSUME NEW k, NEW c, NEW d, Good(k, c), HeldOnly(c, d)
    PROVE  Good(k, d) /\ Kept(c, d)
  <1>1. NotYet(d)
    BY DEF Good, HeldOnly, NotYet, Side
  <1>2. NumbersSuffice => Numbered(d) /\ Owned(k, d)
    BY DEF Good, HeldOnly, Numbered, Owned
  <1>3. env.starts = 1 => Single(k, d)
    BY DEF Good, HeldOnly, Single, Waiting, Side
  <1>4. Kept(c, d)
    BY DEF HeldOnly, Kept
  <1> QED BY <1>1, <1>2, <1>3, <1>4 DEF Good, HeldOnly

\* A step between the calls of a running command.
LEMMA Advance ==
    ASSUME NEW k, NEW c, NEW d \in Connections, Good(k, c),
           c.pc \in {"create_process", "wait"}, d.pc \in {"wait", "return_code"},
           d.nr = c.nr, d.told = c.told, d.client = c.client, d.opened = c.opened,
           d.pipe = c.pipe
    PROVE  Good(k, d) /\ Kept(c, d)
  <1>1. NotYet(d)
    BY DEF NotYet, Unborn
  <1>2. NumbersSuffice => Numbered(d) /\ Owned(k, d)
    BY DEF Good, Numbered, Owned
  <1>3. env.starts = 1 => Single(k, d)
    BY DEF Good, Single, Waiting
  <1> QED BY <1>1, <1>2, <1>3 DEF Good, Kept

\* A function on the connections is a sequence of the same length.
LEMMA Mapped ==
    ASSUME conn \in Seq(Connections), NEW f \in [DOMAIN conn -> Connections]
    PROVE  f \in Seq(Connections) /\ Len(f) = Len(conn) /\ DOMAIN f = DOMAIN conn
  <1>1. DOMAIN conn = 1 .. Len(conn) /\ Len(conn) \in Nat
    OBVIOUS
  <1> QED BY <1>1

LEMMA Index ==
    ASSUME IInv, NEW k \in DOMAIN conn
    PROVE  /\ k \in 1 .. MaxConn /\ k # SvcProcess
           /\ conn[k] \in Connections /\ Good(k, conn[k])
  <1>1. DOMAIN conn = 1 .. Len(conn) /\ Len(conn) \in Nat /\ Len(conn) <= MaxConn
    BY EnvFacts DEF IInv, Counted
  <1> QED BY <1>1, EnvFacts DEF IInv, Good, SvcProcess, Counted

\* CreateProcessAsUser.
LEMMA ProcessInv ==
    ASSUME IInv, UNCHANGED env, NEW k \in DOMAIN conn, create_process(k)
    PROVE  IInv'
  <1>1. /\ conn[k] \in Connections /\ Good(k, conn[k]) /\ k \in 0 .. MaxConn
        /\ conn[k].pc = "create_process"
    BY Index DEF create_process
  <1>2. CASE Step(k, "create_process", CloseAll(conn[k]))
    <2>1. env.starts = 1 => conn[k].opened = Side
      BY <1>1 DEF Good, Single
    <2> QED BY <1>2, <2>1, ClosedInv DEF Pc
  <1> DEFINE Inherit(p) == IF p.inherit /\ SvcProcess \in p.held
                           THEN [p EXCEPT !.held = @ \cup {k}] ELSE p
             c == [To(k, "wait") EXCEPT !.proc = "running",
                                        !.armed = conn[k].client = "up" \/ conn[k].abort]
             b(j) == IF j = k THEN c ELSE conn[j]
             f == [j \in DOMAIN conn |->
                      [b(j) EXCEPT !.pipe = [s \in Side |-> Inherit(@[s])]]]
  <1>3. CASE conn' = f /\ UNCHANGED svc
    <2>1. /\ c \in Connections /\ c.pc = "wait" /\ c.nr = conn[k].nr
          /\ c.told = conn[k].told /\ c.client = conn[k].client
          /\ c.opened = conn[k].opened /\ c.pipe = conn[k].pipe
      BY <1>1 DEF To, Connections, Pc
    <2>2. Good(k, c) /\ Kept(conn[k], c)
      BY <1>1, <2>1, Advance
    <2>3. ASSUME NEW j \in DOMAIN conn
          PROVE  Good(j, b(j)) /\ Kept(conn[j], b(j)) /\ b(j) \in Connections
      <3>1. CASE j = k
        BY <2>1, <2>2, <3>1
      <3>2. CASE j # k
        BY <3>2, Index DEF Kept
      <3> QED BY <3>1, <3>2
    <2> HIDE DEF c
    <2>4. ASSUME NEW j \in DOMAIN conn
          PROVE  HeldOnly(b(j), f[j])
      <3> HIDE DEF b
      <3> DEFINE P == [s \in Side |-> Inherit(b(j).pipe[s])]
      <3>1. ASSUME NEW s \in Side
            PROVE  /\ P[s] \in Pipes /\ P[s].st = b(j).pipe[s].st
                   /\ P[s].peer = b(j).pipe[s].peer
                   /\ SvcProcess \in b(j).pipe[s].held => SvcProcess \in P[s].held
                   /\ P[s].held # {} => b(j).pipe[s].held # {}
        <4>1. b(j).pipe[s] \in Pipes
          BY <2>3 DEF Connections
        <4> QED BY <1>1, <4>1 DEF Pipes
      <3>2. P \in [Side -> Pipes]
        BY <3>1
      <3>3. f[j] = [b(j) EXCEPT !.pipe = P]
        OBVIOUS
      <3> HIDE DEF P, f
      <3>4. /\ f[j] \in Connections /\ f[j].pc = b(j).pc /\ f[j].nr = b(j).nr
            /\ f[j].told = b(j).told /\ f[j].client = b(j).client
            /\ f[j].opened = b(j).opened /\ f[j].pipe = P
        BY <2>3, <3>2, <3>3 DEF Connections
      <3> QED BY <3>1, <3>4 DEF HeldOnly
    <2> HIDE DEF b
    <2>5. f \in [DOMAIN conn -> Connections]
      BY <2>4 DEF HeldOnly
    <2>6. f \in Seq(Connections) /\ Len(f) = Len(conn)
      BY <2>5, Mapped DEF IInv
    <2> HIDE DEF f
    <2>7. \A j \in DOMAIN conn : Good(j, f[j]) /\ Kept(b(j), f[j])
      BY <2>3, <2>4, HeldGood
    <2>8. \A j \in DOMAIN conn : Good(j, f[j]) /\ Kept(conn[j], f[j])
      BY <2>3, <2>7 DEF Kept
    <2> QED BY <1>3, <2>6, <2>8, AllUpdated
  <1> QED BY <1>2, <1>3 DEF create_process, Step

\* The end of a process takes its handles along.
LEMMA EndsHeld ==
    ASSUME IInv, NEW k \in DOMAIN conn
    PROVE  /\ ProcessEnds(conn, k) \in [DOMAIN conn -> Connections]
           /\ \A j \in DOMAIN conn : HeldOnly(conn[j], ProcessEnds(conn, k)[j])
  <1> DEFINE P(j) == [s \in Side |-> CloseHandle(conn[j].pipe[s], k)]
             q(j) == IF j = k THEN "ended" ELSE conn[j].proc
             f == [j \in DOMAIN conn |-> [conn[j] EXCEPT !.proc = q(j), !.pipe = P(j)]]
  <1>1. ProcessEnds(conn, k) = f
    BY DEF ProcessEnds
  <1>2. ASSUME NEW j \in DOMAIN conn
        PROVE  HeldOnly(conn[j], f[j])
    <2>1. conn[j] \in Connections /\ k # SvcProcess
      BY Index
    <2>2. ASSUME NEW s \in Side
          PROVE  /\ P(j)[s] \in Pipes /\ P(j)[s].st = conn[j].pipe[s].st
                 /\ P(j)[s].peer = conn[j].pipe[s].peer
                 /\ SvcProcess \in conn[j].pipe[s].held => SvcProcess \in P(j)[s].held
                 /\ P(j)[s].held # {} => conn[j].pipe[s].held # {}
      <3>1. conn[j].pipe[s] \in Pipes
        BY <2>1 DEF Connections
      <3> QED BY <2>1, <3>1 DEF Pipes, CloseHandle
    <2>3. P(j) \in [Side -> Pipes] /\ q(j) \in {"none", "running", "ended"}
      BY <2>1, <2>2 DEF Connections
    <2>4. f[j] = [conn[j] EXCEPT !.proc = q(j), !.pipe = P(j)]
      OBVIOUS
    <2> HIDE DEF P, q, f
    <2>5. /\ f[j] \in Connections /\ f[j].pc = conn[j].pc /\ f[j].nr = conn[j].nr
          /\ f[j].told = conn[j].told /\ f[j].client = conn[j].client
          /\ f[j].opened = conn[j].opened /\ f[j].pipe = P(j)
      BY <2>1, <2>3, <2>4 DEF Connections
    <2> QED BY <2>2, <2>5 DEF HeldOnly
  <1>3. f \in [DOMAIN conn -> Connections]
    BY <1>2 DEF HeldOnly
  <1> QED BY <1>1, <1>2, <1>3

LEMMA EndInv ==
    ASSUME IInv, UNCHANGED env, NEW k \in DOMAIN conn,
           wait_for_process(k) \/ process_exit(k)
    PROVE  IInv'
  <1> DEFINE f == ProcessEnds(conn, k)
  <1>1. /\ f \in [DOMAIN conn -> Connections]
        /\ \A j \in DOMAIN conn : HeldOnly(conn[j], f[j])
    BY EndsHeld
  <1>2. \A j \in DOMAIN conn : Good(j, f[j]) /\ Kept(conn[j], f[j])
    BY <1>1, Index, HeldGood
  <1> HIDE DEF f
  <1>3. CASE conn' = f /\ UNCHANGED svc
    <2>1. f \in Seq(Connections) /\ Len(f) = Len(conn)
      BY <1>1, Mapped DEF IInv
    <2> QED BY <1>2, <1>3, <2>1, AllUpdated
  <1>4. CASE /\ conn[k].pc = "wait" /\ UNCHANGED svc
             /\ conn' = [f EXCEPT ![k].pc = "return_code"]
    <2> DEFINE d == [f[k] EXCEPT !.pc = "return_code"]
               g == [f EXCEPT ![k] = d]
    <2>1. f[k] \in Connections /\ f[k].pc = "wait" /\ Good(k, f[k])
      BY <1>1, <1>2, <1>4 DEF HeldOnly
    <2>2. /\ d \in Connections /\ d.pc = "return_code" /\ d.nr = f[k].nr
          /\ d.told = f[k].told /\ d.client = f[k].client /\ d.opened = f[k].opened
          /\ d.pipe = f[k].pipe
      BY <2>1 DEF Connections, Pc
    <2>3. Good(k, d) /\ Kept(f[k], d)
      BY <2>1, <2>2, Advance
    <2>4. conn' = g
      BY <1>4
    <2> HIDE DEF d
    <2>5. /\ g \in [DOMAIN conn -> Connections] /\ g[k] = d
          /\ \A j \in DOMAIN conn : j # k => g[j] = f[j]
      BY <1>1, <2>2
    <2> HIDE DEF g
    <2>6. g \in Seq(Connections) /\ Len(g) = Len(conn)
      BY <2>5, Mapped DEF IInv
    <2>7. ASSUME NEW j \in DOMAIN conn
          PROVE  Good(j, g[j]) /\ Kept(conn[j], g[j])
      <3>1. CASE j # k
        BY <1>2, <2>5, <3>1
      <3>2. CASE j = k
        <4>1. Kept(conn[k], d)
          BY <1>2, <2>3 DEF Kept
        <4> QED BY <2>3, <2>5, <3>2, <4>1
      <3> QED BY <3>1, <3>2
    <2> QED BY <1>4, <2>4, <2>6, <2>7, AllUpdated
  <1> QED BY <1>3, <1>4 DEF wait_for_process, process_exit, f

\* The client of connection k is gone: its ends of the pipes break.
LEMMA LeaveInv ==
    ASSUME IInv, UNCHANGED env, NEW k \in DOMAIN conn, Leave(k)
    PROVE  IInv'
  <1> DEFINE B(p) == IF p.st = "connected" /\ p.peer = k
                     THEN [p EXCEPT !.st = "broken"] ELSE p
             P(j) == [s \in Side |-> B(conn[j].pipe[s])]
             q(j) == IF j = k THEN "gone" ELSE conn[j].client
             f == [j \in DOMAIN conn |-> [conn[j] EXCEPT !.client = q(j), !.pipe = P(j)]]
  <1>1. conn' = f /\ UNCHANGED svc
    BY DEF Leave
  <1>2. ASSUME NEW j \in DOMAIN conn
        PROVE  f[j] \in Connections /\ Good(j, f[j]) /\ Kept(conn[j], f[j])
    <2>1. conn[j] \in Connections /\ Good(j, conn[j])
      BY Index
    <2>2. ASSUME NEW s \in Side
          PROVE  /\ P(j)[s] \in Pipes /\ P(j)[s].held = conn[j].pipe[s].held
                 /\ P(j)[s].peer = conn[j].pipe[s].peer
                 /\ \/ P(j)[s].st = conn[j].pipe[s].st
                    \/ /\ P(j)[s].st = "broken" /\ conn[j].pipe[s].st = "connected"
                       /\ conn[j].pipe[s].peer = k
      <3>1. conn[j].pipe[s] \in Pipes
        BY <2>1 DEF Connections
      <3> QED BY <3>1 DEF Pipes
    <2>3. P(j) \in [Side -> Pipes] /\ q(j) \in {"up", "gone"}
      BY <2>1, <2>2 DEF Connections
    <2>4. q(j) = "up" => conn[j].client = "up"
      OBVIOUS
    <2>5. j = k => q(j) = "gone"
      OBVIOUS
    <2>6. conn[j].client = "gone" => q(j) = "gone"
      OBVIOUS
    <2>7. f[j] = [conn[j] EXCEPT !.client = q(j), !.pipe = P(j)]
      OBVIOUS
    <2> HIDE DEF P, q, f
    <2>8. /\ f[j] \in Connections /\ f[j].pc = conn[j].pc /\ f[j].nr = conn[j].nr
          /\ f[j].told = conn[j].told /\ f[j].client = q(j)
          /\ f[j].opened = conn[j].opened /\ f[j].pipe = P(j)
      BY <2>1, <2>3, <2>7 DEF Connections
    <2>9. NotYet(f[j])
      BY <2>1, <2>2, <2>8 DEF Good, NotYet, Side
    <2>10. NumbersSuffice => Numbered(f[j]) /\ Owned(j, f[j])
      BY <2>1, <2>2, <2>8 DEF Good, Numbered, Owned
    <2>11. env.starts = 1 => Single(j, f[j])
      <3> SUFFICES ASSUME env.starts = 1 PROVE Single(j, f[j])
        OBVIOUS
      <3>1. Single(j, conn[j])
        BY <2>1 DEF Good
      <3>2. \A s \in Side : Waiting(conn[j], s) => Waiting(f[j], s)
        BY <2>2, <2>8 DEF Waiting
      <3>3. ASSUME NEW s \in Side
            PROVE  /\ f[j].pipe[s].st = "connected" => f[j].pipe[s].peer = j /\ s \in f[j].opened
                   /\ f[j].pipe[s].st = "broken" => f[j].client = "gone"
        BY <2>2, <2>5, <2>6, <2>8, <3>1 DEF Single
      <3>4. f[j].pc \in {"connect_io", "connect_err"} =>
               f[j].told /\ \A s \in Side : f[j].pipe[s].st \in {"listening", "connected", "broken"}
        BY <2>2, <2>8, <3>1 DEF Single
      <3> QED BY <2>4, <2>8, <3>1, <3>2, <3>3, <3>4 DEF Single, Side
    <2>12. Kept(conn[j], f[j])
      BY <2>2, <2>8 DEF Kept
    <2> QED BY <2>8, <2>9, <2>10, <2>11, <2>12 DEF Good
  <1>3. f \in [DOMAIN conn -> Connections]
    BY <1>2
  <1>4. f \in Seq(Connections) /\ Len(f) = Len(conn)
    BY <1>3, Mapped DEF IInv
  <1> HIDE DEF f
  <1> QED BY <1>1, <1>2, <1>4, AllUpdated

-----------------------------------------------------------------------------
\* What a client does leaves the thread and the holders of the pipes alone.
ClientOnly(c, d) ==
    /\ d \in Connections /\ d.pc = c.pc /\ d.nr = c.nr /\ d.told = c.told
    /\ \A s \in Side : d.pipe[s].held = c.pipe[s].held

LEMMA ClientGood ==
    ASSUME NEW k, NEW c, NEW d, Good(k, c), ClientOnly(c, d),
           NumbersSuffice => Owned(k, d), env.starts = 1 => Single(k, d)
    PROVE  Good(k, d) /\ Kept(c, d)
  <1>1. NotYet(d)
    BY DEF Good, ClientOnly, NotYet, Side
  <1>2. NumbersSuffice => Numbered(d) /\ Owned(k, d)
    BY DEF Good, ClientOnly, Numbered
  <1> QED BY <1>1, <1>2 DEF Good, ClientOnly, Kept

LEMMA AbortInv ==
    ASSUME IInv, UNCHANGED env, NEW k \in DOMAIN conn, client_abort(k)
    PROVE  IInv'
  <1> DEFINE d == [conn[k] EXCEPT !.abort = TRUE]
  <1>1. conn[k] \in Connections /\ Good(k, conn[k])
    BY Index
  <1>2. /\ d \in Connections /\ d.pc = conn[k].pc /\ d.nr = conn[k].nr
        /\ d.told = conn[k].told /\ d.client = conn[k].client
        /\ d.opened = conn[k].opened /\ d.pipe = conn[k].pipe
    BY <1>1 DEF Connections
  <1>3. UNCHANGED <<env, svc>> /\ conn' = [conn EXCEPT ![k] = d]
    BY DEF client_abort
  <1> HIDE DEF d
  <1>4. HeldOnly(conn[k], d)
    BY <1>2 DEF HeldOnly
  <1>5. Good(k, d) /\ Kept(conn[k], d)
    BY <1>1, <1>4, HeldGood
  <1> QED BY <1>3, <1>5, OneKept

\* A client opens one of the pipes it was told of.  While the service is not
\* stopped its own instance is the only one of that name.
LEMMA OpenInv ==
    ASSUME IInv, UNCHANGED env, NEW k \in DOMAIN conn, NEW s \in Side, client_open(k, s)
    PROVE  IInv'
  <1> DEFINE found == {j \in Instances(s, conn[k].nr) : conn[j].pipe[s].st = "listening"}
             c == [conn[k] EXCEPT !.opened = @ \cup {s}]
  <1>1. /\ conn[k] \in Connections /\ Good(k, conn[k]) /\ k \in 0 .. MaxConn
        /\ conn[k].client = "up" /\ conn[k].told /\ s \notin conn[k].opened
        /\ UNCHANGED svc
    BY Index DEF client_open
  <1>2. /\ c \in Connections /\ c.pc = conn[k].pc /\ c.nr = conn[k].nr
        /\ c.told = conn[k].told /\ c.client = conn[k].client
        /\ c.opened = conn[k].opened \cup {s} /\ c.pipe = conn[k].pipe
    BY <1>1 DEF Connections
  <1>3. env.starts = 1 => Single(k, c)
    BY <1>1, <1>2 DEF Good, Single, Waiting, Side
  <1>4. NumbersSuffice => Owned(k, c)
    BY <1>1, <1>2 DEF Good, Owned
  <1>5. Good(k, c) /\ Kept(conn[k], c)
    BY <1>1, <1>2, <1>3, <1>4, ClientGood DEF ClientOnly
  <1>6. CASE conn' = [conn EXCEPT ![k] = c]
    <2> HIDE DEF c
    <2> QED BY <1>1, <1>5, <1>6, OneKept
  <1>7. ASSUME NEW j \in found,
               conn' = [[conn EXCEPT ![k] = c] EXCEPT ![j].pipe[s] = Opened(@, k)]
        PROVE  IInv'
    <2> DEFINE b == IF j = k THEN c ELSE conn[j]
               p == Opened(b.pipe[s], k)
               d == [b EXCEPT !.pipe = [@ EXCEPT ![s] = p]]
               f == [[conn EXCEPT ![k] = c] EXCEPT ![j] = d]
    <2>1. j \in DOMAIN conn /\ conn[j].nr = conn[k].nr /\ conn[j].pipe[s].held # {}
      BY DEF Instances
    <2>2. env.starts = 1 \/ NumbersSuffice => j = k
      <3> SUFFICES ASSUME env.starts = 1 \/ NumbersSuffice, j # k PROVE FALSE
        OBVIOUS
      <3>1. Apart(conn[j], conn[k])
        BY <2>1 DEF IInv
      <3>2. CASE env.starts = 1
        <4>1. Waiting(conn[k], s)
          BY <1>1, <3>2 DEF Good, Single
        <4> QED BY <2>1, <3>1, <4>1 DEF Apart, Waiting
      <3>3. CASE NumbersSuffice
        <4>1. conn[k].nr # 0
          BY <1>1, <3>3 DEF Good, Numbered
        <4> QED BY <2>1, <3>1, <3>3, <4>1 DEF Apart
      <3> QED BY <3>2, <3>3
    <2>3. b \in Connections /\ Good(j, b) /\ Kept(conn[j], b)
      <3>1. CASE j = k
        BY <1>2, <1>5, <3>1
      <3>2. CASE j # k
        BY <2>1, <3>2, Index DEF Kept
      <3> QED BY <3>1, <3>2
    <2>4. j = k => s \in b.opened
      BY <1>2
    <2>5. conn' = f
      <3>1. [conn EXCEPT ![k] = c][j] = b
        BY <2>1
      <3> QED BY <1>7, <3>1
    <2> HIDE DEF c, b
    <2>6. p \in Pipes /\ p.held = b.pipe[s].held /\ p.st = "connected" /\ p.peer = k
      <3>1. b.pipe[s] \in Pipes
        BY <2>3 DEF Connections
      <3> QED BY <1>1, <3>1 DEF Pipes, Opened
    <2> HIDE DEF p
    <2>7. /\ d \in Connections /\ d.pc = b.pc /\ d.nr = b.nr /\ d.told = b.told
          /\ d.client = b.client /\ d.opened = b.opened /\ d.pipe[s] = p
          /\ \A z \in Side : z # s => d.pipe[z] = b.pipe[z]
      BY <2>3, <2>6 DEF Connections
    <2> HIDE DEF d
    <2>8. ClientOnly(b, d)
      BY <2>6, <2>7 DEF ClientOnly
    <2>9. env.starts = 1 => Single(j, d)
      <3> SUFFICES ASSUME env.starts = 1 PROVE Single(j, d)
        OBVIOUS
      <3>1. Single(j, b) /\ j = k /\ s \in b.opened /\ b.told
        BY <1>1, <1>2, <2>2, <2>3, <2>4 DEF Good, b
      <3>2. NotYet(b)
        BY <2>3 DEF Good
      <3> QED BY <2>6, <2>7, <3>1, <3>2 DEF Single, Waiting, NotYet
    <2>10. NumbersSuffice => Owned(j, d)
      BY <2>2, <2>3, <2>6, <2>7 DEF Good, Owned
    <2>11. Good(j, d) /\ Kept(b, d)
      BY <2>3, <2>8, <2>9, <2>10, ClientGood
    <2>12. Kept(conn[j], d)
      BY <2>3, <2>11 DEF Kept
    <2>13. /\ f \in [DOMAIN conn -> Connections] /\ f[j] = d
           /\ k # j => f[k] = c
           /\ \A i \in DOMAIN conn : i # j /\ i # k => f[i] = conn[i]
      BY <1>2, <2>1, <2>7 DEF IInv
    <2> HIDE DEF f
    <2>14. f \in Seq(Connections) /\ Len(f) = Len(conn)
      BY <2>13, Mapped DEF IInv
    <2>15. ASSUME NEW i \in DOMAIN conn
           PROVE  Good(i, f[i]) /\ Kept(conn[i], f[i])
      <3>1. CASE i = j
        BY <2>11, <2>12, <2>13, <3>1
      <3>2. CASE i = k /\ i # j
        BY <1>5, <2>13, <3>2
      <3>3. CASE i # k /\ i # j
        BY <2>13, <3>3, Index DEF Kept
      <3> QED BY <3>1, <3>2, <3>3
    <2> QED BY <1>1, <2>5, <2>14, <2>15, AllUpdated
  <1> QED BY <1>6, <1>7 DEF client_open


-----------------------------------------------------------------------------
\* A step of server_loop or of the operator that leaves the connections alone.
LEMMA SameConn ==
    ASSUME IInv, UNCHANGED <<env, conn>>, Counted', Ascending'
    PROVE  IInv'
  <1>1. \A k \in DOMAIN conn' : Good(k, conn[k])'
    <2>1. \A k \in DOMAIN conn' : Good(k, conn'[k])
      BY DEF IInv
    <2> QED BY <2>1 DEF Good, NumbersSuffice, Connections
  <1>2. \A j, k \in DOMAIN conn' : j # k => Apart(conn[j], conn[k])'
    BY SameEnv DEF IInv, Apart
  <1>3. conn' \in Seq(Connections)'
    BY SameEnv DEF IInv
  <1> QED BY <1>1, <1>2, <1>3 DEF IInv

LEMMA LoopInv ==
    ASSUME IInv, UNCHANGED env, server_loop_create \/ server_loop_not_connected
    PROVE  IInv'
  <1>1. /\ svc \in [pid : 1 .. env.starts, conn_number : 0 .. MaxConn, loop : Loops]
        /\ UNCHANGED conn
        /\ \E l \in {"create", "listen", "ended"} :
              /\ svc' = [svc EXCEPT !.loop = l]
              /\ l = "listen" => Len(conn) < env.conns
    BY DEF IInv, Counted, server_loop_create, server_loop_not_connected
  <1>2. PICK l \in {"create", "listen", "ended"} :
              /\ svc' = [svc EXCEPT !.loop = l]
              /\ l = "listen" => Len(conn) < env.conns
    BY <1>1
  <1>3. /\ svc' \in [pid : 1 .. env.starts, conn_number : 0 .. MaxConn, loop : Loops]
        /\ svc'.pid = svc.pid /\ svc'.conn_number = svc.conn_number /\ svc'.loop = l
    BY <1>1, <1>2 DEF Loops
  <1>4. Counted'
    BY <1>1, <1>2, <1>3 DEF IInv, Counted
  <1>5. Ascending'
    BY <1>1, <1>3, SameEnv DEF IInv, Ascending
  <1> QED BY <1>1, <1>4, <1>5, SameConn

\* The numbers of a process end before those of the next one begin.
LEMMA Ranges ==
    ASSUME NEW p \in Nat, NEW c \in Nat, NEW n \in Nat, n <= c
    PROVE  p * c \in Nat /\ p * c + n <= (p + 1) * c + 0
  <1>1. p * c \in Nat /\ (p + 1) * c = p * c + c
    OBVIOUS
  <1> QED BY <1>1

LEMMA StartInv ==
    ASSUME IInv, UNCHANGED env, service_start
    PROVE  IInv'
  <1>1. /\ svc \in [pid : 1 .. env.starts, conn_number : 0 .. MaxConn, loop : Loops]
        /\ env.starts \in Nat /\ env.connSpace \in Nat /\ env.conns \in Nat /\ MaxConn \in Nat
        /\ svc.conn_number <= Len(conn) /\ Len(conn) <= env.conns /\ Len(conn) \in Nat
    BY EnvFacts DEF IInv, Counted
  <1>2. /\ svc' = [pid |-> svc.pid + 1, conn_number |-> 0, loop |-> "create"]
        /\ UNCHANGED conn /\ svc.pid < env.starts
    BY DEF service_start
  <1>3. /\ svc' \in [pid : 1 .. env.starts, conn_number : 0 .. MaxConn, loop : Loops]
        /\ svc'.pid = svc.pid + 1 /\ svc'.conn_number = 0 /\ svc'.loop = "create"
    BY <1>1, <1>2 DEF Loops
  <1>4. Counted'
    BY <1>1, <1>2, <1>3 DEF IInv, Counted
  <1>5. Ascending'
    <2> SUFFICES ASSUME NumbersSuffice, NEW k \in DOMAIN conn
                 PROVE  conn[k].nr <= (svc.pid + 1) * env.connSpace + 0
      BY <1>2, <1>3, SameEnv DEF Ascending
    <2>1. conn[k].nr <= svc.pid * env.connSpace + svc.conn_number
      BY DEF IInv, Ascending
    <2>2. svc.pid \in Nat /\ svc.conn_number \in Nat /\ svc.conn_number <= env.connSpace
      BY <1>1 DEF NumbersSuffice
    <2>3. conn[k].nr \in Nat
      BY EnvFacts DEF IInv, Counted, Good, Connections
    <2>4. /\ svc.pid * env.connSpace \in Nat
          /\ svc.pid * env.connSpace + svc.conn_number <= (svc.pid + 1) * env.connSpace + 0
      BY <1>1, <2>2, Ranges
    <2>5. (svc.pid + 1) * env.connSpace \in Nat
      BY <1>1, <2>2
    <2> QED BY <2>1, <2>2, <2>3, <2>4, <2>5
  <1> QED BY <1>2, <1>4, <1>5, SameConn

\* A new connection has no number and no pipes.
LEMMA NewInv ==
    ASSUME IInv, UNCHANGED env, client_connect
    PROVE  IInv'
  <1> DEFINE c == [pc |-> "accepted", nr |-> 0, proc |-> "none", armed |-> FALSE,
                   client |-> "up", told |-> FALSE, opened |-> {}, abort |-> FALSE,
                   pipe |-> [s \in Side |-> NoPipe]]
  <1>1. /\ svc.loop = "listen" /\ svc' = [svc EXCEPT !.loop = "connected"]
        /\ conn' = Append(conn, c)
    BY DEF client_connect
  <1>2. /\ svc \in [pid : 1 .. env.starts, conn_number : 0 .. MaxConn, loop : Loops]
        /\ env.starts \in Nat /\ env.connSpace \in Nat /\ env.conns \in Nat /\ MaxConn \in Nat
        /\ env.nrSpace \in Nat \ {0}
        /\ svc.conn_number <= Len(conn) /\ Len(conn) < env.conns /\ Len(conn) \in Nat
    BY <1>1, EnvFacts DEF IInv, Counted
  <1>3. /\ svc' \in [pid : 1 .. env.starts, conn_number : 0 .. MaxConn, loop : Loops]
        /\ svc'.pid = svc.pid /\ svc'.conn_number = svc.conn_number /\ svc'.loop = "connected"
    BY <1>1, <1>2 DEF Loops
  <1>4. NoPipe \in Pipes /\ NoPipe.held = {} /\ NoPipe.st = "none"
    <2>1. 0 \in 0 .. MaxConn
      BY <1>2
    <2> QED BY <2>1 DEF NoPipe, Pipes
  <1>5. /\ c \in Connections /\ c.nr = 0 /\ c.pc = "accepted" /\ ~c.told /\ c.opened = {}
        /\ \A s \in Side : c.pipe[s] = NoPipe
    <2>1. [s \in Side |-> NoPipe] \in [Side -> Pipes]
      BY <1>4
    <2>2. 0 \in 0 .. env.nrSpace - 1
      BY <1>2
    <2> QED BY <2>1, <2>2 DEF Connections, Pc
  <1> HIDE DEF c
  <1>6. /\ conn' \in Seq(Connections) /\ Len(conn') = Len(conn) + 1
        /\ DOMAIN conn = 1 .. Len(conn) /\ DOMAIN conn' = 1 .. Len(conn) + 1
        /\ conn'[Len(conn) + 1] = c
        /\ \A k \in DOMAIN conn : conn'[k] = conn[k]
    BY <1>1, <1>2, <1>5 DEF IInv
  <1>7. Good(Len(conn) + 1, c)
    BY <1>4, <1>5 DEF Good, NotYet, Numbered, Owned, Single
  <1>8. \A k \in DOMAIN conn' : k # Len(conn) + 1 => k \in DOMAIN conn
    BY <1>2, <1>6
  <1>9. \A k \in DOMAIN conn' : Good(k, conn[k])'
    <2>1. \A k \in DOMAIN conn' : Good(k, conn'[k])
      BY <1>6, <1>7, <1>8 DEF IInv
    <2> QED BY <2>1 DEF Good, NumbersSuffice, Connections
  <1>10. \A j, k \in DOMAIN conn' : j # k => Apart(conn[j], conn[k])'
    <2>1. \A d : Apart(c, d) /\ Apart(d, c)
      BY <1>4, <1>5 DEF Apart
    <2>2. \A j, k \in DOMAIN conn' : j # k => Apart(conn'[j], conn'[k])
      BY <1>6, <1>8, <2>1 DEF IInv
    <2> QED BY <2>2, SameEnv DEF Apart
  <1>11. Counted'
    BY <1>2, <1>3, <1>5, <1>6 DEF IInv, Counted
  <1>12. Ascending'
    <2> SUFFICES ASSUME NumbersSuffice, NEW k \in DOMAIN conn'
                 PROVE  conn'[k].nr <= svc.pid * env.connSpace + svc.conn_number
      BY <1>3, SameEnv DEF Ascending
    <2>1. svc.pid * env.connSpace \in Nat /\ svc.conn_number \in Nat
      BY <1>2
    <2>2. CASE k = Len(conn) + 1
      BY <1>5, <1>6, <2>1, <2>2
    <2>3. CASE k # Len(conn) + 1
      BY <1>6, <1>8, <2>3 DEF IInv, Ascending
    <2> QED BY <2>2, <2>3
  <1>13. conn' \in Seq(Connections)'
    BY <1>6, SameEnv
  <1> QED BY <1>9, <1>10, <1>11, <1>12, <1>13 DEF IInv


\* While numbers suffice the sum of cmd_run is not cut, and it is not 0.
LEMMA FreshNumber ==
    ASSUME env \in Scenarios, NumbersSuffice, NEW pid \in 1 .. env.starts,
           NEW n \in 0 .. env.conns
    PROVE  /\ pipe_nr(pid, n) = pid * env.connSpace + n
           /\ pid * env.connSpace + n \in Nat \ {0} /\ pid * env.connSpace \in Nat
  <1> DEFINE x == pid * env.connSpace
  <1>1. /\ env.starts \in Nat /\ env.connSpace \in Nat \ {0} /\ env.nrSpace \in Nat \ {0}
        /\ n \in Nat /\ n < env.connSpace /\ pid \in Nat /\ pid >= 1
    BY EnvFacts DEF NumbersSuffice
  <1>2. x \in Nat /\ x >= env.connSpace
    <2>1. ASSUME NEW p \in Nat, p >= 1, NEW c \in Nat
          PROVE  p * c \in Nat /\ p * c >= c
      <3>1. (p - 1) \in Nat /\ (p - 1) * c \in Nat /\ p * c = (p - 1) * c + c
        BY <2>1
      <3> QED BY <3>1
    <2> QED BY <1>1, <2>1
  <1>3. x + env.connSpace <= (env.starts + 1) * env.connSpace
    <2>1. ASSUME NEW p \in Nat, NEW q \in Nat, p <= q, NEW c \in Nat
          PROVE  p * c + c <= (q + 1) * c
      <3>1. (q - p) \in Nat /\ (q - p) * c \in Nat /\ (q + 1) * c = p * c + c + (q - p) * c
            /\ p * c \in Nat
        BY <2>1
      <3> QED BY <3>1
    <2> QED BY <1>1, <2>1
  <1>4. (env.starts + 1) * env.connSpace \in Nat
    BY <1>1
  <1>5. (env.starts + 1) * env.connSpace <= env.nrSpace
    BY DEF NumbersSuffice
  <1> HIDE DEF x
  <1>6. x + n < env.nrSpace /\ x + n \in Nat \ {0}
    BY <1>1, <1>2, <1>3, <1>4, <1>5
  <1>7. (x + n) % env.nrSpace = x + n
    BY <1>1, <1>6
  <1> QED BY <1>2, <1>6, <1>7 DEF x, pipe_nr

LEMMA NumberType ==
    ASSUME env \in Scenarios, NEW pid \in 1 .. env.starts, NEW n \in Nat
    PROVE  pipe_nr(pid, n) \in 0 .. env.nrSpace - 1
  <1>1. /\ env.starts \in Nat /\ env.connSpace \in Nat /\ env.nrSpace \in Nat \ {0}
        /\ pid * env.connSpace \in Nat
    BY EnvFacts
  <1> QED BY <1>1 DEF pipe_nr

\* The thread of a connection is created: it has the highest number so far.
LEMMA AcceptInv ==
    ASSUME IInv, UNCHANGED env, server_loop_connected
    PROVE  IInv'
  <1> DEFINE k == Len(conn)
             n == svc.conn_number + 1
  <1>1. /\ svc \in [pid : 1 .. env.starts, conn_number : 0 .. MaxConn, loop : Loops]
        /\ env \in Scenarios /\ env.starts \in Nat /\ env.connSpace \in Nat
        /\ env.conns \in Nat /\ env.conns <= MaxConn /\ MaxConn \in Nat
        /\ svc.loop = "connected" /\ k \in DOMAIN conn
        /\ n <= Len(conn) /\ Len(conn) <= env.conns /\ Len(conn) \in Nat
        /\ conn[k].pc = "accepted"
    BY EnvFacts DEF IInv, Counted, server_loop_connected
  <1>2. /\ svc' \in [pid : 1 .. env.starts, conn_number : 0 .. MaxConn, loop : Loops]
        /\ svc'.pid = svc.pid /\ svc'.conn_number = n /\ svc'.loop = "create"
    <2>1. svc' = [svc EXCEPT !.loop = "create", !.conn_number = n]
      BY DEF server_loop_connected
    <2>2. n \in 0 .. MaxConn
      BY <1>1
    <2> HIDE DEF n
    <2> QED BY <1>1, <2>1, <2>2 DEF Loops
  <1>3. conn[k] \in Connections /\ Good(k, conn[k])
    BY <1>1, Index
  <1>4. PICK pc \in {"hgets", "done"}, nr \in {pipe_nr(svc.pid, n), conn[k].nr} :
           /\ pc = "hgets" => nr = pipe_nr(svc.pid, n)
           /\ nr # conn[k].nr => pc = "hgets"
           /\ conn' = [conn EXCEPT ![k] = [conn[k] EXCEPT !.pc = pc, !.nr = nr]]
    <2>1. CASE conn' = [conn EXCEPT ![k].pc = "hgets", ![k].nr = pipe_nr(svc.pid, n)]
      BY <1>1, <2>1 DEF IInv
    <2>2. CASE conn' = [conn EXCEPT ![k].pc = "done"]
      BY <1>1, <1>3, <2>2 DEF IInv, Connections
    <2> QED BY <2>1, <2>2 DEF server_loop_connected
  <1> DEFINE d == [conn[k] EXCEPT !.pc = pc, !.nr = nr]
  <1>5. nr \in 0 .. env.nrSpace - 1
    <2>1. svc.pid \in 1 .. env.starts /\ n \in Nat
      BY <1>1
    <2>2. pipe_nr(svc.pid, n) \in 0 .. env.nrSpace - 1
      BY <1>1, <2>1, NumberType
    <2> QED BY <1>3, <1>4, <2>2 DEF Connections
  <1>6. /\ d \in Connections /\ d.pc = pc /\ d.nr = nr /\ d.told = conn[k].told
        /\ d.opened = conn[k].opened /\ d.client = conn[k].client /\ d.pipe = conn[k].pipe
    BY <1>3, <1>5 DEF Connections, Pc
  <1> HIDE DEF d
  <1>7. /\ conn' \in Seq(Connections) /\ Len(conn') = Len(conn)
        /\ DOMAIN conn' = DOMAIN conn
        /\ conn'[k] = d /\ \A j \in DOMAIN conn : j # k => conn'[j] = conn[j]
    BY <1>1, <1>4, <1>6 DEF IInv, d
  <1>8. ~d.told /\ \A s \in Side : d.pipe[s].held = {}
    BY <1>1, <1>3, <1>6 DEF Good, NotYet, Unborn
  <1>9. NumbersSuffice =>
           /\ pipe_nr(svc.pid, n) = svc.pid * env.connSpace + n
           /\ pipe_nr(svc.pid, n) # 0 /\ svc.pid * env.connSpace \in Nat
    <2>1. svc.pid \in 1 .. env.starts /\ n \in 0 .. env.conns
      BY <1>1
    <2> QED BY <1>1, <2>1, FreshNumber
  <1>10. Good(k, d)
    <2>1. NotYet(d)
      BY <1>8 DEF NotYet, Side
    <2>2. NumbersSuffice => Numbered(d) /\ Owned(k, d)
      BY <1>3, <1>4, <1>6, <1>8, <1>9 DEF Good, Numbered, Owned
    <2>3. env.starts = 1 => Single(k, d)
      BY <1>3, <1>4, <1>6, <1>8 DEF Good, Single
    <2> QED BY <1>6, <2>1, <2>2, <2>3 DEF Good
  <1>11. \A j \in DOMAIN conn' : Good(j, conn[j])'
    <2>1. \A j \in DOMAIN conn' : Good(j, conn'[j])
      BY <1>7, <1>10 DEF IInv
    <2> QED BY <2>1 DEF Good, NumbersSuffice, Connections
  <1>12. ASSUME NumbersSuffice, NEW j \in DOMAIN conn
         PROVE  /\ conn[j].nr \in Nat /\ conn[j].nr < svc.pid * env.connSpace + n
                /\ j # k /\ conn[j].nr = nr => nr = 0
    <2>1. conn[j].nr <= svc.pid * env.connSpace + svc.conn_number
      BY <1>12 DEF IInv, Ascending
    <2>2. conn[j] \in Connections /\ env.nrSpace \in Nat
      BY <1>1, Index, EnvFacts
    <2>3. conn[j].nr \in Nat
      BY <2>2 DEF Connections
    <2>4. conn[j].nr < svc.pid * env.connSpace + n
      <3>1. PICK base \in Nat : base = svc.pid * env.connSpace
        BY <1>9, <1>12
      <3>2. conn[j].nr <= base + svc.conn_number /\ svc.conn_number \in Nat
        BY <1>1, <2>1, <3>1
      <3>3. base + svc.conn_number < base + n
        BY <1>1, <3>2
      <3>4. conn[j].nr < base + n
        BY <1>1, <2>3, <3>2, <3>3
      <3> QED BY <3>1, <3>4
    <2>5. ASSUME j # k, conn[j].nr = nr PROVE nr = 0
      <3>1. nr # pipe_nr(svc.pid, n)
        BY <1>9, <1>12, <2>3, <2>4, <2>5
      <3>2. nr = conn[k].nr
        BY <1>4, <3>1
      <3> QED BY <1>1, <1>12, <2>5, <3>2 DEF IInv, Apart
    <2> QED BY <2>3, <2>4, <2>5
  <1>13. \A i, j \in DOMAIN conn' : i # j => Apart(conn[i], conn[j])'
    <2>1. ASSUME NEW j \in DOMAIN conn, j # k
          PROVE  Apart(conn[j], d) /\ Apart(d, conn[j])
      BY <1>6, <1>8, <1>12, <2>1 DEF Apart
    <2>2. \A i, j \in DOMAIN conn' : i # j => Apart(conn'[i], conn'[j])
      BY <1>7, <2>1 DEF IInv
    <2> QED BY <2>2, SameEnv DEF Apart
  <1>14. Counted'
    BY <1>1, <1>2, <1>7 DEF IInv, Counted
  <1>15. Ascending'
    <2> SUFFICES ASSUME NumbersSuffice, NEW j \in DOMAIN conn
                 PROVE  conn'[j].nr <= svc.pid * env.connSpace + n
      BY <1>2, <1>7, SameEnv DEF Ascending
    <2>1. svc.pid * env.connSpace + n \in Nat
      BY <1>1, <1>9
    <2>2. CASE j # k
      BY <1>7, <1>12, <2>1, <2>2
    <2>3. CASE j = k
      <3>1. nr <= svc.pid * env.connSpace + n
        BY <1>4, <1>9, <1>12, <2>1, <2>3
      <3> QED BY <1>6, <1>7, <2>3, <3>1
    <2> QED BY <2>2, <2>3
  <1>16. conn' \in Seq(Connections)'
    BY <1>7, SameEnv
  <1> QED BY <1>11, <1>13, <1>14, <1>15, <1>16 DEF IInv

\* The service process ends: its threads and its handles with it.
LEMMA StopInv ==
    ASSUME IInv, UNCHANGED env, env.starts > 1, service_stop
    PROVE  IInv'
  <1> DEFINE P(j) == [s \in Side |-> CloseHandle(conn[j].pipe[s], SvcProcess)]
             f == [j \in DOMAIN conn |-> [conn[j] EXCEPT !.pc = "done", !.pipe = P(j)]]
  <1>1. conn' = f /\ svc' = [svc EXCEPT !.loop = "stopped"]
    BY DEF service_stop
  <1>2. ASSUME NEW j \in DOMAIN conn
        PROVE  /\ f[j] \in Connections /\ Good(j, f[j]) /\ f[j].nr = conn[j].nr
               /\ \A s \in Side : f[j].pipe[s].held # {} => conn[j].pipe[s].held # {}
    <2>1. conn[j] \in Connections /\ Good(j, conn[j])
      BY Index
    <2>2. ASSUME NEW s \in Side
          PROVE  /\ P(j)[s] \in Pipes
                 /\ P(j)[s].held # {} => conn[j].pipe[s].held # {}
                 /\ P(j)[s].peer = conn[j].pipe[s].peer /\ P(j)[s].st = conn[j].pipe[s].st
      <3>1. conn[j].pipe[s] \in Pipes
        BY <2>1 DEF Connections
      <3> QED BY <3>1 DEF Pipes, CloseHandle
    <2>3. P(j) \in [Side -> Pipes]
      BY <2>2
    <2>4. f[j] = [conn[j] EXCEPT !.pc = "done", !.pipe = P(j)]
      OBVIOUS
    <2> HIDE DEF P, f
    <2>5. /\ f[j] \in Connections /\ f[j].pc = "done" /\ f[j].nr = conn[j].nr
          /\ f[j].told = conn[j].told /\ f[j].pipe = P(j)
      BY <2>1, <2>3, <2>4 DEF Connections, Pc
    <2>6. NotYet(f[j])
      BY <2>5 DEF NotYet, Unborn
    <2>7. NumbersSuffice => Numbered(f[j]) /\ Owned(j, f[j])
      BY <2>1, <2>2, <2>5 DEF Good, Numbered, Owned
    <2>8. env.starts # 1
      BY EnvFacts DEF IInv, Counted
    <2> QED BY <2>2, <2>5, <2>6, <2>7, <2>8 DEF Good
  <1>3. f \in [DOMAIN conn -> Connections]
    BY <1>2
  <1>4. f \in Seq(Connections) /\ Len(f) = Len(conn) /\ DOMAIN f = DOMAIN conn
    BY <1>3, Mapped DEF IInv
  <1> HIDE DEF f
  <1>5. \A j \in DOMAIN conn' : Good(j, conn[j])'
    <2>1. \A j \in DOMAIN conn' : Good(j, conn'[j])
      BY <1>1, <1>2, <1>4
    <2> QED BY <2>1 DEF Good, NumbersSuffice, Connections
  <1>6. ASSUME NEW i \in DOMAIN conn, NEW j \in DOMAIN conn, i # j
        PROVE  Apart(conn[i], conn[j])'
    <2>1. Apart(conn[i], conn[j])
      BY <1>6 DEF IInv
    <2> QED BY <1>1, <1>2, <2>1, SameEnv DEF Apart
  <1>7. /\ svc' \in [pid : 1 .. env.starts, conn_number : 0 .. MaxConn, loop : Loops]
        /\ svc'.pid = svc.pid /\ svc'.conn_number = svc.conn_number /\ svc'.loop = "stopped"
    BY <1>1 DEF IInv, Counted, Loops
  <1>8. Counted'
    BY <1>1, <1>4, <1>7 DEF IInv, Counted
  <1>9. Ascending'
    BY <1>1, <1>2, <1>4, <1>7, SameEnv DEF IInv, Ascending
  <1>10. conn' \in Seq(Connections)'
    BY <1>1, <1>4, SameEnv
  <1> QED BY <1>1, <1>4, <1>5, <1>6, <1>8, <1>9, <1>10 DEF IInv

-----------------------------------------------------------------------------
LEMMA InitInv == Init => IInv
  <1> SUFFICES ASSUME Init PROVE IInv
    OBVIOUS
  <1>1. env \in Scenarios /\ conn = <<>>
        /\ svc = [pid |-> 1, conn_number |-> 0, loop |-> "create"]
    BY DEF Init
  <1>2. DOMAIN conn = {} /\ Len(conn) = 0 /\ conn \in Seq(Connections)
    BY <1>1
  <1> QED BY <1>1, <1>2, EnvFacts DEF IInv, Counted, Ascending, Loops

LEMMA NextInv == IInv /\ [Next]_vars => IInv'
  <1> SUFFICES ASSUME IInv, [Next]_vars PROVE IInv'
    OBVIOUS
  <1>1. CASE UNCHANGED vars
    <2>1. Counted' /\ Ascending'
      BY <1>1, SameEnv DEF vars, IInv, Counted, Ascending
    <2> QED BY <1>1, <2>1, SameConn DEF vars
  <1>2. CASE Next
    <2>1. UNCHANGED env
      BY <1>2 DEF Next
    <2>2. CASE server_loop
      BY <2>1, <2>2, LoopInv, AcceptInv DEF server_loop
    <2>3. CASE client_connect
      BY <2>1, <2>3, NewInv
    <2>4. CASE env.starts > 1 /\ service_stop
      BY <2>1, <2>4, StopInv
    <2>5. CASE service_start
      BY <2>1, <2>5, StartInv
    <2>6. ASSUME NEW k \in DOMAIN conn, Thread(k)
          PROVE  IInv'
      BY <2>1, <2>6, PlainInv, CreateInv, ToldInv, ConnectInv, InheritInv, ProcessInv, EndInv
         DEF Thread
    <2>7. ASSUME NEW k \in DOMAIN conn,
                 \/ process_exit(k) \/ client_abort(k) \/ client_exit(k) \/ client_dies(k)
                 \/ \E s \in Side : client_open(k, s)
          PROVE  IInv'
      BY <2>1, <2>7, EndInv, AbortInv, LeaveInv, OpenInv DEF client_exit, client_dies
    <2> QED BY <1>2, <2>2, <2>3, <2>4, <2>5, <2>6, <2>7 DEF Next
  <1> QED BY <1>1, <1>2

\* The invariant holds in every state of every behaviour.
THEOREM Invariance == Spec => []IInv
  <1>1. Init => IInv
    BY InitInv
  <1>2. IInv /\ [Next]_vars => IInv'
    BY NextInv
  <1> QED BY <1>1, <1>2, PTL DEF Spec

\* TypeOK for every number of connections and restarts and every number space:
\* a pipe number stays a DWORD, whatever the process id and the connection
\* number that cmd_run adds up.
THEOREM TypeCorrect == Spec => []TypeOK
  <1>1. IInv => TypeOK
    <2> SUFFICES ASSUME IInv PROVE TypeOK
      OBVIOUS
    <2>1. /\ env \in Scenarios
          /\ svc \in [pid : 1 .. env.starts, conn_number : 0 .. MaxConn, loop : Loops]
      BY DEF IInv, Counted
    <2>2. 1 .. env.starts \subseteq 1 .. MaxStarts
      BY <2>1, EnvFacts
    <2> QED BY <2>1, <2>2 DEF IInv, TypeOK, Loops
  <1> QED BY <1>1, Invariance, PTL

\* NumberFree: the name of a connection's pipes is free when cmd_run creates
\* them, whatever dead clients' threads, running processes and stopped services
\* still hold, if connection numbers and process ids fit into the number.
THEOREM NumbersFree == Spec => []NumberFree
  <1>1. IInv => NumberFree
    <2> SUFFICES ASSUME IInv, NumbersSuffice, NEW k \in DOMAIN conn, NEW s \in Side,
                        \/ conn[k].pc = "create_io"
                        \/ conn[k].pc = "create_err" /\ s = "err"
                 PROVE  NameFree(s, conn[k].nr)
      BY DEF NumberFree, Side
    <2>1. conn[k].pipe[s].held = {} /\ conn[k].nr # 0
      BY Index DEF Good, NotYet, Numbered, Unborn
    <2>2. ASSUME NEW j \in DOMAIN conn, conn[j].nr = conn[k].nr
          PROVE  conn[j].pipe[s].held = {}
      BY <2>1, <2>2 DEF IInv, Apart
    <2> QED BY <2>2 DEF NameFree, Instances
  <1> QED BY <1>1, Invariance, PTL

\* OwnPipes: whoever is connected to the standard pipes of a connection is its
\* client, for a service that is never stopped also when numbers repeat.
THEOREM PipesOwned == Spec => []OwnPipes
  <1>1. IInv => OwnPipes
    BY DEF IInv, Good, Owned, Single, OwnPipes
  <1> QED BY <1>1, Invariance, PTL
=============================================================================
