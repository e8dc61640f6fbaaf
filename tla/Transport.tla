----------------------------- MODULE Transport -----------------------------
(***************************************************************************)
(* The SMB client transport (libcli/raw/clitransport.c, rawrequest.c and   *)
(* the transactions of rawtrans.c): allocation of the 16-bit mid, matching *)
(* of replies, request timeouts, multi-part requests and replies, death of *)
(* the connection, and requests destroyed while an answer is outstanding.  *)
(* Callers:                                                                *)
(*   "async"   sets async.fn; the handler destroys the request             *)
(*   "sync"    smbcli_request_receive, then destroys the request           *)
(*   "trans"   smb_raw_trans: a request of two packets with an interim     *)
(*             reply, and a reply of two parts                             *)
(*                                                                         *)
(* Packets are whole here (see module Packet), and one is handled at a     *)
(* time: packet_set_serialise.  Allocation failures are left out, and so   *)
(* are readbraw, oplock breaks and NTcancel, which winexe never uses.  A   *)
(* handler that waits for further parts of its reply inside async.fn       *)
(* (smb_trans_callback, when the server splits the reply) is left out, too *)
(* (see README.md): the handlers here end their call at the first reply.   *)
(***************************************************************************)
EXTENDS Integers, Sequences, SequencesExt, FiniteSets, FiniteSetsExt

CONSTANTS MidSpace,     \* number of mids, 2^16 in the code
          MaxPending,   \* bound: requests that wait at the same time
          MaxLate,      \* bound: age, in requests, of an answer nobody waits for
          MaxReq,       \* bound: requests of a behaviour
          Scenarios     \* who calls and what may happen, see Scenario

\* One environment for a whole behaviour: the kinds of callers, how many
\* requests they make, and whether replies may be bad and connections die.
Scenario == [callers : SUBSET {"async", "sync", "trans"}, requests : 0 .. MaxReq,
             faults : SUBSET {"dead", "bad"}]

ASSUME ScenariosAssumption == Scenarios \subseteq Scenario
ASSUME BoundsAssumption ==
    /\ {MidSpace, MaxReq, MaxPending, MaxLate} \subseteq Nat \ {0}
    /\ MaxLate + MaxPending < MidSpace

VARIABLES env,       \* the scenario
          req,       \* the requests, by number
          t,         \* struct smbcli_transport: next_mid, pending_recv, dead
          caller,    \* the synchronous call in progress, 0: none
          wire,      \* packets on their way to the server
          server,    \* requests the server works on
          replies    \* packets on their way to the client

vars == <<env, req, t, caller, wire, server, replies>>

Id == DOMAIN req

(***************************************************************************)
(* struct smbcli_request.  timer: its timeout is scheduled; freed: the     *)
(* memory is gone; phase: what a transaction waits for; parts: the replies *)
(* it has received (history); outcome: what the caller was told (history). *)
(***************************************************************************)
smbcli_request_setup(kind, mid) ==
    [kind |-> kind, mid |-> mid, state |-> "INIT", timer |-> FALSE, freed |-> FALSE,
     phase |-> IF kind = "trans" THEN "interim" ELSE "reply", parts |-> <<>>,
     outcome |-> "waiting"]

View == [req |-> req, t |-> t, caller |-> caller, wire |-> wire]

Become(x) ==
    /\ req' = x.req /\ t' = x.t /\ caller' = x.caller /\ wire' = x.wire

Set(x, i, r) == [x EXCEPT !.req[i] = r]

DLIST_ADD(x, i) == [x EXCEPT !.t.pending_recv = <<i>> \o @]
DLIST_REMOVE(x, i) == [x EXCEPT !.t.pending_recv = RemoveFirst(@, i)]

pending_mids == {req[t.pending_recv[k]].mid : k \in DOMAIN t.pending_recv}

\* Mutant: 0 is handed out like the others.
smbcli_transport_next_mid_zero ==
    LET at(k) == (t.next_mid + k) % MidSpace
    IN  at(Min({k \in 0 .. MidSpace - 1 : at(k) \notin pending_mids}))

\* Mutant: mids in use are not skipped.
smbcli_transport_next_mid_blind == IF t.next_mid = 0 THEN 1 ELSE t.next_mid

\* The first mid from next_mid on that is neither 0 nor that of a pending
\* request (the loop would not end if there were none).
smbcli_transport_next_mid ==
    LET at(k) == (t.next_mid + k) % MidSpace
        free == {k \in 0 .. MidSpace - 1 : at(k) \notin {0} \cup pending_mids}
    IN  at(Min(free))

\* What a second end of a call would be.
Outcome(x, i, what) ==
    Set(x, i, [x.req[i] EXCEPT !.outcome = IF @ = "waiting" THEN what ELSE "again"])

\* talloc_free takes the timed event along.
smbcli_request_destroy(x, i) ==
    Set(DLIST_REMOVE(x, i), i, [x.req[i] EXCEPT !.freed = TRUE, !.timer = FALSE])

Parts(kind) ==
    IF kind = "trans" THEN <<0, 1, 2>> ELSE <<1>>

\* The caller destroys the request and has what it received, or the failure.
Done(x, i) ==
    Outcome(smbcli_request_destroy(x, i), i,
            IF x.req[i].state = "ERROR" THEN "failed"
            ELSE IF x.req[i].parts = [k \in DOMAIN Parts(x.req[i].kind) |->
                                         <<i, Parts(x.req[i].kind)[k]>>]
            THEN "answered" ELSE "wrong answer")

\* smbcli_request_receive_more, and the end of smb_raw_trans_send_backend.
receive_more(x, i) == Set(DLIST_ADD(x, i), i, [x.req[i] EXCEPT !.state = "RECV"])

\* smb_raw_trans2_recv once a part is there; x itself if more has to come.
Complete(x, i) ==
    x.req[i].state = "ERROR" \/ Len(x.req[i].parts) = Len(Parts(x.req[i].kind))

\* req->async.fn(req), for handlers like smb_write_callback that look at the
\* reply and destroy the request.
async_fn(x, i) == IF x.req[i].kind = "async" THEN Done(x, i) ELSE x

packet(i, mid, part) == [id |-> i, mid |-> mid, part |-> part]

\* On a dead transport the request only gets an error state; async.fn, which
\* the caller sets afterwards, is not called.
smbcli_transport_send(x, i) ==
    IF x.t.dead
    THEN Set(x, i, [x.req[i] EXCEPT !.state = "ERROR",
                                    !.outcome = IF x.req[i].kind = "async"
                                                THEN "refused" ELSE @])
    ELSE [Set(DLIST_ADD(x, i), i, [x.req[i] EXCEPT !.state = "RECV", !.timer = TRUE]) EXCEPT
             !.wire = Append(@, packet(i, x.req[i].mid,
                                       IF x.req[i].kind = "trans" THEN 0 ELSE 1))]

-----------------------------------------------------------------------------
\* smbcli_request_receive returns as soon as the state of its request allows.
CallerReady == caller # 0 /\ req[caller].state \notin {"INIT", "RECV"}

\* The transport is failing its requests, one after the other.
Dying == t.dead /\ t.pending_recv # <<>>

Looping == ~CallerReady /\ ~Dying

\* Answers that nobody waits for any more.
Late == {p \in Range(wire) \cup server \cup Range(replies) : req[p.id].freed}

\* A new request, from the program or from a handler.
smbcli_request_send(kind) ==
    /\ Len(req) < env.requests
    /\ Len(t.pending_recv) < MaxPending
    /\ \A p \in Late : Len(req) + 1 - p.id <= MaxLate
    /\ ~CallerReady
    /\ kind \in {"sync", "trans"} => caller = 0 /\ ~Dying
    /\ LET i == Len(req) + 1
           mid == smbcli_transport_next_mid
           x == [req |-> Append(req, smbcli_request_setup(kind, mid)),
                 t |-> [t EXCEPT !.next_mid = (mid + 1) % MidSpace],
                 caller |-> IF kind \in {"sync", "trans"} THEN i ELSE caller,
                 wire |-> wire]
       IN  Become(smbcli_transport_send(x, i))
    /\ UNCHANGED <<server, replies>>

\* A caller gives up a request (async_close destroys c->rreq).
GiveUp ==
    /\ ~CallerReady
    /\ \E i \in Id :
          /\ req[i].kind = "async" /\ ~req[i].freed /\ req[i].state = "RECV"
          /\ Become(Outcome(smbcli_request_destroy(View, i), i, "given up"))
    /\ UNCHANGED <<server, replies>>

\* A synchronous caller goes on.
smbcli_request_receive ==
    /\ CallerReady
    /\ LET i == caller
           x == receive_more(View, i)
       IN  Become(IF Complete(View, i)
                  THEN Done([View EXCEPT !.caller = 0], i)
                  ELSE IF req[i].phase = "interim"
                  THEN [Set(x, i, [x.req[i] EXCEPT !.phase = "reply"]) EXCEPT
                           !.wire = Append(@, packet(i, req[i].mid, 1))]
                  ELSE x)
    /\ UNCHANGED <<server, replies>>

\* Mutant: a reply belongs to the newest request, as for readbraw.
Matching_newest(mid) == IF t.pending_recv = <<>> THEN 0 ELSE Head(t.pending_recv)

\* The first pending request, from the newest on, that has this mid.
Matching(mid) ==
    LET ks == {k \in DOMAIN t.pending_recv : req[t.pending_recv[k]].mid = mid}
    IN  IF ks = {} THEN 0 ELSE t.pending_recv[Min(ks)]

smbcli_transport_finish_recv ==
    /\ Looping
    /\ replies # <<>>
    /\ LET p == Head(replies)
           i == Matching(p.mid)
           x == DLIST_REMOVE(View, i)
       IN  IF i = 0
           THEN UNCHANGED <<req, t, caller, wire>>
           ELSE \/ Become(async_fn(Set(x, i, [req[i] EXCEPT
                                     !.state = "DONE",
                                     !.parts = Append(@, <<p.id, p.part>>)]), i))
                \/ /\ "bad" \in env.faults
                   /\ Become(async_fn(Set(x, i, [req[i] EXCEPT !.state = "ERROR"]), i))
    /\ replies' = Tail(replies)
    /\ UNCHANGED server

smbcli_timeout_handler(i) ==
    /\ Looping
    /\ req[i].timer
    /\ LET x == IF req[i].state = "RECV" THEN DLIST_REMOVE(View, i) ELSE View
       IN  Become(async_fn(Set(x, i, [req[i] EXCEPT !.state = "ERROR", !.timer = FALSE]), i))
    /\ UNCHANGED <<server, replies>>

\* The socket fails.
smbcli_sock_dead ==
    /\ "dead" \in env.faults
    /\ Looping /\ ~t.dead
    /\ t' = [t EXCEPT !.dead = TRUE]
    /\ wire' = <<>> /\ server' = {} /\ replies' = <<>>
    /\ UNCHANGED <<req, caller>>

\* One round of its loop.
smbcli_transport_dead ==
    /\ Dying
    /\ LET i == Head(t.pending_recv)
           x == DLIST_REMOVE(View, i)
       IN  Become(async_fn(Set(x, i, [req[i] EXCEPT !.state = "ERROR"]), i))
    /\ UNCHANGED <<server, replies>>

-----------------------------------------------------------------------------
(***************************************************************************)
(* The server (external) answers in any order, late or never.  A           *)
(* transaction's first packet gets an interim reply, its second the reply. *)
(***************************************************************************)
ServerAccept ==
    /\ wire # <<>>
    /\ server' = server \cup {Head(wire)}
    /\ wire' = Tail(wire)
    /\ UNCHANGED <<req, t, caller, replies>>

ServerReply ==
    /\ \E p \in server :
          /\ replies' = Append(replies, p)
          /\ server' = IF p.part = 1 /\ req[p.id].kind = "trans"
                       THEN (server \ {p}) \cup {[p EXCEPT !.part = 2]} ELSE server \ {p}
    /\ UNCHANGED <<req, t, caller, wire>>

-----------------------------------------------------------------------------
Init ==
    /\ env \in Scenarios
    /\ req = <<>>
    /\ t = [next_mid |-> 0, pending_recv |-> <<>>, dead |-> FALSE]
    /\ caller = 0
    /\ wire = <<>> /\ server = {} /\ replies = <<>>

Next ==
    /\ \/ \E kind \in env.callers : smbcli_request_send(kind)
       \/ GiveUp
       \/ smbcli_request_receive
       \/ smbcli_transport_finish_recv
       \/ \E i \in Id : smbcli_timeout_handler(i)
       \/ smbcli_sock_dead \/ smbcli_transport_dead
       \/ ServerAccept \/ ServerReply
    /\ UNCHANGED env

Spec == Init /\ [][Next]_vars

\* The event loop runs: packets and timers are handled, calls return.
Fairness ==
    /\ WF_vars(smbcli_request_receive /\ UNCHANGED env)
    /\ WF_vars(smbcli_transport_finish_recv /\ UNCHANGED env)
    /\ WF_vars(smbcli_transport_dead /\ UNCHANGED env)
    /\ \A i \in 1 .. MaxReq :
          WF_vars(i \in Id /\ smbcli_timeout_handler(i) /\ UNCHANGED env)

FairSpec == Spec /\ Fairness

-----------------------------------------------------------------------------
Mid == 1 .. MidSpace - 1
Packets == [id : 1 .. MaxReq, mid : Mid, part : 0 .. 2]

Requests ==
    [kind : env.callers, mid : Mid, state : {"INIT", "RECV", "DONE", "ERROR"},
     timer : BOOLEAN, freed : BOOLEAN, phase : {"interim", "reply"},
     parts : Seq((1 .. MaxReq) \X (0 .. 2)),
     outcome : {"waiting", "refused", "answered", "failed", "given up",
                "wrong answer", "again"}]

TypeOK ==
    /\ env \in Scenarios
    /\ req \in Seq(Requests)
    /\ t \in [next_mid : 0 .. MidSpace - 1, pending_recv : Seq(Id), dead : BOOLEAN]
    /\ caller \in Id \cup {0}
    /\ wire \in Seq(Packets) /\ server \subseteq Packets /\ replies \in Seq(Packets)

\* pending_recv, its mids and the states of the requests stay consistent when
\* requests are added again for further parts, time out, are destroyed or fail
\* with the connection: every listed request is waiting and its mid its own, and
\* the one a synchronous caller runs the event loop for is not freed meanwhile.
PendingConsistent ==
    /\ caller # 0 => ~req[caller].freed
    /\ \A k \in DOMAIN t.pending_recv :
          LET r == req[t.pending_recv[k]] IN ~r.freed /\ r.state = "RECV"
    /\ \A j, k \in DOMAIN t.pending_recv :
          j # k => req[t.pending_recv[j]].mid # req[t.pending_recv[k]].mid
    /\ \A i \in Id : req[i].state = "RECV" /\ ~req[i].freed => i \in Range(t.pending_recv)

Calls == INSTANCE RequestReply WITH
    Call <- 1 .. MaxReq,
    outcome <- [i \in 1 .. MaxReq |-> IF i \in Id THEN req[i].outcome ELSE "unused"]

\* Every call ends once, with its own answer or a failure, although mids wrap
\* around and answers come late, in any order, in parts or not at all; and with
\* request timeouts no call waits forever.
ImplementsCalls == Calls!FairSpec
=============================================================================
