-------------------------- MODULE TransportProofs --------------------------
(***************************************************************************)
(* Proofs about Transport for any number of mids, requests and callers.    *)
(***************************************************************************)
EXTENDS Transport, SequenceTheorems, FiniteSetTheorems, WellFoundedInduction, TLAPS

(***************************************************************************)
(* Lists: what DLIST_ADD and DLIST_REMOVE do to a list that holds an element *)
(* at most once.                                                           *)
(***************************************************************************)

\* A set of natural numbers that is not empty has a least element.
LEMMA MinFacts ==
    ASSUME NEW S \in SUBSET Nat, S # {}
    PROVE  Min(S) \in S /\ \A y \in S : Min(S) <= y
  <1>1. \E x \in S : \A y \in S : ~(<<y, x>> \in OpToRel(<, Nat))
    BY NatLessThanWellFounded, WFMin
  <1>2. \E x \in S : \A y \in S : ~(y < x)
    BY <1>1 DEF OpToRel
  <1>3. \E x \in S : \A y \in S : x <= y
    BY <1>2
  <1> QED BY <1>3 DEF Min

LEMMA RemoveAtFacts ==
    ASSUME NEW S, NEW s \in Seq(S), NEW k \in 1 .. Len(s)
    PROVE  /\ RemoveAt(s, k) \in Seq(S) /\ Len(RemoveAt(s, k)) = Len(s) - 1
           /\ \A j \in 1 .. Len(s) - 1 :
                 RemoveAt(s, k)[j] = IF j < k THEN s[j] ELSE s[j + 1]
  <1> DEFINE a == SubSeq(s, 1, k - 1)
             b == SubSeq(s, k + 1, Len(s))
  <1>1. a \in Seq(S) /\ Len(a) = k - 1 /\ \A i \in 1 .. k - 1 : a[i] = s[i]
    BY SubSeqProperties
  <1>2. b \in Seq(S) /\ Len(b) = Len(s) - k /\ \A i \in 1 .. Len(s) - k : b[i] = s[k + i]
    BY SubSeqProperties
  <1> HIDE DEF a, b
  <1>3. (a \o b) \in Seq(S) /\ Len(a \o b) = Len(a) + Len(b)
    BY <1>1, <1>2, ConcatProperties
  <1>4. \A j \in 1 .. Len(s) - 1 : (a \o b)[j] = IF j < k THEN s[j] ELSE s[j + 1]
    BY <1>1, <1>2
  <1>5. Len(a \o b) = Len(s) - 1
    BY <1>1, <1>2, <1>3
  <1> QED BY <1>3, <1>4, <1>5 DEF RemoveAt, a, b

\* DLIST_REMOVE: the others stay, in their order; nothing happens if the element
\* is not in the list.
LEMMA RemoveFirstFacts ==
    ASSUME NEW S, NEW s \in Seq(S), NEW e, IsInjective(s)
    PROVE  /\ RemoveFirst(s, e) \in Seq(S) /\ IsInjective(RemoveFirst(s, e))
           /\ Range(RemoveFirst(s, e)) = Range(s) \ {e}
           /\ Len(RemoveFirst(s, e)) <= Len(s)
           /\ e \notin Range(s) => RemoveFirst(s, e) = s
  <1> DEFINE I == {i \in 1 .. Len(s) : s[i] = e}
             r == RemoveFirst(s, e)
  <1>1. r = IF I # {} THEN RemoveAt(s, Min(I)) ELSE s
    BY DEF RemoveFirst, SelectInSeq
  <1>2. DOMAIN s = 1 .. Len(s) /\ Len(s) \in Nat
    OBVIOUS
  <1>3. \A i, j \in DOMAIN s : s[i] = s[j] => i = j
    BY DEF IsInjective
  <1>4. CASE I = {}
    BY <1>1, <1>2, <1>4 DEF Range
  <1>5. CASE I # {}
    <2>1. PICK k \in 1 .. Len(s) : s[k] = e /\ r = RemoveAt(s, k)
      <3>1. I \in SUBSET Nat
        OBVIOUS
      <3>2. Min(I) \in I
        BY <1>5, <3>1, MinFacts
      <3> QED BY <1>1, <1>5, <3>2
    <2>2. /\ r \in Seq(S) /\ Len(r) = Len(s) - 1
          /\ \A j \in 1 .. Len(s) - 1 : r[j] = IF j < k THEN s[j] ELSE s[j + 1]
      BY <2>1, RemoveAtFacts
    <2> HIDE DEF r
    <2>3. DOMAIN r = 1 .. Len(s) - 1
      BY <2>2
    <2>4. IsInjective(r)
      <3> SUFFICES ASSUME NEW i \in DOMAIN r, NEW j \in DOMAIN r, r[i] = r[j]
                   PROVE  i = j
        BY DEF IsInjective
      <3> DEFINE at(n) == IF n < k THEN n ELSE n + 1
      <3>1. i \in Int /\ j \in Int /\ k \in Int
        BY <1>2, <2>3
      <3>2. at(i) \in DOMAIN s /\ at(j) \in DOMAIN s
        BY <1>2, <2>3
      <3>3. r[i] = s[at(i)] /\ r[j] = s[at(j)]
        BY <2>2, <2>3
      <3>4. at(i) = at(j)
        BY <1>3, <3>2, <3>3
      <3> QED BY <3>1, <3>4
    <2>5. ASSUME NEW x \in Range(r)
          PROVE  x \in Range(s) \ {e}
      <3>1. PICK j \in DOMAIN r : r[j] = x
        BY <2>5 DEF Range
      <3>2. CASE j < k
        <4>1. j \in DOMAIN s /\ s[j] = x /\ j # k
          BY <1>2, <2>2, <2>3, <3>1, <3>2
        <4> QED BY <1>2, <1>3, <2>1, <4>1 DEF Range
      <3>3. CASE ~(j < k)
        <4>1. j + 1 \in DOMAIN s /\ s[j + 1] = x /\ j + 1 # k
          BY <1>2, <2>2, <2>3, <3>1, <3>3
        <4> QED BY <1>2, <1>3, <2>1, <4>1 DEF Range
      <3> QED BY <3>2, <3>3
    <2>6. ASSUME NEW x \in Range(s), x # e
          PROVE  x \in Range(r)
      <3>1. PICK i \in DOMAIN s : s[i] = x
        BY <2>6 DEF Range
      <3>2. CASE i < k
        <4>1. i \in DOMAIN r /\ r[i] = x
          BY <1>2, <2>2, <2>3, <3>1, <3>2
        <4> QED BY <4>1 DEF Range
      <3>3. CASE i > k
        <4>1. i - 1 \in DOMAIN r /\ r[i - 1] = x
          BY <1>2, <2>2, <2>3, <3>1, <3>3
        <4> QED BY <4>1 DEF Range
      <3>4. i # k
        BY <2>1, <2>6, <3>1
      <3> QED BY <1>2, <3>2, <3>3, <3>4
    <2>7. e \in Range(s)
      BY <1>2, <2>1 DEF Range
    <2> QED BY <1>2, <2>2, <2>4, <2>5, <2>6, <2>7 DEF r
  <1> QED BY <1>4, <1>5

\* DLIST_ADD: the element is the first one.
LEMMA AddFacts ==
    ASSUME NEW S, NEW s \in Seq(S), NEW e \in S, IsInjective(s), e \notin Range(s)
    PROVE  /\ <<e>> \o s \in Seq(S) /\ IsInjective(<<e>> \o s)
           /\ Range(<<e>> \o s) = Range(s) \cup {e}
           /\ Len(<<e>> \o s) = Len(s) + 1
  <1> DEFINE r == <<e>> \o s
  <1>1. /\ r \in Seq(S) /\ Len(r) = Len(s) + 1
        /\ \A i \in 1 .. Len(s) + 1 : r[i] = IF i <= 1 THEN e ELSE s[i - 1]
    <2>1. <<e>> \in Seq(S) /\ Len(<<e>>) = 1 /\ <<e>>[1] = e
      OBVIOUS
    <2>2. /\ r \in Seq(S) /\ Len(r) = 1 + Len(s)
          /\ \A i \in 1 .. 1 + Len(s) : r[i] = IF i <= 1 THEN <<e>>[i] ELSE s[i - 1]
      BY <2>1, ConcatProperties
    <2> HIDE DEF r
    <2> QED BY <2>1, <2>2
  <1> HIDE DEF r
  <1>2. /\ DOMAIN s = 1 .. Len(s) /\ DOMAIN r = 1 .. Len(s) + 1 /\ Len(s) \in Nat
        /\ \A i, j \in DOMAIN s : s[i] = s[j] => i = j
        /\ \A i \in DOMAIN s : s[i] # e
    BY <1>1 DEF IsInjective, Range
  <1>3. IsInjective(r)
    <2> SUFFICES ASSUME NEW i \in DOMAIN r, NEW j \in DOMAIN r, r[i] = r[j]
                 PROVE  i = j
      BY DEF IsInjective
    <2>1. CASE i = 1 \/ j = 1
      BY <1>1, <1>2, <2>1
    <2>2. CASE i # 1 /\ j # 1
      <3>1. i - 1 \in DOMAIN s /\ j - 1 \in DOMAIN s /\ s[i - 1] = s[j - 1]
        BY <1>1, <1>2, <2>2
      <3> QED BY <1>2, <3>1
    <2> QED BY <2>1, <2>2
  <1>4. ASSUME NEW x \in Range(r)
        PROVE  x \in Range(s) \cup {e}
    <2>1. PICK i \in DOMAIN r : r[i] = x
      BY <1>4 DEF Range
    <2>2. CASE i # 1
      <3>1. i - 1 \in DOMAIN s /\ s[i - 1] = x
        BY <1>1, <1>2, <2>1, <2>2
      <3> QED BY <3>1 DEF Range
    <2> QED BY <1>1, <1>2, <2>1, <2>2
  <1>5. ASSUME NEW x \in Range(s)
        PROVE  x \in Range(r)
    <2>1. PICK i \in DOMAIN s : s[i] = x
      BY <1>5 DEF Range
    <2>2. i + 1 \in DOMAIN r /\ r[i + 1] = x
      BY <1>1, <1>2, <2>1
    <2> QED BY <2>2 DEF Range
  <1>6. e \in Range(r)
    <2>1. 1 \in DOMAIN r /\ r[1] = e
      BY <1>1, <1>2
    <2> QED BY <2>1 DEF Range
  <1> QED BY <1>1, <1>3, <1>4, <1>5, <1>6 DEF r

-----------------------------------------------------------------------------
Listed == Range(t.pending_recv)

\* The requests somebody waits for: the listed ones, and that of the caller
\* also between two parts of its reply.
Live == Listed \cup {i \in Id : i = caller}

Typed ==
    /\ env \in Scenarios
    /\ req \in Seq(Requests) /\ Len(req) <= env.requests
    /\ t \in [next_mid : 0 .. MidSpace - 1, pending_recv : Seq(Id), dead : BOOLEAN]
    /\ caller \in Id \cup {0}

Sound ==
    /\ IsInjective(t.pending_recv)
    /\ \A i \in Id : i \in Listed <=> req[i].state = "RECV" /\ ~req[i].freed
    /\ \A i \in Id : req[i].timer => ~req[i].freed
    /\ \A i \in Id : req[i].state # "INIT"
    /\ \A i \in Id : i = caller <=> ~req[i].freed /\ req[i].kind # "async"
    /\ \A i \in Id : ~req[i].freed =>
          \/ i \in Live /\ req[i].outcome = "waiting"
          \/ req[i].kind = "async" /\ req[i].outcome = "refused" /\ ~req[i].timer
             /\ req[i].state = "ERROR"
    /\ \A i, j \in Live : i # j => req[i].mid # req[j].mid

InFlight == Range(wire) \cup server \cup Range(replies)

\* Where packets come from.
Addressed ==
    /\ wire \in Seq(Packets) /\ server \subseteq Packets /\ replies \in Seq(Packets)
    /\ \A p \in InFlight :
          /\ p.id \in Id /\ p.mid = req[p.id].mid
          /\ req[p.id].freed \/ p.id \in Live
          /\ req[p.id].kind # "trans" => p.part = 1
          /\ \A i \in Live : p.mid = req[i].mid => p.id = i

off(a, x) == IF x >= a THEN x - a ELSE x - a + MidSpace

\* The mids ahead of next_mid, up to that of request q, that are free.
Ahead(q) ==
    {m \in Mid : /\ off(t.next_mid, m) < off(t.next_mid, req[q].mid)
                 /\ \A i \in Live : req[i].mid # m}

Distant ==
    \A q \in Id : Len(req) - q < MaxLate => Cardinality(Ahead(q)) >= MaxLate - (Len(req) - q)

\* What request i, in state r, has received: the parts of its own answer.
Collected(i, r) ==
    IF r.kind = "trans"
    THEN /\ Len(r.parts) <= 3 /\ r.parts = [k \in 1 .. Len(r.parts) |-> <<i, k - 1>>]
         /\ r.state = "RECV" => Len(r.parts) < 3 /\ (r.phase = "interim" <=> Len(r.parts) = 0)
         /\ r.state = "DONE" => Len(r.parts) > 0 /\ (r.phase = "interim" <=> Len(r.parts) = 1)
    ELSE /\ r.state = "RECV" => r.parts = <<>>
         /\ r.state = "DONE" => r.parts = <<<<i, 1>>>>

Received == \A i \in Id : ~req[i].freed => Collected(i, req[i])

OnWire(i) == {k \in DOMAIN wire : wire[k].id = i}
AtServer(i) == {p \in server : p.id = i}
Coming(i) == {k \in DOMAIN replies : replies[k].id = i}

Chain(i, n) ==
    /\ \A k \in OnWire(i) : wire[k].part = n /\ OnWire(i) = {k} /\ AtServer(i) = {} /\ Coming(i) = {}
    /\ \A p \in AtServer(i) :
          /\ \/ p.part = n /\ Coming(i) = {}
             \/ p.part = 2 /\ n = 1 /\ Coming(i) # {}
          /\ \A k \in Coming(i) : replies[k].part = 1
          /\ \A q \in AtServer(i) : p = q
    /\ \A k \in Coming(i) :
          /\ \/ replies[k].part = n
             \/ n = 1 /\ replies[k].part = 2 /\ \E l \in Coming(i) : l < k /\ replies[l].part = 1
          /\ \A l \in Coming(i) : replies[k].part = replies[l].part => k = l

Chained ==
    \A i \in Id : i = caller /\ req[i].kind = "trans" /\ req[i].state # "ERROR" =>
        /\ Chain(i, Len(req[i].parts))
        /\ req[i].state = "DONE" /\ req[i].phase = "interim" =>
              OnWire(i) = {} /\ AtServer(i) = {} /\ Coming(i) = {}

IInv == Typed /\ Sound /\ Addressed /\ Distant /\ Received /\ Chained


-----------------------------------------------------------------------------
(***************************************************************************)
(* What the operations on views do, spelled out.                           *)
(***************************************************************************)
V(q, tt, c, w) == [req |-> q, t |-> tt, caller |-> c, wire |-> w]

Without(tt, i) == [tt EXCEPT !.pending_recv = RemoveFirst(tt.pending_recv, i)]
With(tt, i) == [tt EXCEPT !.pending_recv = <<i>> \o tt.pending_recv]

LEMMA RemoveView ==
    ASSUME NEW q, NEW tt, NEW c, NEW w, NEW i
    PROVE  DLIST_REMOVE(V(q, tt, c, w), i) = V(q, Without(tt, i), c, w)
  BY DEF DLIST_REMOVE, V, Without

LEMMA AddView ==
    ASSUME NEW q, NEW tt, NEW c, NEW w, NEW i
    PROVE  DLIST_ADD(V(q, tt, c, w), i) = V(q, With(tt, i), c, w)
  <1>1. PICK x : x = V(q, tt, c, w)
    OBVIOUS
  <1>2. PICK l : l = <<i>> \o tt.pending_recv
    OBVIOUS
  <1>3. x.t = tt
    BY <1>1 DEF V
  <1>4. With(tt, i) = [tt EXCEPT !.pending_recv = l]
    BY <1>2 DEF With
  <1>5. DLIST_ADD(x, i) = [x EXCEPT !.t = [tt EXCEPT !.pending_recv = l]]
    BY <1>2, <1>3 DEF DLIST_ADD
  <1>6. [x EXCEPT !.t = With(tt, i)] = V(q, With(tt, i), c, w)
    BY <1>1 DEF V
  <1> QED BY <1>1, <1>4, <1>5, <1>6

LEMMA ViewFields ==
    ASSUME NEW q, NEW tt, NEW c, NEW w
    PROVE  /\ V(q, tt, c, w).req = q /\ V(q, tt, c, w).t = tt
           /\ V(q, tt, c, w).caller = c /\ V(q, tt, c, w).wire = w
           /\ \A z : [V(q, tt, c, w) EXCEPT !.req = z] = V(z, tt, c, w)
           /\ \A z : [V(q, tt, c, w) EXCEPT !.t = z] = V(q, z, c, w)
           /\ \A z : [V(q, tt, c, w) EXCEPT !.caller = z] = V(q, tt, z, w)
           /\ \A z : [V(q, tt, c, w) EXCEPT !.wire = z] = V(q, tt, c, z)
  BY DEF V

Put(q, i, r) == [q EXCEPT ![i] = r]

LEMMA SetView ==
    ASSUME NEW q, NEW tt, NEW c, NEW w, NEW i, NEW r
    PROVE  Set(V(q, tt, c, w), i, r) = V(Put(q, i, r), tt, c, w)
  BY ViewFields DEF Set, Put

Freed(r) == [r EXCEPT !.freed = TRUE, !.timer = FALSE]
Told(r, what) == [r EXCEPT !.outcome = IF r.outcome = "waiting" THEN what ELSE "again"]

LEMMA DestroyView ==
    ASSUME NEW q, NEW tt, NEW c, NEW w, NEW i
    PROVE  smbcli_request_destroy(V(q, tt, c, w), i)
           = V(Put(q, i, Freed(q[i])), Without(tt, i), c, w)
  <1>1. smbcli_request_destroy(V(q, tt, c, w), i)
        = Set(DLIST_REMOVE(V(q, tt, c, w), i), i, Freed(V(q, tt, c, w).req[i]))
    BY DEF smbcli_request_destroy, Freed
  <1> QED BY <1>1, RemoveView, ViewFields, SetView

LEMMA OutcomeView ==
    ASSUME NEW q, NEW tt, NEW c, NEW w, NEW i, NEW what
    PROVE  Outcome(V(q, tt, c, w), i, what)
           = V(Put(q, i, Told(q[i], what)), tt, c, w)
  <1>1. Outcome(V(q, tt, c, w), i, what)
        = Set(V(q, tt, c, w), i, Told(V(q, tt, c, w).req[i], what))
    BY DEF Outcome, Told
  <1> QED BY <1>1, ViewFields, SetView

\* What the caller of request i makes of it.
Verdict(r, i) ==
    IF r.state = "ERROR" THEN "failed"
    ELSE IF r.parts = [k \in DOMAIN Parts(r.kind) |-> <<i, Parts(r.kind)[k]>>]
    THEN "answered" ELSE "wrong answer"

Ended(r, i) == Told(Freed(r), Verdict(r, i))

LEMMA DoneView ==
    ASSUME NEW q \in Seq(Requests), NEW tt, NEW c, NEW w, NEW i \in DOMAIN q
    PROVE  Done(V(q, tt, c, w), i) = V(Put(q, i, Ended(q[i], i)), Without(tt, i), c, w)
  <1> DEFINE x == V(q, tt, c, w)
             q1 == Put(q, i, Freed(q[i]))
  <1>1. Done(x, i) = Outcome(smbcli_request_destroy(x, i), i, Verdict(x.req[i], i))
    BY DEF Done, Verdict
  <1>2. x.req = q /\ smbcli_request_destroy(x, i) = V(q1, Without(tt, i), c, w)
    BY DestroyView, ViewFields
  <1>3. q1[i] = Freed(q[i]) /\ \A r : Put(q1, i, r) = Put(q, i, r)
    BY DEF Put
  <1> HIDE DEF x, q1
  <1>4. Outcome(V(q1, Without(tt, i), c, w), i, Verdict(q[i], i))
        = V(Put(q1, i, Told(q1[i], Verdict(q[i], i))), Without(tt, i), c, w)
    BY OutcomeView
  <1> QED BY <1>1, <1>2, <1>3, <1>4 DEF Ended, x, q1


\* async_fn once the request has become r.
LEMMA AsyncView ==
    ASSUME NEW q \in Seq(Requests), NEW tt, NEW c, NEW w, NEW i \in DOMAIN q,
           NEW r \in Requests
    PROVE  /\ r.kind = "async" => async_fn(Set(V(q, tt, c, w), i, r), i)
                                    = V(Put(q, i, Ended(r, i)), Without(tt, i), c, w)
           /\ r.kind # "async" => async_fn(Set(V(q, tt, c, w), i, r), i)
                                    = V(Put(q, i, r), tt, c, w)
  <1> DEFINE q1 == Put(q, i, r)
  <1>1. /\ q1 \in Seq(Requests) /\ i \in DOMAIN q1 /\ q1[i] = r
        /\ \A z : Put(q1, i, z) = Put(q, i, z)
    BY DEF Put
  <1>2. Set(V(q, tt, c, w), i, r) = V(q1, tt, c, w)
    BY SetView
  <1> HIDE DEF q1
  <1>3. V(q1, tt, c, w).req = q1
    BY ViewFields
  <1>4. Done(V(q1, tt, c, w), i) = V(Put(q1, i, Ended(q1[i], i)), Without(tt, i), c, w)
    BY <1>1, DoneView
  <1> QED BY <1>1, <1>2, <1>3, <1>4 DEF async_fn, q1

LEMMA BecomeFacts ==
    ASSUME NEW q, NEW tt, NEW c, NEW w, Become(V(q, tt, c, w))
    PROVE  req' = q /\ t' = tt /\ caller' = c /\ wire' = w
  BY ViewFields DEF Become

LEMMA ViewIsV == View = V(req, t, caller, wire)
  BY DEF View, V

-----------------------------------------------------------------------------
(***************************************************************************)
(* A step that concerns request i, which becomes r, and leaves s as the    *)
(* list of pending requests.                                               *)
(***************************************************************************)
Touched(i, r, s) ==
    /\ i \in Live
    /\ req' = [req EXCEPT ![i] = r] /\ r \in Requests
    /\ r.mid = req[i].mid /\ r.kind = req[i].kind
    /\ t' = [t EXCEPT !.pending_recv = s]
    /\ s \in Seq(Id) /\ IsInjective(s)
    /\ \A j \in Id : j # i => (j \in Range(s) <=> j \in Listed)
    /\ i \in Range(s) <=> r.state = "RECV" /\ ~r.freed
    /\ r.state # "INIT"
    /\ r.timer => ~r.freed
    /\ ~r.freed => r.outcome = "waiting"
    /\ ~r.freed => i \in Range(s) \/ i = caller
    /\ caller' = IF r.freed /\ i = caller THEN 0 ELSE caller
    /\ UNCHANGED env

\* What such a step leaves alone.
Kept ==
    /\ UNCHANGED env
    /\ Len(req') = Len(req) /\ Id' = Id
    /\ \A j \in Id : req'[j].mid = req[j].mid /\ req'[j].kind = req[j].kind
    /\ \A j \in Id : req[j].freed => req'[j].freed
    /\ Live' \subseteq Live
    /\ \A j \in Live : j \in Live' \/ req'[j].freed
    /\ t'.next_mid = t.next_mid

LEMMA TouchedInv ==
    ASSUME Typed, Sound, NEW i, NEW r, NEW s, Touched(i, r, s)
    PROVE  Typed' /\ Sound' /\ Kept
  <1>1. /\ req \in Seq(Requests) /\ i \in Id /\ r \in Requests
        /\ t.pending_recv \in Seq(Id) /\ s \in Seq(Id)
        /\ t \in [next_mid : 0 .. MidSpace - 1, pending_recv : Seq(Id), dead : BOOLEAN]
    <2>1. Listed \subseteq Id
      BY DEF Typed, Listed, Range
    <2> QED BY <2>1 DEF Typed, Touched, Live
  <1>2. /\ req' \in Seq(Requests) /\ Len(req') = Len(req) /\ Id' = Id
        /\ req'[i] = r /\ \A j \in Id : j # i => req'[j] = req[j]
    BY <1>1 DEF Touched, Id
  <1>3. /\ t' \in [next_mid : 0 .. MidSpace - 1, pending_recv : Seq(Id), dead : BOOLEAN]
        /\ t'.pending_recv = s /\ t'.next_mid = t.next_mid /\ t'.dead = t.dead
        /\ Listed' = Range(s)
    BY <1>1 DEF Touched, Listed
  <1>4. Requests' = Requests
    BY DEF Touched, Requests
  <1>5. Typed'
    BY <1>1, <1>2, <1>3, <1>4 DEF Typed, Touched
  <1> DEFINE L == Listed
             LL == Live
  <1>9. /\ \A j : j \in LL <=> j \in Id /\ (j \in L \/ j = caller)
        /\ \A j : j \in LL' <=> j \in Id /\ (j \in Range(s) \/ j = caller')
    <2>1. Listed \subseteq Id /\ Range(s) \subseteq Id
      BY <1>1 DEF Listed, Range
    <2> QED BY <1>2, <1>3, <2>1 DEF Live
  <1>10. /\ \A j \in Id : j # i => (j \in Range(s) <=> j \in L)
         /\ i \in LL /\ 0 \notin Id
    BY <1>1 DEF Touched, Id
  <1> HIDE DEF L, LL
  <1>6. LL' \subseteq LL /\ \A j \in LL : j \in LL' \/ req'[j].freed
    <2>1. ASSUME NEW j \in Id, j # i
          PROVE  (j \in LL' => j \in LL) /\ (j \in LL => j \in LL')
      BY <1>1, <1>9, <1>10, <2>1 DEF Touched
    <2>2. i \in LL' \/ req'[i].freed
      BY <1>1, <1>2, <1>9 DEF Touched
    <2> QED BY <1>9, <1>10, <2>1, <2>2
  <1>7. Kept
    <2>1. \A j \in Id : /\ req'[j].mid = req[j].mid /\ req'[j].kind = req[j].kind
                        /\ req[j].freed => req'[j].freed
      <3>1. i = caller \/ i \in Listed => ~req[i].freed
        BY <1>1 DEF Sound
      <3> QED BY <1>1, <1>2, <1>9, <1>10, <3>1 DEF Touched, L
    <2> QED BY <1>2, <1>3, <1>6, <2>1 DEF Kept, Touched, LL
  <1>8. Sound'
    <2>1. \A j \in Id : j \in Listed' <=> req'[j].state = "RECV" /\ ~req'[j].freed
      BY <1>1, <1>2, <1>3 DEF Touched, Sound
    <2>2. \A j \in Id : j = caller' <=> ~req'[j].freed /\ req'[j].kind # "async"
      <3>1. ~req[i].freed
        BY <1>1, <1>9, <1>10 DEF Sound, L
      <3>2. \A j \in Id : j = caller <=> ~req[j].freed /\ req[j].kind # "async"
        BY DEF Sound
      <3>3. /\ caller' = IF r.freed /\ i = caller THEN 0 ELSE caller
            /\ r.kind = req[i].kind
        BY DEF Touched
      <3> QED BY <1>1, <1>2, <1>10, <3>1, <3>2, <3>3
    <2>3. ASSUME NEW j \in Id, ~req'[j].freed
          PROVE  \/ j \in Live' /\ req'[j].outcome = "waiting"
                 \/ req'[j].kind = "async" /\ req'[j].outcome = "refused" /\ ~req'[j].timer
                    /\ req'[j].state = "ERROR"
      <3>1. CASE j = i
        BY <1>2, <1>9, <2>3, <3>1 DEF Touched, LL
      <3>2. CASE j # i
        BY <1>1, <1>2, <1>9, <1>10, <2>3, <3>2 DEF Touched, Sound, LL
      <3> QED BY <3>1, <3>2
    <2>4. \A j, k \in Live' : j # k => req'[j].mid # req'[k].mid
      BY <1>6, <1>7, <1>9 DEF Sound, Kept, LL
    <2>5. \A j \in Id : /\ req'[j].timer => ~req'[j].freed
                        /\ req'[j].state # "INIT"
      BY <1>1, <1>2 DEF Touched, Sound
    <2>6. IsInjective(t'.pending_recv)
      BY <1>3 DEF Touched
    <2> QED BY <1>2, <2>1, <2>2, <2>3, <2>4, <2>5, <2>6 DEF Sound
  <1> QED BY <1>5, <1>7, <1>8


LEMMA WithoutFacts ==
    ASSUME Typed, Sound, NEW i \in Id
    PROVE  LET s == RemoveFirst(t.pending_recv, i)
           IN  /\ s \in Seq(Id) /\ IsInjective(s) /\ Range(s) = Listed \ {i}
               /\ Without(t, i) = [t EXCEPT !.pending_recv = s]
               /\ Without(Without(t, i), i) = Without(t, i)
               /\ i \notin Listed => Without(t, i) = t
  <1> DEFINE s == RemoveFirst(t.pending_recv, i)
  <1>1. /\ t.pending_recv \in Seq(Id) /\ IsInjective(t.pending_recv)
        /\ t \in [next_mid : 0 .. MidSpace - 1, pending_recv : Seq(Id), dead : BOOLEAN]
    BY DEF Typed, Sound
  <1>2. /\ s \in Seq(Id) /\ IsInjective(s) /\ Range(s) = Listed \ {i}
        /\ i \notin Listed => s = t.pending_recv
    BY <1>1, RemoveFirstFacts DEF Listed
  <1>3. RemoveFirst(s, i) = s
    BY <1>2, RemoveFirstFacts
  <1>4. Without(t, i) = [t EXCEPT !.pending_recv = s]
    BY DEF Without
  <1> HIDE DEF s
  <1>5. Without(t, i).pending_recv = s /\ [Without(t, i) EXCEPT !.pending_recv = s] = Without(t, i)
    BY <1>1, <1>2, <1>4
  <1>6. Without(Without(t, i), i) = [Without(t, i) EXCEPT !.pending_recv = RemoveFirst(Without(t, i).pending_recv, i)]
    BY DEF Without
  <1>7. i \notin Listed => Without(t, i) = t
    BY <1>1, <1>2, <1>4
  <1> QED BY <1>2, <1>3, <1>4, <1>5, <1>6, <1>7 DEF s

LEMMA EndedFacts ==
    ASSUME NEW i, NEW r \in Requests
    PROVE  /\ Ended(r, i) \in Requests /\ Ended(r, i).freed /\ ~Ended(r, i).timer
           /\ Ended(r, i).mid = r.mid /\ Ended(r, i).kind = r.kind
           /\ Ended(r, i).state = r.state
           /\ r.outcome = "waiting" => Ended(r, i).outcome = Verdict(r, i)
  <1>1. /\ Freed(r) \in Requests /\ Freed(r).freed /\ ~Freed(r).timer
        /\ Freed(r).mid = r.mid /\ Freed(r).kind = r.kind
        /\ Freed(r).state = r.state /\ Freed(r).outcome = r.outcome
    BY DEF Freed, Requests
  <1>2. Verdict(r, i) \in {"failed", "answered", "wrong answer"}
    BY DEF Verdict
  <1> HIDE DEF Freed, Verdict
  <1> QED BY <1>1, <1>2 DEF Ended, Told, Requests

\* A request that becomes r, which is final, and whose async.fn is called.
Fired(i, r) ==
    /\ Touched(i, IF r.kind = "async" THEN Ended(r, i) ELSE r,
               RemoveFirst(t.pending_recv, i))
    /\ UNCHANGED wire

Final(i, r) ==
    /\ r \in Requests /\ r.mid = req[i].mid /\ r.kind = req[i].kind
    /\ r.state \in {"DONE", "ERROR"} /\ ~r.freed /\ r.outcome = req[i].outcome

LEMMA FiredInv ==
    ASSUME Typed, Sound, UNCHANGED env, NEW i \in Live, NEW r, Final(i, r),
           Become(async_fn(Set(V(req, Without(t, i), caller, wire), i, r), i))
    PROVE  Fired(i, r)
  <1> DEFINE s == RemoveFirst(t.pending_recv, i)
             z == IF r.kind = "async" THEN Ended(r, i) ELSE r
  <1>1. i \in Id /\ req \in Seq(Requests) /\ i \in DOMAIN req /\ ~req[i].freed
    BY DEF Typed, Live, Listed, Range, Id, Sound
  <1>2. /\ s \in Seq(Id) /\ IsInjective(s) /\ Range(s) = Listed \ {i}
        /\ Without(t, i) = [t EXCEPT !.pending_recv = s]
        /\ Without(Without(t, i), i) = Without(t, i)
    BY <1>1, WithoutFacts
  <1>3. Become(V(Put(req, i, z), Without(t, i), caller, wire))
    <2>1. r \in Requests
      BY DEF Final
    <2>2. CASE r.kind = "async"
      BY <1>1, <1>2, <2>1, <2>2, AsyncView
    <2>3. CASE r.kind # "async"
      BY <1>1, <1>2, <2>1, <2>3, AsyncView
    <2> QED BY <2>2, <2>3
  <1>4. /\ req' = [req EXCEPT ![i] = z] /\ t' = [t EXCEPT !.pending_recv = s]
        /\ caller' = caller /\ wire' = wire
    BY <1>2, <1>3, BecomeFacts DEF Put
  <1>5. /\ z \in Requests /\ z.mid = req[i].mid /\ z.kind = req[i].kind
        /\ z.state \in {"DONE", "ERROR"}
        /\ z.timer => ~z.freed
        /\ z.freed <=> z.kind = "async"
        /\ ~z.freed => z.outcome = req[i].outcome
    BY EndedFacts DEF Final
  <1>6. /\ i = caller <=> ~req[i].freed /\ req[i].kind # "async"
        /\ req[i].outcome = "waiting" \/ req[i].kind = "async"
    BY <1>1 DEF Sound
  <1> HIDE DEF s, z
  <1>7. /\ \A j \in Id : j # i => (j \in Range(s) <=> j \in Listed)
        /\ i \notin Range(s)
    BY <1>2
  <1>8. Touched(i, z, s)
    BY <1>1, <1>2, <1>4, <1>5, <1>6, <1>7 DEF Touched
  <1> QED BY <1>4, <1>8 DEF Fired, z, s


-----------------------------------------------------------------------------
(***************************************************************************)
(* The steps that concern one request.                                     *)
(***************************************************************************)
Answered(r, p) == [r EXCEPT !.state = "DONE", !.parts = Append(r.parts, <<p.id, p.part>>)]
Failed(r) == [r EXCEPT !.state = "ERROR"]
TimedOut(r) == [r EXCEPT !.state = "ERROR", !.timer = FALSE]

LEMMA LiveFacts ==
    ASSUME Typed, Sound, NEW i \in Live
    PROVE  /\ i \in Id /\ i \in DOMAIN req /\ req[i] \in Requests /\ ~req[i].freed
           /\ req[i].outcome = "waiting" /\ req \in Seq(Requests)
  <1>1. i \in Id /\ i \in DOMAIN req /\ req \in Seq(Requests)
    BY DEF Typed, Live, Listed, Range, Id
  <1>2. req[i] \in Requests
    BY <1>1
  <1>3. ~req[i].freed
    BY <1>1 DEF Sound, Live
  <1>4. req[i].outcome = "waiting"
    <2>1. CASE i \in Listed
      BY <1>1, <1>3, <2>1 DEF Sound
    <2>2. CASE i = caller
      BY <1>1, <1>3, <2>2 DEF Sound
    <2> QED BY <2>1, <2>2 DEF Live
  <1> QED BY <1>1, <1>2, <1>3, <1>4

LEMMA FinalFacts ==
    ASSUME Typed, Sound, NEW i \in Live
    PROVE  /\ Final(i, Failed(req[i])) /\ Final(i, TimedOut(req[i]))
           /\ \A p : <<p.id, p.part>> \in (1 .. MaxReq) \X (0 .. 2) =>
                 Final(i, Answered(req[i], p))
  <1>1. req[i] \in Requests /\ ~req[i].freed
    BY LiveFacts
  <1>2. Final(i, Failed(req[i])) /\ Final(i, TimedOut(req[i]))
    BY <1>1 DEF Final, Failed, TimedOut, Requests
  <1>3. ASSUME NEW p, <<p.id, p.part>> \in (1 .. MaxReq) \X (0 .. 2)
        PROVE  Final(i, Answered(req[i], p))
    <2>1. Append(req[i].parts, <<p.id, p.part>>) \in Seq((1 .. MaxReq) \X (0 .. 2))
      <3>1. req[i].parts \in Seq((1 .. MaxReq) \X (0 .. 2))
        BY <1>1 DEF Requests
      <3> QED BY <1>3, <3>1, AppendProperties
    <2> DEFINE a == Append(req[i].parts, <<p.id, p.part>>)
               r == [req[i] EXCEPT !.state = "DONE", !.parts = a]
    <2>2. Answered(req[i], p) = r
      BY DEF Answered
    <2> HIDE DEF a
    <2>3. /\ r \in Requests /\ r.mid = req[i].mid /\ r.kind = req[i].kind
          /\ r.state = "DONE" /\ r.freed = req[i].freed /\ r.outcome = req[i].outcome
      BY <1>1, <2>1 DEF Requests, a
    <2> QED BY <1>1, <2>2, <2>3 DEF Final
  <1> QED BY <1>2, <1>3

\* smbcli_transport_dead.
LEMMA DeadFired ==
    ASSUME Typed, Sound, UNCHANGED env, smbcli_transport_dead
    PROVE  \E i \in Live : Fired(i, Failed(req[i]))
  <1> DEFINE i == Head(t.pending_recv)
  <1>1. t.pending_recv \in Seq(Id) /\ t.pending_recv # <<>>
    BY DEF Typed, smbcli_transport_dead, Dying
  <1>2. i \in Live
    BY <1>1 DEF Live, Listed, Range
  <1>3. Become(async_fn(Set(DLIST_REMOVE(View, i), i, Failed(req[i])), i))
    BY DEF smbcli_transport_dead, Failed
  <1> HIDE DEF i
  <1>4. Become(async_fn(Set(V(req, Without(t, i), caller, wire), i, Failed(req[i])), i))
    BY <1>3, ViewIsV, RemoveView
  <1> QED BY <1>2, <1>4, FinalFacts, FiredInv

\* smbcli_timeout_handler: it only fires for a request somebody waits for.
LEMMA TimeoutFired ==
    ASSUME Typed, Sound, UNCHANGED env, NEW i \in Id, smbcli_timeout_handler(i)
    PROVE  i \in Live /\ Fired(i, TimedOut(req[i]))
  <1>1. i \in Live /\ (req[i].state # "RECV" => i \notin Listed)
    BY DEF smbcli_timeout_handler, Sound
  <1>2. PICK x \in {View, DLIST_REMOVE(View, i)} :
           /\ x = IF req[i].state = "RECV" THEN DLIST_REMOVE(View, i) ELSE View
           /\ Become(async_fn(Set(x, i, TimedOut(req[i])), i))
    BY DEF smbcli_timeout_handler, TimedOut
  <1>3. x = V(req, Without(t, i), caller, wire)
    <2>1. i \notin Listed => Without(t, i) = t
      BY WithoutFacts
    <2> QED BY <1>1, <1>2, <2>1, ViewIsV, RemoveView
  <1>4. Become(async_fn(Set(V(req, Without(t, i), caller, wire), i, TimedOut(req[i])), i))
    BY <1>2, <1>3
  <1> QED BY <1>1, <1>4, FinalFacts, FiredInv

LEMMA MatchingFacts ==
    ASSUME Typed, NEW mid
    PROVE  /\ Matching(mid) # 0 => Matching(mid) \in Listed /\ req[Matching(mid)].mid = mid
           /\ Matching(mid) = 0 => \A i \in Listed : req[i].mid # mid
  <1> DEFINE ks == {k \in DOMAIN t.pending_recv : req[t.pending_recv[k]].mid = mid}
  <1>1. /\ DOMAIN t.pending_recv = 1 .. Len(t.pending_recv) /\ Len(t.pending_recv) \in Nat
        /\ \A k \in DOMAIN t.pending_recv : t.pending_recv[k] \in Id /\ t.pending_recv[k] # 0
    BY DEF Typed, Id
  <1>2. ks \in SUBSET Nat
    BY <1>1
  <1>3. Matching(mid) = IF ks = {} THEN 0 ELSE t.pending_recv[Min(ks)]
    BY DEF Matching
  <1>4. CASE ks = {}
    BY <1>3, <1>4 DEF Listed, Range
  <1>5. CASE ks # {}
    <2>1. Min(ks) \in ks
      BY <1>2, <1>5, MinFacts
    <2> QED BY <1>1, <1>3, <1>5, <2>1 DEF Listed, Range
  <1> QED BY <1>4, <1>5

\* smbcli_transport_finish_recv: the packet is dropped, or given to the request
\* with its mid.
LEMMA FinishFired ==
    ASSUME Typed, Sound, Addressed, UNCHANGED env, smbcli_transport_finish_recv
    PROVE  LET p == Head(replies)
               i == Matching(p.mid)
           IN  IF i = 0 THEN UNCHANGED <<req, t, caller, wire>>
               ELSE i \in Live /\ (Fired(i, Failed(req[i])) \/ Fired(i, Answered(req[i], p)))
  <1> DEFINE p == Head(replies)
             i == Matching(p.mid)
  <1>1. replies \in Seq(Packets) /\ replies # <<>>
    BY DEF Addressed, smbcli_transport_finish_recv
  <1>2. p \in Packets /\ p \in InFlight
    BY <1>1 DEF InFlight, Range
  <1>3. /\ i = 0 => UNCHANGED <<req, t, caller, wire>>
        /\ i # 0 => \/ Become(async_fn(Set(DLIST_REMOVE(View, i), i, Answered(req[i], p)), i))
                    \/ Become(async_fn(Set(DLIST_REMOVE(View, i), i, Failed(req[i])), i))
    BY DEF smbcli_transport_finish_recv, Answered, Failed
  <1>4. <<p.id, p.part>> \in (1 .. MaxReq) \X (0 .. 2)
    BY <1>2 DEF Packets
  <1>5. i # 0 => i \in Live
    BY MatchingFacts DEF Live
  <1> HIDE DEF p, i
  <1>6. CASE i # 0
    <2>1. DLIST_REMOVE(View, i) = V(req, Without(t, i), caller, wire)
      BY ViewIsV, RemoveView
    <2>2. Final(i, Failed(req[i])) /\ Final(i, Answered(req[i], p))
      BY <1>4, <1>5, <1>6, FinalFacts
    <2>3. CASE Become(async_fn(Set(DLIST_REMOVE(View, i), i, Answered(req[i], p)), i))
      BY <1>5, <1>6, <2>1, <2>2, <2>3, FiredInv DEF p, i
    <2>4. CASE Become(async_fn(Set(DLIST_REMOVE(View, i), i, Failed(req[i])), i))
      BY <1>5, <1>6, <2>1, <2>2, <2>4, FiredInv DEF p, i
    <2> QED BY <1>3, <1>6, <2>3, <2>4
  <1> QED BY <1>3, <1>6 DEF p, i

\* A caller that gives up.
LEMMA GiveUpTouched ==
    ASSUME Typed, Sound, UNCHANGED env, GiveUp
    PROVE  /\ \E i \in Live : Touched(i, Told(Freed(req[i]), "given up"),
                                      RemoveFirst(t.pending_recv, i))
           /\ UNCHANGED <<wire, server, replies>>
  <1>1. PICK i \in Id : /\ req[i].kind = "async" /\ ~req[i].freed /\ req[i].state = "RECV"
                        /\ Become(Outcome(smbcli_request_destroy(View, i), i, "given up"))
    BY DEF GiveUp
  <1> DEFINE s == RemoveFirst(t.pending_recv, i)
             r == Told(Freed(req[i]), "given up")
  <1>2. i \in Live /\ i # caller
    BY <1>1 DEF Sound, Live
  <1>3. /\ s \in Seq(Id) /\ IsInjective(s) /\ Range(s) = Listed \ {i}
        /\ Without(t, i) = [t EXCEPT !.pending_recv = s]
    BY WithoutFacts
  <1>4. smbcli_request_destroy(View, i)
        = V(Put(req, i, Freed(req[i])), Without(t, i), caller, wire)
    BY ViewIsV, DestroyView
  <1>5. i \in DOMAIN req /\ req \in Seq(Requests) /\ req[i] \in Requests
        /\ req[i].outcome = "waiting"
    BY <1>2, LiveFacts
  <1>6. /\ Put(req, i, Freed(req[i]))[i] = Freed(req[i])
        /\ Put(Put(req, i, Freed(req[i])), i, r) = [req EXCEPT ![i] = r]
    BY <1>5 DEF Put
  <1>7. /\ r \in Requests /\ r.freed /\ ~r.timer /\ r.state = req[i].state
        /\ r.mid = req[i].mid /\ r.kind = req[i].kind
    <2>1. /\ Freed(req[i]) \in Requests /\ Freed(req[i]).freed /\ ~Freed(req[i]).timer
          /\ Freed(req[i]).mid = req[i].mid /\ Freed(req[i]).kind = req[i].kind
          /\ Freed(req[i]).state = req[i].state
      BY <1>5 DEF Freed, Requests
    <2> HIDE DEF Freed
    <2> QED BY <2>1 DEF Told, Requests
  <1> HIDE DEF s, r
  <1>8. /\ req' = [req EXCEPT ![i] = r] /\ t' = [t EXCEPT !.pending_recv = s]
        /\ UNCHANGED <<caller, wire>>
    <2> DEFINE q == Put(req, i, Freed(req[i]))
               told == "given up"
    <2> HIDE DEF q, told
    <2>0. Outcome(V(q, Without(t, i), caller, wire), i, told)
          = V(Put(q, i, Told(q[i], told)), Without(t, i), caller, wire)
      BY OutcomeView
    <2>1. Become(V(Put(Put(req, i, Freed(req[i])), i, r), Without(t, i), caller, wire))
      BY <1>1, <1>4, <1>6, <2>0 DEF r, q, told
    <2>2. /\ req' = Put(Put(req, i, Freed(req[i])), i, r) /\ t' = Without(t, i)
          /\ UNCHANGED <<caller, wire>>
      BY <2>1, BecomeFacts
    <2> QED BY <1>3, <1>6, <2>2
  <1>9. Touched(i, r, s)
    BY <1>1, <1>2, <1>3, <1>7, <1>8 DEF Touched
  <1> QED BY <1>2, <1>8, <1>9 DEF GiveUp, r, s


\* A synchronous caller that goes on waiting.
Resumed(r) == [r EXCEPT !.state = "RECV"]
Second(r) == [r EXCEPT !.state = "RECV", !.phase = "reply"]

Whole(i) == req[i].state = "ERROR" \/ Len(req[i].parts) = Len(Parts(req[i].kind))

Returned(i) ==
    /\ Whole(i)
    /\ Touched(i, Ended(req[i], i), RemoveFirst(t.pending_recv, i)) /\ UNCHANGED wire

Continued(i) ==
    /\ ~Whole(i) /\ req[i].phase = "interim"
    /\ Touched(i, Second(req[i]), <<i>> \o t.pending_recv)
    /\ wire' = Append(wire, packet(i, req[i].mid, 1))

Waited(i) ==
    /\ ~Whole(i) /\ req[i].phase # "interim"
    /\ Touched(i, Resumed(req[i]), <<i>> \o t.pending_recv) /\ UNCHANGED wire

LEMMA ReceiveTouched ==
    ASSUME Typed, Sound, UNCHANGED env, smbcli_request_receive
    PROVE  /\ caller \in Live /\ caller \notin Listed /\ req[caller].state \in {"DONE", "ERROR"}
           /\ Returned(caller) \/ Continued(caller) \/ Waited(caller)
           /\ UNCHANGED <<server, replies>>
  <1> DEFINE i == caller
             e == Ended(req[i], i)
             s == RemoveFirst(t.pending_recv, i)
             a == <<i>> \o t.pending_recv
  <1>1. i \in Id /\ i \in Live /\ i # 0
    BY DEF Typed, smbcli_request_receive, CallerReady, Live
  <1>2. /\ req[i] \in Requests /\ ~req[i].freed /\ req[i].outcome = "waiting"
        /\ req \in Seq(Requests) /\ i \in DOMAIN req /\ i \in Id
    BY <1>1, LiveFacts
  <1>3. req[i].state \in {"DONE", "ERROR"} /\ i \notin Listed
    <2>1. req[i].state \notin {"INIT", "RECV"}
      BY DEF smbcli_request_receive, CallerReady
    <2>2. req[i].state \in {"INIT", "RECV", "DONE", "ERROR"}
      BY <1>2 DEF Requests
    <2> QED BY <1>2, <2>1, <2>2 DEF Sound
  <1>4. /\ s \in Seq(Id) /\ IsInjective(s) /\ Range(s) = Listed \ {i}
        /\ Without(t, i) = [t EXCEPT !.pending_recv = s]
    BY <1>2, WithoutFacts
  <1>5. a \in Seq(Id) /\ IsInjective(a) /\ Range(a) = Listed \cup {i}
    <2>1. t.pending_recv \in Seq(Id) /\ IsInjective(t.pending_recv) /\ i \notin Range(t.pending_recv)
      BY <1>3 DEF Typed, Sound, Listed
    <2> QED BY <1>2, <2>1, AddFacts DEF Listed
  <1>6. DOMAIN req = Id /\ With(t, i) = [t EXCEPT !.pending_recv = a]
    BY DEF Id, With
  <1>7. Complete(View, i) <=> Whole(i)
    BY DEF Complete, Whole, View
  <1>8. UNCHANGED <<server, replies>>
    BY DEF smbcli_request_receive
  <1>9. Become(IF Complete(View, i) THEN Done([View EXCEPT !.caller = 0], i)
               ELSE IF req[i].phase = "interim"
               THEN [Set(receive_more(View, i), i,
                         [receive_more(View, i).req[i] EXCEPT !.phase = "reply"]) EXCEPT
                        !.wire = Append(@, packet(i, req[i].mid, 1))]
               ELSE receive_more(View, i))
    BY DEF smbcli_request_receive
  <1>10. receive_more(View, i) = V(Put(req, i, Resumed(req[i])), With(t, i), caller, wire)
    <2>1. View.req = req
      BY DEF View
    <2>2. receive_more(View, i) = Set(DLIST_ADD(View, i), i, Resumed(req[i]))
      BY <2>1 DEF receive_more, Resumed
    <2> QED BY <2>2, ViewIsV, AddView, SetView
  <1>11. \A j \in Id : j # i => (j \in Range(s) <=> j \in Listed) /\ (j \in Range(a) <=> j \in Listed)
    BY <1>4, <1>5
  <1> HIDE DEF i, e, s, a
  <1>12. CASE Whole(i)
    <2>1. [View EXCEPT !.caller = 0] = V(req, t, 0, wire)
      BY DEF View, V
    <2>2. Done(V(req, t, 0, wire), i) = V(Put(req, i, e), Without(t, i), 0, wire)
      BY <1>2, DoneView DEF e
    <2>3. req' = [req EXCEPT ![i] = e] /\ t' = [t EXCEPT !.pending_recv = s]
          /\ caller' = 0 /\ UNCHANGED wire
      BY <1>4, <1>7, <1>9, <1>12, <2>1, <2>2, BecomeFacts DEF Put
    <2>4. /\ e \in Requests /\ e.freed /\ ~e.timer /\ e.state = req[i].state
          /\ e.mid = req[i].mid /\ e.kind = req[i].kind
      BY <1>2, EndedFacts DEF e
    <2>5. Touched(i, e, s)
      BY <1>1, <1>3, <1>4, <1>11, <2>3, <2>4 DEF Touched, i
    <2> QED BY <1>1, <1>3, <1>8, <1>12, <2>3, <2>5 DEF Returned, i, e, s
  <1>13. CASE ~Whole(i) /\ req[i].phase # "interim"
    <2> DEFINE r == Resumed(req[i])
    <2>1. Become(V(Put(req, i, r), With(t, i), caller, wire))
      BY <1>7, <1>9, <1>10, <1>13
    <2>2. /\ r \in Requests /\ ~r.freed /\ r.state = "RECV" /\ r.outcome = "waiting"
          /\ r.mid = req[i].mid /\ r.kind = req[i].kind
      BY <1>2 DEF Resumed, Requests
    <2> HIDE DEF r
    <2>3. req' = [req EXCEPT ![i] = r] /\ t' = [t EXCEPT !.pending_recv = a]
          /\ UNCHANGED caller /\ UNCHANGED wire
      BY <1>6, <2>1, BecomeFacts DEF Put
    <2>4. Touched(i, r, a)
      BY <1>1, <1>3, <1>5, <1>11, <2>2, <2>3 DEF Touched
    <2> QED BY <1>1, <1>3, <1>8, <1>13, <2>3, <2>4 DEF Waited, i, a, r
  <1>14. CASE ~Whole(i) /\ req[i].phase = "interim"
    <2> DEFINE r == Second(req[i])
               q == Put(req, i, Resumed(req[i]))
               p == packet(i, req[i].mid, 1)
    <2>1. q[i] = Resumed(req[i]) /\ Put(q, i, r) = [req EXCEPT ![i] = r]
          /\ r = [q[i] EXCEPT !.phase = "reply"]
      BY <1>2 DEF Put, Resumed, Second, Requests
    <2>2. /\ r \in Requests /\ ~r.freed /\ r.state = "RECV" /\ r.outcome = "waiting"
          /\ r.mid = req[i].mid /\ r.kind = req[i].kind
      BY <1>2 DEF Second, Requests
    <2>3. Become([Set(receive_more(View, i), i,
                      [receive_more(View, i).req[i] EXCEPT !.phase = "reply"]) EXCEPT
                     !.wire = Append(@, packet(i, req[i].mid, 1))])
      BY <1>7, <1>9, <1>14
    <2> HIDE DEF r, q, p
    <2>4. receive_more(View, i) = V(q, With(t, i), caller, wire)
      BY <1>10 DEF q
    <2>5. V(q, With(t, i), caller, wire).req = q
      BY ViewFields
    <2>6. Become([Set(V(q, With(t, i), caller, wire), i, r) EXCEPT !.wire = Append(@, p)])
      BY <2>1, <2>3, <2>4, <2>5 DEF p
    <2>7. Set(V(q, With(t, i), caller, wire), i, r) = V(Put(q, i, r), With(t, i), caller, wire)
      BY SetView
    <2>8. Become(V(Put(q, i, r), With(t, i), caller, Append(wire, p)))
      <3> DEFINE x == V(Put(q, i, r), With(t, i), caller, wire)
                 w == Append(wire, p)
      <3>1. Become([x EXCEPT !.wire = Append(x.wire, p)])
        BY <2>6, <2>7
      <3>2. x.wire = wire
        BY ViewFields
      <3> HIDE DEF w
      <3>3. [x EXCEPT !.wire = w] = V(Put(q, i, r), With(t, i), caller, w)
        BY ViewFields
      <3> HIDE DEF x
      <3>4. Become([x EXCEPT !.wire = w])
        BY <3>1, <3>2 DEF w
      <3> QED BY <3>3, <3>4 DEF w
    <2>9. req' = [req EXCEPT ![i] = r] /\ t' = [t EXCEPT !.pending_recv = a]
          /\ UNCHANGED caller /\ wire' = Append(wire, p)
      BY <1>6, <2>1, <2>8, BecomeFacts
    <2>10. Touched(i, r, a)
      BY <1>1, <1>3, <1>5, <1>11, <2>2, <2>9 DEF Touched
    <2> QED BY <1>1, <1>3, <1>8, <1>14, <2>9, <2>10 DEF Continued, i, a, r, p
  <1> QED BY <1>12, <1>13, <1>14 DEF i


-----------------------------------------------------------------------------
(***************************************************************************)
(* Allocation of mids.  off is the number of mids from a on up to x, in    *)
(* the order in which they are handed out.                                 *)
(***************************************************************************)
LEMMA AtFacts ==
    ASSUME NEW a \in 0 .. MidSpace - 1
    PROVE  /\ \A k \in 0 .. MidSpace - 1 :
                 /\ (a + k) % MidSpace \in 0 .. MidSpace - 1
                 /\ off(a, (a + k) % MidSpace) = k
           /\ \A x \in 0 .. MidSpace - 1 :
                 /\ off(a, x) \in 0 .. MidSpace - 1
                 /\ (a + off(a, x)) % MidSpace = x
  <1>1. MidSpace \in Nat \ {0}
    BY BoundsAssumption
  <1>2. ASSUME NEW b \in Int, 0 <= b, b < MidSpace
        PROVE  b % MidSpace = b
    BY <1>1, <1>2
  <1>3. ASSUME NEW b \in Int, MidSpace <= b, b < MidSpace + MidSpace
        PROVE  b % MidSpace = b - MidSpace
    BY <1>1, <1>3
  <1>4. ASSUME NEW k \in 0 .. MidSpace - 1
        PROVE  /\ (a + k) % MidSpace \in 0 .. MidSpace - 1
               /\ off(a, (a + k) % MidSpace) = k
    <2>1. CASE a + k < MidSpace
      <3>1. (a + k) % MidSpace = a + k
        BY <1>1, <1>2, <2>1
      <3> QED BY <1>1, <2>1, <3>1 DEF off
    <2>2. CASE a + k >= MidSpace
      <3>1. (a + k) % MidSpace = a + k - MidSpace
        BY <1>1, <1>3, <2>2
      <3> QED BY <1>1, <2>2, <3>1 DEF off
    <2> QED BY <1>1, <2>1, <2>2
  <1>5. ASSUME NEW x \in 0 .. MidSpace - 1
        PROVE  /\ off(a, x) \in 0 .. MidSpace - 1
               /\ (a + off(a, x)) % MidSpace = x
    <2>1. CASE x >= a
      <3>1. off(a, x) = x - a /\ a + off(a, x) = x
        BY <1>1, <2>1 DEF off
      <3> QED BY <1>1, <1>2, <2>1, <3>1
    <2>2. CASE x < a
      <3>1. off(a, x) = x - a + MidSpace /\ a + off(a, x) = x + MidSpace
        BY <1>1, <2>2 DEF off
      <3> QED BY <1>1, <1>3, <2>2, <3>1
    <2> QED BY <1>1, <2>1, <2>2
  <1> QED BY <1>4, <1>5

LEMMA PendingMids ==
    ASSUME Typed
    PROVE  /\ IsFiniteSet(pending_mids) /\ Cardinality(pending_mids) <= Len(t.pending_recv)
           /\ \A m : m \in pending_mids <=> \E i \in Listed : req[i].mid = m
  <1> DEFINE n == Len(t.pending_recv)
             f == [k \in 1 .. n |-> req[t.pending_recv[k]].mid]
  <1>1. n \in Nat /\ DOMAIN t.pending_recv = 1 .. n
    BY DEF Typed
  <1>2. f \in Surjection(1 .. n, pending_mids)
    <2>1. \A m \in pending_mids : \E k \in 1 .. n : f[k] = m
      BY <1>1 DEF pending_mids
    <2>2. \A k \in 1 .. n : f[k] \in pending_mids
      BY <1>1 DEF pending_mids
    <2>3. f = [k \in 1 .. n |-> f[k]]
      OBVIOUS
    <2> HIDE DEF f
    <2>4. f \in [1 .. n -> pending_mids]
      BY <2>2, <2>3
    <2> QED BY <2>1, <2>4 DEF Surjection
  <1> HIDE DEF n
  <1>3. IsFiniteSet(1 .. n) /\ Cardinality(1 .. n) = n
    <2>1. 1 \in Int /\ n \in Int
      BY <1>1
    <2>2. IsFiniteSet(1 .. n) /\ Cardinality(1 .. n) = IF 1 > n THEN 0 ELSE n - 1 + 1
      BY <2>1, FS_Interval
    <2> QED BY <1>1, <2>2
  <1>4. IsFiniteSet(pending_mids) /\ Cardinality(pending_mids) <= Cardinality(1 .. n)
    BY <1>2, <1>3, FS_Surjection
  <1> QED BY <1>3, <1>4 DEF pending_mids, Listed, Range, n

\* smbcli_transport_next_mid finds a mid that no pending request has, the first
\* one from next_mid on.
LEMMA NextMidFacts ==
    ASSUME Typed, Len(t.pending_recv) < MaxPending
    PROVE  LET mid == smbcli_transport_next_mid
           IN  /\ mid \in Mid /\ \A i \in Listed : req[i].mid # mid
               /\ \A m \in Mid : (\A i \in Listed : req[i].mid # m) =>
                     off(t.next_mid, mid) <= off(t.next_mid, m)
  <1> DEFINE at(k) == (t.next_mid + k) % MidSpace
             free == {k \in 0 .. MidSpace - 1 : at(k) \notin {0} \cup pending_mids}
             mid == at(Min(free))
  <1>1. /\ MidSpace \in Nat /\ MidSpace > 0 /\ MaxPending \in Nat /\ MaxPending < MidSpace - 1
        /\ t.next_mid \in 0 .. MidSpace - 1 /\ Len(t.pending_recv) \in Nat
    BY BoundsAssumption DEF Typed
  <1>2. /\ \A k \in 0 .. MidSpace - 1 : at(k) \in 0 .. MidSpace - 1 /\ off(t.next_mid, at(k)) = k
        /\ \A x \in 0 .. MidSpace - 1 :
              off(t.next_mid, x) \in 0 .. MidSpace - 1 /\ at(off(t.next_mid, x)) = x
    BY <1>1, AtFacts
  <1>3. free # {}
    <2>1. IsFiniteSet(Mid) /\ Cardinality(Mid) = MidSpace - 1
      BY <1>1, FS_Interval DEF Mid
    <2>2. IsFiniteSet(pending_mids) /\ Cardinality(pending_mids) < MidSpace - 1
      <3>1. Cardinality(pending_mids) \in Nat
        BY PendingMids, FS_CardinalityType
      <3> QED BY <1>1, <3>1, PendingMids
    <2>3. ~(Mid \subseteq pending_mids)
      <3>1. SUFFICES ASSUME Mid \subseteq pending_mids PROVE FALSE
        OBVIOUS
      <3>2. Cardinality(Mid) <= Cardinality(pending_mids)
        BY <2>2, <3>1, FS_Subset
      <3>3. Cardinality(pending_mids) \in Nat
        BY <2>2, FS_CardinalityType
      <3> QED BY <1>1, <2>1, <2>2, <3>2, <3>3
    <2>4. PICK m \in Mid : m \notin pending_mids
      BY <2>3
    <2>5. m \in 0 .. MidSpace - 1 /\ m # 0
      BY <1>1 DEF Mid
    <2>6. off(t.next_mid, m) \in free
      BY <1>2, <2>4, <2>5
    <2> QED BY <2>6
  <1>4. Min(free) \in free /\ \A k \in free : Min(free) <= k
    <2>1. free \in SUBSET Nat
      OBVIOUS
    <2> QED BY <1>3, <2>1, MinFacts
  <1>5. mid \in Mid /\ mid \notin pending_mids /\ off(t.next_mid, mid) = Min(free)
    <2>1. PICK k \in 0 .. MidSpace - 1 : k = Min(free) /\ at(k) \notin {0} \cup pending_mids
      BY <1>4
    <2>2. at(k) \in 0 .. MidSpace - 1 /\ off(t.next_mid, at(k)) = k
      BY <1>2
    <2>3. mid = at(k)
      BY <2>1
    <2> HIDE DEF at, mid, free
    <2>4. at(k) \in Mid
      BY <1>1, <2>1, <2>2 DEF Mid
    <2> QED BY <2>1, <2>2, <2>3, <2>4
  <1>6. ASSUME NEW m \in Mid, \A i \in Listed : req[i].mid # m
        PROVE  off(t.next_mid, mid) <= off(t.next_mid, m)
    <2>1. m \in 0 .. MidSpace - 1 /\ m # 0
      BY <1>1 DEF Mid
    <2>2. m \notin pending_mids
      BY <1>6, PendingMids
    <2>3. off(t.next_mid, m) \in free
      BY <1>2, <2>1, <2>2
    <2> QED BY <1>4, <1>5, <2>3
  <1>7. smbcli_transport_next_mid = mid
    BY DEF smbcli_transport_next_mid
  <1> HIDE DEF mid
  <1> QED BY <1>5, <1>6, <1>7, PendingMids


-----------------------------------------------------------------------------
(***************************************************************************)
(* A new request.                                                          *)
(***************************************************************************)
Refused(kind, mid) ==
    [smbcli_request_setup(kind, mid) EXCEPT
        !.state = "ERROR", !.outcome = IF kind = "async" THEN "refused" ELSE "waiting"]

Accepted(kind, mid) ==
    [smbcli_request_setup(kind, mid) EXCEPT !.state = "RECV", !.timer = TRUE]

Sent(kind, mid, dead) == IF dead THEN Refused(kind, mid) ELSE Accepted(kind, mid)

\* t once request i has been sent with this mid.
Queued(i, mid) ==
    [t EXCEPT !.next_mid = (mid + 1) % MidSpace,
              !.pending_recv = IF t.dead THEN t.pending_recv ELSE <<i>> \o t.pending_recv]

Submitted(kind, i, mid) ==
    /\ req' = Append(req, Sent(kind, mid, t.dead))
    /\ t' = Queued(i, mid)
    /\ caller' = IF kind = "async" THEN caller ELSE i
    /\ wire' = IF t.dead THEN wire
               ELSE Append(wire, packet(i, mid, IF kind = "trans" THEN 0 ELSE 1))

LEMMA PutLast ==
    ASSUME NEW S, NEW s \in Seq(S), NEW f \in S, NEW r \in S
    PROVE  Put(Append(s, f), Len(s) + 1, r) = Append(s, r) /\ Append(s, f)[Len(s) + 1] = f
  <1> DEFINE n == Len(s) + 1
             a == Append(s, f)
             b == Append(s, r)
  <1>1. /\ a \in Seq(S) /\ Len(a) = n /\ a[n] = f
        /\ \A k \in 1 .. Len(s) : a[k] = s[k]
    BY AppendProperties
  <1>2. /\ b \in Seq(S) /\ Len(b) = n /\ b[n] = r
        /\ \A k \in 1 .. Len(s) : b[k] = s[k]
    BY AppendProperties
  <1>3. Len(s) \in Nat
    OBVIOUS
  <1> HIDE DEF a, b
  <1>4. [a EXCEPT ![n] = r] \in Seq(S) /\ Len([a EXCEPT ![n] = r]) = n
    BY <1>1, <1>3
  <1>5. \A k \in 1 .. n : [a EXCEPT ![n] = r][k] = b[k]
    BY <1>1, <1>2, <1>3
  <1>6. [a EXCEPT ![n] = r] = b
    BY <1>2, <1>4, <1>5, SeqEqual
  <1> QED BY <1>1, <1>6 DEF Put, a, b

LEMMA SentFacts ==
    ASSUME NEW kind \in env.callers, NEW mid \in Mid
    PROVE  LET f == smbcli_request_setup(kind, mid)
           IN  /\ f \in Requests /\ f.kind = kind /\ f.mid = mid /\ f.outcome = "waiting"
               /\ Refused(kind, mid) \in Requests /\ Accepted(kind, mid) \in Requests
  <1> DEFINE f == smbcli_request_setup(kind, mid)
  <1>1. f \in Requests /\ f.kind = kind /\ f.mid = mid /\ f.outcome = "waiting"
    BY DEF smbcli_request_setup, Requests
  <1> HIDE DEF f
  <1>2. Refused(kind, mid) = [f EXCEPT !.state = "ERROR", !.outcome = IF kind = "async" THEN "refused" ELSE "waiting"]
        /\ Accepted(kind, mid) = [f EXCEPT !.state = "RECV", !.timer = TRUE]
    BY DEF Refused, Accepted, f
  <1>3. Refused(kind, mid) \in Requests /\ Accepted(kind, mid) \in Requests
    BY <1>1, <1>2 DEF Requests
  <1> QED BY <1>1, <1>3 DEF f

LEMMA QueuedFacts ==
    ASSUME Typed, NEW i, NEW mid
    PROVE  LET tt == [t EXCEPT !.next_mid = (mid + 1) % MidSpace]
           IN  /\ tt.dead = t.dead
               /\ t.dead => Queued(i, mid) = tt
               /\ ~t.dead => Queued(i, mid) = With(tt, i)
  <1> DEFINE n == (mid + 1) % MidSpace
             tt == [t EXCEPT !.next_mid = n]
  <1>1. t \in [next_mid : 0 .. MidSpace - 1, pending_recv : Seq(Id), dead : BOOLEAN]
    BY DEF Typed
  <1>2. t.dead => Queued(i, mid) = [t EXCEPT !.next_mid = n, !.pending_recv = t.pending_recv]
    BY DEF Queued
  <1>3. ~t.dead => Queued(i, mid) = [t EXCEPT !.next_mid = n,
                                             !.pending_recv = <<i>> \o t.pending_recv]
    BY DEF Queued
  <1> HIDE DEF n
  <1>4. tt.dead = t.dead /\ tt.pending_recv = t.pending_recv
        /\ tt = [t EXCEPT !.next_mid = n, !.pending_recv = t.pending_recv]
    BY <1>1
  <1>5. With(tt, i) = [t EXCEPT !.next_mid = n, !.pending_recv = <<i>> \o t.pending_recv]
    BY <1>1, <1>4 DEF With
  <1> QED BY <1>2, <1>3, <1>4, <1>5 DEF n

LEMMA SendEffect ==
    ASSUME Typed, NEW kind \in env.callers, smbcli_request_send(kind)
    PROVE  Submitted(kind, Len(req) + 1, smbcli_transport_next_mid)
  <1> DEFINE i == Len(req) + 1
             mid == smbcli_transport_next_mid
             f == smbcli_request_setup(kind, mid)
             q == Append(req, f)
             tt == [t EXCEPT !.next_mid = (mid + 1) % MidSpace]
             B == kind \in {"sync", "trans"}
             c == IF B THEN i ELSE caller
             x == [req |-> q, t |-> tt, caller |-> c, wire |-> wire]
  <1>1. Become(smbcli_transport_send(x, i))
    BY DEF smbcli_request_send
  <1>2. mid \in Mid
    BY NextMidFacts DEF smbcli_request_send
  <1>3. c = IF kind = "async" THEN caller ELSE i
    BY ScenariosAssumption DEF Typed, Scenario
  <1>4. t.dead \in BOOLEAN /\ req \in Seq(Requests)
    BY DEF Typed
  <1> HIDE DEF mid
  <1>5. /\ f \in Requests /\ f.kind = kind /\ f.mid = mid /\ f.outcome = "waiting"
        /\ Refused(kind, mid) \in Requests /\ Accepted(kind, mid) \in Requests
    BY <1>2, SentFacts
  <1>6. tt.dead = t.dead /\ (t.dead => Queued(i, mid) = tt)
        /\ (~t.dead => Queued(i, mid) = With(tt, i))
    BY QueuedFacts
  <1> HIDE DEF f
  <1>7. q[i] = f /\ \A r \in Requests : Put(q, i, r) = Append(req, r)
    BY <1>4, <1>5, PutLast
  <1>8. x = V(q, tt, c, wire)
    BY DEF V
  <1> HIDE DEF i, q, tt, c, x, B
  <1>9. x.t.dead = t.dead /\ x.req[i] = f /\ x.req = q
    BY <1>6, <1>7, <1>8, ViewFields
  <1>10. CASE t.dead
    <2> DEFINE r == Refused(kind, mid)
    <2>1. smbcli_transport_send(x, i) = Set(x, i, r)
      <3>1. smbcli_transport_send(x, i)
            = Set(x, i, [f EXCEPT !.state = "ERROR",
                           !.outcome = IF f.kind = "async" THEN "refused" ELSE @])
        BY <1>9, <1>10 DEF smbcli_transport_send
      <3>2. [f EXCEPT !.state = "ERROR",
                      !.outcome = IF f.kind = "async" THEN "refused" ELSE @] = r
        BY <1>5 DEF Refused, f, Requests
      <3> QED BY <3>1, <3>2
    <2>2. t.dead = TRUE
      BY <1>4, <1>10
    <2> HIDE DEF r
    <2>3. Become(V(Put(q, i, r), tt, c, wire))
      BY <1>1, <1>8, <2>1, SetView
    <2>4. Become(V(Append(req, r), tt, c, wire))
      BY <1>5, <1>7, <2>3 DEF r
    <2>5. /\ req' = Append(req, r) /\ t' = tt /\ caller' = c /\ wire' = wire
      BY <2>4, BecomeFacts
    <2> QED BY <1>3, <1>6, <2>2, <2>5 DEF Submitted, Sent, i, mid, r
  <1>11. CASE ~t.dead
    <2> DEFINE r == Accepted(kind, mid)
               p == packet(i, mid, IF kind = "trans" THEN 0 ELSE 1)
               y == V(Append(req, r), With(tt, i), c, wire)
               w == Append(wire, p)
    <2>1. smbcli_transport_send(x, i)
          = [Set(DLIST_ADD(x, i), i, [f EXCEPT !.state = "RECV", !.timer = TRUE]) EXCEPT
                !.wire = Append(@, packet(i, f.mid, IF f.kind = "trans" THEN 0 ELSE 1))]
      BY <1>9, <1>11 DEF smbcli_transport_send
    <2> HIDE DEF r, p
    <2>2. Set(DLIST_ADD(x, i), i, r) = y
      <3>1. DLIST_ADD(x, i) = V(q, With(tt, i), c, wire)
        BY <1>8, AddView
      <3>2. Set(V(q, With(tt, i), c, wire), i, r) = V(Put(q, i, r), With(tt, i), c, wire)
        BY SetView
      <3>3. Put(q, i, r) = Append(req, r)
        BY <1>5, <1>7 DEF r
      <3> QED BY <3>1, <3>2, <3>3
    <2> HIDE DEF y
    <2>3. Become([y EXCEPT !.wire = Append(y.wire, p)])
      <3>1. /\ [f EXCEPT !.state = "RECV", !.timer = TRUE] = r
            /\ packet(i, f.mid, IF f.kind = "trans" THEN 0 ELSE 1) = p
        BY <1>5 DEF r, p, Accepted, f
      <3> QED BY <1>1, <2>1, <2>2, <3>1
    <2>4. y.wire = wire
      BY ViewFields DEF y
    <2> HIDE DEF w
    <2>5. [y EXCEPT !.wire = w] = V(Append(req, r), With(tt, i), c, w)
      BY ViewFields DEF y
    <2>6. Become([y EXCEPT !.wire = w])
      BY <2>3, <2>4 DEF w
    <2>7. Become(V(Append(req, r), With(tt, i), c, w))
      BY <2>5, <2>6
    <2>8. /\ req' = Append(req, r) /\ t' = With(tt, i) /\ caller' = c /\ wire' = w
      BY <2>7, BecomeFacts
    <2>9. t.dead = FALSE
      BY <1>4, <1>11
    <2> QED BY <1>3, <1>6, <2>8, <2>9 DEF Submitted, Sent, i, mid, r, w, p
  <1> QED BY <1>10, <1>11 DEF i, mid


LEMMA SentFields ==
    ASSUME NEW kind \in env.callers, NEW mid \in Mid, NEW dead \in BOOLEAN
    PROVE  LET r == Sent(kind, mid, dead)
           IN  /\ r \in Requests /\ r.kind = kind /\ r.mid = mid /\ ~r.freed /\ r.parts = <<>>
               /\ r.phase = "interim" <=> kind = "trans"
               /\ dead => r.state = "ERROR" /\ ~r.timer
               /\ ~dead => r.state = "RECV" /\ r.outcome = "waiting"
               /\ dead /\ kind = "async" => r.outcome = "refused"
               /\ kind # "async" => r.outcome = "waiting"
  <1> DEFINE f == smbcli_request_setup(kind, mid)
             o == IF kind = "async" THEN "refused" ELSE "waiting"
             a == Accepted(kind, mid)
             b == Refused(kind, mid)
  <1>1. /\ f \in Requests /\ f.kind = kind /\ f.mid = mid /\ f.outcome = "waiting"
        /\ ~f.freed /\ ~f.timer /\ f.parts = <<>> /\ (f.phase = "interim" <=> kind = "trans")
    BY DEF smbcli_request_setup, Requests
  <1>2. a = [f EXCEPT !.state = "RECV", !.timer = TRUE]
        /\ b = [f EXCEPT !.state = "ERROR", !.outcome = o]
    BY DEF Accepted, Refused
  <1>3. a \in Requests /\ b \in Requests
    BY SentFacts
  <1> HIDE DEF f, o, a, b
  <1>4. /\ a.kind = kind /\ a.mid = mid /\ ~a.freed /\ a.parts = <<>>
        /\ a.phase = f.phase /\ a.state = "RECV" /\ a.outcome = "waiting"
    BY <1>1, <1>2 DEF Requests
  <1>5. /\ b.kind = kind /\ b.mid = mid /\ ~b.freed /\ b.parts = <<>>
        /\ b.phase = f.phase /\ b.state = "ERROR" /\ ~b.timer /\ b.outcome = o
    BY <1>1, <1>2 DEF Requests
  <1>6. CASE dead
    BY <1>1, <1>3, <1>5, <1>6 DEF Sent, a, b, o
  <1>7. CASE ~dead
    BY <1>1, <1>3, <1>4, <1>7 DEF Sent, a, b, o
  <1> QED BY <1>6, <1>7

\* What a new request changes: it is the last one, and nobody else's.
Grown(kind, i, mid) ==
    /\ i = Len(req) + 1 /\ Len(req') = i
    /\ i \notin Id /\ \A j : j \in Id' <=> j \in Id \/ j = i
    /\ \A j \in Id : req'[j] = req[j]
    /\ req'[i] = Sent(kind, mid, t.dead)
    /\ Live = Listed
    /\ \A j \in Id : j \in Live' <=> j \in Live
    /\ i \in Live' <=> ~t.dead \/ kind # "async"
    /\ mid \in Mid /\ \A j \in Live : req[j].mid # mid
    /\ t'.next_mid = (mid + 1) % MidSpace /\ t'.dead = t.dead
    /\ UNCHANGED env

LEMMA SendInv ==
    ASSUME Typed, Sound, UNCHANGED env, NEW kind \in env.callers, smbcli_request_send(kind)
    PROVE  Typed' /\ Sound' /\ Grown(kind, Len(req) + 1, smbcli_transport_next_mid)
  <1> DEFINE i == Len(req) + 1
             mid == smbcli_transport_next_mid
             r == Sent(kind, mid, t.dead)
             s == IF t.dead THEN t.pending_recv ELSE <<i>> \o t.pending_recv
  <1>1. Submitted(kind, i, mid)
    BY SendEffect
  <1>2. mid \in Mid /\ \A j \in Listed : req[j].mid # mid
    BY NextMidFacts DEF smbcli_request_send
  <1>3. /\ t \in [next_mid : 0 .. MidSpace - 1, pending_recv : Seq(Id), dead : BOOLEAN]
        /\ t.pending_recv \in Seq(Id) /\ t.dead \in BOOLEAN
        /\ req \in Seq(Requests) /\ Len(req) \in Nat /\ Id = 1 .. Len(req)
        /\ IsInjective(t.pending_recv) /\ Listed \subseteq Id /\ caller \in Id \cup {0}
    BY DEF Typed, Sound, Id, Listed, Range
  <1>4. /\ ~CallerReady /\ Len(req) < env.requests
        /\ kind # "async" => caller = 0
    BY ScenariosAssumption DEF smbcli_request_send, Typed, Scenario
  <1> HIDE DEF mid
  <1>5. /\ r \in Requests /\ r.kind = kind /\ r.mid = mid /\ ~r.freed /\ r.parts = <<>>
        /\ t.dead => r.state = "ERROR" /\ ~r.timer
        /\ ~t.dead => r.state = "RECV" /\ r.outcome = "waiting"
        /\ t.dead /\ kind = "async" => r.outcome = "refused"
        /\ kind # "async" => r.outcome = "waiting"
    BY <1>2, <1>3, SentFields
  <1> HIDE DEF r
  <1>6. /\ req' = Append(req, r)
        /\ t' = [t EXCEPT !.next_mid = (mid + 1) % MidSpace, !.pending_recv = s]
        /\ caller' = IF kind = "async" THEN caller ELSE i
    BY <1>1 DEF Submitted, Queued, r
  <1>7. /\ req' \in Seq(Requests) /\ Len(req') = i /\ req'[i] = r
        /\ \A j \in Id : req'[j] = req[j]
        /\ Id' = 1 .. i
    BY <1>3, <1>5, <1>6, AppendProperties DEF Id
  <1>8. i \notin Id /\ Id \subseteq Id' /\ i \in Id' /\ 0 \notin Id' /\ \A j : j \in Id' <=> j \in Id \/ j = i
    BY <1>3, <1>7
  <1>9. /\ s \in Seq(Id') /\ IsInjective(s)
        /\ \A j : j \in Range(s) <=> j \in Listed \/ (~t.dead /\ j = i)
    <2>1. t.pending_recv \in Seq(Id') /\ i \notin Range(t.pending_recv)
      BY <1>3, <1>8 DEF Listed
    <2>2. CASE ~t.dead
      <3>1. s = <<i>> \o t.pending_recv
        BY <2>2
      <3> HIDE DEF s, i
      <3> QED BY <1>3, <1>8, <2>1, <2>2, <3>1, AddFacts DEF Listed
    <2>3. CASE t.dead
      BY <1>3, <2>1, <2>3 DEF Listed
    <2> QED BY <2>2, <2>3
  <1>10. (mid + 1) % MidSpace \in 0 .. MidSpace - 1
    BY <1>2, BoundsAssumption DEF Mid
  <1> HIDE DEF s
  <1>11. /\ t' \in [next_mid : 0 .. MidSpace - 1, pending_recv : Seq(Id'), dead : BOOLEAN]
         /\ t'.pending_recv = s /\ t'.next_mid = (mid + 1) % MidSpace /\ t'.dead = t.dead
         /\ Listed' = Range(s)
    BY <1>3, <1>6, <1>9, <1>10 DEF Listed
  <1>12. Typed'
    <2>1. Requests' = Requests
      BY DEF Requests
    <2>2. caller' \in Id' \cup {0}
      BY <1>3, <1>6, <1>8
    <2>3. i <= env.requests
      <3>1. env.requests \in Nat
        BY ScenariosAssumption, BoundsAssumption DEF Typed, Scenario
      <3> QED BY <1>3, <1>4, <3>1
    <2> QED BY <1>7, <1>11, <2>1, <2>2, <2>3 DEF Typed
  <1>13. Live = Listed
    <2>1. ASSUME NEW j \in Id, j = caller
          PROVE  j \in Listed
      <3>1. req[j].state \in {"INIT", "RECV"} /\ req[j].state # "INIT" /\ ~req[j].freed
        BY <1>3, <1>4, <1>8, <2>1 DEF CallerReady, Sound
      <3> QED BY <3>1 DEF Sound
    <2> QED BY <1>3, <2>1 DEF Live
  <1> HIDE DEF i
  <1>14. /\ \A j : j \in Live' <=> j \in Listed' \/ (j \in Id' /\ j = caller')
         /\ \A j : j \in Live <=> j \in Listed \/ (j \in Id /\ j = caller)
    BY DEF Live
  <1>15. /\ \A j \in Id : j \in Live' <=> j \in Live
         /\ i \in Live' <=> ~t.dead \/ kind # "async"
    <2>1. i \in Live' <=> ~t.dead \/ kind # "async"
      BY <1>3, <1>6, <1>8, <1>9, <1>11, <1>14
    <2>2. ASSUME NEW j \in Id
          PROVE  j \in Live' <=> j \in Live
      <3>1. j # i /\ j \in Id'
        BY <1>8
      <3>2. j \in Live <=> j \in Listed
        BY <1>13
      <3>3. j = caller => j \in Listed
        BY <1>13 DEF Live
      <3>4. j = caller' => j = caller
        BY <1>6, <3>1
      <3> QED BY <1>9, <1>11, <1>14, <3>1, <3>2, <3>3, <3>4
    <2> QED BY <2>1, <2>2
  <1>16. Grown(kind, i, mid)
    BY <1>2, <1>7, <1>8, <1>11, <1>13, <1>15 DEF Grown, i, r
  <1>17. Sound'
    <2>1. \A j \in Id' : j \in Listed' <=> req'[j].state = "RECV" /\ ~req'[j].freed
      <3>1. ASSUME NEW j \in Id
            PROVE  j \in Listed' <=> req'[j].state = "RECV" /\ ~req'[j].freed
        <4>1. j # i
          BY <1>8
        <4> QED BY <1>7, <1>9, <1>11, <4>1 DEF Sound
      <3>2. i \in Listed' <=> req'[i].state = "RECV" /\ ~req'[i].freed
        BY <1>3, <1>5, <1>7, <1>8, <1>9, <1>11
      <3> QED BY <1>8, <3>1, <3>2
    <2>2. \A j \in Id' : j = caller' <=> ~req'[j].freed /\ req'[j].kind # "async"
      <3>1. ASSUME NEW j \in Id
            PROVE  j = caller' <=> ~req'[j].freed /\ req'[j].kind # "async"
        <4>1. j # i
          BY <1>8
        <4>2. req'[j] = req[j]
          BY <1>7
        <4>3. j = caller <=> ~req[j].freed /\ req[j].kind # "async"
          BY DEF Sound
        <4>4. kind # "async" => j # caller
          BY <1>4, <1>8
        <4>5. j = caller' <=> j = caller
          BY <1>6, <4>1, <4>4
        <4> QED BY <4>2, <4>3, <4>5
      <3>2. i = caller' <=> ~req'[i].freed /\ req'[i].kind # "async"
        <4>1. i # caller
          BY <1>3, <1>8
        <4> QED BY <1>5, <1>6, <1>7, <4>1
      <3> QED BY <1>8, <3>1, <3>2
    <2>3. ASSUME NEW j \in Id', ~req'[j].freed
          PROVE  \/ j \in Live' /\ req'[j].outcome = "waiting"
                 \/ req'[j].kind = "async" /\ req'[j].outcome = "refused" /\ ~req'[j].timer
                    /\ req'[j].state = "ERROR"
      <3>1. CASE j = i
        BY <1>5, <1>7, <1>15, <3>1
      <3>2. CASE j \in Id
        BY <1>7, <1>15, <2>3, <3>2 DEF Sound
      <3> QED BY <1>8, <3>1, <3>2
    <2>4. ASSUME NEW j \in Live', NEW k \in Live', j # k
          PROVE  req'[j].mid # req'[k].mid
      <3>1. \A l \in Live' : l \in Live \/ l = i
        <4>1. \A l \in Live' : l \in Id'
          BY <1>8, <1>9, <1>3, <1>11, <1>14
        <4> QED BY <1>8, <1>15, <4>1
      <3>2. \A l \in Live : l \in Id /\ req'[l] = req[l] /\ req[l].mid # mid
        BY <1>2, <1>3, <1>7, <1>13
      <3> QED BY <1>5, <1>7, <2>4, <3>1, <3>2 DEF Sound
    <2>5. \A j \in Id' : /\ req'[j].timer => ~req'[j].freed
                         /\ req'[j].state # "INIT"
      <3>1. r.state # "INIT" /\ ~r.freed
        BY <1>5
      <3>2. \A j \in Id : (req[j].timer => ~req[j].freed) /\ req[j].state # "INIT"
        BY DEF Sound
      <3> QED BY <1>7, <1>8, <3>1, <3>2
    <2>6. IsInjective(t'.pending_recv)
      BY <1>9, <1>11
    <2> QED BY <2>1, <2>2, <2>3, <2>4, <2>5, <2>6 DEF Sound
  <1> QED BY <1>12, <1>16, <1>17 DEF i, mid


-----------------------------------------------------------------------------
(***************************************************************************)
(* The steps that concern no request: the server's, and the death of the   *)
(* connection.                                                             *)
(***************************************************************************)
LEMMA IdleInv ==
    ASSUME Typed, Sound, UNCHANGED <<env, req, caller>>,
           UNCHANGED t \/ t' = [t EXCEPT !.dead = TRUE]
    PROVE  Typed' /\ Sound' /\ Kept
  <1>1. t \in [next_mid : 0 .. MidSpace - 1, pending_recv : Seq(Id), dead : BOOLEAN]
    BY DEF Typed
  <1>2. /\ t' \in [next_mid : 0 .. MidSpace - 1, pending_recv : Seq(Id), dead : BOOLEAN]
        /\ t'.next_mid = t.next_mid /\ t'.pending_recv = t.pending_recv
    BY <1>1
  <1>3. Id' = Id /\ Requests' = Requests
    BY DEF Id, Requests
  <1>4. Listed' = Listed /\ Live' = Live
    BY <1>2, <1>3 DEF Listed, Live
  <1>5. Typed'
    BY <1>2, <1>3 DEF Typed
  <1>6. Sound'
    BY <1>2, <1>3, <1>4 DEF Sound
  <1>7. Kept
    BY <1>2, <1>3, <1>4 DEF Kept
  <1> QED BY <1>5, <1>6, <1>7

-----------------------------------------------------------------------------
(***************************************************************************)
(* Where packets come from: Addressed.                                     *)
(***************************************************************************)
LEMMA PacketIsPacket ==
    ASSUME NEW i \in 1 .. MaxReq, NEW mid \in Mid, NEW part \in 0 .. 2
    PROVE  /\ packet(i, mid, part) \in Packets
           /\ packet(i, mid, part).id = i /\ packet(i, mid, part).mid = mid
           /\ packet(i, mid, part).part = part
  BY DEF packet, Packets

LEMMA AppendRange ==
    ASSUME NEW S, NEW s \in Seq(S), NEW e \in S
    PROVE  Append(s, e) \in Seq(S) /\ \A x : x \in Range(Append(s, e)) <=> x \in Range(s) \/ x = e
  <1>1. /\ Append(s, e) \in Seq(S) /\ Len(Append(s, e)) = Len(s) + 1 /\ Len(s) \in Nat
        /\ \A k \in 1 .. Len(s) : Append(s, e)[k] = s[k]
        /\ Append(s, e)[Len(s) + 1] = e
    BY AppendProperties
  <1> DEFINE a == Append(s, e)
  <1> HIDE DEF a
  <1>2. DOMAIN a = 1 .. Len(s) + 1 /\ DOMAIN s = 1 .. Len(s)
    BY <1>1 DEF a
  <1>3. \A x : x \in Range(a) => x \in Range(s) \/ x = e
    <2> SUFFICES ASSUME NEW k \in DOMAIN a
                 PROVE  a[k] \in Range(s) \/ a[k] = e
      BY DEF Range
    <2>1. k \in DOMAIN s \/ k = Len(s) + 1
      BY <1>1, <1>2
    <2> QED BY <1>1, <1>2, <2>1 DEF Range, a
  <1>4. \A x : x \in Range(s) \/ x = e => x \in Range(a)
    <2>1. \A k \in DOMAIN s : k \in DOMAIN a /\ a[k] = s[k]
      BY <1>1, <1>2 DEF a
    <2>2. Len(s) + 1 \in DOMAIN a /\ a[Len(s) + 1] = e
      BY <1>1, <1>2 DEF a
    <2> QED BY <2>1, <2>2 DEF Range
  <1> QED BY <1>1, <1>3, <1>4 DEF a

LEMMA TailRange ==
    ASSUME NEW S, NEW s \in Seq(S), s # <<>>
    PROVE  /\ Tail(s) \in Seq(S) /\ Head(s) \in Range(s) /\ Head(s) \in S
           /\ \A x : x \in Range(Tail(s)) => x \in Range(s)
           /\ Len(Tail(s)) = Len(s) - 1 /\ Len(s) \in Nat /\ Len(s) > 0 /\ Head(s) = s[1]
           /\ \A k \in 1 .. Len(s) - 1 : Tail(s)[k] = s[k + 1]
  <1>1. /\ Tail(s) \in Seq(S) /\ Len(Tail(s)) = Len(s) - 1 /\ Len(s) \in Nat /\ Len(s) > 0
        /\ \A k \in 1 .. Len(s) - 1 : Tail(s)[k] = s[k + 1]
        /\ Head(s) = s[1] /\ 1 \in DOMAIN s /\ Head(s) \in S
    OBVIOUS
  <1>2. ASSUME NEW k \in DOMAIN Tail(s)
        PROVE  k + 1 \in DOMAIN s /\ Tail(s)[k] = s[k + 1]
    BY <1>1
  <1> QED BY <1>1, <1>2 DEF Range

\* The packets in flight after a step are earlier ones, the next part of an
\* answer, or new ones of a request somebody waits for.
LEMMA AddressedKept ==
    ASSUME Sound', Addressed, Kept, Live \subseteq Id,
           wire' \in Seq(Packets), server' \subseteq Packets, replies' \in Seq(Packets),
           \A p \in InFlight' :
              \/ p \in InFlight
              \/ \E q \in InFlight : /\ q.id = p.id /\ q.mid = p.mid
                                     /\ req[q.id].kind = "trans"
              \/ p.id \in Live' /\ p.mid = req[p.id].mid /\ req[p.id].kind = "trans"
    PROVE  Addressed'
  <1> SUFFICES ASSUME NEW p \in InFlight'
               PROVE  /\ p.id \in Id' /\ p.mid = req'[p.id].mid
                      /\ req'[p.id].freed \/ p.id \in Live'
                      /\ req'[p.id].kind # "trans" => p.part = 1
                      /\ \A i \in Live' : p.mid = req'[i].mid => p.id = i
    BY DEF Addressed
  <1>1. \A i \in Live' : i \in Live /\ i \in Id /\ req'[i].mid = req[i].mid
    BY DEF Kept
  <1>2. CASE p \in InFlight
    <2>1. /\ p.id \in Id /\ p.mid = req[p.id].mid
          /\ req[p.id].freed \/ p.id \in Live
          /\ req[p.id].kind # "trans" => p.part = 1
          /\ \A i \in Live : p.mid = req[i].mid => p.id = i
      BY <1>2 DEF Addressed
    <2> QED BY <1>1, <2>1 DEF Kept
  <1>3. CASE \E q \in InFlight : q.id = p.id /\ q.mid = p.mid /\ req[q.id].kind = "trans"
    <2>1. PICK q \in InFlight : q.id = p.id /\ q.mid = p.mid /\ req[q.id].kind = "trans"
      BY <1>3
    <2>2. /\ q.id \in Id /\ q.mid = req[q.id].mid
          /\ req[q.id].freed \/ q.id \in Live
          /\ \A i \in Live : q.mid = req[i].mid => q.id = i
      BY DEF Addressed
    <2> QED BY <1>1, <2>1, <2>2 DEF Kept
  <1>4. CASE p.id \in Live' /\ p.mid = req[p.id].mid /\ req[p.id].kind = "trans"
    <2>1. p.id \in Id /\ req'[p.id].mid = req[p.id].mid /\ req'[p.id].kind = req[p.id].kind
          /\ Id' = Id
      BY <1>1, <1>4 DEF Kept
    <2>2. \A i \in Live' : i # p.id => req'[i].mid # req'[p.id].mid
      BY <1>4 DEF Sound
    <2> QED BY <1>4, <2>1, <2>2
  <1> QED BY <1>2, <1>3, <1>4


-----------------------------------------------------------------------------
(***************************************************************************)
(* A mid comes back only after MaxLate further requests: Distant.          *)
(***************************************************************************)
LEMMA MidFinite == MidSpace \in Nat /\ MidSpace > 0 /\ IsFiniteSet(Mid) /\ Cardinality(Mid) = MidSpace - 1
  <1>1. MidSpace \in Nat /\ MidSpace > 0
    BY BoundsAssumption
  <1> QED BY <1>1, FS_Interval DEF Mid

LEMMA AheadFinite ==
    ASSUME NEW S \in SUBSET Mid
    PROVE  IsFiniteSet(S) /\ Cardinality(S) \in Nat
  BY MidFinite, FS_Subset, FS_CardinalityType

LEMMA Larger ==
    ASSUME NEW S \in SUBSET Mid, NEW T \in SUBSET S
    PROVE  Cardinality(T) \in Nat /\ Cardinality(S) \in Nat /\ Cardinality(T) <= Cardinality(S)
  BY AheadFinite, FS_Subset

LEMMA DistantKept ==
    ASSUME Typed, Distant, Kept, Live \subseteq Id
    PROVE  Distant'
  <1> SUFFICES ASSUME NEW q \in Id, Len(req) - q < MaxLate
               PROVE  Cardinality(Ahead(q)') >= MaxLate - (Len(req) - q)
    BY DEF Distant, Kept
  <1>1. Cardinality(Ahead(q)) >= MaxLate - (Len(req) - q)
    BY DEF Distant
  <1>2. Ahead(q)' \in SUBSET Mid /\ Ahead(q) \in SUBSET Ahead(q)'
    <2>1. Ahead(q)' \in SUBSET Mid
      BY DEF Ahead, Mid
    <2>2. ASSUME NEW m \in Ahead(q)
          PROVE  m \in Ahead(q)'
      <3>1. \A i \in Live' : i \in Live /\ req'[i].mid = req[i].mid
        BY DEF Kept
      <3>2. t'.next_mid = t.next_mid /\ req'[q].mid = req[q].mid
        BY DEF Kept
      <3> QED BY <3>1, <3>2 DEF Ahead, Mid, off
    <2> QED BY <2>1, <2>2
  <1> DEFINE A == Ahead(q)
             B == Ahead(q)'
  <1> HIDE DEF A, B
  <1>3. Cardinality(A) \in Nat /\ Cardinality(B) \in Nat /\ Cardinality(A) <= Cardinality(B)
    BY <1>2, Larger DEF A, B
  <1>4. MaxLate - (Len(req) - q) \in Int
    BY BoundsAssumption DEF Typed, Id
  <1> QED BY <1>1, <1>3, <1>4 DEF A, B

\* The order of mids after one has been handed out.
LEMMA OffShift ==
    ASSUME NEW a \in 0 .. MidSpace - 1, NEW mid \in Mid, NEW x \in Mid
    PROVE  LET b == (mid + 1) % MidSpace
           IN  /\ b \in 0 .. MidSpace - 1
               /\ off(a, mid) < off(a, x) => off(b, x) = off(a, x) - off(a, mid) - 1
               /\ off(b, mid) = MidSpace - 1
               /\ x # mid => off(b, x) < MidSpace - 1
               /\ x # mid => off(a, x) # off(a, mid)
  <1> DEFINE b == (mid + 1) % MidSpace
  <1>1. MidSpace \in Nat /\ MidSpace > 0
    BY MidFinite
  <1>2. mid \in 1 .. MidSpace - 1 /\ x \in 1 .. MidSpace - 1
    BY DEF Mid
  <1>3. CASE mid + 1 < MidSpace
    <2>1. b = mid + 1
      BY <1>1, <1>2, <1>3
    <2> HIDE DEF b
    <2> QED BY <1>1, <1>2, <1>3, <2>1 DEF off
  <1>4. CASE mid + 1 = MidSpace
    <2>1. b = 0
      BY <1>1, <1>2, <1>4
    <2> HIDE DEF b
    <2> QED BY <1>1, <1>2, <1>4, <2>1 DEF off
  <1> QED BY <1>1, <1>2, <1>3, <1>4

\* No packet in flight has the mid of the next request.
LEMMA FreshMid ==
    ASSUME Typed, Sound, Addressed, Distant, UNCHANGED env,
           NEW kind \in env.callers, smbcli_request_send(kind), NEW p \in InFlight
    PROVE  p.mid # smbcli_transport_next_mid
  <1> DEFINE mid == smbcli_transport_next_mid
             q == p.id
             n == Len(req) - q
  <1>1. /\ mid \in Mid /\ \A j \in Live : req[j].mid # mid
        /\ Live = Listed
    BY SendInv DEF Grown
  <1>2. q \in Id /\ p.mid = req[q].mid /\ (req[q].freed \/ q \in Live)
    BY DEF Addressed
  <1>3. CASE q \in Live
    BY <1>1, <1>2, <1>3
  <1>4. CASE req[q].freed
    <2>1. p \in Late
      BY <1>4 DEF Late, InFlight
    <2>2. Len(req) + 1 - q <= MaxLate
      BY <2>1 DEF smbcli_request_send
    <2>3. Len(req) \in Nat /\ q \in Nat /\ MaxLate \in Nat
      BY <1>2, BoundsAssumption DEF Typed, Id
    <2>4. n < MaxLate /\ MaxLate - n >= 1 /\ n \in Int
      BY <2>2, <2>3
    <2>5. Cardinality(Ahead(q)) >= MaxLate - n
      BY <1>2, <2>4 DEF Distant
    <2>6. IsFiniteSet(Ahead(q)) /\ Cardinality(Ahead(q)) \in Nat
      BY AheadFinite DEF Ahead
    <2> DEFINE A == Ahead(q)
    <2> HIDE DEF A, n
    <2>7. Cardinality(A) # 0
      BY <2>3, <2>4, <2>5, <2>6 DEF A
    <2>8. PICK m \in A : TRUE
      BY <2>6, <2>7, FS_EmptySet DEF A
    <2>9. /\ m \in Mid /\ off(t.next_mid, m) < off(t.next_mid, req[q].mid)
          /\ \A i \in Listed : req[i].mid # m
      BY <1>1 DEF A, Ahead
    <2>10. off(t.next_mid, mid) <= off(t.next_mid, m)
      BY <2>9, NextMidFacts DEF smbcli_request_send
    <2>11. t.next_mid \in Nat /\ MidSpace \in Nat /\ m \in Nat /\ mid \in Nat
      BY <1>1, <2>9, MidFinite DEF Typed, Mid
    <2>12. off(t.next_mid, m) \in Int /\ off(t.next_mid, mid) \in Int
      BY <2>11 DEF off
    <2> HIDE DEF mid, q
    <2>13. req[q].mid # mid
      BY <2>9, <2>10, <2>12
    <2> QED BY <1>2, <2>13 DEF mid, q
  <1> QED BY <1>2, <1>3, <1>4


LEMMA DistantSend ==
    ASSUME Typed, Sound, Addressed, Distant, UNCHANGED env,
           NEW kind \in env.callers, smbcli_request_send(kind)
    PROVE  Distant'
  <1>0. PICK i : i = Len(req) + 1
    OBVIOUS
  <1> DEFINE mid == smbcli_transport_next_mid
             a == t.next_mid
             b == t'.next_mid
  <1>1. Grown(kind, i, mid) /\ Typed' /\ Len(t.pending_recv) < MaxPending
    BY <1>0, SendInv DEF smbcli_request_send
  <1>2. \A m \in Mid : (\A j \in Listed : req[j].mid # m) => off(a, mid) <= off(a, m)
    BY NextMidFacts DEF smbcli_request_send
  <1>3. Sent(kind, mid, t.dead).mid = mid
    <2>1. t.dead \in BOOLEAN /\ mid \in Mid
      BY <1>1 DEF Typed, Grown
    <2> QED BY <2>1, SentFields
  <1>4. /\ MidSpace \in Nat /\ MidSpace > 0 /\ MaxLate \in Nat /\ MaxPending \in Nat
        /\ MaxLate + MaxPending < MidSpace /\ Len(req) \in Nat /\ a \in 0 .. MidSpace - 1
        /\ Len(t.pending_recv) \in Nat
    BY BoundsAssumption DEF Typed
  <1>5. b = (mid + 1) % MidSpace /\ mid \in Mid /\ Len(req') = i /\ req'[i].mid = mid
        /\ Live = Listed
    BY <1>1, <1>3 DEF Grown
  <1>6. \A j \in Live' : (j \in Live /\ req'[j].mid = req[j].mid) \/ j = i
    <2>1. Live' \subseteq Id'
      BY <1>1 DEF Typed, Live, Listed, Range
    <2> QED BY <1>1, <2>1 DEF Grown
  <1> HIDE DEF mid, a, b
  <1>7. \A q : Ahead(q)' = {m \in Mid : /\ off(b, m) < off(b, req'[q].mid)
                                       /\ \A j \in Live' : req'[j].mid # m}
    BY DEF Ahead, Mid, off, b
  <1>8. ASSUME NEW q \in Id, i - q < MaxLate
        PROVE  Cardinality(Ahead(q)') >= MaxLate - (i - q)
    <2> DEFINE A == Ahead(q)
               B == Ahead(q)'
    <2>1. q \in Nat /\ i = Len(req) + 1 /\ Len(req) - q < MaxLate
      BY <1>0, <1>4, <1>8 DEF Id, Typed
    <2>2. Cardinality(A) >= MaxLate - (Len(req) - q)
      BY <2>1 DEF Distant
    <2>3. A \in SUBSET Mid /\ B \in SUBSET Mid
      BY <1>7 DEF Ahead
    <2>4. req'[q].mid = req[q].mid /\ req[q].mid \in Mid
      <3>1. req[q] \in Requests
        BY DEF Typed, Id
      <3> QED BY <1>1, <3>1 DEF Grown, Requests
    <2>5. ASSUME NEW m \in A, m # mid
          PROVE  m \in B
      <3>1. m \in Mid /\ off(a, m) < off(a, req[q].mid) /\ \A j \in Live : req[j].mid # m
        BY DEF Ahead, a
      <3>2. off(a, mid) <= off(a, m)
        BY <1>2, <1>5, <3>1
      <3>3. off(a, m) # off(a, mid)
        BY <1>4, <1>5, <2>5, <3>1, OffShift
      <3>4. off(a, mid) \in Int /\ off(a, m) \in Int /\ off(a, req[q].mid) \in Int
        BY <1>4, <1>5, <2>4, <3>1 DEF off, Mid
      <3>5. off(a, mid) < off(a, m) /\ off(a, mid) < off(a, req[q].mid)
        BY <3>1, <3>2, <3>3, <3>4
      <3>6. off(b, m) = off(a, m) - off(a, mid) - 1
        BY <1>4, <1>5, <3>1, <3>5, OffShift
      <3>7. off(b, req[q].mid) = off(a, req[q].mid) - off(a, mid) - 1
        BY <1>4, <1>5, <2>4, <3>5, OffShift
      <3>8. off(b, m) < off(b, req'[q].mid)
        BY <2>4, <3>1, <3>4, <3>6, <3>7
      <3>9. \A j \in Live' : req'[j].mid # m
        BY <1>5, <1>6, <2>5, <3>1
      <3> QED BY <1>7, <3>1, <3>8, <3>9
    <2> HIDE DEF A, B
    <2>6. (A \ {mid}) \in SUBSET B
      BY <2>5
    <2>7. IsFiniteSet(A) /\ Cardinality(A) \in Nat
      BY <2>3, AheadFinite
    <2>8. Cardinality(A \ {mid}) >= Cardinality(A) - 1
      BY <2>7, FS_RemoveElement
    <2>9. /\ Cardinality(A \ {mid}) \in Nat /\ Cardinality(B) \in Nat
          /\ Cardinality(A \ {mid}) <= Cardinality(B)
      BY <2>3, <2>6, Larger
    <2> QED BY <1>4, <2>1, <2>2, <2>7, <2>8, <2>9 DEF A, B
  <1>9. Cardinality(Ahead(i)') >= MaxLate - (i - i)
    <2> DEFINE B == Ahead(i)'
               P == pending_mids \cup {mid}
    <2>1. B \in SUBSET Mid
      BY <1>7
    <2>2. ASSUME NEW m \in Mid \ P
          PROVE  m \in B
      <3>1. m # mid /\ \A j \in Live : req[j].mid # m
        BY <1>5, PendingMids
      <3>2. off(b, m) < off(b, mid)
        <4>1. off(b, mid) = MidSpace - 1 /\ off(b, m) < MidSpace - 1
          BY <1>4, <1>5, <3>1, OffShift
        <4> QED BY <4>1
      <3>3. \A j \in Live' : req'[j].mid # m
        BY <1>5, <1>6, <3>1
      <3> QED BY <1>5, <1>7, <3>2, <3>3
    <2> HIDE DEF B
    <2>3. IsFiniteSet(P) /\ Cardinality(P) \in Nat /\ Cardinality(P) <= MaxPending
      <3>1. /\ IsFiniteSet(pending_mids) /\ Cardinality(pending_mids) <= Len(t.pending_recv)
            /\ Cardinality(pending_mids) \in Nat
        BY PendingMids, FS_CardinalityType
      <3>2. IsFiniteSet(P) /\ Cardinality(P) <= Cardinality(pending_mids) + 1
        <4>1. /\ IsFiniteSet(P)
              /\ Cardinality(P) = IF mid \in pending_mids THEN Cardinality(pending_mids)
                                  ELSE Cardinality(pending_mids) + 1
          BY <3>1, FS_AddElement
        <4> QED BY <3>1, <4>1
      <3>3. Cardinality(P) \in Nat
        BY <3>2, FS_CardinalityType
      <3> QED BY <1>1, <1>4, <3>1, <3>2, <3>3
    <2> HIDE DEF P
    <2>4. Cardinality(Mid \ P) >= MaxLate
      <3>1. Cardinality(Mid \ P) = Cardinality(Mid) - Cardinality(Mid \cap P)
        BY MidFinite, FS_Difference
      <3>2. Cardinality(Mid \cap P) <= Cardinality(P) /\ IsFiniteSet(Mid \cap P)
        BY <2>3, FS_Intersection
      <3>3. Cardinality(Mid \cap P) \in Nat
        BY <3>2, FS_CardinalityType
      <3> QED BY <1>4, <2>3, <3>1, <3>2, <3>3, MidFinite
    <2>5. Mid \ P \in SUBSET B
      BY <2>2
    <2>6. /\ Cardinality(Mid \ P) \in Nat /\ Cardinality(B) \in Nat
          /\ Cardinality(Mid \ P) <= Cardinality(B)
      BY <2>1, <2>5, Larger
    <2>7. i \in Nat
      BY <1>0, <1>4
    <2> QED BY <1>4, <2>4, <2>6, <2>7 DEF B
  <1>10. \A q \in Id' : q \in Id \/ q = i
    BY <1>1 DEF Grown
  <1> SUFFICES ASSUME NEW q \in Id', i - q < MaxLate
               PROVE  Cardinality(Ahead(q)') >= MaxLate - (i - q)
    BY <1>5 DEF Distant
  <1> QED BY <1>8, <1>9, <1>10

LEMMA AddressedSend ==
    ASSUME Typed, Sound, Addressed, Distant, UNCHANGED env,
           NEW kind \in env.callers, smbcli_request_send(kind)
    PROVE  Addressed'
  <1> DEFINE i == Len(req) + 1
             mid == smbcli_transport_next_mid
             n == packet(i, mid, IF kind = "trans" THEN 0 ELSE 1)
  <1>1. Grown(kind, i, mid) /\ Typed' /\ Sound' /\ Submitted(kind, i, mid)
    BY SendInv, SendEffect
  <1>2. \A p \in InFlight : p.mid # mid
    BY FreshMid
  <1>3. /\ Sent(kind, mid, t.dead).mid = mid /\ Sent(kind, mid, t.dead).kind = kind
        /\ t.dead \in BOOLEAN /\ mid \in Mid
    <2>1. t.dead \in BOOLEAN /\ mid \in Mid
      BY <1>1 DEF Typed, Grown
    <2> QED BY <2>1, SentFields
  <1>4. i \in 1 .. MaxReq
    <2>1. Len(req) \in Nat /\ Len(req) < env.requests /\ env.requests \in 0 .. MaxReq
      BY ScenariosAssumption DEF Typed, Scenario, smbcli_request_send
    <2>2. MaxReq \in Nat
      BY BoundsAssumption
    <2> QED BY <2>1, <2>2
  <1> HIDE DEF i, mid
  <1>5. /\ n \in Packets /\ n.id = i /\ n.mid = mid
        /\ n.part = IF kind = "trans" THEN 0 ELSE 1
    BY <1>3, <1>4, PacketIsPacket
  <1> HIDE DEF n
  <1>6. /\ wire' \in Seq(Packets)
        /\ \A p \in Range(wire') : p \in Range(wire) \/ (p = n /\ ~t.dead)
    <2>1. wire \in Seq(Packets)
      BY DEF Addressed
    <2>2. CASE t.dead
      BY <1>1, <2>1, <2>2 DEF Submitted
    <2>3. CASE ~t.dead
      <3>1. wire' = Append(wire, n)
        BY <1>1, <2>3 DEF Submitted, n
      <3> QED BY <1>5, <2>1, <2>3, <3>1, AppendRange
    <2> QED BY <2>2, <2>3
  <1>7. UNCHANGED <<server, replies>>
    BY DEF smbcli_request_send
  <1>8. \A p \in InFlight' : p \in InFlight \/ (p = n /\ ~t.dead)
    BY <1>6, <1>7 DEF InFlight
  <1>9. ASSUME NEW p \in InFlight'
        PROVE  /\ p.id \in Id' /\ p.mid = req'[p.id].mid
               /\ req'[p.id].freed \/ p.id \in Live'
               /\ req'[p.id].kind # "trans" => p.part = 1
               /\ \A j \in Live' : p.mid = req'[j].mid => p.id = j
    <2>0. \A j \in Live' : (j \in Live /\ req'[j].mid = req[j].mid) \/ j = i
      <3>1. Live' \subseteq Id'
        BY <1>1 DEF Typed, Live, Listed, Range
      <3> QED BY <1>1, <3>1 DEF Grown
    <2>1. CASE p \in InFlight
      <3>1. /\ p.id \in Id /\ p.mid = req[p.id].mid
            /\ req[p.id].freed \/ p.id \in Live
            /\ req[p.id].kind # "trans" => p.part = 1
            /\ \A j \in Live : p.mid = req[j].mid => p.id = j
            /\ p.mid # mid
        BY <1>2, <2>1 DEF Addressed
      <3>2. p.id \in Id' /\ req'[p.id] = req[p.id] /\ (p.id \in Live => p.id \in Live')
            /\ req'[i].mid = mid
        BY <1>1, <1>3, <3>1 DEF Grown
      <3> QED BY <2>0, <3>1, <3>2
    <2>2. CASE p = n /\ ~t.dead
      <3>1. i \in Id' /\ i \in Live' /\ req'[i].mid = mid /\ req'[i].kind = kind
            /\ \A j \in Live : req[j].mid # mid
        BY <1>1, <1>3, <2>2 DEF Grown
      <3> QED BY <1>5, <2>0, <2>2, <3>1
    <2> QED BY <1>8, <2>1, <2>2
  <1>10. server' \subseteq Packets /\ replies' \in Seq(Packets)
    BY <1>7 DEF Addressed
  <1>11. Packets' = Packets
    BY DEF Packets, Mid
  <1> QED BY <1>6, <1>9, <1>10, <1>11 DEF Addressed


-----------------------------------------------------------------------------
(***************************************************************************)
(* What a request has received is its own: Received and Chained.           *)
(***************************************************************************)
\* The packet at hand belongs to the request with its mid, and only a packet
\* nobody waits for is dropped.
LEMMA OwnAnswer ==
    ASSUME Typed, Sound, Addressed, smbcli_transport_finish_recv
    PROVE  LET p == Head(replies)
               i == Matching(p.mid)
           IN  /\ i # 0 => p.id = i /\ i \in Listed
               /\ i = 0 => p.id # caller
  <1> DEFINE p == Head(replies)
             i == Matching(p.mid)
  <1>1. p \in InFlight
    <2>1. replies \in Seq(Packets) /\ replies # <<>>
      BY DEF Addressed, smbcli_transport_finish_recv
    <2> QED BY <2>1, TailRange DEF InFlight
  <1>2. /\ p.id \in Id /\ p.mid = req[p.id].mid
        /\ \A j \in Live : p.mid = req[j].mid => p.id = j
    BY <1>1 DEF Addressed
  <1>3. /\ i # 0 => i \in Listed /\ req[i].mid = p.mid
        /\ i = 0 => \A j \in Listed : req[j].mid # p.mid
    BY MatchingFacts
  <1>4. caller \in Id => caller \in Listed
    <2>1. ASSUME caller \in Id PROVE caller # 0 /\ req[caller].state \in {"INIT", "RECV"}
      BY <2>1 DEF smbcli_transport_finish_recv, Looping, CallerReady, Typed, Id
    <2> QED BY <2>1 DEF Sound
  <1> HIDE DEF p, i
  <1> QED BY <1>2, <1>3, <1>4 DEF Live, p, i

LEMMA CollectAnswer ==
    ASSUME NEW i, NEW r \in Requests, NEW p, Collected(i, r), r.state = "RECV",
           p.id = i, <<p.id, p.part>> \in (1 .. MaxReq) \X (0 .. 2),
           p.part = IF r.kind = "trans" THEN Len(r.parts) ELSE 1
    PROVE  Collected(i, Answered(r, p)) /\ Len(Answered(r, p).parts) = Len(r.parts) + 1
  <1> DEFINE n == Len(r.parts)
             e == <<p.id, p.part>>
             a == Append(r.parts, e)
             z == Answered(r, p)
  <1>1. r.parts \in Seq((1 .. MaxReq) \X (0 .. 2)) /\ n \in Nat
    <2>1. r.parts \in Seq((1 .. MaxReq) \X (0 .. 2))
      BY DEF Requests
    <2> QED BY <2>1, LenProperties
  <1>2. /\ a \in Seq((1 .. MaxReq) \X (0 .. 2)) /\ Len(a) = n + 1 /\ a[n + 1] = e
        /\ \A k \in 1 .. n : a[k] = r.parts[k]
    BY <1>1, AppendProperties
  <1>3. z = [r EXCEPT !.state = "DONE", !.parts = a]
    BY DEF Answered
  <1> HIDE DEF a, z, e
  <1>4. z.kind = r.kind /\ z.state = "DONE" /\ z.parts = a /\ z.phase = r.phase
    BY <1>3 DEF Requests
  <1>5. CASE r.kind = "trans"
    <2>1. /\ n < 3 /\ r.parts = [k \in 1 .. n |-> <<i, k - 1>>]
          /\ r.phase = "interim" <=> n = 0
      BY <1>5 DEF Collected
    <2>2. e = <<i, n>>
      BY <1>5 DEF e
    <2>3. \A k \in 1 .. n + 1 : a[k] = <<i, k - 1>>
      <3> SUFFICES ASSUME NEW k \in 1 .. n + 1 PROVE a[k] = <<i, k - 1>>
        OBVIOUS
      <3>1. CASE k = n + 1
        BY <1>1, <1>2, <2>2, <3>1
      <3>2. CASE k # n + 1
        <4>1. k \in 1 .. n
          BY <1>1, <3>2
        <4>2. a[k] = r.parts[k]
          BY <1>2, <4>1
        <4> HIDE DEF n
        <4>3. r.parts[k] = <<i, k - 1>>
          BY <2>1, <4>1
        <4> QED BY <4>2, <4>3
      <3> QED BY <3>1, <3>2
    <2>4. a = [k \in 1 .. n + 1 |-> a[k]]
      BY <1>1, <1>2
    <2> HIDE DEF n
    <2>5. a = [k \in 1 .. n + 1 |-> <<i, k - 1>>]
      BY <2>3, <2>4
    <2>6. Collected(i, z)
      BY <1>1, <1>2, <1>4, <1>5, <2>1, <2>5 DEF Collected
    <2> QED BY <1>2, <1>4, <2>6 DEF z, n
  <1>6. CASE r.kind # "trans"
    <2>1. r.parts = <<>> /\ e = <<i, 1>>
      BY <1>6 DEF Collected, e
    <2>2. a = <<<<i, 1>>>>
      BY <2>1 DEF a
    <2>3. Collected(i, z)
      BY <1>4, <1>6, <2>2 DEF Collected
    <2> QED BY <1>2, <1>4, <2>3 DEF z
  <1> QED BY <1>5, <1>6 DEF z

LEMMA CollectFailure ==
    ASSUME NEW i, NEW r \in Requests, Collected(i, r)
    PROVE  Collected(i, Failed(r)) /\ Collected(i, TimedOut(r))
  <1>1. /\ Failed(r).kind = r.kind /\ Failed(r).state = "ERROR" /\ Failed(r).parts = r.parts
        /\ TimedOut(r).kind = r.kind /\ TimedOut(r).state = "ERROR"
        /\ TimedOut(r).parts = r.parts
    BY DEF Failed, TimedOut, Requests
  <1> QED BY <1>1 DEF Collected

LEMMA ReceivedTouched ==
    ASSUME Typed, Sound, Received, NEW i, NEW r, NEW s, Touched(i, r, s),
           r.freed \/ Collected(i, r)
    PROVE  Received'
  <1>1. /\ i \in Id /\ req \in Seq(Requests) /\ Id' = Id /\ req'[i] = r
        /\ \A j \in Id : j # i => req'[j] = req[j]
    <2>1. i \in Live
      BY DEF Touched
    <2>2. i \in Id /\ req \in Seq(Requests)
      BY <2>1, LiveFacts
    <2> QED BY <2>2 DEF Touched, Id
  <1> SUFFICES ASSUME NEW j \in Id, ~req'[j].freed
               PROVE  Collected(j, req'[j])
    BY <1>1 DEF Received, Collected
  <1>2. CASE j = i
    BY <1>1, <1>2
  <1>3. CASE j # i
    BY <1>1, <1>3 DEF Received
  <1> QED BY <1>2, <1>3


\* Nothing of request j is under way.
Silent(j) == OnWire(j) = {} /\ AtServer(j) = {} /\ Coming(j) = {}

LEMMA ChainSame ==
    ASSUME NEW j, NEW n, UNCHANGED <<wire, server, replies>>
    PROVE  Chain(j, n)' = Chain(j, n) /\ Silent(j)' = Silent(j)
  BY DEF Chain, Silent, OnWire, AtServer, Coming

LEMMA ChainSilent ==
    ASSUME NEW j, NEW n, Silent(j)
    PROVE  Chain(j, n)
  BY DEF Chain, Silent

\* The first packet is taken from replies.
Taken ==
    /\ replies \in Seq(Packets) /\ replies # <<>>
    /\ replies' = Tail(replies) /\ UNCHANGED <<wire, server>>

\* It is somebody else's.
LEMMA ChainTail ==
    ASSUME NEW j, NEW n, Taken, Head(replies).id # j
    PROVE  (Chain(j, n) => Chain(j, n)') /\ (Silent(j) => Silent(j)')
  <1>1. /\ Len(replies') = Len(replies) - 1 /\ Len(replies) \in Nat /\ Len(replies) > 0
        /\ Head(replies) = replies[1]
        /\ \A k \in 1 .. Len(replies) - 1 : replies'[k] = replies[k + 1]
        /\ DOMAIN replies = 1 .. Len(replies) /\ DOMAIN replies' = 1 .. Len(replies) - 1
    <2>1. replies' \in Seq(Packets)
      BY TailRange DEF Taken
    <2> QED BY <2>1, TailRange DEF Taken
  <1>2. OnWire(j)' = OnWire(j) /\ AtServer(j)' = AtServer(j) /\ wire' = wire
    BY DEF OnWire, AtServer, Taken
  <1> DEFINE C == Coming(j)
             D == Coming(j)'
  <1>3. /\ \A k \in D : k \in Nat /\ k + 1 \in C /\ replies'[k] = replies[k + 1]
        /\ \A k \in C : k \in Nat /\ k - 1 \in D /\ replies'[k - 1] = replies[k]
    <2>1. \A k : k \in C <=> k \in 1 .. Len(replies) /\ replies[k].id = j
      BY <1>1 DEF Coming
    <2>2. \A k : k \in D <=> k \in 1 .. Len(replies) - 1 /\ replies'[k].id = j
      BY <1>1 DEF Coming
    <2> HIDE DEF C, D
    <2>3. 1 \notin C
      BY <1>1, <2>1
    <2>4. ASSUME NEW k \in D
          PROVE  k \in Nat /\ k + 1 \in C /\ replies'[k] = replies[k + 1]
      <3>1. k \in 1 .. Len(replies) - 1 /\ replies'[k].id = j
        BY <2>2
      <3>2. k \in Nat /\ k + 1 \in 1 .. Len(replies) /\ replies'[k] = replies[k + 1]
        BY <1>1, <3>1
      <3> QED BY <2>1, <3>1, <3>2
    <2>5. ASSUME NEW k \in C
          PROVE  k \in Nat /\ k - 1 \in D /\ replies'[k - 1] = replies[k]
      <3>1. k \in 1 .. Len(replies) /\ replies[k].id = j /\ k # 1
        BY <2>1, <2>3
      <3>2. k \in Nat /\ k - 1 \in 1 .. Len(replies) - 1 /\ (k - 1) + 1 = k
        BY <1>1, <3>1
      <3>3. replies'[k - 1] = replies[k]
        BY <1>1, <3>2
      <3> QED BY <2>2, <3>1, <3>2, <3>3
    <2> QED BY <2>4, <2>5
  <1> HIDE DEF C, D
  <1>4. C = {} <=> D = {}
    BY <1>3
  <1>5. Silent(j) => Silent(j)'
    BY <1>2, <1>4 DEF Silent, C, D
  <1>6. ASSUME Chain(j, n) PROVE Chain(j, n)'
    <2>1. \A k \in OnWire(j)' : /\ wire'[k].part = n /\ OnWire(j)' = {k}
                                /\ AtServer(j)' = {} /\ D = {}
      BY <1>2, <1>4, <1>6 DEF Chain, C
    <2>2. ASSUME NEW p \in AtServer(j)'
          PROVE  /\ \/ p.part = n /\ D = {}
                    \/ p.part = 2 /\ n = 1 /\ D # {}
                 /\ \A k \in D : replies'[k].part = 1
                 /\ \A q \in AtServer(j)' : p = q
      <3>1. /\ \/ p.part = n /\ C = {}
               \/ p.part = 2 /\ n = 1 /\ C # {}
            /\ \A k \in C : replies[k].part = 1
            /\ \A q \in AtServer(j) : p = q
        BY <1>2, <1>6, <2>2 DEF Chain, C
      <3>2. ASSUME NEW k \in D PROVE replies'[k].part = 1
        <4>1. k + 1 \in C /\ replies'[k] = replies[k + 1]
          BY <1>3
        <4> QED BY <3>1, <4>1
      <3> QED BY <1>2, <1>4, <3>1, <3>2
    <2>3. ASSUME NEW k \in D
          PROVE  /\ \/ replies'[k].part = n
                    \/ n = 1 /\ replies'[k].part = 2 /\ \E l \in D : l < k /\ replies'[l].part = 1
                 /\ \A l \in D : replies'[k].part = replies'[l].part => k = l
      <3>1. /\ \/ replies[k + 1].part = n
               \/ n = 1 /\ replies[k + 1].part = 2
                  /\ \E l \in C : l < k + 1 /\ replies[l].part = 1
            /\ \A l \in C : replies[k + 1].part = replies[l].part => k + 1 = l
        BY <1>3, <1>6 DEF Chain, C
      <3>2. ASSUME NEW l \in C, l < k + 1
            PROVE  l - 1 \in D /\ l - 1 < k /\ replies'[l - 1] = replies[l]
        <4>1. l \in Nat /\ l - 1 \in D /\ replies'[l - 1] = replies[l] /\ k \in Nat
          BY <1>3
        <4> QED BY <3>2, <4>1
      <3>3. ASSUME NEW l \in D, replies'[k].part = replies'[l].part
            PROVE  k = l
        <4>1. /\ l \in Nat /\ l + 1 \in C /\ replies'[l] = replies[l + 1]
              /\ k \in Nat /\ replies'[k] = replies[k + 1]
          BY <1>3
        <4>2. k + 1 = l + 1
          BY <3>1, <3>3, <4>1
        <4> QED BY <4>1, <4>2
      <3>4. CASE replies[k + 1].part = n
        BY <1>3, <3>3, <3>4
      <3>5. CASE n = 1 /\ replies[k + 1].part = 2
                 /\ \E l \in C : l < k + 1 /\ replies[l].part = 1
        BY <1>3, <3>2, <3>3, <3>5
      <3> QED BY <3>1, <3>4, <3>5
    <2> QED BY <2>1, <2>2, <2>3 DEF Chain, D
  <1> QED BY <1>5, <1>6

\* The part request j waits for is taken from replies.
LEMMA ChainTaken ==
    ASSUME NEW j, NEW n \in Nat, Taken, Head(replies).id = j, Chain(j, n)
    PROVE  /\ Head(replies).part = n
           /\ Chain(j, n + 1)' /\ (n = 0 => Silent(j)')
  <1>1. /\ Len(replies') = Len(replies) - 1 /\ Len(replies) \in Nat /\ Len(replies) > 0
        /\ Head(replies) = replies[1]
        /\ \A k \in 1 .. Len(replies) - 1 : replies'[k] = replies[k + 1]
        /\ DOMAIN replies = 1 .. Len(replies) /\ DOMAIN replies' = 1 .. Len(replies) - 1
    <2>1. replies' \in Seq(Packets)
      BY TailRange DEF Taken
    <2> QED BY <2>1, TailRange DEF Taken
  <1>2. OnWire(j)' = OnWire(j) /\ AtServer(j)' = AtServer(j) /\ wire' = wire
    BY DEF OnWire, AtServer, Taken
  <1> DEFINE C == Coming(j)
             D == Coming(j)'
  <1>3. /\ 1 \in C /\ \A k \in C : k \in Nat /\ k >= 1
        /\ \A k \in D : k \in Nat /\ k + 1 \in C /\ k + 1 # 1 /\ replies'[k] = replies[k + 1]
    <2>1. \A k : k \in C <=> k \in 1 .. Len(replies) /\ replies[k].id = j
      BY <1>1 DEF Coming
    <2>2. \A k : k \in D <=> k \in 1 .. Len(replies) - 1 /\ replies'[k].id = j
      BY <1>1 DEF Coming
    <2> HIDE DEF C, D
    <2> QED BY <1>1, <2>1, <2>2
  <1>4. \A k \in C : /\ \/ replies[k].part = n
                        \/ n = 1 /\ replies[k].part = 2
                           /\ \E l \in C : l < k /\ replies[l].part = 1
                     /\ \A l \in C : replies[k].part = replies[l].part => k = l
    BY DEF Chain
  <1>5. OnWire(j) = {}
    BY <1>3 DEF Chain
  <1>6. \A p \in AtServer(j) : /\ p.part = 2 /\ n = 1
                               /\ \A k \in C : replies[k].part = 1
                               /\ \A q \in AtServer(j) : p = q
    BY <1>3 DEF Chain
  <1> HIDE DEF C, D
  <1>7. replies[1].part = n
    <2>1. ASSUME NEW l \in C PROVE ~(l < 1)
      BY <1>3
    <2> QED BY <1>3, <1>4, <2>1
  <1>8. ASSUME NEW k \in D PROVE n = 1 /\ replies'[k].part = 2
    <2>1. k + 1 \in C /\ k + 1 # 1 /\ replies'[k] = replies[k + 1] /\ 1 \in C
      BY <1>3
    <2>2. replies[k + 1].part # n
      BY <1>4, <1>7, <2>1
    <2> QED BY <1>4, <2>1, <2>2
  <1>9. \A p \in AtServer(j) : D = {}
    <2> SUFFICES ASSUME NEW p \in AtServer(j), NEW k \in D PROVE FALSE
      OBVIOUS
    <2>1. k + 1 \in C /\ replies'[k] = replies[k + 1]
      BY <1>3
    <2>2. replies[k + 1].part = 1
      BY <1>6, <2>1
    <2> QED BY <1>8, <2>1, <2>2
  <1>10. Chain(j, n + 1)'
    <2>1. ASSUME NEW p \in AtServer(j)'
          PROVE  /\ p.part = n + 1 /\ D = {}
                 /\ \A q \in AtServer(j)' : p = q
      BY <1>2, <1>6, <1>9
    <2>2. ASSUME NEW k \in D
          PROVE  /\ replies'[k].part = n + 1
                 /\ \A l \in D : replies'[k].part = replies'[l].part => k = l
      <3>1. replies'[k].part = n + 1
        BY <1>8
      <3>2. ASSUME NEW l \in D, replies'[k].part = replies'[l].part
            PROVE  k = l
        <4>1. /\ l \in Nat /\ l + 1 \in C /\ replies'[l] = replies[l + 1]
              /\ k \in Nat /\ k + 1 \in C /\ replies'[k] = replies[k + 1]
          BY <1>3
        <4>2. k + 1 = l + 1
          BY <1>4, <3>2, <4>1
        <4> QED BY <4>1, <4>2
      <3> QED BY <3>1, <3>2
    <2> QED BY <1>2, <1>5, <2>1, <2>2 DEF Chain, D
  <1>11. n = 0 => Silent(j)'
    <2>1. n = 0 => D = {} /\ AtServer(j) = {}
      BY <1>6, <1>8
    <2> QED BY <1>2, <1>5, <2>1 DEF Silent, D
  <1> QED BY <1>1, <1>7, <1>10, <1>11


\* A packet of request i is sent.
Posted(p) == wire \in Seq(Packets) /\ p \in Packets /\ wire' = Append(wire, p)
             /\ UNCHANGED <<server, replies>>

LEMMA ChainPosted ==
    ASSUME NEW j, NEW n, NEW p, Posted(p)
    PROVE  /\ p.id # j /\ Chain(j, n) => Chain(j, n)'
           /\ p.id # j /\ Silent(j) => Silent(j)'
           /\ p.id = j /\ p.part = n /\ Silent(j) => Chain(j, n)'
  <1>1. /\ Len(wire) \in Nat /\ DOMAIN wire = 1 .. Len(wire)
        /\ DOMAIN wire' = 1 .. Len(wire) + 1
        /\ \A k \in 1 .. Len(wire) : wire'[k] = wire[k]
        /\ wire'[Len(wire) + 1] = p
    <2>1. /\ wire' \in Seq(Packets) /\ Len(wire') = Len(wire) + 1
          /\ \A k \in 1 .. Len(wire) : wire'[k] = wire[k]
          /\ wire'[Len(wire) + 1] = p
      BY AppendProperties DEF Posted
    <2>2. Len(wire) \in Nat /\ DOMAIN wire = 1 .. Len(wire)
      BY DEF Posted
    <2> QED BY <2>1, <2>2
  <1>2. AtServer(j)' = AtServer(j) /\ Coming(j)' = Coming(j) /\ replies' = replies
    BY DEF AtServer, Coming, Posted
  <1> DEFINE O == OnWire(j)
             W == OnWire(j)'
             m == Len(wire) + 1
  <1>3. /\ \A k : k \in O <=> k \in 1 .. Len(wire) /\ wire[k].id = j
        /\ \A k : k \in W <=> k \in 1 .. m /\ wire'[k].id = j
    BY <1>1 DEF OnWire
  <1>4. 1 .. m = (1 .. Len(wire)) \cup {m} /\ m \notin 1 .. Len(wire)
    BY <1>1
  <1> HIDE DEF O, W, m
  <1>5. p.id # j => W = O /\ \A k \in W : wire'[k] = wire[k]
    BY <1>1, <1>3, <1>4 DEF m
  <1>6. p.id = j /\ O = {} => W = {m} /\ wire'[m] = p
    BY <1>1, <1>3, <1>4 DEF m
  <1>7. ASSUME p.id # j, Chain(j, n)
        PROVE  Chain(j, n)'
    <2>1. ASSUME NEW k \in W
          PROVE  wire'[k].part = n /\ W = {k} /\ AtServer(j)' = {} /\ Coming(j)' = {}
      BY <1>2, <1>5, <1>7 DEF Chain, O
    <2> QED BY <1>2, <1>7, <2>1 DEF Chain, W
  <1>8. ASSUME p.id # j, Silent(j)
        PROVE  Silent(j)'
    BY <1>2, <1>5, <1>8 DEF Silent, O, W
  <1>9. ASSUME p.id = j, p.part = n, Silent(j)
        PROVE  Chain(j, n)'
    <2>1. O = {} /\ AtServer(j)' = {} /\ Coming(j)' = {}
      BY <1>2, <1>9 DEF Silent, O
    <2>2. ASSUME NEW k \in W
          PROVE  wire'[k].part = n /\ W = {k}
      BY <1>6, <1>9, <2>1
    <2> QED BY <2>1, <2>2 DEF Chain, W
  <1> QED BY <1>7, <1>8, <1>9

\* The server accepts the first packet on the wire.
LEMMA ChainAccept ==
    ASSUME NEW j, NEW n, wire \in Seq(Packets), ServerAccept
    PROVE  (Chain(j, n) => Chain(j, n)') /\ (Silent(j) => Silent(j)')
  <1> DEFINE h == Head(wire)
             O == OnWire(j)
             W == OnWire(j)'
             A == AtServer(j)
             B == AtServer(j)'
  <1>1. /\ Len(wire) \in Nat /\ Len(wire) > 0 /\ DOMAIN wire = 1 .. Len(wire)
        /\ DOMAIN wire' = 1 .. Len(wire) - 1
        /\ \A k \in 1 .. Len(wire) - 1 : wire'[k] = wire[k + 1]
        /\ h = wire[1]
    <2>1. wire # <<>> /\ wire' = Tail(wire)
      BY DEF ServerAccept
    <2>2. Tail(wire) \in Seq(Packets) /\ Len(Tail(wire)) = Len(wire) - 1
      BY <2>1, TailRange
    <2> QED BY <2>1, <2>2, TailRange
  <1>2. /\ Coming(j)' = Coming(j) /\ replies' = replies
        /\ \A p : p \in B <=> p \in A \/ (p = h /\ h.id = j)
    BY DEF Coming, AtServer, ServerAccept
  <1>3. /\ \A k : k \in O <=> k \in 1 .. Len(wire) /\ wire[k].id = j
        /\ \A k : k \in W <=> k \in 1 .. Len(wire) - 1 /\ wire'[k].id = j
    BY <1>1 DEF OnWire
  <1> HIDE DEF h, O, W, A, B
  <1>4. /\ \A k \in W : k \in Nat /\ k >= 1 /\ k + 1 \in O /\ wire'[k] = wire[k + 1]
        /\ h.id = j => 1 \in O
        /\ \A k \in O : k \in Nat
    <2>1. ASSUME NEW k \in W
          PROVE  k \in Nat /\ k >= 1 /\ k + 1 \in 1 .. Len(wire) /\ wire'[k] = wire[k + 1]
                 /\ wire[k + 1].id = j
      BY <1>1, <1>3
    <2> QED BY <1>1, <1>3, <2>1
  <1>5. h.id # j => \A k \in O : k - 1 \in W
    <2> SUFFICES ASSUME h.id # j, NEW k \in O
                 PROVE  k - 1 \in W
      OBVIOUS
    <2>1. k \in 1 .. Len(wire) /\ wire[k].id = j /\ k # 1
      BY <1>1, <1>3
    <2>2. k - 1 \in 1 .. Len(wire) - 1 /\ wire'[k - 1] = wire[k - 1 + 1] /\ k - 1 + 1 = k
      BY <1>1, <2>1
    <2> QED BY <1>3, <2>1, <2>2
  <1>6. ASSUME Silent(j) PROVE Silent(j)'
    <2>1. O = {} /\ A = {} /\ Coming(j) = {}
      BY <1>6 DEF Silent, O, A
    <2>2. W = {} /\ B = {}
      BY <1>2, <1>4, <2>1
    <2> QED BY <1>2, <2>1, <2>2 DEF Silent, W, B
  <1>7. ASSUME Chain(j, n), h.id = j PROVE Chain(j, n)'
    <2>1. wire[1].part = n /\ O = {1} /\ A = {} /\ Coming(j) = {}
      <3>1. 1 \in O
        BY <1>4, <1>7
      <3> QED BY <1>7, <3>1 DEF Chain, O, A
    <2>2. W = {}
      <3> SUFFICES ASSUME NEW k \in W PROVE FALSE
        OBVIOUS
      <3>1. k + 1 \in O /\ k \in Nat /\ k >= 1
        BY <1>4
      <3>2. k + 1 = 1
        BY <2>1, <3>1
      <3> QED BY <3>1, <3>2
    <2>3. B = {h} /\ h.part = n
      BY <1>1, <1>2, <1>7, <2>1
    <2> QED BY <1>2, <2>1, <2>2, <2>3 DEF Chain, W, B
  <1>8. ASSUME Chain(j, n), h.id # j PROVE Chain(j, n)'
    <2>1. B = A
      BY <1>2, <1>8
    <2>2. ASSUME NEW k \in W
          PROVE  wire'[k].part = n /\ W = {k} /\ B = {} /\ Coming(j)' = {}
      <3>1. k + 1 \in O /\ wire'[k] = wire[k + 1] /\ k \in Nat
        BY <1>4
      <3>2. wire[k + 1].part = n /\ O = {k + 1} /\ A = {} /\ Coming(j) = {}
        BY <1>8, <3>1 DEF Chain, O, A
      <3>3. ASSUME NEW l \in W PROVE l = k
        <4>1. l + 1 \in O /\ l \in Nat
          BY <1>4
        <4>2. l + 1 = k + 1
          BY <3>2, <4>1
        <4> QED BY <3>1, <4>1, <4>2
      <3> QED BY <1>2, <2>1, <3>1, <3>2, <3>3
    <2> QED BY <1>2, <1>8, <2>1, <2>2 DEF Chain, W, A, B
  <1> QED BY <1>6, <1>7, <1>8


\* The server sends packet p.
Next2(p) == [p EXCEPT !.part = 2]

Replied(p) ==
    /\ server \subseteq Packets /\ replies \in Seq(Packets) /\ p \in server
    /\ replies' = Append(replies, p)
    /\ server' = IF p.part = 1 /\ req[p.id].kind = "trans"
                 THEN (server \ {p}) \cup {Next2(p)} ELSE server \ {p}
    /\ UNCHANGED wire

LEMMA ChainReplied ==
    ASSUME NEW j, NEW n, NEW p, Replied(p), p.id = j => req[j].kind = "trans"
    PROVE  (Chain(j, n) => Chain(j, n)') /\ (Silent(j) => Silent(j)')
  <1> DEFINE m == Len(replies) + 1
             C == Coming(j)
             D == Coming(j)'
             A == AtServer(j)
             B == AtServer(j)'
             O == OnWire(j)
             p2 == Next2(p)
  <1>1. /\ Len(replies) \in Nat /\ DOMAIN replies = 1 .. Len(replies)
        /\ DOMAIN replies' = 1 .. Len(replies) + 1
        /\ \A k \in 1 .. Len(replies) : replies'[k] = replies[k]
        /\ replies'[Len(replies) + 1] = p
    <2>1. /\ replies' \in Seq(Packets) /\ Len(replies') = Len(replies) + 1
          /\ \A k \in 1 .. Len(replies) : replies'[k] = replies[k]
          /\ replies'[Len(replies) + 1] = p
      BY AppendProperties DEF Replied
    <2>2. Len(replies) \in Nat /\ DOMAIN replies = 1 .. Len(replies)
      BY DEF Replied
    <2> QED BY <2>1, <2>2
  <1>2. OnWire(j)' = O /\ wire' = wire
    BY DEF OnWire, Replied
  <1>3. /\ \A k : k \in C <=> k \in 1 .. Len(replies) /\ replies[k].id = j
        /\ \A k : k \in D <=> k \in 1 .. m /\ replies'[k].id = j
    BY <1>1 DEF Coming
  <1>4. 1 .. m = (1 .. Len(replies)) \cup {m} /\ m \notin 1 .. Len(replies)
        /\ \A k \in 1 .. Len(replies) : k < m
    BY <1>1
  <1>5. p2.id = p.id /\ p2.part = 2 /\ p \in server
    BY DEF Replied, Packets, Next2
  <1>6. \A x : x \in B <=> \/ x \in A /\ x # p
                           \/ x = p2 /\ p.id = j /\ p.part = 1 /\ req[p.id].kind = "trans"
    <2>1. \A x : /\ x \in A <=> x \in server /\ x.id = j
                 /\ x \in B <=> x \in server' /\ x.id = j
      BY DEF AtServer
    <2>2. \A x : x \in server' <=> \/ x \in server /\ x # p
                                   \/ x = p2 /\ p.part = 1 /\ req[p.id].kind = "trans"
      BY DEF Replied
    <2> HIDE DEF A, B, p2
    <2> QED BY <1>5, <2>1, <2>2
  <1>7. p \in A <=> p.id = j
    BY <1>5 DEF AtServer
  <1> HIDE DEF m, C, D, A, B, O, p2
  <1>8. /\ p.id # j => D = C
        /\ p.id = j => D = C \cup {m}
        /\ \A k \in C : k < m /\ k # m /\ replies'[k] = replies[k]
        /\ replies'[m] = p
    <2>1. \A k \in C : k < m /\ k # m /\ replies'[k] = replies[k] /\ k \in 1 .. Len(replies)
      BY <1>1, <1>3, <1>4
    <2>2. replies'[m] = p
      BY <1>1 DEF m
    <2>3. \A k : k \in D <=> k \in C \/ (k = m /\ p.id = j)
      <3> SUFFICES ASSUME NEW k PROVE k \in D <=> k \in C \/ (k = m /\ p.id = j)
        OBVIOUS
      <3>1. CASE k \in 1 .. Len(replies)
        BY <1>1, <1>3, <1>4, <3>1
      <3>2. CASE k \notin 1 .. Len(replies)
        BY <1>3, <1>4, <2>2, <3>2
      <3> QED BY <3>1, <3>2
    <2>4. p.id # j => D = C
      BY <2>3
    <2>5. p.id = j => D = C \cup {m}
      BY <2>3
    <2> QED BY <2>1, <2>2, <2>4, <2>5
  <1>9. p.id # j => B = A
    BY <1>6, <1>7
  <1>10. ASSUME Silent(j) PROVE Silent(j)'
    <2>1. p.id # j
      BY <1>7, <1>10 DEF Silent, A
    <2> QED BY <1>2, <1>8, <1>9, <1>10, <2>1 DEF Silent, A, B, C, D, O
  <1>11. ASSUME Chain(j, n), p.id # j PROVE Chain(j, n)'
    <2>1. D = C /\ B = A /\ \A k \in C : replies'[k] = replies[k]
      BY <1>8, <1>9, <1>11
    <2>2. /\ \A k \in O : wire[k].part = n /\ O = {k} /\ A = {} /\ C = {}
          /\ \A x \in A :
                /\ \/ x.part = n /\ C = {}
                   \/ x.part = 2 /\ n = 1 /\ C # {}
                /\ \A k \in C : replies[k].part = 1
                /\ \A q \in A : x = q
          /\ \A k \in C :
                /\ \/ replies[k].part = n
                   \/ n = 1 /\ replies[k].part = 2
                      /\ \E l \in C : l < k /\ replies[l].part = 1
                /\ \A l \in C : replies[k].part = replies[l].part => k = l
      BY <1>11 DEF Chain, A, C, O
    <2>3. /\ \A k \in O : wire'[k].part = n /\ O = {k} /\ B = {} /\ D = {}
          /\ \A x \in B :
                /\ \/ x.part = n /\ D = {}
                   \/ x.part = 2 /\ n = 1 /\ D # {}
                /\ \A k \in D : replies'[k].part = 1
                /\ \A q \in B : x = q
          /\ \A k \in D :
                /\ \/ replies'[k].part = n
                   \/ n = 1 /\ replies'[k].part = 2
                      /\ \E l \in D : l < k /\ replies'[l].part = 1
                /\ \A l \in D : replies'[k].part = replies'[l].part => k = l
      BY <1>2, <2>1, <2>2
    <2> QED BY <1>2, <2>3 DEF Chain, B, D
  <1>12. ASSUME Chain(j, n), p.id = j PROVE Chain(j, n)'
    <2>1. p \in A /\ D = C \cup {m}
      BY <1>7, <1>8, <1>12
    <2>2. /\ \/ p.part = n /\ C = {}
             \/ p.part = 2 /\ n = 1 /\ C # {}
          /\ \A k \in C : replies[k].part = 1
          /\ \A q \in A : p = q
          /\ \A k \in C : \A l \in C : replies[k].part = replies[l].part => k = l
      BY <1>12, <2>1 DEF Chain, A, C
    <2>3. O = {}
      BY <1>12, <2>1 DEF Chain, A, O
    <2>4. \A x \in B : x = p2 /\ p.part = 1
      BY <1>6, <2>2
    <2>5. CASE p.part = n /\ C = {}
      <3>1. D = {m} /\ replies'[m].part = n
        BY <1>8, <2>1, <2>5
      <3>2. \A x \in B : x.part = 2 /\ n = 1 /\ x = p2
        BY <1>5, <2>4, <2>5
      <3> QED BY <1>2, <2>3, <3>1, <3>2 DEF Chain, B, D
    <2>6. CASE p.part = 2 /\ n = 1 /\ C # {}
      <3>1. B = {}
        BY <2>4, <2>6
      <3>2. \A k \in C : replies'[k].part = 1 /\ k < m /\ k \in D
        BY <1>8, <2>1, <2>2
      <3>3. replies'[m].part = 2 /\ m \in D
        BY <1>8, <2>1, <2>6
      <3>4. ASSUME NEW k \in D
            PROVE  /\ \/ replies'[k].part = n
                      \/ n = 1 /\ replies'[k].part = 2
                         /\ \E l \in D : l < k /\ replies'[l].part = 1
                   /\ \A l \in D : replies'[k].part = replies'[l].part => k = l
        <4>1. CASE k \in C
          <5>1. ASSUME NEW l \in D, replies'[k].part = replies'[l].part
                PROVE  k = l
            <6>1. l \in C
              BY <2>1, <3>2, <3>3, <4>1, <5>1
            <6>2. replies[k].part = 1 /\ replies[l].part = 1
              BY <2>2, <4>1, <6>1
            <6> QED BY <2>2, <4>1, <6>1, <6>2
          <5> QED BY <2>6, <3>2, <4>1, <5>1
        <4>2. CASE k = m
          <5>1. ASSUME NEW l \in D, replies'[k].part = replies'[l].part
                PROVE  k = l
            BY <2>1, <3>2, <3>3, <4>2, <5>1
          <5>2. PICK l \in C : TRUE
            BY <2>6
          <5>3. l \in D /\ l < k /\ replies'[l].part = 1
            BY <3>2, <4>2
          <5> QED BY <2>6, <3>3, <4>2, <5>1, <5>3
        <4> QED BY <2>1, <4>1, <4>2
      <3> QED BY <1>2, <2>3, <3>1, <3>4 DEF Chain, B, D
    <2> QED BY <2>2, <2>5, <2>6
  <1> QED BY <1>10, <1>11, <1>12


LEMMA TouchedFacts ==
    ASSUME Typed, Sound, NEW i, NEW r, NEW s, Touched(i, r, s)
    PROVE  /\ i \in Id /\ i \in Live /\ Id' = Id /\ req'[i] = r /\ 0 \notin Id
           /\ \A j \in Id : j # i => req'[j] = req[j]
           /\ \A j \in Id : j = caller' => j = caller /\ (j = i => ~r.freed)
           /\ Live \subseteq Id
  <1>1. i \in Live
    BY DEF Touched
  <1>2. i \in Id /\ req \in Seq(Requests)
    BY <1>1, LiveFacts
  <1>3. 0 \notin Id /\ Live \subseteq Id
    BY <1>2 DEF Id, Live, Listed, Range, Typed
  <1>4. Id' = Id /\ req'[i] = r /\ \A j \in Id : j # i => req'[j] = req[j]
    BY <1>2 DEF Touched, Id
  <1>5. caller' = IF r.freed /\ i = caller THEN 0 ELSE caller
    BY DEF Touched
  <1> QED BY <1>1, <1>2, <1>3, <1>4, <1>5

LEMMA ChainedUse ==
    ASSUME Chained, NEW j \in Id, j = caller, req[j].kind = "trans", req[j].state # "ERROR"
    PROVE  /\ Chain(j, Len(req[j].parts))
           /\ req[j].state = "DONE" /\ req[j].phase = "interim" => Silent(j)
  BY DEF Chained, Silent

\* What has to be shown for a step that touches request i.
LEMMA ChainedStep ==
    ASSUME Typed, Sound, Chained, NEW i, NEW r, NEW s, Touched(i, r, s),
           ASSUME NEW j \in Id, j # i, j = caller, NEW n
           PROVE  (Chain(j, n) => Chain(j, n)') /\ (Silent(j) => Silent(j)'),
           i = caller /\ ~r.freed /\ r.kind = "trans" /\ r.state # "ERROR" =>
              /\ Chain(i, Len(r.parts))'
              /\ r.state = "DONE" /\ r.phase = "interim" => Silent(i)'
    PROVE  Chained'
  <1>1. /\ i \in Id /\ Id' = Id /\ req'[i] = r /\ 0 \notin Id
        /\ \A j \in Id : j # i => req'[j] = req[j]
        /\ \A j \in Id : j = caller' => j = caller /\ (j = i => ~r.freed)
    BY TouchedFacts
  <1> SUFFICES ASSUME NEW j \in Id, j = caller', req'[j].kind = "trans", req'[j].state # "ERROR"
               PROVE  /\ Chain(j, Len(req[j].parts))'
                      /\ req'[j].state = "DONE" /\ req'[j].phase = "interim" => Silent(j)'
    BY <1>1 DEF Chained, Silent
  <1>2. CASE j # i
    <2>1. req'[j] = req[j] /\ j = caller
      BY <1>1, <1>2
    <2> DEFINE n == Len(req[j].parts)
    <2>2. /\ Chain(j, n)
          /\ req[j].state = "DONE" /\ req[j].phase = "interim" => Silent(j)
      BY <2>1, ChainedUse
    <2>3. PICK k : k = n
      OBVIOUS
    <2>4. (Chain(j, k) => Chain(j, k)') /\ (Silent(j) => Silent(j)')
      BY <1>2, <2>1
    <2>5. Chain(j, k)' <=> Chain(j, Len(req[j].parts))'
      BY <2>1, <2>3
    <2> QED BY <2>1, <2>2, <2>3, <2>4, <2>5
  <1>3. CASE j = i
    <2>1. i = caller /\ ~r.freed /\ r.kind = "trans" /\ r.state # "ERROR" /\ req'[i] = r
      BY <1>1, <1>3
    <2>2. PICK k : k = Len(r.parts)
      OBVIOUS
    <2>3. Chain(i, k)' /\ (r.state = "DONE" /\ r.phase = "interim" => Silent(i)')
      BY <2>1, <2>2
    <2> QED BY <1>3, <2>1, <2>2, <2>3
  <1> QED BY <1>2, <1>3

\* A step that changes nothing but request i and leaves its packets alone.
LEMMA TouchedStep ==
    ASSUME IInv, NEW i, NEW r, NEW s, Touched(i, r, s), UNCHANGED <<wire, server, replies>>,
           r.freed \/ Collected(i, r),
           \/ r.freed \/ r.kind = "async" \/ r.state = "ERROR"
           \/ r.state = "RECV" /\ req[i].state # "ERROR" /\ r.parts = req[i].parts
    PROVE  IInv'
  <1>1. Typed /\ Sound /\ Addressed /\ Distant /\ Received /\ Chained
    BY DEF IInv
  <1>2. Typed' /\ Sound' /\ Kept
    BY <1>1, TouchedInv
  <1>3. i \in Id /\ Live \subseteq Id
    BY <1>1, TouchedFacts
  <1>4. Addressed'
    <2>1. InFlight' = InFlight /\ wire' \in Seq(Packets) /\ server' \subseteq Packets
          /\ replies' \in Seq(Packets)
      BY <1>1 DEF InFlight, Addressed
    <2> QED BY <1>1, <1>2, <1>3, <2>1, AddressedKept
  <1>5. Distant'
    BY <1>1, <1>2, <1>3, DistantKept
  <1>6. Received'
    BY <1>1, ReceivedTouched
  <1>7. Chained'
    <2>1. ASSUME NEW j \in Id, j # i, j = caller, NEW n
          PROVE  (Chain(j, n) => Chain(j, n)') /\ (Silent(j) => Silent(j)')
      BY ChainSame
    <2>2. ASSUME i = caller, ~r.freed, r.kind = "trans", r.state # "ERROR"
          PROVE  /\ Chain(i, Len(r.parts))'
                 /\ r.state = "DONE" /\ r.phase = "interim" => Silent(i)'
      <3>1. r.state = "RECV" /\ req[i].state # "ERROR" /\ r.parts = req[i].parts
            /\ req[i].kind = "trans"
        BY <2>2 DEF Touched
      <3>2. Chain(i, Len(r.parts))
        BY <1>1, <1>3, <2>2, <3>1, ChainedUse
      <3>3. Chain(i, Len(r.parts))'
        BY <3>2, ChainSame
      <3> QED BY <3>1, <3>3
    <2> QED BY <1>1, <2>1, <2>2, ChainedStep
  <1> QED BY <1>2, <1>4, <1>5, <1>6, <1>7 DEF IInv


-----------------------------------------------------------------------------
(***************************************************************************)
(* The invariant is inductive, action by action.                           *)
(***************************************************************************)
LEMMA LiveCollected ==
    ASSUME IInv, NEW i \in Live
    PROVE  /\ req[i] \in Requests /\ ~req[i].freed /\ Collected(i, req[i]) /\ i \in Id
           /\ req[i].outcome = "waiting"
  <1>1. Typed /\ Sound /\ Received
    BY DEF IInv
  <1>2. i \in Id /\ req[i] \in Requests /\ ~req[i].freed /\ req[i].outcome = "waiting"
    BY <1>1, LiveFacts
  <1> QED BY <1>1, <1>2 DEF Received

\* A request that fails.
LEMMA FailedStep ==
    ASSUME IInv, NEW i \in Live, NEW r \in {Failed(req[i]), TimedOut(req[i])}, Fired(i, r),
           UNCHANGED <<server, replies>>
    PROVE  IInv'
  <1> DEFINE z == IF r.kind = "async" THEN Ended(r, i) ELSE r
             s == RemoveFirst(t.pending_recv, i)
  <1>1. req[i] \in Requests /\ Collected(i, req[i])
    BY LiveCollected
  <1>2. r \in Requests /\ r.state = "ERROR"
    BY <1>1 DEF Failed, TimedOut, Requests
  <1>3. Collected(i, r)
    BY <1>1, CollectFailure
  <1>4. Touched(i, z, s) /\ UNCHANGED wire
    BY DEF Fired
  <1>5. z.freed \/ (z.state = "ERROR" /\ Collected(i, z))
    BY <1>2, <1>3, EndedFacts
  <1> HIDE DEF z, s
  <1> QED BY <1>4, <1>5, TouchedStep

LEMMA GiveUpStep ==
    ASSUME IInv, UNCHANGED env, GiveUp
    PROVE  IInv'
  <1>1. /\ \E i \in Live : Touched(i, Told(Freed(req[i]), "given up"),
                                   RemoveFirst(t.pending_recv, i))
        /\ UNCHANGED <<wire, server, replies>>
    BY GiveUpTouched DEF IInv
  <1>2. PICK i \in Live : Touched(i, Told(Freed(req[i]), "given up"),
                                  RemoveFirst(t.pending_recv, i))
    BY <1>1
  <1> DEFINE r == Told(Freed(req[i]), "given up")
             s == RemoveFirst(t.pending_recv, i)
  <1>3. r.freed
    <2>1. req[i] \in Requests
      BY LiveCollected
    <2>2. Freed(req[i]) \in Requests /\ Freed(req[i]).freed
      BY <2>1 DEF Freed, Requests
    <2> HIDE DEF Freed
    <2> QED BY <2>2 DEF Told, Requests
  <1> HIDE DEF r, s
  <1>4. Touched(i, r, s)
    BY <1>2 DEF r, s
  <1> QED BY <1>1, <1>3, <1>4, TouchedStep

\* What a synchronous caller has when it goes on.
LEMMA ReceiveFacts ==
    ASSUME IInv, NEW i \in Live, req[i].state \in {"DONE", "ERROR"}
    PROVE  /\ Whole(i) => Verdict(req[i], i) \in {"answered", "failed"}
           /\ ~Whole(i) => req[i].kind = "trans" /\ req[i].state = "DONE"
           /\ ~Whole(i) /\ req[i].phase = "interim" =>
                 Len(req[i].parts) = 1 /\ Collected(i, Second(req[i]))
           /\ ~Whole(i) /\ req[i].phase # "interim" => Collected(i, Resumed(req[i]))
           /\ Resumed(req[i]).state = "RECV" /\ Resumed(req[i]).parts = req[i].parts
           /\ Second(req[i]).parts = req[i].parts /\ Second(req[i]).kind = req[i].kind
           /\ Second(req[i]).state = "RECV"
  <1> DEFINE r == req[i]
  <1>1. r \in Requests /\ Collected(i, r)
    BY LiveCollected
  <1>2. /\ Len(Parts("trans")) = 3 /\ DOMAIN Parts("trans") = 1 .. 3
        /\ \A k \in 1 .. 3 : Parts("trans")[k] = k - 1
        /\ \A kind : kind # "trans" => Len(Parts(kind)) = 1 /\ DOMAIN Parts(kind) = 1 .. 1
                                       /\ Parts(kind)[1] = 1
    BY DEF Parts
  <1>3. /\ Resumed(r).state = "RECV" /\ Resumed(r).parts = r.parts /\ Resumed(r).kind = r.kind
        /\ Resumed(r).phase = r.phase
        /\ Second(r).state = "RECV" /\ Second(r).parts = r.parts /\ Second(r).kind = r.kind
        /\ Second(r).phase = "reply"
    BY <1>1 DEF Resumed, Second, Requests
  <1>4. r.parts \in Seq((1 .. MaxReq) \X (0 .. 2)) /\ Len(r.parts) \in Nat
    <2>1. r.parts \in Seq((1 .. MaxReq) \X (0 .. 2))
      BY <1>1 DEF Requests
    <2> QED BY <2>1, LenProperties
  <1>5. CASE r.state = "ERROR"
    BY <1>3, <1>5 DEF Whole, Verdict
  <1>6. CASE r.state = "DONE" /\ r.kind = "trans"
    <2>1. /\ Len(r.parts) <= 3 /\ Len(r.parts) > 0
          /\ r.parts = [k \in 1 .. Len(r.parts) |-> <<i, k - 1>>]
          /\ r.phase = "interim" <=> Len(r.parts) = 1
      BY <1>1, <1>6 DEF Collected
    <2>2. Whole(i) <=> Len(r.parts) = 3
      BY <1>2, <1>6 DEF Whole
    <2>3. Whole(i) => Verdict(r, i) = "answered"
      <3> SUFFICES ASSUME Whole(i) PROVE Verdict(r, i) = "answered"
        OBVIOUS
      <3>1. r.parts = [k \in 1 .. 3 |-> <<i, k - 1>>]
        BY <2>1, <2>2
      <3>2. [k \in 1 .. 3 |-> <<i, k - 1>>]
            = [k \in DOMAIN Parts("trans") |-> <<i, Parts("trans")[k]>>]
        BY <1>2
      <3> QED BY <1>6, <3>1, <3>2 DEF Verdict
    <2>4. ~Whole(i) /\ r.phase = "interim" => Collected(i, Second(r))
      BY <1>3, <1>4, <1>6, <2>1 DEF Collected
    <2>5. ~Whole(i) /\ r.phase # "interim" => Collected(i, Resumed(r))
      <3> SUFFICES ASSUME ~Whole(i), r.phase # "interim" PROVE Collected(i, Resumed(r))
        OBVIOUS
      <3>1. Len(r.parts) < 3 /\ Len(r.parts) # 0
        <4>1. PICK n \in Nat : n = Len(r.parts)
          BY <1>4
        <4>2. n <= 3 /\ n > 0 /\ n # 3
          BY <2>1, <2>2, <4>1
        <4>3. n < 3 /\ n # 0
          BY <4>2
        <4> QED BY <4>1, <4>3
      <3> HIDE DEF r
      <3> QED BY <1>3, <1>6, <2>1, <3>1 DEF Collected
    <2> QED BY <1>3, <1>6, <2>1, <2>3, <2>4, <2>5
  <1>7. CASE r.state = "DONE" /\ r.kind # "trans"
    <2>1. r.parts = <<<<i, 1>>>>
      BY <1>1, <1>7 DEF Collected
    <2>2. Whole(i)
      <3>1. Len(r.parts) = 1
        BY <2>1
      <3> QED BY <1>2, <1>7, <3>1 DEF Whole
    <2>3. Verdict(r, i) = "answered"
      <3>1. <<<<i, 1>>>> = [k \in DOMAIN Parts(r.kind) |-> <<i, Parts(r.kind)[k]>>]
        BY <1>2, <1>7 DEF Parts
      <3> QED BY <1>7, <2>1, <3>1 DEF Verdict
    <2> QED BY <1>3, <2>2, <2>3
  <1> QED BY <1>5, <1>6, <1>7


LEMMA ReceiveStep ==
    ASSUME IInv, UNCHANGED env, smbcli_request_receive
    PROVE  IInv'
  <1>1. Typed /\ Sound /\ Addressed /\ Distant /\ Received /\ Chained
    BY DEF IInv
  <1>2. /\ caller \in Live /\ req[caller].state \in {"DONE", "ERROR"}
        /\ Returned(caller) \/ Continued(caller) \/ Waited(caller)
        /\ UNCHANGED <<server, replies>>
    BY <1>1, ReceiveTouched
  <1>3. PICK i \in Live : i = caller
    BY <1>2
  <1>4. /\ ~Whole(i) => req[i].kind = "trans" /\ req[i].state = "DONE"
        /\ ~Whole(i) /\ req[i].phase = "interim" =>
              Len(req[i].parts) = 1 /\ Collected(i, Second(req[i]))
        /\ ~Whole(i) /\ req[i].phase # "interim" => Collected(i, Resumed(req[i]))
        /\ Resumed(req[i]).state = "RECV" /\ Resumed(req[i]).parts = req[i].parts
        /\ Second(req[i]).parts = req[i].parts /\ Second(req[i]).kind = req[i].kind
        /\ Second(req[i]).state = "RECV"
    BY <1>2, <1>3, ReceiveFacts
  <1>5. i \in Id /\ req[i] \in Requests
    BY LiveCollected
  <1>6. CASE Returned(i)
    <2> DEFINE r == Ended(req[i], i)
               s == RemoveFirst(t.pending_recv, i)
    <2>1. r.freed
      BY <1>5, EndedFacts
    <2>2. Touched(i, r, s) /\ UNCHANGED wire
      BY <1>6 DEF Returned
    <2> HIDE DEF r, s
    <2> QED BY <1>2, <2>1, <2>2, TouchedStep
  <1>7. CASE Waited(i)
    <2> DEFINE r == Resumed(req[i])
               s == <<i>> \o t.pending_recv
    <2>1. /\ Collected(i, r) /\ r.state = "RECV" /\ r.parts = req[i].parts
          /\ req[i].state # "ERROR"
      BY <1>4, <1>7 DEF Waited
    <2>2. Touched(i, r, s) /\ UNCHANGED wire
      BY <1>7 DEF Waited
    <2> HIDE DEF r, s
    <2> QED BY <1>2, <2>1, <2>2, TouchedStep
  <1>8. CASE Continued(i)
    <2>0. PICK r : r = Second(req[i])
      OBVIOUS
    <2> DEFINE s == <<i>> \o t.pending_recv
               p == packet(i, req[i].mid, 1)
    <2>1. /\ Collected(i, r) /\ r.state = "RECV" /\ r.parts = req[i].parts /\ Len(r.parts) = 1
          /\ req[i].kind = "trans" /\ req[i].state = "DONE" /\ req[i].phase = "interim"
          /\ r.kind = "trans"
      BY <1>4, <1>8, <2>0 DEF Continued
    <2>2. Touched(i, r, s) /\ wire' = Append(wire, p)
      BY <1>8, <2>0 DEF Continued
    <2>3. p \in Packets /\ p.id = i /\ p.mid = req[i].mid /\ p.part = 1
      <3>1. i \in 1 .. MaxReq
        <4>1. Len(req) \in Nat /\ Len(req) <= env.requests /\ env.requests \in 0 .. MaxReq
              /\ i \in 1 .. Len(req)
          BY <1>1, <1>5, ScenariosAssumption DEF Typed, Scenario, Id
        <4>2. MaxReq \in Nat
          BY BoundsAssumption
        <4> QED BY <4>1, <4>2
      <3>2. req[i].mid \in Mid
        BY <1>5 DEF Requests
      <3> QED BY <3>1, <3>2, PacketIsPacket
    <2> HIDE DEF s, p
    <2>4. Typed' /\ Sound' /\ Kept
      BY <1>1, <2>2, TouchedInv
    <2>5. Live \subseteq Id /\ req'[i] = r
      BY <1>1, <2>2, TouchedFacts
    <2>6. Posted(p)
      BY <1>1, <1>2, <2>2, <2>3 DEF Posted, Addressed
    <2>7. Addressed'
      <3>1. wire' \in Seq(Packets) /\ \A x : x \in Range(wire') <=> x \in Range(wire) \/ x = p
        BY <2>3, <2>6, AppendRange DEF Posted
      <3>2. server' \subseteq Packets /\ replies' \in Seq(Packets)
        BY <1>1, <1>2 DEF Addressed
      <3>3. i \in Live'
        <4>1. ~req'[i].freed
          <5>1. ~req[i].freed
            BY LiveCollected
          <5>2. ~r.freed
            BY <1>5, <2>0, <5>1 DEF Second, Requests
          <5> QED BY <2>5, <5>2
        <4> QED BY <2>4, <4>1 DEF Kept
      <3>4. \A x \in InFlight' : x \in InFlight \/ x = p
        BY <1>2, <3>1 DEF InFlight
      <3>5. ASSUME NEW x \in InFlight'
            PROVE  \/ x \in InFlight
                   \/ x.id \in Live' /\ x.mid = req[x.id].mid /\ req[x.id].kind = "trans"
        BY <2>1, <2>3, <3>3, <3>4
      <3> QED BY <1>1, <2>4, <2>5, <3>1, <3>2, <3>5, AddressedKept
    <2>8. Distant'
      BY <1>1, <2>4, <2>5, DistantKept
    <2>9. Received'
      BY <1>1, <2>1, <2>2, ReceivedTouched
    <2>10. Chained'
      <3>1. ASSUME NEW j \in Id, j # i, j = caller, NEW n
            PROVE  (Chain(j, n) => Chain(j, n)') /\ (Silent(j) => Silent(j)')
        BY <1>3, <3>1
      <3>2. Silent(i)
        BY <1>1, <1>3, <1>5, <2>1, ChainedUse
      <3>3. Chain(i, Len(r.parts))'
        <4>1. PICK n : n = Len(r.parts)
          OBVIOUS
        <4>2. Chain(i, n)'
          BY <2>1, <2>3, <2>6, <3>2, <4>1, ChainPosted
        <4> QED BY <2>1, <4>1, <4>2
      <3> QED BY <1>1, <2>1, <2>2, <3>1, <3>3, ChainedStep
    <2> QED BY <2>4, <2>7, <2>8, <2>9, <2>10 DEF IInv
  <1> QED BY <1>2, <1>3, <1>6, <1>7, <1>8


\* The packet at hand is the part its request waits for.
LEMMA NextPart ==
    ASSUME IInv, smbcli_transport_finish_recv, UNCHANGED wire, NEW i \in Listed,
           Head(replies).id = i
    PROVE  LET p == Head(replies)
           IN  /\ p \in Packets /\ Taken
               /\ Collected(i, Answered(req[i], p))
               /\ Len(Answered(req[i], p).parts) = Len(req[i].parts) + 1
               /\ Len(req[i].parts) \in Nat /\ req[i].state = "RECV"
               /\ req[i].kind = "trans" =>
                     /\ i = caller /\ Chain(i, Len(req[i].parts))
                     /\ req[i].phase = "interim" <=> Len(req[i].parts) = 0
  <1> DEFINE p == Head(replies)
             r == req[i]
             n == Len(r.parts)
  <1>1. Typed /\ Sound /\ Addressed /\ Chained
    BY DEF IInv
  <1>2. Taken
    BY <1>1 DEF Taken, Addressed, smbcli_transport_finish_recv
  <1>3. p \in Packets /\ p \in InFlight
    BY <1>2, TailRange DEF Taken, InFlight
  <1>4. r \in Requests /\ ~r.freed /\ Collected(i, r) /\ i \in Id
    BY LiveCollected DEF Live
  <1>5. r.state = "RECV"
    BY <1>1, <1>4 DEF Sound
  <1>6. n \in Nat
    <2>1. r.parts \in Seq((1 .. MaxReq) \X (0 .. 2))
      BY <1>4 DEF Requests
    <2> QED BY <2>1, LenProperties
  <1>7. r.kind # "trans" => p.part = 1
    BY <1>1, <1>3 DEF Addressed
  <1>8. ASSUME r.kind = "trans"
        PROVE  i = caller /\ Chain(i, n) /\ (r.phase = "interim" <=> n = 0)
    <2>1. i = caller
      BY <1>1, <1>4, <1>8 DEF Sound
    <2>2. Chain(i, n)
      BY <1>1, <1>4, <1>5, <1>8, <2>1, ChainedUse
    <2> QED BY <1>4, <1>5, <1>8, <2>1, <2>2 DEF Collected
  <1>9. r.kind = "trans" => p.part = n
    <2> SUFFICES ASSUME r.kind = "trans" PROVE p.part = n
      OBVIOUS
    <2>1. PICK k \in Nat : k = n
      BY <1>6
    <2>2. Chain(i, k)
      BY <1>8, <2>1
    <2>3. p.part = k
      BY <1>2, <2>2, ChainTaken
    <2> QED BY <2>1, <2>3
  <1>10. <<p.id, p.part>> \in (1 .. MaxReq) \X (0 .. 2)
    BY <1>3 DEF Packets
  <1> HIDE DEF p, r
  <1>11. Collected(i, Answered(r, p)) /\ Len(Answered(r, p).parts) = n + 1
    <2>1. p.id = i
      BY DEF p
    <2> QED BY <1>4, <1>5, <1>7, <1>9, <1>10, <2>1, CollectAnswer
  <1> QED BY <1>2, <1>3, <1>5, <1>6, <1>8, <1>11 DEF p, r

LEMMA FinishStep ==
    ASSUME IInv, UNCHANGED env, smbcli_transport_finish_recv
    PROVE  IInv'
  <1>1. Typed /\ Sound /\ Addressed /\ Distant /\ Received /\ Chained
    BY DEF IInv
  <1>2. replies \in Seq(Packets) /\ replies # <<>> /\ replies' = Tail(replies) /\ UNCHANGED server
    BY <1>1 DEF Addressed, smbcli_transport_finish_recv
  <1>3. PICK p : p = Head(replies)
    OBVIOUS
  <1>4. PICK i : i = Matching(p.mid)
    OBVIOUS
  <1>5. /\ i = 0 => UNCHANGED <<req, t, caller, wire>>
        /\ i # 0 => i \in Live /\ (Fired(i, Failed(req[i])) \/ Fired(i, Answered(req[i], p)))
    BY <1>1, <1>3, <1>4, FinishFired
  <1>6. (i # 0 => p.id = i /\ i \in Listed) /\ (i = 0 => p.id # caller)
    BY <1>1, <1>3, <1>4, OwnAnswer
  <1>7. UNCHANGED wire
    BY <1>5 DEF Fired
  <1>8. /\ \A x \in InFlight' : x \in InFlight
        /\ wire' \in Seq(Packets) /\ server' \subseteq Packets /\ replies' \in Seq(Packets)
    <2>1. replies' \in Seq(Packets) /\ \A x : x \in Range(replies') => x \in Range(replies)
      BY <1>2, TailRange
    <2> QED BY <1>1, <1>2, <1>7, <2>1 DEF InFlight, Addressed
  <1>9. Taken
    BY <1>2, <1>7 DEF Taken
  <1>10. CASE i = 0
    <2>1. Typed' /\ Sound' /\ Kept
      BY <1>1, <1>5, <1>10, IdleInv
    <2>2. Live \subseteq Id
      BY <1>1 DEF Live, Listed, Range, Typed
    <2>3. Addressed' /\ Distant'
      BY <1>1, <1>8, <2>1, <2>2, AddressedKept, DistantKept
    <2>4. Received'
      BY <1>1, <1>5, <1>10 DEF Received, Id, Collected
    <2>5. Chained'
      <3>1. Id' = Id /\ req' = req /\ caller' = caller
        BY <1>5, <1>10 DEF Id
      <3> SUFFICES ASSUME NEW j \in Id, j = caller, req[j].kind = "trans", req[j].state # "ERROR"
                   PROVE  /\ Chain(j, Len(req[j].parts))'
                          /\ req[j].state = "DONE" /\ req[j].phase = "interim" => Silent(j)'
        BY <3>1 DEF Chained, Silent
      <3>2. PICK n : n = Len(req[j].parts)
        OBVIOUS
      <3>3. /\ Chain(j, n)
            /\ req[j].state = "DONE" /\ req[j].phase = "interim" => Silent(j)
        BY <1>1, <3>2, ChainedUse
      <3>4. (Chain(j, n) => Chain(j, n)') /\ (Silent(j) => Silent(j)')
        BY <1>3, <1>6, <1>9, <1>10, ChainTail
      <3> QED BY <3>1, <3>2, <3>3, <3>4
    <2> QED BY <2>1, <2>3, <2>4, <2>5 DEF IInv
  <1>11. CASE i # 0
    <2>1. i \in Listed /\ p.id = i /\ i \in Live
      BY <1>5, <1>6, <1>11
    <2>2. /\ Collected(i, Answered(req[i], p))
          /\ Len(Answered(req[i], p).parts) = Len(req[i].parts) + 1
          /\ Len(req[i].parts) \in Nat /\ req[i].state = "RECV"
          /\ req[i].kind = "trans" =>
                /\ i = caller /\ Chain(i, Len(req[i].parts))
                /\ req[i].phase = "interim" <=> Len(req[i].parts) = 0
      BY <1>3, <1>7, <2>1, NextPart
    <2>3. PICK r \in {Failed(req[i]), Answered(req[i], p)} : Fired(i, r)
      BY <1>5, <1>11
    <2>4. PICK z : z = IF r.kind = "async" THEN Ended(r, i) ELSE r
      OBVIOUS
    <2> DEFINE s == RemoveFirst(t.pending_recv, i)
    <2>5. Touched(i, z, s)
      BY <2>3, <2>4 DEF Fired
    <2>6. req[i] \in Requests /\ Collected(i, req[i]) /\ i \in Id
      BY <2>1, LiveCollected
    <2>7. r \in Requests /\ r.kind = req[i].kind /\ r.phase = req[i].phase
      <3>1. Failed(req[i]) \in Requests /\ Failed(req[i]).kind = req[i].kind
            /\ Failed(req[i]).phase = req[i].phase
        BY <2>6 DEF Failed, Requests
      <3>2. Answered(req[i], p) \in Requests /\ Answered(req[i], p).kind = req[i].kind
        <4>1. <<p.id, p.part>> \in (1 .. MaxReq) \X (0 .. 2)
          <5>1. p \in Packets
            BY <1>2, <1>3, TailRange
          <5> QED BY <5>1 DEF Packets
        <4> QED BY <1>1, <2>1, <4>1, FinalFacts DEF Final
      <3>3. Answered(req[i], p).phase = req[i].phase
        BY <2>6 DEF Answered, Requests
      <3> QED BY <3>1, <3>2, <3>3
    <2> HIDE DEF s
    <2>8. z.freed \/ (z = r /\ Collected(i, z))
      <3>1. Collected(i, Failed(req[i]))
        BY <2>6, CollectFailure
      <3> QED BY <2>2, <2>3, <2>4, <2>7, <3>1, EndedFacts
    <2>9. Typed' /\ Sound' /\ Kept /\ Live \subseteq Id
      BY <1>1, <2>5, TouchedInv, TouchedFacts
    <2>10. Addressed' /\ Distant'
      BY <1>1, <1>8, <2>9, AddressedKept, DistantKept
    <2>11. Received'
      BY <1>1, <2>5, <2>8, ReceivedTouched
    <2>12. Chained'
      <3>1. ASSUME NEW j \in Id, j # i, j = caller, NEW n
            PROVE  (Chain(j, n) => Chain(j, n)') /\ (Silent(j) => Silent(j)')
        BY <1>3, <1>9, <2>1, <3>1, ChainTail
      <3>2. ASSUME i = caller, ~z.freed, z.kind = "trans", z.state # "ERROR"
            PROVE  /\ Chain(i, Len(z.parts))'
                   /\ z.state = "DONE" /\ z.phase = "interim" => Silent(i)'
        <4>1. z = r /\ req[i].kind = "trans" /\ z.phase = req[i].phase
          BY <2>7, <2>8, <3>2
        <4>2. z = Answered(req[i], p)
          <5>1. Failed(req[i]).state = "ERROR"
            BY <2>6 DEF Failed, Requests
          <5> QED BY <2>3, <3>2, <4>1, <5>1
        <4>3. PICK n \in Nat : n = Len(req[i].parts)
          BY <2>2
        <4>4. Chain(i, n) /\ (req[i].phase = "interim" <=> n = 0) /\ Len(z.parts) = n + 1
          BY <2>2, <4>1, <4>2, <4>3
        <4>5. Chain(i, n + 1)' /\ (n = 0 => Silent(i)')
          BY <1>3, <1>9, <2>1, <4>4, ChainTaken
        <4> QED BY <4>1, <4>4, <4>5
      <3> QED BY <1>1, <2>5, <3>1, <3>2, ChainedStep
    <2> QED BY <2>9, <2>10, <2>11, <2>12 DEF IInv
  <1> QED BY <1>10, <1>11


LEMMA SendStep ==
    ASSUME IInv, UNCHANGED env, NEW kind \in env.callers, smbcli_request_send(kind)
    PROVE  IInv'
  <1>1. Typed /\ Sound /\ Addressed /\ Distant /\ Received /\ Chained
    BY DEF IInv
  <1>2. PICK i : i = Len(req) + 1
    OBVIOUS
  <1>3. PICK mid : mid = smbcli_transport_next_mid
    OBVIOUS
  <1>4. Typed' /\ Sound' /\ Grown(kind, i, mid) /\ Submitted(kind, i, mid)
    BY <1>1, <1>2, <1>3, SendInv, SendEffect
  <1>5. Addressed' /\ Distant'
    BY <1>1, AddressedSend, DistantSend
  <1>6. /\ i \notin Id /\ \A j : j \in Id' <=> j \in Id \/ j = i
        /\ \A j \in Id : req'[j] = req[j]
        /\ mid \in Mid /\ t.dead \in BOOLEAN
        /\ req'[i] = Sent(kind, mid, t.dead)
    BY <1>1, <1>4 DEF Grown, Typed
  <1>7. PICK r : r = Sent(kind, mid, t.dead)
    OBVIOUS
  <1>8. /\ r \in Requests /\ r.kind = kind /\ r.parts = <<>>
        /\ r.phase = "interim" <=> kind = "trans"
        /\ t.dead => r.state = "ERROR"
        /\ ~t.dead => r.state = "RECV"
    BY <1>6, <1>7, SentFields
  <1>9. Collected(i, r)
    <2>1. Len(<<>>) = 0 /\ <<>> = [k \in 1 .. 0 |-> <<i, k - 1>>]
      OBVIOUS
    <2> QED BY <1>8, <2>1 DEF Collected
  <1>10. Received'
    <2> SUFFICES ASSUME NEW j \in Id', ~req'[j].freed
                 PROVE  Collected(j, req'[j])
      BY DEF Received, Collected
    <2> QED BY <1>1, <1>6, <1>7, <1>9 DEF Received
  <1>11. Silent(i)
    <2>1. \A p \in InFlight : p.id # i
      BY <1>1, <1>6 DEF Addressed
    <2> QED BY <2>1 DEF Silent, OnWire, AtServer, Coming, InFlight, Range
  <1> DEFINE p == packet(i, mid, IF kind = "trans" THEN 0 ELSE 1)
  <1>12. p.id = i /\ (kind = "trans" => p.part = 0)
         /\ (t.dead => UNCHANGED <<wire, server, replies>>) /\ (~t.dead => Posted(p))
    <2>1. i \in 1 .. MaxReq
      <3>1. Len(req) \in Nat /\ Len(req) < env.requests /\ env.requests \in 0 .. MaxReq
        BY <1>1, ScenariosAssumption DEF Typed, Scenario, smbcli_request_send
      <3>2. MaxReq \in Nat
        BY BoundsAssumption
      <3> QED BY <1>2, <3>1, <3>2
    <2>2. p \in Packets /\ p.id = i /\ p.part = IF kind = "trans" THEN 0 ELSE 1
      BY <1>6, <2>1, PacketIsPacket
    <2>3. wire \in Seq(Packets) /\ UNCHANGED <<server, replies>>
      BY <1>1 DEF Addressed, smbcli_request_send
    <2>4. wire' = IF t.dead THEN wire ELSE Append(wire, p)
      BY <1>4 DEF Submitted
    <2> HIDE DEF p
    <2> QED BY <2>2, <2>3, <2>4 DEF Posted
  <1> HIDE DEF p
  <1>13. ASSUME NEW j \in Id, NEW n
         PROVE  (Chain(j, n) => Chain(j, n)') /\ (Silent(j) => Silent(j)')
    <2>1. j # i
      BY <1>6
    <2>2. CASE t.dead
      BY <1>12, <2>2, ChainSame
    <2>3. CASE ~t.dead
      BY <1>12, <2>1, <2>3, ChainPosted
    <2> QED BY <2>2, <2>3
  <1>14. Chained'
    <2> SUFFICES ASSUME NEW j \in Id', j = caller', req'[j].kind = "trans",
                        req'[j].state # "ERROR"
                 PROVE  /\ Chain(j, Len(req[j].parts))'
                        /\ req'[j].state = "DONE" /\ req'[j].phase = "interim" => Silent(j)'
      BY DEF Chained, Silent
    <2>1. CASE j \in Id
      <3>1. req'[j] = req[j] /\ j = caller
        BY <1>4, <1>6, <2>1 DEF Submitted
      <3>2. PICK n : n = Len(req[j].parts)
        OBVIOUS
      <3>3. /\ Chain(j, n)
            /\ req[j].state = "DONE" /\ req[j].phase = "interim" => Silent(j)
        BY <1>1, <2>1, <3>1, <3>2, ChainedUse
      <3>4. (Chain(j, n) => Chain(j, n)') /\ (Silent(j) => Silent(j)')
        BY <1>13, <2>1
      <3> QED BY <3>1, <3>2, <3>3, <3>4
    <2>2. CASE j = i
      <3>1. req'[j] = r /\ kind = "trans" /\ ~t.dead /\ r.state = "RECV"
        BY <1>6, <1>7, <1>8, <2>2
      <3>2. Len(req'[j].parts) = 0
        BY <1>8, <3>1
      <3>3. PICK n : n = 0
        OBVIOUS
      <3>4. Chain(i, n)'
        BY <1>11, <1>12, <3>1, <3>3, ChainPosted
      <3> QED BY <2>2, <3>1, <3>2, <3>3, <3>4
    <2> QED BY <1>6, <2>1, <2>2
  <1> QED BY <1>4, <1>5, <1>10, <1>14 DEF IInv

\* A step of the server, or the end of the connection.
LEMMA IdleStep ==
    ASSUME IInv, UNCHANGED <<env, req, caller>>,
           UNCHANGED t \/ t' = [t EXCEPT !.dead = TRUE],
           wire' \in Seq(Packets), server' \subseteq Packets, replies' \in Seq(Packets),
           \A p \in InFlight' :
              \/ p \in InFlight
              \/ \E q \in InFlight : q.id = p.id /\ q.mid = p.mid /\ req[q.id].kind = "trans",
           ASSUME NEW j \in Id, NEW n, req[j].kind = "trans"
           PROVE  (Chain(j, n) => Chain(j, n)') /\ (Silent(j) => Silent(j)')
    PROVE  IInv'
  <1>1. Typed /\ Sound /\ Addressed /\ Distant /\ Received /\ Chained
    BY DEF IInv
  <1>2. Typed' /\ Sound' /\ Kept
    BY <1>1, IdleInv
  <1>3. Live \subseteq Id
    BY <1>1 DEF Live, Listed, Range, Typed
  <1>4. Addressed'
    BY <1>1, <1>2, <1>3, AddressedKept
  <1>5. Distant'
    BY <1>1, <1>2, <1>3, DistantKept
  <1>6. Received'
    BY <1>1 DEF Received, Id, Collected
  <1>7. Chained'
    <2>1. Id' = Id
      BY DEF Id
    <2> SUFFICES ASSUME NEW j \in Id, j = caller, req[j].kind = "trans", req[j].state # "ERROR"
                 PROVE  /\ Chain(j, Len(req[j].parts))'
                        /\ req[j].state = "DONE" /\ req[j].phase = "interim" => Silent(j)'
      BY <2>1 DEF Chained, Silent
    <2>2. PICK n : n = Len(req[j].parts)
      OBVIOUS
    <2>3. /\ Chain(j, n)
          /\ req[j].state = "DONE" /\ req[j].phase = "interim" => Silent(j)
      BY <1>1, <2>2, ChainedUse
    <2>4. (Chain(j, n) => Chain(j, n)') /\ (Silent(j) => Silent(j)')
      OBVIOUS
    <2>5. Chain(j, Len(req[j].parts))' <=> Chain(j, n)'
      BY <2>2
    <2> QED BY <2>3, <2>4, <2>5
  <1> QED BY <1>2, <1>4, <1>5, <1>6, <1>7 DEF IInv

LEMMA SockDeadStep ==
    ASSUME IInv, UNCHANGED env, smbcli_sock_dead
    PROVE  IInv'
  <1>1. wire' = <<>> /\ server' = {} /\ replies' = <<>>
    BY DEF smbcli_sock_dead
  <1>2. InFlight' = {}
    BY <1>1 DEF InFlight, Range
  <1>3. \A j : Silent(j)'
    BY <1>1 DEF Silent, OnWire, AtServer, Coming
  <1>4. \A j, n : Chain(j, n)'
    BY <1>1 DEF Chain, OnWire, AtServer, Coming
  <1>5. /\ wire' \in Seq(Packets) /\ server' \subseteq Packets /\ replies' \in Seq(Packets)
    BY <1>1
  <1>6. UNCHANGED <<env, req, caller>> /\ t' = [t EXCEPT !.dead = TRUE]
    BY DEF smbcli_sock_dead
  <1> QED BY <1>2, <1>3, <1>4, <1>5, <1>6, IdleStep

LEMMA AcceptStep ==
    ASSUME IInv, UNCHANGED env, ServerAccept
    PROVE  IInv'
  <1>1. wire \in Seq(Packets) /\ server \subseteq Packets /\ replies \in Seq(Packets)
    BY DEF IInv, Addressed
  <1>2. /\ wire # <<>> /\ server' = server \cup {Head(wire)} /\ wire' = Tail(wire)
        /\ UNCHANGED <<env, req, t, caller, replies>>
    BY DEF ServerAccept
  <1>3. /\ wire' \in Seq(Packets) /\ Head(wire) \in Range(wire) /\ Head(wire) \in Packets
        /\ \A x : x \in Range(wire') => x \in Range(wire)
    BY <1>1, <1>2, TailRange
  <1>4. \A p \in InFlight' : p \in InFlight
    BY <1>2, <1>3 DEF InFlight
  <1>5. ASSUME NEW j \in Id, NEW n, req[j].kind = "trans"
        PROVE  (Chain(j, n) => Chain(j, n)') /\ (Silent(j) => Silent(j)')
    BY <1>1, ChainAccept
  <1>6. server' \subseteq Packets /\ replies' \in Seq(Packets)
    BY <1>1, <1>2, <1>3
  <1> QED BY <1>2, <1>3, <1>4, <1>5, <1>6, IdleStep

LEMMA ReplyStep ==
    ASSUME IInv, UNCHANGED env, ServerReply
    PROVE  IInv'
  <1>1. wire \in Seq(Packets) /\ server \subseteq Packets /\ replies \in Seq(Packets)
    BY DEF IInv, Addressed
  <1>2. PICK p : Replied(p)
    BY <1>1 DEF ServerReply, Replied, Next2
  <1>3. UNCHANGED <<env, req, t, caller, wire>>
    BY DEF ServerReply
  <1>4. p \in Packets /\ p \in server
    BY <1>1, <1>2 DEF Replied
  <1>5. /\ replies' \in Seq(Packets)
        /\ \A x : x \in Range(replies') <=> x \in Range(replies) \/ x = p
    <2>1. replies' = Append(replies, p)
      BY <1>2 DEF Replied
    <2> QED BY <1>1, <1>2, <2>1, AppendRange DEF Replied
  <1>6. Next2(p) \in Packets /\ Next2(p).id = p.id /\ Next2(p).mid = p.mid
    BY <1>4 DEF Next2, Packets
  <1>7. /\ server' \subseteq server \cup {Next2(p)}
        /\ Next2(p) \in server' => Next2(p) \in server \/ req[p.id].kind = "trans"
    BY <1>2 DEF Replied
  <1>8. ASSUME NEW x \in InFlight'
        PROVE  \/ x \in InFlight
               \/ \E q \in InFlight : q.id = x.id /\ q.mid = x.mid /\ req[q.id].kind = "trans"
    <2>1. p \in InFlight
      BY <1>2 DEF InFlight, Replied
    <2>2. CASE x \in InFlight
      BY <2>2
    <2>3. CASE x \notin InFlight
      <3>1. x = Next2(p) /\ x \in server' /\ x \notin server
        BY <1>3, <1>5, <1>7, <2>1, <2>3 DEF InFlight
      <3> QED BY <1>6, <1>7, <2>1, <3>1
    <2> QED BY <2>2, <2>3
  <1>9. ASSUME NEW j \in Id, NEW n, req[j].kind = "trans"
        PROVE  (Chain(j, n) => Chain(j, n)') /\ (Silent(j) => Silent(j)')
    BY <1>2, <1>9, ChainReplied
  <1>10. server' \subseteq Packets /\ wire' \in Seq(Packets)
    BY <1>1, <1>3, <1>6, <1>7
  <1> QED BY <1>3, <1>5, <1>8, <1>9, <1>10, IdleStep


-----------------------------------------------------------------------------
LEMMA InitInv == Init => IInv
  <1> SUFFICES ASSUME Init PROVE IInv
    OBVIOUS
  <1>1. /\ env \in Scenarios /\ req = <<>> /\ caller = 0
        /\ t = [next_mid |-> 0, pending_recv |-> <<>>, dead |-> FALSE]
        /\ wire = <<>> /\ server = {} /\ replies = <<>>
    BY DEF Init
  <1>2. Id = {} /\ Len(req) = 0
    BY <1>1 DEF Id
  <1>3. t.pending_recv = <<>> /\ Range(<<>>) = {}
    BY <1>1 DEF Range
  <1>4. Listed = {} /\ Live = {} /\ InFlight = {}
    BY <1>1, <1>2, <1>3 DEF Listed, Live, InFlight, Range
  <1>5. Typed
    <2>1. 0 \in 0 .. MidSpace - 1
      BY MidFinite
    <2>2. env.requests \in Nat
      BY <1>1, ScenariosAssumption, BoundsAssumption DEF Scenario
    <2> QED BY <1>1, <1>2, <2>1, <2>2 DEF Typed
  <1>6. Sound
    BY <1>2, <1>3, <1>4 DEF Sound, IsInjective
  <1>7. Addressed
    BY <1>1, <1>4 DEF Addressed
  <1>8. Distant /\ Received /\ Chained
    BY <1>2 DEF Distant, Received, Chained
  <1> QED BY <1>5, <1>6, <1>7, <1>8 DEF IInv

LEMMA NextInv == IInv /\ [Next]_vars => IInv'
  <1> SUFFICES ASSUME IInv, [Next]_vars PROVE IInv'
    OBVIOUS
  <1>1. Typed /\ Sound
    BY DEF IInv
  <1>2. CASE UNCHANGED vars
    <2>1. UNCHANGED <<env, req, caller, t, wire, server, replies>>
      BY <1>2 DEF vars
    <2>2. /\ wire' \in Seq(Packets) /\ server' \subseteq Packets /\ replies' \in Seq(Packets)
          /\ InFlight' = InFlight
      BY <2>1 DEF IInv, Addressed, InFlight
    <2>3. ASSUME NEW j \in Id, NEW n, req[j].kind = "trans"
          PROVE  (Chain(j, n) => Chain(j, n)') /\ (Silent(j) => Silent(j)')
      BY <2>1, ChainSame
    <2> QED BY <2>1, <2>2, <2>3, IdleStep
  <1>3. ASSUME NEW kind \in env.callers, smbcli_request_send(kind), UNCHANGED env PROVE IInv'
    BY <1>3, SendStep
  <1>4. ASSUME GiveUp, UNCHANGED env PROVE IInv'
    BY <1>4, GiveUpStep
  <1>5. ASSUME smbcli_request_receive, UNCHANGED env PROVE IInv'
    BY <1>5, ReceiveStep
  <1>6. ASSUME smbcli_transport_finish_recv, UNCHANGED env PROVE IInv'
    BY <1>6, FinishStep
  <1>7. ASSUME NEW i \in Id, smbcli_timeout_handler(i), UNCHANGED env PROVE IInv'
    <2>1. i \in Live /\ Fired(i, TimedOut(req[i]))
      BY <1>1, <1>7, TimeoutFired
    <2>2. UNCHANGED <<server, replies>>
      BY <1>7 DEF smbcli_timeout_handler
    <2> QED BY <2>1, <2>2, FailedStep
  <1>8. ASSUME smbcli_sock_dead, UNCHANGED env PROVE IInv'
    BY <1>8, SockDeadStep
  <1>9. ASSUME smbcli_transport_dead, UNCHANGED env PROVE IInv'
    <2>1. PICK i \in Live : Fired(i, Failed(req[i]))
      BY <1>1, <1>9, DeadFired
    <2>2. UNCHANGED <<server, replies>>
      BY <1>9 DEF smbcli_transport_dead
    <2> QED BY <2>1, <2>2, FailedStep
  <1>10. ASSUME ServerAccept, UNCHANGED env PROVE IInv'
    BY <1>10, AcceptStep
  <1>11. ASSUME ServerReply, UNCHANGED env PROVE IInv'
    BY <1>11, ReplyStep
  <1> QED BY <1>2, <1>3, <1>4, <1>5, <1>6, <1>7, <1>8, <1>9, <1>10, <1>11 DEF Next

\* The invariant of the transport: lists, mids, packets and what requests have
\* received belong together, in every reachable state.
THEOREM Invariance == Spec => []IInv
  BY InitInv, NextInv, PTL DEF Spec

\* Every request, list and packet has its type, mids are never 0, and nothing
\* refers to a request that does not exist.
THEOREM TypeCorrect == Spec => []TypeOK
  <1>1. IInv => TypeOK
    BY DEF IInv, Typed, Addressed, TypeOK
  <1> QED BY <1>1, Invariance, PTL

\* pending_recv, its mids and the states of the requests stay consistent for any
\* number of mids and requests: a listed request waits and has its mid for
\* itself, a waiting one is listed, and a synchronous caller's is not freed.
THEOREM PendingConsistency == Spec => []PendingConsistent
  <1>1. IInv => PendingConsistent
    <2> SUFFICES ASSUME Typed, Sound PROVE PendingConsistent
      BY DEF IInv
    <2>1. \A k \in DOMAIN t.pending_recv : t.pending_recv[k] \in Listed /\ t.pending_recv[k] \in Id
      BY DEF Listed, Range, Typed
    <2>2. caller # 0 => ~req[caller].freed
      BY DEF Typed, Sound
    <2>3. \A k \in DOMAIN t.pending_recv :
             ~req[t.pending_recv[k]].freed /\ req[t.pending_recv[k]].state = "RECV"
      BY <2>1 DEF Sound
    <2>4. \A j, k \in DOMAIN t.pending_recv :
             j # k => req[t.pending_recv[j]].mid # req[t.pending_recv[k]].mid
      <3>1. \A j, k \in DOMAIN t.pending_recv : j # k => t.pending_recv[j] # t.pending_recv[k]
        BY DEF Sound, IsInjective
      <3> QED BY <2>1, <3>1 DEF Sound, Live
    <2>5. \A i \in Id : req[i].state = "RECV" /\ ~req[i].freed => i \in Range(t.pending_recv)
      BY DEF Sound, Listed
    <2> QED BY <2>2, <2>3, <2>4, <2>5 DEF PendingConsistent
  <1> QED BY <1>1, Invariance, PTL


-----------------------------------------------------------------------------
(***************************************************************************)
(* The transport implements RequestReply: every step of it is one of a     *)
(* single call, or none.                                                   *)
(***************************************************************************)
Outs == [i \in 1 .. MaxReq |-> IF i \in Id THEN req[i].outcome ELSE "unused"]

LEMMA IdRange ==
    ASSUME Typed
    PROVE  Id \subseteq 1 .. MaxReq
  <1>1. Len(req) \in Nat /\ Len(req) <= env.requests /\ env.requests \in 0 .. MaxReq
        /\ Id = 1 .. Len(req)
    BY ScenariosAssumption DEF Typed, Scenario, Id
  <1>2. MaxReq \in Nat
    BY BoundsAssumption
  <1> QED BY <1>1, <1>2

LEMMA OutsFacts ==
    ASSUME NEW c \in 1 .. MaxReq
    PROVE  /\ c \in Id => Outs[c] = req[c].outcome
           /\ c \notin Id => Outs[c] = "unused"
           /\ c \in Id' => Outs'[c] = req'[c].outcome
           /\ c \notin Id' => Outs'[c] = "unused"
  BY DEF Outs

LEMMA OutsIsFunction ==
    ASSUME NEW i \in 1 .. MaxReq, NEW what, Outs'[i] = what,
           \A j \in 1 .. MaxReq : j # i => Outs'[j] = Outs[j]
    PROVE  Outs' = [Outs EXCEPT ![i] = what]
  <1>1. Outs = [j \in 1 .. MaxReq |-> Outs[j]] /\ Outs' = [j \in 1 .. MaxReq |-> Outs'[j]]
    BY DEF Outs
  <1> HIDE DEF Outs
  <1>2. [Outs EXCEPT ![i] = what] = [j \in 1 .. MaxReq |-> IF j = i THEN what ELSE Outs[j]]
    BY <1>1
  <1>3. \A j \in 1 .. MaxReq : Outs'[j] = IF j = i THEN what ELSE Outs[j]
    OBVIOUS
  <1> QED BY <1>1, <1>2, <1>3

\* A step that touches request i: it ends the call, or leaves it waiting.
LEMMA TouchedCall ==
    ASSUME IInv, NEW i, NEW r, NEW s, Touched(i, r, s),
           r.outcome \in {"waiting", "answered", "failed", "given up"}
    PROVE  [Calls!Next]_Outs
  <1>1. Typed /\ Sound
    BY DEF IInv
  <1>2. /\ i \in Id /\ i \in Live /\ Id' = Id /\ req'[i] = r
        /\ \A j \in Id : j # i => req'[j] = req[j]
    BY <1>1, TouchedFacts
  <1>3. i \in 1 .. MaxReq
    BY <1>1, <1>2, IdRange
  <1>4. Outs[i] = "waiting" /\ Outs'[i] = r.outcome
    BY <1>2, <1>3, LiveCollected, OutsFacts
  <1>5. ASSUME NEW j \in 1 .. MaxReq, j # i PROVE Outs'[j] = Outs[j]
    <2>1. CASE j \in Id
      BY <1>2, <1>5, <2>1, OutsFacts
    <2>2. CASE j \notin Id
      BY <1>2, <2>2, OutsFacts
    <2> QED BY <2>1, <2>2
  <1>6. PICK what : what = r.outcome
    OBVIOUS
  <1>7. Outs' = [Outs EXCEPT ![i] = what]
    BY <1>3, <1>4, <1>5, <1>6, OutsIsFunction
  <1>8. CASE what = "waiting"
    <2>1. Outs = [j \in 1 .. MaxReq |-> Outs[j]]
      BY DEF Outs
    <2>2. [Outs EXCEPT ![i] = what] = Outs
      BY <1>3, <1>4, <1>8, <2>1
    <2> QED BY <1>7, <2>2
  <1>9. CASE what = "answered"
    <2>1. Calls!Answer(i)
      BY <1>4, <1>7, <1>9 DEF Calls!Answer, Calls!Step, Outs
    <2> QED BY <1>3, <2>1 DEF Calls!Next, Calls!End
  <1>10. CASE what = "failed"
    <2>1. Calls!Fail(i)
      BY <1>4, <1>7, <1>10 DEF Calls!Fail, Calls!Step, Outs
    <2> QED BY <1>3, <2>1 DEF Calls!Next, Calls!End
  <1>11. CASE what = "given up"
    <2>1. Calls!GiveUp(i)
      BY <1>4, <1>7, <1>11 DEF Calls!GiveUp, Calls!Step, Outs
    <2> QED BY <1>3, <2>1 DEF Calls!Next, Calls!End
  <1> QED BY <1>6, <1>8, <1>9, <1>10, <1>11

LEMMA SendCall ==
    ASSUME IInv, UNCHANGED env, NEW kind \in env.callers, smbcli_request_send(kind)
    PROVE  [Calls!Next]_Outs
  <1>1. Typed /\ Sound
    BY DEF IInv
  <1>2. PICK i : i = Len(req) + 1
    OBVIOUS
  <1>3. PICK mid : mid = smbcli_transport_next_mid
    OBVIOUS
  <1>4. Typed' /\ Grown(kind, i, mid)
    BY <1>1, <1>2, <1>3, SendInv
  <1>5. /\ i \notin Id /\ i \in Id' /\ \A j : j \in Id' <=> j \in Id \/ j = i
        /\ \A j \in Id : req'[j] = req[j]
        /\ req'[i] = Sent(kind, mid, t.dead)
    BY <1>4 DEF Grown
  <1>6. PICK what : what = req'[i].outcome
    OBVIOUS
  <1>7. what \in {"waiting", "refused"}
    <2>1. mid \in Mid /\ t.dead \in BOOLEAN
      BY <1>1, <1>4 DEF Grown, Typed
    <2> QED BY <1>5, <1>6, <2>1, SentFields
  <1>8. i \in 1 .. MaxReq
    <2>1. Len(req) \in Nat /\ Len(req) < env.requests /\ env.requests \in 0 .. MaxReq
      BY <1>1, ScenariosAssumption DEF Typed, Scenario, smbcli_request_send
    <2>2. MaxReq \in Nat
      BY BoundsAssumption
    <2> QED BY <1>2, <2>1, <2>2
  <1>9. Outs[i] = "unused" /\ Outs'[i] = what
    BY <1>5, <1>6, <1>8, OutsFacts
  <1>10. ASSUME NEW j \in 1 .. MaxReq, j # i PROVE Outs'[j] = Outs[j]
    <2>1. CASE j \in Id
      BY <1>5, <1>10, <2>1, OutsFacts
    <2>2. CASE j \notin Id
      BY <1>5, <1>10, <2>2, OutsFacts
    <2> QED BY <2>1, <2>2
  <1>11. Outs' = [Outs EXCEPT ![i] = what]
    BY <1>8, <1>9, <1>10, OutsIsFunction
  <1>12. CASE what = "waiting"
    <2>1. Calls!Begin(i)
      BY <1>9, <1>11, <1>12 DEF Calls!Begin, Calls!Step, Outs
    <2> QED BY <1>8, <2>1 DEF Calls!Next
  <1>13. CASE what = "refused"
    <2>1. Calls!Refuse(i)
      BY <1>9, <1>11, <1>13 DEF Calls!Refuse, Calls!Step, Outs
    <2> QED BY <1>8, <2>1 DEF Calls!Next
  <1> QED BY <1>7, <1>12, <1>13

\* A request that has become r, which is final.
LEMMA FiredCall ==
    ASSUME IInv, NEW i \in Live, NEW r \in Requests, Fired(i, r), r.outcome = "waiting",
           r.state = "ERROR" \/ (r.state = "DONE" /\ Collected(i, r))
    PROVE  [Calls!Next]_Outs
  <1> DEFINE z == IF r.kind = "async" THEN Ended(r, i) ELSE r
             s == RemoveFirst(t.pending_recv, i)
  <1>1. Touched(i, z, s)
    BY DEF Fired
  <1>2. r.kind = "async" => Verdict(r, i) \in {"failed", "answered"}
    <2>1. CASE r.state = "ERROR"
      BY <2>1 DEF Verdict
    <2>2. CASE r.state = "DONE" /\ Collected(i, r) /\ r.kind = "async"
      <3>1. r.parts = <<<<i, 1>>>>
        BY <2>2 DEF Collected
      <3>2. <<<<i, 1>>>> = [k \in DOMAIN Parts(r.kind) |-> <<i, Parts(r.kind)[k]>>]
        BY <2>2 DEF Parts
      <3> QED BY <3>1, <3>2 DEF Verdict
    <2> QED BY <2>1, <2>2
  <1>3. z.outcome \in {"waiting", "failed", "answered"}
    BY <1>2, EndedFacts
  <1> HIDE DEF z, s
  <1> QED BY <1>1, <1>3, TouchedCall

LEMMA StepCall == IInv /\ [Next]_vars => [Calls!Next]_Outs
  <1> SUFFICES ASSUME IInv, [Next]_vars PROVE [Calls!Next]_Outs
    OBVIOUS
  <1>1. Typed /\ Sound /\ Addressed
    BY DEF IInv
  <1>2. ASSUME UNCHANGED req PROVE [Calls!Next]_Outs
    BY <1>2 DEF Outs, Id
  <1>3. ASSUME NEW i \in Live
        PROVE  /\ Failed(req[i]) \in Requests /\ Failed(req[i]).state = "ERROR"
               /\ Failed(req[i]).outcome = "waiting"
               /\ TimedOut(req[i]) \in Requests /\ TimedOut(req[i]).state = "ERROR"
               /\ TimedOut(req[i]).outcome = "waiting"
    BY LiveCollected DEF Failed, TimedOut, Requests
  <1>4. ASSUME GiveUp, UNCHANGED env PROVE [Calls!Next]_Outs
    <2>1. PICK i \in Live : Touched(i, Told(Freed(req[i]), "given up"),
                                    RemoveFirst(t.pending_recv, i))
      BY <1>1, <1>4, GiveUpTouched
    <2> DEFINE r == Told(Freed(req[i]), "given up")
               s == RemoveFirst(t.pending_recv, i)
    <2>2. r.outcome = "given up"
      <3>1. req[i] \in Requests /\ req[i].outcome = "waiting"
        BY LiveCollected
      <3>2. Freed(req[i]) \in Requests /\ Freed(req[i]).outcome = "waiting"
        BY <3>1 DEF Freed, Requests
      <3> HIDE DEF Freed
      <3> QED BY <3>2 DEF Told, Requests
    <2>3. Touched(i, r, s)
      BY <2>1
    <2> HIDE DEF r, s
    <2> QED BY <2>2, <2>3, TouchedCall
  <1>5. ASSUME smbcli_request_receive, UNCHANGED env PROVE [Calls!Next]_Outs
    <2>1. /\ caller \in Live /\ req[caller].state \in {"DONE", "ERROR"}
          /\ Returned(caller) \/ Continued(caller) \/ Waited(caller)
      BY <1>1, <1>5, ReceiveTouched
    <2>2. PICK i \in Live : i = caller
      BY <2>1
    <2>3. req[i] \in Requests /\ req[i].outcome = "waiting"
      BY LiveCollected
    <2>4. Resumed(req[i]).outcome = "waiting" /\ Second(req[i]).outcome = "waiting"
      BY <2>3 DEF Resumed, Second, Requests
    <2>5. Whole(i) => Ended(req[i], i).outcome \in {"answered", "failed"}
      BY <2>1, <2>2, <2>3, EndedFacts, ReceiveFacts
    <2>6. PICK r : \E s : Touched(i, r, s) /\ r.outcome \in {"waiting", "answered", "failed"}
      BY <2>1, <2>2, <2>4, <2>5 DEF Returned, Continued, Waited
    <2>7. PICK s : Touched(i, r, s) /\ r.outcome \in {"waiting", "answered", "failed"}
      BY <2>6
    <2> QED BY <2>7, TouchedCall
  <1>6. ASSUME smbcli_transport_finish_recv, UNCHANGED env PROVE [Calls!Next]_Outs
    <2>1. PICK p : p = Head(replies)
      OBVIOUS
    <2>2. PICK i : i = Matching(p.mid)
      OBVIOUS
    <2>3. /\ i = 0 => UNCHANGED <<req, t, caller, wire>>
          /\ i # 0 => i \in Live /\ (Fired(i, Failed(req[i])) \/ Fired(i, Answered(req[i], p)))
      BY <1>1, <1>6, <2>1, <2>2, FinishFired
    <2>4. i # 0 => p.id = i /\ i \in Listed
      BY <1>1, <1>6, <2>1, <2>2, OwnAnswer
    <2>5. CASE i = 0
      BY <1>2, <2>3, <2>5
    <2>6. CASE i # 0 /\ Fired(i, Failed(req[i]))
      BY <1>3, <2>3, <2>6, FiredCall
    <2>7. CASE i # 0 /\ Fired(i, Answered(req[i], p))
      <3>1. i \in Live /\ i \in Listed /\ UNCHANGED wire
        BY <2>3, <2>4, <2>7 DEF Fired
      <3>2. Collected(i, Answered(req[i], p)) /\ p \in Packets
        BY <1>6, <2>1, <2>4, <2>7, <3>1, NextPart
      <3>3. <<p.id, p.part>> \in (1 .. MaxReq) \X (0 .. 2)
        BY <3>2 DEF Packets
      <3>4. Answered(req[i], p) \in Requests /\ Answered(req[i], p).outcome = "waiting"
        <4>1. req[i].outcome = "waiting"
          BY <3>1, LiveCollected
        <4> QED BY <1>1, <3>1, <3>3, <4>1, FinalFacts DEF Final
      <3>5. Answered(req[i], p).state \in {"DONE", "ERROR"}
        BY <1>1, <3>1, <3>3, FinalFacts DEF Final
      <3> QED BY <2>7, <3>1, <3>2, <3>4, <3>5, FiredCall
    <2> QED BY <2>3, <2>5, <2>6, <2>7
  <1>7. ASSUME NEW i \in Id, smbcli_timeout_handler(i), UNCHANGED env PROVE [Calls!Next]_Outs
    <2>1. i \in Live /\ Fired(i, TimedOut(req[i]))
      BY <1>1, <1>7, TimeoutFired
    <2> QED BY <1>3, <2>1, FiredCall
  <1>8. ASSUME smbcli_transport_dead, UNCHANGED env PROVE [Calls!Next]_Outs
    <2>1. PICK i \in Live : Fired(i, Failed(req[i]))
      BY <1>1, <1>8, DeadFired
    <2> QED BY <1>3, <2>1, FiredCall
  <1>9. ASSUME NEW kind \in env.callers, smbcli_request_send(kind), UNCHANGED env
        PROVE  [Calls!Next]_Outs
    BY <1>9, SendCall
  <1>10. (smbcli_sock_dead \/ ServerAccept \/ ServerReply \/ UNCHANGED vars) => UNCHANGED req
    BY DEF smbcli_sock_dead, ServerAccept, ServerReply, vars
  <1> QED BY <1>2, <1>4, <1>5, <1>6, <1>7, <1>8, <1>9, <1>10 DEF Next

\* For any number of mids, requests and callers, every call is refused at once or
\* ends in exactly one way: with its own answer, complete and in order, with a
\* failure, or given up; never twice, and never with the answer of another call.
THEOREM ImplementsRequestReply == Spec => Calls!Spec
  <1>1. Init => Calls!Init
    <2> SUFFICES ASSUME Init PROVE Calls!Init
      OBVIOUS
    <2>1. Id = {}
      BY DEF Init, Id
    <2> QED BY <2>1 DEF Calls!Init
  <1> QED BY <1>1, Invariance, StepCall, PTL DEF Spec, Calls!Spec, Outs
=============================================================================
