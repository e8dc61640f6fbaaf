-------------------------- MODULE EventLoopProofs --------------------------
(***************************************************************************)
(* Theorems about EventLoop, for every number of descriptors, timed        *)
(* events, ticks and loops running inside each other: types, NoFreedEvent, *)
(* InterestMatchesFlags and TimersInOrder.                                 *)
(***************************************************************************)
EXTENDS EventLoop, SequenceTheorems, FiniteSetTheorems, WellFoundedInduction, TLAPS

(***************************************************************************)
(* Lists: what DLIST_ADD, DLIST_ADD_AFTER and DLIST_REMOVE do to a list that *)
(* holds an element at most once.                                          *)
(***************************************************************************)

\* A set of natural numbers that is not empty has a least element.
LEMMA MinFacts ==
    ASSUME NEW S \in SUBSET Nat, S # {}
    PROVE  Min(S) \in S /\ \A y \in S : Min(S) <= y
  <1>1. \E x \in S : \A y \in S : ~(<<y, x>> \in OpToRel(<, Nat))
    BY NatLessThanWellFounded, WFMin
  <1>2. \E x \in S : \A y \in S : ~(y < x)
    BY <1>1 DEF OpToRel
  <1>3. \E x \in S : \A y \in S : x <= y
    BY <1>2
  <1> QED BY <1>3 DEF Min

LEMMA RemoveAtFacts ==
    ASSUME NEW S, NEW s \in Seq(S), NEW k \in 1 .. Len(s)
    PROVE  /\ RemoveAt(s, k) \in Seq(S) /\ Len(RemoveAt(s, k)) = Len(s) - 1
           /\ \A j \in 1 .. Len(s) - 1 :
                 RemoveAt(s, k)[j] = IF j < k THEN s[j] ELSE s[j + 1]
  <1> DEFINE a == SubSeq(s, 1, k - 1)
             b == SubSeq(s, k + 1, Len(s))
  <1>1. a \in Seq(S) /\ Len(a) = k - 1 /\ \A i \in 1 .. k - 1 : a[i] = s[i]
    BY SubSeqProperties
  <1>2. b \in Seq(S) /\ Len(b) = Len(s) - k /\ \A i \in 1 .. Len(s) - k : b[i] = s[k + i]
    BY SubSeqProperties
  <1> HIDE DEF a, b
  <1>3. (a \o b) \in Seq(S) /\ Len(a \o b) = Len(a) + Len(b)
    BY <1>1, <1>2, ConcatProperties
  <1>4. \A j \in 1 .. Len(s) - 1 : (a \o b)[j] = IF j < k THEN s[j] ELSE s[j + 1]
    BY <1>1, <1>2
  <1>5. Len(a \o b) = Len(s) - 1
    BY <1>1, <1>2, <1>3
  <1> QED BY <1>3, <1>4, <1>5 DEF RemoveAt, a, b

\* DLIST_REMOVE: the others stay, in their order; nothing happens if the element
\* is not in the list.
LEMMA RemoveFirstFacts ==
    ASSUME NEW S, NEW s \in Seq(S), NEW e, IsInjective(s)
    PROVE  /\ RemoveFirst(s, e) \in Seq(S) /\ IsInjective(RemoveFirst(s, e))
           /\ Range(RemoveFirst(s, e)) = Range(s) \ {e}
           /\ Len(RemoveFirst(s, e)) <= Len(s)
           /\ e \notin Range(s) => RemoveFirst(s, e) = s
  <1> DEFINE I == {i \in 1 .. Len(s) : s[i] = e}
             r == RemoveFirst(s, e)
  <1>1. r = IF I # {} THEN RemoveAt(s, Min(I)) ELSE s
    BY DEF RemoveFirst, SelectInSeq
  <1>2. DOMAIN s = 1 .. Len(s) /\ Len(s) \in Nat
    OBVIOUS
  <1>3. \A i, j \in DOMAIN s : s[i] = s[j] => i = j
    BY DEF IsInjective
  <1>4. CASE I = {}
    BY <1>1, <1>2, <1>4 DEF Range
  <1>5. CASE I # {}
    <2>1. PICK k \in 1 .. Len(s) : s[k] = e /\ r = RemoveAt(s, k)
      <3>1. I \in SUBSET Nat
        OBVIOUS
      <3>2. Min(I) \in I
        BY <1>5, <3>1, MinFacts
      <3> QED BY <1>1, <1>5, <3>2
    <2>2. /\ r \in Seq(S) /\ Len(r) = Len(s) - 1
          /\ \A j \in 1 .. Len(s) - 1 : r[j] = IF j < k THEN s[j] ELSE s[j + 1]
      BY <2>1, RemoveAtFacts
    <2> HIDE DEF r
    <2>3. DOMAIN r = 1 .. Len(s) - 1
      BY <2>2
    <2>4. IsInjective(r)
      <3> SUFFICES ASSUME NEW i \in DOMAIN r, NEW j \in DOMAIN r, r[i] = r[j]
                   PROVE  i = j
        BY DEF IsInjective
      <3> DEFINE at(n) == IF n < k THEN n ELSE n + 1
      <3>1. i \in Int /\ j \in Int /\ k \in Int
        BY <1>2, <2>3
      <3>2. at(i) \in DOMAIN s /\ at(j) \in DOMAIN s
        BY <1>2, <2>3
      <3>3. r[i] = s[at(i)] /\ r[j] = s[at(j)]
        BY <2>2, <2>3
      <3>4. at(i) = at(j)
        BY <1>3, <3>2, <3>3
      <3> QED BY <3>1, <3>4
    <2>5. ASSUME NEW x \in Range(r)
          PROVE  x \in Range(s) \ {e}
      <3>1. PICK j \in DOMAIN r : r[j] = x
        BY <2>5 DEF Range
      <3>2. CASE j < k
        <4>1. j \in DOMAIN s /\ s[j] = x /\ j # k
          BY <1>2, <2>2, <2>3, <3>1, <3>2
        <4> QED BY <1>2, <1>3, <2>1, <4>1 DEF Range
      <3>3. CASE ~(j < k)
        <4>1. j + 1 \in DOMAIN s /\ s[j + 1] = x /\ j + 1 # k
          BY <1>2, <2>2, <2>3, <3>1, <3>3
        <4> QED BY <1>2, <1>3, <2>1, <4>1 DEF Range
      <3> QED BY <3>2, <3>3
    <2>6. ASSUME NEW x \in Range(s), x # e
          PROVE  x \in Range(r)
      <3>1. PICK i \in DOMAIN s : s[i] = x
        BY <2>6 DEF Range
      <3>2. CASE i < k
        <4>1. i \in DOMAIN r /\ r[i] = x
          BY <1>2, <2>2, <2>3, <3>1, <3>2
        <4> QED BY <4>1 DEF Range
      <3>3. CASE i > k
        <4>1. i - 1 \in DOMAIN r /\ r[i - 1] = x
          BY <1>2, <2>2, <2>3, <3>1, <3>3
        <4> QED BY <4>1 DEF Range
      <3>4. i # k
        BY <2>1, <2>6, <3>1
      <3> QED BY <1>2, <3>2, <3>3, <3>4
    <2>7. e \in Range(s)
      BY <1>2, <2>1 DEF Range
    <2> QED BY <1>2, <2>2, <2>4, <2>5, <2>6, <2>7 DEF r
  <1> QED BY <1>4, <1>5

\* DLIST_ADD: the element is the first one.
LEMMA AddFacts ==
    ASSUME NEW S, NEW s \in Seq(S), NEW e \in S, IsInjective(s), e \notin Range(s)
    PROVE  /\ <<e>> \o s \in Seq(S) /\ IsInjective(<<e>> \o s)
           /\ Range(<<e>> \o s) = Range(s) \cup {e}
           /\ Len(<<e>> \o s) = Len(s) + 1
  <1> DEFINE r == <<e>> \o s
  <1>1. /\ r \in Seq(S) /\ Len(r) = Len(s) + 1
        /\ \A i \in 1 .. Len(s) + 1 : r[i] = IF i <= 1 THEN e ELSE s[i - 1]
    <2>1. <<e>> \in Seq(S) /\ Len(<<e>>) = 1 /\ <<e>>[1] = e
      OBVIOUS
    <2>2. /\ r \in Seq(S) /\ Len(r) = 1 + Len(s)
          /\ \A i \in 1 .. 1 + Len(s) : r[i] = IF i <= 1 THEN <<e>>[i] ELSE s[i - 1]
      BY <2>1, ConcatProperties
    <2> HIDE DEF r
    <2> QED BY <2>1, <2>2
  <1> HIDE DEF r
  <1>2. /\ DOMAIN s = 1 .. Len(s) /\ DOMAIN r = 1 .. Len(s) + 1 /\ Len(s) \in Nat
        /\ \A i, j \in DOMAIN s : s[i] = s[j] => i = j
        /\ \A i \in DOMAIN s : s[i] # e
    BY <1>1 DEF IsInjective, Range
  <1>3. IsInjective(r)
    <2> SUFFICES ASSUME NEW i \in DOMAIN r, NEW j \in DOMAIN r, r[i] = r[j]
                 PROVE  i = j
      BY DEF IsInjective
    <2>1. CASE i = 1 \/ j = 1
      BY <1>1, <1>2, <2>1
    <2>2. CASE i # 1 /\ j # 1
      <3>1. i - 1 \in DOMAIN s /\ j - 1 \in DOMAIN s /\ s[i - 1] = s[j - 1]
        BY <1>1, <1>2, <2>2
      <3> QED BY <1>2, <3>1
    <2> QED BY <2>1, <2>2
  <1>4. ASSUME NEW x \in Range(r)
        PROVE  x \in Range(s) \cup {e}
    <2>1. PICK i \in DOMAIN r : r[i] = x
      BY <1>4 DEF Range
    <2>2. CASE i # 1
      <3>1. i - 1 \in DOMAIN s /\ s[i - 1] = x
        BY <1>1, <1>2, <2>1, <2>2
      <3> QED BY <3>1 DEF Range
    <2> QED BY <1>1, <1>2, <2>1, <2>2
  <1>5. ASSUME NEW x \in Range(s)
        PROVE  x \in Range(r)
    <2>1. PICK i \in DOMAIN s : s[i] = x
      BY <1>5 DEF Range
    <2>2. i + 1 \in DOMAIN r /\ r[i + 1] = x
      BY <1>1, <1>2, <2>1
    <2> QED BY <2>2 DEF Range
  <1>6. e \in Range(r)
    <2>1. 1 \in DOMAIN r /\ r[1] = e
      BY <1>1, <1>2
    <2> QED BY <2>1 DEF Range
  <1> QED BY <1>1, <1>3, <1>4, <1>5, <1>6 DEF r

\* DLIST_REMOVE keeps the order of the elements that stay.
LEMMA RemoveFirstOrder ==
    ASSUME NEW S, NEW s \in Seq(S), NEW e, IsInjective(s),
           NEW i \in DOMAIN RemoveFirst(s, e), NEW j \in DOMAIN RemoveFirst(s, e), i < j
    PROVE  \E k, l \in DOMAIN s :
              k < l /\ RemoveFirst(s, e)[i] = s[k] /\ RemoveFirst(s, e)[j] = s[l]
  <1> DEFINE I == {h \in 1 .. Len(s) : s[h] = e}
  <1>1. RemoveFirst(s, e) = IF I # {} THEN RemoveAt(s, Min(I)) ELSE s
    BY DEF RemoveFirst, SelectInSeq
  <1>2. DOMAIN s = 1 .. Len(s) /\ Len(s) \in Nat
    OBVIOUS
  <1>3. CASE I = {}
    BY <1>1, <1>3
  <1>4. CASE I # {}
    <2>1. PICK m \in 1 .. Len(s) : RemoveFirst(s, e) = RemoveAt(s, m)
      <3>1. I \in SUBSET Nat
        OBVIOUS
      <3>2. Min(I) \in I
        BY <1>4, <3>1, MinFacts
      <3> QED BY <1>1, <1>4, <3>2
    <2> HIDE DEF I
    <2>2. PICK r : r = RemoveAt(s, m)
      OBVIOUS
    <2>3. /\ RemoveAt(s, m) \in Seq(S) /\ Len(RemoveAt(s, m)) = Len(s) - 1
          /\ \A n \in 1 .. Len(s) - 1 :
                RemoveAt(s, m)[n] = IF n < m THEN s[n] ELSE s[n + 1]
      BY RemoveAtFacts
    <2>4. /\ r \in Seq(S) /\ DOMAIN r = 1 .. Len(s) - 1
          /\ \A n \in 1 .. Len(s) - 1 : r[n] = IF n < m THEN s[n] ELSE s[n + 1]
      BY <2>2, <2>3
    <2>5. i \in 1 .. Len(s) - 1 /\ j \in 1 .. Len(s) - 1
      BY <2>1, <2>2, <2>4
    <2>6. PICK k : k = IF i < m THEN i ELSE i + 1
      OBVIOUS
    <2>7. PICK l : l = IF j < m THEN j ELSE j + 1
      OBVIOUS
    <2>8. k \in DOMAIN s /\ l \in DOMAIN s /\ k < l
      BY <1>2, <2>5, <2>6, <2>7
    <2>9. r[i] = s[k] /\ r[j] = s[l]
      BY <2>4, <2>5, <2>6, <2>7
    <2> QED BY <2>1, <2>2, <2>8, <2>9
  <1> QED BY <1>3, <1>4

\* r is s with e as its i-th element.
Placed(s, i, e, r) ==
    /\ Len(r) = Len(s) + 1
    /\ \A j \in 1 .. Len(s) + 1 :
          r[j] = IF j < i THEN s[j] ELSE IF j = i THEN e ELSE s[j - 1]

\* DLIST_ADD_AFTER: the element is at its place, the others keep their order.
LEMMA InsertAtFacts ==
    ASSUME NEW S, NEW s \in Seq(S), NEW i \in 1 .. Len(s) + 1, NEW e \in S,
           NEW r, r = InsertAt(s, i, e)
    PROVE  r \in Seq(S) /\ Placed(s, i, e, r)
  <1> DEFINE a == SubSeq(s, 1, i - 1)
             b == <<e>>
             c == SubSeq(s, i, Len(s))
  <1>1. a \in Seq(S) /\ Len(a) = i - 1 /\ \A j \in 1 .. i - 1 : a[j] = s[j]
    BY SubSeqProperties
  <1>2. /\ c \in Seq(S) /\ Len(c) = Len(s) - i + 1
        /\ \A j \in 1 .. Len(s) - i + 1 : c[j] = s[i + j - 1]
    BY SubSeqProperties
  <1>3. b \in Seq(S) /\ Len(b) = 1 /\ b[1] = e
    OBVIOUS
  <1> HIDE DEF a, b, c
  <1>4. /\ (a \o b) \in Seq(S) /\ Len(a \o b) = Len(a) + Len(b)
        /\ \A j \in 1 .. Len(a) + Len(b) :
              (a \o b)[j] = IF j <= Len(a) THEN a[j] ELSE b[j - Len(a)]
    BY <1>1, <1>3, ConcatProperties
  <1>5. PICK d : d = a \o b
    OBVIOUS
  <1>6. d \in Seq(S) /\ Len(d) = i /\ \A j \in 1 .. i : d[j] = IF j < i THEN s[j] ELSE e
    <2>1. Len(a) + Len(b) = i
      BY <1>1, <1>3
    <2>2. d \in Seq(S) /\ Len(d) = i
      BY <1>4, <1>5, <2>1
    <2>3. ASSUME NEW j \in 1 .. i PROVE d[j] = IF j < i THEN s[j] ELSE e
      <3>1. d[j] = IF j <= i - 1 THEN a[j] ELSE b[j - (i - 1)]
        BY <1>1, <1>4, <1>5, <2>1
      <3>2. CASE j < i
        BY <1>1, <3>1, <3>2
      <3>3. CASE ~(j < i)
        <4>1. j - (i - 1) = 1 /\ ~(j <= i - 1)
          BY <3>3
        <4> QED BY <1>3, <3>1, <3>3, <4>1
      <3> QED BY <3>2, <3>3
    <2> QED BY <2>2, <2>3
  <1>7. /\ (d \o c) \in Seq(S) /\ Len(d \o c) = Len(d) + Len(c)
        /\ \A j \in 1 .. Len(d) + Len(c) :
              (d \o c)[j] = IF j <= Len(d) THEN d[j] ELSE c[j - Len(d)]
    BY <1>2, <1>6, ConcatProperties
  <1>8. r = d \o c
    BY <1>5 DEF InsertAt, a, b, c
  <1>9. r \in Seq(S) /\ Len(r) = Len(s) + 1
    <2>1. Len(d) + Len(c) = Len(s) + 1
      BY <1>2, <1>6
    <2> QED BY <1>7, <1>8, <2>1
  <1>10. ASSUME NEW j \in 1 .. Len(s) + 1
         PROVE  r[j] = IF j < i THEN s[j] ELSE IF j = i THEN e ELSE s[j - 1]
    <2>1. r[j] = IF j <= i THEN d[j] ELSE c[j - i]
      BY <1>2, <1>6, <1>7, <1>8
    <2>2. CASE j <= i
      BY <1>6, <2>1, <2>2
    <2>3. CASE j > i
      <3>1. j - i \in 1 .. Len(s) - i + 1
        BY <2>3
      <3>2. c[j - i] = s[i + (j - i) - 1]
        BY <1>2, <3>1
      <3>3. i + (j - i) - 1 = j - 1
        OBVIOUS
      <3> QED BY <2>1, <2>3, <3>2, <3>3
    <2> QED BY <2>2, <2>3
  <1> QED BY <1>9, <1>10 DEF Placed

\* The first element leaves the list.
LEMMA TailFacts ==
    ASSUME NEW S, NEW s \in Seq(S), IsInjective(s), s # <<>>
    PROVE  /\ Tail(s) \in Seq(S) /\ IsInjective(Tail(s))
           /\ Range(Tail(s)) = Range(s) \ {Head(s)}
           /\ Len(Tail(s)) = Len(s) - 1
           /\ \A i \in 1 .. Len(s) - 1 : Tail(s)[i] = s[i + 1]
           /\ Head(s) = s[1] /\ Head(s) \in S /\ Head(s) \in Range(s)
  <1>1. /\ Tail(s) \in Seq(S) /\ Len(Tail(s)) = Len(s) - 1
        /\ \A i \in 1 .. Len(s) - 1 : Tail(s)[i] = s[i + 1]
        /\ Head(s) = s[1] /\ Head(s) \in S /\ Len(s) \in Nat \ {0}
    BY HeadTailProperties, EmptySeq, LenProperties
  <1>2. PICK r : r = Tail(s)
    OBVIOUS
  <1>3. /\ DOMAIN r = 1 .. Len(s) - 1 /\ DOMAIN s = 1 .. Len(s)
        /\ \A i \in DOMAIN r : r[i] = s[i + 1]
        /\ \A i, j \in DOMAIN s : s[i] = s[j] => i = j
    BY <1>1, <1>2 DEF IsInjective
  <1>4. IsInjective(r)
    <2> SUFFICES ASSUME NEW i \in DOMAIN r, NEW j \in DOMAIN r, r[i] = r[j]
                 PROVE  i = j
      BY DEF IsInjective
    <2> QED BY <1>1, <1>3
  <1>5. ASSUME NEW x \in Range(r) PROVE x \in Range(s) \ {Head(s)}
    <2>1. PICK i \in DOMAIN r : r[i] = x
      BY <1>5 DEF Range
    <2>2. i + 1 \in DOMAIN s /\ s[i + 1] = x /\ i + 1 # 1 /\ 1 \in DOMAIN s
      BY <1>1, <1>3, <2>1
    <2> QED BY <1>1, <1>3, <2>2 DEF Range
  <1>6. ASSUME NEW x \in Range(s), x # Head(s) PROVE x \in Range(r)
    <2>1. PICK i \in DOMAIN s : s[i] = x
      BY <1>6 DEF Range
    <2>2. i # 1
      BY <1>1, <1>6, <2>1
    <2>3. i - 1 \in DOMAIN r /\ r[i - 1] = x
      BY <1>1, <1>3, <2>1, <2>2
    <2> QED BY <2>3 DEF Range
  <1>7. Head(s) \in Range(s)
    <2>1. 1 \in DOMAIN s /\ s[1] = Head(s)
      BY <1>1, <1>3
    <2> QED BY <2>1 DEF Range
  <1>8. Range(r) = Range(s) \ {Head(s)}
    BY <1>5, <1>6
  <1> QED BY <1>1, <1>2, <1>4, <1>7, <1>8


\* A finite set as a list.
LEMMA SetToSeqFacts ==
    ASSUME NEW S, IsFiniteSet(S), NEW s, s = SetToSeq(S)
    PROVE  s \in Seq(S) /\ IsInjective(s) /\ Range(s) = S
  <1>1. PICK n : n = Cardinality(S)
    OBVIOUS
  <1>2. n \in Nat /\ ExistsBijection(1 .. n, S)
    BY <1>1, FS_CardinalityType
  <1>3. \E f \in [1 .. n -> S] : IsInjective(f)
    BY <1>2 DEF ExistsBijection, Bijection, Injection
  <1>4. s \in [1 .. n -> S] /\ IsInjective(s)
    BY <1>1, <1>3 DEF SetToSeq
  <1>5. s \in Seq(S)
    BY <1>2, <1>4
  <1>6. Range(s) \in SUBSET S
    BY <1>4 DEF Range
  <1>7. s \in Bijection(1 .. n, Range(s))
    BY <1>4 DEF Bijection, Injection, Surjection, Range
  <1>8. Cardinality(Range(s)) = n
    BY <1>2, <1>7, FS_CountingElements DEF ExistsBijection
  <1>9. Range(s) = S
    BY <1>1, <1>6, <1>8, FS_Subset
  <1> QED BY <1>4, <1>5, <1>9

-----------------------------------------------------------------------------
What == SUBSET (Flags \cup {"error"})
FdEvents == [gen : Nat, flags : SUBSET Flags, has_event : BOOLEAN,
             report_error : BOOLEAN, got_error : BOOLEAN]
Contexts == [fd_events : Seq(Fd), timed_events : Seq(DOMAIN te),
             destruction_count : Nat, epoll_fd : BOOLEAN, ops : 0 .. env.ops]
Reported == [fd : Fd, gen : Nat, what : What]
Running == {Nothing} \cup ({"fd"} \X Fd) \cup ({"timer"} \X DOMAIN te)
Frames == [count : Nat, todo : Seq(Reported), run : Running]
Timers == [at : 0 .. env.time, st : {"pending", "running", "done", "freed"}]

Typed ==
    /\ env \in Scenarios
    /\ ev \in Contexts
    /\ fde \in [Fd -> FdEvents]
    /\ epoll \in [Fd -> SUBSET Flags]
    /\ file \in [Fd -> What]
    /\ now \in 1 .. env.time
    /\ te \in Seq(Timers)
    /\ stack \in Seq(Frames)
    /\ IsInjective(ev.fd_events)

\* The list of timed events: the pending ones, each once, in order.
Precedes(j, k) == te[j].at < te[k].at \/ (te[j].at = te[k].at /\ j < k)

Scheduled ==
    /\ IsInjective(ev.timed_events)
    /\ Range(ev.timed_events) = {k \in DOMAIN te : te[k].st = "pending"}
    /\ \A i, j \in DOMAIN ev.timed_events :
          i < j => Precedes(ev.timed_events[i], ev.timed_events[j])

\* What the kernel watches for the fd_event r, which is on the list or not.
\* That a registered event is marked by has_event is what the invariant adds
\* to InterestMatchesFlags.
Watched(on, r, w) ==
    IF on /\ ("read" \in r.flags \/ ~r.got_error)
    THEN /\ w = r.flags
         /\ r.report_error <=> "read" \in r.flags
         /\ r.has_event <=> w # {}
    ELSE w = {} /\ (on => ~r.has_event)

Watch ==
    ev.epoll_fd => \A f \in Fd : Watched(Listed(f), fde[f], epoll[f])

\* An event fetched from the kernel, still what it was then.
Current(e) == Listed(e.fd) /\ fde[e.fd].gen = e.gen

\* What a round has fetched is good as long as nothing was destroyed.
Fetched(s) ==
    /\ s.count <= ev.destruction_count
    /\ s.count = ev.destruction_count => \A e \in Range(s.todo) : Current(e)
    /\ s.run[1] = "timer" => te[s.run[2]].st # "pending"

Rounds ==
    /\ \A i \in DOMAIN stack : Fetched(stack[i])
    /\ \A i \in DOMAIN stack : i # Len(stack) => stack[i].run # Nothing
    /\ stack # <<>> /\ stack[Len(stack)].run = Nothing =>
          /\ stack[Len(stack)].count = ev.destruction_count
          /\ stack[Len(stack)].todo # <<>>

IInv == Typed /\ Scheduled /\ Watch /\ Rounds

-----------------------------------------------------------------------------
(***************************************************************************)
(* Views: what an operation on the epoll interest does to one descriptor.  *)
(***************************************************************************)
Views == [ev : Contexts, fde : [Fd -> FdEvents], epoll : [Fd -> SUBSET Flags]]

SameLists(x, y) ==
    /\ y.ev.fd_events = x.ev.fd_events /\ y.ev.timed_events = x.ev.timed_events
    /\ y.ev.destruction_count = x.ev.destruction_count /\ y.ev.ops = x.ev.ops

\* y is x with the fd_event r and the interest w for f, or has fallen back to
\* select.
Touched(x, y, f, r, w) ==
    /\ y \in Views /\ SameLists(x, y)
    /\ r \in FdEvents /\ y.fde = [x.fde EXCEPT ![f] = r]
    /\ y.ev.epoll_fd =>
          x.ev.epoll_fd /\ w \in SUBSET Flags /\ y.epoll = [x.epoll EXCEPT ![f] = w]

LEMMA TouchedTrans ==
    ASSUME NEW x \in Views, NEW y \in Views, NEW z \in Views, NEW f \in Fd,
           NEW r, NEW w, NEW q, NEW v, Touched(x, y, f, r, w), Touched(y, z, f, q, v)
    PROVE  Touched(x, z, f, q, v)
  <1>1. /\ x.fde \in [Fd -> FdEvents] /\ x.epoll \in [Fd -> SUBSET Flags]
        /\ z \in Views /\ SameLists(x, z) /\ q \in FdEvents
    BY DEF Touched, SameLists, Views
  <1>2. z.fde = [x.fde EXCEPT ![f] = q]
    BY <1>1 DEF Touched
  <1>3. z.ev.epoll_fd =>
           x.ev.epoll_fd /\ v \in SUBSET Flags /\ z.epoll = [x.epoll EXCEPT ![f] = v]
    BY <1>1 DEF Touched
  <1> QED BY <1>1, <1>2, <1>3 DEF Touched

\* Writing an fd_event.
Written(x, f, r) == [x EXCEPT !.fde[f] = r]

LEMMA WrittenFacts ==
    ASSUME NEW x \in Views, NEW f \in Fd, NEW r \in FdEvents
    PROVE  /\ Written(x, f, r) \in Views
           /\ Written(x, f, r).ev = x.ev /\ Written(x, f, r).epoll = x.epoll
           /\ Written(x, f, r).fde[f] = r
           /\ Touched(x, Written(x, f, r), f, r, x.epoll[f])
  <1> DEFINE y == Written(x, f, r)
  <1>1. x.ev \in Contexts /\ x.fde \in [Fd -> FdEvents] /\ x.epoll \in [Fd -> SUBSET Flags]
    BY DEF Views
  <1>2. y = [ev |-> x.ev, fde |-> [x.fde EXCEPT ![f] = r], epoll |-> x.epoll]
    BY DEF Views, Written
  <1>3. /\ y \in Views /\ y.ev = x.ev /\ y.epoll = x.epoll /\ y.fde[f] = r
        /\ y.fde = [x.fde EXCEPT ![f] = r]
    BY <1>1, <1>2 DEF Views
  <1> HIDE DEF y
  <1>4. SameLists(x, y)
    BY <1>3 DEF SameLists
  <1>5. x.epoll = [x.epoll EXCEPT ![f] = x.epoll[f]] /\ x.epoll[f] \in SUBSET Flags
    BY <1>1
  <1>6. Touched(x, y, f, r, x.epoll[f])
    BY <1>3, <1>4, <1>5 DEF Touched
  <1> QED BY <1>3, <1>6 DEF y

LEMMA FallbackFacts ==
    ASSUME NEW x \in Views
    PROVE  /\ epoll_fallback_to_select(x) \in Views
           /\ ~epoll_fallback_to_select(x).ev.epoll_fd
           /\ epoll_fallback_to_select(x).fde = x.fde
           /\ SameLists(x, epoll_fallback_to_select(x))
  <1> DEFINE y == epoll_fallback_to_select(x)
  <1>1. y = [ev |-> [x.ev EXCEPT !.epoll_fd = FALSE], fde |-> x.fde, epoll |-> NoInterest]
    BY DEF Views, epoll_fallback_to_select
  <1>2. x.ev \in Contexts /\ x.fde \in [Fd -> FdEvents]
    BY DEF Views
  <1>3. [x.ev EXCEPT !.epoll_fd = FALSE] \in Contexts
    BY <1>2 DEF Contexts
  <1>4. NoInterest \in [Fd -> SUBSET Flags]
    BY DEF NoInterest
  <1>5. y \in Views /\ y.fde = x.fde /\ y.ev = [x.ev EXCEPT !.epoll_fd = FALSE]
    BY <1>1, <1>2, <1>3, <1>4 DEF Views
  <1> HIDE DEF y
  <1>6. ~y.ev.epoll_fd /\ SameLists(x, y)
    BY <1>2, <1>5 DEF Contexts, SameLists
  <1> QED BY <1>5, <1>6 DEF y

LEMMA CtlFacts ==
    ASSUME NEW x \in Views, NEW f \in Fd, x.ev.epoll_fd, NEW y \in epoll_ctl(x, f)
    PROVE  Touched(x, y, f, x.fde[f], x.fde[f].flags)
  <1> DEFINE z == [x EXCEPT !.epoll[f] = x.fde[f].flags]
  <1>1. x.ev \in Contexts /\ x.fde \in [Fd -> FdEvents] /\ x.epoll \in [Fd -> SUBSET Flags]
    BY DEF Views
  <1>2. x.fde[f] \in FdEvents /\ x.fde[f].flags \in SUBSET Flags /\ x.fde = [x.fde EXCEPT ![f] = x.fde[f]]
    BY <1>1 DEF FdEvents
  <1>3. CASE y = z
    <2>1. z = [ev |-> x.ev, fde |-> x.fde, epoll |-> [x.epoll EXCEPT ![f] = x.fde[f].flags]]
      BY DEF Views
    <2>2. z \in Views /\ z.ev = x.ev /\ z.fde = x.fde /\ z.epoll = [x.epoll EXCEPT ![f] = x.fde[f].flags]
      BY <1>1, <1>2, <2>1 DEF Views
    <2> HIDE DEF z
    <2>3. SameLists(x, z)
      BY <2>2 DEF SameLists
    <2> QED BY <1>2, <1>3, <2>2, <2>3 DEF Touched
  <1>4. CASE y = epoll_fallback_to_select(x)
    BY <1>2, <1>4, FallbackFacts DEF Touched
  <1> QED BY <1>3, <1>4 DEF epoll_ctl


\* The fd_event with the marks that the calls of epoll leave.
Reads(r) == "read" \in r.flags
Reporting(r) == [r EXCEPT !.report_error = Reads(r)]
Registered(r) == [r EXCEPT !.report_error = Reads(r), !.has_event = TRUE]
Muted(r) == [r EXCEPT !.report_error = FALSE]
Removed(r) == [r EXCEPT !.report_error = FALSE, !.has_event = FALSE]

\* q is r but for its marks.
Marked(r, q) ==
    /\ q \in FdEvents
    /\ q.flags = r.flags /\ q.gen = r.gen /\ q.got_error = r.got_error

LEMMA MarkedFacts ==
    ASSUME NEW r \in FdEvents
    PROVE  /\ Marked(r, Reporting(r)) /\ Reporting(r).has_event = r.has_event
           /\ Reporting(r).report_error <=> "read" \in r.flags
           /\ Marked(r, Registered(r)) /\ Registered(r).has_event
           /\ Registered(r).report_error <=> "read" \in r.flags
           /\ Marked(r, Muted(r)) /\ Muted(r).has_event = r.has_event /\ ~Muted(r).report_error
           /\ Marked(r, Removed(r)) /\ ~Removed(r).has_event /\ ~Removed(r).report_error
  <1>1. Reads(r) \in BOOLEAN
    BY DEF Reads
  <1>2. /\ Marked(r, Reporting(r)) /\ Reporting(r).has_event = r.has_event
        /\ Reporting(r).report_error <=> "read" \in r.flags
    BY <1>1 DEF Marked, Reporting, Reads, FdEvents
  <1>3. /\ Marked(r, Registered(r)) /\ Registered(r).has_event
        /\ Registered(r).report_error <=> "read" \in r.flags
    BY <1>1 DEF Marked, Registered, Reads, FdEvents
  <1>4. Marked(r, Muted(r)) /\ Muted(r).has_event = r.has_event /\ ~Muted(r).report_error
    BY DEF Marked, Muted, FdEvents
  <1>5. Marked(r, Removed(r)) /\ ~Removed(r).has_event /\ ~Removed(r).report_error
    BY DEF Marked, Removed, FdEvents
  <1> QED BY <1>2, <1>3, <1>4, <1>5

LEMMA ReportFacts ==
    ASSUME NEW x \in Views, NEW f \in Fd
    PROVE  Report(x, f) = Written(x, f, Reporting(x.fde[f]))
  <1>1. x.fde \in [Fd -> FdEvents] /\ x.fde[f] \in FdEvents
    BY DEF Views
  <1> QED BY <1>1 DEF Report, Written, Reporting, Reads, Views, FdEvents

LEMMA RegisterFacts ==
    ASSUME NEW x \in Views, NEW f \in Fd
    PROVE  [Report(x, f) EXCEPT !.fde[f].has_event = TRUE] = Written(x, f, Registered(x.fde[f]))
  <1>1. x.fde \in [Fd -> FdEvents] /\ x.fde[f] \in FdEvents
    BY DEF Views
  <1> QED BY <1>1 DEF Report, Written, Registered, Reads, Views, FdEvents

LEMMA MuteFacts ==
    ASSUME NEW x \in Views, NEW f \in Fd
    PROVE  [x EXCEPT !.fde[f].report_error = FALSE] = Written(x, f, Muted(x.fde[f]))
  <1>1. x.fde \in [Fd -> FdEvents] /\ x.fde[f] \in FdEvents
    BY DEF Views
  <1> QED BY <1>1 DEF Written, Muted, Views, FdEvents

LEMMA ModFacts ==
    ASSUME NEW x \in Views, NEW f \in Fd, x.ev.epoll_fd, NEW y \in epoll_mod_event(x, f)
    PROVE  Touched(x, y, f, Reporting(x.fde[f]), x.fde[f].flags)
  <1>1. PICK z \in epoll_ctl(x, f) : y = Report(z, f)
    BY DEF epoll_mod_event
  <1>2. Touched(x, z, f, x.fde[f], x.fde[f].flags)
    BY CtlFacts
  <1>3. z \in Views /\ z.fde[f] = x.fde[f] /\ x.fde[f] \in FdEvents
    BY <1>2 DEF Touched, Views
  <1>4. PICK r : r = Reporting(x.fde[f])
    OBVIOUS
  <1>5. y = Written(z, f, r)
    BY <1>1, <1>3, <1>4, ReportFacts
  <1>6. r \in FdEvents
    BY <1>3, <1>4, MarkedFacts DEF Marked
  <1>7. Touched(z, y, f, r, z.epoll[f]) /\ y \in Views
    BY <1>3, <1>5, <1>6, WrittenFacts
  <1>8. y.ev.epoll_fd => z.epoll[f] = x.fde[f].flags
    <2>1. x.epoll \in [Fd -> SUBSET Flags]
      BY DEF Views
    <2> QED BY <1>2, <1>7, <2>1 DEF Touched
  <1>9. Touched(x, y, f, r, z.epoll[f])
    BY <1>2, <1>3, <1>7, TouchedTrans
  <1>10. Touched(x, y, f, r, x.fde[f].flags)
    BY <1>8, <1>9 DEF Touched
  <1> QED BY <1>4, <1>10

LEMMA AddFdFacts ==
    ASSUME NEW x \in Views, NEW f \in Fd, x.ev.epoll_fd, x.fde[f].flags # {},
           NEW y \in epoll_add_event(x, f)
    PROVE  Touched(x, y, f, Registered(x.fde[f]), x.fde[f].flags)
  <1>1. PICK z \in epoll_ctl(x, f) : y = [Report(z, f) EXCEPT !.fde[f].has_event = TRUE]
    BY DEF epoll_add_event
  <1>2. Touched(x, z, f, x.fde[f], x.fde[f].flags)
    BY CtlFacts
  <1>3. z \in Views /\ z.fde[f] = x.fde[f] /\ x.fde[f] \in FdEvents
    BY <1>2 DEF Touched, Views
  <1>4. PICK r : r = Registered(x.fde[f])
    OBVIOUS
  <1>5. y = Written(z, f, r)
    BY <1>1, <1>3, <1>4, RegisterFacts
  <1>6. r \in FdEvents
    BY <1>3, <1>4, MarkedFacts DEF Marked
  <1>7. Touched(z, y, f, r, z.epoll[f]) /\ y \in Views
    BY <1>3, <1>5, <1>6, WrittenFacts
  <1>8. y.ev.epoll_fd => z.epoll[f] = x.fde[f].flags
    <2>1. x.epoll \in [Fd -> SUBSET Flags]
      BY DEF Views
    <2> QED BY <1>2, <1>7, <2>1 DEF Touched
  <1>9. Touched(x, y, f, r, z.epoll[f])
    BY <1>2, <1>3, <1>7, TouchedTrans
  <1>10. Touched(x, y, f, r, x.fde[f].flags)
    BY <1>8, <1>9 DEF Touched
  <1> QED BY <1>4, <1>10

LEMMA DelFacts ==
    ASSUME NEW x \in Views, NEW f \in Fd, x.ev.epoll_fd
    PROVE  Touched(x, epoll_del_event(x, f), f, Removed(x.fde[f]),
                   IF x.fde[f].has_event THEN {} ELSE x.epoll[f])
  <1> DEFINE y == epoll_del_event(x, f)
  <1>1. /\ x.ev \in Contexts /\ x.fde \in [Fd -> FdEvents] /\ x.epoll \in [Fd -> SUBSET Flags]
        /\ x.fde[f] \in FdEvents
    BY DEF Views
  <1>2. PICK w : w = IF x.fde[f].has_event THEN {} ELSE x.epoll[f]
    OBVIOUS
  <1>3. PICK r : r = Removed(x.fde[f])
    OBVIOUS
  <1>4. y = [ev |-> x.ev, fde |-> [x.fde EXCEPT ![f] = Removed(x.fde[f])],
             epoll |-> [x.epoll EXCEPT ![f] = IF x.fde[f].has_event THEN {} ELSE x.epoll[f]]]
    BY DEF epoll_del_event, Views, Removed
  <1>5. w \in SUBSET Flags /\ r \in FdEvents
    BY <1>1, <1>2, <1>3, MarkedFacts DEF Marked
  <1>6. y = [ev |-> x.ev, fde |-> [x.fde EXCEPT ![f] = r], epoll |-> [x.epoll EXCEPT ![f] = w]]
    BY <1>2, <1>3, <1>4
  <1> HIDE DEF y
  <1>7. y \in Views /\ y.ev = x.ev /\ y.fde = [x.fde EXCEPT ![f] = r] /\ y.epoll = [x.epoll EXCEPT ![f] = w]
    BY <1>1, <1>5, <1>6 DEF Views
  <1>8. SameLists(x, y)
    BY <1>7 DEF SameLists
  <1>9. Touched(x, y, f, r, w)
    BY <1>5, <1>7, <1>8 DEF Touched
  <1> QED BY <1>2, <1>3, <1>9 DEF y


\* The fd_event r0 of f gets other flags and becomes r; the kernel follows.
Followed(x, y, f, r0) ==
    \E r, w : /\ Touched(x, y, f, r, w) /\ r.gen = r0.gen
              /\ y.ev.epoll_fd => Watched(TRUE, r, w)

LEMMA WantedWatched ==
    ASSUME NEW r \in FdEvents, NEW q, Marked(r, q), NEW w,
           "read" \in r.flags \/ ("write" \in r.flags /\ ~r.got_error),
           q.report_error <=> "read" \in r.flags, q.has_event, w = r.flags
    PROVE  Watched(TRUE, q, w)
  BY DEF Watched, Marked, FdEvents

LEMMA UnwantedWatched ==
    ASSUME NEW r \in FdEvents, NEW q, Marked(r, q),
           ~("read" \in r.flags \/ ("write" \in r.flags /\ ~r.got_error)),
           ~q.report_error, ~q.has_event
    PROVE  Watched(TRUE, q, {})
  <1>1. "read" \notin r.flags /\ r.flags \in SUBSET Flags
    BY DEF FdEvents
  <1>2. CASE r.got_error
    BY <1>1, <1>2 DEF Watched, Marked
  <1>3. CASE ~r.got_error
    <2>1. r.flags = {}
      BY <1>1, <1>3 DEF Flags
    <2> QED BY <1>1, <1>3, <2>1 DEF Watched, Marked
  <1> QED BY <1>2, <1>3

LEMMA ChangeFacts ==
    ASSUME NEW x \in Views, NEW f \in Fd, NEW flags \in SUBSET Flags,
           x.ev.epoll_fd => (x.fde[f].has_event <=> x.epoll[f] # {}),
           NEW y \in epoll_change_event([x EXCEPT !.fde[f].flags = flags], f)
    PROVE  Followed(x, y, f, x.fde[f])
  <1>1. x.fde[f] \in FdEvents /\ x.fde \in [Fd -> FdEvents]
    BY DEF Views
  <1>2. PICK r0 : r0 = [x.fde[f] EXCEPT !.flags = flags]
    OBVIOUS
  <1>3. /\ r0 \in FdEvents /\ r0.gen = x.fde[f].gen /\ r0.flags = flags
        /\ r0.has_event = x.fde[f].has_event
    BY <1>1, <1>2 DEF FdEvents
  <1>4. PICK x0 : x0 = Written(x, f, r0)
    OBVIOUS
  <1>5. [x EXCEPT !.fde[f].flags = flags] = x0
    BY <1>2, <1>4 DEF Written, Views
  <1>6. /\ x0 \in Views /\ x0.ev = x.ev /\ x0.epoll = x.epoll /\ x0.fde[f] = r0
        /\ Touched(x, x0, f, r0, x.epoll[f])
    BY <1>3, <1>4, WrittenFacts
  <1>7. y \in epoll_change_event(x0, f)
    BY <1>5
  <1>8. CASE ~x0.ev.epoll_fd
    <2>1. y = x0
      BY <1>7, <1>8 DEF epoll_change_event
    <2> QED BY <1>3, <1>6, <1>8, <2>1 DEF Followed
  <1>9. CASE x0.ev.epoll_fd
    <2>1. PICK y0 : y0 = Written(x0, f, Muted(r0))
      OBVIOUS
    <2>2. [x0 EXCEPT !.fde[f].report_error = FALSE] = y0
      BY <1>6, <2>1, MuteFacts
    <2>3. PICK r1 : r1 = Muted(r0)
      OBVIOUS
    <2>4. /\ r1 \in FdEvents /\ r1.gen = r0.gen /\ r1.flags = r0.flags /\ Marked(r0, r1)
          /\ r1.has_event = r0.has_event /\ r1.got_error = r0.got_error /\ ~r1.report_error
      BY <1>3, <2>3, MarkedFacts DEF Marked
    <2>5. /\ y0 \in Views /\ y0.ev = x.ev /\ y0.epoll = x.epoll /\ y0.fde[f] = r1
          /\ Touched(x0, y0, f, r1, x.epoll[f])
      BY <1>6, <2>1, <2>3, <2>4, WrittenFacts
    <2>6. Touched(x, y0, f, r1, x.epoll[f])
      BY <1>6, <2>5, TouchedTrans
    <2>7. y \in IF y0.fde[f].has_event
                THEN IF Wanted(y0, f) THEN epoll_mod_event(y0, f) ELSE {epoll_del_event(y0, f)}
                ELSE IF Wanted(y0, f) THEN epoll_add_event(y0, f) ELSE {y0}
      BY <1>7, <1>9, <2>2 DEF epoll_change_event
    <2>8. Wanted(y0, f) <=> "read" \in r1.flags \/ ("write" \in r1.flags /\ ~r1.got_error)
      BY <2>5 DEF Wanted
    <2>9. y0.ev.epoll_fd
      BY <1>6, <1>9, <2>5
    <2>10. CASE r1.has_event /\ Wanted(y0, f)
      <3>1. Touched(y0, y, f, Reporting(r1), r1.flags)
        BY <2>5, <2>7, <2>9, <2>10, ModFacts
      <3>2. Touched(x, y, f, Reporting(r1), r1.flags)
        <4>1. y \in Views
          BY <3>1 DEF Touched
        <4> QED BY <2>5, <2>6, <3>1, <4>1, TouchedTrans
      <3>3. Watched(TRUE, Reporting(r1), r1.flags)
        <4>1. /\ Marked(r1, Reporting(r1)) /\ Reporting(r1).has_event
              /\ Reporting(r1).report_error <=> "read" \in r1.flags
          BY <2>4, <2>10, MarkedFacts
        <4>2. PICK q : q = Reporting(r1)
          OBVIOUS
        <4>3. /\ Marked(r1, q) /\ q.has_event
              /\ q.report_error <=> "read" \in r1.flags
          BY <4>1, <4>2
        <4>4. Watched(TRUE, q, r1.flags)
          BY <2>4, <2>8, <2>10, <4>3, WantedWatched
        <4> QED BY <4>2, <4>4
      <3>4. Reporting(r1).gen = x.fde[f].gen
        BY <1>3, <2>4, MarkedFacts DEF Marked
      <3> QED BY <3>2, <3>3, <3>4 DEF Followed
    <2>11. CASE r1.has_event /\ ~Wanted(y0, f)
      <3>1. y = epoll_del_event(y0, f)
        BY <2>5, <2>7, <2>11
      <3>2. Touched(y0, y, f, Removed(r1), {})
        BY <2>5, <2>9, <2>11, <3>1, DelFacts
      <3>3. Touched(x, y, f, Removed(r1), {})
        <4>1. y \in Views
          BY <3>2 DEF Touched
        <4> QED BY <2>5, <2>6, <3>2, <4>1, TouchedTrans
      <3>4. Watched(TRUE, Removed(r1), {})
        <4>1. Marked(r1, Removed(r1)) /\ ~Removed(r1).has_event /\ ~Removed(r1).report_error
          BY <2>4, <2>11, MarkedFacts
        <4>2. PICK q : q = Removed(r1)
          OBVIOUS
        <4>3. Marked(r1, q) /\ ~q.has_event /\ ~q.report_error
          BY <4>1, <4>2
        <4>4. Watched(TRUE, q, {})
          BY <2>4, <2>8, <2>11, <4>3, UnwantedWatched
        <4> QED BY <4>2, <4>4
      <3>5. Removed(r1).gen = x.fde[f].gen
        BY <1>3, <2>4, MarkedFacts DEF Marked
      <3> QED BY <3>3, <3>4, <3>5 DEF Followed
    <2>12. CASE ~r1.has_event /\ Wanted(y0, f)
      <3>1. r1.flags # {}
        BY <2>8, <2>12
      <3>2. Touched(y0, y, f, Registered(r1), r1.flags)
        BY <2>5, <2>7, <2>9, <2>12, <3>1, AddFdFacts
      <3>3. Touched(x, y, f, Registered(r1), r1.flags)
        <4>1. y \in Views
          BY <3>2 DEF Touched
        <4> QED BY <2>5, <2>6, <3>2, <4>1, TouchedTrans
      <3>4. Watched(TRUE, Registered(r1), r1.flags)
        <4>1. /\ Marked(r1, Registered(r1)) /\ Registered(r1).has_event
              /\ Registered(r1).report_error <=> "read" \in r1.flags
          BY <2>4, <2>12, MarkedFacts
        <4>2. PICK q : q = Registered(r1)
          OBVIOUS
        <4>3. /\ Marked(r1, q) /\ q.has_event
              /\ q.report_error <=> "read" \in r1.flags
          BY <4>1, <4>2
        <4>4. Watched(TRUE, q, r1.flags)
          BY <2>4, <2>8, <2>12, <4>3, WantedWatched
        <4> QED BY <4>2, <4>4
      <3>5. Registered(r1).gen = x.fde[f].gen
        BY <1>3, <2>4, MarkedFacts DEF Marked
      <3> QED BY <3>3, <3>4, <3>5 DEF Followed
    <2>13. CASE ~r1.has_event /\ ~Wanted(y0, f)
      <3>1. y = y0
        BY <2>5, <2>7, <2>13
      <3>2. x.epoll[f] = {}
        BY <1>3, <1>6, <1>9, <2>4, <2>13
      <3>3. Touched(x, y, f, r1, {})
        BY <2>6, <3>1, <3>2
      <3>4. Marked(r1, r1)
        BY <2>4 DEF Marked
      <3>5. Watched(TRUE, r1, {})
        BY <2>4, <2>8, <2>13, <3>4, UnwantedWatched
      <3> QED BY <1>3, <2>4, <3>3, <3>5 DEF Followed
    <2> QED BY <2>10, <2>11, <2>12, <2>13
  <1> QED BY <1>8, <1>9

-----------------------------------------------------------------------------
(***************************************************************************)
(* What handlers do to events preserves the invariant.                     *)
(***************************************************************************)
LEMMA RunFacts ==
    ASSUME NEW s \in Frames
    PROVE  /\ s.run[1] = "timer" => s.run[2] \in DOMAIN te /\ s.run # Nothing
           /\ s.run[1] = "fd" => s.run[2] \in Fd /\ s.run # Nothing
           /\ s.run # Nothing => s.run[1] \in {"timer", "fd"}
           /\ s.run = Nothing => s.run[1] = "nothing"
  <1>1. s.run \in Running
    BY DEF Frames
  <1>2. CASE s.run = Nothing
    <2>1. s.run[1] = "nothing"
      BY <1>2 DEF Nothing
    <2> QED BY <1>2, <2>1
  <1>3. ASSUME NEW f \in Fd, s.run = <<"fd", f>>
        PROVE  s.run[1] = "fd" /\ s.run[2] = f /\ s.run # Nothing
    <2>1. s.run[1] = "fd" /\ s.run[2] = f
      BY <1>3
    <2>2. Nothing[1] = "nothing"
      BY DEF Nothing
    <2> QED BY <2>1, <2>2
  <1>4. ASSUME NEW k \in DOMAIN te, s.run = <<"timer", k>>
        PROVE  s.run[1] = "timer" /\ s.run[2] = k /\ s.run # Nothing
    <2>1. s.run[1] = "timer" /\ s.run[2] = k
      BY <1>4
    <2>2. Nothing[1] = "nothing"
      BY DEF Nothing
    <2> QED BY <2>1, <2>2
  <1>5. \/ s.run = Nothing \/ \E f \in Fd : s.run = <<"fd", f>>
        \/ \E k \in DOMAIN te : s.run = <<"timer", k>>
    BY <1>1 DEF Running
  <1> QED BY <1>2, <1>3, <1>4, <1>5

\* No event is freed and no timed event becomes pending again.
Steady ==
    /\ ev'.destruction_count = ev.destruction_count
    /\ \A f : Listed(f) => Listed(f)' /\ fde'[f].gen = fde[f].gen
    /\ \A k \in DOMAIN te : te[k].st # "pending" => te'[k].st # "pending"

LEMMA FetchedKept ==
    ASSUME NEW s \in Frames, Fetched(s), Steady
    PROVE  /\ s.count <= ev'.destruction_count
           /\ s.count = ev'.destruction_count =>
                 \A e \in Range(s.todo) : Listed(e.fd)' /\ fde'[e.fd].gen = e.gen
           /\ s.run[1] = "timer" => te'[s.run[2]].st # "pending"
  <1>1. s.run[1] = "timer" => s.run[2] \in DOMAIN te
    BY RunFacts
  <1>2. s.run[1] = "timer" => te'[s.run[2]].st # "pending"
    BY <1>1 DEF Fetched, Steady
  <1>3. s.count <= ev'.destruction_count
    BY DEF Fetched, Steady
  <1>4. ASSUME s.count = ev'.destruction_count, NEW e \in Range(s.todo)
        PROVE  Listed(e.fd)' /\ fde'[e.fd].gen = e.gen
    <2>1. Listed(e.fd) /\ fde[e.fd].gen = e.gen
      BY <1>4 DEF Fetched, Steady, Current
    <2> QED BY <2>1 DEF Steady
  <1> QED BY <1>2, <1>3, <1>4

LEMMA RoundsKept ==
    ASSUME Typed, Rounds, Steady, UNCHANGED stack
    PROVE  Rounds'
  <1>1. \A i \in DOMAIN stack : stack[i] \in Frames
    BY DEF Typed
  <1>2. ASSUME NEW i \in DOMAIN stack PROVE Fetched(stack[i])'
    <2>1. stack[i] \in Frames /\ Fetched(stack[i])
      BY <1>1 DEF Rounds
    <2>2. PICK s : s = stack[i]
      OBVIOUS
    <2>3. /\ s.count <= ev'.destruction_count
          /\ s.count = ev'.destruction_count =>
                \A e \in Range(s.todo) : Listed(e.fd)' /\ fde'[e.fd].gen = e.gen
          /\ s.run[1] = "timer" => te'[s.run[2]].st # "pending"
      BY <2>1, <2>2, FetchedKept
    <2>4. stack'[i] = s
      BY <2>2
    <2> QED BY <2>3, <2>4 DEF Fetched, Current
  <1> QED BY <1>2 DEF Rounds, Steady

\* The state after an operation that has led to the view y.
Landed(y) ==
    /\ ev'.fd_events = y.ev.fd_events /\ ev'.timed_events = y.ev.timed_events
    /\ ev'.destruction_count = y.ev.destruction_count /\ ev'.epoll_fd = y.ev.epoll_fd
    /\ fde' = y.fde /\ epoll' = y.epoll

LEMMA LandedCounted ==
    ASSUME Typed, Operation, UNCHANGED env, NEW y \in Views, y.ev.ops = ev.ops,
           IsInjective(y.ev.fd_events), Become(Counted(y))
    PROVE  Typed' /\ Landed(y)
  <1>1. y.ev \in Contexts /\ y.fde \in [Fd -> FdEvents] /\ y.epoll \in [Fd -> SUBSET Flags]
    BY DEF Views
  <1>2. Counted(y) = [ev |-> [y.ev EXCEPT !.ops = y.ev.ops + 1], fde |-> y.fde, epoll |-> y.epoll]
    BY DEF Counted, Views
  <1>3. ev' = [y.ev EXCEPT !.ops = y.ev.ops + 1] /\ fde' = y.fde /\ epoll' = y.epoll
    BY <1>2 DEF Become
  <1>4. ev.ops \in 0 .. env.ops /\ ev.ops < env.ops /\ env.ops \in Nat
    BY ScenariosAssumption, BoundsAssumption DEF Typed, Operation, Contexts, Scenario
  <1>5. ev' \in Contexts
    <2>1. y.ev.ops + 1 \in 0 .. env.ops
      BY <1>4
    <2> QED BY <1>1, <1>3, <2>1 DEF Contexts
  <1>6. Landed(y)
    BY <1>1, <1>3 DEF Landed, Contexts
  <1>7. UNCHANGED <<file, now, te, stack, env>>
    BY DEF Operation
  <1>8. /\ fde' \in [Fd -> FdEvents] /\ epoll' \in [Fd -> SUBSET Flags]
        /\ IsInjective(ev'.fd_events)
    BY <1>1, <1>3, <1>6 DEF Landed
  <1>9. Fd' = Fd /\ Contexts' = Contexts /\ Timers' = Timers /\ Frames' = Frames
    BY <1>7 DEF Fd, Contexts, Timers, Frames, Running, Reported
  <1>10. Typed'
    BY <1>5, <1>7, <1>8, <1>9 DEF Typed
  <1> QED BY <1>6, <1>10

\* f is treated as y says, the others stay as they are.
LEMMA WatchKept ==
    ASSUME Typed, Watch, UNCHANGED env, NEW f \in Fd, NEW x \in Views, NEW y, NEW r, NEW w,
           Touched(x, y, f, r, w), Landed(y), x.ev.epoll_fd = ev.epoll_fd,
           \A g \in Fd : g # f =>
              /\ x.fde[g] = fde[g] /\ x.epoll[g] = epoll[g]
              /\ g \in Range(x.ev.fd_events) <=> Listed(g),
           y.ev.epoll_fd => Watched(f \in Range(x.ev.fd_events), r, w)
    PROVE  Watch'
  <1> SUFFICES ASSUME ev'.epoll_fd, NEW g \in Fd
               PROVE  Watched(Listed(g)', fde'[g], epoll'[g])
    BY DEF Watch, Fd
  <1>1. /\ y.ev.epoll_fd /\ x.ev.epoll_fd /\ ev.epoll_fd
        /\ fde' = [x.fde EXCEPT ![f] = r] /\ epoll' = [x.epoll EXCEPT ![f] = w]
        /\ ev'.fd_events = x.ev.fd_events
        /\ x.fde \in [Fd -> FdEvents] /\ x.epoll \in [Fd -> SUBSET Flags]
    BY DEF Landed, Touched, SameLists, Views
  <1>2. Listed(g)' <=> g \in Range(x.ev.fd_events)
    BY <1>1 DEF Listed
  <1>3. CASE g = f
    <2>1. fde'[g] = r /\ epoll'[g] = w
      BY <1>1, <1>3
    <2>2. Watched(f \in Range(x.ev.fd_events), r, w)
      BY <1>1
    <2> QED BY <1>2, <1>3, <2>1, <2>2 DEF Watched
  <1>4. CASE g # f
    <2>1. fde'[g] = fde[g] /\ epoll'[g] = epoll[g] /\ (Listed(g)' <=> Listed(g))
      BY <1>1, <1>2, <1>4
    <2>2. Watched(Listed(g), fde[g], epoll[g])
      BY <1>1 DEF Watch
    <2> QED BY <2>1, <2>2 DEF Watched
  <1> QED BY <1>3, <1>4


LEMMA ViewFacts ==
    ASSUME Typed
    PROVE  /\ View \in Views /\ View.ev = ev /\ View.fde = fde /\ View.epoll = epoll
           /\ ev \in Contexts /\ fde \in [Fd -> FdEvents] /\ epoll \in [Fd -> SUBSET Flags]
  BY DEF Typed, View, Views

LEMMA ScheduledKept ==
    ASSUME Scheduled, UNCHANGED te, ev'.timed_events = ev.timed_events
    PROVE  Scheduled'
  BY DEF Scheduled, Precedes

LEMMA SetFlagsInv ==
    ASSUME IInv, UNCHANGED env, NEW f \in Fd, std_event_set_fd_flags(f)
    PROVE  IInv'
  <1>1. Typed /\ Scheduled /\ Watch /\ Rounds /\ Operation /\ Listed(f)
    BY DEF IInv, std_event_set_fd_flags
  <1>2. PICK x : x = View
    OBVIOUS
  <1>3. /\ x \in Views /\ x.ev = ev /\ x.fde = fde /\ x.epoll = epoll
        /\ ev \in Contexts /\ fde \in [Fd -> FdEvents]
    BY <1>1, <1>2, ViewFacts
  <1>4. PICK flags \in SUBSET Flags :
           \E y \in epoll_change_event([x EXCEPT !.fde[f].flags = flags], f) : Become(Counted(y))
    BY <1>2 DEF std_event_set_fd_flags
  <1>5. PICK y \in epoll_change_event([x EXCEPT !.fde[f].flags = flags], f) : Become(Counted(y))
    BY <1>4
  <1>6. x.ev.epoll_fd => (x.fde[f].has_event <=> x.epoll[f] # {})
    <2>1. ev.epoll_fd => Watched(Listed(f), fde[f], epoll[f])
      BY <1>1 DEF Watch
    <2> QED BY <1>1, <1>3, <2>1 DEF Watched
  <1>7. Followed(x, y, f, x.fde[f])
    BY <1>3, <1>5, <1>6, ChangeFacts
  <1>8. PICK r, w : Touched(x, y, f, r, w) /\ r.gen = x.fde[f].gen /\ (y.ev.epoll_fd => Watched(TRUE, r, w))
    BY <1>7 DEF Followed
  <1>9. /\ y \in Views /\ y.ev.ops = ev.ops /\ y.ev.fd_events = ev.fd_events
        /\ y.ev.timed_events = ev.timed_events
        /\ y.ev.destruction_count = ev.destruction_count
        /\ y.fde = [fde EXCEPT ![f] = r]
    BY <1>3, <1>8 DEF Touched, SameLists
  <1>10. Typed' /\ Landed(y)
    BY <1>1, <1>5, <1>9, LandedCounted DEF Typed
  <1>11. UNCHANGED <<te, stack>>
    BY <1>1 DEF Operation
  <1>12. Scheduled'
    BY <1>1, <1>9, <1>10, <1>11, ScheduledKept DEF Landed
  <1>13. Watch'
    <2>1. f \in Range(x.ev.fd_events)
      BY <1>1, <1>3 DEF Listed
    <2>2. y.ev.epoll_fd => Watched(f \in Range(x.ev.fd_events), r, w)
      BY <1>8, <2>1 DEF Watched
    <2>3. \A g \in Fd : g # f =>
             /\ x.fde[g] = fde[g] /\ x.epoll[g] = epoll[g]
             /\ g \in Range(x.ev.fd_events) <=> Listed(g)
      BY <1>3 DEF Listed
    <2> QED BY <1>1, <1>3, <1>8, <1>10, <2>2, <2>3, WatchKept
  <1>14. Steady
    <2>1. \A g : Listed(g) => Listed(g)' /\ fde'[g].gen = fde[g].gen
      <3> SUFFICES ASSUME NEW g, Listed(g) PROVE Listed(g)' /\ fde'[g].gen = fde[g].gen
        OBVIOUS
      <3>1. Listed(g)'
        BY <1>9, <1>10 DEF Listed, Landed
      <3>2. g \in Fd
        BY <1>3 DEF Listed, Contexts, Range
      <3>3. fde'[g].gen = fde[g].gen
        BY <1>3, <1>8, <1>9, <1>10, <3>2 DEF Landed
      <3> QED BY <3>1, <3>3
    <2> QED BY <1>9, <1>10, <1>11, <2>1 DEF Landed, Steady
  <1>15. Rounds'
    BY <1>1, <1>11, <1>14, RoundsKept
  <1> QED BY <1>10, <1>12, <1>13, <1>15 DEF IInv

LEMMA DestructorInv ==
    ASSUME IInv, UNCHANGED env, NEW f \in Fd, std_event_fd_destructor(f)
    PROVE  IInv'
  <1>1. Typed /\ Scheduled /\ Watch /\ Rounds /\ Operation /\ Listed(f)
    BY DEF IInv, std_event_fd_destructor
  <1>2. PICK list : list = RemoveFirst(ev.fd_events, f)
    OBVIOUS
  <1>3. /\ View \in Views /\ View.ev = ev /\ View.fde = fde /\ View.epoll = epoll
        /\ ev \in Contexts /\ fde \in [Fd -> FdEvents] /\ epoll \in [Fd -> SUBSET Flags]
    BY <1>1, ViewFacts
  <1>4. list \in Seq(Fd) /\ IsInjective(list) /\ Range(list) = Range(ev.fd_events) \ {f}
    <2>1. ev.fd_events \in Seq(Fd) /\ IsInjective(ev.fd_events)
      BY <1>1, <1>3 DEF Typed, Contexts
    <2> QED BY <1>2, <2>1, RemoveFirstFacts
  <1>5. PICK e1 : e1 = [ev EXCEPT !.fd_events = list, !.destruction_count = ev.destruction_count + 1]
    OBVIOUS
  <1>6. /\ e1 \in Contexts /\ e1.fd_events = list /\ e1.timed_events = ev.timed_events
        /\ e1.destruction_count = ev.destruction_count + 1 /\ e1.ops = ev.ops
        /\ e1.epoll_fd = ev.epoll_fd /\ ev.destruction_count \in Nat
    <2>1. ev.destruction_count \in Nat /\ ev.destruction_count + 1 \in Nat
      BY <1>3 DEF Contexts
    <2> QED BY <1>3, <1>4, <1>5, <2>1 DEF Contexts
  <1>7. PICK x : x = [ev |-> e1, fde |-> fde, epoll |-> epoll]
    OBVIOUS
  <1>8. /\ x \in Views /\ x.ev = e1 /\ x.fde = fde /\ x.epoll = epoll
        /\ x.fde[f] \in FdEvents
    BY <1>3, <1>6, <1>7 DEF Views
  <1>9. [View EXCEPT !.ev = [ev EXCEPT !.fd_events = RemoveFirst(ev.fd_events, f),
                                       !.destruction_count = ev.destruction_count + 1]] = x
    BY <1>2, <1>5, <1>7 DEF View
  <1>10. PICK y : y = epoll_del_event(x, f)
    OBVIOUS
  <1>11. Become(Counted(y))
    BY <1>9, <1>10 DEF std_event_fd_destructor
  <1>12. PICK r, w : Touched(x, y, f, r, w) /\ (y.ev.epoll_fd => w = {})
    <2>1. CASE ~x.ev.epoll_fd
      <3>1. y = x
        BY <1>10, <2>1 DEF epoll_del_event
      <3>2. Touched(x, x, f, x.fde[f], {})
        <4>1. x.fde = [x.fde EXCEPT ![f] = x.fde[f]] /\ x.fde[f] \in FdEvents
          BY <1>3, <1>8
        <4> QED BY <1>8, <2>1, <4>1 DEF Touched, SameLists
      <3> QED BY <3>1, <3>2
    <2>2. CASE x.ev.epoll_fd
      <3>1. PICK w : w = IF x.fde[f].has_event THEN {} ELSE x.epoll[f]
        OBVIOUS
      <3>2. Touched(x, y, f, Removed(x.fde[f]), w)
        BY <1>8, <1>10, <2>2, <3>1, DelFacts
      <3>3. Watched(Listed(f), fde[f], epoll[f])
        BY <1>1, <1>6, <1>8, <2>2 DEF Watch
      <3>4. ~fde[f].has_event => epoll[f] = {}
        BY <1>1, <3>3 DEF Watched
      <3>5. w = {}
        BY <1>8, <3>1, <3>4
      <3> QED BY <3>2, <3>5
    <2> QED BY <2>1, <2>2
  <1>13. /\ y \in Views /\ y.ev.ops = ev.ops /\ y.ev.fd_events = list
         /\ y.ev.timed_events = ev.timed_events
         /\ y.ev.destruction_count = ev.destruction_count + 1
    BY <1>6, <1>8, <1>12 DEF Touched, SameLists
  <1>14. Typed' /\ Landed(y)
    BY <1>1, <1>4, <1>11, <1>13, LandedCounted
  <1>15. UNCHANGED <<te, stack>> /\ InHandler
    BY <1>1 DEF Operation
  <1>16. Scheduled'
    BY <1>1, <1>13, <1>14, <1>15, ScheduledKept DEF Landed
  <1>17. Watch'
    <2>1. f \notin Range(x.ev.fd_events)
      BY <1>4, <1>6, <1>8
    <2>2. y.ev.epoll_fd => Watched(f \in Range(x.ev.fd_events), r, w)
      BY <1>12, <2>1 DEF Watched
    <2>3. \A g \in Fd : g # f =>
             /\ x.fde[g] = fde[g] /\ x.epoll[g] = epoll[g]
             /\ g \in Range(x.ev.fd_events) <=> Listed(g)
      BY <1>4, <1>6, <1>8 DEF Listed
    <2>4. x.ev.epoll_fd = ev.epoll_fd
      BY <1>6, <1>8
    <2> QED BY <1>1, <1>8, <1>12, <1>14, <2>2, <2>3, <2>4, WatchKept
  <1>18. Rounds'
    <2>1. ev'.destruction_count = ev.destruction_count + 1
      BY <1>13, <1>14 DEF Landed
    <2>2. ASSUME NEW i \in DOMAIN stack PROVE Fetched(stack[i])'
      <3>1. stack[i] \in Frames /\ stack[i].count \in Nat /\ Fetched(stack[i])
        <4>1. stack \in Seq(Frames)
          BY <1>1 DEF Typed
        <4>2. stack[i] \in Frames
          BY <4>1
        <4> QED BY <1>1, <4>2 DEF Rounds, Frames
      <3>2. /\ stack[i].count <= ev'.destruction_count /\ stack[i].count # ev'.destruction_count
            /\ stack[i].run[1] = "timer" => te[stack[i].run[2]].st # "pending"
        BY <1>6, <2>1, <3>1 DEF Fetched
      <3> QED BY <1>15, <3>2 DEF Fetched
    <2>3. stack # <<>> => stack[Len(stack)].run # Nothing
      BY <1>15 DEF InHandler, Top, Last
    <2> QED BY <1>1, <1>15, <2>2, <2>3 DEF Rounds
  <1> QED BY <1>14, <1>16, <1>17, <1>18 DEF IInv


LEMMA AddFdInv ==
    ASSUME IInv, UNCHANGED env, NEW f \in Fd, std_event_add_fd(f)
    PROVE  IInv'
  <1>1. Typed /\ Scheduled /\ Watch /\ Rounds /\ Operation /\ ~Listed(f)
    BY DEF IInv, std_event_add_fd
  <1>2. PICK list : list = <<f>> \o ev.fd_events
    OBVIOUS
  <1>3. /\ View \in Views /\ View.ev = ev /\ View.fde = fde /\ View.epoll = epoll
        /\ ev \in Contexts /\ fde \in [Fd -> FdEvents] /\ epoll \in [Fd -> SUBSET Flags]
    BY <1>1, ViewFacts
  <1>4. list \in Seq(Fd) /\ IsInjective(list) /\ Range(list) = Range(ev.fd_events) \cup {f}
    <2>1. ev.fd_events \in Seq(Fd) /\ IsInjective(ev.fd_events) /\ f \notin Range(ev.fd_events)
      BY <1>1, <1>3 DEF Typed, Contexts, Listed
    <2> QED BY <1>2, <2>1, AddFacts
  <1>5. PICK e1 : e1 = [ev EXCEPT !.fd_events = list]
    OBVIOUS
  <1>6. /\ e1 \in Contexts /\ e1.fd_events = list /\ e1.timed_events = ev.timed_events
        /\ e1.destruction_count = ev.destruction_count /\ e1.ops = ev.ops
        /\ e1.epoll_fd = ev.epoll_fd
    BY <1>3, <1>4, <1>5 DEF Contexts
  <1>7. PICK flags \in SUBSET Flags :
           \E y \in epoll_add_event(
                      [ev |-> [ev EXCEPT !.fd_events = <<f>> \o ev.fd_events],
                       fde |-> [fde EXCEPT ![f] = [gen |-> fde[f].gen + 1, flags |-> flags,
                                                   has_event |-> FALSE, report_error |-> FALSE,
                                                   got_error |-> FALSE]],
                       epoll |-> epoll], f) :
              Become(Counted(y))
    BY DEF std_event_add_fd
  <1>8. PICK q : q = [gen |-> fde[f].gen + 1, flags |-> flags, has_event |-> FALSE,
                      report_error |-> FALSE, got_error |-> FALSE]
    OBVIOUS
  <1>9. /\ q \in FdEvents /\ q.flags = flags /\ ~q.has_event /\ ~q.report_error /\ ~q.got_error
    <2>1. fde[f].gen + 1 \in Nat
      BY <1>3 DEF FdEvents
    <2> QED BY <1>8, <2>1 DEF FdEvents
  <1>10. PICK x : x = [ev |-> e1, fde |-> [fde EXCEPT ![f] = q], epoll |-> epoll]
    OBVIOUS
  <1>11. /\ x \in Views /\ x.ev = e1 /\ x.fde = [fde EXCEPT ![f] = q] /\ x.epoll = epoll
         /\ x.fde[f] = q
    BY <1>3, <1>6, <1>9, <1>10 DEF Views
  <1>12. [ev |-> [ev EXCEPT !.fd_events = <<f>> \o ev.fd_events],
          fde |-> [fde EXCEPT ![f] = q], epoll |-> epoll] = x
    BY <1>2, <1>5, <1>10
  <1>13. PICK y \in epoll_add_event(x, f) : Become(Counted(y))
    BY <1>7, <1>8, <1>12
  <1>14. PICK r, w : Touched(x, y, f, r, w) /\ (y.ev.epoll_fd => Watched(TRUE, r, w))
    <2>1. Touched(x, x, f, q, x.epoll[f])
      <3>1. /\ x.fde = [x.fde EXCEPT ![f] = q] /\ x.epoll = [x.epoll EXCEPT ![f] = x.epoll[f]]
            /\ x.epoll[f] \in SUBSET Flags
        BY <1>3, <1>9, <1>11 DEF Views
      <3> QED BY <1>9, <1>11, <3>1 DEF Touched, SameLists
    <2>2. CASE ~x.ev.epoll_fd
      <3>1. y = x
        BY <1>13, <2>2 DEF epoll_add_event
      <3> QED BY <2>1, <2>2, <3>1
    <2>3. CASE x.ev.epoll_fd /\ flags # {}
      <3>1. Touched(x, y, f, Registered(q), flags)
        BY <1>9, <1>11, <1>13, <2>3, AddFdFacts
      <3>2. PICK r : r = Registered(q)
        OBVIOUS
      <3>3. Marked(q, r) /\ r.has_event /\ (r.report_error <=> "read" \in q.flags)
        BY <1>9, <3>2, MarkedFacts
      <3>4. "read" \in q.flags \/ ("write" \in q.flags /\ ~q.got_error)
        BY <1>9, <2>3 DEF Flags
      <3>5. Watched(TRUE, r, flags)
        BY <1>9, <3>3, <3>4, WantedWatched
      <3> QED BY <3>1, <3>2, <3>5
    <2>4. CASE x.ev.epoll_fd /\ flags = {}
      <3>1. y = [x EXCEPT !.fde[f].report_error = FALSE]
        BY <1>9, <1>11, <1>13, <2>4 DEF epoll_add_event
      <3>2. PICK r : r = Muted(q)
        OBVIOUS
      <3>3. Marked(q, r) /\ ~r.has_event /\ ~r.report_error /\ r \in FdEvents
        BY <1>9, <3>2, MarkedFacts DEF Marked
      <3>4. y = Written(x, f, r)
        BY <1>11, <3>1, <3>2, MuteFacts
      <3>5. Touched(x, y, f, r, x.epoll[f])
        BY <1>11, <3>3, <3>4, WrittenFacts
      <3>6. epoll[f] = {}
        <4>1. Watched(Listed(f), fde[f], epoll[f])
          BY <1>1, <1>6, <1>11, <2>4 DEF Watch
        <4> QED BY <1>1, <4>1 DEF Watched
      <3>7. ~("read" \in q.flags \/ ("write" \in q.flags /\ ~q.got_error))
        BY <1>9, <2>4
      <3>8. Watched(TRUE, r, {})
        BY <1>9, <3>3, <3>7, UnwantedWatched
      <3> QED BY <1>11, <3>5, <3>6, <3>8
    <2> QED BY <2>2, <2>3, <2>4
  <1>15. /\ y \in Views /\ y.ev.ops = ev.ops /\ y.ev.fd_events = list
         /\ y.ev.timed_events = ev.timed_events
         /\ y.ev.destruction_count = ev.destruction_count
         /\ y.fde = [x.fde EXCEPT ![f] = r]
    BY <1>6, <1>11, <1>14 DEF Touched, SameLists
  <1>16. Typed' /\ Landed(y)
    BY <1>1, <1>4, <1>13, <1>15, LandedCounted
  <1>17. UNCHANGED <<te, stack>>
    BY <1>1 DEF Operation
  <1>18. Scheduled'
    BY <1>1, <1>15, <1>16, <1>17, ScheduledKept DEF Landed
  <1>19. Watch'
    <2>1. f \in Range(x.ev.fd_events)
      BY <1>4, <1>6, <1>11
    <2>2. y.ev.epoll_fd => Watched(f \in Range(x.ev.fd_events), r, w)
      BY <1>14, <2>1 DEF Watched
    <2>3. \A g \in Fd : g # f =>
             /\ x.fde[g] = fde[g] /\ x.epoll[g] = epoll[g]
             /\ g \in Range(x.ev.fd_events) <=> Listed(g)
      BY <1>3, <1>4, <1>6, <1>11 DEF Listed
    <2>4. x.ev.epoll_fd = ev.epoll_fd
      BY <1>6, <1>11
    <2> QED BY <1>1, <1>11, <1>14, <1>16, <2>2, <2>3, <2>4, WatchKept
  <1>20. Steady
    <2>1. \A g : Listed(g) => Listed(g)' /\ fde'[g].gen = fde[g].gen
      <3> SUFFICES ASSUME NEW g, Listed(g) PROVE Listed(g)' /\ fde'[g].gen = fde[g].gen
        OBVIOUS
      <3>1. Listed(g)'
        BY <1>4, <1>15, <1>16 DEF Listed, Landed
      <3>2. g \in Fd /\ g # f
        BY <1>1, <1>3 DEF Listed, Contexts, Range
      <3>3. fde'[g] = fde[g]
        BY <1>3, <1>11, <1>15, <1>16, <3>2 DEF Landed
      <3> QED BY <3>1, <3>3
    <2> QED BY <1>15, <1>16, <1>17, <2>1 DEF Landed, Steady
  <1>21. Rounds'
    BY <1>1, <1>17, <1>20, RoundsKept
  <1> QED BY <1>16, <1>18, <1>19, <1>21 DEF IInv

\* Where the context keeps everything but its timed events.
LEMMA WatchSame ==
    ASSUME Watch, UNCHANGED <<env, epoll>>, ev'.epoll_fd = ev.epoll_fd,
           ev'.fd_events = ev.fd_events, UNCHANGED fde
    PROVE  Watch'
  BY DEF Watch, Listed, Fd

\* The new event k for time at is inserted at i, in front of the first event
\* that is later.
Inserted(at, i, k) ==
    /\ i \in 1 .. Len(ev.timed_events) + 1
    /\ k = Len(te) + 1 /\ te' = Append(te, [at |-> at, st |-> "pending"])
    /\ ev'.timed_events = InsertAt(ev.timed_events, i, k)
    /\ \A j \in 1 .. i - 1 : te[ev.timed_events[j]].at <= at
    /\ \A j \in i .. Len(ev.timed_events) : at < te[ev.timed_events[j]].at

LEMMA InsertScheduled ==
    ASSUME Typed, Scheduled, NEW at \in Nat, NEW i, NEW k, Inserted(at, i, k)
    PROVE  Scheduled' /\ ev'.timed_events \in Seq(DOMAIN te')
  <1>1. PICK l : l = ev.timed_events
    OBVIOUS
  <1>2. PICK m : m = ev'.timed_events
    OBVIOUS
  <1>3. PICK n : n = Len(l)
    OBVIOUS
  <1>4. te \in Seq(Timers) /\ l \in Seq(DOMAIN te) /\ Len(te) \in Nat /\ DOMAIN te = 1 .. Len(te)
    BY <1>1 DEF Typed, Contexts
  <1>5. n \in Nat /\ DOMAIN l = 1 .. n /\ i \in 1 .. n + 1
    BY <1>1, <1>3, <1>4 DEF Inserted
  <1>6. /\ DOMAIN te' = 1 .. Len(te) + 1 /\ te'[k].at = at /\ te'[k].st = "pending"
        /\ \A j \in DOMAIN te : te'[j] = te[j]
    <2>1. PICK r : r = [at |-> at, st |-> "pending"]
      OBVIOUS
    <2>2. r.at = at /\ r.st = "pending" /\ te' = Append(te, r) /\ k = Len(te) + 1
      BY <2>1 DEF Inserted
    <2>3. /\ DOMAIN te' = 1 .. Len(te) + 1 /\ te'[k] = r
          /\ \A j \in DOMAIN te : te'[j] = te[j]
      BY <1>4, <2>2
    <2> QED BY <2>2, <2>3
  <1>7. k \in DOMAIN te' /\ k \notin DOMAIN te /\ DOMAIN te \subseteq DOMAIN te'
        /\ \A j \in DOMAIN te : j < k
    BY <1>4, <1>6 DEF Inserted
  <1>8. l \in Seq(DOMAIN te')
    BY <1>4, <1>7
  <1>9. /\ m \in Seq(DOMAIN te') /\ Len(m) = n + 1
        /\ \A j \in 1 .. n + 1 : m[j] = IF j < i THEN l[j] ELSE IF j = i THEN k ELSE l[j - 1]
    <2>1. m = InsertAt(l, i, k)
      BY <1>1, <1>2 DEF Inserted
    <2>2. PICK D : D = DOMAIN te'
      OBVIOUS
    <2>3. l \in Seq(D) /\ k \in D /\ i \in 1 .. Len(l) + 1
      BY <1>3, <1>5, <1>7, <1>8, <2>2
    <2>4. m \in Seq(D) /\ Placed(l, i, k, m)
      BY <2>1, <2>3, InsertAtFacts
    <2>5. /\ Len(m) = Len(l) + 1
          /\ \A j \in 1 .. Len(l) + 1 :
                m[j] = IF j < i THEN l[j] ELSE IF j = i THEN k ELSE l[j - 1]
      BY <2>4 DEF Placed
    <2> QED BY <1>3, <2>2, <2>4, <2>5
  <1>10. DOMAIN m = 1 .. n + 1
    BY <1>5, <1>9
  <1>11. \A j \in 1 .. n : l[j] \in DOMAIN te
    BY <1>4, <1>5
  <1>12. IsInjective(m)
    <2> SUFFICES ASSUME NEW a \in 1 .. n + 1, NEW b \in 1 .. n + 1, m[a] = m[b]
                 PROVE  a = b
      BY <1>10 DEF IsInjective
    <2>1. \A a1, b1 \in 1 .. n : l[a1] = l[b1] => a1 = b1
      BY <1>1, <1>5 DEF Scheduled, IsInjective
    <2>2. PICK a1 : a1 = IF a < i THEN a ELSE a - 1
      OBVIOUS
    <2>3. PICK b1 : b1 = IF b < i THEN b ELSE b - 1
      OBVIOUS
    <2>4. a # i => a1 \in 1 .. n /\ m[a] = l[a1]
      BY <1>5, <1>9, <2>2
    <2>5. b # i => b1 \in 1 .. n /\ m[b] = l[b1]
      BY <1>5, <1>9, <2>3
    <2>6. m[i] = k
      BY <1>5, <1>9
    <2>7. CASE a = i \/ b = i
      BY <1>7, <1>11, <2>4, <2>5, <2>6, <2>7
    <2>8. CASE a # i /\ b # i
      BY <1>5, <2>1, <2>2, <2>3, <2>4, <2>5, <2>8
    <2> QED BY <2>7, <2>8
  <1>13. Range(m) = {j \in DOMAIN te' : te'[j].st = "pending"}
    <2>1. Range(l) = {j \in DOMAIN te : te[j].st = "pending"}
      BY <1>1 DEF Scheduled
    <2>2. \A j : j \in {h \in DOMAIN te' : te'[h].st = "pending"} <=> j \in Range(l) \/ j = k
      BY <1>4, <1>6, <1>7, <2>1
    <2>3. ASSUME NEW j \in Range(m) PROVE j \in Range(l) \/ j = k
      <3>1. PICK a \in 1 .. n + 1 : j = m[a]
        BY <1>10, <2>3 DEF Range
      <3>2. CASE a < i
        <4>1. a \in DOMAIN l /\ m[a] = l[a]
          BY <1>5, <1>9, <3>2
        <4> QED BY <3>1, <4>1 DEF Range
      <3>3. CASE a > i
        <4>1. a - 1 \in 1 .. n /\ m[a] = l[a - 1]
          BY <1>5, <1>9, <3>3
        <4> QED BY <1>5, <3>1, <4>1 DEF Range
      <3>4. CASE a = i
        BY <1>5, <1>9, <3>1, <3>4
      <3> QED BY <1>5, <3>2, <3>3, <3>4
    <2>4. k \in Range(m)
      <3>1. i \in DOMAIN m /\ m[i] = k
        BY <1>5, <1>9, <1>10
      <3> QED BY <3>1 DEF Range
    <2>5. ASSUME NEW j \in Range(l) PROVE j \in Range(m)
      <3>1. PICK a \in 1 .. n : j = l[a]
        BY <1>5, <2>5 DEF Range
      <3>2. CASE a < i
        <4>1. a \in DOMAIN m /\ m[a] = j
          BY <1>5, <1>9, <1>10, <3>1, <3>2
        <4> QED BY <4>1 DEF Range
      <3>3. CASE ~(a < i)
        <4>1. a + 1 \in 1 .. n + 1 /\ ~(a + 1 < i) /\ a + 1 # i /\ (a + 1) - 1 = a
          BY <1>5, <3>3
        <4>2. a + 1 \in DOMAIN m /\ m[a + 1] = j
          BY <1>9, <1>10, <3>1, <4>1
        <4> QED BY <4>2 DEF Range
      <3> QED BY <3>2, <3>3
    <2> QED BY <2>2, <2>3, <2>4, <2>5
  <1>14. \A a, b \in 1 .. n : a < b =>
            te[l[a]].at < te[l[b]].at \/ (te[l[a]].at = te[l[b]].at /\ l[a] < l[b])
    BY <1>1, <1>5 DEF Scheduled, Precedes
  <1>15. ASSUME NEW a \in 1 .. n + 1, NEW b \in 1 .. n + 1, a < b
         PROVE  te'[m[a]].at < te'[m[b]].at \/ (te'[m[a]].at = te'[m[b]].at /\ m[a] < m[b])
    <2>1. CASE b = i
      <3>1. m[b] = k /\ m[a] = l[a] /\ a \in 1 .. n
        BY <1>5, <1>9, <1>15, <2>1
      <3>2. te[l[a]].at <= at /\ l[a] \in DOMAIN te
        BY <1>1, <1>5, <1>11, <1>15, <2>1, <3>1 DEF Inserted
      <3>3. te[l[a]].at \in Nat
        <4>1. te[l[a]] \in Timers
          BY <1>4, <3>2
        <4> QED BY <4>1 DEF Timers
      <3> QED BY <1>6, <1>7, <3>1, <3>2, <3>3
    <2>2. CASE a = i
      <3>1. m[a] = k /\ m[b] = l[b - 1] /\ b - 1 \in i .. n
        BY <1>5, <1>9, <1>15, <2>2
      <3>2. at < te[l[b - 1]].at /\ l[b - 1] \in DOMAIN te
        BY <1>1, <1>3, <1>5, <1>11, <3>1 DEF Inserted
      <3> QED BY <1>6, <3>1, <3>2
    <2>3. CASE a # i /\ b # i
      <3>1. PICK a1 : a1 = IF a < i THEN a ELSE a - 1
        OBVIOUS
      <3>2. PICK b1 : b1 = IF b < i THEN b ELSE b - 1
        OBVIOUS
      <3>3. a1 \in 1 .. n /\ m[a] = l[a1]
        BY <1>5, <1>9, <2>3, <3>1
      <3>4. b1 \in 1 .. n /\ m[b] = l[b1]
        <4>1. CASE b < i
          BY <1>5, <1>9, <3>2, <4>1
        <4>2. CASE b > i
          <5>1. b1 = b - 1 /\ b - 1 \in 1 .. n /\ ~(b < i)
            BY <1>5, <3>2, <4>2
          <5> QED BY <1>9, <2>3, <5>1
        <4> QED BY <1>5, <2>3, <4>1, <4>2
      <3>5. a1 < b1
        BY <1>5, <1>15, <2>3, <3>1, <3>2
      <3>6. te[l[a1]].at < te[l[b1]].at \/ (te[l[a1]].at = te[l[b1]].at /\ l[a1] < l[b1])
        BY <1>14, <3>3, <3>4, <3>5
      <3>7. te'[l[a1]] = te[l[a1]] /\ te'[l[b1]] = te[l[b1]]
        BY <1>6, <1>11, <3>3, <3>4
      <3> QED BY <3>3, <3>4, <3>6, <3>7
    <2> QED BY <2>1, <2>2, <2>3
  <1>16. Scheduled'
    <2>1. \A a, b \in DOMAIN m : a < b =>
             te'[m[a]].at < te'[m[b]].at \/ (te'[m[a]].at = te'[m[b]].at /\ m[a] < m[b])
      BY <1>10, <1>15
    <2> QED BY <1>2, <1>12, <1>13, <2>1 DEF Scheduled, Precedes
  <1> QED BY <1>2, <1>9, <1>16


\* A stack is typed as before when the timed events are more than before.
LEMMA StackTyped ==
    ASSUME Typed, UNCHANGED env, DOMAIN te \subseteq DOMAIN te'
    PROVE  stack \in Seq(Frames')
  <1>1. Running \subseteq Running' /\ Reported' = Reported
    BY DEF Running, Reported, Fd
  <1>2. Frames \subseteq Frames'
    BY <1>1 DEF Frames
  <1> QED BY <1>2 DEF Typed

LEMMA AddTimedInv ==
    ASSUME IInv, UNCHANGED env, std_event_add_timed
    PROVE  IInv'
  <1>1. /\ Typed /\ Scheduled /\ Watch /\ Rounds /\ UNCHANGED <<fde, epoll, file, now, stack>>
    BY DEF IInv, std_event_add_timed
  <1>2. PICK l : l = ev.timed_events
    OBVIOUS
  <1>3. PICK k : k = Len(te) + 1
    OBVIOUS
  <1>4. PICK at \in {0} \cup (now + 1 .. env.time) :
           LET later == {j \in DOMAIN ev.timed_events : Before(at, ev.timed_events[j])}
               i == IF later = {} THEN Len(ev.timed_events) + 1 ELSE Min(later)
           IN  /\ ev' = [ev EXCEPT !.timed_events = InsertAt(ev.timed_events, i, Len(te) + 1)]
               /\ te' = Append(te, [at |-> at, st |-> "pending"])
    BY DEF std_event_add_timed
  <1>5. PICK later : later = {j \in DOMAIN l : Before(at, l[j])}
    OBVIOUS
  <1>6. PICK i : i = IF later = {} THEN Len(l) + 1 ELSE Min(later)
    OBVIOUS
  <1>7. /\ ev' = [ev EXCEPT !.timed_events = InsertAt(l, i, k)]
        /\ te' = Append(te, [at |-> at, st |-> "pending"])
    BY <1>2, <1>3, <1>4, <1>5, <1>6
  <1>8. /\ ev \in Contexts /\ l \in Seq(DOMAIN te) /\ te \in Seq(Timers)
        /\ now \in 1 .. env.time /\ env.time \in Nat
    BY <1>1, <1>2, ScenariosAssumption, BoundsAssumption DEF Typed, Contexts, Scenario
  <1>9. at \in 0 .. env.time /\ at \in Nat
    BY <1>8
  <1>10. /\ ev'.timed_events = InsertAt(l, i, k) /\ ev'.fd_events = ev.fd_events
         /\ ev'.destruction_count = ev.destruction_count /\ ev'.epoll_fd = ev.epoll_fd
         /\ ev'.ops = ev.ops
    BY <1>7, <1>8 DEF Contexts
  <1>11. Inserted(at, i, k)
    <2>1. DOMAIN l = 1 .. Len(l) /\ Len(l) \in Nat
      BY <1>8
    <2>2. \A j \in 1 .. Len(l) : l[j] \in DOMAIN te /\ te[l[j]].at \in Nat
      <3> SUFFICES ASSUME NEW j \in 1 .. Len(l) PROVE l[j] \in DOMAIN te /\ te[l[j]].at \in Nat
        OBVIOUS
      <3>1. l[j] \in DOMAIN te
        BY <1>8, <2>1
      <3>2. te[l[j]] \in Timers
        BY <1>8, <3>1
      <3> QED BY <3>1, <3>2 DEF Timers
    <2>3. \A j \in 1 .. Len(l) : j \in later <=> at < te[l[j]].at
      BY <1>5, <1>9, <2>1, <2>2 DEF Before
    <2>4. \A a, b \in 1 .. Len(l) : a < b => te[l[a]].at <= te[l[b]].at
      <3> SUFFICES ASSUME NEW a \in 1 .. Len(l), NEW b \in 1 .. Len(l), a < b
                   PROVE  te[l[a]].at <= te[l[b]].at
        OBVIOUS
      <3>1. te[l[a]].at < te[l[b]].at \/ te[l[a]].at = te[l[b]].at
        BY <1>1, <1>2, <2>1 DEF Scheduled, Precedes
      <3> QED BY <2>2, <3>1
    <2>5. later \in SUBSET Nat /\ later \subseteq 1 .. Len(l)
      BY <1>5, <2>1
    <2>6. CASE later = {}
      <3>1. i = Len(l) + 1
        BY <1>6, <2>6
      <3>2. \A j \in 1 .. Len(l) : te[l[j]].at <= at
        BY <1>9, <2>2, <2>3, <2>6
      <3> QED BY <1>2, <1>3, <1>7, <1>10, <2>1, <3>1, <3>2 DEF Inserted
    <2>7. CASE later # {}
      <3>1. i \in later /\ \A j \in later : i <= j
        BY <1>6, <2>5, <2>7, MinFacts
      <3>2. i \in 1 .. Len(l)
        BY <2>5, <3>1
      <3>3. \A j \in 1 .. i - 1 : te[l[j]].at <= at
        <4> SUFFICES ASSUME NEW j \in 1 .. i - 1 PROVE te[l[j]].at <= at
          OBVIOUS
        <4>1. j \in 1 .. Len(l) /\ ~(i <= j)
          BY <2>1, <3>2
        <4>2. j \notin later
          BY <3>1, <4>1
        <4> QED BY <1>9, <2>2, <2>3, <4>1, <4>2
      <3>4. \A j \in i .. Len(l) : at < te[l[j]].at
        <4> SUFFICES ASSUME NEW j \in i .. Len(l) PROVE at < te[l[j]].at
          OBVIOUS
        <4>1. at < te[l[i]].at
          BY <2>3, <3>1, <3>2
        <4>2. j \in 1 .. Len(l) /\ (i < j \/ i = j)
          BY <2>1, <3>2
        <4>3. i < j => te[l[i]].at <= te[l[j]].at
          BY <2>4, <3>2, <4>2
        <4> QED BY <1>9, <2>2, <3>2, <4>1, <4>2, <4>3
      <3> QED BY <1>2, <1>3, <1>7, <1>10, <2>1, <3>2, <3>3, <3>4 DEF Inserted
    <2> QED BY <2>6, <2>7
  <1>12. Scheduled' /\ ev'.timed_events \in Seq(DOMAIN te')
    BY <1>1, <1>9, <1>11, InsertScheduled
  <1>13. te' \in Seq(Timers) /\ DOMAIN te \subseteq DOMAIN te' /\ \A j \in DOMAIN te : te'[j] = te[j]
    <2>1. PICK r : r = [at |-> at, st |-> "pending"]
      OBVIOUS
    <2>2. r \in Timers
      BY <1>9, <2>1 DEF Timers
    <2>3. te' = Append(te, r)
      BY <1>7, <2>1
    <2> QED BY <1>8, <2>2, <2>3
  <1>14. Typed'
    <2>1. PICK m : m = ev'.timed_events
      OBVIOUS
    <2>2. m \in Seq(DOMAIN te')
      BY <1>12, <2>1
    <2>3. ev' = [ev EXCEPT !.timed_events = m]
      BY <1>7, <1>10, <2>1
    <2>4. ev' \in Contexts'
      BY <1>8, <2>2, <2>3 DEF Contexts, Fd
    <2>5. stack' \in Seq(Frames')
      BY <1>1, <1>13, StackTyped
    <2>6. Timers' = Timers /\ Fd' = Fd
      BY DEF Timers, Fd
    <2> QED BY <1>1, <1>10, <1>13, <2>4, <2>5, <2>6 DEF Typed
  <1>15. Watch'
    BY <1>1, <1>10, WatchSame
  <1>16. Steady
    BY <1>1, <1>10, <1>13 DEF Steady, Listed
  <1>17. Rounds'
    BY <1>1, <1>16, RoundsKept
  <1> QED BY <1>12, <1>14, <1>15, <1>17 DEF IInv

\* The event k leaves the list and is no longer pending.
Dropped(k, l) ==
    /\ ev' = [ev EXCEPT !.timed_events = l]
    /\ l \in Seq(DOMAIN te) /\ IsInjective(l) /\ Range(l) = Range(ev.timed_events) \ {k}
    /\ \A i, j \in DOMAIN l : i < j =>
          \E a, b \in DOMAIN ev.timed_events :
              a < b /\ l[i] = ev.timed_events[a] /\ l[j] = ev.timed_events[b]

LEMMA DroppedScheduled ==
    ASSUME Typed, Scheduled, Watch, UNCHANGED <<env, fde, epoll, file, now>>,
           NEW k \in DOMAIN te, NEW st \in {"running", "freed"},
           te' = [te EXCEPT ![k].st = st], NEW l, Dropped(k, l), stack' \in Seq(Frames)
    PROVE  Typed' /\ Scheduled' /\ Watch' /\ Steady
  <1>1. ev \in Contexts /\ te \in Seq(Timers) /\ te[k] \in Timers
    BY DEF Typed
  <1>2. PICK r : r = [te[k] EXCEPT !.st = st]
    OBVIOUS
  <1>3. r \in Timers /\ r.at = te[k].at /\ r.st = st /\ te' = [te EXCEPT ![k] = r]
    BY <1>1, <1>2 DEF Timers
  <1>4. /\ te' \in Seq(Timers) /\ DOMAIN te' = DOMAIN te
        /\ \A j \in DOMAIN te : te'[j].at = te[j].at
        /\ \A j \in DOMAIN te : j # k => te'[j].st = te[j].st
        /\ te'[k].st = st
    BY <1>1, <1>3
  <1>5. /\ ev' \in Contexts /\ ev'.timed_events = l /\ ev'.fd_events = ev.fd_events
        /\ ev'.destruction_count = ev.destruction_count /\ ev'.epoll_fd = ev.epoll_fd
    BY <1>1 DEF Dropped, Contexts
  <1>6. Contexts' = Contexts /\ Frames' = Frames /\ Timers' = Timers /\ Fd' = Fd
    BY <1>4 DEF Contexts, Frames, Running, Reported, Timers, Fd
  <1>7. Typed'
    BY <1>4, <1>5, <1>6 DEF Typed
  <1>8. Watch'
    BY <1>5, WatchSame
  <1>9. Steady
    <2>1. \A j \in DOMAIN te : te[j].st # "pending" => te'[j].st # "pending"
      BY <1>4
    <2> QED BY <1>5, <2>1 DEF Steady, Listed
  <1>10. Range(l) = {j \in DOMAIN te' : te'[j].st = "pending"}
    <2>1. Range(ev.timed_events) = {j \in DOMAIN te : te[j].st = "pending"}
      BY DEF Scheduled
    <2>2. \A j \in DOMAIN te : j # k => (te'[j].st = "pending" <=> te[j].st = "pending")
      BY <1>4
    <2>3. te'[k].st # "pending"
      BY <1>4
    <2>4. Range(l) = Range(ev.timed_events) \ {k}
      BY DEF Dropped
    <2> QED BY <1>4, <2>1, <2>2, <2>3, <2>4
  <1>11. ASSUME NEW i \in DOMAIN l, NEW j \in DOMAIN l, i < j
         PROVE  Precedes(l[i], l[j])'
    <2>1. PICK a \in DOMAIN ev.timed_events, b \in DOMAIN ev.timed_events :
             a < b /\ l[i] = ev.timed_events[a] /\ l[j] = ev.timed_events[b]
      BY <1>11 DEF Dropped
    <2>2. te[l[i]].at < te[l[j]].at \/ (te[l[i]].at = te[l[j]].at /\ l[i] < l[j])
      BY <2>1 DEF Scheduled, Precedes
    <2>3. l[i] \in DOMAIN te /\ l[j] \in DOMAIN te
      BY DEF Dropped
    <2>4. te'[l[i]].at = te[l[i]].at /\ te'[l[j]].at = te[l[j]].at
      BY <1>4, <2>3
    <2> QED BY <2>2, <2>4 DEF Precedes
  <1>12. Scheduled'
    <2>1. IsInjective(l)
      BY DEF Dropped
    <2> QED BY <1>5, <1>10, <1>11, <2>1 DEF Scheduled
  <1> QED BY <1>7, <1>8, <1>9, <1>12

LEMMA TimedDestructorInv ==
    ASSUME IInv, UNCHANGED env, NEW k \in DOMAIN te, std_event_timed_destructor(k)
    PROVE  IInv'
  <1>1. /\ Typed /\ Scheduled /\ Watch /\ Rounds /\ UNCHANGED <<fde, epoll, file, now, stack>>
        /\ te' = [te EXCEPT ![k].st = "freed"]
        /\ ev' = [ev EXCEPT !.timed_events = RemoveFirst(ev.timed_events, k)]
    BY DEF IInv, std_event_timed_destructor
  <1>2. PICK l : l = RemoveFirst(ev.timed_events, k)
    OBVIOUS
  <1>3. ev.timed_events \in Seq(DOMAIN te) /\ IsInjective(ev.timed_events)
    BY <1>1 DEF Typed, Contexts, Scheduled
  <1>4. l \in Seq(DOMAIN te) /\ IsInjective(l) /\ Range(l) = Range(ev.timed_events) \ {k}
    BY <1>2, <1>3, RemoveFirstFacts
  <1>5. ASSUME NEW i \in DOMAIN l, NEW j \in DOMAIN l, i < j
        PROVE  \E a, b \in DOMAIN ev.timed_events :
                  a < b /\ l[i] = ev.timed_events[a] /\ l[j] = ev.timed_events[b]
    BY <1>2, <1>3, <1>5, RemoveFirstOrder
  <1>6. Dropped(k, l)
    BY <1>1, <1>2, <1>4, <1>5 DEF Dropped
  <1>7. stack' \in Seq(Frames)
    BY <1>1 DEF Typed
  <1>8. Typed' /\ Scheduled' /\ Watch' /\ Steady
    BY <1>1, <1>6, <1>7, DroppedScheduled
  <1>9. Rounds'
    BY <1>1, <1>8, RoundsKept
  <1> QED BY <1>8, <1>9 DEF IInv

-----------------------------------------------------------------------------
(***************************************************************************)
(* The loop: rounds begin, call handlers and end.                          *)
(***************************************************************************)
LEMMA LoopFacts ==
    ASSUME Typed, CanLoop
    PROVE  stack = <<>> \/ (stack # <<>> /\ stack[Len(stack)].run # Nothing)
  BY DEF CanLoop, InHandler, Top, Last, Typed

\* A round that has just begun with the frame s.
Begun(s) ==
    /\ s \in Frames /\ stack' = Append(stack, s)
    /\ s.count = ev.destruction_count
    /\ \A e \in Range(s.todo) : Current(e)
    /\ s.run[1] = "timer" => te'[s.run[2]].st # "pending"
    /\ s.run = Nothing => s.todo # <<>>

LEMMA BeginRounds ==
    ASSUME Typed, Rounds, CanLoop, Steady, NEW s, Begun(s)
    PROVE  Rounds'
  <1>1. stack \in Seq(Frames) /\ s \in Frames /\ stack' = Append(stack, s)
    BY DEF Typed, Begun
  <1>2. PICK n : n = Len(stack)
    OBVIOUS
  <1>3. /\ n \in Nat /\ DOMAIN stack = 1 .. n /\ DOMAIN stack' = 1 .. n + 1
        /\ Len(stack') = n + 1 /\ stack'[n + 1] = s
        /\ \A i \in 1 .. n : stack'[i] = stack[i] /\ stack[i] \in Frames
    BY <1>1, <1>2
  <1>4. ASSUME NEW i \in 1 .. n + 1 PROVE Fetched(stack[i])'
    <2>1. CASE i \in 1 .. n
      <3>1. PICK q : q = stack[i]
        OBVIOUS
      <3>2. q \in Frames /\ Fetched(q) /\ stack'[i] = q
        BY <1>3, <2>1, <3>1 DEF Rounds
      <3>3. /\ q.count <= ev'.destruction_count
            /\ q.count = ev'.destruction_count =>
                  \A e \in Range(q.todo) : Listed(e.fd)' /\ fde'[e.fd].gen = e.gen
            /\ q.run[1] = "timer" => te'[q.run[2]].st # "pending"
        BY <3>2, FetchedKept
      <3> QED BY <3>2, <3>3 DEF Fetched, Current
    <2>2. CASE i = n + 1
      <3>1. stack'[i] = s /\ s.count \in Nat /\ s.count = ev'.destruction_count
        BY <1>1, <1>3, <2>2 DEF Begun, Steady, Frames
      <3>2. \A e \in Range(s.todo) : Listed(e.fd)' /\ fde'[e.fd].gen = e.gen
        BY DEF Begun, Steady, Current
      <3>3. s.run[1] = "timer" => te'[s.run[2]].st # "pending"
        BY DEF Begun
      <3> QED BY <3>1, <3>2, <3>3 DEF Fetched, Current
    <2> QED BY <1>3, <2>1, <2>2
  <1>5. ASSUME NEW i \in 1 .. n PROVE stack[i].run # Nothing
    <2>1. CASE i # n
      BY <1>2, <1>3, <2>1 DEF Rounds
    <2>2. CASE i = n
      <3>1. stack # <<>>
        BY <1>2, <1>3
      <3> QED BY <1>2, <2>2, <3>1, LoopFacts
    <2> QED BY <2>1, <2>2
  <1>6. \A i \in DOMAIN stack' : i # Len(stack') => stack'[i].run # Nothing
    BY <1>3, <1>5
  <1>7. s.run = Nothing => s.count = ev'.destruction_count /\ s.todo # <<>>
    BY DEF Begun, Steady
  <1> QED BY <1>3, <1>4, <1>6, <1>7 DEF Rounds

LEMMA TimerInv ==
    ASSUME IInv, UNCHANGED env, std_event_loop_timer
    PROVE  IInv'
  <1>1. /\ Typed /\ Scheduled /\ Watch /\ Rounds /\ UNCHANGED <<fde, epoll, file, now>>
        /\ CanLoop /\ TimerDue
    BY DEF IInv, std_event_loop_timer
  <1>2. PICK k : k = Head(ev.timed_events)
    OBVIOUS
  <1>3. PICK l : l = Tail(ev.timed_events)
    OBVIOUS
  <1>4. /\ te' = [te EXCEPT ![k].st = "running"] /\ ev' = [ev EXCEPT !.timed_events = l]
        /\ stack' = Append(stack, frame(<<>>, <<"timer", k>>))
    BY <1>2, <1>3 DEF std_event_loop_timer
  <1>5. PICK o : o = ev.timed_events
    OBVIOUS
  <1>6. ev \in Contexts /\ o \in Seq(DOMAIN te) /\ IsInjective(o) /\ o # <<>>
    BY <1>1, <1>5 DEF Typed, Contexts, Scheduled, TimerDue
  <1>7. /\ l \in Seq(DOMAIN te) /\ IsInjective(l) /\ Range(l) = Range(o) \ {k}
        /\ Len(l) = Len(o) - 1 /\ \A i \in 1 .. Len(o) - 1 : l[i] = o[i + 1]
        /\ k \in DOMAIN te
    BY <1>2, <1>3, <1>5, <1>6, TailFacts
  <1>8. Dropped(k, l)
    <2>1. ASSUME NEW i \in DOMAIN l, NEW j \in DOMAIN l, i < j
          PROVE  \E a, b \in DOMAIN o : a < b /\ l[i] = o[a] /\ l[j] = o[b]
      <3>1. /\ DOMAIN o = 1 .. Len(o) /\ Len(o) \in Nat /\ DOMAIN l = 1 .. Len(o) - 1
        BY <1>6, <1>7
      <3>2. /\ i + 1 \in DOMAIN o /\ j + 1 \in DOMAIN o /\ i + 1 < j + 1
            /\ l[i] = o[i + 1] /\ l[j] = o[j + 1]
        BY <1>7, <2>1, <3>1
      <3> QED BY <3>2
    <2> QED BY <1>4, <1>5, <1>7, <2>1 DEF Dropped
  <1>9. PICK s : s = frame(<<>>, <<"timer", k>>)
    OBVIOUS
  <1>10. /\ s \in Frames /\ s.count = ev.destruction_count /\ s.todo = <<>>
         /\ s.run = <<"timer", k>>
    <2>1. <<"timer", k>> \in Running
      BY <1>7 DEF Running
    <2>2. PICK run : run = <<"timer", k>>
      OBVIOUS
    <2>3. <<>> \in Seq(Reported) /\ ev.destruction_count \in Nat
      BY <1>6 DEF Contexts
    <2>4. s = [count |-> ev.destruction_count, todo |-> <<>>, run |-> run]
      BY <1>9, <2>2 DEF frame
    <2> QED BY <2>1, <2>2, <2>3, <2>4 DEF Frames
  <1>11. stack' \in Seq(Frames) /\ stack' = Append(stack, s)
    <2>1. stack \in Seq(Frames)
      BY <1>1 DEF Typed
    <2> QED BY <1>4, <1>9, <1>10, <2>1
  <1>12. Typed' /\ Scheduled' /\ Watch' /\ Steady
    BY <1>1, <1>4, <1>7, <1>8, <1>11, DroppedScheduled
  <1>13. Begun(s)
    <2>1. s.run[1] = "timer" /\ s.run[2] = k
      BY <1>10
    <2>2. s.run # Nothing
      BY <1>10, <2>1, RunFacts
    <2>3. te'[k].st # "pending"
      <3>1. te \in Seq(Timers) /\ te[k] \in Timers
        BY <1>1, <1>7 DEF Typed
      <3>2. PICK r : r = [te[k] EXCEPT !.st = "running"]
        OBVIOUS
      <3>3. r.st = "running" /\ te' = [te EXCEPT ![k] = r]
        BY <1>4, <3>1, <3>2 DEF Timers
      <3>4. te'[k] = r
        BY <1>7, <3>1, <3>3
      <3> QED BY <3>3, <3>4
    <2>4. Range(s.todo) = {}
      BY <1>10 DEF Range
    <2> QED BY <1>10, <1>11, <2>1, <2>2, <2>3, <2>4 DEF Begun
  <1>14. Rounds'
    BY <1>1, <1>12, <1>13, BeginRounds
  <1> QED BY <1>12, <1>14 DEF IInv

\* What is fetched in some order from descriptors that have live events.
LEMMA FetchedTodo ==
    ASSUME Typed, NEW ready \in SUBSET Fd, ready # {}, \A f \in ready : Listed(f),
           NEW order \in SetToSeqs(ready), NEW todo, DOMAIN todo = DOMAIN order,
           todo = [i \in DOMAIN todo |-> todo[i]],
           \A i \in DOMAIN order : \E w \in What : todo[i] = event(order[i], w)
    PROVE  /\ frame(todo, Nothing) \in Frames
           /\ frame(todo, Nothing).count = ev.destruction_count
           /\ frame(todo, Nothing).todo = todo /\ frame(todo, Nothing).run = Nothing
           /\ todo # <<>> /\ \A e \in Range(todo) : Current(e)
  <1>1. PICK n : n = Cardinality(ready)
    OBVIOUS
  <1>2. n \in Nat /\ n # 0
    <2>1. IsFiniteSet(Fd)
      <3>1. Fd \subseteq Descriptor
        BY ScenariosAssumption DEF Typed, Scenario, Fd
      <3> QED BY <3>1, DescriptorAssumption, FS_Subset
    <2>2. IsFiniteSet(ready)
      BY <2>1, FS_Subset
    <2> QED BY <1>1, <2>2, FS_CardinalityType, FS_EmptySet
  <1>3. order \in [1 .. n -> ready]
    BY <1>1 DEF SetToSeqs
  <1>4. ASSUME NEW i \in 1 .. n PROVE todo[i] \in Reported /\ Current(todo[i])
    <2>1. order[i] \in ready /\ order[i] \in Fd /\ i \in DOMAIN order
      BY <1>3
    <2>2. PICK w \in What : todo[i] = event(order[i], w)
      BY <2>1
    <2>3. fde[order[i]].gen \in Nat
      BY <2>1 DEF Typed, FdEvents
    <2>4. todo[i] = [fd |-> order[i], gen |-> fde[order[i]].gen, what |-> w]
      BY <2>2 DEF event
    <2>5. todo[i] \in Reported
      BY <2>1, <2>3, <2>4 DEF Reported
    <2>6. todo[i].fd = order[i] /\ todo[i].gen = fde[order[i]].gen
      BY <2>4
    <2> QED BY <2>1, <2>5, <2>6 DEF Current
  <1>5. DOMAIN todo = 1 .. n
    BY <1>3
  <1>6. todo \in Seq(Reported) /\ Len(todo) = n
    BY <1>2, <1>4, <1>5
  <1>7. todo # <<>>
    BY <1>2, <1>6
  <1>8. \A e \in Range(todo) : Current(e)
    BY <1>4, <1>5 DEF Range
  <1>9. ev.destruction_count \in Nat /\ Nothing \in Running
    BY DEF Typed, Contexts, Running
  <1> QED BY <1>6, <1>7, <1>8, <1>9 DEF frame, Frames


\* Only the stack has changed.
LEMMA OnlyStack ==
    ASSUME Typed, Scheduled, Watch, UNCHANGED <<env, ev, fde, epoll, file, now, te>>,
           stack' \in Seq(Frames)
    PROVE  Typed' /\ Scheduled' /\ Watch' /\ Steady
  <1>1. Contexts' = Contexts /\ Frames' = Frames /\ Timers' = Timers /\ Fd' = Fd
    BY DEF Contexts, Frames, Running, Reported, Timers, Fd
  <1>2. Typed'
    BY <1>1 DEF Typed
  <1>3. Scheduled'
    BY ScheduledKept
  <1>4. Watch'
    BY WatchSame
  <1>5. Steady
    BY DEF Steady, Listed
  <1> QED BY <1>2, <1>3, <1>4, <1>5

\* A round begins with what the kernel has reported for live events.
LEMMA DispatchInv ==
    ASSUME IInv, UNCHANGED <<env, ev, fde, epoll, file, now, te>>, CanLoop,
           NEW ready \in SUBSET Fd, ready # {}, \A f \in ready : Listed(f),
           NEW order \in SetToSeqs(ready), NEW todo, DOMAIN todo = DOMAIN order,
           todo = [i \in DOMAIN todo |-> todo[i]],
           \A i \in DOMAIN order : \E w \in What : todo[i] = event(order[i], w),
           stack' = Append(stack, frame(todo, Nothing))
    PROVE  IInv'
  <1>1. Typed /\ Scheduled /\ Watch /\ Rounds
    BY DEF IInv
  <1>2. PICK s : s = frame(todo, Nothing)
    OBVIOUS
  <1>3. /\ s \in Frames /\ s.count = ev.destruction_count /\ s.todo = todo /\ s.run = Nothing
        /\ todo # <<>> /\ \A e \in Range(todo) : Current(e)
    BY <1>1, <1>2, FetchedTodo
  <1>4. stack' = Append(stack, s) /\ stack' \in Seq(Frames)
    <2>1. stack \in Seq(Frames)
      BY <1>1 DEF Typed
    <2>2. stack' = Append(stack, s)
      BY <1>2
    <2> QED BY <1>3, <2>1, <2>2
  <1>5. Typed' /\ Scheduled' /\ Watch' /\ Steady
    BY <1>1, <1>4, OnlyStack
  <1>6. Begun(s)
    <2>1. s.run[1] # "timer"
      BY <1>3, RunFacts
    <2> QED BY <1>3, <1>4, <2>1 DEF Begun
  <1>7. Rounds'
    BY <1>1, <1>5, <1>6, BeginRounds
  <1> QED BY <1>5, <1>7 DEF IInv

LEMMA EpollLoopInv ==
    ASSUME IInv, UNCHANGED env, epoll_event_loop
    PROVE  IInv'
  <1> DEFINE what(f) == IF epoll[f] = {} THEN {} ELSE file[f] \cap (epoll[f] \cup {"error"})
             ready == {f \in Fd : what(f) # {}}
  <1>1. /\ UNCHANGED <<ev, fde, epoll, file, now, te>> /\ CanLoop /\ ev.epoll_fd /\ ready # {}
        /\ \E order \in SetToSeqs(ready) :
              stack' = Append(stack, frame([i \in DOMAIN order |->
                                               event(order[i], what(order[i]))], Nothing))
    BY DEF epoll_event_loop
  <1>2. PICK order \in SetToSeqs(ready) :
           stack' = Append(stack, frame([i \in DOMAIN order |->
                                            event(order[i], what(order[i]))], Nothing))
    BY <1>1
  <1>3. ready \in SUBSET Fd
    OBVIOUS
  <1>4. \A f \in ready : Listed(f)
    <2> SUFFICES ASSUME NEW f \in ready PROVE Listed(f)
      OBVIOUS
    <2>1. f \in Fd /\ epoll[f] # {}
      OBVIOUS
    <2>2. Watched(Listed(f), fde[f], epoll[f])
      BY <1>1, <2>1 DEF IInv, Watch
    <2> QED BY <2>1, <2>2 DEF Watched
  <1>5. PICK todo : todo = [i \in DOMAIN order |-> event(order[i], what(order[i]))]
    OBVIOUS
  <1>6. /\ DOMAIN todo = DOMAIN order /\ todo = [i \in DOMAIN todo |-> todo[i]]
        /\ stack' = Append(stack, frame(todo, Nothing))
    BY <1>2, <1>5
  <1>7. ASSUME NEW i \in DOMAIN order PROVE \E w \in What : todo[i] = event(order[i], w)
    <2>1. order[i] \in ready
      BY DEF SetToSeqs
    <2>2. file[order[i]] \in What
      BY <2>1 DEF IInv, Typed
    <2>3. what(order[i]) \in What
      BY <2>2 DEF What
    <2> QED BY <1>5, <2>3
  <1> HIDE DEF ready, what
  <1> QED BY <1>1, <1>3, <1>4, <1>6, <1>7, DispatchInv

LEMMA SelectLoopInv ==
    ASSUME IInv, UNCHANGED env, std_event_loop_select
    PROVE  IInv'
  <1> DEFINE what(f) == IF "error" \in file[f] THEN fde[f].flags ELSE fde[f].flags \cap file[f]
             ready == {f \in Range(ev.fd_events) : what(f) # {}}
  <1>1. /\ UNCHANGED <<ev, fde, epoll, file, now, te>> /\ CanLoop /\ ready # {}
        /\ \E order \in SetToSeqs(ready) :
              stack' = Append(stack, frame([i \in DOMAIN order |->
                                               event(order[i], what(order[i]))], Nothing))
    BY DEF std_event_loop_select
  <1>2. PICK order \in SetToSeqs(ready) :
           stack' = Append(stack, frame([i \in DOMAIN order |->
                                            event(order[i], what(order[i]))], Nothing))
    BY <1>1
  <1>3. ready \in SUBSET Fd
    <2>1. ev.fd_events \in Seq(Fd)
      BY DEF IInv, Typed, Contexts
    <2>2. Range(ev.fd_events) \subseteq Fd
      BY <2>1 DEF Range
    <2> QED BY <2>2
  <1>4. \A f \in ready : Listed(f)
    BY DEF Listed
  <1>5. PICK todo : todo = [i \in DOMAIN order |-> event(order[i], what(order[i]))]
    OBVIOUS
  <1>6. /\ DOMAIN todo = DOMAIN order /\ todo = [i \in DOMAIN todo |-> todo[i]]
        /\ stack' = Append(stack, frame(todo, Nothing))
    BY <1>2, <1>5
  <1>7. ASSUME NEW i \in DOMAIN order PROVE \E w \in What : todo[i] = event(order[i], w)
    <2>1. order[i] \in ready /\ order[i] \in Fd
      BY <1>3 DEF SetToSeqs
    <2>2. fde[order[i]] \in FdEvents
      BY <2>1 DEF IInv, Typed
    <2>3. what(order[i]) \in What
      BY <2>2 DEF What, FdEvents
    <2> QED BY <1>5, <2>3
  <1> HIDE DEF ready, what
  <1> QED BY <1>1, <1>3, <1>4, <1>6, <1>7, DispatchInv

\* The state after a step that has led to the view y without an operation.
LEMMA LandedView ==
    ASSUME Typed, UNCHANGED <<env, file, now, te>>, NEW y \in Views, IsInjective(y.ev.fd_events),
           Become(y), stack' \in Seq(Frames)
    PROVE  Typed' /\ Landed(y)
  <1>1. y.ev \in Contexts /\ y.fde \in [Fd -> FdEvents] /\ y.epoll \in [Fd -> SUBSET Flags]
    BY DEF Views
  <1>2. Contexts' = Contexts /\ Frames' = Frames /\ Timers' = Timers /\ Fd' = Fd
    BY DEF Contexts, Frames, Running, Reported, Timers, Fd
  <1>3. ev' = y.ev /\ fde' = y.fde /\ epoll' = y.epoll
    BY DEF Become
  <1>4. Typed'
    BY <1>1, <1>2, <1>3 DEF Typed
  <1> QED BY <1>3, <1>4 DEF Landed

LEMMA WaitFailsInv ==
    ASSUME IInv, UNCHANGED env, epoll_wait_fails
    PROVE  IInv'
  <1>1. /\ Typed /\ Scheduled /\ Watch /\ Rounds /\ UNCHANGED <<file, now, te, stack>>
        /\ Become(epoll_fallback_to_select(View))
    BY DEF IInv, epoll_wait_fails
  <1>2. PICK y : y = epoll_fallback_to_select(View)
    OBVIOUS
  <1>3. /\ y \in Views /\ ~y.ev.epoll_fd /\ y.fde = fde /\ y.ev.fd_events = ev.fd_events
        /\ y.ev.timed_events = ev.timed_events
        /\ y.ev.destruction_count = ev.destruction_count
    BY <1>1, <1>2, ViewFacts, FallbackFacts DEF SameLists
  <1>4. IsInjective(y.ev.fd_events) /\ stack' \in Seq(Frames) /\ Become(y)
    BY <1>1, <1>2, <1>3 DEF Typed
  <1>5. Typed' /\ Landed(y)
    BY <1>1, <1>3, <1>4, LandedView
  <1>6. Watch'
    BY <1>3, <1>5 DEF Landed, Watch
  <1>7. Scheduled'
    BY <1>1, <1>3, <1>5, ScheduledKept DEF Landed
  <1>8. Steady
    BY <1>1, <1>3, <1>5 DEF Landed, Steady, Listed
  <1>9. Rounds'
    BY <1>1, <1>8, RoundsKept
  <1> QED BY <1>5, <1>6, <1>7, <1>9 DEF IInv


\* The innermost round ends.
LEMMA EndRounds ==
    ASSUME Typed, Rounds, Steady, stack # <<>>, stack' = Front(stack)
    PROVE  Rounds' /\ stack' \in Seq(Frames)
  <1>1. PICK n : n = Len(stack)
    OBVIOUS
  <1>2. /\ stack \in Seq(Frames) /\ n \in Nat \ {0} /\ DOMAIN stack = 1 .. n
        /\ \A i \in 1 .. n : stack[i] \in Frames
    BY <1>1 DEF Typed
  <1>3. /\ stack' \in Seq(Frames) /\ Len(stack') = n - 1 /\ DOMAIN stack' = 1 .. n - 1
        /\ \A i \in 1 .. n - 1 : stack'[i] = stack[i]
    BY <1>1, <1>2 DEF Front
  <1>4. ASSUME NEW i \in 1 .. n - 1 PROVE Fetched(stack[i])' /\ stack'[i].run # Nothing
    <2>1. PICK q : q = stack[i]
      OBVIOUS
    <2>2. q \in Frames /\ Fetched(q) /\ stack'[i] = q /\ q.run # Nothing
      BY <1>1, <1>2, <1>3, <2>1 DEF Rounds
    <2>3. /\ q.count <= ev'.destruction_count
          /\ q.count = ev'.destruction_count =>
                \A e \in Range(q.todo) : Listed(e.fd)' /\ fde'[e.fd].gen = e.gen
          /\ q.run[1] = "timer" => te'[q.run[2]].st # "pending"
      BY <2>2, FetchedKept
    <2> QED BY <2>2, <2>3 DEF Fetched, Current
  <1>5. stack' # <<>> => Len(stack') \in 1 .. n - 1
    BY <1>2, <1>3
  <1> QED BY <1>3, <1>4, <1>5 DEF Rounds

\* The innermost round goes on with the frame s.
Continued(s) ==
    /\ s \in Frames
    /\ stack' \in Seq(Frames) /\ Len(stack') = Len(stack)
    /\ \A i \in 1 .. Len(stack) - 1 : stack'[i] = stack[i]
    /\ stack'[Len(stack)] = s
    /\ s.count = stack[Len(stack)].count
    /\ Range(s.todo) \subseteq Range(stack[Len(stack)].todo)
    /\ s.run[1] # "timer"
    /\ s.run = Nothing => s.count = ev.destruction_count /\ s.todo # <<>>

LEMMA ContinueRounds ==
    ASSUME Typed, Rounds, Steady, stack # <<>>, NEW s, Continued(s)
    PROVE  Rounds'
  <1>1. PICK n : n = Len(stack)
    OBVIOUS
  <1>2. /\ stack \in Seq(Frames) /\ n \in Nat \ {0} /\ DOMAIN stack = 1 .. n
        /\ \A i \in 1 .. n : stack[i] \in Frames
    BY <1>1 DEF Typed
  <1>3. /\ DOMAIN stack' = 1 .. n /\ Len(stack') = n /\ stack'[n] = s /\ s \in Frames
        /\ \A i \in 1 .. n - 1 : stack'[i] = stack[i]
    BY <1>1, <1>2 DEF Continued
  <1>4. ASSUME NEW i \in 1 .. n - 1 PROVE Fetched(stack[i])' /\ stack'[i].run # Nothing
    <2>1. PICK q : q = stack[i]
      OBVIOUS
    <2>2. q \in Frames /\ Fetched(q) /\ stack'[i] = q /\ q.run # Nothing
      BY <1>1, <1>2, <1>3, <2>1 DEF Rounds
    <2>3. /\ q.count <= ev'.destruction_count
          /\ q.count = ev'.destruction_count =>
                \A e \in Range(q.todo) : Listed(e.fd)' /\ fde'[e.fd].gen = e.gen
          /\ q.run[1] = "timer" => te'[q.run[2]].st # "pending"
      BY <2>2, FetchedKept
    <2> QED BY <2>2, <2>3 DEF Fetched, Current
  <1>5. Fetched(stack[n])'
    <2>1. PICK q : q = stack[n]
      OBVIOUS
    <2>2. q \in Frames /\ Fetched(q)
      BY <1>2, <2>1 DEF Rounds
    <2>3. /\ q.count <= ev'.destruction_count
          /\ q.count = ev'.destruction_count =>
                \A e \in Range(q.todo) : Listed(e.fd)' /\ fde'[e.fd].gen = e.gen
      BY <2>2, FetchedKept
    <2>4. s.count = q.count /\ Range(s.todo) \subseteq Range(q.todo) /\ s.run[1] # "timer"
      BY <1>1, <2>1 DEF Continued
    <2> QED BY <1>3, <2>3, <2>4 DEF Fetched, Current
  <1>6. s.run = Nothing => s.count = ev'.destruction_count /\ s.todo # <<>>
    BY DEF Continued, Steady
  <1>7. ASSUME NEW i \in DOMAIN stack' PROVE Fetched(stack[i])'
    <2>1. i = n \/ i \in 1 .. n - 1
      BY <1>2, <1>3
    <2> QED BY <1>4, <1>5, <2>1
  <1>8. \A i \in DOMAIN stack' : i # Len(stack') => stack'[i].run # Nothing
    BY <1>2, <1>3, <1>4
  <1> QED BY <1>3, <1>6, <1>7, <1>8 DEF Rounds

\* What the innermost round does next.
LEMMA DispatchFacts ==
    ASSUME Typed, Rounds, Dispatching, NEW e, e = Head(Top.todo)
    PROVE  /\ stack # <<>> /\ Top = stack[Len(stack)] /\ Top \in Frames
           /\ Top.count = ev.destruction_count
           /\ Top.todo \in Seq(Reported) /\ Top.todo # <<>>
           /\ Tail(Top.todo) \in Seq(Reported) /\ Range(Tail(Top.todo)) \subseteq Range(Top.todo)
           /\ Len(Tail(Top.todo)) = Len(Top.todo) - 1
           /\ e \in Reported /\ e.fd \in Fd /\ Current(e)
  <1>1. stack \in Seq(Frames) /\ stack # <<>> /\ Top.run = Nothing
    BY DEF Typed, Dispatching
  <1>2. Top = stack[Len(stack)] /\ Len(stack) \in DOMAIN stack
    BY <1>1 DEF Top, Last
  <1>3. Top \in Frames
    BY <1>1, <1>2
  <1>4. PICK t : t = Top.todo
    OBVIOUS
  <1>5. t \in Seq(Reported)
    BY <1>3, <1>4 DEF Frames
  <1>6. Top.count = ev.destruction_count /\ t # <<>>
    BY <1>1, <1>2, <1>4 DEF Rounds
  <1>7. /\ Tail(t) \in Seq(Reported) /\ Len(Tail(t)) = Len(t) - 1 /\ Len(t) \in Nat \ {0}
        /\ \A i \in 1 .. Len(t) - 1 : Tail(t)[i] = t[i + 1]
        /\ Head(t) = t[1] /\ Head(t) \in Reported
    BY <1>5, <1>6, HeadTailProperties, EmptySeq, LenProperties
  <1>8. ASSUME NEW x \in Range(Tail(t)) PROVE x \in Range(t)
    <2>1. PICK r : r = Tail(t)
      OBVIOUS
    <2>2. PICK i \in DOMAIN r : r[i] = x
      BY <1>8, <2>1 DEF Range
    <2>3. DOMAIN r = 1 .. Len(t) - 1 /\ DOMAIN t = 1 .. Len(t)
      BY <1>5, <1>7, <2>1
    <2>4. i + 1 \in DOMAIN t /\ t[i + 1] = x
      BY <1>7, <2>1, <2>2, <2>3
    <2> QED BY <2>4 DEF Range
  <1>9. e \in Range(t)
    <2>1. 1 \in DOMAIN t /\ t[1] = e
      BY <1>4, <1>5, <1>7
    <2> QED BY <2>1 DEF Range
  <1>10. Current(e)
    BY <1>2, <1>4, <1>6, <1>9 DEF Rounds, Fetched
  <1>11. e \in Reported /\ e.fd \in Fd
    BY <1>4, <1>7 DEF Reported
  <1> QED BY <1>1, <1>2, <1>3, <1>4, <1>5, <1>6, <1>7, <1>8, <1>10, <1>11


\* The frame of the innermost round, with other contents.
LEMMA GoOnFacts ==
    ASSUME Typed, stack # <<>>, NEW todo \in Seq(Reported), NEW run \in Running,
           stack' = GoOn(todo, run), NEW s, s = stack'[Len(stack)]
    PROVE  /\ s \in Frames /\ s.count = stack[Len(stack)].count /\ s.todo = todo /\ s.run = run
           /\ stack' \in Seq(Frames) /\ Len(stack') = Len(stack)
           /\ \A i \in 1 .. Len(stack) - 1 : stack'[i] = stack[i]
           /\ stack'[Len(stack)] = s
  <1>1. PICK n : n = Len(stack)
    OBVIOUS
  <1>2. /\ stack \in Seq(Frames) /\ n \in Nat /\ n # 0 /\ DOMAIN stack = 1 .. n
        /\ stack[n] \in Frames /\ Top = stack[n]
    BY <1>1 DEF Typed, Top, Last
  <1>3. PICK q : q = [count |-> Top.count, todo |-> todo, run |-> run]
    OBVIOUS
  <1>4. q \in Frames /\ q.count = stack[n].count /\ q.todo = todo /\ q.run = run
    BY <1>2, <1>3 DEF Frames
  <1>5. stack' = [stack EXCEPT ![n] = q]
    BY <1>1, <1>3 DEF GoOn
  <1>6. stack' \in Seq(Frames) /\ Len(stack') = n
    BY <1>1, <1>2, <1>4, <1>5
  <1>7. \A i \in 1 .. n - 1 : stack'[i] = stack[i]
    BY <1>2, <1>5
  <1>8. stack'[n] = q
    BY <1>2, <1>5
  <1>9. s = q
    BY <1>1, <1>8
  <1> QED BY <1>1, <1>4, <1>6, <1>7, <1>9

\* An fd_event whose descriptor has failed.
Failed(r) == [r EXCEPT !.got_error = TRUE]

LEMMA FailedFacts ==
    ASSUME NEW r \in FdEvents
    PROVE  /\ Failed(r) \in FdEvents /\ Failed(r).got_error /\ Failed(r).flags = r.flags
           /\ Failed(r).gen = r.gen /\ Failed(r).has_event = r.has_event
           /\ Failed(r).report_error = r.report_error
  BY DEF Failed, FdEvents

LEMMA ErrorInv ==
    ASSUME IInv, UNCHANGED env, epoll_error
    PROVE  IInv'
  <1>1. /\ Typed /\ Scheduled /\ Watch /\ Rounds /\ UNCHANGED <<file, now, te>> /\ Dispatching
    BY DEF IInv, epoll_error
  <1>2. PICK e : e = Head(Top.todo)
    OBVIOUS
  <1>3. PICK f : f = e.fd
    OBVIOUS
  <1>4. /\ ~fde[f].report_error
        /\ Become(epoll_del_event([View EXCEPT !.fde[f].got_error = TRUE], f))
        /\ stack' = IF Len(Top.todo) = 1 THEN Front(stack)
                    ELSE GoOn(Tail(Top.todo), Nothing)
    BY <1>2, <1>3 DEF epoll_error
  <1>5. /\ stack # <<>> /\ Top = stack[Len(stack)] /\ Top \in Frames
        /\ Top.count = ev.destruction_count
        /\ Top.todo \in Seq(Reported) /\ Top.todo # <<>>
        /\ Tail(Top.todo) \in Seq(Reported) /\ Range(Tail(Top.todo)) \subseteq Range(Top.todo)
        /\ Len(Tail(Top.todo)) = Len(Top.todo) - 1
        /\ f \in Fd /\ Listed(f)
    BY <1>1, <1>2, <1>3, DispatchFacts DEF Current
  <1>6. /\ View \in Views /\ View.ev = ev /\ View.fde = fde /\ View.epoll = epoll
        /\ ev \in Contexts /\ fde \in [Fd -> FdEvents] /\ epoll \in [Fd -> SUBSET Flags]
    BY <1>1, ViewFacts
  <1>7. PICK q : q = Failed(fde[f])
    OBVIOUS
  <1>8. /\ q \in FdEvents /\ q.got_error /\ q.flags = fde[f].flags /\ q.gen = fde[f].gen
        /\ q.has_event = fde[f].has_event
    BY <1>5, <1>6, <1>7, FailedFacts
  <1>9. PICK x : x = Written(View, f, q)
    OBVIOUS
  <1>10. [View EXCEPT !.fde[f].got_error = TRUE] = x
    BY <1>6, <1>7, <1>9 DEF Written, Failed, Views
  <1>11. /\ x \in Views /\ x.ev = ev /\ x.epoll = epoll /\ x.fde[f] = q
         /\ x.fde = [fde EXCEPT ![f] = q]
    <2>1. /\ x \in Views /\ x.ev = View.ev /\ x.epoll = View.epoll /\ x.fde[f] = q
          /\ Touched(View, x, f, q, View.epoll[f])
      BY <1>5, <1>6, <1>8, <1>9, WrittenFacts
    <2>2. x.fde = [View.fde EXCEPT ![f] = q]
      BY <2>1 DEF Touched
    <2> QED BY <1>6, <2>1, <2>2
  <1>12. PICK y : y = epoll_del_event(x, f)
    OBVIOUS
  <1>13. Become(y)
    BY <1>4, <1>10, <1>12
  <1>14. PICK r, w : /\ Touched(x, y, f, r, w) /\ r.gen = fde[f].gen
                     /\ y.ev.epoll_fd => Watched(TRUE, r, w)
    <2>1. CASE ~x.ev.epoll_fd
      <3>1. y = x
        BY <1>12, <2>1 DEF epoll_del_event
      <3>2. Touched(x, x, f, q, {})
        <4>1. x.fde = [x.fde EXCEPT ![f] = q]
          BY <1>5, <1>6, <1>11
        <4> QED BY <1>8, <1>11, <2>1, <4>1 DEF Touched, SameLists
      <3> QED BY <1>8, <2>1, <3>1, <3>2
    <2>2. CASE x.ev.epoll_fd
      <3>1. PICK w : w = IF x.fde[f].has_event THEN {} ELSE x.epoll[f]
        OBVIOUS
      <3>2. Touched(x, y, f, Removed(q), w)
        BY <1>5, <1>11, <1>12, <2>2, <3>1, DelFacts
      <3>3. Watched(Listed(f), fde[f], epoll[f])
        BY <1>1, <1>5, <1>11, <2>2 DEF Watch
      <3>4. /\ ~fde[f].has_event => epoll[f] = {}
            /\ "read" \notin fde[f].flags
        BY <1>4, <1>5, <3>3 DEF Watched
      <3>5. w = {}
        BY <1>8, <1>11, <3>1, <3>4
      <3>6. PICK r : r = Removed(q)
        OBVIOUS
      <3>7. Marked(q, r) /\ ~r.has_event /\ ~r.report_error /\ r.gen = q.gen
        BY <1>8, <3>6, MarkedFacts DEF Marked
      <3>8. ~("read" \in q.flags \/ ("write" \in q.flags /\ ~q.got_error))
        BY <1>8, <3>4
      <3>9. Watched(TRUE, r, {})
        BY <1>8, <3>7, <3>8, UnwantedWatched
      <3> QED BY <1>8, <3>2, <3>5, <3>6, <3>7, <3>9
    <2> QED BY <2>1, <2>2
  <1>15. /\ y \in Views /\ y.ev.fd_events = ev.fd_events
         /\ y.ev.timed_events = ev.timed_events
         /\ y.ev.destruction_count = ev.destruction_count
         /\ y.fde = [x.fde EXCEPT ![f] = r]
    BY <1>11, <1>14 DEF Touched, SameLists
  <1>16. Become(y) /\ ev' = y.ev /\ fde' = y.fde
    BY <1>13 DEF Become
  <1>17. Steady
    <2>1. \A g : Listed(g) => Listed(g)' /\ fde'[g].gen = fde[g].gen
      <3> SUFFICES ASSUME NEW g, Listed(g) PROVE Listed(g)' /\ fde'[g].gen = fde[g].gen
        OBVIOUS
      <3>1. Listed(g)'
        BY <1>15, <1>16 DEF Listed
      <3>2. g \in Fd
        BY <1>6 DEF Listed, Contexts, Range
      <3>3. fde'[g].gen = fde[g].gen
        BY <1>6, <1>11, <1>14, <1>15, <1>16, <3>2
      <3> QED BY <3>1, <3>3
    <2> QED BY <1>1, <1>15, <1>16, <2>1 DEF Steady
  <1>18. stack' \in Seq(Frames) /\ Rounds'
    <2>1. CASE Len(Top.todo) = 1
      BY <1>1, <1>4, <1>5, <1>17, <2>1, EndRounds
    <2>2. CASE Len(Top.todo) # 1
      <3>1. PICK todo : todo = Tail(Top.todo)
        OBVIOUS
      <3>2. PICK s : s = stack'[Len(stack)]
        OBVIOUS
      <3>3. /\ todo \in Seq(Reported) /\ stack' = GoOn(todo, Nothing)
            /\ todo # <<>> /\ Nothing \in Running
        <4>1. Len(Top.todo) \in Nat /\ Len(Top.todo) # 0
          BY <1>5
        <4>2. todo \in Seq(Reported) /\ Len(todo) = Len(Top.todo) - 1
          BY <1>5, <3>1
        <4>3. Len(todo) # 0
          BY <2>2, <4>1, <4>2
        <4>4. todo # <<>>
          BY <4>2, <4>3, EmptySeq
        <4>5. stack' = GoOn(todo, Nothing) /\ Nothing \in Running
          BY <1>4, <2>2, <3>1 DEF Running
        <4> QED BY <4>2, <4>4, <4>5
      <3>4. /\ s \in Frames /\ s.count = stack[Len(stack)].count /\ s.todo = todo
            /\ s.run = Nothing
            /\ stack' \in Seq(Frames) /\ Len(stack') = Len(stack)
            /\ \A i \in 1 .. Len(stack) - 1 : stack'[i] = stack[i]
            /\ stack'[Len(stack)] = s
        BY <1>1, <1>5, <3>2, <3>3, GoOnFacts
      <3>6. s.run[1] # "timer"
        BY <3>4, RunFacts
      <3>7. Continued(s)
        BY <1>5, <3>1, <3>3, <3>4, <3>6 DEF Continued
      <3> QED BY <1>1, <1>5, <1>17, <3>4, <3>7, ContinueRounds
    <2> QED BY <2>1, <2>2
  <1>19. Typed' /\ Landed(y)
    BY <1>1, <1>15, <1>16, <1>18, LandedView DEF Typed
  <1>20. Scheduled'
    BY <1>1, <1>15, <1>16, ScheduledKept
  <1>21. Watch'
    <2>1. f \in Range(x.ev.fd_events)
      BY <1>5, <1>11 DEF Listed
    <2>2. y.ev.epoll_fd => Watched(f \in Range(x.ev.fd_events), r, w)
      BY <1>14, <2>1 DEF Watched
    <2>3. \A g \in Fd : g # f =>
             /\ x.fde[g] = fde[g] /\ x.epoll[g] = epoll[g]
             /\ g \in Range(x.ev.fd_events) <=> Listed(g)
      BY <1>6, <1>11 DEF Listed
    <2>4. x.ev.epoll_fd = ev.epoll_fd
      BY <1>11
    <2> QED BY <1>1, <1>5, <1>11, <1>14, <1>19, <2>2, <2>3, <2>4, WatchKept
  <1> QED BY <1>18, <1>19, <1>20, <1>21 DEF IInv


LEMMA CallInv ==
    ASSUME IInv, UNCHANGED env, call_handler
    PROVE  IInv'
  <1>1. /\ Typed /\ Scheduled /\ Watch /\ Rounds /\ UNCHANGED <<ev, epoll, file, now, te>>
        /\ Dispatching
    BY DEF IInv, call_handler
  <1>2. PICK e : e = Head(Top.todo)
    OBVIOUS
  <1>3. PICK f : f = e.fd
    OBVIOUS
  <1>4. /\ "error" \in e.what => fde[f].report_error
        /\ fde' = IF "error" \in e.what THEN [fde EXCEPT ![f].got_error = TRUE] ELSE fde
        /\ stack' = GoOn(Tail(Top.todo), <<"fd", f>>)
    BY <1>2, <1>3 DEF call_handler
  <1>5. /\ stack # <<>> /\ Top = stack[Len(stack)] /\ Top \in Frames
        /\ Tail(Top.todo) \in Seq(Reported) /\ Range(Tail(Top.todo)) \subseteq Range(Top.todo)
        /\ f \in Fd /\ Listed(f)
    BY <1>1, <1>2, <1>3, DispatchFacts DEF Current
  <1>6. fde \in [Fd -> FdEvents] /\ fde[f] \in FdEvents
    BY <1>1, <1>5 DEF Typed
  <1>7. PICK r : r = IF "error" \in e.what THEN Failed(fde[f]) ELSE fde[f]
    OBVIOUS
  <1>8. /\ r \in FdEvents /\ r.flags = fde[f].flags /\ r.gen = fde[f].gen
        /\ r.has_event = fde[f].has_event /\ r.report_error = fde[f].report_error
        /\ r.got_error = fde[f].got_error \/ ("error" \in e.what /\ r.got_error)
    BY <1>6, <1>7, FailedFacts
  <1>9. fde' = [fde EXCEPT ![f] = r]
    <2>1. CASE "error" \in e.what
      BY <1>4, <1>6, <1>7, <2>1 DEF Failed
    <2>2. CASE "error" \notin e.what
      BY <1>4, <1>6, <1>7, <2>2
    <2> QED BY <2>1, <2>2
  <1>10. fde'[f] = r /\ \A g \in Fd : g # f => fde'[g] = fde[g]
    BY <1>5, <1>6, <1>9
  <1>11. PICK run : run = <<"fd", f>>
    OBVIOUS
  <1>12. run \in Running /\ run[1] = "fd"
    BY <1>5, <1>11 DEF Running
  <1>13. PICK todo : todo = Tail(Top.todo)
    OBVIOUS
  <1>14. PICK s : s = stack'[Len(stack)]
    OBVIOUS
  <1>15. stack' = GoOn(todo, run)
    BY <1>4, <1>11, <1>13
  <1>16. todo \in Seq(Reported)
    BY <1>5, <1>13
  <1>17. /\ s \in Frames /\ s.count = stack[Len(stack)].count /\ s.todo = todo /\ s.run = run
         /\ stack' \in Seq(Frames) /\ Len(stack') = Len(stack)
         /\ \A i \in 1 .. Len(stack) - 1 : stack'[i] = stack[i]
         /\ stack'[Len(stack)] = s
    BY <1>1, <1>5, <1>12, <1>14, <1>15, <1>16, GoOnFacts
  <1>18. s.run[1] # "timer" /\ s.run # Nothing
    BY <1>12, <1>17, RunFacts
  <1>19. Continued(s)
    BY <1>5, <1>13, <1>17, <1>18 DEF Continued
  <1>20. Steady
    <2>1. \A g : Listed(g) => g \in Fd
      BY <1>1 DEF Typed, Listed, Contexts, Range
    <2>2. \A g \in Fd : fde'[g].gen = fde[g].gen
      BY <1>8, <1>10
    <2>3. \A g : Listed(g) => Listed(g)' /\ fde'[g].gen = fde[g].gen
      BY <1>1, <2>1, <2>2 DEF Listed
    <2> QED BY <1>1, <2>3 DEF Steady
  <1>21. Rounds'
    BY <1>1, <1>5, <1>19, <1>20, ContinueRounds
  <1>22. Scheduled'
    BY <1>1, ScheduledKept
  <1>23. Watch'
    <2> SUFFICES ASSUME ev.epoll_fd, NEW g \in Fd
                 PROVE  Watched(Listed(g), fde'[g], epoll[g])
      BY <1>1 DEF Watch, Listed, Fd
    <2>1. Watched(Listed(g), fde[g], epoll[g])
      BY <1>1 DEF Watch
    <2>2. CASE g # f
      BY <1>10, <2>1, <2>2
    <2>3. CASE g = f /\ r.got_error = fde[f].got_error
      BY <1>8, <1>10, <2>1, <2>3 DEF Watched
    <2>4. CASE g = f /\ "error" \in e.what /\ r.got_error
      <3>1. fde[f].report_error
        BY <1>4, <2>4
      <3>2. "read" \in fde[f].flags \/ fde[f].got_error
        BY <1>5, <2>1, <2>4, <3>1 DEF Watched
      <3> QED BY <1>5, <1>8, <1>10, <2>1, <2>4, <3>2 DEF Watched
    <2> QED BY <1>8, <2>2, <2>3, <2>4
  <1>24. Typed'
    <2>1. Contexts' = Contexts /\ Frames' = Frames /\ Timers' = Timers /\ Fd' = Fd
      BY <1>1 DEF Contexts, Frames, Running, Reported, Timers, Fd
    <2>2. fde' \in [Fd -> FdEvents]
      BY <1>6, <1>8, <1>9
    <2> QED BY <1>1, <1>17, <2>1, <2>2 DEF Typed
  <1> QED BY <1>21, <1>22, <1>23, <1>24 DEF IInv

LEMMA ReturnsInv ==
    ASSUME IInv, UNCHANGED env, handler_returns
    PROVE  IInv'
  <1> DEFINE fd == IF Top.run[1] = "fd" THEN {Top.run[2]} ELSE {}
             left == IF Top.count # ev.destruction_count THEN <<>> ELSE Top.todo
  <1>1. /\ Typed /\ Scheduled /\ Watch /\ Rounds /\ UNCHANGED <<ev, fde, epoll, now>> /\ InHandler
        /\ \E read \in SUBSET fd :
              file' = [f \in Fd |-> IF f \in read THEN file[f] \ {"read"} ELSE file[f]]
        /\ stack' = IF left = <<>> THEN Front(stack) ELSE GoOn(left, Nothing)
        /\ te' = IF fd = {} THEN [te EXCEPT ![Top.run[2]].st = "done"] ELSE te
    BY DEF IInv, handler_returns
  <1>2. stack \in Seq(Frames) /\ stack # <<>> /\ Top.run # Nothing
    BY <1>1 DEF Typed, InHandler
  <1>3. Top = stack[Len(stack)] /\ Len(stack) \in DOMAIN stack /\ Top \in Frames
    BY <1>2 DEF Top, Last
  <1>4. Fetched(Top)
    BY <1>1, <1>3 DEF Rounds
  <1>5. file' \in [Fd -> What]
    <2>1. PICK read \in SUBSET fd :
             file' = [f \in Fd |-> IF f \in read THEN file[f] \ {"read"} ELSE file[f]]
      BY <1>1
    <2>2. \A f \in Fd : file[f] \in What /\ file[f] \ {"read"} \in What
      BY <1>1 DEF Typed, What
    <2> QED BY <2>1, <2>2
  <1>6. /\ te' \in Seq(Timers) /\ DOMAIN te' = DOMAIN te
        /\ \A j \in DOMAIN te : te'[j].at = te[j].at
        /\ \A j \in DOMAIN te : te'[j].st = "pending" <=> te[j].st = "pending"
    <2>1. te \in Seq(Timers)
      BY <1>1 DEF Typed
    <2>2. CASE fd # {}
      BY <1>1, <2>1, <2>2
    <2>3. CASE fd = {}
      <3>1. PICK k : k = Top.run[2]
        OBVIOUS
      <3>2. k \in DOMAIN te /\ te[k].st # "pending"
        <4>1. Top.run[1] = "timer"
          BY <1>2, <1>3, <2>3, RunFacts
        <4> QED BY <1>3, <1>4, <3>1, <4>1, RunFacts DEF Fetched
      <3>3. te[k] \in Timers
        BY <2>1, <3>2
      <3>4. PICK r : r = [te[k] EXCEPT !.st = "done"]
        OBVIOUS
      <3>5. r \in Timers /\ r.at = te[k].at /\ r.st = "done"
        BY <3>3, <3>4 DEF Timers
      <3>6. te' = [te EXCEPT ![k] = r]
        BY <1>1, <2>3, <3>1, <3>4
      <3> QED BY <2>1, <3>2, <3>5, <3>6
    <2> QED BY <2>2, <2>3
  <1>7. Steady
    BY <1>1, <1>6 DEF Steady, Listed
  <1>8. Rounds' /\ stack' \in Seq(Frames)
    <2>1. CASE left = <<>>
      BY <1>1, <1>2, <1>7, <2>1, EndRounds
    <2>2. CASE left # <<>>
      <3>1. PICK todo : todo = left
        OBVIOUS
      <3>2. todo = Top.todo /\ Top.count = ev.destruction_count /\ todo # <<>>
        BY <2>2, <3>1
      <3>3. todo \in Seq(Reported) /\ Nothing \in Running
        BY <1>3, <3>2 DEF Frames, Running
      <3>4. stack' = GoOn(todo, Nothing)
        BY <1>1, <2>2, <3>1
      <3>5. PICK s : s = stack'[Len(stack)]
        OBVIOUS
      <3>6. /\ s \in Frames /\ s.count = stack[Len(stack)].count /\ s.todo = todo
            /\ s.run = Nothing
            /\ stack' \in Seq(Frames) /\ Len(stack') = Len(stack)
            /\ \A i \in 1 .. Len(stack) - 1 : stack'[i] = stack[i]
            /\ stack'[Len(stack)] = s
        BY <1>1, <1>2, <3>3, <3>4, <3>5, GoOnFacts
      <3>7. s.run[1] # "timer"
        BY <3>6, RunFacts
      <3>8. Continued(s)
        BY <1>3, <3>2, <3>6, <3>7 DEF Continued
      <3> QED BY <1>1, <1>2, <1>7, <3>6, <3>8, ContinueRounds
    <2> QED BY <2>1, <2>2
  <1> HIDE DEF fd, left
  <1>9. Watch'
    BY <1>1, WatchSame
  <1>10. Scheduled'
    <2>1. {j \in DOMAIN te' : te'[j].st = "pending"} = {j \in DOMAIN te : te[j].st = "pending"}
      BY <1>6
    <2>2. \A j, k \in DOMAIN te : Precedes(j, k) => Precedes(j, k)'
      BY <1>6 DEF Precedes
    <2>3. \A i \in DOMAIN ev.timed_events : ev.timed_events[i] \in DOMAIN te
      BY <1>1 DEF Typed, Contexts
    <2>4. \A i, j \in DOMAIN ev.timed_events :
             i < j => Precedes(ev.timed_events[i], ev.timed_events[j])'
      BY <1>1, <2>2, <2>3 DEF Scheduled
    <2> QED BY <1>1, <2>1, <2>4 DEF Scheduled
  <1>11. Typed'
    <2>1. Contexts' = Contexts /\ Frames' = Frames /\ Timers' = Timers /\ Fd' = Fd
      BY <1>1, <1>6 DEF Contexts, Frames, Running, Reported, Timers, Fd
    <2> QED BY <1>1, <1>5, <1>6, <1>8, <2>1 DEF Typed
  <1> QED BY <1>8, <1>9, <1>10, <1>11 DEF IInv


-----------------------------------------------------------------------------
(***************************************************************************)
(* The world outside, the initial state, and the theorems.                 *)
(***************************************************************************)
\* Only the files or the clock have changed.
LEMMA OutsideInv ==
    ASSUME IInv, UNCHANGED <<env, ev, fde, epoll, te, stack>>, file' \in [Fd -> What],
           now' \in 1 .. env.time
    PROVE  IInv'
  <1>1. Typed /\ Scheduled /\ Watch /\ Rounds
    BY DEF IInv
  <1>2. Contexts' = Contexts /\ Frames' = Frames /\ Timers' = Timers /\ Fd' = Fd
    BY DEF Contexts, Frames, Running, Reported, Timers, Fd
  <1>3. Typed'
    BY <1>1, <1>2 DEF Typed
  <1>4. Steady
    BY DEF Steady, Listed
  <1>5. Scheduled'
    BY <1>1, ScheduledKept
  <1>6. Watch'
    BY <1>1, WatchSame
  <1>7. Rounds'
    BY <1>1, <1>4, RoundsKept
  <1> QED BY <1>3, <1>5, <1>6, <1>7 DEF IInv

LEMMA TickInv ==
    ASSUME IInv, UNCHANGED env, Tick
    PROVE  IInv'
  <1>1. Typed
    BY DEF IInv
  <1>2. env \in Scenario
    BY <1>1, ScenariosAssumption DEF Typed
  <1>3. env.time \in Nat
    BY <1>2, BoundsAssumption DEF Scenario
  <1>4. now' \in 1 .. env.time /\ UNCHANGED <<ev, fde, epoll, file, te, stack>>
    BY <1>1, <1>3 DEF Tick, Typed
  <1>5. file' \in [Fd -> What]
    BY <1>1, <1>4 DEF Typed
  <1> QED BY <1>4, <1>5, OutsideInv

LEMMA FileReadyInv ==
    ASSUME IInv, UNCHANGED env, NEW f \in Fd, FileReady(f)
    PROVE  IInv'
  <1>1. Typed
    BY DEF IInv
  <1>2. PICK what \in {"read", "error"} : file' = [file EXCEPT ![f] = @ \cup {what}]
    BY DEF FileReady
  <1>3. file \in [Fd -> What] /\ file[f] \in What /\ now \in 1 .. env.time
    BY <1>1 DEF Typed
  <1>4. file[f] \cup {what} \in What
    BY <1>3 DEF What, Flags
  <1>5. file' \in [Fd -> What]
    BY <1>2, <1>3, <1>4
  <1>6. UNCHANGED <<ev, fde, epoll, now, te, stack>>
    BY DEF FileReady
  <1> QED BY <1>3, <1>5, <1>6, OutsideInv

LEMMA InitInv ==
    ASSUME Init
    PROVE  IInv
  <1>1. env \in Scenario /\ env \in Scenarios
    BY ScenariosAssumption DEF Init
  <1>2. Fd \in SUBSET Descriptor /\ env.time \in Nat /\ 1 <= env.time /\ env.ops \in Nat
    BY <1>1, BoundsAssumption DEF Scenario, Fd
  <1>3. IsFiniteSet(Fd)
    BY <1>2, DescriptorAssumption, FS_Subset
  <1>4. PICK list : list = SetToSeq(Fd)
    OBVIOUS
  <1>5. list \in Seq(Fd) /\ IsInjective(list) /\ Range(list) = Fd
    BY <1>3, <1>4, SetToSeqFacts
  <1>6. ev = [fd_events |-> list, timed_events |-> <<>>, destruction_count |-> 0,
              epoll_fd |-> TRUE, ops |-> 0]
    BY <1>4 DEF Init
  <1>7. /\ te = <<>> /\ stack = <<>> /\ now = 1
        /\ file = [f \in Fd |-> {"write"}] /\ epoll = [f \in Fd |-> {"read"}]
        /\ fde = [f \in Fd |-> [gen |-> 1, flags |-> {"read"}, has_event |-> TRUE,
                                report_error |-> TRUE, got_error |-> FALSE]]
    BY DEF Init
  <1>8. Typed
    <2>1. <<>> \in Seq(DOMAIN te) /\ 0 \in 0 .. env.ops
      BY <1>2
    <2>2. ev \in Contexts
      BY <1>5, <1>6, <2>1 DEF Contexts
    <2>3. fde \in [Fd -> FdEvents]
      BY <1>7 DEF FdEvents, Flags
    <2>4. epoll \in [Fd -> SUBSET Flags] /\ file \in [Fd -> What]
      BY <1>7 DEF What, Flags
    <2>5. te \in Seq(Timers) /\ stack \in Seq(Frames) /\ now \in 1 .. env.time
      BY <1>2, <1>7
    <2> QED BY <1>1, <1>5, <1>6, <2>2, <2>3, <2>4, <2>5 DEF Typed
  <1>9. Scheduled
    <2>1. ev.timed_events = <<>> /\ DOMAIN ev.timed_events = {} /\ DOMAIN te = {}
      BY <1>6, <1>7
    <2> QED BY <2>1 DEF Scheduled, IsInjective, Range
  <1>10. Watch
    <2> SUFFICES ASSUME NEW f \in Fd
                 PROVE  Watched(Listed(f), fde[f], epoll[f])
      BY DEF Watch
    <2>1. Listed(f)
      BY <1>5, <1>6 DEF Listed
    <2>2. PICK r : r = fde[f]
      OBVIOUS
    <2>3. r.flags = {"read"} /\ r.report_error /\ r.has_event /\ epoll[f] = {"read"}
      BY <1>7, <2>2
    <2> QED BY <2>1, <2>2, <2>3 DEF Watched
  <1>11. Rounds
    BY <1>7 DEF Rounds
  <1> QED BY <1>8, <1>9, <1>10, <1>11 DEF IInv

LEMMA NextInv ==
    ASSUME IInv, [Next]_vars
    PROVE  IInv'
  <1>1. CASE UNCHANGED vars
    <2>1. UNCHANGED <<env, ev, fde, epoll, te, stack>> /\ file' = file /\ now' = now
      BY <1>1 DEF vars
    <2>2. file \in [Fd -> What] /\ now \in 1 .. env.time
      BY DEF IInv, Typed
    <2> QED BY <2>1, <2>2, OutsideInv
  <1>2. CASE Next
    <2>1. UNCHANGED env
      BY <1>2 DEF Next
    <2>2. CASE Handler
      <3>1. ASSUME NEW f \in Fd, std_event_set_fd_flags(f) PROVE IInv'
        BY <2>1, <3>1, SetFlagsInv
      <3>2. ASSUME NEW f \in Fd, std_event_fd_destructor(f) PROVE IInv'
        BY <2>1, <3>2, DestructorInv
      <3>3. ASSUME NEW f \in Fd, std_event_add_fd(f) PROVE IInv'
        BY <2>1, <3>3, AddFdInv
      <3>4. ASSUME std_event_add_timed PROVE IInv'
        BY <2>1, <3>4, AddTimedInv
      <3>5. ASSUME NEW k \in DOMAIN te, std_event_timed_destructor(k) PROVE IInv'
        BY <2>1, <3>5, TimedDestructorInv
      <3> QED BY <2>2, <3>1, <3>2, <3>3, <3>4, <3>5 DEF Handler
    <2>3. CASE handler_returns
      BY <2>1, <2>3, ReturnsInv
    <2>4. CASE std_event_loop_once
      <3>1. ASSUME std_event_loop_timer PROVE IInv'
        BY <2>1, <3>1, TimerInv
      <3>2. ASSUME epoll_event_loop PROVE IInv'
        BY <2>1, <3>2, EpollLoopInv
      <3>3. ASSUME epoll_wait_fails PROVE IInv'
        BY <2>1, <3>3, WaitFailsInv
      <3>4. ASSUME std_event_loop_select PROVE IInv'
        BY <2>1, <3>4, SelectLoopInv
      <3>5. ASSUME epoll_error PROVE IInv'
        BY <2>1, <3>5, ErrorInv
      <3>6. ASSUME call_handler PROVE IInv'
        BY <2>1, <3>6, CallInv
      <3> QED BY <2>4, <3>1, <3>2, <3>3, <3>4, <3>5, <3>6 DEF std_event_loop_once
    <2>5. CASE Tick
      BY <2>1, <2>5, TickInv
    <2>6. ASSUME NEW f \in Fd, FileReady(f) PROVE IInv'
      BY <2>1, <2>6, FileReadyInv
    <2> QED BY <1>2, <2>2, <2>3, <2>4, <2>5, <2>6 DEF Next
  <1> QED BY <1>1, <1>2

\* The list of timed events stays in order and the kernel's interest in step
\* with the list of fd events, and what a round of the loop has fetched is good
\* until an fd event is destroyed.
THEOREM Invariance == Spec => []IInv
  <1>1. Init => IInv
    BY InitInv
  <1>2. IInv /\ [Next]_vars => IInv'
    BY NextInv
  <1> QED BY <1>1, <1>2, PTL DEF Spec

\* The lists, the fd events, the kernel's tables and the stack of loops keep
\* their types, and the list of timed events holds the pending ones, each once.
THEOREM TypeCorrect == Spec => []TypeOK
  <1>1. IInv => TypeOK
    BY DEF IInv, Typed, Scheduled, TypeOK, Contexts, FdEvents, What, Timers, Frames,
           Reported, Running
  <1> QED BY <1>1, Invariance, PTL

\* No handler is called for an fd event that a handler of this loop, or of a
\* loop running inside it, has freed or replaced (destruction_count).
THEOREM FreedNeverCalled == Spec => []NoFreedEvent
  <1>1. ASSUME IInv PROVE NoFreedEvent
    <2> SUFFICES ASSUME Dispatching, NEW e, e = Head(Top.todo)
                 PROVE  Listed(e.fd) /\ fde[e.fd].gen = e.gen
      BY DEF NoFreedEvent
    <2> QED BY <1>1, DispatchFacts DEF IInv, Current
  <1> QED BY <1>1, Invariance, PTL

\* epoll watches what select would, after every sequence of adding, changing
\* and freeing events, errors and failed epoll calls.
THEOREM InterestMatches == Spec => []InterestMatchesFlags
  <1>1. IInv => InterestMatchesFlags
    BY DEF IInv, Watch, Watched, InterestMatchesFlags
  <1> QED BY <1>1, Invariance, PTL


\* The steps that leave the timed events alone start none.
LEMMA TimersSame ==
    ASSUME UNCHANGED te
    PROVE  TimerStep
  BY DEF TimerStep, Started, Pending

LEMMA TimerStepHolds ==
    ASSUME IInv, Next
    PROVE  TimerStep
  <1>1. Typed /\ Scheduled /\ Rounds /\ te \in Seq(Timers) /\ UNCHANGED env
    BY DEF IInv, Typed, Next
  <1>2. CASE std_event_add_timed
    <2>1. PICK at : te' = Append(te, [at |-> at, st |-> "pending"])
      BY <1>2 DEF std_event_add_timed
    <2>2. PICK r : r = [at |-> at, st |-> "pending"]
      OBVIOUS
    <2>3. te' = Append(te, r) /\ Len(te) \in Nat /\ DOMAIN te = 1 .. Len(te)
      BY <1>1, <2>1, <2>2
    <2>4. \A k \in DOMAIN te : te'[k] = te[k]
      BY <1>1, <2>3, AppendProperties
    <2> QED BY <2>4 DEF TimerStep, Started, Pending
  <1>3. ASSUME NEW j \in DOMAIN te, std_event_timed_destructor(j)
        PROVE  TimerStep
    <2>1. te' = [te EXCEPT ![j].st = "freed"] /\ te[j].st = "pending" /\ te[j] \in Timers
      BY <1>1, <1>3 DEF std_event_timed_destructor
    <2>2. te'[j].st = "freed" /\ \A k \in DOMAIN te : k # j => te'[k] = te[k]
      BY <1>1, <2>1 DEF Timers
    <2> QED BY <2>1, <2>2 DEF TimerStep, Started, Pending
  <1>4. CASE std_event_loop_timer
    <2>1. PICK list : list = ev.timed_events
      OBVIOUS
    <2>2. PICK j : j = Head(list)
      OBVIOUS
    <2>3. /\ list # <<>> /\ te[j].at <= now /\ te' = [te EXCEPT ![j].st = "running"]
      BY <1>4, <2>1, <2>2 DEF std_event_loop_timer, TimerDue
    <2>4. list \in Seq(DOMAIN te)
      BY <1>1, <2>1 DEF Typed, Contexts
    <2>5. j = list[1] /\ DOMAIN list = 1 .. Len(list) /\ Len(list) \in Nat \ {0}
      BY <2>2, <2>3, <2>4
    <2>6. j \in DOMAIN te /\ te[j] \in Timers /\ te[j].st = "pending"
      <3>1. j \in Range(list)
        BY <2>5 DEF Range
      <3> QED BY <1>1, <2>1, <3>1 DEF Scheduled
    <2>7. \A k \in DOMAIN te : k # j => te'[k] = te[k]
      BY <1>1, <2>3
    <2>8. InTurn(j)
      <3> SUFFICES ASSUME NEW k \in DOMAIN te, te[k].st = "pending"
                   PROVE  te[j].at < te[k].at \/ (te[j].at = te[k].at /\ j <= k)
        BY <2>3 DEF InTurn
      <3>1. PICK i \in DOMAIN list : list[i] = k
        BY <1>1, <2>1 DEF Scheduled, Range
      <3>2. CASE i = 1
        <4>1. k = j /\ j <= j
          BY <1>1, <2>5, <2>6, <3>1, <3>2
        <4> QED BY <4>1
      <3>3. CASE i # 1
        <4>1. 1 < i /\ 1 \in DOMAIN list
          BY <2>5, <3>3
        <4>2. Precedes(j, k)
          BY <1>1, <2>1, <2>5, <3>1, <4>1 DEF Scheduled
        <4>3. j < k => j <= k
          BY <1>1, <2>6
        <4> QED BY <4>2, <4>3 DEF Precedes
      <3> QED BY <3>2, <3>3
    <2> QED BY <2>6, <2>7, <2>8 DEF TimerStep, Started, Pending
  <1>5. CASE handler_returns
    <2>1. CASE te' = te
      BY <2>1, TimersSame
    <2>2. CASE te' # te
      <3>1. PICK j : te' = [te EXCEPT ![j].st = "done"]
        BY <1>5, <2>2 DEF handler_returns
      <3>2. \A k \in DOMAIN te : te[k] \in Timers
        BY <1>1
      <3>3. \A k \in DOMAIN te : te'[k] = te[k] \/ te'[k].st = "done"
        BY <1>1, <3>1, <3>2 DEF Timers
      <3> QED BY <3>3 DEF TimerStep, Started, Pending
    <2> QED BY <2>1, <2>2
  <1>6. CASE \E f \in Fd : std_event_set_fd_flags(f) \/ std_event_fd_destructor(f) \/ std_event_add_fd(f)
    <2>1. UNCHANGED te
      BY <1>6 DEF std_event_set_fd_flags, std_event_fd_destructor, std_event_add_fd, Operation
    <2> QED BY <2>1, TimersSame
  <1>7. CASE epoll_event_loop \/ epoll_wait_fails \/ std_event_loop_select \/ epoll_error
             \/ call_handler
    <2>1. UNCHANGED te
      BY <1>7 DEF epoll_event_loop, epoll_wait_fails, std_event_loop_select, epoll_error,
                  call_handler
    <2> QED BY <2>1, TimersSame
  <1>8. CASE Tick \/ \E f \in Fd : FileReady(f)
    <2>1. UNCHANGED te
      BY <1>8 DEF Tick, FileReady
    <2> QED BY <2>1, TimersSame
  <1> QED BY <1>2, <1>3, <1>4, <1>5, <1>6, <1>7, <1>8 DEF Next, Handler, std_event_loop_once

\* Timed events start in the order of their times, never early and never
\* twice, however deep the loops run inside each other.
THEOREM TimersOrdered == Spec => TimersInOrder
  <1>1. IInv /\ [Next]_vars => [TimerStep]_vars
    BY TimerStepHolds
  <1> QED BY <1>1, Invariance, PTL DEF Spec, TimersInOrder
=============================================================================
