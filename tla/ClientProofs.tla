---------------------------- MODULE ClientProofs ----------------------------
(***************************************************************************)
(* What holds of a client slot for every buffer length, every set of       *)
(* response lengths, scripts and folders, and whatever DB_app refuses.     *)
(***************************************************************************)
EXTENDS Client, WellFoundedInduction, TLAPS


(***************************************************************************)
(* Minimal counterexamples.                                                *)
(***************************************************************************)
\* A set of natural numbers that is not empty has a least element.
LEMMA LeastNatural ==
    ASSUME NEW S \in SUBSET Nat, S # {} PROVE \E m \in S : \A n \in S : m <= n
<1> DEFINE R == {p \in Nat \X Nat : p[1] < p[2]}
<1>1. IsWellFoundedOn(R, Nat)
  BY NatLessThanWellFounded, Zenon DEF OpToRel
<1>2. PICK m \in S : \A n \in S : <<n, m>> \notin R
  <2> HIDE DEF R
  <2> QED
    BY <1>1, WFMin, Zenon
<1>3. ASSUME NEW n \in S, ~(m <= n) PROVE FALSE
  <2>1. <<n, m>> \in R
    BY <1>3
  <2> QED
    BY <1>2, <2>1
<1> QED
  BY <1>3

(***************************************************************************)
(* The stream of a peer.                                                   *)
(***************************************************************************)
Size(r) == r.head + r.body

\* t is the units of the first m requests of s, request by request, each from its first unit to its last.
InOrder(t, s, m) ==
    /\ t \in Seq([req : Nat, n : Nat])
    /\ m = 0 => t = <<>>
    /\ m > 0 => t # <<>> /\ t[1] = [req |-> 1, n |-> 1] /\ t[Len(t)] = [req |-> m, n |-> Size(s[m])]
    /\ \A p \in 1..Len(t) : t[p].req \in 1..m /\ t[p].n \in 1..Size(s[t[p].req])
    /\ \A p \in 1..(Len(t) - 1) :
        t[p + 1] = IF t[p].n < Size(s[t[p].req]) THEN [req |-> t[p].req, n |-> t[p].n + 1]
                                                 ELSE [req |-> t[p].req + 1, n |-> 1]

\* The units of one request.
OneRequest(s, r) == [n \in 1..Size(s[r]) |-> [req |-> r, n |-> n]]

\* A request has at least one unit.
LEMMA RequestSize ==
    ASSUME NEW s \in Seq(Request), NEW r \in 1..Len(s)
    PROVE  /\ s[r].head \in Nat \ {0} /\ s[r].body \in Nat /\ s[r].keep \in BOOLEAN
           /\ Size(s[r]) \in Nat /\ Size(s[r]) >= 1
<1>1. s[r] \in Request
  OBVIOUS
<1> QED
  BY <1>1 DEF Request, Size

\* Its units are typed, and there are as many of them.
LEMMA OneRequestUnits ==
    ASSUME NEW s \in Seq(Request), NEW r \in 1..Len(s)
    PROVE  /\ OneRequest(s, r) \in Seq([req : Nat, n : Nat])
           /\ Len(OneRequest(s, r)) = Size(s[r])
           /\ \A n \in 1..Size(s[r]) : OneRequest(s, r)[n] = [req |-> r, n |-> n]
<1> DEFINE U == [req : Nat, n : Nat]
           z == Size(s[r])
<1>1. z \in Nat /\ r \in Nat
  BY RequestSize
<1>2. \A n \in 1..z : [req |-> r, n |-> n] \in U
  BY <1>1
<1> HIDE DEF U, z
<1>3. [n \in 1..z |-> [req |-> r, n |-> n]] \in Seq(U) /\ Len([n \in 1..z |-> [req |-> r, n |-> n]]) = z
  BY <1>1, <1>2
<1> QED
  BY <1>3 DEF OneRequest, U, z

\* A sequence behind another.
LEMMA Behind ==
    ASSUME NEW U, NEW t \in Seq(U), NEW u \in Seq(U)
    PROVE  /\ t \o u \in Seq(U) /\ Len(t \o u) = Len(t) + Len(u)
           /\ \A p \in 1..Len(t) : (t \o u)[p] = t[p]
           /\ \A p \in (Len(t) + 1)..(Len(t) + Len(u)) : (t \o u)[p] = u[p - Len(t)]
OBVIOUS

\* Its units follow on those of the requests before it.
LEMMA OneMoreInOrder ==
    ASSUME NEW s \in Seq(Request), NEW m \in 1..Len(s), NEW t, InOrder(t, s, m - 1)
    PROVE  InOrder(t \o OneRequest(s, m), s, m)
<1> DEFINE U == [req : Nat, n : Nat]
           z == Size(s[m])
           u == OneRequest(s, m)
           v == t \o u
           L == Len(t)
<1>1. z \in Nat /\ z >= 1 /\ m \in Nat /\ m >= 1 /\ m - 1 \in Nat
  BY RequestSize
<1>2. t \in Seq(U) /\ L \in Nat
  BY DEF InOrder
<1>3. u \in Seq(U) /\ Len(u) = z /\ \A n \in 1..z : u[n] = [req |-> m, n |-> n]
  BY OneRequestUnits
<1>4. /\ v \in Seq(U) /\ Len(v) = L + z
      /\ \A p \in 1..L : v[p] = t[p]
      /\ \A p \in (L + 1)..(L + z) : v[p] = u[p - L]
  <2> HIDE DEF U, u, z
  <2>1. v \in Seq(U) /\ Len(v) = L + Len(u)
    BY <1>2, <1>3, Behind
  <2>2. \A p \in 1..L : v[p] = t[p]
    BY <1>2, <1>3, Behind
  <2>3. \A p \in (L + 1)..(L + Len(u)) : v[p] = u[p - L]
    BY <1>2, <1>3, Behind
  <2> QED
    BY <1>3, <2>1, <2>2, <2>3
<1>5. \A p \in (L + 1)..(L + z) : v[p] = [req |-> m, n |-> p - L]
  <2> TAKE p \in (L + 1)..(L + z)
  <2>1. p - L \in 1..z
    BY <1>1, <1>2
  <2> QED
    BY <1>3, <1>4, <2>1
<1> HIDE DEF v, u, z, L
<1>6. v # <<>> /\ v[Len(v)] = [req |-> m, n |-> z]
  <2>1. L + z \in (L + 1)..(L + z) /\ (L + z) - L = z /\ L + z # 0
    BY <1>1, <1>2
  <2> QED
    BY <1>4, <1>5, <2>1
<1>7. v[1] = [req |-> 1, n |-> 1]
  <2>1. CASE m - 1 = 0
    <3>1. L = 0
      BY <2>1 DEF InOrder, L
    <3>2. 1 \in (L + 1)..(L + z) /\ m = 1 /\ 1 - L = 1
      BY <1>1, <2>1, <3>1
    <3> QED
      BY <1>5, <3>2
  <2>2. CASE m - 1 # 0
    <3>1. t # <<>> /\ t[1] = [req |-> 1, n |-> 1]
      BY <1>1, <2>2 DEF InOrder
    <3>2. 1 \in 1..L
      BY <1>2, <3>1 DEF L
    <3> QED
      BY <1>4, <3>1, <3>2
  <2> QED
    BY <2>1, <2>2
<1>8. \A p \in 1..Len(v) : v[p].req \in 1..m /\ v[p].n \in 1..Size(s[v[p].req])
  <2> TAKE p \in 1..Len(v)
  <2>1. p \in 1..L \/ p \in (L + 1)..(L + z)
    BY <1>1, <1>2, <1>4
  <2>2. CASE p \in 1..L
    <3>1. t[p].req \in 1..(m - 1) /\ t[p].n \in 1..Size(s[t[p].req])
      BY <2>2 DEF InOrder, L
    <3>2. t[p].req \in 1..m /\ v[p] = t[p]
      BY <1>1, <1>4, <2>2, <3>1
    <3> QED
      BY <3>1, <3>2
  <2>3. CASE p \in (L + 1)..(L + z)
    <3>1. p - L \in 1..z /\ m \in 1..m
      BY <1>1, <1>2, <2>3
    <3>2. v[p] = [req |-> m, n |-> p - L]
      BY <1>5, <2>3
    <3>3. v[p].req = m /\ v[p].n = p - L
      BY <3>2
    <3> QED
      BY <3>1, <3>3 DEF z
  <2> QED
    BY <2>1, <2>2, <2>3
<1>9. \A p \in 1..(Len(v) - 1) :
        v[p + 1] = IF v[p].n < Size(s[v[p].req]) THEN [req |-> v[p].req, n |-> v[p].n + 1]
                                                 ELSE [req |-> v[p].req + 1, n |-> 1]
  <2> TAKE p \in 1..(Len(v) - 1)
  <2>1. p \in 1..(L - 1) \/ (p = L /\ L >= 1) \/ p \in (L + 1)..(L + z - 1)
    BY <1>1, <1>2, <1>4
  <2>2. CASE p \in 1..(L - 1)
    <3>1. p \in 1..L /\ p + 1 \in 1..L
      BY <1>2, <2>2
    <3>2. v[p] = t[p] /\ v[p + 1] = t[p + 1]
      BY <1>4, <3>1
    <3> QED
      BY <2>2, <3>2 DEF InOrder, L
  <2>3. CASE p = L /\ L >= 1
    <3>1. p \in 1..L /\ p + 1 \in (L + 1)..(L + z) /\ (p + 1) - L = 1
      BY <1>1, <1>2, <2>3
    <3>2. m - 1 # 0 /\ m - 1 > 0
      BY <1>1, <1>2, <2>3 DEF InOrder, L
    <3>3. v[p] = [req |-> m - 1, n |-> Size(s[m - 1])]
      BY <1>4, <2>3, <3>1, <3>2 DEF InOrder, L
    <3>4. v[p + 1] = [req |-> m, n |-> 1]
      BY <1>5, <3>1
    <3>5. m - 1 \in 1..Len(s) /\ Size(s[m - 1]) \in Nat
      BY <1>1, <3>2, RequestSize
    <3> QED
      BY <1>1, <3>3, <3>4, <3>5
  <2>4. CASE p \in (L + 1)..(L + z - 1)
    <3>1. p \in (L + 1)..(L + z) /\ p + 1 \in (L + 1)..(L + z) /\ p - L < z /\ (p + 1) - L = (p - L) + 1
      BY <1>1, <1>2, <2>4
    <3>2. v[p] = [req |-> m, n |-> p - L] /\ v[p + 1] = [req |-> m, n |-> (p - L) + 1]
      BY <1>5, <3>1
    <3> QED
      BY <3>1, <3>2 DEF z
  <2> QED
    BY <2>1, <2>2, <2>3, <2>4
<1> QED
  <2>1. InOrder(v, s, m)
    BY <1>1, <1>4, <1>6, <1>7, <1>8, <1>9 DEF InOrder, z
  <2> QED
    BY <2>1 DEF v, u

\* FlattenSeq's recursion has a solution for any number of requests.
LEMMA FlattenExists ==
    ASSUME NEW q, NEW m \in Nat \ {0}
    PROVE  \E f : f = [i \in 1..m |-> IF i = 1 THEN q[i] ELSE f[i - 1] \o q[i]]
<1> DEFINE Sol(f, k) == f = [i \in 1..k |-> IF i = 1 THEN q[i] ELSE f[i - 1] \o q[i]]
           Bad == {k \in Nat \ {0} : ~\E f : Sol(f, k)}
<1> SUFFICES ASSUME Bad # {} PROVE FALSE
  OBVIOUS
<1>1. PICK k \in Bad : \A n \in Bad : k <= n
  <2>1. Bad \in SUBSET Nat
    OBVIOUS
  <2> HIDE DEF Bad
  <2> QED
    BY <2>1, LeastNatural
<1>2. k \in Nat \ {0} /\ ~\E f : Sol(f, k)
  OBVIOUS
<1>3. k # 1
  <2>1. Sol([i \in 1..1 |-> q[1]], 1)
    OBVIOUS
  <2> QED
    BY <1>2, <2>1
<1>4. k - 1 \in Nat \ {0} /\ k - 1 \notin Bad
  <2> HIDE DEF Bad
  <2> QED
    BY <1>1, <1>2, <1>3
<1>5. PICK g : Sol(g, k - 1)
  BY <1>4
<1> DEFINE f == [i \in 1..k |-> IF i = k THEN g[k - 1] \o q[k] ELSE g[i]]
           h == [i \in 1..k |-> IF i = 1 THEN q[i] ELSE f[i - 1] \o q[i]]
<1>6. ASSUME NEW i \in 1..k PROVE f[i] = IF i = 1 THEN q[i] ELSE f[i - 1] \o q[i]
  <2>1. CASE i = 1
    <3>1. i \in 1..(k - 1) /\ i # k
      BY <1>2, <1>3, <2>1
    <3>2. g[i] = q[i]
      BY <1>5, <2>1, <3>1
    <3> QED
      BY <2>1, <3>1, <3>2
  <2>2. CASE i # 1
    <3>1. i - 1 \in 1..k /\ i - 1 # k
      BY <1>2, <2>2
    <3>2. f[i - 1] = g[i - 1]
      BY <3>1
    <3>3. CASE i = k
      BY <2>2, <3>2, <3>3
    <3>4. CASE i # k
      <4>1. i \in 1..(k - 1)
        BY <1>2, <3>4
      <4>2. g[i] = g[i - 1] \o q[i]
        BY <1>5, <2>2, <4>1
      <4> QED
        BY <2>2, <3>2, <3>4, <4>2
    <3> QED
      BY <3>3, <3>4
  <2> QED
    BY <2>1, <2>2
<1>7. f = h
  BY <1>6, Zenon
<1>8. Sol(f, k)
  BY <1>7
<1> HIDE DEF f, h
<1> QED
  BY <1>2, <1>8

\* What the peer sends is its requests, one behind the other.
LEMMA StreamInOrder ==
    ASSUME NEW s \in Seq(Request) PROVE InOrder(StreamOf(s), s, Len(s))
<1> DEFINE q == [r \in DOMAIN s |-> OneRequest(s, r)]
           L == Len(s)
<1>0. L \in Nat /\ DOMAIN s = 1..L
  OBVIOUS
<1>1. Len(q) = L /\ \A r \in 1..L : q[r] = OneRequest(s, r)
  BY <1>0
<1>2. StreamOf(s) = FlattenSeq(q)
  BY DEF StreamOf, OneRequest, Size
<1>3. CASE L = 0
  <2>1. StreamOf(s) = q /\ q = <<>>
    BY <1>0, <1>1, <1>2, <1>3 DEF FlattenSeq
  <2> QED
    BY <1>3, <2>1 DEF InOrder
<1>4. CASE L # 0
  <2> DEFINE F == CHOOSE f : f = [i \in 1..L |-> IF i = 1 THEN q[i] ELSE f[i - 1] \o q[i]]
  <2> HIDE DEF q
  <2>1. StreamOf(s) = F[L]
    BY <1>1, <1>2, <1>4 DEF FlattenSeq
  <2>2. F = [i \in 1..L |-> IF i = 1 THEN q[i] ELSE F[i - 1] \o q[i]]
    <3>0. L \in Nat \ {0}
      BY <1>0, <1>4
    <3> HIDE DEF L
    <3>1. \E f : f = [i \in 1..L |-> IF i = 1 THEN q[i] ELSE f[i - 1] \o q[i]]
      BY <3>0, FlattenExists
    <3> QED
      BY <3>1
  <2> HIDE DEF F
  <2> DEFINE Bad == {k \in 1..L : ~InOrder(F[k], s, k)}
  <2>3. ASSUME Bad # {} PROVE FALSE
    <3>1. PICK k \in Bad : \A n \in Bad : k <= n
      <4>1. Bad \in SUBSET Nat
        BY <1>0
      <4> HIDE DEF Bad
      <4> QED
        BY <2>3, <4>1, LeastNatural
    <3>2. k \in 1..L /\ ~InOrder(F[k], s, k)
      OBVIOUS
    <3>3. CASE k = 1
      <4>1. F[k] = <<>> \o OneRequest(s, k)
        <5>1. F[k] = OneRequest(s, k)
          BY <1>1, <2>2, <3>2, <3>3
        <5>2. OneRequest(s, k) \in Seq([req : Nat, n : Nat])
          BY <3>2, OneRequestUnits
        <5> QED
          BY <5>1, <5>2
      <4>2. InOrder(<<>>, s, k - 1)
        BY <3>3 DEF InOrder
      <4> QED
        BY <3>2, <4>1, <4>2, OneMoreInOrder
    <3>4. CASE k # 1
      <4>1. k - 1 \in 1..L /\ k - 1 \notin Bad
        <5> HIDE DEF Bad
        <5> QED
          BY <1>0, <3>1, <3>2, <3>4
      <4>2. InOrder(F[k - 1], s, k - 1)
        BY <4>1
      <4>3. F[k] = F[k - 1] \o OneRequest(s, k)
        BY <1>1, <2>2, <3>2, <3>4
      <4> QED
        BY <3>2, <4>2, <4>3, OneMoreInOrder
    <3> QED
      BY <3>3, <3>4
  <2>4. L \in 1..L
    BY <1>0, <1>4
  <2> QED
    BY <2>1, <2>3, <2>4
<1> QED
  BY <1>3, <1>4

\* Within a request each unit is followed by the next.
LEMMA StreamRun ==
    ASSUME NEW s \in Seq(Request), NEW t, InOrder(t, s, Len(s)), NEW p \in 1..Len(t), NEW j \in Nat,
           p + j \in 1..Len(t), t[p].n + j <= Size(s[t[p].req])
    PROVE  t[p + j] = [req |-> t[p].req, n |-> t[p].n + j]
<1> DEFINE r == t[p].req
           n == t[p].n
           Bad == {i \in 0..j : t[p + i] # [req |-> r, n |-> n + i]}
<1> SUFFICES ASSUME Bad # {} PROVE FALSE
  OBVIOUS
<1>0. /\ Len(t) \in Nat /\ t[p] = [req |-> r, n |-> n] /\ r \in 1..Len(s) /\ n \in Nat /\ Size(s[r]) \in Nat
  <2> DEFINE U == [req : Nat, n : Nat]
  <2>1. t \in Seq(U) /\ Len(t) \in Nat
    BY DEF InOrder
  <2>2. t[p] \in U
    <3> HIDE DEF U
    <3> QED
      BY <2>1
  <2>3. r \in 1..Len(s)
    BY DEF InOrder
  <2> QED
    BY <2>1, <2>2, <2>3, RequestSize
<1>1. PICK k \in Bad : \A i \in Bad : k <= i
  <2>1. Bad \in SUBSET Nat
    OBVIOUS
  <2> HIDE DEF Bad
  <2> QED
    BY <2>1, LeastNatural
<1>2. k \in 0..j /\ t[p + k] # [req |-> r, n |-> n + k]
  OBVIOUS
<1>3. k # 0
  BY <1>0, <1>2
<1>4. k - 1 \in 0..j /\ k - 1 \notin Bad
  <2> HIDE DEF Bad
  <2> QED
    BY <1>1, <1>2, <1>3
<1>5. t[p + (k - 1)] = [req |-> r, n |-> n + (k - 1)]
  BY <1>4
<1> HIDE DEF Bad, r, n
<1>6. p + (k - 1) \in 1..(Len(t) - 1) /\ (p + (k - 1)) + 1 = p + k /\ n + (k - 1) < Size(s[r])
  <2> HIDE DEF r, n
  <2>1. p \in Nat /\ p >= 1 /\ n \in Nat /\ k \in Nat /\ k >= 1 /\ k <= j
    BY <1>0, <1>2, <1>3
  <2>2. p + j <= Len(t) /\ n + j <= Size(s[r])
    BY DEF r, n
  <2> QED
    BY <1>0, <2>1, <2>2
<1>7. t[p + k] = [req |-> r, n |-> (n + (k - 1)) + 1]
  <2> DEFINE x == p + (k - 1)
  <2>1. x \in 1..(Len(t) - 1) /\ x + 1 = p + k /\ t[x] = [req |-> r, n |-> n + (k - 1)]
    BY <1>5, <1>6
  <2>2. t[x].req = r /\ t[x].n = n + (k - 1)
    BY <2>1
  <2> HIDE DEF x
  <2>3. t[x + 1] = IF t[x].n < Size(s[t[x].req]) THEN [req |-> t[x].req, n |-> t[x].n + 1]
                                                  ELSE [req |-> t[x].req + 1, n |-> 1]
    BY <2>1 DEF InOrder
  <2> QED
    BY <1>6, <2>1, <2>2, <2>3
<1> QED
  BY <1>0, <1>2, <1>7

(***************************************************************************)
(* Types.                                                                  *)
(***************************************************************************)
\* The socket behind the slot: no more is read than has arrived.
SocketOK ==
    /\ stream \in Seq([req : Nat, n : Nat])
    /\ arrived \in 0..Len(stream)
    /\ taken \in 0..arrived

CTypeInv == ClTypeOK /\ SocketOK


\* The end of a send leaves typed values.
LEMMA ClearTypes ==
    ASSUME ClearSend PROVE draining' \in BOOLEAN /\ sendOff' \in Nat /\ sendLen' \in Nat
BY DEF ClearSend

\* _client_reset_message leaves typed values.
LEMMA ResetTypes ==
    ASSUME ResetMessage
    PROVE  /\ parsed' \in Seq(ReqUnit) /\ bufIdx' \in 0..BufLen /\ DOMAIN buf' = 1..BufLen
           /\ draining' \in BOOLEAN /\ sendOff' \in Nat /\ sendLen' \in Nat
BY ClearTypes, ResponseAssumption DEF ResetMessage, Cleared

\* read(): at least one unit, no more than fit or have arrived, all of them of this connection.
LEMMA ReadTypes ==
    ASSUME CTypeInv, NEW room \in Nat, NEW k \in ReadSizes(room)
    PROVE  /\ k \in Nat /\ k >= 1 /\ k <= room
           /\ taken + k \in 0..arrived
           /\ Incoming(k) \in Seq(ReqUnit)
           /\ Len(Incoming(k)) = k
           /\ \A i \in DOMAIN Incoming(k) : Incoming(k)[i].conn = conn
<1>1. k \in 1..(arrived - taken) /\ k <= room
  BY DEF ReadSizes, Waiting
<1>2. arrived \in Nat /\ taken \in Nat /\ arrived <= Len(stream) /\ Len(stream) \in Nat
  BY DEF CTypeInv, SocketOK
<1>3. k \in Nat /\ k >= 1 /\ taken + k \in 0..arrived
  BY <1>1, <1>2
<1>4. \A i \in 1..k : taken + i \in 1..Len(stream)
  BY <1>1, <1>2
<1> DEFINE U == [req : Nat, n : Nat]
<1>5. stream \in Seq(U)
  BY DEF CTypeInv, SocketOK
<1>6. \A i \in 1..k : stream[taken + i] \in U
  <2> HIDE DEF U
  <2> QED
    BY <1>4, <1>5
<1>7. \A i \in 1..k : [conn |-> conn, req |-> stream[taken + i].req, n |-> stream[taken + i].n] \in ReqUnit
  BY <1>6 DEF CTypeInv, ClTypeOK, ReqUnit
<1>8. Incoming(k) \in Seq(ReqUnit) /\ Len(Incoming(k)) = k
  BY <1>3, <1>7 DEF Incoming
<1> QED
  BY <1>1, <1>3, <1>8 DEF Incoming

\* Writing into the buffer does not change its length.
LEMMA FillTypes == ASSUME NEW off, NEW s PROVE DOMAIN Fill(off, s) = 1..BufLen
BY DEF Fill

\* Types: the peer sends or closes.
LEMMA TypePeer ==
    ASSUME CTypeInv, PeerSends \/ PeerCloses PROVE CTypeInv'
<1>1. CASE PeerSends
  BY <1>1 DEF CTypeInv, ClTypeOK, SocketOK, parkVars, PeerSends, ClientPc, Caller, ZipPcs, respVars
<1>2. CASE PeerCloses
  <2>1. peerOpen' = FALSE
    BY <1>2, Zenon DEF PeerCloses
  <2> QED
    BY <1>1, <2>1 DEF CTypeInv, ClTypeOK, SocketOK, parkVars, PeerCloses, ClientPc, Caller, ZipPcs, respVars
<1> QED
  BY <1>1, <1>2

\* What a peer may send on a new connection is typed.
LEMMA NewStream ==
    ASSUME NewConnection PROVE stream' \in Seq([req : Nat, n : Nat])
<1>1. script' \in Seq(Request) /\ stream' = StreamOf(script')
  BY ClientAssumption DEF NewConnection
<1>2. InOrder(StreamOf(script'), script', Len(script'))
  BY <1>1, StreamInOrder
<1> QED
  BY <1>1, <1>2 DEF InOrder

\* Types: the slot takes a connection.
LEMMA TypeAdopt ==
    ASSUME CTypeInv, Adopt PROVE CTypeInv'
<1>1. CASE OperatorAdds
  <2>1. stream' \in Seq([req : Nat, n : Nat]) /\ arrived' = 0 /\ taken' = 0 /\ peerOpen' \in BOOLEAN /\ asked' = 0
    BY <1>1, NewStream DEF OperatorAdds, NewConnection
  <2>2. SocketOK'
    BY <2>1 DEF SocketOK
  <2>3. bufIdx' \in 0..BufLen /\ DOMAIN buf' = 1..BufLen
    BY <1>1, ResponseAssumption DEF OperatorAdds, Cleared
  <2> QED
    BY <1>1, <2>1, <2>2, <2>3 DEF CTypeInv, ClTypeOK, parkVars, OperatorAdds, NewConnection, ClientPc,
      Caller, ZipPcs
<1>2. CASE WorkerAdopts
  <2>1. stream' \in Seq([req : Nat, n : Nat]) /\ arrived' = 0 /\ taken' = 0 /\ peerOpen' \in BOOLEAN /\ asked' = 0
    BY <1>2, NewStream DEF WorkerAdopts, NewConnection
  <2>2. SocketOK'
    BY <2>1 DEF SocketOK
  <2>3. ResetMessage
    BY <1>2 DEF WorkerAdopts
  <2> QED
    BY <1>2, <2>1, <2>2, <2>3, ResetTypes DEF CTypeInv, ClTypeOK, WorkerAdopts, NewConnection, ClientPc,
      Caller, ZipPcs
<1> QED
  BY <1>1, <1>2 DEF Adopt

\* Types: the slot is woken, times out or is released.
LEMMA TypeEvent ==
    ASSUME CTypeInv, client_shutdown \/ client_release_fd \/ ClientEvent \/ HangUp \/ IdleTimeout \/
      DriveUpload \/ DriveTimeout PROVE CTypeInv'
<1>1. CASE client_shutdown
  <2>1. ResetMessage
    BY <1>1 DEF client_shutdown
  <2> QED
    BY <1>1, <2>1, ResetTypes DEF CTypeInv, ClTypeOK, SocketOK, client_shutdown, DropFrame, ClientPc,
      Caller, ZipPcs, sockVars, pumpVars
<1>2. CASE client_release_fd
  <2>1. ResetMessage
    BY <1>2 DEF client_release_fd
  <2> QED
    BY <1>2, <2>1, ResetTypes DEF CTypeInv, ClTypeOK, SocketOK, client_release_fd, DropFrame, ClientPc,
      Caller, ZipPcs, sockVars, pumpVars
<1>3. CASE ClientEvent
  BY <1>3 DEF CTypeInv, ClTypeOK, SocketOK, parkVars, ClientEvent, Resume, WaitFrame, ClientPc, Caller,
    ZipPcs, sockVars, pumpVars
<1>4. CASE HangUp
  BY <1>4 DEF CTypeInv, ClTypeOK, SocketOK, parkVars, HangUp, WaitFrame, ClientPc, Caller, ZipPcs, sockVars,
    pumpVars
<1>5. CASE IdleTimeout
  BY <1>5 DEF CTypeInv, ClTypeOK, SocketOK, parkVars, IdleTimeout, WaitFrame, ClientPc, Caller, ZipPcs,
    sockVars, pumpVars
<1>6. CASE DriveUpload
  BY <1>6 DEF CTypeInv, ClTypeOK, SocketOK, parkVars, DriveUpload, WaitFrame, ClientPc, Caller, ZipPcs,
    sockVars, pumpVars
<1>7. CASE DriveTimeout
  BY <1>7 DEF CTypeInv, ClTypeOK, SocketOK, parkVars, DriveTimeout, WaitFrame, ClientPc, Caller, ZipPcs,
    sockVars, pumpVars
<1> QED
  BY <1>1, <1>2, <1>3, <1>4, <1>5, <1>6, <1>7

\* Types: client_handle, with the router and the handler.
LEMMA TypeHandle ==
    ASSUME CTypeInv, HandleStep PROVE CTypeInv'
<1>1. CASE Read
  <2>1. PICK k \in ReadSizes(BufLen - bufIdx) :
            /\ taken' = taken + k /\ buf' = Fill(bufIdx, Incoming(k))
            /\ bufIdx' = bufIdx + k /\ parsed' = parsed \o Incoming(k)
    BY <1>1 DEF Read
  <2>2. bufIdx \in Nat /\ BufLen - bufIdx \in Nat /\ BufLen \in Nat
    BY ResponseAssumption DEF CTypeInv, ClTypeOK
  <2>3. k \in Nat /\ k >= 1 /\ k <= BufLen - bufIdx /\ taken + k \in 0..arrived /\ Incoming(k) \in Seq(ReqUnit)
    BY <2>2, ReadTypes
  <2>4. taken' \in 0..arrived /\ bufIdx' \in 0..BufLen
    BY <2>1, <2>2, <2>3
  <2>5. parsed' \in Seq(ReqUnit)
    BY <2>1, <2>3 DEF CTypeInv, ClTypeOK
  <2>6. DOMAIN buf' = 1..BufLen
    BY <2>1, FillTypes
  <2> QED
    BY <1>1, <2>4, <2>5, <2>6 DEF CTypeInv, ClTypeOK, SocketOK, parkVars, Read, ClientPc, Caller, ZipPcs,
      sockVars
<1>2. CASE ReadBlocks
  BY <1>2 DEF CTypeInv, ClTypeOK, SocketOK, parkVars, ReadBlocks, WaitFrame, ClientPc, Caller, ZipPcs,
    sockVars, pumpVars
<1>3. CASE ReadFails
  BY <1>3 DEF CTypeInv, ClTypeOK, SocketOK, parkVars, ReadFails, WaitFrame, ClientPc, Caller, ZipPcs,
    sockVars, pumpVars
<1>4. CASE ParseMore
  BY <1>4 DEF CTypeInv, ClTypeOK, SocketOK, parkVars, ParseMore, WaitFrame, ClientPc, Caller, ZipPcs,
    sockVars, pumpVars
<1>5. CASE ParseStream
  BY <1>5 DEF CTypeInv, ClTypeOK, SocketOK, ParseStream, ParseFrame, SendFrame, ClientPc, Caller, ZipPcs,
    sockVars, pumpVars
<1>6. CASE ParseFails
  BY <1>6 DEF CTypeInv, ClTypeOK, SocketOK, ParseFails, ParseFrame, Error, SendFrame, Fill, Response,
    ErrLen, ClientPc, Caller, ZipPcs, sockVars, pumpVars
<1>7. CASE StoreRequest
  BY <1>7 DEF CTypeInv, ClTypeOK, SocketOK, StoreRequest, ParseFrame, SendFrame, ClientPc, Caller, ZipPcs,
    sockVars, pumpVars
<1>8. CASE srv_router_dispatch
  BY <1>8 DEF CTypeInv, ClTypeOK, SocketOK, srv_router_dispatch, Error, SendFrame, Fill, Response, ErrLen,
    ClientPc, Caller, ZipPcs, sockVars, pumpVars
<1>9. CASE handler_db_app
  BY <1>9, ResponseAssumption DEF CTypeInv, ClTypeOK, SocketOK, handler_db_app, Send, Error, SendFrame,
    Fill, Response, ErrLen, ClientPc, Caller, ZipPcs, sockVars, pumpVars
<1>10. CASE DispatchReturns
  <2>1. parsed' \in Seq(ReqUnit) /\ bufIdx' \in 0..BufLen
    BY <1>10, ResponseAssumption DEF DispatchReturns
  <2> QED
    BY <1>10, <2>1 DEF CTypeInv, ClTypeOK, SocketOK, parkVars, DispatchReturns, ClientPc, Caller, ZipPcs,
      sockVars, pumpVars
<1>11. CASE CloseReturns
  BY <1>11 DEF CTypeInv, ClTypeOK, SocketOK, parkVars, CloseReturns, WaitFrame, ClientPc, Caller, ZipPcs,
    sockVars, pumpVars
<1>12. CASE HandleFails
  <2>1. ResetMessage
    BY <1>12 DEF HandleFails
  <2> QED
    BY <1>12, <2>1, ResetTypes DEF CTypeInv, ClTypeOK, SocketOK, HandleFails, ClientPc, Caller, ZipPcs,
      sockVars, pumpVars
<1> QED
  BY <1>1, <1>2, <1>3, <1>4, <1>5, <1>6, <1>7, <1>8, <1>9, <1>10, <1>11, <1>12 DEF HandleStep

\* Types: _try_send and response_writer_resume.
LEMMA TypeWriter ==
    ASSUME CTypeInv, TrySend \/ ResumeReturns, UNCHANGED <<pumpVars, bufIdx, asked>> PROVE CTypeInv'
<1>1. CASE Write
  BY <1>1 DEF CTypeInv, ClTypeOK, SocketOK, Write, Sending, ClientPc, Caller, ZipPcs, sockVars, pumpVars
<1>2. CASE Sent
  <2>1. ClearSend
    BY <1>2 DEF Sent
  <2> QED
    BY <1>2, <2>1, ClearTypes DEF CTypeInv, ClTypeOK, SocketOK, Sent, Return, ClientPc, Caller, ZipPcs,
      sockVars, pumpVars
<1>3. CASE Park
  <2>1. draining' \in BOOLEAN
    BY <1>3 DEF Park
  <2> QED
    BY <1>3, <2>1 DEF CTypeInv, ClTypeOK, SocketOK, Park, Sending, Return, ClientPc, Caller, ZipPcs,
      sockVars, pumpVars
<1>4. CASE ParkFails
  <2>1. ClearSend
    BY <1>4 DEF ParkFails
  <2> QED
    BY <1>4, <2>1, ClearTypes DEF CTypeInv, ClTypeOK, SocketOK, ParkFails, Sending, Return, ClientPc,
      Caller, ZipPcs, sockVars, pumpVars
<1>5. CASE SendStalls
  BY <1>5 DEF CTypeInv, ClTypeOK, SocketOK, SendStalls, Sending, Return, ClientPc, Caller, ZipPcs, sockVars,
    pumpVars
<1>6. CASE WriteFails
  <2>1. ClearSend
    BY <1>6 DEF WriteFails
  <2> QED
    BY <1>6, <2>1, ClearTypes DEF CTypeInv, ClTypeOK, SocketOK, WriteFails, Sending, Return, ClientPc,
      Caller, ZipPcs, sockVars, pumpVars
<1>7. CASE ResumeReturns
  BY <1>7 DEF CTypeInv, ClTypeOK, SocketOK, parkVars, ResumeReturns, ClientPc, Caller, ZipPcs, sockVars,
    pumpVars
<1> QED
  BY <1>1, <1>2, <1>3, <1>4, <1>5, <1>6, <1>7 DEF TrySend

\* Types: the upload pump.
LEMMA TypePump ==
    ASSUME CTypeInv, PumpStep, UNCHANGED <<bufIdx, asked>> PROVE CTypeInv'
<1>1. CASE AdaptFails
  BY <1>1 DEF CTypeInv, ClTypeOK, SocketOK, AdaptFails, Error, SendFrame, Fill, Response, ErrLen, ClientPc,
    Caller, ZipPcs, sockVars, pumpVars
<1>2. CASE PumpZip
  BY <1>2 DEF CTypeInv, ClTypeOK, SocketOK, parkVars, PumpZip, ClientPc, Caller, ZipPcs, sockVars, pumpVars
<1>3. CASE ZipRefused
  BY <1>3, ResponseAssumption DEF CTypeInv, ClTypeOK, SocketOK, ZipRefused, Send, Error, SendFrame, Fill,
    Response, ErrLen, ClientPc, Caller, ZipPcs, sockVars, pumpVars
<1>4. CASE client_upload_pump
  BY <1>4, ResponseAssumption DEF CTypeInv, ClTypeOK, SocketOK, client_upload_pump, Begin, Send, Error,
    SendFrame, Fill, Response, ErrLen, ClientPc, Caller, ZipPcs, sockVars
<1>5. CASE client_upload_data_pump
  BY <1>5, ResponseAssumption DEF CTypeInv, ClTypeOK, SocketOK, client_upload_data_pump, Begin, Send, Error,
    SendFrame, Fill, Response, ErrLen, ClientPc, Caller, ZipPcs, sockVars
<1>6. CASE BodyRead
  <2>1. PICK k \in ReadSizes(BufLen) : taken' = taken + k
    BY <1>6 DEF BodyRead
  <2>2. taken' \in 0..arrived
    BY <2>1, ReadTypes, ResponseAssumption
  <2>3. DOMAIN buf' = 1..BufLen
    BY <1>6, FillTypes DEF BodyRead, Error
  <2>4. /\ sendOff' \in Nat /\ total' \in Nat /\ caller' \in Caller /\ pc' \in ClientPc
        /\ policy' \in {"none", "keep", "close"}
    <3>1. CASE Error("abort")
      BY <3>1 DEF Error, ErrLen, Caller, ClientPc
    <3>2. CASE UNCHANGED <<policy, sendOff, total, caller, pc>>
      BY <3>2 DEF CTypeInv, ClTypeOK
    <3> QED
      BY <1>6, <3>1, <3>2 DEF BodyRead
  <2>5. UNCHANGED <<managed, conn, parsed, draining, sendLen, armed, rc, sockVars, ticket, bufIdx, asked>>
    BY <1>6 DEF BodyRead, SendFrame
  <2> QED
    BY <2>2, <2>3, <2>4, <2>5 DEF CTypeInv, ClTypeOK, SocketOK, sockVars
<1>7. CASE BodyGivesUp
  BY <1>7 DEF CTypeInv, ClTypeOK, SocketOK, BodyGivesUp, Error, SendFrame, Fill, Response, ErrLen, ClientPc,
    Caller, ZipPcs, sockVars, pumpVars
<1>8. CASE BodyGone
  BY <1>8 DEF CTypeInv, ClTypeOK, SocketOK, parkVars, BodyGone, ClientPc, Caller, ZipPcs, sockVars, pumpVars
<1>9. CASE BodyDone
  BY <1>9, ResponseAssumption DEF CTypeInv, ClTypeOK, SocketOK, BodyDone, Consume, Send, Error, SendFrame,
    Fill, Response, ErrLen, ClientPc, Caller, ZipPcs, sockVars
<1>10. CASE RejectReturns
  BY <1>10 DEF CTypeInv, ClTypeOK, SocketOK, parkVars, RejectReturns, ClientPc, Caller, ZipPcs, sockVars,
    pumpVars
<1>11. CASE DrainRejectedBody
  BY <1>11, ResponseAssumption DEF CTypeInv, ClTypeOK, SocketOK, parkVars, DrainRejectedBody, ReadSizes,
    Waiting, Incoming, Fill, ClientPc, Caller, ZipPcs, sockVars
<1>12. CASE DrainEnds
  BY <1>12 DEF CTypeInv, ClTypeOK, SocketOK, parkVars, DrainEnds, ClientPc, Caller, ZipPcs, sockVars,
    pumpVars
<1>13. CASE AbortReturns
  BY <1>13 DEF CTypeInv, ClTypeOK, SocketOK, parkVars, AbortReturns, Consume, ClientPc, Caller, ZipPcs,
    sockVars
<1> QED
  BY <1>1, <1>2, <1>3, <1>4, <1>5, <1>6, <1>7, <1>8, <1>9, <1>10, <1>11, <1>12, <1>13 DEF PumpStep

\* Types: the folder pump.
LEMMA TypeZip ==
    ASSUME CTypeInv, ZipStep, UNCHANGED <<sockVars, taken, ticket, sink, bufIdx, asked>> PROVE CTypeInv'
<1>1. CASE ZipBegin
  BY <1>1 DEF CTypeInv, ClTypeOK, SocketOK, parkVars, ZipBegin, zipFrame, zipRest, NoZip, ClientPc, Caller,
    ZipPcs, sockVars
<1>2. CASE ZipHead
  BY <1>2 DEF CTypeInv, ClTypeOK, SocketOK, parkVars, ZipHead, ZipGivesUp, Released, zipFrame, zipRest,
    ClientPc, Caller, ZipPcs, sockVars
<1>3. CASE ZipEntry
  BY <1>3 DEF CTypeInv, ClTypeOK, SocketOK, parkVars, ZipEntry, ZipGivesUp, Released, WriteAll, zipFrame,
    zipRest, ClientPc, Caller, ZipPcs, sockVars
<1>4. CASE ZipData
  BY <1>4 DEF CTypeInv, ClTypeOK, SocketOK, parkVars, ZipData, ZipGivesUp, Released, WriteAll, zipRest,
    Fill, ClientPc, Caller, ZipPcs, sockVars
<1>5. CASE ZipDescriptor
  BY <1>5 DEF CTypeInv, ClTypeOK, SocketOK, parkVars, ZipDescriptor, ZipGivesUp, Released, WriteAll,
    zipFrame, zipRest, ClientPc, Caller, ZipPcs, sockVars
<1>6. CASE ZipCentral
  BY <1>6 DEF CTypeInv, ClTypeOK, SocketOK, parkVars, ZipCentral, ZipGivesUp, Released, WriteAll, zipFrame,
    zipRest, ClientPc, Caller, ZipPcs, sockVars
<1>7. CASE ZipEnd
  BY <1>7 DEF CTypeInv, ClTypeOK, SocketOK, parkVars, ZipEnd, ZipGivesUp, Released, WriteAll, zipFrame,
    zipRest, ClientPc, Caller, ZipPcs, sockVars
<1> QED
  BY <1>1, <1>2, <1>3, <1>4, <1>5, <1>6, <1>7 DEF ZipStep

\* Types: every step.
LEMMA TypeStep == ASSUME CTypeInv, CNext PROVE CTypeInv'
<1>1. CASE PeerSends \/ PeerCloses
  BY <1>1, TypePeer
<1>2. CASE Adopt
  BY <1>2, TypeAdopt
<1>3. CASE SlotStep
  <2>1. CASE HandleStep
    BY <2>1, TypeHandle
  <2>2. CASE WriterStep
    BY <2>2, TypeWriter DEF WriterStep
  <2>3. CASE PumpStep /\ UNCHANGED <<bufIdx, asked>>
    BY <2>3, TypePump
  <2>4. CASE ZipStep /\ UNCHANGED <<sockVars, taken, ticket, sink, bufIdx, asked>>
    BY <2>4, TypeZip
  <2> QED
    BY <1>3, <2>1, <2>2, <2>3, <2>4, TypeEvent DEF SlotStep
<1> QED
  BY <1>1, <1>2, <1>3 DEF CNext

(***************************************************************************)
(* Tickets.                                                                *)
(***************************************************************************)

\* Tickets: the peer sends or closes.
LEMMA TicketPeer ==
    ASSUME TicketSettledOnce, PeerSends \/ PeerCloses PROVE TicketSettledOnce'
<1>1. CASE PeerSends
  BY <1>1 DEF TicketSettledOnce, PumpHoldsTicket, PeerSends, respVars
<1>2. CASE PeerCloses
  BY <1>2 DEF TicketSettledOnce, PumpHoldsTicket, PeerCloses, respVars
<1> QED
  BY <1>1, <1>2

\* Tickets: the slot takes a connection.
LEMMA TicketAdopt ==
    ASSUME TicketSettledOnce, Adopt PROVE TicketSettledOnce'
<1>1. CASE OperatorAdds
  BY <1>1 DEF TicketSettledOnce, PumpHoldsTicket, OperatorAdds, NewConnection
<1>2. CASE WorkerAdopts
  BY <1>2 DEF TicketSettledOnce, PumpHoldsTicket, WorkerAdopts, NewConnection
<1> QED
  BY <1>1, <1>2 DEF Adopt

\* Tickets: the slot is woken, times out or is released.
LEMMA TicketEvent ==
    ASSUME TicketSettledOnce, client_shutdown \/ client_release_fd \/ ClientEvent \/ HangUp \/ IdleTimeout
      \/ DriveUpload \/ DriveTimeout PROVE TicketSettledOnce'
<1>1. CASE client_shutdown
  BY <1>1 DEF TicketSettledOnce, PumpHoldsTicket, client_shutdown, DropFrame, pumpVars
<1>2. CASE client_release_fd
  BY <1>2 DEF TicketSettledOnce, PumpHoldsTicket, client_release_fd, DropFrame, pumpVars
<1>3. CASE ClientEvent
  BY <1>3 DEF TicketSettledOnce, PumpHoldsTicket, ClientEvent, Resume, WaitFrame, pumpVars
<1>4. CASE HangUp
  BY <1>4 DEF TicketSettledOnce, PumpHoldsTicket, HangUp, WaitFrame, pumpVars
<1>5. CASE IdleTimeout
  BY <1>5 DEF TicketSettledOnce, PumpHoldsTicket, IdleTimeout, WaitFrame, pumpVars
<1>6. CASE DriveUpload
  BY <1>6 DEF TicketSettledOnce, PumpHoldsTicket, DriveUpload, WaitFrame, pumpVars
<1>7. CASE DriveTimeout
  BY <1>7 DEF TicketSettledOnce, PumpHoldsTicket, DriveTimeout, WaitFrame, pumpVars
<1> QED
  BY <1>1, <1>2, <1>3, <1>4, <1>5, <1>6, <1>7

\* Tickets: client_handle, with the router and the handler.
LEMMA TicketHandle ==
    ASSUME TicketSettledOnce, HandleStep PROVE TicketSettledOnce'
<1>1. CASE Read
  BY <1>1 DEF TicketSettledOnce, PumpHoldsTicket, Read
<1>2. CASE ReadBlocks
  BY <1>2 DEF TicketSettledOnce, PumpHoldsTicket, ReadBlocks, WaitFrame, pumpVars
<1>3. CASE ReadFails
  BY <1>3 DEF TicketSettledOnce, PumpHoldsTicket, ReadFails, WaitFrame, pumpVars
<1>4. CASE ParseMore
  BY <1>4 DEF TicketSettledOnce, PumpHoldsTicket, ParseMore, WaitFrame, pumpVars
<1>5. CASE ParseStream
  BY <1>5 DEF TicketSettledOnce, PumpHoldsTicket, ParseStream, ParseFrame, pumpVars
<1>6. CASE ParseFails
  BY <1>6 DEF TicketSettledOnce, PumpHoldsTicket, ParseFails, ParseFrame, Error, pumpVars
<1>7. CASE StoreRequest
  BY <1>7 DEF TicketSettledOnce, PumpHoldsTicket, StoreRequest, ParseFrame, pumpVars
<1>8. CASE srv_router_dispatch
  BY <1>8 DEF TicketSettledOnce, PumpHoldsTicket, srv_router_dispatch, Error, pumpVars
<1>9. CASE handler_db_app
  BY <1>9 DEF TicketSettledOnce, PumpHoldsTicket, handler_db_app, Send, Error, pumpVars
<1>10. CASE DispatchReturns
  BY <1>10 DEF TicketSettledOnce, PumpHoldsTicket, DispatchReturns, pumpVars
<1>11. CASE CloseReturns
  BY <1>11 DEF TicketSettledOnce, PumpHoldsTicket, CloseReturns, WaitFrame, pumpVars
<1>12. CASE HandleFails
  BY <1>12 DEF TicketSettledOnce, PumpHoldsTicket, HandleFails, pumpVars
<1> QED
  BY <1>1, <1>2, <1>3, <1>4, <1>5, <1>6, <1>7, <1>8, <1>9, <1>10, <1>11, <1>12 DEF HandleStep

\* Tickets: _try_send and response_writer_resume.
LEMMA TicketWriter ==
    ASSUME TicketSettledOnce, TrySend \/ ResumeReturns, UNCHANGED <<pumpVars, bufIdx, asked>> PROVE
      TicketSettledOnce'
<1>1. CASE Write
  BY <1>1 DEF TicketSettledOnce, PumpHoldsTicket, Write, Sending, pumpVars
<1>2. CASE Sent
  BY <1>2 DEF TicketSettledOnce, PumpHoldsTicket, Sent, Return, pumpVars
<1>3. CASE Park
  BY <1>3 DEF TicketSettledOnce, PumpHoldsTicket, Park, Sending, Return, pumpVars
<1>4. CASE ParkFails
  BY <1>4 DEF TicketSettledOnce, PumpHoldsTicket, ParkFails, Sending, Return, pumpVars
<1>5. CASE SendStalls
  BY <1>5 DEF TicketSettledOnce, PumpHoldsTicket, SendStalls, Sending, Return, pumpVars
<1>6. CASE WriteFails
  BY <1>6 DEF TicketSettledOnce, PumpHoldsTicket, WriteFails, Sending, Return, pumpVars
<1>7. CASE ResumeReturns
  BY <1>7 DEF TicketSettledOnce, PumpHoldsTicket, ResumeReturns, pumpVars
<1> QED
  BY <1>1, <1>2, <1>3, <1>4, <1>5, <1>6, <1>7 DEF TrySend

\* Tickets: the upload pump.
LEMMA TicketPump ==
    ASSUME TicketSettledOnce, PumpStep, UNCHANGED <<bufIdx, asked>> PROVE TicketSettledOnce'
<1>1. CASE AdaptFails
  BY <1>1 DEF TicketSettledOnce, PumpHoldsTicket, AdaptFails, Error, pumpVars
<1>2. CASE PumpZip
  BY <1>2 DEF TicketSettledOnce, PumpHoldsTicket, PumpZip, pumpVars
<1>3. CASE ZipRefused
  BY <1>3 DEF TicketSettledOnce, PumpHoldsTicket, ZipRefused, Send, Error, pumpVars
<1>4. CASE client_upload_pump
  BY <1>4 DEF TicketSettledOnce, PumpHoldsTicket, client_upload_pump, Begin, Send, Error
<1>5. CASE client_upload_data_pump
  BY <1>5 DEF TicketSettledOnce, PumpHoldsTicket, client_upload_data_pump, Begin, Send, Error
<1>6. CASE BodyRead
  BY <1>6 DEF TicketSettledOnce, PumpHoldsTicket, BodyRead, Error
<1>7. CASE BodyGivesUp
  BY <1>7 DEF TicketSettledOnce, PumpHoldsTicket, BodyGivesUp, Error, pumpVars
<1>8. CASE BodyGone
  BY <1>8 DEF TicketSettledOnce, PumpHoldsTicket, BodyGone, pumpVars
<1>9. CASE BodyDone
  BY <1>9 DEF TicketSettledOnce, PumpHoldsTicket, BodyDone, Consume, Send, Error
<1>10. CASE RejectReturns
  BY <1>10 DEF TicketSettledOnce, PumpHoldsTicket, RejectReturns, pumpVars
<1>11. CASE DrainRejectedBody
  BY <1>11 DEF TicketSettledOnce, PumpHoldsTicket, DrainRejectedBody
<1>12. CASE DrainEnds
  BY <1>12 DEF TicketSettledOnce, PumpHoldsTicket, DrainEnds, pumpVars
<1>13. CASE AbortReturns
  BY <1>13 DEF TicketSettledOnce, PumpHoldsTicket, AbortReturns, Consume
<1> QED
  BY <1>1, <1>2, <1>3, <1>4, <1>5, <1>6, <1>7, <1>8, <1>9, <1>10, <1>11, <1>12, <1>13 DEF PumpStep

\* Tickets: the folder pump.
LEMMA TicketZip ==
    ASSUME TicketSettledOnce, ZipStep, UNCHANGED <<sockVars, taken, ticket, sink, bufIdx, asked>> PROVE
      TicketSettledOnce'
<1>1. CASE ZipBegin
  BY <1>1 DEF TicketSettledOnce, PumpHoldsTicket, ZipBegin
<1>2. CASE ZipHead
  BY <1>2 DEF TicketSettledOnce, PumpHoldsTicket, ZipHead, ZipGivesUp
<1>3. CASE ZipEntry
  BY <1>3 DEF TicketSettledOnce, PumpHoldsTicket, ZipEntry, ZipGivesUp
<1>4. CASE ZipData
  BY <1>4 DEF TicketSettledOnce, PumpHoldsTicket, ZipData, ZipGivesUp
<1>5. CASE ZipDescriptor
  BY <1>5 DEF TicketSettledOnce, PumpHoldsTicket, ZipDescriptor, ZipGivesUp
<1>6. CASE ZipCentral
  BY <1>6 DEF TicketSettledOnce, PumpHoldsTicket, ZipCentral, ZipGivesUp
<1>7. CASE ZipEnd
  BY <1>7 DEF TicketSettledOnce, PumpHoldsTicket, ZipEnd, ZipGivesUp
<1> QED
  BY <1>1, <1>2, <1>3, <1>4, <1>5, <1>6, <1>7 DEF ZipStep

\* Tickets: every step.
LEMMA TicketStep == ASSUME TicketSettledOnce, CNext PROVE TicketSettledOnce'
<1>1. CASE PeerSends \/ PeerCloses
  BY <1>1, TicketPeer
<1>2. CASE Adopt
  BY <1>2, TicketAdopt
<1>3. CASE SlotStep
  <2>1. CASE HandleStep
    BY <2>1, TicketHandle
  <2>2. CASE WriterStep
    BY <2>2, TicketWriter DEF WriterStep
  <2>3. CASE PumpStep /\ UNCHANGED <<bufIdx, asked>>
    BY <2>3, TicketPump
  <2>4. CASE ZipStep /\ UNCHANGED <<sockVars, taken, ticket, sink, bufIdx, asked>>
    BY <2>4, TicketZip
  <2> QED
    BY <1>3, <2>1, <2>2, <2>3, <2>4, TicketEvent DEF SlotStep
<1> QED
  BY <1>1, <1>2, <1>3 DEF CNext

(***************************************************************************)
(* The folder pump's handle and blob.                                      *)
(***************************************************************************)
\* The handle is open, and a blob too while its data are sent, exactly as long as the pump runs.
ZipInv ==
    /\ zip = [entries |-> zip.entries, i |-> zip.i, left |-> zip.left, blob |-> zip.blob, off |-> zip.off,
              out |-> zip.out, at |-> zip.at, handle |-> zip.handle]
    /\ zip.handle # "twice"
    /\ zip.handle = "open" <=> pc \in ZipPcs
    /\ pc # "zdata" => ~zip.blob

\* The archive: the peer sends or closes.
LEMMA ArchivePeer ==
    ASSUME ZipInv, PeerSends \/ PeerCloses PROVE ZipInv'
<1>1. CASE PeerSends
  BY <1>1 DEF ZipInv, ZipPcs, PeerSends, respVars
<1>2. CASE PeerCloses
  BY <1>2 DEF ZipInv, ZipPcs, PeerCloses, respVars
<1> QED
  BY <1>1, <1>2

\* The archive: the slot takes a connection.
LEMMA ArchiveAdopt ==
    ASSUME ZipInv, Adopt PROVE ZipInv'
<1>1. CASE OperatorAdds
  BY <1>1 DEF ZipInv, ZipPcs, OperatorAdds, NewConnection, NoZip
<1>2. CASE WorkerAdopts
  BY <1>2 DEF ZipInv, ZipPcs, WorkerAdopts, NewConnection, NoZip
<1> QED
  BY <1>1, <1>2 DEF Adopt

\* The archive: the slot is woken, times out or is released.
LEMMA ArchiveEvent ==
    ASSUME ZipInv, client_shutdown \/ client_release_fd \/ ClientEvent \/ HangUp \/ IdleTimeout \/
      DriveUpload \/ DriveTimeout PROVE ZipInv'
<1>1. CASE client_shutdown
  BY <1>1 DEF ZipInv, ZipPcs, client_shutdown, DropFrame, pumpVars
<1>2. CASE client_release_fd
  BY <1>2 DEF ZipInv, ZipPcs, client_release_fd, DropFrame, pumpVars
<1>3. CASE ClientEvent
  BY <1>3 DEF ZipInv, ZipPcs, ClientEvent, Resume, WaitFrame, pumpVars
<1>4. CASE HangUp
  BY <1>4 DEF ZipInv, ZipPcs, HangUp, WaitFrame, pumpVars
<1>5. CASE IdleTimeout
  BY <1>5 DEF ZipInv, ZipPcs, IdleTimeout, WaitFrame, pumpVars
<1>6. CASE DriveUpload
  BY <1>6 DEF ZipInv, ZipPcs, DriveUpload, WaitFrame, pumpVars
<1>7. CASE DriveTimeout
  BY <1>7 DEF ZipInv, ZipPcs, DriveTimeout, WaitFrame, pumpVars
<1> QED
  BY <1>1, <1>2, <1>3, <1>4, <1>5, <1>6, <1>7

\* The archive: client_handle, with the router and the handler.
LEMMA ArchiveHandle ==
    ASSUME ZipInv, HandleStep PROVE ZipInv'
<1>1. CASE Read
  BY <1>1 DEF ZipInv, ZipPcs, Read
<1>2. CASE ReadBlocks
  BY <1>2 DEF ZipInv, ZipPcs, ReadBlocks, WaitFrame, pumpVars
<1>3. CASE ReadFails
  BY <1>3 DEF ZipInv, ZipPcs, ReadFails, WaitFrame, pumpVars
<1>4. CASE ParseMore
  BY <1>4 DEF ZipInv, ZipPcs, ParseMore, WaitFrame, pumpVars
<1>5. CASE ParseStream
  BY <1>5 DEF ZipInv, ZipPcs, ParseStream, ParseFrame, pumpVars
<1>6. CASE ParseFails
  BY <1>6 DEF ZipInv, ZipPcs, ParseFails, ParseFrame, Error, pumpVars
<1>7. CASE StoreRequest
  BY <1>7 DEF ZipInv, ZipPcs, StoreRequest, ParseFrame, pumpVars
<1>8. CASE srv_router_dispatch
  BY <1>8 DEF ZipInv, ZipPcs, srv_router_dispatch, Error, pumpVars
<1>9. CASE handler_db_app
  BY <1>9 DEF ZipInv, ZipPcs, handler_db_app, Send, Error, pumpVars
<1>10. CASE DispatchReturns
  BY <1>10 DEF ZipInv, ZipPcs, DispatchReturns, pumpVars
<1>11. CASE CloseReturns
  BY <1>11 DEF ZipInv, ZipPcs, CloseReturns, WaitFrame, pumpVars
<1>12. CASE HandleFails
  BY <1>12 DEF ZipInv, ZipPcs, HandleFails, pumpVars
<1> QED
  BY <1>1, <1>2, <1>3, <1>4, <1>5, <1>6, <1>7, <1>8, <1>9, <1>10, <1>11, <1>12 DEF HandleStep

\* The archive: _try_send and response_writer_resume.
LEMMA ArchiveWriter ==
    ASSUME ZipInv, TrySend \/ ResumeReturns, UNCHANGED <<pumpVars, bufIdx, asked>> PROVE ZipInv'
<1>1. CASE Write
  BY <1>1 DEF ZipInv, ZipPcs, Write, Sending, pumpVars
<1>2. CASE Sent
  BY <1>2 DEF ZipInv, ZipPcs, Sent, Return, pumpVars
<1>3. CASE Park
  BY <1>3 DEF ZipInv, ZipPcs, Park, Sending, Return, pumpVars
<1>4. CASE ParkFails
  BY <1>4 DEF ZipInv, ZipPcs, ParkFails, Sending, Return, pumpVars
<1>5. CASE SendStalls
  BY <1>5 DEF ZipInv, ZipPcs, SendStalls, Sending, Return, pumpVars
<1>6. CASE WriteFails
  BY <1>6 DEF ZipInv, ZipPcs, WriteFails, Sending, Return, pumpVars
<1>7. CASE ResumeReturns
  BY <1>7 DEF ZipInv, ZipPcs, ResumeReturns, pumpVars
<1> QED
  BY <1>1, <1>2, <1>3, <1>4, <1>5, <1>6, <1>7 DEF TrySend

\* The archive: the upload pump.
LEMMA ArchivePump ==
    ASSUME ZipInv, PumpStep, UNCHANGED <<bufIdx, asked>> PROVE ZipInv'
<1>1. CASE AdaptFails
  BY <1>1 DEF ZipInv, ZipPcs, AdaptFails, Error, pumpVars
<1>2. CASE PumpZip
  BY <1>2 DEF ZipInv, ZipPcs, PumpZip, pumpVars
<1>3. CASE ZipRefused
  BY <1>3 DEF ZipInv, ZipPcs, ZipRefused, Send, Error, pumpVars
<1>4. CASE client_upload_pump
  BY <1>4 DEF ZipInv, ZipPcs, client_upload_pump, Begin, Send, Error
<1>5. CASE client_upload_data_pump
  BY <1>5 DEF ZipInv, ZipPcs, client_upload_data_pump, Begin, Send, Error
<1>6. CASE BodyRead
  BY <1>6 DEF ZipInv, ZipPcs, BodyRead, Error
<1>7. CASE BodyGivesUp
  BY <1>7 DEF ZipInv, ZipPcs, BodyGivesUp, Error, pumpVars
<1>8. CASE BodyGone
  BY <1>8 DEF ZipInv, ZipPcs, BodyGone, pumpVars
<1>9. CASE BodyDone
  BY <1>9 DEF ZipInv, ZipPcs, BodyDone, Consume, Send, Error
<1>10. CASE RejectReturns
  BY <1>10 DEF ZipInv, ZipPcs, RejectReturns, pumpVars
<1>11. CASE DrainRejectedBody
  BY <1>11 DEF ZipInv, ZipPcs, DrainRejectedBody
<1>12. CASE DrainEnds
  BY <1>12 DEF ZipInv, ZipPcs, DrainEnds, pumpVars
<1>13. CASE AbortReturns
  BY <1>13 DEF ZipInv, ZipPcs, AbortReturns, Consume
<1> QED
  BY <1>1, <1>2, <1>3, <1>4, <1>5, <1>6, <1>7, <1>8, <1>9, <1>10, <1>11, <1>12, <1>13 DEF PumpStep

\* The archive: the folder pump.
LEMMA ArchiveZip ==
    ASSUME ZipInv, ZipStep, UNCHANGED <<sockVars, taken, ticket, sink, bufIdx, asked>> PROVE ZipInv'
<1>1. CASE ZipBegin
  BY <1>1 DEF ZipInv, ZipPcs, ZipBegin, NoZip
<1>2. CASE ZipHead
  BY <1>2 DEF ZipInv, ZipPcs, ZipHead, ZipGivesUp, Released
<1>3. CASE ZipEntry
  BY <1>3 DEF ZipInv, ZipPcs, ZipEntry, ZipGivesUp, Released, WriteAll
<1>4. CASE ZipData
  BY <1>4 DEF ZipInv, ZipPcs, ZipData, ZipGivesUp, Released, WriteAll
<1>5. CASE ZipDescriptor
  BY <1>5 DEF ZipInv, ZipPcs, ZipDescriptor, ZipGivesUp, Released, WriteAll
<1>6. CASE ZipCentral
  BY <1>6 DEF ZipInv, ZipPcs, ZipCentral, ZipGivesUp, Released, WriteAll
<1>7. CASE ZipEnd
  BY <1>7 DEF ZipInv, ZipPcs, ZipEnd, ZipGivesUp, Released, WriteAll
<1> QED
  BY <1>1, <1>2, <1>3, <1>4, <1>5, <1>6, <1>7 DEF ZipStep

\* The archive: every step.
LEMMA ArchiveStep == ASSUME ZipInv, CNext PROVE ZipInv'
<1>1. CASE PeerSends \/ PeerCloses
  BY <1>1, ArchivePeer
<1>2. CASE Adopt
  BY <1>2, ArchiveAdopt
<1>3. CASE SlotStep
  <2>1. CASE HandleStep
    BY <2>1, ArchiveHandle
  <2>2. CASE WriterStep
    BY <2>2, ArchiveWriter DEF WriterStep
  <2>3. CASE PumpStep /\ UNCHANGED <<bufIdx, asked>>
    BY <2>3, ArchivePump
  <2>4. CASE ZipStep /\ UNCHANGED <<sockVars, taken, ticket, sink, bufIdx, asked>>
    BY <2>4, ArchiveZip
  <2> QED
    BY <1>3, <2>1, <2>2, <2>3, <2>4, ArchiveEvent DEF SlotStep
<1> QED
  BY <1>1, <1>2, <1>3 DEF CNext

(***************************************************************************)
(* Parking.                                                                *)
(***************************************************************************)
\* Where a slot may be while a response is parked, and what the fd is armed for on the way.
ParkInv ==
    /\ rc \in {"ok", "fail"}
    /\ draining => managed /\ pc \in {"wait", "send", "ret", "drain", "remove"}
    /\ draining /\ pc # "send" => sendOff < sendLen
    /\ pc = "send" => (draining <=> caller = "resume")
    /\ pc \in {"ret", "drain"} /\ rc = "fail" => ~draining
    /\ pc = "ret" /\ rc = "ok" /\ draining => armed = "out"
    /\ managed /\ pc \notin {"idle", "remove"} =>
        armed = IF draining \/ (pc \in {"send", "ret"} /\ caller = "resume") THEN "out" ELSE "in"

\* begin: the pump goes on reading, or answers.
LEMMA ParkBegin == ASSUME ParkInv, pc = "pump", Begin PROVE ParkInv'
<1>1. ~draining /\ (managed => armed = "in") /\ rc \in {"ok", "fail"}
  BY DEF ParkInv
<1>2. UNCHANGED <<managed, draining, armed, rc>>
  BY DEF Begin, SendFrame
<1>3. pc' = "body" \/ (pc' = "send" /\ caller' # "resume")
  BY DEF Begin, Error
<1> QED
  BY <1>1, <1>2, <1>3 DEF ParkInv

\* Parking: the peer sends or closes.
LEMMA ParkPeer ==
    ASSUME ParkInv, PeerSends \/ PeerCloses PROVE ParkInv'
<1>1. CASE PeerSends
  BY <1>1 DEF ParkInv, PeerSends, parkVars, respVars
<1>2. CASE PeerCloses
  BY <1>2 DEF ParkInv, PeerCloses, parkVars, respVars
<1> QED
  BY <1>1, <1>2

\* Parking: the slot takes a connection.
LEMMA ParkAdopt ==
    ASSUME ParkInv, Adopt PROVE ParkInv'
<1>1. CASE OperatorAdds
  BY <1>1 DEF ParkInv, OperatorAdds, NewConnection, NoZip, parkVars
<1>2. CASE WorkerAdopts
  BY <1>2 DEF ParkInv, WorkerAdopts, NewConnection, ResetMessage, ClearSend, NoZip
<1> QED
  BY <1>1, <1>2 DEF Adopt

\* Parking: the slot is woken, times out or is released.
LEMMA ParkEvent ==
    ASSUME ParkInv, client_shutdown \/ client_release_fd \/ ClientEvent \/ HangUp \/ IdleTimeout \/
      DriveUpload \/ DriveTimeout PROVE ParkInv'
<1>1. CASE client_shutdown
  BY <1>1 DEF ParkInv, client_shutdown, ResetMessage, ClearSend, DropFrame
<1>2. CASE client_release_fd
  BY <1>2 DEF ParkInv, client_release_fd, ResetMessage, ClearSend, DropFrame
<1>3. CASE ClientEvent
  BY <1>3 DEF ParkInv, ClientEvent, Resume, WaitFrame, parkVars
<1>4. CASE HangUp
  BY <1>4 DEF ParkInv, HangUp, WaitFrame, parkVars
<1>5. CASE IdleTimeout
  BY <1>5 DEF ParkInv, IdleTimeout, WaitFrame, parkVars
<1>6. CASE DriveUpload
  BY <1>6 DEF ParkInv, DriveUpload, WaitFrame, parkVars
<1>7. CASE DriveTimeout
  BY <1>7 DEF ParkInv, DriveTimeout, WaitFrame, parkVars
<1> QED
  BY <1>1, <1>2, <1>3, <1>4, <1>5, <1>6, <1>7

\* Parking: client_handle, with the router and the handler.
LEMMA ParkHandle ==
    ASSUME ParkInv, HandleStep PROVE ParkInv'
<1>1. CASE Read
  BY <1>1 DEF ParkInv, Read, parkVars
<1>2. CASE ReadBlocks
  BY <1>2 DEF ParkInv, ReadBlocks, WaitFrame, parkVars
<1>3. CASE ReadFails
  BY <1>3 DEF ParkInv, ReadFails, WaitFrame, parkVars
<1>4. CASE ParseMore
  BY <1>4 DEF ParkInv, ParseMore, WaitFrame, parkVars
<1>5. CASE ParseStream
  BY <1>5 DEF ParkInv, ParseStream, ParseFrame, SendFrame
<1>6. CASE ParseFails
  BY <1>6 DEF ParkInv, ParseFails, ParseFrame, Error, SendFrame
<1>7. CASE StoreRequest
  BY <1>7 DEF ParkInv, StoreRequest, ParseFrame, SendFrame
<1>8. CASE srv_router_dispatch
  BY <1>8 DEF ParkInv, srv_router_dispatch, Error, SendFrame
<1>9. CASE handler_db_app
  BY <1>9 DEF ParkInv, handler_db_app, Send, Error, SendFrame
<1>10. CASE DispatchReturns
  BY <1>10 DEF ParkInv, DispatchReturns, parkVars
<1>11. CASE CloseReturns
  BY <1>11 DEF ParkInv, CloseReturns, WaitFrame, parkVars
<1>12. CASE HandleFails
  BY <1>12 DEF ParkInv, HandleFails, ResetMessage, ClearSend
<1> QED
  BY <1>1, <1>2, <1>3, <1>4, <1>5, <1>6, <1>7, <1>8, <1>9, <1>10, <1>11, <1>12 DEF HandleStep

\* Parking: _try_send and response_writer_resume.
LEMMA ParkWriter ==
    ASSUME ParkInv, TrySend \/ ResumeReturns, UNCHANGED <<pumpVars, bufIdx, asked>> PROVE ParkInv'
<1>1. CASE Write
  BY <1>1 DEF ParkInv, Write, Sending
<1>2. CASE Sent
  BY <1>2 DEF ParkInv, Sent, Return, ClearSend
<1>3. CASE Park
  BY <1>3 DEF ParkInv, Park, Sending, Return
<1>4. CASE ParkFails
  BY <1>4 DEF ParkInv, ParkFails, Sending, Return, ClearSend
<1>5. CASE SendStalls
  BY <1>5 DEF ParkInv, SendStalls, Sending, Return
<1>6. CASE WriteFails
  BY <1>6 DEF ParkInv, WriteFails, Sending, Return, ClearSend
<1>7. CASE ResumeReturns
  BY <1>7 DEF ParkInv, ResumeReturns, parkVars
<1> QED
  BY <1>1, <1>2, <1>3, <1>4, <1>5, <1>6, <1>7 DEF TrySend

\* Parking: the upload pump.
LEMMA ParkPump ==
    ASSUME ParkInv, PumpStep, UNCHANGED <<bufIdx, asked>> PROVE ParkInv'
<1>1. CASE AdaptFails
  BY <1>1 DEF ParkInv, AdaptFails, Error, SendFrame
<1>2. CASE PumpZip
  BY <1>2 DEF ParkInv, PumpZip, parkVars
<1>3. CASE ZipRefused
  BY <1>3 DEF ParkInv, ZipRefused, Send, Error, SendFrame
<1>4. CASE client_upload_pump
  <2>1. pc = "pump"
    BY <1>4 DEF client_upload_pump
  <2>2. CASE Send("reject") /\ SendFrame
    BY <2>1, <2>2 DEF ParkInv, Send, Error, SendFrame, parkVars, respVars
  <2>3. CASE Begin
    BY <2>1, <2>3, ParkBegin
  <2> QED
    BY <1>4, <2>2, <2>3 DEF client_upload_pump
<1>5. CASE client_upload_data_pump
  <2>1. pc = "pump"
    BY <1>5 DEF client_upload_data_pump
  <2>2. CASE Send("reject") /\ SendFrame
    BY <2>1, <2>2 DEF ParkInv, Send, Error, SendFrame, parkVars, respVars
  <2>3. CASE Begin
    BY <2>1, <2>3, ParkBegin
  <2> QED
    BY <1>5, <2>2, <2>3 DEF client_upload_data_pump
<1>6. CASE BodyRead
  BY <1>6 DEF ParkInv, BodyRead, Error, SendFrame
<1>7. CASE BodyGivesUp
  BY <1>7 DEF ParkInv, BodyGivesUp, Error, SendFrame
<1>8. CASE BodyGone
  BY <1>8 DEF ParkInv, BodyGone, parkVars
<1>9. CASE BodyDone
  BY <1>9 DEF ParkInv, BodyDone, Consume, Send, Error, SendFrame
<1>10. CASE RejectReturns
  BY <1>10 DEF ParkInv, RejectReturns, parkVars
<1>11. CASE DrainRejectedBody
  BY <1>11 DEF ParkInv, DrainRejectedBody, parkVars
<1>12. CASE DrainEnds
  BY <1>12 DEF ParkInv, DrainEnds, parkVars
<1>13. CASE AbortReturns
  BY <1>13 DEF ParkInv, AbortReturns, Consume, parkVars
<1> QED
  BY <1>1, <1>2, <1>3, <1>4, <1>5, <1>6, <1>7, <1>8, <1>9, <1>10, <1>11, <1>12, <1>13 DEF PumpStep

\* Parking: the folder pump.
LEMMA ParkZip ==
    ASSUME ParkInv, ZipStep, UNCHANGED <<sockVars, taken, ticket, sink, bufIdx, asked>> PROVE ParkInv'
<1>1. CASE ZipBegin
  BY <1>1 DEF ParkInv, ZipBegin, zipRest, NoZip, zipFrame, parkVars
<1>2. CASE ZipHead
  BY <1>2 DEF ParkInv, ZipHead, ZipGivesUp, zipRest, zipFrame, parkVars
<1>3. CASE ZipEntry
  BY <1>3 DEF ParkInv, ZipEntry, ZipGivesUp, zipRest, zipFrame, parkVars
<1>4. CASE ZipData
  BY <1>4 DEF ParkInv, ZipData, ZipGivesUp, zipRest, parkVars
<1>5. CASE ZipDescriptor
  BY <1>5 DEF ParkInv, ZipDescriptor, ZipGivesUp, zipRest, zipFrame, parkVars
<1>6. CASE ZipCentral
  BY <1>6 DEF ParkInv, ZipCentral, ZipGivesUp, zipRest, zipFrame, parkVars
<1>7. CASE ZipEnd
  BY <1>7 DEF ParkInv, ZipEnd, ZipGivesUp, zipRest, zipFrame, parkVars
<1> QED
  BY <1>1, <1>2, <1>3, <1>4, <1>5, <1>6, <1>7 DEF ZipStep

\* Parking: every step.
LEMMA ParkStep == ASSUME ParkInv, CNext PROVE ParkInv'
<1>1. CASE PeerSends \/ PeerCloses
  BY <1>1, ParkPeer
<1>2. CASE Adopt
  BY <1>2, ParkAdopt
<1>3. CASE SlotStep
  <2>1. CASE HandleStep
    BY <2>1, ParkHandle
  <2>2. CASE WriterStep
    BY <2>2, ParkWriter DEF WriterStep
  <2>3. CASE PumpStep /\ UNCHANGED <<bufIdx, asked>>
    BY <2>3, ParkPump
  <2>4. CASE ZipStep /\ UNCHANGED <<sockVars, taken, ticket, sink, bufIdx, asked>>
    BY <2>4, ParkZip
  <2> QED
    BY <1>3, <2>1, <2>2, <2>3, <2>4, ParkEvent DEF SlotStep
<1> QED
  BY <1>1, <1>2, <1>3 DEF CNext

(***************************************************************************)
(* The start of a connection.                                              *)
(***************************************************************************)

\* The slot: the peer sends or closes.
LEMMA CleanPeer ==
    ASSUME CTypeInv, SlotStartsClean, PeerSends \/ PeerCloses PROVE SlotStartsClean'
<1>1. CASE PeerSends
  BY <1>1 DEF SlotStartsClean, PeerSends, parkVars, respVars
<1>2. CASE PeerCloses
  BY <1>2 DEF SlotStartsClean, PeerCloses, parkVars, respVars
<1> QED
  BY <1>1, <1>2

\* The slot: the slot takes a connection.
LEMMA CleanAdopt ==
    ASSUME CTypeInv, SlotStartsClean, Adopt PROVE SlotStartsClean'
<1>1. CASE OperatorAdds
  BY <1>1 DEF SlotStartsClean, OperatorAdds, NewConnection, parkVars
<1>2. CASE WorkerAdopts
  BY <1>2 DEF SlotStartsClean, WorkerAdopts, NewConnection, ResetMessage, ClearSend
<1> QED
  BY <1>1, <1>2 DEF Adopt

\* The slot: the slot is woken, times out or is released.
LEMMA CleanEvent ==
    ASSUME CTypeInv, SlotStartsClean, client_shutdown \/ client_release_fd \/ ClientEvent \/ HangUp \/
      IdleTimeout \/ DriveUpload \/ DriveTimeout PROVE SlotStartsClean'
<1>1. CASE client_shutdown
  BY <1>1 DEF SlotStartsClean, client_shutdown, ResetMessage, ClearSend, DropFrame
<1>2. CASE client_release_fd
  BY <1>2 DEF SlotStartsClean, client_release_fd, ResetMessage, ClearSend, DropFrame
<1>3. CASE ClientEvent
  BY <1>3 DEF SlotStartsClean, ClientEvent, Resume, WaitFrame, parkVars
<1>4. CASE HangUp
  BY <1>4 DEF SlotStartsClean, HangUp, WaitFrame, parkVars
<1>5. CASE IdleTimeout
  BY <1>5 DEF SlotStartsClean, IdleTimeout, WaitFrame, parkVars
<1>6. CASE DriveUpload
  BY <1>6 DEF SlotStartsClean, DriveUpload, WaitFrame, parkVars
<1>7. CASE DriveTimeout
  BY <1>7 DEF SlotStartsClean, DriveTimeout, WaitFrame, parkVars
<1> QED
  BY <1>1, <1>2, <1>3, <1>4, <1>5, <1>6, <1>7

\* The slot: client_handle, with the router and the handler.
LEMMA CleanHandle ==
    ASSUME CTypeInv, SlotStartsClean, HandleStep PROVE SlotStartsClean'
<1>1. CASE Read
  <2>1. PICK k \in ReadSizes(BufLen - bufIdx) : parsed' = parsed \o Incoming(k)
    BY <1>1 DEF Read
  <2>2. pc' = "parse" /\ conn' = conn
    BY <1>1 DEF Read
  <2>3. BufLen - bufIdx \in Nat
    BY ResponseAssumption DEF CTypeInv, ClTypeOK
  <2>4. /\ Incoming(k) \in Seq(ReqUnit)
        /\ \A j \in DOMAIN Incoming(k) : Incoming(k)[j].conn = conn
    BY <2>3, ReadTypes
  <2>5. parsed \in Seq(ReqUnit) /\ \A j \in DOMAIN parsed : parsed[j].conn = conn
    BY DEF CTypeInv, ClTypeOK, SlotStartsClean
  <2>6. \A j \in DOMAIN parsed' : parsed'[j].conn = conn
    BY <2>1, <2>4, <2>5
  <2> QED
    BY <2>2, <2>6 DEF SlotStartsClean
<1>2. CASE ReadBlocks
  BY <1>2 DEF SlotStartsClean, ReadBlocks, WaitFrame, parkVars
<1>3. CASE ReadFails
  BY <1>3 DEF SlotStartsClean, ReadFails, WaitFrame, parkVars
<1>4. CASE ParseMore
  BY <1>4 DEF SlotStartsClean, ParseMore, WaitFrame, parkVars
<1>5. CASE ParseStream
  BY <1>5 DEF SlotStartsClean, ParseStream, ParseFrame, SendFrame
<1>6. CASE ParseFails
  BY <1>6 DEF SlotStartsClean, ParseFails, ParseFrame, Error, SendFrame
<1>7. CASE StoreRequest
  BY <1>7 DEF SlotStartsClean, StoreRequest, ParseFrame, SendFrame
<1>8. CASE srv_router_dispatch
  BY <1>8 DEF SlotStartsClean, srv_router_dispatch, Error, SendFrame
<1>9. CASE handler_db_app
  BY <1>9 DEF SlotStartsClean, handler_db_app, Send, Error, SendFrame
<1>10. CASE DispatchReturns
  BY <1>10 DEF SlotStartsClean, DispatchReturns, parkVars
<1>11. CASE CloseReturns
  BY <1>11 DEF SlotStartsClean, CloseReturns, WaitFrame, parkVars
<1>12. CASE HandleFails
  BY <1>12 DEF SlotStartsClean, HandleFails, ResetMessage, ClearSend
<1> QED
  BY <1>1, <1>2, <1>3, <1>4, <1>5, <1>6, <1>7, <1>8, <1>9, <1>10, <1>11, <1>12 DEF HandleStep

\* The slot: _try_send and response_writer_resume.
LEMMA CleanWriter ==
    ASSUME CTypeInv, SlotStartsClean, TrySend \/ ResumeReturns, UNCHANGED <<pumpVars, bufIdx, asked>> PROVE
      SlotStartsClean'
<1>1. CASE Write
  BY <1>1 DEF SlotStartsClean, Write, Sending
<1>2. CASE Sent
  BY <1>2 DEF SlotStartsClean, Sent, Return, ClearSend
<1>3. CASE Park
  BY <1>3 DEF SlotStartsClean, Park, Sending, Return
<1>4. CASE ParkFails
  BY <1>4 DEF SlotStartsClean, ParkFails, Sending, Return, ClearSend
<1>5. CASE SendStalls
  BY <1>5 DEF SlotStartsClean, SendStalls, Sending, Return
<1>6. CASE WriteFails
  BY <1>6 DEF SlotStartsClean, WriteFails, Sending, Return, ClearSend
<1>7. CASE ResumeReturns
  BY <1>7 DEF SlotStartsClean, ResumeReturns, parkVars
<1> QED
  BY <1>1, <1>2, <1>3, <1>4, <1>5, <1>6, <1>7 DEF TrySend

\* The slot: the upload pump.
LEMMA CleanPump ==
    ASSUME CTypeInv, SlotStartsClean, PumpStep, UNCHANGED <<bufIdx, asked>> PROVE SlotStartsClean'
<1>1. CASE AdaptFails
  BY <1>1 DEF SlotStartsClean, AdaptFails, Error, SendFrame
<1>2. CASE PumpZip
  BY <1>2 DEF SlotStartsClean, PumpZip, parkVars
<1>3. CASE ZipRefused
  BY <1>3 DEF SlotStartsClean, ZipRefused, Send, Error, SendFrame
<1>4. CASE client_upload_pump
  BY <1>4 DEF SlotStartsClean, client_upload_pump, Begin, Send, Error, SendFrame
<1>5. CASE client_upload_data_pump
  BY <1>5 DEF SlotStartsClean, client_upload_data_pump, Begin, Send, Error, SendFrame
<1>6. CASE BodyRead
  BY <1>6 DEF SlotStartsClean, BodyRead, Error, SendFrame
<1>7. CASE BodyGivesUp
  BY <1>7 DEF SlotStartsClean, BodyGivesUp, Error, SendFrame
<1>8. CASE BodyGone
  BY <1>8 DEF SlotStartsClean, BodyGone, parkVars
<1>9. CASE BodyDone
  BY <1>9 DEF SlotStartsClean, BodyDone, Send, Error, SendFrame
<1>10. CASE RejectReturns
  BY <1>10 DEF SlotStartsClean, RejectReturns, parkVars
<1>11. CASE DrainRejectedBody
  BY <1>11 DEF SlotStartsClean, DrainRejectedBody, parkVars
<1>12. CASE DrainEnds
  BY <1>12 DEF SlotStartsClean, DrainEnds, parkVars
<1>13. CASE AbortReturns
  BY <1>13 DEF SlotStartsClean, AbortReturns, parkVars
<1> QED
  BY <1>1, <1>2, <1>3, <1>4, <1>5, <1>6, <1>7, <1>8, <1>9, <1>10, <1>11, <1>12, <1>13 DEF PumpStep

\* The slot: the folder pump.
LEMMA CleanZip ==
    ASSUME CTypeInv, SlotStartsClean, ZipStep, UNCHANGED <<sockVars, taken, ticket, sink, bufIdx, asked>>
      PROVE SlotStartsClean'
<1>1. CASE ZipBegin
  BY <1>1 DEF SlotStartsClean, ZipBegin, zipFrame, zipRest, parkVars
<1>2. CASE ZipHead
  BY <1>2 DEF SlotStartsClean, ZipHead, ZipGivesUp, zipFrame, zipRest, parkVars
<1>3. CASE ZipEntry
  BY <1>3 DEF SlotStartsClean, ZipEntry, ZipGivesUp, zipFrame, zipRest, parkVars
<1>4. CASE ZipData
  BY <1>4 DEF SlotStartsClean, ZipData, ZipGivesUp, zipRest, parkVars
<1>5. CASE ZipDescriptor
  BY <1>5 DEF SlotStartsClean, ZipDescriptor, ZipGivesUp, zipFrame, zipRest, parkVars
<1>6. CASE ZipCentral
  BY <1>6 DEF SlotStartsClean, ZipCentral, ZipGivesUp, zipFrame, zipRest, parkVars
<1>7. CASE ZipEnd
  BY <1>7 DEF SlotStartsClean, ZipEnd, ZipGivesUp, zipFrame, zipRest, parkVars
<1> QED
  BY <1>1, <1>2, <1>3, <1>4, <1>5, <1>6, <1>7 DEF ZipStep

\* The slot: every step.
LEMMA CleanStep == ASSUME CTypeInv, SlotStartsClean, CNext PROVE SlotStartsClean'
<1>1. CASE PeerSends \/ PeerCloses
  BY <1>1, CleanPeer
<1>2. CASE Adopt
  BY <1>2, CleanAdopt
<1>3. CASE SlotStep
  <2>1. CASE HandleStep
    BY <2>1, CleanHandle
  <2>2. CASE WriterStep
    BY <2>2, CleanWriter DEF WriterStep
  <2>3. CASE PumpStep /\ UNCHANGED <<bufIdx, asked>>
    BY <2>3, CleanPump
  <2>4. CASE ZipStep /\ UNCHANGED <<sockVars, taken, ticket, sink, bufIdx, asked>>
    BY <2>4, CleanZip
  <2> QED
    BY <1>3, <2>1, <2>2, <2>3, <2>4, CleanEvent DEF SlotStep
<1> QED
  BY <1>1, <1>2, <1>3 DEF CNext

(***************************************************************************)
(* The sums of the archive.                                                *)
(***************************************************************************)
\* f is the running sum of the first m of the lengths w.
SumsTo(f, w, m) ==
    /\ f[0] = 0
    /\ \A n \in 1..m : f[n] = f[n - 1] + w[n]

\* The first loop of folder_zip_pump.c adds up: there is a running sum of any number of lengths.
LEMMA SumsExist ==
    ASSUME NEW w \in Seq(Nat), NEW m \in 0..Len(w)
    PROVE  \E f \in [0..m -> Nat] : SumsTo(f, w, m)
<1> DEFINE Bad == {k \in 0..Len(w) : ~\E f \in [0..k -> Nat] : SumsTo(f, w, k)}
<1> SUFFICES ASSUME Bad # {} PROVE FALSE
  OBVIOUS
<1>0. Len(w) \in Nat /\ \A n \in 1..Len(w) : w[n] \in Nat
  OBVIOUS
<1>1. PICK k \in Bad : \A n \in Bad : k <= n
  <2>1. Bad \in SUBSET Nat
    BY <1>0
  <2> HIDE DEF Bad
  <2> QED
    BY <2>1, LeastNatural
<1>2. k \in 0..Len(w) /\ k \in Nat
  BY <1>0
<1>3. k # 0
  <2>1. [n \in 0..0 |-> 0] \in [0..0 -> Nat] /\ SumsTo([n \in 0..0 |-> 0], w, 0)
    BY DEF SumsTo
  <2> QED
    BY <2>1
<1>4. k - 1 \in 0..Len(w) /\ k - 1 \notin Bad
  <2> HIDE DEF Bad
  <2> QED
    BY <1>0, <1>1, <1>2, <1>3
<1>5. PICK g \in [0..(k - 1) -> Nat] : SumsTo(g, w, k - 1)
  BY <1>4
<1> DEFINE f == [n \in 0..k |-> IF n = k THEN g[k - 1] + w[k] ELSE g[n]]
<1>6. f \in [0..k -> Nat]
  <2>1. k - 1 \in 0..(k - 1) /\ k \in 1..Len(w)
    BY <1>2, <1>3
  <2>2. g[k - 1] + w[k] \in Nat
    BY <1>0, <2>1
  <2>3. \A n \in 0..k : n # k => n \in 0..(k - 1)
    BY <1>2
  <2> QED
    BY <2>2, <2>3
<1>7. SumsTo(f, w, k)
  <2>1. f[0] = 0
    BY <1>2, <1>3, <1>5 DEF SumsTo
  <2>2. ASSUME NEW n \in 1..k PROVE f[n] = f[n - 1] + w[n]
    <3>1. n - 1 \in 0..k /\ n - 1 # k /\ n \in 0..k
      BY <1>2
    <3>2. f[n - 1] = g[n - 1]
      BY <3>1
    <3>3. CASE n = k
      BY <3>1, <3>2, <3>3
    <3>4. CASE n # k
      <4>1. n \in 1..(k - 1)
        BY <1>2, <3>4
      <4>2. f[n] = g[n]
        BY <3>1, <3>4
      <4> QED
        BY <1>5, <3>2, <4>1, <4>2 DEF SumsTo
    <3> QED
      BY <3>3, <3>4
  <2> HIDE DEF f
  <2> QED
    BY <2>1, <2>2 DEF SumsTo
<1> QED
  <2> HIDE DEF f
  <2> QED
    BY <1>1, <1>6, <1>7

\* What the loop returns: the sums start at zero and each adds one length to the one before.
LEMMA SumsAdd ==
    ASSUME NEW w \in Seq(Nat)
    PROVE  /\ SumsTo(Sums(w), w, Len(w))
           /\ \A n \in 0..Len(w) : Sums(w)[n] \in Nat
<1> DEFINE Def(f) == f = [n \in 0..Len(w) |-> IF n = 0 THEN 0 ELSE f[n - 1] + w[n]]
<1>0. Len(w) \in Nat /\ \A n \in 1..Len(w) : w[n] \in Nat
  OBVIOUS
<1>1. \E f : Def(f)
  <2>1. PICK f \in [0..Len(w) -> Nat] : SumsTo(f, w, Len(w))
    BY <1>0, SumsExist
  <2>2. \A n \in 0..Len(w) : f[n] = IF n = 0 THEN 0 ELSE f[n - 1] + w[n]
    BY <1>0, <2>1 DEF SumsTo
  <2>3. Def(f)
    BY <2>1, <2>2
  <2> QED
    BY <2>3
<1>2. Sums(w) = CHOOSE f : Def(f)
  BY DEF Sums
<1>3. Def(Sums(w))
  BY <1>1, <1>2
<1>4. SumsTo(Sums(w), w, Len(w))
  <2> DEFINE S == Sums(w)
  <2>1. S = [n \in 0..Len(w) |-> IF n = 0 THEN 0 ELSE S[n - 1] + w[n]]
    BY <1>3
  <2> HIDE DEF S
  <2>2. S[0] = 0
    BY <1>0, <2>1
  <2>3. \A n \in 1..Len(w) : S[n] = S[n - 1] + w[n]
    <3> TAKE n \in 1..Len(w)
    <3>1. n \in 0..Len(w) /\ n # 0
      BY <1>0
    <3> QED
      BY <2>1, <3>1, Zenon
  <2> QED
    BY <2>2, <2>3 DEF SumsTo, S
<1>5. ASSUME NEW n \in 0..Len(w), Sums(w)[n] \notin Nat PROVE FALSE
  <2> DEFINE Bad == {k \in 0..Len(w) : Sums(w)[k] \notin Nat}
  <2>1. PICK k \in Bad : \A j \in Bad : k <= j
    <3>1. Bad \in SUBSET Nat /\ Bad # {}
      BY <1>0, <1>5
    <3> HIDE DEF Bad
    <3> QED
      BY <3>1, LeastNatural
  <2>2. k \in 1..Len(w)
    BY <1>0, <1>4 DEF SumsTo
  <2>3. k - 1 \in 0..Len(w) /\ k - 1 \notin Bad
    BY <1>0, <2>1, <2>2
  <2>4. Sums(w)[k - 1] \in Nat
    BY <2>3
  <2> QED
    BY <1>0, <1>4, <2>2, <2>4 DEF SumsTo
<1> QED
  BY <1>4, <1>5

(***************************************************************************)
(* The lengths and offsets of the archive.                                 *)
(***************************************************************************)
\* The central directory has an entry for every one written, at the sum of those before it.
EntryStarts ==
    /\ DOMAIN zip.at = 1..(zip.i - 1)
    /\ zip.at \in Seq(Nat)
    /\ \A j \in 1..(zip.i - 1) : zip.at[j] = LocalSums(zip.entries)[j - 1]

\* How far the archive has come: the pump's count, and what the kernel has taken.
ZipProgress ==
    /\ pc \in {"zhead", "zentry"} =>
        zip.off = LocalSums(zip.entries)[zip.i - 1] /\ zip.out = zip.off
    /\ pc = "zdata" =>
        /\ zip.i <= Len(zip.entries)
        /\ zip.left \in 0..zip.entries[zip.i].sz
        /\ zip.off = LocalSums(zip.entries)[zip.i - 1] + (ZIP_LH + zip.entries[zip.i].nl + ZIP_LX)
        /\ zip.out = zip.off + (zip.entries[zip.i].sz - zip.left)
    /\ pc = "zend" =>
        /\ zip.i = Len(zip.entries) + 1
        /\ zip.out = LocalBytes(zip.entries) + CentralBytes(zip.entries)

\* Between the return of the pump and the next connection.
ZipOver ==
    zip.handle = "released" =>
        /\ pc \in {"ret", "fail", "remove", "idle"}
        /\ pc = "ret" => caller = "claimed" /\ ~draining

ZipCount ==
    /\ zip.entries \in Seq([nl : Nat, sz : Nat])
    /\ zip.i \in 1..(Len(zip.entries) + 1)
    /\ EntryStarts
    /\ ZipProgress
    /\ ZipOver
    /\ zip.handle = "released" /\ rc = "ok" =>
        zip.i = Len(zip.entries) + 1 /\ zip.out = ContentLength(zip.entries)

\* A step that is not the folder pump's: the archive is as it was, and if it is over it stays so.
ZipStays ==
    /\ zip' = zip
    /\ \/ pc' = pc /\ rc' = rc /\ caller' = caller /\ draining' = draining
       \/ /\ pc \notin ZipPcs /\ pc' \notin ZipPcs
          /\ ZipOver'
          /\ zip.handle = "released" => rc' = rc

\* Such a step keeps the count.
LEMMA ZipCountStays == ASSUME ZipCount, ZipStays PROVE ZipCount'
<1>1. EntryStarts'
  BY DEF ZipStays, ZipCount, EntryStarts
<1>2. ZipProgress'
  BY DEF ZipStays, ZipCount, ZipProgress, ZipPcs
<1>3. ZipOver'
  BY DEF ZipStays, ZipCount, ZipOver
<1>4. zip'.handle = "released" => zip.handle = "released" /\ rc' = rc
  BY DEF ZipStays
<1> QED
  BY <1>1, <1>2, <1>3, <1>4 DEF ZipStays, ZipCount

\* Outside the folder pump: the peer sends or closes.
LEMMA ElsewherePeer ==
    ASSUME ZipOver, PeerSends \/ PeerCloses PROVE ZipStays
<1>1. CASE PeerSends
  BY <1>1 DEF ZipOver, ZipStays, ZipPcs, parkVars, respVars, sockVars, pumpVars, PeerSends
<1>2. CASE PeerCloses
  BY <1>2 DEF ZipOver, ZipStays, ZipPcs, parkVars, respVars, sockVars, pumpVars, PeerCloses
<1> QED
  BY <1>1, <1>2

\* Outside the folder pump: the slot is woken, times out or is released.
LEMMA ElsewhereEvent ==
    ASSUME ZipOver, client_shutdown \/ client_release_fd \/ ClientEvent \/ HangUp \/ IdleTimeout \/
      DriveUpload \/ DriveTimeout PROVE ZipStays
<1>1. CASE client_shutdown
  BY <1>1 DEF ZipOver, ZipStays, ZipPcs, parkVars, respVars, sockVars, pumpVars, client_shutdown,
    ResetMessage, ClearSend, DropFrame
<1>2. CASE client_release_fd
  BY <1>2 DEF ZipOver, ZipStays, ZipPcs, parkVars, respVars, sockVars, pumpVars, client_release_fd,
    ResetMessage, ClearSend, DropFrame
<1>3. CASE ClientEvent
  BY <1>3 DEF ZipOver, ZipStays, ZipPcs, parkVars, respVars, sockVars, pumpVars, ClientEvent, Resume,
    WaitFrame
<1>4. CASE HangUp
  BY <1>4 DEF ZipOver, ZipStays, ZipPcs, parkVars, respVars, sockVars, pumpVars, HangUp, WaitFrame
<1>5. CASE IdleTimeout
  BY <1>5 DEF ZipOver, ZipStays, ZipPcs, parkVars, respVars, sockVars, pumpVars, IdleTimeout, WaitFrame
<1>6. CASE DriveUpload
  BY <1>6 DEF ZipOver, ZipStays, ZipPcs, parkVars, respVars, sockVars, pumpVars, DriveUpload, WaitFrame
<1>7. CASE DriveTimeout
  BY <1>7 DEF ZipOver, ZipStays, ZipPcs, parkVars, respVars, sockVars, pumpVars, DriveTimeout, WaitFrame
<1> QED
  BY <1>1, <1>2, <1>3, <1>4, <1>5, <1>6, <1>7

\* Outside the folder pump: client_handle, with the router and the handler.
LEMMA ElsewhereHandle ==
    ASSUME ZipOver, HandleStep PROVE ZipStays
<1>1. CASE Read
  BY <1>1 DEF ZipOver, ZipStays, ZipPcs, parkVars, respVars, sockVars, pumpVars, Read
<1>2. CASE ReadBlocks
  BY <1>2 DEF ZipOver, ZipStays, ZipPcs, parkVars, respVars, sockVars, pumpVars, ReadBlocks, WaitFrame
<1>3. CASE ReadFails
  BY <1>3 DEF ZipOver, ZipStays, ZipPcs, parkVars, respVars, sockVars, pumpVars, ReadFails, WaitFrame
<1>4. CASE ParseMore
  BY <1>4 DEF ZipOver, ZipStays, ZipPcs, parkVars, respVars, sockVars, pumpVars, ParseMore, WaitFrame
<1>5. CASE ParseStream
  BY <1>5 DEF ZipOver, ZipStays, ZipPcs, parkVars, respVars, sockVars, pumpVars, ParseStream, ParseFrame,
    SendFrame
<1>6. CASE ParseFails
  BY <1>6 DEF ZipOver, ZipStays, ZipPcs, parkVars, respVars, sockVars, pumpVars, ParseFails, ParseFrame,
    Error, SendFrame
<1>7. CASE StoreRequest
  BY <1>7 DEF ZipOver, ZipStays, ZipPcs, parkVars, respVars, sockVars, pumpVars, StoreRequest, ParseFrame,
    SendFrame
<1>8. CASE srv_router_dispatch
  BY <1>8 DEF ZipOver, ZipStays, ZipPcs, parkVars, respVars, sockVars, pumpVars, srv_router_dispatch,
    Error, SendFrame
<1>9. CASE handler_db_app
  BY <1>9 DEF ZipOver, ZipStays, ZipPcs, parkVars, respVars, sockVars, pumpVars, handler_db_app, Send,
    Error, SendFrame
<1>10. CASE DispatchReturns
  BY <1>10 DEF ZipOver, ZipStays, ZipPcs, parkVars, respVars, sockVars, pumpVars, DispatchReturns
<1>11. CASE CloseReturns
  BY <1>11 DEF ZipOver, ZipStays, ZipPcs, parkVars, respVars, sockVars, pumpVars, CloseReturns, WaitFrame
<1>12. CASE HandleFails
  BY <1>12 DEF ZipOver, ZipStays, ZipPcs, parkVars, respVars, sockVars, pumpVars, HandleFails,
    ResetMessage, ClearSend
<1> QED
  BY <1>1, <1>2, <1>3, <1>4, <1>5, <1>6, <1>7, <1>8, <1>9, <1>10, <1>11, <1>12 DEF HandleStep

\* Outside the folder pump: _try_send and response_writer_resume.
LEMMA ElsewhereWriter ==
    ASSUME ZipOver, TrySend \/ ResumeReturns, UNCHANGED <<pumpVars, bufIdx, asked>> PROVE ZipStays
<1>1. CASE Write
  BY <1>1 DEF ZipOver, ZipStays, ZipPcs, parkVars, respVars, sockVars, pumpVars, Write, Sending
<1>2. CASE Sent
  BY <1>2 DEF ZipOver, ZipStays, ZipPcs, parkVars, respVars, sockVars, pumpVars, Sent, Sending, Return,
    ClearSend
<1>3. CASE Park
  BY <1>3 DEF ZipOver, ZipStays, ZipPcs, parkVars, respVars, sockVars, pumpVars, Park, Sending, Return,
    ClearSend
<1>4. CASE ParkFails
  BY <1>4 DEF ZipOver, ZipStays, ZipPcs, parkVars, respVars, sockVars, pumpVars, ParkFails, Sending,
    Return, ClearSend
<1>5. CASE SendStalls
  BY <1>5 DEF ZipOver, ZipStays, ZipPcs, parkVars, respVars, sockVars, pumpVars, SendStalls, Sending,
    Return, ClearSend
<1>6. CASE WriteFails
  BY <1>6 DEF ZipOver, ZipStays, ZipPcs, parkVars, respVars, sockVars, pumpVars, WriteFails, Sending,
    Return, ClearSend
<1>7. CASE ResumeReturns
  BY <1>7 DEF ZipOver, ZipStays, ZipPcs, parkVars, respVars, sockVars, pumpVars, ResumeReturns
<1> QED
  BY <1>1, <1>2, <1>3, <1>4, <1>5, <1>6, <1>7 DEF TrySend

\* Outside the folder pump: the upload pump.
LEMMA ElsewherePump ==
    ASSUME ZipOver, PumpStep, UNCHANGED <<bufIdx, asked>> PROVE ZipStays
<1>1. CASE AdaptFails
  BY <1>1 DEF ZipOver, ZipStays, ZipPcs, parkVars, respVars, sockVars, pumpVars, AdaptFails, Error,
    SendFrame
<1>2. CASE PumpZip
  BY <1>2 DEF ZipOver, ZipStays, ZipPcs, parkVars, respVars, sockVars, pumpVars, PumpZip
<1>3. CASE ZipRefused
  BY <1>3 DEF ZipOver, ZipStays, ZipPcs, parkVars, respVars, sockVars, pumpVars, ZipRefused, Send, Error,
    SendFrame
<1>4. CASE client_upload_pump
  BY <1>4 DEF ZipOver, ZipStays, ZipPcs, parkVars, respVars, sockVars, pumpVars, client_upload_pump,
    Begin, Send, Error, SendFrame
<1>5. CASE client_upload_data_pump
  BY <1>5 DEF ZipOver, ZipStays, ZipPcs, parkVars, respVars, sockVars, pumpVars, client_upload_data_pump,
    Begin, Send, Error, SendFrame
<1>6. CASE BodyRead
  BY <1>6 DEF ZipOver, ZipStays, ZipPcs, parkVars, respVars, sockVars, pumpVars, BodyRead, Error,
    SendFrame
<1>7. CASE BodyGivesUp
  BY <1>7 DEF ZipOver, ZipStays, ZipPcs, parkVars, respVars, sockVars, pumpVars, BodyGivesUp, Error,
    SendFrame
<1>8. CASE BodyGone
  BY <1>8 DEF ZipOver, ZipStays, ZipPcs, parkVars, respVars, sockVars, pumpVars, BodyGone
<1>9. CASE BodyDone
  BY <1>9 DEF ZipOver, ZipStays, ZipPcs, parkVars, respVars, sockVars, pumpVars, BodyDone, Consume, Send,
    Error, SendFrame
<1>10. CASE RejectReturns
  BY <1>10 DEF ZipOver, ZipStays, ZipPcs, parkVars, respVars, sockVars, pumpVars, RejectReturns
<1>11. CASE DrainRejectedBody
  BY <1>11 DEF ZipOver, ZipStays, ZipPcs, parkVars, respVars, sockVars, pumpVars, DrainRejectedBody
<1>12. CASE DrainEnds
  BY <1>12 DEF ZipOver, ZipStays, ZipPcs, parkVars, respVars, sockVars, pumpVars, DrainEnds
<1>13. CASE AbortReturns
  BY <1>13 DEF ZipOver, ZipStays, ZipPcs, parkVars, respVars, sockVars, pumpVars, AbortReturns, Consume
<1> QED
  BY <1>1, <1>2, <1>3, <1>4, <1>5, <1>6, <1>7, <1>8, <1>9, <1>10, <1>11, <1>12, <1>13 DEF PumpStep

\* No folder has been asked for.
LEMMA ZipCountNone == ASSUME (zip = NoZip)', (pc \notin ZipPcs)' PROVE ZipCount'
BY DEF NoZip, ZipPcs, ZipCount, EntryStarts, ZipProgress, ZipOver

\* The sizes of the records are numbers: what precedes an entry's data, what it takes in all, and its
\* header in the central directory.
LEMMA RecordSizes ==
    ASSUME NEW e, e.nl \in Nat, e.sz \in Nat
    PROVE  /\ ZIP_LH + e.nl + ZIP_LX \in Nat
           /\ LocalSize(e) = (ZIP_LH + e.nl + ZIP_LX) + e.sz + ZIP_DD
           /\ LocalSize(e) \in Nat /\ CentralSize(e) \in Nat /\ ZIP_DD \in Nat
BY DEF LocalSize, CentralSize, ZIP_LH, ZIP_LX, ZIP_DD, ZIP_CD, ZIP_CX

\* The sums of the pump's first loop.
LEMMA LocalSumsAdd ==
    ASSUME NEW s \in Seq([nl : Nat, sz : Nat])
    PROVE  /\ Len(s) \in Nat
           /\ \A n \in 1..Len(s) : s[n].nl \in Nat /\ s[n].sz \in Nat
           /\ LocalSums(s)[0] = 0
           /\ \A n \in 0..Len(s) : LocalSums(s)[n] \in Nat
           /\ \A n \in 1..Len(s) : LocalSums(s)[n] = LocalSums(s)[n - 1] + LocalSize(s[n])
           /\ LocalBytes(s) = LocalSums(s)[Len(s)]
           /\ CentralBytes(s) \in Nat
<1> DEFINE E == [nl : Nat, sz : Nat]
           w == [i \in 1..Len(s) |-> LocalSize(s[i])]
           c == [i \in 1..Len(s) |-> CentralSize(s[i])]
<1>1. Len(s) \in Nat /\ \A n \in 1..Len(s) : s[n] \in E
  <2> HIDE DEF E
  <2>1. s \in Seq(E)
    BY DEF E
  <2> QED
    BY <2>1
<1>2. \A n \in 1..Len(s) : s[n].nl \in Nat /\ s[n].sz \in Nat
  BY <1>1
<1>3. \A n \in 1..Len(s) : LocalSize(s[n]) \in Nat /\ CentralSize(s[n]) \in Nat
  BY <1>2, RecordSizes
<1>4. w \in Seq(Nat) /\ Len(w) = Len(s) /\ c \in Seq(Nat) /\ Len(c) = Len(s)
  BY <1>1, <1>3
<1>5. \A n \in 1..Len(s) : w[n] = LocalSize(s[n])
  OBVIOUS
<1>6. LocalSums(s) = Sums(w) /\ CentralBytes(s) = Sums(c)[Len(s)]
  BY DEF LocalSums, CentralBytes
<1> HIDE DEF w, c
<1>7. /\ SumsTo(Sums(w), w, Len(s)) /\ \A n \in 0..Len(s) : Sums(w)[n] \in Nat
      /\ \A n \in 0..Len(s) : Sums(c)[n] \in Nat
  BY <1>4, SumsAdd
<1>8. CentralBytes(s) \in Nat
  BY <1>1, <1>6, <1>7
<1> QED
  BY <1>1, <1>2, <1>5, <1>6, <1>7, <1>8 DEF SumsTo, LocalBytes

\* A failing call: nothing is claimed of an archive that was cut.
LEMMA ZipCountGivesUp ==
    ASSUME ZipInv, ZipCount, ~draining, ZipGivesUp, draining' = draining PROVE ZipCount'
<1>1. zip' = [zip EXCEPT !.blob = FALSE, !.handle = Released] /\ pc' = "ret" /\ caller' = "claimed" /\ rc' = "fail"
  BY DEF ZipGivesUp
<1>2. zip'.entries = zip.entries /\ zip'.i = zip.i /\ zip'.at = zip.at
  BY <1>1 DEF ZipInv
<1> QED
  BY <1>1, <1>2 DEF ZipCount, EntryStarts, ZipProgress, ZipOver

\* The folder pump: what is written, what is counted and what was announced go together.
LEMMA ZipCountZip ==
    ASSUME ZipInv, ParkInv, ZipCount, ZipStep PROVE ZipCount'
<1> DEFINE s == zip.entries
<1>0. /\ Len(s) \in Nat /\ zip.i \in Nat /\ zip.i >= 1 /\ zip.i <= Len(s) + 1
      /\ \A n \in 1..Len(s) : s[n].nl \in Nat /\ s[n].sz \in Nat
      /\ \A n \in 0..Len(s) : LocalSums(s)[n] \in Nat
  BY LocalSumsAdd DEF ZipCount
<1>1. CASE ZipBegin
  <2>1. PICK f \in Folders : zip' = [NoZip EXCEPT !.entries = f, !.handle = "open"]
    BY <1>1 DEF ZipBegin
  <2>2. f \in Seq([nl : Nat, sz : Nat])
    BY FolderAssumption
  <2>3. zip'.entries = f /\ zip'.i = 1 /\ zip'.off = 0 /\ zip'.out = 0 /\ zip'.at = <<>> /\ zip'.handle = "open"
    BY <2>1 DEF NoZip
  <2>4. LocalSums(f)[0] = 0 /\ Len(f) \in Nat
    BY <2>2, LocalSumsAdd
  <2>5. EntryStarts'
    BY <2>3 DEF EntryStarts
  <2>6. ZipProgress' /\ ZipOver'
    BY <1>1, <2>3, <2>4 DEF ZipBegin, ZipProgress, ZipOver
  <2> QED
    BY <2>2, <2>3, <2>4, <2>5, <2>6 DEF ZipCount
<1>2. (~draining /\ draining' = draining /\ zip.handle = "open") \/ ZipBegin
  BY DEF ZipStep, ZipHead, ZipEntry, ZipData, ZipDescriptor, ZipCentral, ZipEnd, zipFrame, zipRest, parkVars,
    ParkInv, ZipInv, ZipPcs
<1>3. CASE ZipHead
  <2>1. CASE ZipGivesUp
    BY <1>2, <1>3, <2>1, ZipCountGivesUp DEF ZipHead, ZipBegin
  <2>2. CASE pc' = "zentry" /\ zip' = zip
    <3>1. ZipProgress' /\ ZipOver'
      BY <1>2, <1>3, <2>2 DEF ZipHead, ZipBegin, ZipProgress, ZipOver, ZipCount
    <3>2. zip.handle = "open"
      BY <1>2, <1>3 DEF ZipHead, ZipBegin
    <3> QED
      BY <2>2, <3>1, <3>2 DEF ZipCount, EntryStarts
  <2> QED
    BY <1>3, <2>1, <2>2 DEF ZipHead
<1>4. CASE ZipEntry
  <2> DEFINE e == s[zip.i]
             n == ZIP_LH + e.nl + ZIP_LX
  <2>1. CASE ZipGivesUp
    BY <1>2, <1>4, <2>1, ZipCountGivesUp DEF ZipEntry, ZipBegin
  <2>2. CASE /\ zip' = WriteAll([zip EXCEPT !.blob = TRUE, !.off = @ + n, !.left = e.sz], n)
             /\ pc' = "zdata"
    <3>1. /\ zip'.entries = s /\ zip'.i = zip.i /\ zip'.at = zip.at /\ zip'.off = zip.off + n
          /\ zip'.out = zip.out + n /\ zip'.left = e.sz /\ zip'.handle = zip.handle
      BY <2>2 DEF WriteAll, ZipInv
    <3>2. zip.i \in 1..Len(s) /\ e.nl \in Nat /\ e.sz \in Nat /\ zip.i - 1 \in 0..Len(s)
      BY <1>0, <1>4 DEF ZipEntry
    <3>3. zip.off = LocalSums(s)[zip.i - 1] /\ zip.out = zip.off /\ zip.off \in Nat /\ zip.handle = "open"
      BY <1>0, <1>2, <1>4, <3>2 DEF ZipEntry, ZipBegin, ZipCount, ZipProgress
    <3>4. n \in Nat
      BY <3>2, RecordSizes
    <3>5. zip'.off = LocalSums(s)[zip.i - 1] + n /\ zip'.left \in 0..e.sz /\ zip'.out = zip'.off + (e.sz - zip'.left)
      <4> HIDE DEF e, n
      <4> QED
        BY <3>1, <3>2, <3>3, <3>4
    <3>6. ZipProgress'
      <4>1. zip'.i <= Len(s)
        BY <3>1, <3>2
      <4> QED
        BY <2>2, <3>1, <3>5, <4>1 DEF ZipProgress
    <3>7. ZipOver' /\ zip'.handle # "released"
      BY <3>1, <3>3 DEF ZipOver
    <3> QED
      BY <3>1, <3>6, <3>7 DEF ZipCount, EntryStarts
  <2> QED
    BY <1>4, <2>1, <2>2 DEF ZipEntry
<1>5. CASE ZipData
  <2>1. CASE ZipGivesUp
    BY <1>2, <1>5, <2>1, ZipCountGivesUp DEF ZipData, ZipBegin
  <2>2. CASE pc' = pc /\ \E k \in 1..BufLen : k <= zip.left /\ zip' = WriteAll([zip EXCEPT !.left = @ - k], k)
    <3>1. PICK k \in 1..BufLen : k <= zip.left /\ zip' = WriteAll([zip EXCEPT !.left = @ - k], k)
      BY <2>2
    <3>2. /\ zip'.entries = s /\ zip'.i = zip.i /\ zip'.at = zip.at /\ zip'.off = zip.off
          /\ zip'.out = zip.out + k /\ zip'.left = zip.left - k /\ zip'.handle = zip.handle
      BY <3>1 DEF WriteAll, ZipInv
    <3>3. pc = "zdata" /\ zip.handle = "open"
      BY <1>2, <1>5 DEF ZipData, ZipBegin
    <3>4. zip.i \in 1..Len(s) /\ s[zip.i].sz \in Nat /\ s[zip.i].nl \in Nat /\ LocalSums(s)[zip.i - 1] \in Nat
      <4>1. zip.i <= Len(s)
        BY <3>3 DEF ZipCount, ZipProgress
      <4>2. zip.i \in 1..Len(s) /\ zip.i - 1 \in 0..Len(s)
        BY <1>0, <4>1
      <4> QED
        BY <1>0, <4>2
    <3>5. /\ zip.left \in 0..s[zip.i].sz
          /\ zip.off = LocalSums(s)[zip.i - 1] + (ZIP_LH + s[zip.i].nl + ZIP_LX)
          /\ zip.out = zip.off + (s[zip.i].sz - zip.left)
      BY <3>3 DEF ZipCount, ZipProgress
    <3>6. zip.off \in Nat
      <4> DEFINE base == LocalSums(s)[zip.i - 1]
                 nl == s[zip.i].nl
      <4>1. base \in Nat /\ nl \in Nat /\ zip.off = base + (ZIP_LH + nl + ZIP_LX)
        BY <3>4, <3>5
      <4> HIDE DEF base, nl
      <4> QED
        BY <4>1 DEF ZIP_LH, ZIP_LX
    <3>7. zip'.left \in 0..s[zip.i].sz /\ zip'.out = zip'.off + (s[zip.i].sz - zip'.left)
      <4> DEFINE sz == s[zip.i].sz
                 left == zip.left
                 off == zip.off
      <4>1. k \in Nat /\ k >= 1 /\ k <= left /\ left \in 0..sz /\ sz \in Nat /\ off \in Nat
        BY <3>1, <3>4, <3>5, <3>6, ResponseAssumption
      <4>2. zip'.left = left - k /\ zip'.out = (off + (sz - left)) + k /\ zip'.off = off
        BY <3>2, <3>5
      <4> HIDE DEF sz, left, off
      <4>3. zip'.left \in 0..sz /\ zip'.out = off + (sz - zip'.left)
        BY <4>1, <4>2
      <4> QED
        BY <4>2, <4>3 DEF sz
    <3>8. ZipProgress'
      <4>1. zip'.i <= Len(s) /\ pc' = "zdata"
        BY <2>2, <3>2, <3>3, <3>4
      <4>2. zip'.off = LocalSums(s)[zip.i - 1] + (ZIP_LH + s[zip.i].nl + ZIP_LX)
        BY <3>2, <3>5
      <4> QED
        BY <3>2, <3>7, <4>1, <4>2 DEF ZipProgress
    <3>9. ZipOver' /\ zip'.handle # "released"
      BY <3>2, <3>3 DEF ZipOver
    <3> QED
      BY <3>2, <3>8, <3>9 DEF ZipCount, EntryStarts
  <2> QED
    BY <1>5, <2>1, <2>2 DEF ZipData
<1>6. CASE ZipDescriptor
  <2> DEFINE e == s[zip.i]
             start == zip.off - (ZIP_LH + e.nl + ZIP_LX)
  <2>1. CASE ZipGivesUp
    BY <1>2, <1>6, <2>1, ZipCountGivesUp DEF ZipDescriptor, ZipBegin
  <2>2. CASE /\ zip' = WriteAll([zip EXCEPT !.blob = FALSE, !.off = @ + e.sz + ZIP_DD,
                                            !.at = Append(@, start), !.i = @ + 1], ZIP_DD)
             /\ pc' = "zentry"
    <3>1. /\ zip'.entries = s /\ zip'.i = zip.i + 1 /\ zip'.at = Append(zip.at, start)
          /\ zip'.off = zip.off + e.sz + ZIP_DD /\ zip'.out = zip.out + ZIP_DD /\ zip'.handle = zip.handle
      BY <2>2 DEF WriteAll, ZipInv
    <3>2. pc = "zdata" /\ zip.left = 0 /\ zip.handle = "open"
      BY <1>2, <1>6 DEF ZipDescriptor, ZipBegin
    <3>3. zip.i \in 1..Len(s) /\ e.sz \in Nat /\ e.nl \in Nat /\ LocalSums(s)[zip.i - 1] \in Nat
      <4>1. zip.i <= Len(s)
        BY <3>2 DEF ZipCount, ZipProgress
      <4>2. zip.i \in 1..Len(s) /\ zip.i - 1 \in 0..Len(s)
        BY <1>0, <4>1
      <4> QED
        BY <1>0, <4>2
    <3>4. /\ zip.off = LocalSums(s)[zip.i - 1] + (ZIP_LH + e.nl + ZIP_LX)
          /\ zip.out = zip.off + (e.sz - zip.left)
      BY <3>2 DEF ZipCount, ZipProgress
    <3>5. LocalSums(s)[zip.i] = LocalSums(s)[zip.i - 1] + LocalSize(e)
      BY <3>3, LocalSumsAdd DEF ZipCount
    <3> DEFINE n == ZIP_LH + e.nl + ZIP_LX
               before == LocalSums(s)[zip.i - 1]
               sz == e.sz
    <3>6. /\ start = before /\ zip.off \in Nat /\ start \in Nat
          /\ zip'.off = LocalSums(s)[zip.i] /\ zip'.out = zip'.off
      <4>1. n \in Nat /\ before \in Nat /\ sz \in Nat /\ ZIP_DD \in Nat /\ LocalSize(e) = n + sz + ZIP_DD
        BY <3>3, RecordSizes
      <4>2. zip.off = before + n /\ zip.out = zip.off + (sz - 0) /\ start = zip.off - n
        BY <3>2, <3>4
      <4>3. zip'.off = zip.off + sz + ZIP_DD /\ zip'.out = zip.out + ZIP_DD
        BY <3>1
      <4>4. LocalSums(s)[zip.i] = before + LocalSize(e)
        BY <3>5
      <4> HIDE DEF n, before, sz, start, e
      <4>5. /\ start = before /\ zip.off \in Nat /\ start \in Nat
        BY <4>1, <4>2
      <4>6. zip'.off = LocalSums(s)[zip.i] /\ zip'.out = zip'.off
        BY <4>1, <4>2, <4>3, <4>4
      <4> QED
        BY <4>5, <4>6
    <3>7. zip'.off = LocalSums(s)[zip.i] /\ zip'.out = zip'.off /\ start = LocalSums(s)[zip.i - 1]
      BY <3>6
    <3>8. zip'.i \in 1..(Len(s) + 1) /\ zip'.i - 1 = zip.i
      BY <1>0, <3>1, <3>3
    <3>9. EntryStarts'
      <4> HIDE DEF start
      <4>1. zip.at \in Seq(Nat) /\ Len(zip.at) = zip.i - 1
        <5>1. zip.at \in Seq(Nat) /\ DOMAIN zip.at = 1..(zip.i - 1)
          BY DEF ZipCount, EntryStarts
        <5>2. zip.i - 1 \in Nat
          BY <1>0
        <5> QED
          BY <5>1, <5>2
      <4>2. zip'.at \in Seq(Nat) /\ DOMAIN zip'.at = 1..zip.i
        BY <1>0, <3>1, <3>6, <4>1
      <4>3. zip'.at[zip.i] = start /\ \A j \in 1..(zip.i - 1) : zip'.at[j] = zip.at[j]
        BY <1>0, <3>1, <3>6, <4>1
      <4>4. \A j \in 1..(zip.i - 1) : zip.at[j] = LocalSums(s)[j - 1]
        BY DEF ZipCount, EntryStarts
      <4>5. \A j \in 1..zip.i : j = zip.i \/ j \in 1..(zip.i - 1)
        BY <1>0
      <4>6. \A j \in 1..zip.i : zip'.at[j] = LocalSums(s)[j - 1]
        BY <3>7, <4>3, <4>4, <4>5
      <4> QED
        BY <3>1, <3>8, <4>2, <4>6 DEF EntryStarts
    <3>10. ZipProgress'
      BY <2>2, <3>1, <3>7, <3>8 DEF ZipProgress
    <3>11. ZipOver' /\ zip'.handle # "released"
      BY <3>1, <3>2 DEF ZipOver
    <3> QED
      BY <3>1, <3>8, <3>9, <3>10, <3>11 DEF ZipCount
  <2> QED
    BY <1>6, <2>1, <2>2 DEF ZipDescriptor
<1>7. CASE ZipCentral
  <2>1. CASE ZipGivesUp
    BY <1>2, <1>7, <2>1, ZipCountGivesUp DEF ZipCentral, ZipBegin
  <2>2. CASE zip' = WriteAll(zip, CentralBytes(zip.entries)) /\ pc' = "zend"
    <3>1. /\ zip'.entries = s /\ zip'.i = zip.i /\ zip'.at = zip.at /\ zip'.out = zip.out + CentralBytes(s)
          /\ zip'.handle = zip.handle
      BY <2>2 DEF WriteAll, ZipInv
    <3>2. zip.i = Len(s) + 1 /\ zip.i - 1 = Len(s) /\ zip.handle = "open"
      BY <1>0, <1>2, <1>7 DEF ZipCentral, ZipBegin
    <3>3. zip.out = LocalBytes(s)
      BY <1>7, <3>2, LocalSumsAdd DEF ZipCentral, ZipCount, ZipProgress
    <3>4. ZipProgress' /\ ZipOver'
      BY <2>2, <3>1, <3>2, <3>3 DEF ZipProgress, ZipOver
    <3> QED
      BY <3>1, <3>2, <3>4 DEF ZipCount, EntryStarts
  <2> QED
    BY <1>7, <2>1, <2>2 DEF ZipCentral
<1>8. CASE ZipEnd
  <2>1. CASE ZipGivesUp
    BY <1>2, <1>8, <2>1, ZipCountGivesUp DEF ZipEnd, ZipBegin
  <2>2. CASE /\ zip' = WriteAll([zip EXCEPT !.handle = Released], ZIP_Z64EOCD + ZIP_Z64LOC + ZIP_EOCD)
             /\ pc' = "ret" /\ caller' = "claimed"
    <3>1. /\ zip'.entries = s /\ zip'.i = zip.i /\ zip'.at = zip.at
          /\ zip'.out = zip.out + (ZIP_Z64EOCD + ZIP_Z64LOC + ZIP_EOCD)
      BY <2>2 DEF WriteAll, ZipInv
    <3>2. zip.i = Len(s) + 1 /\ zip.out = LocalBytes(s) + CentralBytes(s) /\ ~draining /\ draining' = draining
      BY <1>2, <1>8 DEF ZipEnd, ZipBegin, ZipCount, ZipProgress
    <3>3. LocalBytes(s) \in Nat /\ CentralBytes(s) \in Nat
      BY <1>0, LocalSumsAdd DEF ZipCount
    <3>4. zip'.out = ContentLength(s)
      BY <3>1, <3>2, <3>3 DEF ContentLength, ZIP_Z64EOCD, ZIP_Z64LOC, ZIP_EOCD
    <3>5. ZipProgress' /\ ZipOver'
      BY <2>2, <3>2 DEF ZipProgress, ZipOver
    <3> QED
      BY <3>1, <3>2, <3>4, <3>5 DEF ZipCount, EntryStarts
  <2> QED
    BY <1>8, <2>1, <2>2 DEF ZipEnd
<1> QED
  BY <1>1, <1>3, <1>4, <1>5, <1>6, <1>7, <1>8 DEF ZipStep

\* The archive's count: every step.
LEMMA ZipCountStep == ASSUME ZipInv, ParkInv, ZipCount, CNext PROVE ZipCount'
<1>0. ZipOver
  BY DEF ZipCount
<1>1. CASE PeerSends \/ PeerCloses
  BY <1>0, <1>1, ElsewherePeer, ZipCountStays
<1>2. CASE Adopt
  <2>1. zip' = NoZip /\ pc' = "wait"
    BY <1>2 DEF Adopt, OperatorAdds, WorkerAdopts, NewConnection
  <2> QED
    BY <2>1, ZipCountNone DEF ZipPcs
<1>3. CASE SlotStep
  <2>1. CASE HandleStep
    BY <1>0, <2>1, ElsewhereHandle, ZipCountStays
  <2>2. CASE WriterStep
    BY <1>0, <2>2, ElsewhereWriter, ZipCountStays DEF WriterStep
  <2>3. CASE PumpStep /\ UNCHANGED <<bufIdx, asked>>
    BY <1>0, <2>3, ElsewherePump, ZipCountStays
  <2>4. CASE ZipStep /\ UNCHANGED <<sockVars, taken, ticket, sink, bufIdx, asked>>
    BY <2>4, ZipCountZip
  <2> QED
    BY <1>0, <1>3, <2>1, <2>2, <2>3, <2>4, ElsewhereEvent, ZipCountStays DEF SlotStep
<1> QED
  BY <1>1, <1>2, <1>3 DEF CNext

(***************************************************************************)
(* The connection policy.                                                  *)
(***************************************************************************)
\* A streamed request and an error end the connection; every answer is decided by a policy; and a response
\* that is parked has its request cleared unless the connection ends with it.
PolicyInv ==
    /\ pc \in {"pump", "body", "drain", "zip"} \cup ZipPcs => policy = "close"
    /\ pc \in {"send", "ret"} /\ caller \in {"error", "claimed", "reject", "abort"} => policy = "close"
    /\ pc \in {"dispatch", "send", "ret"} \/ (pc = "wait" /\ draining) => policy # "none"
    /\ (pc \in {"send", "ret"} /\ caller = "resume") \/ (pc = "wait" /\ draining) =>
        policy = "close" \/ parsed = <<>>

\* Policy: the peer sends or closes.
LEMMA PolicyPeer ==
    ASSUME PolicyInv, PeerSends \/ PeerCloses PROVE PolicyInv'
<1>1. CASE PeerSends
  BY <1>1 DEF PolicyInv, ZipPcs, parkVars, respVars, PeerSends
<1>2. CASE PeerCloses
  BY <1>2 DEF PolicyInv, ZipPcs, parkVars, respVars, PeerCloses
<1> QED
  BY <1>1, <1>2

\* Policy: the slot takes a connection.
LEMMA PolicyAdopt ==
    ASSUME SlotStartsClean, PolicyInv, Adopt PROVE PolicyInv'
<1>1. CASE OperatorAdds
  BY <1>1 DEF PolicyInv, ZipPcs, parkVars, SlotStartsClean, OperatorAdds, NewConnection
<1>2. CASE WorkerAdopts
  BY <1>2 DEF PolicyInv, ZipPcs, parkVars, SlotStartsClean, WorkerAdopts, NewConnection, ResetMessage,
    ClearSend
<1> QED
  BY <1>1, <1>2 DEF Adopt

\* Policy: the slot is woken, times out or is released.
LEMMA PolicyEvent ==
    ASSUME ParkInv, PolicyInv, client_shutdown \/ client_release_fd \/ ClientEvent \/ HangUp \/
      IdleTimeout \/ DriveUpload \/ DriveTimeout PROVE PolicyInv'
<1>1. CASE client_shutdown
  BY <1>1 DEF PolicyInv, ZipPcs, parkVars, ParkInv, client_shutdown, ResetMessage, ClearSend, DropFrame
<1>2. CASE client_release_fd
  BY <1>2 DEF PolicyInv, ZipPcs, parkVars, ParkInv, client_release_fd, ResetMessage, ClearSend, DropFrame
<1>3. CASE ClientEvent
  BY <1>3 DEF PolicyInv, ZipPcs, parkVars, ParkInv, ClientEvent, Resume, WaitFrame
<1>4. CASE HangUp
  BY <1>4 DEF PolicyInv, ZipPcs, parkVars, ParkInv, HangUp, WaitFrame
<1>5. CASE IdleTimeout
  BY <1>5 DEF PolicyInv, ZipPcs, parkVars, ParkInv, IdleTimeout, WaitFrame
<1>6. CASE DriveUpload
  BY <1>6 DEF PolicyInv, ZipPcs, parkVars, ParkInv, DriveUpload, WaitFrame
<1>7. CASE DriveTimeout
  BY <1>7 DEF PolicyInv, ZipPcs, parkVars, ParkInv, DriveTimeout, WaitFrame
<1> QED
  BY <1>1, <1>2, <1>3, <1>4, <1>5, <1>6, <1>7

\* Policy: client_handle, with the router and the handler.
LEMMA PolicyHandle ==
    ASSUME ParkInv, PolicyInv, HandleStep PROVE PolicyInv'
<1>1. CASE Read
  BY <1>1 DEF PolicyInv, ZipPcs, parkVars, ParkInv, Read
<1>2. CASE ReadBlocks
  BY <1>2 DEF PolicyInv, ZipPcs, parkVars, ParkInv, ReadBlocks, WaitFrame
<1>3. CASE ReadFails
  BY <1>3 DEF PolicyInv, ZipPcs, parkVars, ParkInv, ReadFails, WaitFrame
<1>4. CASE ParseMore
  BY <1>4 DEF PolicyInv, ZipPcs, parkVars, ParkInv, ParseMore, WaitFrame
<1>5. CASE ParseStream
  BY <1>5 DEF PolicyInv, ZipPcs, parkVars, ParkInv, ParseStream, ParseFrame, SendFrame
<1>6. CASE ParseFails
  BY <1>6 DEF PolicyInv, ZipPcs, parkVars, ParkInv, ParseFails, ParseFrame, Error, SendFrame
<1>7. CASE StoreRequest
  BY <1>7 DEF PolicyInv, ZipPcs, parkVars, ParkInv, StoreRequest, ParseFrame, SendFrame
<1>8. CASE srv_router_dispatch
  BY <1>8 DEF PolicyInv, ZipPcs, parkVars, ParkInv, srv_router_dispatch, Error, SendFrame
<1>9. CASE handler_db_app
  BY <1>9 DEF PolicyInv, ZipPcs, parkVars, ParkInv, handler_db_app, Send, Error, SendFrame
<1>10. CASE DispatchReturns
  BY <1>10 DEF PolicyInv, ZipPcs, parkVars, ParkInv, DispatchReturns
<1>11. CASE CloseReturns
  BY <1>11 DEF PolicyInv, ZipPcs, parkVars, ParkInv, CloseReturns, WaitFrame
<1>12. CASE HandleFails
  BY <1>12 DEF PolicyInv, ZipPcs, parkVars, ParkInv, HandleFails, ResetMessage, ClearSend
<1> QED
  BY <1>1, <1>2, <1>3, <1>4, <1>5, <1>6, <1>7, <1>8, <1>9, <1>10, <1>11, <1>12 DEF HandleStep

\* Policy: _try_send and response_writer_resume.
LEMMA PolicyWriter ==
    ASSUME ParkInv, PolicyInv, TrySend \/ ResumeReturns, UNCHANGED <<pumpVars, bufIdx, asked>> PROVE
      PolicyInv'
<1>1. CASE Write
  BY <1>1 DEF PolicyInv, ParkInv, ZipPcs, parkVars, Write, Sending
<1>2. CASE Sent
  BY <1>2 DEF PolicyInv, ParkInv, ZipPcs, parkVars, Sent, Sending, Return, ClearSend
<1>3. CASE Park
  BY <1>3 DEF PolicyInv, ParkInv, ZipPcs, parkVars, Park, Sending, Return, ClearSend
<1>4. CASE ParkFails
  BY <1>4 DEF PolicyInv, ParkInv, ZipPcs, parkVars, ParkFails, Sending, Return, ClearSend
<1>5. CASE SendStalls
  BY <1>5 DEF PolicyInv, ParkInv, ZipPcs, parkVars, SendStalls, Sending, Return, ClearSend
<1>6. CASE WriteFails
  BY <1>6 DEF PolicyInv, ParkInv, ZipPcs, parkVars, WriteFails, Sending, Return, ClearSend
<1>7. CASE ResumeReturns
  BY <1>7 DEF PolicyInv, ParkInv, ZipPcs, parkVars, ResumeReturns
<1> QED
  BY <1>1, <1>2, <1>3, <1>4, <1>5, <1>6, <1>7 DEF TrySend

\* Policy: the upload pump.
LEMMA PolicyPump ==
    ASSUME ParkInv, PolicyInv, PumpStep, UNCHANGED <<bufIdx, asked>> PROVE PolicyInv'
<1>1. CASE AdaptFails
  BY <1>1 DEF PolicyInv, ZipPcs, parkVars, ParkInv, AdaptFails, Error, SendFrame
<1>2. CASE PumpZip
  BY <1>2 DEF PolicyInv, ZipPcs, parkVars, ParkInv, PumpZip
<1>3. CASE ZipRefused
  BY <1>3 DEF PolicyInv, ZipPcs, parkVars, ParkInv, ZipRefused, Send, Error, SendFrame
<1>4. CASE client_upload_pump
  BY <1>4 DEF PolicyInv, ZipPcs, parkVars, ParkInv, client_upload_pump, Begin, Send, Error, SendFrame
<1>5. CASE client_upload_data_pump
  BY <1>5 DEF PolicyInv, ZipPcs, parkVars, ParkInv, client_upload_data_pump, Begin, Send, Error, SendFrame
<1>6. CASE BodyRead
  BY <1>6 DEF PolicyInv, ZipPcs, parkVars, ParkInv, BodyRead, Error, SendFrame
<1>7. CASE BodyGivesUp
  BY <1>7 DEF PolicyInv, ZipPcs, parkVars, ParkInv, BodyGivesUp, Error, SendFrame
<1>8. CASE BodyGone
  BY <1>8 DEF PolicyInv, ZipPcs, parkVars, ParkInv, BodyGone
<1>9. CASE BodyDone
  BY <1>9 DEF PolicyInv, ZipPcs, parkVars, ParkInv, BodyDone, Send, Error, SendFrame
<1>10. CASE RejectReturns
  BY <1>10 DEF PolicyInv, ZipPcs, parkVars, ParkInv, RejectReturns
<1>11. CASE DrainRejectedBody
  BY <1>11 DEF PolicyInv, ZipPcs, parkVars, ParkInv, DrainRejectedBody
<1>12. CASE DrainEnds
  BY <1>12 DEF PolicyInv, ZipPcs, parkVars, ParkInv, DrainEnds
<1>13. CASE AbortReturns
  BY <1>13 DEF PolicyInv, ZipPcs, parkVars, ParkInv, AbortReturns
<1> QED
  BY <1>1, <1>2, <1>3, <1>4, <1>5, <1>6, <1>7, <1>8, <1>9, <1>10, <1>11, <1>12, <1>13 DEF PumpStep

\* Policy: the folder pump.
LEMMA PolicyZip ==
    ASSUME PolicyInv, ZipStep, UNCHANGED <<sockVars, taken, ticket, sink, bufIdx, asked>> PROVE PolicyInv'
<1>1. CASE ZipBegin
  BY <1>1 DEF PolicyInv, ZipPcs, parkVars, ZipBegin, zipFrame, zipRest
<1>2. CASE ZipHead
  BY <1>2 DEF PolicyInv, ZipPcs, parkVars, ZipHead, ZipGivesUp, zipFrame, zipRest
<1>3. CASE ZipEntry
  BY <1>3 DEF PolicyInv, ZipPcs, parkVars, ZipEntry, ZipGivesUp, zipFrame, zipRest
<1>4. CASE ZipData
  BY <1>4 DEF PolicyInv, ZipPcs, parkVars, ZipData, ZipGivesUp, zipRest
<1>5. CASE ZipDescriptor
  BY <1>5 DEF PolicyInv, ZipPcs, parkVars, ZipDescriptor, ZipGivesUp, zipFrame, zipRest
<1>6. CASE ZipCentral
  BY <1>6 DEF PolicyInv, ZipPcs, parkVars, ZipCentral, ZipGivesUp, zipFrame, zipRest
<1>7. CASE ZipEnd
  BY <1>7 DEF PolicyInv, ZipPcs, parkVars, ZipEnd, ZipGivesUp, zipFrame, zipRest
<1> QED
  BY <1>1, <1>2, <1>3, <1>4, <1>5, <1>6, <1>7 DEF ZipStep

\* Policy: every step.
LEMMA PolicyStep == ASSUME ParkInv, SlotStartsClean, PolicyInv, CNext PROVE PolicyInv'
<1>1. CASE PeerSends \/ PeerCloses
  BY <1>1, PolicyPeer
<1>2. CASE Adopt
  BY <1>2, PolicyAdopt
<1>3. CASE SlotStep
  <2>1. CASE HandleStep
    BY <2>1, PolicyHandle
  <2>2. CASE WriterStep
    BY <2>2, PolicyWriter DEF WriterStep
  <2>3. CASE PumpStep /\ UNCHANGED <<bufIdx, asked>>
    BY <2>3, PolicyPump
  <2>4. CASE ZipStep /\ UNCHANGED <<sockVars, taken, ticket, sink, bufIdx, asked>>
    BY <2>4, PolicyZip
  <2> QED
    BY <1>3, <2>1, <2>2, <2>3, <2>4, PolicyEvent DEF SlotStep
<1> QED
  BY <1>1, <1>2, <1>3 DEF CNext

(***************************************************************************)
(* What has been read.                                                     *)
(***************************************************************************)
\* The stream of the connection is that of its script.
PeerInv == script \in Seq(Request) /\ InOrder(stream, script, Len(script))

\* The thread receives a request, or waits to.
Receiving == pc \in {"read", "parse"} \/ (pc = "wait" /\ ~draining)

\* The unit that was read last is the last that the parser holds.
ReadLast == taken > 0 /\ stream[taken] = [req |-> Last(parsed).req, n |-> Last(parsed).n]

\* The unit that was read last ends the request that was acted on last.
Boundary ==
    IF asked = 0 THEN taken = 0
                 ELSE taken > 0 /\ stream[taken] = [req |-> asked, n |-> Size(script[asked])]

\* An answer is under way after which the connection goes on.
AnswersKept ==
    /\ policy = "keep"
    /\ pc = "dispatch" \/ (pc \in {"send", "ret"} /\ caller \in {"dispatch", "resume"}) \/ (pc = "wait" /\ draining)

\* What the parser holds starts with the first unit of the next request and ends with what was read last;
\* where it holds nothing, nothing has been read of that request.
ReadInv ==
    /\ Receiving /\ parsed = <<>> => Boundary
    /\ Receiving /\ parsed # <<>> =>
        /\ parsed[1] = [conn |-> conn, req |-> asked + 1, n |-> 1]
        /\ asked + 1 \in 1..Len(script)
        /\ ReadLast
    /\ pc = "parse" => parsed # <<>>
    /\ AnswersKept => Boundary

\* While the request is carried out it is the last one acted on.
Acting == pc \in {"dispatch", "pump", "body", "zip"} \cup ZipPcs

\* The parser holds the beginning of the request acted on last.
Matches == \A i \in 1..Len(parsed) : i <= Size(script[asked]) => parsed[i] = [conn |-> conn, req |-> asked, n |-> i]

ActingInv ==
    /\ Acting => parsed # <<>> /\ parsed[1].req = asked /\ asked \in 1..Len(script)
    /\ pc = "pump" => Matches /\ ReadLast /\ script[asked].head <= Len(parsed)

\* Only a new connection brings a new script.
LEMMA PeerStep == ASSUME PeerInv, CNext PROVE PeerInv'
<1>1. CASE Adopt
  <2>1. script' \in Seq(Request) /\ stream' = StreamOf(script')
    BY <1>1, ClientAssumption DEF Adopt, OperatorAdds, WorkerAdopts, NewConnection
  <2> QED
    BY <2>1, StreamInOrder DEF PeerInv
<1>2. CASE UNCHANGED <<script, stream>>
  BY <1>2 DEF PeerInv
<1>3. CASE PeerSends \/ PeerCloses
  BY <1>2, <1>3 DEF PeerSends, PeerCloses
<1>4. CASE SlotStep
  <2>1. CASE HandleStep
    BY <1>2, <2>1 DEF HandleStep, Read, ReadBlocks, ReadFails, ParseMore, ParseStream, ParseFails, ParseFrame,
      StoreRequest, srv_router_dispatch, handler_db_app, DispatchReturns, CloseReturns, HandleFails, WaitFrame,
      pumpVars, sockVars
  <2>2. CASE WriterStep
    BY <1>2, <2>2 DEF WriterStep, pumpVars, sockVars
  <2>3. CASE PumpStep
    BY <1>2, <2>3 DEF PumpStep, AdaptFails, PumpZip, ZipRefused, client_upload_pump, client_upload_data_pump,
      BodyRead, BodyGivesUp, BodyGone, BodyDone, RejectReturns, DrainRejectedBody, DrainEnds, AbortReturns,
      pumpVars, sockVars
  <2>4. CASE ZipStep /\ UNCHANGED <<sockVars, taken, ticket, sink, bufIdx, asked>>
    BY <1>2, <2>4 DEF sockVars
  <2>5. CASE client_shutdown \/ client_release_fd \/ ClientEvent \/ HangUp \/ IdleTimeout \/ DriveUpload \/ DriveTimeout
    BY <1>2, <2>5 DEF client_shutdown, client_release_fd, DropFrame, ClientEvent, HangUp, IdleTimeout, DriveUpload,
      DriveTimeout, WaitFrame, pumpVars, sockVars
  <2> QED
    BY <1>4, <2>1, <2>2, <2>3, <2>4, <2>5 DEF SlotStep
<1> QED
  BY <1>1, <1>3, <1>4 DEF CNext

\* The units of a stream, and what follows the end of a request.
LEMMA PeerUnits ==
    ASSUME PeerInv, NEW p \in 1..Len(stream)
    PROVE  /\ Len(stream) \in Nat /\ Len(script) \in Nat
           /\ stream[p] = [req |-> stream[p].req, n |-> stream[p].n]
           /\ stream[p].req \in 1..Len(script) /\ stream[p].n \in 1..Size(script[stream[p].req])
           /\ Size(script[stream[p].req]) \in Nat
           /\ p = 1 => stream[p] = [req |-> 1, n |-> 1]
           /\ p + 1 <= Len(stream) /\ stream[p].n = Size(script[stream[p].req]) =>
                stream[p + 1] = [req |-> stream[p].req + 1, n |-> 1]
<1> DEFINE U == [req : Nat, n : Nat]
<1>1. /\ stream \in Seq(U) /\ script \in Seq(Request) /\ InOrder(stream, script, Len(script))
      /\ Len(stream) \in Nat /\ Len(script) \in Nat
  BY DEF PeerInv, InOrder
<1>2. stream[p] \in U
  <2> HIDE DEF U
  <2> QED
    BY <1>1
<1>3. stream[p].req \in 1..Len(script) /\ stream[p].n \in 1..Size(script[stream[p].req])
  BY <1>1 DEF InOrder
<1>4. Size(script[stream[p].req]) \in Nat
  BY <1>1, <1>3, RequestSize
<1>5. p = 1 => stream[p] = [req |-> 1, n |-> 1]
  <2> SUFFICES ASSUME p = 1 PROVE stream[p] = [req |-> 1, n |-> 1]
    OBVIOUS
  <2>1. Len(script) > 0
    BY <1>1, <1>3
  <2> QED
    BY <1>1, <2>1 DEF InOrder
<1>6. ASSUME p + 1 <= Len(stream), stream[p].n = Size(script[stream[p].req])
      PROVE  stream[p + 1] = [req |-> stream[p].req + 1, n |-> 1]
  <2>1. p \in 1..(Len(stream) - 1)
    BY <1>1, <1>6
  <2>2. stream[p + 1] = IF stream[p].n < Size(script[stream[p].req])
                        THEN [req |-> stream[p].req, n |-> stream[p].n + 1]
                        ELSE [req |-> stream[p].req + 1, n |-> 1]
    BY <1>1, <2>1 DEF InOrder
  <2> QED
    BY <1>4, <1>6, <2>2
<1> QED
  BY <1>1, <1>2, <1>3, <1>4, <1>5, <1>6

\* Reading: the next unit is the first of the next request, or goes on with what the parser holds.
LEMMA ReadRead ==
    ASSUME CTypeInv, PeerInv, ReadInv, Read PROVE ReadInv'
<1>1. PICK k \in ReadSizes(BufLen - bufIdx) : taken' = taken + k /\ parsed' = parsed \o Incoming(k)
  BY DEF Read
<1>2. /\ pc = "read" /\ pc' = "parse"
      /\ UNCHANGED <<conn, asked, script, stream, arrived>>
  BY DEF Read, sockVars
<1>3. BufLen - bufIdx \in Nat
  BY ResponseAssumption DEF CTypeInv, ClTypeOK
<1>4. /\ k \in Nat /\ k >= 1 /\ taken + k \in 0..arrived
      /\ Incoming(k) \in Seq(ReqUnit) /\ Len(Incoming(k)) = k
  BY <1>3, ReadTypes
<1>5. /\ taken \in Nat /\ arrived \in Nat /\ arrived <= Len(stream) /\ Len(stream) \in Nat /\ asked \in Nat
      /\ parsed \in Seq(ReqUnit) /\ Len(parsed) \in Nat
  BY DEF CTypeInv, ClTypeOK, SocketOK
<1>6. taken + k \in 1..Len(stream) /\ taken + 1 \in 1..Len(stream)
  BY <1>4, <1>5
<1>7. \A i \in 1..k : Incoming(k)[i] = [conn |-> conn, req |-> stream[taken + i].req, n |-> stream[taken + i].n]
  BY DEF Incoming
<1>8. /\ Len(parsed') = Len(parsed) + k /\ Len(parsed') # 0 /\ parsed' # <<>>
      /\ parsed'[Len(parsed')] = Incoming(k)[k]
      /\ parsed # <<>> => parsed'[1] = parsed[1]
      /\ parsed = <<>> => parsed'[1] = Incoming(k)[1]
  <2> DEFINE inc == Incoming(k)
  <2>1. inc \in Seq(ReqUnit) /\ Len(inc) = k /\ parsed' = parsed \o inc
    BY <1>1, <1>4
  <2> HIDE DEF inc
  <2>2. /\ Len(parsed') = Len(parsed) + k
        /\ \A p \in 1..Len(parsed) : parsed'[p] = parsed[p]
        /\ \A p \in (Len(parsed) + 1)..(Len(parsed) + k) : parsed'[p] = inc[p - Len(parsed)]
    BY <1>5, <2>1, Behind
  <2>3. parsed'[Len(parsed) + k] = inc[k] /\ parsed'[Len(parsed) + 1] = inc[1]
    BY <1>4, <1>5, <2>2
  <2>4. parsed # <<>> => 1 \in 1..Len(parsed)
    BY <1>5
  <2>5. parsed = <<>> => Len(parsed) + 1 = 1
    OBVIOUS
  <2> QED
    BY <1>4, <1>5, <2>2, <2>3, <2>4, <2>5 DEF inc
<1>9. ReadLast'
  <2>1. stream[taken + k] = [req |-> stream[taken + k].req, n |-> stream[taken + k].n]
    BY <1>6, PeerUnits
  <2>2. k \in 1..k /\ taken + k > 0
    BY <1>4, <1>5
  <2>3. Last(parsed') = [conn |-> conn, req |-> stream[taken + k].req, n |-> stream[taken + k].n]
    BY <1>7, <1>8, <2>2 DEF Last
  <2>4. Last(parsed').req = stream[taken + k].req /\ Last(parsed').n = stream[taken + k].n
    BY <2>3
  <2> QED
    BY <1>1, <1>2, <2>1, <2>2, <2>4 DEF ReadLast
<1>10. parsed'[1] = [conn |-> conn, req |-> asked + 1, n |-> 1] /\ asked + 1 \in 1..Len(script)
  <2>1. CASE parsed # <<>>
    BY <1>2, <1>8, <2>1 DEF ReadInv, Receiving
  <2>2. CASE parsed = <<>>
    <3>1. Boundary
      BY <1>2, <2>2 DEF ReadInv, Receiving
    <3>2. stream[taken + 1] = [req |-> asked + 1, n |-> 1]
      <4>1. CASE asked = 0
        <5>1. taken + 1 = 1 /\ asked + 1 = 1
          BY <3>1, <4>1 DEF Boundary
        <5> QED
          BY <1>6, <5>1, PeerUnits
      <4>2. CASE asked # 0
        <5>1. taken \in 1..Len(stream) /\ taken + 1 <= Len(stream)
          BY <1>5, <1>6, <3>1, <4>2 DEF Boundary
        <5>2. stream[taken].req = asked /\ stream[taken].n = Size(script[asked])
          BY <3>1, <4>2 DEF Boundary
        <5> QED
          BY <5>1, <5>2, PeerUnits
      <4> QED
        BY <4>1, <4>2
    <3>3. 1 \in 1..k
      BY <1>4
    <3>4. Incoming(k)[1] = [conn |-> conn, req |-> stream[taken + 1].req, n |-> stream[taken + 1].n]
      BY <1>7, <3>3
    <3>5. stream[taken + 1].req = asked + 1 /\ stream[taken + 1].n = 1
      BY <3>2
    <3>6. stream[taken + 1].req \in 1..Len(script)
      BY <1>6, PeerUnits
    <3> QED
      BY <1>8, <2>2, <3>4, <3>5, <3>6
  <2> QED
    BY <2>1, <2>2
<1> QED
  BY <1>2, <1>8, <1>9, <1>10 DEF ReadInv, Receiving, AnswersKept

\* A status of the parser other than an error: what it holds is the beginning of the next request.
LEMMA ParsedMatches ==
    ASSUME CTypeInv, PeerInv, ReadInv, pc = "parse", Parse(parsed) \in {"complete", "stream", "more"}
    PROVE  /\ parsed # <<>> /\ parsed[1].req = asked + 1 /\ asked + 1 \in 1..Len(script)
           /\ Size(script[asked + 1]) \in Nat /\ Len(parsed) \in Nat /\ ReadLast
           /\ \A i \in 1..Len(parsed) :
                i <= Size(script[asked + 1]) => parsed[i] = [conn |-> conn, req |-> asked + 1, n |-> i]
<1>1. parsed # <<>> /\ parsed[1] = [conn |-> conn, req |-> asked + 1, n |-> 1] /\ ReadLast
  BY DEF ReadInv, Receiving
<1>2. parsed \in Seq(ReqUnit) /\ Len(parsed) \in Nat /\ asked \in Nat /\ script \in Seq(Request)
  BY DEF CTypeInv, ClTypeOK, PeerInv
<1>3. WellFormed(parsed) /\ parsed[1].req = asked + 1
  BY <1>1 DEF Parse
<1>4. asked + 1 \in 1..Len(script)
  BY DEF ReadInv, Receiving
<1>5. Size(script[asked + 1]) \in Nat
  BY <1>2, <1>4, RequestSize
<1>6. ASSUME NEW i \in 1..Len(parsed), i <= Size(script[asked + 1])
      PROVE  parsed[i] = [conn |-> conn, req |-> asked + 1, n |-> i]
  <2> DEFINE z == Size(script[asked + 1])
  <2>1. DOMAIN Units(conn, asked + 1, script[asked + 1]) = 1..z
    BY DEF Units, Size
  <2>2. i \in DOMAIN parsed \cap 1..z
    BY <1>2, <1>5, <1>6
  <2>3. parsed[i] = Units(conn, asked + 1, script[asked + 1])[i]
    BY <1>3, <2>1, <2>2 DEF WellFormed
  <2> QED
    BY <2>1, <2>2, <2>3 DEF Units
<1> QED
  BY <1>1, <1>2, <1>3, <1>4, <1>5, <1>6

\* What has been read: client_handle, with the router and the handler.
LEMMA ReadHandle ==
    ASSUME CTypeInv, ParkInv, PolicyInv, PeerInv, ReadInv, HandleStep PROVE ReadInv'
<1>1. CASE Read
  BY <1>1, ReadRead
<1>2. CASE ReadBlocks \/ ParseMore
  BY <1>2 DEF ReadBlocks, ParseMore, WaitFrame, ParkInv, ReadInv, Receiving, AnswersKept, Boundary, ReadLast,
    parkVars, pumpVars, sockVars
<1>3. CASE ReadFails \/ HandleFails
  BY <1>3 DEF ReadFails, HandleFails, WaitFrame, ReadInv, Receiving, AnswersKept
<1>4. CASE ParseStream
  BY <1>4 DEF ParseStream, ReadInv, Receiving, AnswersKept
<1>5. CASE ParseFails
  BY <1>5 DEF ParseFails, Error, ReadInv, Receiving, AnswersKept
<1>6. CASE StoreRequest
  <2>1. /\ pc = "parse" /\ Parse(parsed) = "complete" /\ pc' = "dispatch" /\ asked' = asked + 1
        /\ UNCHANGED <<parsed, script, stream, taken>>
    BY <1>6 DEF StoreRequest, ParseFrame, SendFrame, pumpVars, sockVars
  <2> DEFINE z == Size(script[asked + 1])
  <2>2. /\ asked \in Nat /\ z \in Nat /\ Len(parsed) \in Nat /\ parsed # <<>> /\ ReadLast
        /\ parsed[1].req = asked + 1
        /\ \A i \in 1..Len(parsed) : i <= z => parsed[i] = [conn |-> conn, req |-> asked + 1, n |-> i]
    BY <2>1, ParsedMatches DEF CTypeInv, ClTypeOK
  <2>3. Len(parsed) = z
    BY <2>1, <2>2 DEF Parse, Size
  <2>4. Len(parsed) # 0
    BY <2>2 DEF CTypeInv, ClTypeOK
  <2>5. Last(parsed) = [conn |-> conn, req |-> asked + 1, n |-> z]
    <3> HIDE DEF z
    <3>1. Len(parsed) \in 1..Len(parsed) /\ Len(parsed) <= z
      BY <2>2, <2>3, <2>4
    <3> QED
      BY <2>2, <2>3, <3>1 DEF Last
  <2>6. taken > 0 /\ stream[taken] = [req |-> asked + 1, n |-> z]
    BY <2>2, <2>5 DEF ReadLast
  <2>7. Boundary'
    BY <2>1, <2>2, <2>6 DEF Boundary
  <2> QED
    BY <2>1, <2>7 DEF ReadInv, Receiving
<1>7. CASE srv_router_dispatch
  BY <1>7 DEF srv_router_dispatch, Error, ReadInv, Receiving, AnswersKept
<1>8. CASE handler_db_app
  <2>1. pc = "dispatch" /\ UNCHANGED <<asked, script, stream, taken>> /\ pc' = "send" /\ policy' \in {policy, "close"}
    BY <1>8 DEF handler_db_app, Send, Error, pumpVars, sockVars
  <2>2. AnswersKept' => Boundary'
    BY <2>1 DEF ReadInv, AnswersKept, Boundary
  <2> QED
    BY <2>1, <2>2 DEF ReadInv, Receiving
<1>9. CASE DispatchReturns
  <2>1. /\ pc = "ret" /\ caller = "dispatch" /\ parsed' = <<>>
        /\ UNCHANGED <<asked, script, stream, taken, policy, draining>>
        /\ pc' = IF rc = "ok" /\ (draining \/ policy # "close") THEN "wait" ELSE "fail"
    BY <1>9 DEF DispatchReturns, pumpVars, sockVars, parkVars
  <2>2. policy = "keep" => Boundary'
    BY <2>1 DEF ReadInv, AnswersKept, Boundary
  <2>3. pc' = "wait" /\ ~draining => policy = "keep"
    BY <2>1 DEF PolicyInv, CTypeInv, ClTypeOK
  <2> QED
    BY <2>1, <2>2, <2>3 DEF ReadInv, Receiving, AnswersKept
<1>10. CASE CloseReturns
  <2>1. policy = "close"
    BY <1>10 DEF CloseReturns, PolicyInv
  <2> QED
    BY <1>10, <2>1 DEF CloseReturns, WaitFrame, parkVars, ReadInv, Receiving, AnswersKept
<1> QED
  BY <1>1, <1>2, <1>3, <1>4, <1>5, <1>6, <1>7, <1>8, <1>9, <1>10 DEF HandleStep

\* What has been read: _try_send and response_writer_resume.
LEMMA ReadWriter ==
    ASSUME CTypeInv, ParkInv, PolicyInv, ReadInv, TrySend \/ ResumeReturns, UNCHANGED <<pumpVars, bufIdx, asked>>
    PROVE  ReadInv'
<1>1. UNCHANGED <<script, stream, taken, asked, parsed, conn, policy>>
  BY DEF TrySend, Write, Sent, Park, ParkFails, SendStalls, WriteFails, Return, ResumeReturns, pumpVars, sockVars
<1>2. CASE TrySend
  <2>1. pc = "send" /\ pc' \in {"send", "ret"} /\ caller' = caller
    BY <1>2 DEF TrySend, Write, Sent, Park, ParkFails, SendStalls, WriteFails, Return, Sending
  <2> QED
    BY <1>1, <2>1 DEF ReadInv, Receiving, AnswersKept, Boundary
<1>3. CASE ResumeReturns
  <2>1. /\ pc = "ret" /\ caller = "resume" /\ draining' = draining
        /\ pc' = "remove" \/ (pc' = "wait" /\ (draining \/ policy # "close"))
    BY <1>3 DEF ResumeReturns, parkVars
  <2>2. policy = "keep" => Boundary /\ parsed = <<>>
    BY <2>1 DEF ReadInv, AnswersKept, PolicyInv
  <2>3. policy \in {"keep", "close"}
    BY <2>1 DEF PolicyInv, CTypeInv, ClTypeOK
  <2> QED
    BY <1>1, <2>1, <2>2, <2>3 DEF ReadInv, Receiving, AnswersKept, Boundary
<1> QED
  BY <1>2, <1>3

\* Where the upload pump's steps lead, and whom its answers return to.
LEMMA PumpPcs ==
    ASSUME PumpStep
    PROVE  \/ pc' \in {"zip", "body", "drain"}
           \/ pc' \in {"send", "ret"} /\ caller' \in {"claimed", "reject", "abort"}
<1>1. ASSUME Begin PROVE pc' \in {"body", "send"} /\ (pc' = "send" => caller' \in {"claimed", "abort"})
  BY <1>1 DEF Begin, Error
<1>2. CASE client_upload_pump \/ client_upload_data_pump
  BY <1>1, <1>2 DEF client_upload_pump, client_upload_data_pump, Send, Error
<1>3. CASE AdaptFails \/ PumpZip \/ ZipRefused
  BY <1>3 DEF AdaptFails, PumpZip, ZipRefused, Send, Error
<1>4. CASE BodyRead \/ BodyGivesUp \/ BodyGone \/ BodyDone
  BY <1>4 DEF BodyRead, BodyGivesUp, BodyGone, BodyDone, Send, Error
<1>5. CASE RejectReturns \/ DrainRejectedBody \/ DrainEnds \/ AbortReturns
  BY <1>5 DEF RejectReturns, DrainRejectedBody, DrainEnds, AbortReturns
<1> QED
  BY <1>2, <1>3, <1>4, <1>5 DEF PumpStep

\* What has been read: every step.
LEMMA ReadStep ==
    ASSUME CTypeInv, ParkInv, SlotStartsClean, PolicyInv, PolicyInv', PeerInv, ReadInv, CNext PROVE ReadInv'
<1>1. CASE PeerSends \/ PeerCloses
  BY <1>1 DEF PeerSends, PeerCloses, respVars, parkVars, ReadInv, Receiving, AnswersKept, Boundary, ReadLast
<1>2. CASE Adopt
  <2>1. pc = "idle" /\ asked' = 0 /\ taken' = 0 /\ pc' = "wait" /\ policy' = "none"
    BY <1>2 DEF Adopt, OperatorAdds, WorkerAdopts, NewConnection
  <2>2. parsed' = <<>>
    BY <1>2, <2>1 DEF Adopt, OperatorAdds, WorkerAdopts, ResetMessage, SlotStartsClean
  <2> QED
    BY <2>1, <2>2 DEF ReadInv, Receiving, AnswersKept, Boundary
<1>3. CASE SlotStep
  <2>1. CASE HandleStep
    BY <2>1, ReadHandle
  <2>2. CASE WriterStep
    BY <2>2, ReadWriter DEF WriterStep
  <2>3. CASE PumpStep /\ UNCHANGED <<bufIdx, asked>>
    <3>1. pc' \in {"zip", "body", "drain"} \/ (pc' \in {"send", "ret"} /\ caller' \in {"claimed", "reject", "abort"})
      BY <2>3, PumpPcs
    <3> QED
      BY <3>1 DEF ReadInv, Receiving, AnswersKept, PolicyInv
  <2>4. CASE ZipStep
    <3>1. pc' \in ZipPcs \/ (pc' = "ret" /\ caller' = "claimed")
      BY <2>4 DEF ZipStep, ZipBegin, ZipHead, ZipEntry, ZipData, ZipDescriptor, ZipCentral, ZipEnd, ZipGivesUp, ZipPcs
    <3> QED
      BY <3>1 DEF ReadInv, Receiving, AnswersKept, PolicyInv, ZipPcs
  <2>5. CASE client_shutdown \/ client_release_fd \/ HangUp \/ IdleTimeout \/ DriveTimeout
    BY <2>5 DEF client_shutdown, client_release_fd, DropFrame, HangUp, IdleTimeout, DriveTimeout, ReadInv, Receiving,
      AnswersKept
  <2>6. CASE ClientEvent
    BY <2>6 DEF ClientEvent, Resume, WaitFrame, parkVars, pumpVars, sockVars, ReadInv, Receiving, AnswersKept,
      Boundary, ReadLast
  <2>7. CASE DriveUpload
    <3>1. ~draining
      BY <2>7 DEF DriveUpload, ParkInv
    <3> QED
      BY <2>7, <3>1 DEF DriveUpload, WaitFrame, parkVars, pumpVars, sockVars, ReadInv, Receiving, AnswersKept,
        Boundary, ReadLast
  <2> QED
    BY <1>3, <2>1, <2>2, <2>3, <2>4, <2>5, <2>6, <2>7 DEF SlotStep
<1> QED
  BY <1>1, <1>2, <1>3 DEF CNext

\* The request in hand: every step.
LEMMA ActingStep ==
    ASSUME CTypeInv, PeerInv, ReadInv, ActingInv, CNext PROVE ActingInv'
<1>1. CASE PeerSends \/ PeerCloses
  BY <1>1 DEF PeerSends, PeerCloses, respVars, ActingInv, Acting, Matches, ReadLast, ZipPcs
<1>2. CASE pc' \notin {"dispatch", "pump", "body", "zip"} \cup ZipPcs
  BY <1>2 DEF ActingInv, Acting, ZipPcs
<1>3. CASE Adopt
  BY <1>2, <1>3 DEF Adopt, OperatorAdds, WorkerAdopts, NewConnection, ZipPcs
<1>4. CASE SlotStep
  <2>1. CASE HandleStep
    <3>1. CASE StoreRequest
      <4>1. pc = "parse" /\ Parse(parsed) = "complete" /\ pc' = "dispatch" /\ asked' = asked + 1 /\ UNCHANGED <<parsed, script>>
        BY <3>1 DEF StoreRequest, ParseFrame, SendFrame, pumpVars, sockVars
      <4>2. parsed # <<>> /\ parsed[1].req = asked + 1 /\ asked + 1 \in 1..Len(script)
        BY <4>1, ParsedMatches
      <4> QED
        BY <4>1, <4>2 DEF ActingInv, Acting
    <3>2. CASE ParseStream
      <4>1. /\ pc = "parse" /\ Parse(parsed) = "stream" /\ pc' = "pump" /\ asked' = asked + 1
            /\ UNCHANGED <<parsed, script, stream, taken, conn>>
        BY <3>2 DEF ParseStream, ParseFrame, SendFrame, pumpVars, sockVars
      <4>2. /\ parsed # <<>> /\ parsed[1].req = asked + 1 /\ asked + 1 \in 1..Len(script) /\ Len(parsed) \in Nat
            /\ ReadLast
            /\ \A i \in 1..Len(parsed) :
                i <= Size(script[asked + 1]) => parsed[i] = [conn |-> conn, req |-> asked + 1, n |-> i]
        BY <4>1, ParsedMatches
      <4>3. script[asked + 1].head \in Nat
        BY <4>2, RequestSize DEF PeerInv
      <4>4. script[asked + 1].head <= Len(parsed)
        BY <4>1, <4>2, <4>3 DEF Parse
      <4>5. Matches' /\ ReadLast'
        BY <4>1, <4>2 DEF Matches, ReadLast
      <4> QED
        BY <4>1, <4>2, <4>4, <4>5 DEF ActingInv, Acting
    <3>3. CASE ~(StoreRequest \/ ParseStream)
      BY <1>2, <2>1, <3>3 DEF HandleStep, Read, ReadBlocks, ReadFails, ParseMore, ParseFails, Error,
        srv_router_dispatch, handler_db_app, Send, DispatchReturns, CloseReturns, HandleFails, ZipPcs
    <3> QED
      BY <3>1, <3>2, <3>3
  <2>2. CASE WriterStep
    BY <1>2, <2>2 DEF WriterStep, TrySend, Write, Sent, Park, ParkFails, SendStalls, WriteFails, Sending, Return,
      ResumeReturns, ZipPcs
  <2>3. CASE PumpStep /\ UNCHANGED <<bufIdx, asked>>
    <3>1. UNCHANGED <<parsed, script, conn>>
      BY <2>3 DEF PumpStep, AdaptFails, PumpZip, ZipRefused, client_upload_pump, client_upload_data_pump, Begin,
        BodyRead, BodyGivesUp, BodyGone, BodyDone, RejectReturns, DrainRejectedBody, DrainEnds, AbortReturns,
        SendFrame, pumpVars, sockVars
    <3>2. pc' \in {"zip", "body"} => pc \in {"pump", "body"}
      BY <2>3 DEF PumpStep, AdaptFails, PumpZip, ZipRefused, client_upload_pump, client_upload_data_pump, Begin,
        BodyRead, BodyGivesUp, BodyGone, BodyDone, RejectReturns, DrainRejectedBody, DrainEnds, AbortReturns,
        Send, Error
    <3> QED
      BY <1>2, <2>3, <3>1, <3>2, PumpPcs DEF ActingInv, Acting, ZipPcs
  <2>4. CASE ZipStep /\ UNCHANGED <<sockVars, taken, ticket, sink, bufIdx, asked>>
    <3>1. pc \in {"zip"} \cup ZipPcs /\ pc' # "pump" /\ UNCHANGED <<parsed, script>>
      BY <2>4 DEF ZipStep, ZipBegin, ZipHead, ZipEntry, ZipData, ZipDescriptor, ZipCentral, ZipEnd, ZipGivesUp, ZipPcs,
        zipFrame, zipRest, sockVars
    <3> QED
      BY <2>4, <3>1 DEF ActingInv, Acting
  <2>5. CASE client_shutdown \/ client_release_fd \/ ClientEvent \/ HangUp \/ IdleTimeout \/ DriveUpload \/ DriveTimeout
    BY <1>2, <2>5 DEF client_shutdown, client_release_fd, DropFrame, ClientEvent, Resume, HangUp, IdleTimeout, DriveUpload,
      DriveTimeout, ZipPcs
  <2> QED
    BY <1>4, <2>1, <2>2, <2>3, <2>4, <2>5 DEF SlotStep
<1> QED
  BY <1>1, <1>3, <1>4 DEF CNext

(***************************************************************************)
(* The spool.                                                              *)
(***************************************************************************)
\* While the body is read the sink has what was read of it, from its first unit on.
BodyInv ==
    pc = "body" =>
        /\ sink \in Seq(ReqUnit) /\ Len(sink) <= script[asked].body
        /\ \A i \in 1..Len(sink) : sink[i] = [conn |-> conn, req |-> asked, n |-> script[asked].head + i]
        /\ taken > 0 /\ stream[taken] = [req |-> asked, n |-> script[asked].head + Len(sink)]

\* The answer to an upload is on its way, after which the connection ends.
Ending ==
    \/ pc \in {"fail", "remove", "idle"}
    \/ pc = "wait" /\ draining /\ policy = "close"
    \/ pc \in {"send", "ret"} /\ policy = "close" /\ caller \in {"claimed", "resume"}

CommitInv == ticket = "committed" => Ending /\ (parsed # <<>> => sink = Body)

\* begin: the units behind the headers are the first of the body.
LEMMA BodyBegins ==
    ASSUME CTypeInv, PeerInv, ActingInv, pc = "pump", Begin, pc' = "body",
           UNCHANGED <<script, stream, taken, asked>>
    PROVE  BodyInv'
<1> DEFINE r == script[asked]
           h == r.head
           L == Len(parsed)
<1>1. /\ parsed # <<>> /\ parsed[1].req = asked /\ asked \in 1..Len(script) /\ h <= L /\ Matches /\ ReadLast
  BY DEF ActingInv, Acting
<1>2. parsed \in Seq(ReqUnit) /\ L \in Nat /\ h \in Nat /\ h >= 1 /\ r.body \in Nat /\ Size(r) = h + r.body
  BY <1>1, RequestSize DEF CTypeInv, ClTypeOK, PeerInv, Size
<1>3. Current = r /\ Leftover = SubSeq(parsed, h + 1, L)
  BY <1>1 DEF Current, Leftover
<1>4. Len(Leftover) <= r.body /\ sink' = Leftover /\ UNCHANGED <<parsed, conn>>
  BY <1>3 DEF Begin, Error, SendFrame
<1> HIDE DEF h, L, r
<1>5. /\ Leftover \in Seq(ReqUnit) /\ Len(Leftover) = L - h
      /\ \A i \in 1..(L - h) : Leftover[i] = parsed[h + i]
  BY <1>1, <1>2, <1>3 DEF L
<1>6. \A i \in 1..L : parsed[i] = [conn |-> conn, req |-> asked, n |-> i]
  <2>1. L <= Size(r)
    BY <1>1, <1>2, <1>4, <1>5
  <2> QED
    BY <1>1, <1>2, <2>1 DEF Matches, L, r
<1>7. \A i \in 1..(L - h) : Leftover[i] = [conn |-> conn, req |-> asked, n |-> h + i]
  <2> TAKE i \in 1..(L - h)
  <2>1. h + i \in 1..L
    BY <1>2
  <2> QED
    BY <1>5, <1>6, <2>1
<1>8. taken > 0 /\ stream[taken] = [req |-> asked, n |-> h + Len(Leftover)]
  <2>1. L \in 1..L /\ h + (L - h) = L
    BY <1>1, <1>2
  <2>2. Last(parsed) = [conn |-> conn, req |-> asked, n |-> L]
    BY <1>6, <2>1 DEF Last, L
  <2>3. Last(parsed).req = asked /\ Last(parsed).n = L
    BY <2>2
  <2> QED
    BY <1>1, <1>5, <2>1, <2>3 DEF ReadLast
<1> QED
  BY <1>4, <1>5, <1>7, <1>8 DEF BodyInv, h, r

\* The pump's read: what comes next on the socket is what comes next of the body.
LEMMA BodyGrows ==
    ASSUME CTypeInv, PeerInv, ActingInv, BodyInv, BodyRead, pc' = "body", UNCHANGED asked PROVE BodyInv'
<1> DEFINE r == script[asked]
           h == r.head
           L == Len(sink)
<1>1. pc = "body" /\ UNCHANGED <<script, stream, conn, parsed>>
  BY DEF BodyRead, SendFrame, sockVars
<1>2. parsed[1].req = asked /\ asked \in 1..Len(script)
  BY <1>1 DEF ActingInv, Acting
<1>3. h \in Nat /\ h >= 1 /\ r.body \in Nat /\ Size(r) = h + r.body /\ Size(r) \in Nat
  BY <1>2, RequestSize DEF PeerInv, Size
<1>4. PICK k \in ReadSizes(BufLen) : k <= r.body - L /\ taken' = taken + k /\ sink' = sink \o Incoming(k)
  BY <1>2 DEF BodyRead, Error, Remaining, Current
<1>5. /\ k \in Nat /\ k >= 1 /\ taken + k \in 0..arrived
      /\ Incoming(k) \in Seq(ReqUnit) /\ Len(Incoming(k)) = k
  BY ReadTypes, ResponseAssumption
<1>6. /\ sink \in Seq(ReqUnit) /\ L \in Nat /\ L <= r.body /\ taken > 0
      /\ stream[taken] = [req |-> asked, n |-> h + L]
      /\ \A i \in 1..L : sink[i] = [conn |-> conn, req |-> asked, n |-> h + i]
  BY <1>1 DEF BodyInv
<1>7. taken \in 1..Len(stream) /\ \A i \in 1..k : taken + i \in 1..Len(stream)
  BY <1>5, <1>6 DEF CTypeInv, SocketOK
<1>8. stream[taken].req = asked /\ stream[taken].n = h + L
  BY <1>6
<1> HIDE DEF h, L, r
<1>9. ASSUME NEW i \in 1..k PROVE stream[taken + i] = [req |-> asked, n |-> (h + L) + i]
  <2>1. i \in Nat /\ (h + L) + i <= Size(r)
    BY <1>3, <1>4, <1>5, <1>6
  <2>2. i \in Nat /\ stream[taken].n + i <= Size(script[stream[taken].req]) /\ taken + i \in 1..Len(stream)
    BY <1>7, <1>8, <2>1 DEF r
  <2>3. stream[taken + i] = [req |-> stream[taken].req, n |-> stream[taken].n + i]
    BY <1>7, <2>2, StreamRun DEF PeerInv
  <2> QED
    BY <1>8, <2>3
<1>10. ASSUME NEW i \in 1..k PROVE Incoming(k)[i] = [conn |-> conn, req |-> asked, n |-> (h + L) + i]
  <2>1. stream[taken + i].req = asked /\ stream[taken + i].n = (h + L) + i
    <3>1. stream[taken + i] = [req |-> asked, n |-> (h + L) + i]
      BY <1>9
    <3> QED
      BY <3>1
  <2> QED
    BY <2>1 DEF Incoming
<1> DEFINE inc == Incoming(k)
<1> HIDE DEF inc
<1>11. /\ sink' \in Seq(ReqUnit) /\ Len(sink') = L + k
       /\ \A i \in 1..L : sink'[i] = sink[i]
       /\ \A i \in (L + 1)..(L + k) : sink'[i] = inc[i - L]
  <2>1. sink' = sink \o inc /\ inc \in Seq(ReqUnit) /\ Len(inc) = k
    BY <1>4, <1>5 DEF inc
  <2> QED
    BY <1>6, <2>1, Behind DEF L
<1>12. \A i \in 1..(L + k) : sink'[i] = [conn |-> conn, req |-> asked, n |-> h + i]
  <2> TAKE i \in 1..(L + k)
  <2>1. CASE i <= L
    <3>1. i \in 1..L
      BY <1>6, <2>1
    <3> QED
      BY <1>6, <1>11, <3>1
  <2>2. CASE ~(i <= L)
    <3>1. i - L \in 1..k /\ i \in (L + 1)..(L + k) /\ (h + L) + (i - L) = h + i
      BY <1>3, <1>5, <1>6, <2>2
    <3>2. inc[i - L] = [conn |-> conn, req |-> asked, n |-> (h + L) + (i - L)]
      BY <1>10, <3>1 DEF inc
    <3> QED
      BY <1>11, <3>1, <3>2
  <2> QED
    BY <2>1, <2>2
<1>13. stream[taken + k] = [req |-> asked, n |-> h + (L + k)] /\ taken + k > 0 /\ L + k <= r.body
  <2>1. k \in 1..k /\ (h + L) + k = h + (L + k)
    BY <1>3, <1>5, <1>6
  <2> QED
    <3>1. stream[taken + k] = [req |-> asked, n |-> (h + L) + k]
      BY <1>9, <2>1
    <3>2. taken + k > 0 /\ L + k <= r.body
      BY <1>3, <1>4, <1>5, <1>6, <1>7
    <3> QED
      BY <2>1, <3>1, <3>2
<1> QED
  BY <1>1, <1>4, <1>11, <1>12, <1>13 DEF BodyInv, h, r

\* PUMP_OK: the sink has the whole body.
LEMMA BodyWhole ==
    ASSUME CTypeInv, PeerInv, ActingInv, BodyInv, pc = "body", Remaining = 0 PROVE sink = Body
<1> DEFINE r == script[asked]
           h == r.head
           b == r.body
           us == Units(conn, asked, r)
<1>1. parsed[1].req = asked /\ asked \in 1..Len(script)
  BY DEF ActingInv, Acting
<1>2. h \in Nat /\ h >= 1 /\ b \in Nat
  BY <1>1, RequestSize DEF PeerInv
<1>3. Current = r /\ Body = SubSeq(us, h + 1, h + b)
  BY <1>1 DEF Current, Body
<1>4. sink \in Seq(ReqUnit) /\ Len(sink) \in Nat /\ \A i \in 1..Len(sink) : sink[i] = [conn |-> conn, req |-> asked, n |-> h + i]
  BY DEF BodyInv
<1>5. Len(sink) = b
  BY <1>2, <1>3, <1>4 DEF Remaining
<1>6. us = [i \in 1..(h + b) |-> [conn |-> conn, req |-> asked, n |-> i]]
  BY DEF Units
<1> HIDE DEF us, h, b, r
<1>7. SubSeq(us, h + 1, h + b) = [i \in 1..b |-> [conn |-> conn, req |-> asked, n |-> h + i]]
  <2> DEFINE U == [conn : {conn}, req : {asked}, n : Nat]
  <2>1. \A i \in 1..(h + b) : [conn |-> conn, req |-> asked, n |-> i] \in U
    BY <1>2
  <2> HIDE DEF U
  <2>2. us \in Seq(U) /\ Len(us) = h + b
    BY <1>2, <1>6, <2>1
  <2>3. SubSeq(us, h + 1, h + b) \in Seq(U) /\ Len(SubSeq(us, h + 1, h + b)) = b
    BY <1>2, <2>2
  <2>4. \A i \in 1..b : SubSeq(us, h + 1, h + b)[i] = us[h + i]
    BY <1>2, <2>2
  <2>5. \A i \in 1..b : h + i \in 1..(h + b) /\ us[h + i] = [conn |-> conn, req |-> asked, n |-> h + i]
    BY <1>2, <1>6
  <2> DEFINE S == SubSeq(us, h + 1, h + b)
  <2>6. S \in Seq(U) /\ Len(S) = b /\ \A i \in 1..b : S[i] = [conn |-> conn, req |-> asked, n |-> h + i]
    BY <2>3, <2>4, <2>5
  <2> HIDE DEF S
  <2>7. S = [i \in 1..b |-> S[i]]
    BY <1>2, <2>6
  <2> QED
    BY <2>6, <2>7 DEF S
<1>8. sink = [i \in 1..b |-> [conn |-> conn, req |-> asked, n |-> h + i]]
  BY <1>4, <1>5
<1> QED
  BY <1>3, <1>7, <1>8

\* The spool: an open ticket is read for, a committed one has it all.
LEMMA SpoolStep ==
    ASSUME CTypeInv, TicketSettledOnce, ParkInv, PolicyInv, PeerInv, ReadInv, ActingInv, BodyInv, CommitInv, CNext
    PROVE  BodyInv' /\ CommitInv'
<1>1. CASE PeerSends \/ PeerCloses
  BY <1>1 DEF PeerSends, PeerCloses, respVars, parkVars, BodyInv, CommitInv, Ending, Body, Current
<1>2. CASE Adopt
  BY <1>2 DEF Adopt, OperatorAdds, WorkerAdopts, NewConnection, BodyInv, CommitInv
<1>3. CASE PumpStep /\ UNCHANGED <<bufIdx, asked>>
  <2>1. ticket # "committed"
    <3>1. pc \in {"pump", "zip", "body", "drain"} \/ (pc = "ret" /\ caller \in {"reject", "abort"})
      BY <1>3 DEF PumpStep, AdaptFails, PumpZip, ZipRefused, client_upload_pump, client_upload_data_pump,
        BodyRead, BodyGivesUp, BodyGone, BodyDone, RejectReturns, DrainRejectedBody, DrainEnds, AbortReturns
    <3> QED
      BY <3>1 DEF CommitInv, Ending
  <2>2. CASE client_upload_pump \/ client_upload_data_pump
    <3>1. pc = "pump" /\ UNCHANGED <<script, stream, taken>>
      BY <2>2 DEF client_upload_pump, client_upload_data_pump, sockVars
    <3>2. CASE Begin
      <4>1. ticket' \in {"open", "aborted"}
        BY <3>2 DEF Begin
      <4>2. BodyInv'
        BY <1>3, <3>1, <3>2, BodyBegins DEF BodyInv
      <4> QED
        BY <4>1, <4>2 DEF CommitInv
    <3>3. CASE Send("reject") /\ UNCHANGED ticket
      BY <2>1, <3>3 DEF Send, Error, BodyInv, CommitInv
    <3> QED
      BY <2>2, <3>2, <3>3 DEF client_upload_pump, client_upload_data_pump
  <2>3. CASE BodyRead
    <3>1. BodyInv'
      BY <1>3, <2>3, BodyGrows DEF BodyInv
    <3> QED
      BY <2>1, <2>3, <3>1 DEF BodyRead, CommitInv
  <2>4. CASE BodyDone
    <3>1. sink = Body
      BY <2>4, BodyWhole DEF BodyDone
    <3>2. UNCHANGED <<sink, conn, parsed, script>>
      BY <2>4 DEF BodyDone, SendFrame, sockVars
    <3>3. pc' = "send" /\ caller' = "claimed"
      BY <2>4 DEF BodyDone, Send, Error
    <3>4. policy' = "close"
      BY <2>4 DEF BodyDone, Send, Error, PolicyInv
    <3>5. sink' = Body'
      BY <3>1, <3>2 DEF Body, Current
    <3> QED
      BY <3>3, <3>4, <3>5 DEF BodyInv, CommitInv, Ending
  <2>5. CASE AbortReturns
    BY <2>1, <2>5 DEF AbortReturns, Consume, BodyInv, CommitInv
  <2>6. CASE AdaptFails \/ PumpZip \/ ZipRefused \/ BodyGivesUp \/ BodyGone \/ RejectReturns \/ DrainRejectedBody \/ DrainEnds
    <3>1. ticket' = ticket /\ pc' # "body"
      BY <2>6 DEF AdaptFails, PumpZip, ZipRefused, BodyGivesUp, BodyGone, RejectReturns, DrainRejectedBody, DrainEnds,
        Send, Error, pumpVars
    <3> QED
      BY <2>1, <3>1 DEF BodyInv, CommitInv
  <2> QED
    BY <1>3, <2>2, <2>3, <2>4, <2>5, <2>6 DEF PumpStep
<1>4. CASE ZipStep /\ UNCHANGED <<sockVars, taken, ticket, sink, bufIdx, asked>>
  <2>1. pc \in {"zip"} \cup ZipPcs /\ pc' # "body"
    BY <1>4 DEF ZipStep, ZipBegin, ZipHead, ZipEntry, ZipData, ZipDescriptor, ZipCentral, ZipEnd, ZipGivesUp, ZipPcs
  <2> QED
    BY <1>4, <2>1 DEF BodyInv, CommitInv, Ending, ZipPcs
<1>5. ASSUME pc' # "body", UNCHANGED <<ticket, sink, conn, script>>, parsed' \in {parsed, <<>>},
             ticket = "committed" => Ending'
      PROVE  BodyInv' /\ CommitInv'
  BY <1>5 DEF BodyInv, CommitInv, Body, Current
<1>6. CASE HandleStep
  <2>1. pc' # "body" /\ UNCHANGED <<ticket, sink, conn, script>>
    BY <1>6 DEF HandleStep, Read, ReadBlocks, ReadFails, ParseMore, ParseStream, ParseFails, ParseFrame, Error,
      StoreRequest, srv_router_dispatch, handler_db_app, Send, DispatchReturns, CloseReturns, HandleFails, WaitFrame,
      SendFrame, pumpVars, sockVars
  <2>2. CASE Ending
    <3>1. CloseReturns \/ HandleFails
      BY <1>6, <2>2 DEF Ending, HandleStep, Read, ReadBlocks, ReadFails, ParseMore, ParseStream, ParseFails,
        StoreRequest, srv_router_dispatch, handler_db_app, DispatchReturns
    <3>2. Ending' /\ parsed' \in {parsed, <<>>}
      BY <2>2, <3>1 DEF Ending, CloseReturns, HandleFails, ResetMessage, WaitFrame, parkVars
    <3> QED
      BY <1>5, <2>1, <3>2
  <2>3. CASE ~Ending
    BY <2>1, <2>3 DEF BodyInv, CommitInv
  <2> QED
    BY <2>2, <2>3
<1>7. CASE WriterStep
  <2>1. UNCHANGED <<ticket, sink, conn, script, parsed, policy>>
    BY <1>7 DEF WriterStep, TrySend, Write, Sent, Park, ParkFails, SendStalls, WriteFails, Return, ResumeReturns,
      pumpVars, sockVars
  <2>2. CASE TrySend
    <3>1. pc = "send" /\ pc' \in {"send", "ret"} /\ caller' = caller
      BY <2>2 DEF TrySend, Write, Sent, Park, ParkFails, SendStalls, WriteFails, Return, Sending
    <3>2. Ending => Ending'
      BY <2>1, <3>1 DEF Ending
    <3> QED
      BY <1>5, <2>1, <3>1, <3>2 DEF CommitInv
  <2>3. CASE ResumeReturns
    <3>1. /\ pc = "ret" /\ draining' = draining
          /\ pc' = "remove" \/ (pc' = "wait" /\ (draining \/ policy # "close"))
      BY <2>3 DEF ResumeReturns, parkVars
    <3>2. Ending => Ending'
      BY <2>1, <3>1 DEF Ending
    <3> QED
      BY <1>5, <2>1, <3>1, <3>2 DEF CommitInv
  <2> QED
    BY <1>7, <2>2, <2>3 DEF WriterStep
<1>8. CASE client_shutdown \/ client_release_fd \/ HangUp \/ IdleTimeout \/ DriveTimeout
  <2>1. /\ pc' \in {"idle", "remove"} /\ UNCHANGED <<ticket, sink, conn, script>> /\ parsed' \in {parsed, <<>>}
    BY <1>8 DEF client_shutdown, client_release_fd, DropFrame, ResetMessage, HangUp, IdleTimeout, DriveTimeout, WaitFrame,
      pumpVars, sockVars
  <2> QED
    BY <1>5, <2>1 DEF Ending
<1>9. CASE ClientEvent \/ DriveUpload
  <2>1. /\ pc = "wait" /\ pc' \in {"read", "send"} /\ UNCHANGED <<ticket, sink, conn, script, parsed, policy>>
        /\ draining => pc' = "send" /\ caller' = "resume"
    BY <1>9 DEF ClientEvent, Resume, DriveUpload, WaitFrame, ParkInv, pumpVars, sockVars
  <2>2. Ending => Ending'
    BY <2>1 DEF Ending
  <2> QED
    BY <1>5, <2>1, <2>2 DEF CommitInv
<1> QED
  BY <1>1, <1>2, <1>3, <1>4, <1>6, <1>7, <1>8, <1>9 DEF CNext, SlotStep

(***************************************************************************)
(* The answers.                                                            *)
(***************************************************************************)
\* No upload is refused on an operator, where its answer could be parked in the buffer that the rest of its
\* body is then read into (the run connection_parked).
RefusalsNotParked == managed => Refused[TRUE] \cap {"post", "put"} = {}

\* The first k requests have been answered to the last byte, and the connection goes on.
Settled(k) ==
    \/ wire = <<>> /\ k = 0
    \/ /\ wire # <<>>
       /\ Last(wire).conn = conn /\ Last(wire).req = k /\ Last(wire).n = Last(wire).of /\ Last(wire).keep = TRUE

\* The i-th unit of an answer of length len to the request acted on last.
AnswerUnit(i, len) == [conn |-> conn, req |-> asked, n |-> i, of |-> len, keep |-> policy = "keep"]

\* The buffer holds that answer, and it is on the wire up to send_off.
Held(len) ==
    /\ len \in 1..BufLen /\ sendOff \in 0..len
    /\ \A i \in 1..len : buf[i] = AnswerUnit(i, len)
    /\ sendOff = 0 => Settled(asked - 1)
    /\ sendOff > 0 => wire # <<>> /\ Last(wire) = AnswerUnit(sendOff, len)

\* It is on the wire to its end, and said what the policy says.
AnswerOut ==
    /\ wire # <<>>
    /\ Last(wire).conn = conn /\ Last(wire).req = asked /\ Last(wire).n = Last(wire).of
    /\ Last(wire).keep = (policy = "keep")

WireInv == wire \in Seq(RespUnit) /\ Exchange!Sound(wire, conn, asked)

\* How far the answer to the request acted on last has come.
AnswerStage ==
    /\ (pc \in {"send", "ret"} /\ caller = "reject") \/ pc = "drain" => ~managed
    /\ Receiving => Settled(asked)
    /\ pc \in {"dispatch", "pump", "body", "zip", "zhead"} => Settled(asked - 1)
    /\ pc \in {"zentry", "zdata", "zend"} => wire # <<>> /\ Last(wire) = ZipUnit(1)
    /\ pc = "send" => Held(total)
    /\ draining /\ pc \in {"wait", "ret"} => Held(sendLen)
    /\ pc \in {"ret", "drain"} /\ rc = "ok" /\ ~draining => AnswerOut

AnswerInv == WireInv /\ RefusalsNotParked /\ AnswerStage

\* A step that leaves the wire, the requests taken and the connection alone.
LEMMA WireSame ==
    ASSUME AnswerInv, UNCHANGED <<wire, conn, asked, managed>>, AnswerStage' PROVE AnswerInv'
BY DEF AnswerInv, WireInv, RefusalsNotParked

\* The next k units of an answer of length len, of which a are out, go on the wire.
GoesOn(keep, len, a, k) ==
    /\ keep \in BOOLEAN /\ len \in Nat /\ a \in Nat /\ k \in Nat \ {0} /\ a + k <= len
    /\ a = 0 => Settled(asked - 1)
    /\ a > 0 => wire # <<>> /\ Last(wire) = [conn |-> conn, req |-> asked, n |-> a, of |-> len, keep |-> keep]
    /\ wire' \in Seq(RespUnit) /\ Len(wire') = Len(wire) + k
    /\ \A p \in 1..Len(wire) : wire'[p] = wire[p]
    /\ \A i \in 1..k :
         wire'[Len(wire) + i] = [conn |-> conn, req |-> asked, n |-> a + i, of |-> len, keep |-> keep]

\* The wire carries more, and what it carried before.
Longer == Len(wire') > Len(wire) /\ SubSeq(wire', 1, Len(wire)) = wire

\* The units of one answer differ in their place alone.
LEMMA NextUnit ==
    ASSUME NEW c, NEW r, NEW len, NEW keep, NEW x, NEW y
    PROVE  [conn |-> c, req |-> r, n |-> y, of |-> len, keep |-> keep] =
             [[conn |-> c, req |-> r, n |-> x, of |-> len, keep |-> keep] EXCEPT !.n = y]
OBVIOUS

\* What is on the wire stays in order.
LEMMA AnswerGrows ==
    ASSUME asked \in Nat, WireInv, NEW keep, NEW len, NEW a, NEW k, GoesOn(keep, len, a, k)
    PROVE  /\ Exchange!Sound(wire', conn, asked) /\ wire' \in Seq(RespUnit) /\ Longer
           /\ wire' # <<>> /\ Last(wire') = [conn |-> conn, req |-> asked, n |-> a + k, of |-> len, keep |-> keep]
<1> USE DEF GoesOn
<1> DEFINE L == Len(wire)
           Rec(i) == [conn |-> conn, req |-> asked, n |-> i, of |-> len, keep |-> keep]
<1>1. L \in Nat /\ Len(wire') = L + k /\ Len(wire') # 0 /\ wire' # <<>> /\ (wire # <<>> => L \in 1..L)
  BY DEF WireInv
<1>2. \A i \in 1..k : wire'[L + i] = Rec(a + i)
  OBVIOUS
<1>3. wire # <<>> => wire'[L] = Last(wire)
  BY <1>1 DEF Last
<1>4. ASSUME NEW p \in 1..Len(wire') PROVE {"conn", "req", "n", "of", "keep"} = DOMAIN wire'[p]
  <2>1. wire'[p] \in RespUnit
    OBVIOUS
  <2> QED
    BY <2>1 DEF RespUnit
<1>5. ASSUME NEW p \in 1..Len(wire')
      PROVE  /\ wire'[p].req <= asked
             /\ IF p = 1 THEN wire'[p].conn = conn /\ wire'[p].req = 1 /\ wire'[p].n = 1
                         ELSE Exchange!Continues(wire'[p - 1], wire'[p])
  <2>1. CASE p \in 1..L
    <3>1. /\ wire[p].req <= asked
          /\ IF p = 1 THEN wire[p].conn = conn /\ wire[p].req = 1 /\ wire[p].n = 1
                      ELSE Exchange!Continues(wire[p - 1], wire[p])
      BY <2>1 DEF WireInv, Exchange!Sound
    <3>2. wire'[p] = wire[p]
      BY <2>1
    <3>3. p # 1 => wire'[p - 1] = wire[p - 1]
      <4>1. p # 1 => p - 1 \in 1..L
        BY <1>1, <2>1
      <4> QED
        BY <4>1
    <3> QED
      BY <3>1, <3>2, <3>3
  <2>2. CASE p \notin 1..L
    <3> DEFINE i == p - L
    <3>1. i \in 1..k /\ p = L + i
      BY <1>1, <2>2
    <3>2. wire'[p] = Rec(a + i)
      BY <1>2, <3>1
    <3>3. wire'[p].req <= asked
      BY <3>2
    <3>4. CASE i # 1 \/ a > 0
      <4>1. p # 1
        <5>1. L # 0 \/ i # 1
          BY <1>1, <3>4
        <5> QED
          BY <1>1, <3>1, <5>1
      <4>2. wire'[p - 1] = Rec((a + i) - 1)
        <5>1. CASE i # 1
          <6>1. i - 1 \in 1..k /\ p - 1 = L + (i - 1)
            BY <1>1, <3>1, <5>1
          <6>2. wire'[p - 1] = Rec(a + (i - 1))
            BY <1>2, <6>1
          <6>3. a + (i - 1) = (a + i) - 1
            BY <3>1
          <6> QED
            BY <6>2, <6>3
        <5>2. CASE i = 1
          <6>1. p - 1 = L /\ (a + i) - 1 = a /\ a > 0
            BY <1>1, <3>1, <3>4, <5>2
          <6> QED
            BY <1>3, <6>1
        <5> QED
          BY <5>1, <5>2
      <4>3. Exchange!Continues(Rec((a + i) - 1), Rec(a + i))
        <5>1. a + i <= len /\ ((a + i) - 1) + 1 = a + i
          BY <3>1
        <5>2. \A x, y : Rec(y) = [Rec(x) EXCEPT !.n = y]
          BY NextUnit
        <5>3. \A x : Rec(x).n = x /\ Rec(x).of = len
          OBVIOUS
        <5> HIDE DEF Rec, i
        <5>4. Rec(a + i) = [Rec((a + i) - 1) EXCEPT !.n = a + i]
          BY <5>2
        <5> QED
          BY <5>1, <5>3, <5>4 DEF Exchange!Continues
      <4> QED
        BY <3>2, <3>3, <4>1, <4>2, <4>3
    <3>5. CASE i = 1 /\ a = 0
      <4>1. Settled(asked - 1) /\ wire'[p].conn = conn /\ wire'[p].req = asked /\ wire'[p].n = 1
        BY <3>2, <3>5
      <4>2. CASE wire = <<>>
        <5>1. p = 1 /\ asked = 1
          BY <1>1, <3>1, <3>5, <4>1, <4>2 DEF Settled
        <5> QED
          BY <3>3, <4>1, <5>1
      <4>3. CASE wire # <<>>
        <5>1. p # 1 /\ p - 1 = L
          BY <1>1, <3>1, <3>5, <4>3
        <5>2. /\ wire'[p - 1].conn = conn /\ wire'[p - 1].req = asked - 1 /\ wire'[p - 1].n = wire'[p - 1].of
              /\ wire'[p - 1].keep = TRUE
          BY <1>3, <4>1, <4>3, <5>1 DEF Settled
        <5>3. asked = (asked - 1) + 1
          OBVIOUS
        <5>4. Exchange!Continues(wire'[p - 1], wire'[p])
          BY <4>1, <5>2, <5>3 DEF Exchange!Continues
        <5> QED
          BY <3>3, <5>1, <5>4
      <4> QED
        BY <4>2, <4>3
    <3> QED
      BY <3>1, <3>4, <3>5
  <2> QED
    BY <2>1, <2>2
<1>6. Exchange!Sound(wire', conn, asked)
  <2>1. DOMAIN wire' = 1..Len(wire')
    OBVIOUS
  <2> QED
    BY <1>4, <1>5, <2>1 DEF Exchange!Sound
<1>7. Last(wire') = Rec(a + k)
  <2>1. k \in 1..k
    OBVIOUS
  <2> QED
    BY <1>1, <1>2, <2>1 DEF Last
<1>8. Longer
  <2>1. wire \in Seq(RespUnit) /\ Len(wire') >= Len(wire) /\ Len(wire') > Len(wire)
    BY <1>1 DEF WireInv
  <2> QED
    BY <2>1 DEF Longer
<1> QED
  BY <1>1, <1>6, <1>7, <1>8

\* Taking a request leaves what is on the wire in order.
LEMMA WireTake ==
    ASSUME WireInv, UNCHANGED <<wire, conn>>, asked \in Nat, asked' \in {asked, asked + 1} PROVE WireInv'
<1>1. \A r : r \in Nat /\ r <= asked => r <= asked'
  OBVIOUS
<1>2. \A p \in DOMAIN wire : wire[p].req \in Nat
  <2> TAKE p \in DOMAIN wire
  <2>1. wire[p] \in RespUnit
    BY DEF WireInv
  <2> QED
    BY <2>1 DEF RespUnit
<1>3. Exchange!Sound(wire, conn, asked')
  BY <1>1, <1>2 DEF WireInv, Exchange!Sound
<1> QED
  BY <1>3 DEF WireInv

\* response_writer_send and response_writer_error: the buffer holds the answer to the request in the parser.
LEMMA AnswerSerialised ==
    ASSUME NEW who, Send(who) \/ Error(who), UNCHANGED conn, parsed[1].req = asked'
    PROVE  /\ pc' = "send" /\ caller' = who /\ sendOff' = 0 /\ total' \in 1..BufLen
           /\ \A i \in 1..total' :
                buf'[i] = [conn |-> conn', req |-> asked', n |-> i, of |-> total', keep |-> policy' = "keep"]
<1>1. ASSUME NEW len \in 1..BufLen, NEW keep, buf' = Fill(0, Response(len, keep))
      PROVE  \A i \in 1..len :
               buf'[i] = [conn |-> conn', req |-> asked', n |-> i, of |-> len, keep |-> keep]
  <2> TAKE i \in 1..len
  <2> DEFINE s == Response(len, keep)
  <2>1. len \in Nat /\ len <= BufLen /\ BufLen \in Nat
    BY ResponseAssumption
  <2>2. Len(s) = len /\ s[i] = [conn |-> conn', req |-> asked', n |-> i, of |-> len, keep |-> keep]
    BY <2>1 DEF Response
  <2> HIDE DEF s
  <2>3. buf' = Fill(0, s)
    BY <1>1 DEF s
  <2>4. i \in 1..BufLen /\ i \in (0 + 1)..(0 + Len(s)) /\ i - 0 = i
    BY <2>1, <2>2
  <2>5. buf'[i] = s[i]
    BY <2>3, <2>4 DEF Fill
  <2> QED
    BY <2>2, <2>5
<1>2. CASE Error(who)
  <2>1. ErrLen \in 1..BufLen /\ buf' = Fill(0, Response(ErrLen, FALSE)) /\ policy' = "close" /\ total' = ErrLen
    BY <1>2, ResponseAssumption DEF Error, ErrLen
  <2>2. \A i \in 1..total' :
          buf'[i] = [conn |-> conn', req |-> asked', n |-> i, of |-> total', keep |-> FALSE]
    BY <1>1, <2>1
  <2> DEFINE keep == policy' = "keep"
  <2>3. keep = FALSE
    BY <2>1
  <2>4. \A i \in 1..total' :
          buf'[i] = [conn |-> conn', req |-> asked', n |-> i, of |-> total', keep |-> keep]
    <3> HIDE DEF keep
    <3> QED
      BY <2>2, <2>3
  <2> QED
    BY <1>2, <2>1, <2>4 DEF Error
<1>3. CASE Send(who) /\ ~Error(who)
  <2>1. PICK len \in RespLens : len <= BufLen /\ buf' = Fill(0, Response(len, policy = "keep")) /\ sendOff' = 0
          /\ total' = len /\ caller' = who /\ pc' = "send" /\ policy' = policy
    BY <1>3 DEF Send
  <2>2. len \in 1..BufLen
    BY <2>1, ResponseAssumption
  <2> DEFINE keep == policy = "keep"
  <2>3. buf' = Fill(0, Response(len, keep))
    BY <2>1
  <2>4. \A i \in 1..len : buf'[i] = [conn |-> conn', req |-> asked', n |-> i, of |-> len, keep |-> keep]
    <3> HIDE DEF keep
    <3> QED
      BY <1>1, <2>2, <2>3
  <2> QED
    BY <2>1, <2>2, <2>4
<1> QED
  BY <1>2, <1>3

\* An answer starts where everything before it has been answered.
LEMMA AnswerStarts ==
    ASSUME AnswerInv, NEW who, Send(who) \/ Error(who), UNCHANGED <<managed, conn, wire, draining>>,
           asked \in Nat, asked' \in {asked, asked + 1}, parsed[1].req = asked', Settled(asked' - 1),
           who = "reject" => ~managed
    PROVE  AnswerInv'
<1>1. /\ pc' = "send" /\ caller' = who /\ sendOff' = 0 /\ total' \in 1..BufLen
      /\ \A i \in 1..total' :
           buf'[i] = [conn |-> conn', req |-> asked', n |-> i, of |-> total', keep |-> policy' = "keep"]
  BY AnswerSerialised
<1>2. WireInv'
  BY WireTake DEF AnswerInv
<1>3. Settled(asked - 1)'
  BY DEF Settled
<1>4. Held(total)'
  <2>1. 0 \in 0..total'
    BY <1>1
  <2> QED
    BY <1>1, <1>3, <2>1 DEF Held, AnswerUnit
<1>5. AnswerStage'
  BY <1>1, <1>4 DEF AnswerStage, Receiving
<1> QED
  BY <1>2, <1>5 DEF AnswerInv, RefusalsNotParked

\* write() takes the next units of the answer.
LEMMA AnswerWrite ==
    ASSUME CTypeInv, AnswerInv, Write, asked' = asked PROVE AnswerInv' /\ Longer
<1>1. pc = "send" /\ sendOff < total /\ Held(total) /\ asked \in Nat /\ conn \in {0, 1}
  BY DEF Write, Sending, AnswerInv, AnswerStage, CTypeInv, ClTypeOK
<1>2. PICK k \in 1..(total - sendOff) :
        wire' = wire \o SubSeq(buf, sendOff + 1, sendOff + k) /\ sendOff' = sendOff + k
  BY DEF Write
<1>3. UNCHANGED <<managed, conn, policy, buf, draining, pc, total, caller>>
  BY DEF Write
<1>4. /\ total \in Nat /\ sendOff \in Nat /\ total \in 1..BufLen /\ BufLen \in Nat
      /\ k \in Nat \ {0} /\ sendOff + k <= total /\ sendOff + k > 0
  BY <1>1, <1>2, ResponseAssumption DEF Held
<1> DEFINE keep == policy = "keep"
           Rec(i) == [conn |-> conn, req |-> asked, n |-> i, of |-> total, keep |-> keep]
           more == SubSeq(buf, sendOff + 1, sendOff + k)
<1>5. keep \in BOOLEAN
  OBVIOUS
<1>6. \A i \in 1..total : buf[i] = Rec(i)
  BY <1>1 DEF Held, AnswerUnit
<1>7. sendOff > 0 => wire # <<>> /\ Last(wire) = Rec(sendOff)
  BY <1>1 DEF Held, AnswerUnit
<1>8. sendOff = 0 => Settled(asked - 1)
  BY <1>1 DEF Held
<1> HIDE DEF keep
<1>9. \A i \in 1..k : buf[sendOff + i] = Rec(sendOff + i) /\ Rec(sendOff + i) \in RespUnit
  <2> TAKE i \in 1..k
  <2>1. sendOff + i \in 1..total /\ sendOff + i \in Nat
    BY <1>4
  <2> QED
    BY <1>1, <1>4, <1>5, <1>6, <2>1 DEF RespUnit
<1>10. more \in Seq(RespUnit) /\ Len(more) = k /\ \A i \in 1..k : more[i] = Rec(sendOff + i)
  <2> HIDE DEF Rec
  <2>1. \A i \in 1..k : buf[sendOff + i] \in RespUnit
    BY <1>9
  <2>2. more \in Seq(RespUnit)
    BY <1>4, <2>1
  <2>3. Len(more) = k /\ \A i \in 1..k : more[i] = buf[sendOff + i]
    BY <1>4
  <2> QED
    BY <1>9, <2>2, <2>3
<1> HIDE DEF more
<1>11. wire \in Seq(RespUnit) /\ wire' = wire \o more
  BY <1>2 DEF AnswerInv, WireInv, more
<1>12. /\ wire' \in Seq(RespUnit) /\ Len(wire') = Len(wire) + k
       /\ \A p \in 1..Len(wire) : wire'[p] = wire[p]
       /\ \A i \in 1..k : wire'[Len(wire) + i] = Rec(sendOff + i)
  <2>1. /\ wire' \in Seq(RespUnit) /\ Len(wire') = Len(wire) + k
        /\ \A p \in 1..Len(wire) : wire'[p] = wire[p]
        /\ \A p \in (Len(wire) + 1)..(Len(wire) + k) : wire'[p] = more[p - Len(wire)]
    <3> HIDE DEF Rec
    <3> QED
      BY <1>10, <1>11, Behind
  <2>2. \A i \in 1..k : wire'[Len(wire) + i] = more[i]
    <3> TAKE i \in 1..k
    <3>1. Len(wire) + i \in (Len(wire) + 1)..(Len(wire) + k) /\ (Len(wire) + i) - Len(wire) = i
      BY <1>4, <1>11
    <3> QED
      BY <2>1, <3>1
  <2> QED
    BY <1>10, <2>1, <2>2
<1>13. Exchange!Sound(wire', conn, asked) /\ wire' # <<>> /\ Last(wire') = Rec(sendOff + k) /\ Longer
  <2>1. GoesOn(keep, total, sendOff, k)
    BY <1>4, <1>5, <1>7, <1>8, <1>12 DEF GoesOn
  <2> QED
    BY <1>1, <2>1, AnswerGrows DEF AnswerInv
<1>14. WireInv'
  BY <1>3, <1>12, <1>13 DEF WireInv
<1>15. Held(total)'
  <2>1. \A i \in 1..total : buf[i] = [conn |-> conn, req |-> asked, n |-> i, of |-> total, keep |-> policy = "keep"]
    BY <1>1 DEF Held, AnswerUnit
  <2>2. Last(wire') = [conn |-> conn, req |-> asked, n |-> sendOff', of |-> total, keep |-> policy = "keep"]
    BY <1>2, <1>13 DEF keep
  <2>3. sendOff' \in 0..total' /\ sendOff' > 0 /\ total' \in 1..BufLen
    BY <1>2, <1>3, <1>4
  <2> QED
    BY <1>3, <1>13, <2>1, <2>2, <2>3 DEF Held, AnswerUnit
<1>16. AnswerStage'
  BY <1>1, <1>3, <1>15 DEF AnswerStage, Receiving, AnswerInv
<1> QED
  BY <1>3, <1>13, <1>14, <1>16 DEF AnswerInv, RefusalsNotParked

\* The answers: _try_send and response_writer_resume.
LEMMA AnswerWriter ==
    ASSUME CTypeInv, ParkInv, PolicyInv, AnswerInv, TrySend \/ ResumeReturns,
           UNCHANGED <<pumpVars, bufIdx, asked>> PROVE AnswerInv'
<1>1. CASE Write
  BY <1>1, AnswerWrite
<1>2. CASE Sent
  <2>1. /\ pc = "send" /\ Held(total) /\ sendOff >= total /\ UNCHANGED <<managed, conn, wire, asked, policy, caller>>
        /\ pc' = "ret" /\ draining' = FALSE
    BY <1>2 DEF Sent, ClearSend, Return, AnswerInv, AnswerStage
  <2>2. total \in 1..BufLen /\ sendOff = total /\ total > 0
    BY <2>1, ResponseAssumption DEF Held
  <2>3. wire # <<>> /\ Last(wire) = [conn |-> conn, req |-> asked, n |-> total, of |-> total, keep |-> policy = "keep"]
    BY <2>1, <2>2 DEF Held, AnswerUnit
  <2>4. AnswerOut'
    BY <2>1, <2>3 DEF AnswerOut
  <2> QED
    BY <2>1, <2>4, WireSame DEF AnswerStage, Receiving, AnswerInv
<1>3. CASE Park
  <2>1. /\ pc = "send" /\ Held(total) /\ UNCHANGED <<managed, conn, wire, asked, policy, caller, buf, sendOff>>
        /\ pc' = "ret" /\ draining' = TRUE /\ sendLen' = total
    BY <1>3 DEF Park, Sending, Return, AnswerInv, AnswerStage
  <2>2. Held(sendLen)'
    BY <2>1 DEF Held, AnswerUnit, Settled
  <2> QED
    BY <2>1, <2>2, WireSame DEF AnswerStage, Receiving, AnswerInv
<1>4. CASE ParkFails \/ SendStalls \/ WriteFails
  <2>1. /\ pc = "send" /\ UNCHANGED <<managed, conn, wire, asked, policy, caller>>
        /\ pc' = "ret" /\ draining' = FALSE /\ rc' = "fail"
    BY <1>4 DEF ParkFails, SendStalls, WriteFails, Sending, ClearSend, Return, ParkInv, CTypeInv, ClTypeOK
  <2> QED
    BY <2>1, WireSame DEF AnswerStage, Receiving, AnswerInv
<1>5. CASE ResumeReturns
  <2>1. /\ pc = "ret" /\ UNCHANGED <<managed, conn, wire, asked, policy, caller, buf, draining, sendOff, sendLen>>
        /\ pc' = "remove" \/ (pc' = "wait" /\ rc = "ok" /\ (draining \/ policy # "close"))
    BY <1>5 DEF ResumeReturns, parkVars
  <2>2. draining => (Held(sendLen) => Held(sendLen)')
    BY <2>1 DEF Held, AnswerUnit, Settled
  <2>3. rc = "ok" /\ ~draining /\ policy # "close" => Settled(asked)'
    BY <2>1 DEF AnswerInv, AnswerStage, AnswerOut, Settled, PolicyInv, CTypeInv, ClTypeOK
  <2> QED
    BY <2>1, <2>2, <2>3, WireSame DEF AnswerStage, Receiving, AnswerInv
<1> QED
  BY <1>1, <1>2, <1>3, <1>4, <1>5 DEF TrySend

\* The folder pump's part of the answer is one more unit.
LEMMA ZipUnitGoesOn ==
    ASSUME CTypeInv, AnswerInv, parsed[1].req = asked, NEW k \in 1..2, wire' = Append(wire, ZipUnit(k)),
           k = 1 => Settled(asked - 1), k = 2 => wire # <<>> /\ Last(wire) = ZipUnit(1), UNCHANGED <<conn, asked>>
    PROVE  WireInv' /\ Longer /\ wire' # <<>> /\ Last(wire') = ZipUnit(k)
<1>1. asked \in Nat /\ conn \in {0, 1} /\ wire \in Seq(RespUnit) /\ WireInv
  BY DEF CTypeInv, ClTypeOK, AnswerInv, WireInv
<1>2. \A n \in Nat : ZipUnit(n) = [conn |-> conn, req |-> asked, n |-> n, of |-> 2, keep |-> FALSE]
  BY DEF ZipUnit
<1>3. k \in Nat /\ ZipUnit(k) \in RespUnit
  <2>1. k \in Nat /\ ZipUnit(k) = [conn |-> conn, req |-> asked, n |-> k, of |-> 2, keep |-> FALSE]
    BY <1>2
  <2>2. [conn |-> conn, req |-> asked, n |-> k, of |-> 2, keep |-> FALSE] \in RespUnit
    BY <1>1, <2>1 DEF RespUnit
  <2> QED
    BY <2>1, <2>2
<1>4. /\ wire' \in Seq(RespUnit) /\ Len(wire') = Len(wire) + 1 /\ wire'[Len(wire) + 1] = ZipUnit(k)
      /\ \A p \in 1..Len(wire) : wire'[p] = wire[p]
  BY <1>1, <1>3
<1>5. GoesOn(FALSE, 2, k - 1, 1)
  <2>1. k - 1 \in Nat /\ (k - 1) + 1 = k /\ k <= 2 /\ (k - 1 = 0 => k = 1) /\ (k - 1 > 0 => k = 2)
    OBVIOUS
  <2>2. k - 1 > 0 =>
          wire # <<>> /\ Last(wire) = [conn |-> conn, req |-> asked, n |-> k - 1, of |-> 2, keep |-> FALSE]
    BY <1>2, <2>1
  <2>3. \A i \in 1..1 :
          wire'[Len(wire) + i] = [conn |-> conn, req |-> asked, n |-> (k - 1) + i, of |-> 2, keep |-> FALSE]
    <3> TAKE i \in 1..1
    <3>1. i = 1 /\ (k - 1) + i = k
      OBVIOUS
    <3> QED
      BY <1>2, <1>3, <1>4, <3>1
  <2> QED
    BY <1>4, <2>1, <2>2, <2>3 DEF GoesOn
<1>6. /\ Exchange!Sound(wire', conn, asked) /\ wire' \in Seq(RespUnit) /\ Longer /\ wire' # <<>>
      /\ Last(wire') = [conn |-> conn, req |-> asked, n |-> (k - 1) + 1, of |-> 2, keep |-> FALSE]
  BY <1>1, <1>5, AnswerGrows
<1>7. (k - 1) + 1 = k
  OBVIOUS
<1> QED
  BY <1>2, <1>3, <1>6, <1>7 DEF WireInv

\* The answers: the folder pump.
LEMMA AnswerZip ==
    ASSUME CTypeInv, ParkInv, PolicyInv, ActingInv, AnswerInv, ZipStep,
           UNCHANGED <<sockVars, taken, ticket, sink, bufIdx, asked>> PROVE AnswerInv'
<1>1. /\ pc \in {"zip"} \cup ZipPcs /\ UNCHANGED <<managed, conn, parsed, policy, draining, asked>>
  BY DEF ZipStep, ZipBegin, ZipHead, ZipEntry, ZipData, ZipDescriptor, ZipCentral, ZipEnd, zipFrame, zipRest, ZipPcs,
    parkVars
<1>2. parsed[1].req = asked /\ ~draining /\ policy = "close"
  BY <1>1 DEF ActingInv, Acting, ParkInv, PolicyInv, ZipPcs
<1>3. CASE ZipGivesUp
  <2>1. UNCHANGED wire /\ pc' = "ret" /\ caller' = "claimed" /\ rc' = "fail"
    BY <1>3 DEF ZipGivesUp
  <2> QED
    BY <1>1, <1>2, <2>1, WireSame DEF AnswerStage, Receiving, AnswerInv
<1>4. CASE ZipHead /\ ~ZipGivesUp
  <2>1. pc = "zhead" /\ wire' = Append(wire, ZipUnit(1)) /\ pc' = "zentry" /\ Settled(asked - 1)
    BY <1>4 DEF ZipHead, AnswerInv, AnswerStage
  <2>2. WireInv' /\ wire' # <<>> /\ Last(wire') = ZipUnit(1)
    BY <1>1, <1>2, <2>1, ZipUnitGoesOn
  <2>3. ZipUnit(1)' = ZipUnit(1)
    BY <1>1 DEF ZipUnit
  <2>4. AnswerStage'
    BY <1>1, <1>2, <2>1, <2>2, <2>3 DEF AnswerStage, Receiving
  <2> QED
    BY <1>1, <2>2, <2>4 DEF AnswerInv, RefusalsNotParked
<1>5. CASE ZipEnd /\ ~ZipGivesUp
  <2>1. /\ pc = "zend" /\ wire' = Append(wire, ZipUnit(2)) /\ pc' = "ret" /\ caller' = "claimed"
        /\ wire # <<>> /\ Last(wire) = ZipUnit(1)
    BY <1>5 DEF ZipEnd, AnswerInv, AnswerStage
  <2>2. WireInv' /\ wire' # <<>> /\ Last(wire') = ZipUnit(2)
    BY <1>1, <1>2, <2>1, ZipUnitGoesOn
  <2>3. ZipUnit(2) = [conn |-> conn, req |-> asked, n |-> 2, of |-> 2, keep |-> FALSE]
    BY <1>2 DEF ZipUnit
  <2>4. AnswerOut'
    <3>1. /\ Last(wire').conn = conn /\ Last(wire').req = asked /\ Last(wire').n = Last(wire').of
          /\ Last(wire').keep = FALSE
      BY <2>2, <2>3
    <3>2. policy' = "close"
      BY <1>1, <1>2
    <3> QED
      BY <1>1, <2>2, <3>1, <3>2 DEF AnswerOut
  <2>5. AnswerStage'
    BY <1>1, <1>2, <2>1, <2>4 DEF AnswerStage, Receiving
  <2> QED
    BY <1>1, <2>2, <2>5 DEF AnswerInv, RefusalsNotParked
<1>6. CASE (ZipBegin \/ ZipEntry \/ ZipData \/ ZipDescriptor \/ ZipCentral) /\ ~ZipGivesUp
  <2>1. /\ UNCHANGED wire
        /\ \/ pc = "zip" /\ pc' = "zhead"
           \/ pc \in {"zentry", "zdata"} /\ pc' \in {"zentry", "zdata", "zend"}
    BY <1>6 DEF ZipBegin, ZipEntry, ZipData, ZipDescriptor, ZipCentral
  <2>2. ZipUnit(1)' = ZipUnit(1) /\ Settled(asked - 1)' = Settled(asked - 1)
    BY <1>1, <2>1 DEF ZipUnit, Settled
  <2> QED
    BY <1>1, <1>2, <2>1, <2>2, WireSame DEF AnswerStage, Receiving, AnswerInv
<1> QED
  BY <1>3, <1>4, <1>5, <1>6 DEF ZipStep

\* A step of the upload pump answers the request, or goes on without a word.
LEMMA PumpAnswers ==
    ASSUME RefusalsNotParked, managed \in BOOLEAN, PumpStep
    PROVE  \/ /\ pc \in {"pump", "zip", "body"} /\ SendFrame
              /\ \E who : (Send(who) \/ Error(who)) /\ (who = "reject" => ~managed)
           \/ /\ UNCHANGED <<managed, conn, wire, policy, draining, sendLen, parsed, rc>>
              /\ \/ pc \in {"pump", "body"} /\ pc' \in {"zip", "body"}
                 \/ UNCHANGED sendOff /\ pc = "ret" /\ caller = "reject" /\ pc' = "drain"
                 \/ pc = "drain" /\ (pc' = "drain" \/ (pc' = "ret" /\ caller' = "claimed"))
                 \/ UNCHANGED <<sendOff, buf>> /\ pc = "ret" /\ caller = "abort" /\ pc' = "ret" /\ caller' = "claimed"
           \/ /\ UNCHANGED <<managed, conn, wire, draining>>
              /\ pc = "body" /\ pc' = "ret" /\ caller' = "abort" /\ rc' = "fail"
<1>1. CASE AdaptFails \/ ZipRefused \/ BodyGivesUp \/ BodyDone
  <2>1. pc \in {"pump", "zip", "body"} /\ SendFrame
    BY <1>1 DEF AdaptFails, ZipRefused, BodyGivesUp, BodyDone
  <2>2. Send("claimed") \/ Error("claimed") \/ Error("abort")
    BY <1>1 DEF AdaptFails, ZipRefused, BodyGivesUp, BodyDone
  <2>3. \E who : (Send(who) \/ Error(who)) /\ who # "reject"
    BY <2>2
  <2> QED
    BY <2>1, <2>3
<1>2. ASSUME pc = "pump", Begin
      PROVE  \/ pc = "pump" /\ SendFrame /\ \E who : Error(who) /\ who # "reject"
             \/ SendFrame /\ pc' = "body" /\ UNCHANGED policy
  <2>1. SendFrame /\ (Error("claimed") \/ Error("abort") \/ (pc' = "body" /\ UNCHANGED policy))
    BY <1>2 DEF Begin
  <2> QED
    BY <1>2, <2>1
<1>3. CASE client_upload_pump \/ client_upload_data_pump
  <2>1. pc = "pump"
    BY <1>3 DEF client_upload_pump, client_upload_data_pump
  <2>2. CASE Begin
    BY <1>2, <2>1, <2>2 DEF SendFrame
  <2>3. CASE ~Begin
    <3>1. Send("reject") /\ SendFrame /\ Refused[managed] \cap {"post", "put"} # {}
      BY <1>3, <2>3 DEF client_upload_pump, client_upload_data_pump
    <3>2. ~managed
      BY <3>1 DEF RefusalsNotParked
    <3> QED
      BY <2>1, <3>1, <3>2
  <2> QED
    BY <2>2, <2>3
<1>4. CASE BodyRead
  <2>1. pc = "body" /\ SendFrame /\ (Error("abort") \/ UNCHANGED <<policy, pc>>)
    BY <1>4 DEF BodyRead
  <2>2. CASE Error("abort")
    BY <2>1, <2>2
  <2>3. CASE UNCHANGED <<policy, pc>>
    BY <2>1, <2>3 DEF SendFrame
  <2> QED
    BY <2>1, <2>2, <2>3
<1>5. CASE PumpZip \/ BodyGone
  BY <1>5 DEF PumpZip, BodyGone, parkVars
<1>6. CASE RejectReturns \/ DrainRejectedBody \/ DrainEnds \/ AbortReturns
  BY <1>6 DEF RejectReturns, DrainRejectedBody, DrainEnds, AbortReturns, parkVars
<1> QED
  BY <1>1, <1>3, <1>4, <1>5, <1>6 DEF PumpStep

\* The answers: the upload pump.
LEMMA AnswerPump ==
    ASSUME CTypeInv, ParkInv, ActingInv, AnswerInv, PumpStep, UNCHANGED <<bufIdx, asked>> PROVE AnswerInv'
<1>0. RefusalsNotParked /\ managed \in BOOLEAN /\ asked \in Nat
  BY DEF AnswerInv, CTypeInv, ClTypeOK
<1>1. CASE /\ pc \in {"pump", "zip", "body"} /\ SendFrame
           /\ \E who : (Send(who) \/ Error(who)) /\ (who = "reject" => ~managed)
  <2>1. parsed[1].req = asked /\ Settled(asked - 1)
    BY <1>1 DEF ActingInv, Acting, AnswerInv, AnswerStage
  <2>2. UNCHANGED <<managed, conn, wire, draining>>
    BY <1>1 DEF SendFrame
  <2> QED
    BY <1>0, <1>1, <2>1, <2>2, AnswerStarts
<1>2. CASE /\ UNCHANGED <<managed, conn, wire, policy, draining, sendLen, parsed, rc>>
           /\ \/ pc \in {"pump", "body"} /\ pc' \in {"zip", "body"}
              \/ UNCHANGED sendOff /\ pc = "ret" /\ caller = "reject" /\ pc' = "drain"
              \/ pc = "drain" /\ (pc' = "drain" \/ (pc' = "ret" /\ caller' = "claimed"))
              \/ UNCHANGED <<sendOff, buf>> /\ pc = "ret" /\ caller = "abort" /\ pc' = "ret" /\ caller' = "claimed"
  <2>1. CASE pc \in {"pump", "body"} /\ pc' \in {"zip", "body"}
    <3>1. Settled(asked - 1)'
      BY <1>2, <2>1 DEF AnswerInv, AnswerStage, Settled
    <3>2. AnswerStage'
      BY <2>1, <3>1 DEF AnswerStage, Receiving
    <3> QED
      BY <1>2, <3>2, WireSame
  <2>2. CASE pc \in {"ret", "drain"} /\ (caller = "reject" \/ pc = "drain") /\
             (pc' = "drain" \/ (pc' = "ret" /\ caller' = "claimed"))
    <3>1. ~managed /\ ~draining
      BY <2>2 DEF AnswerInv, AnswerStage, ParkInv
    <3>2. rc = "ok" => AnswerOut'
      BY <1>2, <2>2, <3>1 DEF AnswerInv, AnswerStage, AnswerOut
    <3>3. AnswerStage'
      BY <1>2, <2>2, <3>1, <3>2 DEF AnswerStage, Receiving
    <3> QED
      BY <1>2, <3>3, WireSame
  <2>3. CASE UNCHANGED <<sendOff, buf>> /\ pc = "ret" /\ caller = "abort" /\ pc' = "ret" /\ caller' = "claimed"
    <3>1. Held(sendLen) => Held(sendLen)'
      BY <1>2, <2>3 DEF Held, AnswerUnit, Settled
    <3>2. AnswerOut => AnswerOut'
      BY <1>2, <2>3 DEF AnswerOut
    <3>3. AnswerStage'
      BY <1>2, <2>3, <3>1, <3>2 DEF AnswerStage, Receiving, AnswerInv
    <3> QED
      BY <1>2, <3>3, WireSame
  <2> QED
    BY <1>2, <2>1, <2>2, <2>3
<1>3. CASE /\ UNCHANGED <<managed, conn, wire, draining>>
           /\ pc = "body" /\ pc' = "ret" /\ caller' = "abort" /\ rc' = "fail"
  <2>1. ~draining
    BY <1>3 DEF ParkInv
  <2>2. AnswerStage'
    BY <1>3, <2>1 DEF AnswerStage, Receiving
  <2> QED
    BY <1>3, <2>2, WireSame
<1> QED
  BY <1>0, <1>1, <1>2, <1>3, PumpAnswers

\* The answers: client_handle, with the router and the handler.
LEMMA AnswerHandle ==
    ASSUME CTypeInv, ParkInv, PolicyInv, ReadInv, ActingInv, AnswerInv, HandleStep PROVE AnswerInv'
<1>0. asked \in Nat /\ asked + 1 \in Nat /\ (asked + 1) - 1 = asked
  BY DEF CTypeInv, ClTypeOK
<1>1. CASE Read \/ ReadBlocks \/ ReadFails \/ ParseMore
  <2>1. /\ pc \in {"read", "parse"} /\ pc' \in {"parse", "read", "wait", "fail"}
        /\ UNCHANGED <<managed, conn, wire, asked, draining>>
    BY <1>1 DEF Read, ReadBlocks, ReadFails, ParseMore, WaitFrame, parkVars
  <2>2. ~draining
    BY <2>1 DEF ParkInv
  <2>3. Settled(asked)'
    BY <2>1 DEF AnswerInv, AnswerStage, Receiving, Settled
  <2>4. AnswerStage'
    BY <2>1, <2>2, <2>3 DEF AnswerStage, Receiving
  <2> QED
    BY <2>1, <2>4, WireSame
<1>2. CASE ParseStream \/ StoreRequest
  <2>1. /\ pc = "parse" /\ pc' \in {"pump", "dispatch"} /\ asked' = asked + 1
        /\ UNCHANGED <<managed, conn, wire, draining>>
    BY <1>2 DEF ParseStream, StoreRequest, ParseFrame, SendFrame
  <2>2. WireInv'
    BY <1>0, <2>1, WireTake DEF AnswerInv
  <2>3. Settled(asked - 1)'
    <3>1. Settled(asked)
      BY <2>1 DEF AnswerInv, AnswerStage, Receiving
    <3> QED
      BY <1>0, <2>1, <3>1 DEF Settled
  <2>4. AnswerStage'
    BY <2>1, <2>3 DEF AnswerStage, Receiving
  <2> QED
    BY <2>1, <2>2, <2>4 DEF AnswerInv, RefusalsNotParked
<1>3. CASE ParseFails
  <2>1. /\ pc = "parse" /\ Error("error") /\ asked' = asked + 1
        /\ UNCHANGED <<managed, conn, wire, draining>>
    BY <1>3 DEF ParseFails, ParseFrame, SendFrame
  <2>2. Settled(asked' - 1)
    BY <1>0, <2>1 DEF AnswerInv, AnswerStage, Receiving
  <2>3. parsed[1].req = asked'
    BY <2>1 DEF ReadInv, Receiving
  <2> QED
    BY <1>0, <2>1, <2>2, <2>3, AnswerStarts
<1>4. CASE srv_router_dispatch \/ handler_db_app
  <2>1. /\ pc = "dispatch" /\ (Send("dispatch") \/ Error("dispatch")) /\ asked' = asked
        /\ UNCHANGED <<managed, conn, wire, draining>>
    BY <1>4 DEF srv_router_dispatch, handler_db_app, SendFrame
  <2>2. parsed[1].req = asked' /\ Settled(asked' - 1)
    BY <2>1 DEF ActingInv, Acting, AnswerInv, AnswerStage
  <2> QED
    BY <1>0, <2>1, <2>2, AnswerStarts
<1>5. CASE DispatchReturns \/ CloseReturns
  <2>1. /\ pc = "ret" /\ UNCHANGED <<managed, conn, wire, asked, policy, buf, draining, sendOff, sendLen>>
        /\ \/ pc' = "fail"
           \/ pc' = "wait" /\ draining
           \/ pc' = "wait" /\ ~draining /\ rc = "ok" /\ policy # "close"
    BY <1>5 DEF DispatchReturns, CloseReturns, WaitFrame, parkVars
  <2>2. draining => Held(sendLen)'
    BY <2>1 DEF Held, AnswerUnit, Settled, AnswerInv, AnswerStage
  <2>3. rc = "ok" /\ ~draining /\ policy # "close" => Settled(asked)'
    BY <2>1 DEF AnswerInv, AnswerStage, AnswerOut, Settled, PolicyInv, CTypeInv, ClTypeOK
  <2>4. AnswerStage'
    BY <2>1, <2>2, <2>3 DEF AnswerStage, Receiving
  <2> QED
    BY <2>1, <2>4, WireSame
<1>6. CASE HandleFails
  <2>1. pc' = "remove" /\ UNCHANGED <<managed, conn, wire, asked>>
    BY <1>6 DEF HandleFails
  <2>2. AnswerStage'
    BY <2>1 DEF AnswerStage, Receiving
  <2> QED
    BY <2>1, <2>2, WireSame
<1> QED
  BY <1>1, <1>2, <1>3, <1>4, <1>5, <1>6 DEF HandleStep

\* The answers: the slot is woken, times out or is released.
LEMMA AnswerEvent ==
    ASSUME ParkInv, AnswerInv, client_shutdown \/ client_release_fd \/ ClientEvent \/ HangUp \/ IdleTimeout \/
      DriveUpload \/ DriveTimeout PROVE AnswerInv'
<1>1. CASE client_shutdown \/ client_release_fd \/ HangUp \/ IdleTimeout \/ DriveTimeout
  <2>1. pc' \in {"idle", "remove"} /\ UNCHANGED <<managed, conn, wire, asked>>
    BY <1>1 DEF client_shutdown, client_release_fd, DropFrame, HangUp, IdleTimeout, DriveTimeout, WaitFrame
  <2>2. AnswerStage'
    BY <2>1 DEF AnswerStage, Receiving
  <2> QED
    BY <2>1, <2>2, WireSame
<1>2. CASE ClientEvent \/ DriveUpload
  <2>1. /\ pc = "wait"
        /\ UNCHANGED <<managed, conn, wire, asked, policy, buf, draining, sendOff, sendLen>>
        /\ \/ draining /\ total' = sendLen /\ caller' = "resume" /\ pc' = "send"
           \/ ~draining /\ pc' = "read"
    BY <1>2 DEF ClientEvent, DriveUpload, Resume, WaitFrame, parkVars, ParkInv
  <2>2. draining => Held(total)'
    BY <2>1 DEF Held, AnswerUnit, Settled, AnswerInv, AnswerStage
  <2>3. ~draining => Settled(asked)'
    BY <2>1 DEF AnswerInv, AnswerStage, Receiving, Settled
  <2>4. AnswerStage'
    BY <2>1, <2>2, <2>3 DEF AnswerStage, Receiving
  <2> QED
    BY <2>1, <2>4, WireSame
<1> QED
  BY <1>1, <1>2

\* The answers: the slot takes a connection.
LEMMA AnswerAdopt == ASSUME SlotStartsClean, AnswerInv, Adopt PROVE AnswerInv'
<1>1. pc = "idle" /\ wire' = <<>> /\ asked' = 0 /\ pc' = "wait" /\ UNCHANGED managed
  BY DEF Adopt, OperatorAdds, WorkerAdopts, NewConnection
<1>2. ~draining'
  BY <1>1 DEF Adopt, OperatorAdds, WorkerAdopts, ResetMessage, ClearSend, parkVars, SlotStartsClean
<1>3. WireInv'
  BY <1>1 DEF WireInv, Exchange!Sound
<1>4. AnswerStage'
  BY <1>1, <1>2 DEF AnswerStage, Receiving, Settled
<1> QED
  BY <1>1, <1>3, <1>4 DEF AnswerInv, RefusalsNotParked

\* A step that leaves the slot's request and response alone leaves the answers alone.
LEMMA AnswerSame == ASSUME AnswerInv, UNCHANGED <<respVars, asked>> PROVE AnswerInv'
<1>1. UNCHANGED <<managed, conn, parsed, policy, buf, draining, sendOff, sendLen, wire, pc, total, caller, rc, asked>>
  BY DEF respVars, parkVars
<1>2. AnswerStage'
  BY <1>1 DEF AnswerInv, AnswerStage, Receiving, Settled, Held, AnswerUnit, AnswerOut, ZipUnit
<1> QED
  BY <1>1, <1>2, WireSame

\* The answers: every step.
LEMMA AnswerStep ==
    ASSUME CTypeInv, ParkInv, SlotStartsClean, PolicyInv, ReadInv, ActingInv, AnswerInv, CNext PROVE AnswerInv'
<1>1. CASE PeerSends \/ PeerCloses
  BY <1>1, AnswerSame DEF PeerSends, PeerCloses
<1>2. CASE Adopt
  BY <1>2, AnswerAdopt
<1>3. CASE SlotStep
  <2>1. CASE HandleStep
    BY <2>1, AnswerHandle
  <2>2. CASE WriterStep
    BY <2>2, AnswerWriter DEF WriterStep
  <2>3. CASE PumpStep /\ UNCHANGED <<bufIdx, asked>>
    BY <2>3, AnswerPump
  <2>4. CASE ZipStep /\ UNCHANGED <<sockVars, taken, ticket, sink, bufIdx, asked>>
    BY <2>4, AnswerZip
  <2> QED
    BY <1>3, <2>1, <2>2, <2>3, <2>4, AnswerEvent DEF SlotStep
<1> QED
  BY <1>1, <1>2, <1>3 DEF CNext

(***************************************************************************)
(* The refinement: every step of the slot is a step of HttpExchange, or    *)
(* none at all.                                                            *)
(***************************************************************************)
ExchangeMoves == Exchange!XNext \/ UNCHANGED Exchange!xvars

\* The slot is at work, and nothing the peer could see happens.
LEMMA ExchangeStays ==
    ASSUME pc # "idle", pc' # "idle", UNCHANGED <<conn, wire, asked>> PROVE ExchangeMoves
BY DEF ExchangeMoves, Exchange!xvars

\* More of an answer goes out.
LEMMA ExchangeReplies ==
    ASSUME AnswerInv', Longer, pc # "idle", pc' # "idle", UNCHANGED <<conn, asked>> PROVE ExchangeMoves
<1>1. Exchange!Sound(wire', conn, asked)
  BY DEF AnswerInv, WireInv
<1> QED
  BY <1>1 DEF ExchangeMoves, Exchange!XNext, Exchange!Reply, Longer

\* The next request is taken.
LEMMA ExchangeTakes ==
    ASSUME AnswerInv, pc = "parse", pc' # "idle", asked' = asked + 1, UNCHANGED <<conn, wire>> PROVE ExchangeMoves
<1>1. Settled(asked)
  BY DEF AnswerInv, AnswerStage, Receiving
<1>2. Exchange!Answered
  BY <1>1 DEF Settled, Exchange!Answered, Last
<1> QED
  BY <1>2 DEF ExchangeMoves, Exchange!XNext, Exchange!Take

\* Every step of the slot.
LEMMA ExchangeStep ==
    ASSUME CTypeInv, ActingInv, AnswerInv, AnswerInv', CNext PROVE ExchangeMoves
<1>1. CASE PeerSends \/ PeerCloses
  BY <1>1, ExchangeStays DEF PeerSends, PeerCloses, respVars
<1>2. CASE Adopt
  BY <1>2 DEF Adopt, OperatorAdds, WorkerAdopts, NewConnection, ExchangeMoves, Exchange!XNext, Exchange!Connect
<1>3. CASE client_shutdown \/ client_release_fd
  BY <1>3 DEF client_shutdown, client_release_fd, DropFrame, ExchangeMoves, Exchange!XNext, Exchange!Disconnect
<1>4. CASE ClientEvent \/ HangUp \/ IdleTimeout \/ DriveUpload \/ DriveTimeout
  BY <1>4, ExchangeStays DEF ClientEvent, Resume, HangUp, IdleTimeout, DriveUpload, DriveTimeout, WaitFrame
<1>5. CASE HandleStep
  <2>1. CASE ParseStream \/ ParseFails \/ StoreRequest
    BY <2>1, ExchangeTakes DEF ParseStream, ParseFails, StoreRequest, ParseFrame, SendFrame, Error
  <2>2. CASE Read \/ ReadBlocks \/ ReadFails \/ ParseMore \/ DispatchReturns \/ CloseReturns \/ HandleFails
    BY <2>2, ExchangeStays DEF Read, ReadBlocks, ReadFails, ParseMore, DispatchReturns, CloseReturns, HandleFails,
      WaitFrame
  <2>3. CASE srv_router_dispatch \/ handler_db_app
    BY <2>3, ExchangeStays DEF srv_router_dispatch, handler_db_app, Send, Error, SendFrame
  <2> QED
    BY <1>5, <2>1, <2>2, <2>3 DEF HandleStep
<1>6. CASE WriterStep
  <2>1. asked' = asked
    BY <1>6 DEF WriterStep
  <2>2. CASE Write
    <3>1. Longer
      BY <2>1, <2>2, AnswerWrite
    <3> QED
      BY <2>1, <2>2, <3>1, ExchangeReplies DEF Write, Sending
  <2>3. CASE Sent \/ Park \/ ParkFails \/ SendStalls \/ WriteFails \/ ResumeReturns
    BY <2>1, <2>3, ExchangeStays DEF Sent, Park, ParkFails, SendStalls, WriteFails, ResumeReturns, Sending, Return
  <2> QED
    BY <1>6, <2>2, <2>3 DEF WriterStep, TrySend
<1>7. CASE PumpStep /\ UNCHANGED <<bufIdx, asked>>
  <2>1. pc # "idle" /\ UNCHANGED <<conn, wire>>
    BY <1>7, PumpAnswers DEF AnswerInv, CTypeInv, ClTypeOK, SendFrame
  <2>2. pc' # "idle"
    BY <1>7, PumpPcs
  <2> QED
    BY <1>7, <2>1, <2>2, ExchangeStays
<1>8. CASE ZipStep /\ UNCHANGED <<sockVars, taken, ticket, sink, bufIdx, asked>>
  <2>1. pc \in {"zip"} \cup ZipPcs /\ pc' # "idle" /\ UNCHANGED <<conn, parsed, asked>>
    BY <1>8 DEF ZipStep, ZipBegin, ZipHead, ZipEntry, ZipData, ZipDescriptor, ZipCentral, ZipEnd, ZipGivesUp,
      zipFrame, zipRest, ZipPcs
  <2>2. CASE UNCHANGED wire
    BY <2>1, <2>2, ExchangeStays DEF ZipPcs
  <2>3. CASE ~UNCHANGED wire
    <3>1. \/ pc = "zhead" /\ wire' = Append(wire, ZipUnit(1)) /\ Settled(asked - 1)
          \/ pc = "zend" /\ wire' = Append(wire, ZipUnit(2)) /\ wire # <<>> /\ Last(wire) = ZipUnit(1)
      BY <1>8, <2>3 DEF ZipStep, ZipBegin, ZipHead, ZipEntry, ZipData, ZipDescriptor, ZipCentral, ZipEnd, ZipGivesUp,
        AnswerInv, AnswerStage
    <3>2. parsed[1].req = asked
      BY <3>1 DEF ActingInv, Acting, ZipPcs
    <3>3. Longer
      BY <2>1, <3>1, <3>2, ZipUnitGoesOn
    <3> QED
      BY <2>1, <3>3, ExchangeReplies DEF ZipPcs
  <2> QED
    BY <2>2, <2>3
<1> QED
  BY <1>1, <1>2, <1>3, <1>4, <1>5, <1>6, <1>7, <1>8 DEF CNext, SlotStep

\* After an answer that is out the slot waits for the next request or is closed, as the answer said.
LEMMA CloseStep ==
    ASSUME CTypeInv, PolicyInv, AnswerInv, CNext, pc = "ret", rc = "ok", ~draining
    PROVE  /\ pc' = "wait" => Last(wire).keep
           /\ pc' = "fail" \/ (pc' = "remove" /\ armed' # armed) => ~Last(wire).keep
<1>1. AnswerOut
  BY DEF AnswerInv, AnswerStage
<1>2. policy = "keep" => Last(wire).keep
  BY <1>1 DEF AnswerOut
<1>3. policy = "close" => ~Last(wire).keep
  BY <1>1 DEF AnswerOut
<1>4. policy \in {"keep", "close"}
  BY DEF PolicyInv, CTypeInv, ClTypeOK
<1>5. CASE PeerSends \/ PeerCloses
  BY <1>5 DEF PeerSends, PeerCloses, respVars
<1>6. CASE Adopt \/ client_shutdown \/ client_release_fd \/ ClientEvent \/ HangUp \/ IdleTimeout \/ DriveUpload
           \/ DriveTimeout
  BY <1>6 DEF Adopt, OperatorAdds, WorkerAdopts, NewConnection, client_shutdown, client_release_fd, ClientEvent, HangUp,
    IdleTimeout, DriveUpload, DriveTimeout
<1>7. CASE HandleStep
  <2>1. CASE DispatchReturns \/ CloseReturns
    <3>1. \/ pc' = "wait" /\ policy # "close"
          \/ pc' = "fail" /\ policy = "close"
      BY <2>1 DEF DispatchReturns, CloseReturns, PolicyInv
    <3> QED
      BY <1>2, <1>3, <1>4, <3>1
  <2> QED
    BY <1>7, <2>1 DEF HandleStep, Read, ReadBlocks, ReadFails, ParseMore, ParseStream, ParseFails, StoreRequest,
      srv_router_dispatch, handler_db_app, HandleFails
<1>8. CASE WriterStep
  <2>1. ResumeReturns
    BY <1>8 DEF WriterStep, TrySend, Write, Sent, Park, ParkFails, SendStalls, WriteFails, Sending
  <2>2. \/ pc' = "remove" /\ armed' = armed
        \/ pc' = (IF policy = "close" THEN "remove" ELSE "wait")
    BY <2>1 DEF ResumeReturns
  <2> QED
    BY <1>2, <1>3, <1>4, <2>2
<1>9. CASE PumpStep
  BY <1>9, PumpPcs
<1>10. CASE ZipStep
  BY <1>10 DEF ZipStep, ZipBegin, ZipHead, ZipEntry, ZipData, ZipDescriptor, ZipCentral, ZipEnd
<1> QED
  BY <1>5, <1>6, <1>7, <1>8, <1>9, <1>10 DEF CNext, SlotStep

(***************************************************************************)
(* The theorems.                                                           *)
(***************************************************************************)
ClientInv ==
    /\ CTypeInv /\ PeerInv
    /\ ParkInv /\ SlotStartsClean /\ PolicyInv
    /\ ReadInv /\ ActingInv
    /\ TicketSettledOnce /\ BodyInv /\ CommitInv
    /\ ZipInv /\ ZipCount

\* A slot that serves nobody has every part of the invariant.
LEMMA ClientInvInit == CInit => ClientInv
<1> SUFFICES ASSUME CInit PROVE ClientInv
  OBVIOUS
<1>1. CTypeInv
  <2>1. DOMAIN buf = 1..BufLen /\ bufIdx \in 0..BufLen
    BY ResponseAssumption DEF CInit, Cleared
  <2>2. parsed \in Seq(ReqUnit) /\ SocketOK
    BY DEF CInit, SocketOK
  <2>3. managed \in BOOLEAN /\ draining = FALSE /\ peerOpen = FALSE
    BY DEF CInit
  <2> QED
    BY <2>1, <2>2, <2>3 DEF CInit, CTypeInv, ClTypeOK, ClientPc, Caller
<1>2. TicketSettledOnce /\ ParkInv /\ SlotStartsClean
  BY DEF CInit, TicketSettledOnce, PumpHoldsTicket, ParkInv, SlotStartsClean
<1>3. ZipInv
  BY DEF CInit, ZipInv, NoZip, ZipPcs
<1>4. PeerInv
  BY DEF CInit, PeerInv, InOrder
<1>5. PolicyInv /\ ReadInv /\ ActingInv
  BY DEF CInit, PolicyInv, ReadInv, Receiving, AnswersKept, ActingInv, Acting, ZipPcs
<1>6. BodyInv /\ CommitInv
  BY DEF CInit, BodyInv, CommitInv
<1>7. ZipCount
  BY DEF CInit, NoZip, ZipPcs, ZipCount, EntryStarts, ZipProgress, ZipOver
<1> QED
  BY <1>1, <1>2, <1>3, <1>4, <1>5, <1>6, <1>7 DEF ClientInv

\* Every step, and a stuttering one, keeps them all.
LEMMA ClientInvStep == ClientInv /\ [CNext]_clientVars => ClientInv'
<1> SUFFICES ASSUME ClientInv, [CNext]_clientVars PROVE ClientInv'
  OBVIOUS
<1>1. CASE CNext
  <2>1. CTypeInv' /\ PeerInv' /\ ParkInv' /\ SlotStartsClean' /\ TicketSettledOnce' /\ ZipInv'
    BY <1>1, TypeStep, PeerStep, ParkStep, CleanStep, TicketStep, ArchiveStep DEF ClientInv
  <2>2. PolicyInv' /\ ActingInv' /\ ZipCount'
    BY <1>1, PolicyStep, ActingStep, ZipCountStep DEF ClientInv
  <2>3. ReadInv'
    BY <1>1, <2>2, ReadStep DEF ClientInv
  <2>4. BodyInv' /\ CommitInv'
    BY <1>1, SpoolStep DEF ClientInv
  <2> QED
    BY <2>1, <2>2, <2>3, <2>4 DEF ClientInv
<1>2. CASE UNCHANGED clientVars
  <2>1. CTypeInv'
    BY <1>2 DEF clientVars, respVars, pumpVars, sockVars, parkVars, ClientInv, CTypeInv, ClTypeOK, SocketOK
  <2>2. TicketSettledOnce' /\ ParkInv' /\ SlotStartsClean'
    BY <1>2 DEF clientVars, respVars, pumpVars, parkVars, ClientInv, TicketSettledOnce, PumpHoldsTicket,
      ParkInv, SlotStartsClean
  <2>3. ZipInv' /\ ZipCount'
    BY <1>2 DEF clientVars, respVars, pumpVars, parkVars, ClientInv, ZipInv, ZipCount, EntryStarts, ZipProgress,
      ZipOver
  <2>4. PeerInv' /\ PolicyInv'
    BY <1>2 DEF clientVars, respVars, pumpVars, sockVars, parkVars, ClientInv, PeerInv, PolicyInv
  <2>5. ReadInv' /\ ActingInv'
    BY <1>2 DEF clientVars, respVars, pumpVars, sockVars, parkVars, ClientInv, ReadInv, Receiving, AnswersKept,
      Boundary, ReadLast, ActingInv, Acting, Matches
  <2>6. BodyInv' /\ CommitInv'
    BY <1>2 DEF clientVars, respVars, pumpVars, sockVars, parkVars, ClientInv, BodyInv, CommitInv, Ending, Body,
      Current
  <2> QED
    BY <2>1, <2>2, <2>3, <2>4, <2>5, <2>6 DEF ClientInv
<1> QED
  BY <1>1, <1>2

\* The strengthened invariant of a slot.
THEOREM ClientInvariant == CSpec => []ClientInv
<1> QED
  BY ClientInvInit, ClientInvStep, PTL DEF CSpec

\* No sequence of reads, of any sizes, runs out of the buffer (client.c:60-75), and everything else has its
\* type.
THEOREM ClientTypeCorrect == CSpec => []ClTypeOK
<1>1. ClientInv => ClTypeOK
  BY DEF ClientInv, CTypeInv
<1> QED
  BY <1>1, ClientInvariant, PTL

\* Every ticket is committed or aborted exactly once before the pump returns (upload_pump.c:276-373).
THEOREM TicketSettledOnceHolds == CSpec => []TicketSettledOnce
<1>1. ClientInv => TicketSettledOnce
  BY DEF ClientInv
<1> QED
  BY <1>1, ClientInvariant, PTL

\* The folder pump closes its blob and releases its handle exactly once, whichever call fails
\* (folder_zip_pump.c:201-388).
THEOREM ZipReleasesAllHolds == CSpec => []ZipReleasesAll
<1>1. ClientInv => ZipReleasesAll
  BY DEF ClientInv, ZipInv, ZipReleasesAll, ZipPcs
<1> QED
  BY <1>1, ClientInvariant, PTL

\* Where the slot waits, the fd is armed for what the event handler will do, and a parked response has
\* something left to send (operator.c:450, response_writer.c:158-189, 252-266).
THEOREM ParkedIsArmedHolds == CSpec => []ParkedIsArmed
<1>1. ClientInv => ParkedIsArmed
  BY DEF ClientInv, ParkInv, ParkedIsArmed
<1> QED
  BY <1>1, ClientInvariant, PTL

\* No connection starts with anything of the one before it (operator.c:532-548, client.c:247-329).
THEOREM SlotStartsCleanHolds == CSpec => []SlotStartsClean
<1>1. ClientInv => SlotStartsClean
  BY DEF ClientInv
<1> QED
  BY <1>1, ClientInvariant, PTL

\* What is committed is the declared body, complete and in order, whatever part of it came with the headers
\* (upload_pump.c:175-247, 345-373).
THEOREM SpoolSoundHolds == CSpec => []SpoolSound
<1>1. ClientInv => SpoolSound
  BY DEF ClientInv, CommitInv, SpoolSound
<1> QED
  BY <1>1, ClientInvariant, PTL

\* A folder archive that was sent to its end is as long as its Content-Length said, and every entry of its
\* central directory points at that entry's local header (folder_zip_pump.c:165-180, 245, 303).
THEOREM ZipExactHolds == CSpec => []ZipExact
<1>1. ASSUME ClientInv PROVE ZipExact
  <2> SUFFICES ASSUME zip.handle = "released", rc = "ok"
               PROVE  /\ zip.out = ContentLength(zip.entries)
                      /\ Len(zip.at) = Len(zip.entries)
                      /\ \A i \in DOMAIN zip.at : zip.at[i] = LocalSums(zip.entries)[i - 1]
    BY DEF ZipExact
  <2>1. zip.i = Len(zip.entries) + 1 /\ zip.out = ContentLength(zip.entries) /\ EntryStarts
    BY <1>1 DEF ClientInv, ZipCount
  <2>2. Len(zip.entries) \in Nat
    BY <1>1 DEF ClientInv, ZipCount
  <2>3. zip.i - 1 = Len(zip.entries)
    BY <2>1, <2>2
  <2> QED
    BY <2>1, <2>2, <2>3 DEF EntryStarts
<1> QED
  BY <1>1, ClientInvariant, PTL

\* The answers of a slot whose uploads, if they are refused, are refused on upload workers.
LEMMA AnswerInvariant == CSpec /\ RefusalsNotParked => []AnswerInv
<1>1. CInit /\ RefusalsNotParked => AnswerInv
  BY DEF CInit, AnswerInv, WireInv, Exchange!Sound, AnswerStage, Receiving
<1>2. ClientInv /\ AnswerInv /\ [CNext]_clientVars => AnswerInv'
  <2> SUFFICES ASSUME ClientInv, AnswerInv, [CNext]_clientVars PROVE AnswerInv'
    OBVIOUS
  <2>1. CASE CNext
    BY <2>1, AnswerStep DEF ClientInv
  <2>2. CASE UNCHANGED clientVars
    BY <2>2, AnswerSame DEF clientVars
  <2> QED
    BY <2>1, <2>2
<1> QED
  BY <1>1, <1>2, ClientInvariant, PTL DEF CSpec

\* A connection is what HttpExchange promises: whole answers, one per request and in order, the next request
\* taken only when the one before is answered, nothing after a "Connection: close" (client.c:105-160,
\* response_writer.c:158-189, 278-325).  An upload worker's connection is so without condition; an operator's
\* if no upload sent to it is refused.
THEOREM ImplementsExchangeHolds == CSpec /\ RefusalsNotParked => ImplementsExchange
<1>1. CInit => Exchange!XInit
  BY DEF CInit, Exchange!XInit
<1>2. ClientInv /\ AnswerInv /\ AnswerInv' /\ [CNext]_clientVars => [Exchange!XNext]_(Exchange!xvars)
  <2> SUFFICES ASSUME ClientInv, AnswerInv, AnswerInv', [CNext]_clientVars PROVE ExchangeMoves
    BY DEF ExchangeMoves
  <2>1. CASE CNext
    BY <2>1, ExchangeStep DEF ClientInv
  <2>2. CASE UNCHANGED clientVars
    BY <2>2 DEF clientVars, respVars, ExchangeMoves, Exchange!xvars
  <2> QED
    BY <2>1, <2>2
<1> QED
  BY <1>1, <1>2, ClientInvariant, AnswerInvariant, PTL DEF CSpec, ImplementsExchange, Exchange!XSpec

\* The server closes after a complete response exactly if that response said so, a parking and a resume later
\* too (response_writer.c:102, 176-188, client.c:143-160).
THEOREM AnnouncedCloseHolds == CSpec /\ RefusalsNotParked => AnnouncedClose
<1>1. ClientInv /\ AnswerInv /\ [CNext]_clientVars =>
        [pc = "ret" /\ rc = "ok" /\ ~draining =>
           /\ pc' = "wait" => Last(wire).keep
           /\ pc' = "fail" \/ (pc' = "remove" /\ armed' # armed) => ~Last(wire).keep]_clientVars
  BY CloseStep DEF ClientInv
<1> QED
  BY <1>1, ClientInvariant, AnswerInvariant, PTL DEF CSpec, AnnouncedClose
=============================================================================
