---------------------------- MODULE RecvPath_proofs ----------------------------
(***************************************************************************)
(* The buffered receive path loses nothing without an account, gives       *)
(* nothing twice, releases in order and owes nothing when it says empty:   *)
(* for any number of peers, slots, sockets and datagrams, any windows and  *)
(* any width of the counter.                                               *)
(***************************************************************************)
EXTENDS RecvPath, FiniteSetTheorems, SequenceTheorems, WellFoundedInduction, TLAPS

-----------------------------------------------------------------------------
(* Where a datagram is *)

Numbered(m, n) == m.kind # "wake" /\ m.id = n
SameNumber(m, p) == Numbered(m, m.id) /\ Numbered(p, m.id)

Holds(h, n) == \E e \in h : e.id = n
AtKernel(kern, n) == \E s \in Socks : \E j \in DOMAIN kern[s] : Numbered(kern[s][j], n)
AtTable(t, n) == \E i \in DOMAIN t : \E e \in t[i].held : e.id = n
AtGame(g, n) == \E j \in DOMAIN g : g[j].id = n
AtLost(l, n) == \E x \in l : x.id = n

KernelOnce(kern) ==
  \A s, u \in Socks : \A j \in DOMAIN kern[s], k \in DOMAIN kern[u] :
    SameNumber(kern[s][j], kern[u][k]) => s = u /\ j = k
TableOnce(t) ==
  \A i, j \in DOMAIN t : \A e \in t[i].held, f \in t[j].held : e.id = f.id => i = j /\ e = f
GameOnce(g) == \A i, j \in DOMAIN g : g[i].id = g[j].id => i = j
LostOnce(l) == \A x, y \in l : x.id = y.id => x = y

Kernels == [Socks -> Seq(Packets)]

\* How the places change: named, so that a step can say which change it makes.
Pushed(kern, s, m, kern2) == kern2 = [kern EXCEPT ![s] = Append(@, m)]
Popped(kern, s, kern2) == kern2 = [kern EXCEPT ![s] = Tail(@)]
Cleared(kern, s, kern2) == kern2 = [kern EXCEPT ![s] = << >>]
Refilled(t, i, p, t2) == t2 = [t EXCEPT ![i] = p]
HandedOver(g, x, g2) == g2 = Append(g, x)
Destroyed(l, S, how, l2) == l2 = l \cup {[id |-> e.id, how |-> how] : e \in S}

LEMMA PacketFacts ==
  ASSUME NEW m \in Packets
  PROVE  /\ m.kind \in {"data", "short", "big", "empty", "wake"}
         /\ m.kind # "wake" => m.id \in Nat
         /\ m.kind = "data" => m.from \in Froms /\ m.seq \in Seqs
BY DEF Packets

LEMMA OnceBy ==
  ASSUME NEW kern, KernelOnce(kern), NEW s \in Socks, NEW u \in Socks,
         NEW j \in DOMAIN kern[s], NEW k \in DOMAIN kern[u], NEW n,
         Numbered(kern[s][j], n), Numbered(kern[u][k], n)
  PROVE  s = u /\ j = k
<1>1. SameNumber(kern[s][j], kern[u][k])
  BY DEF SameNumber, Numbered
<1> QED BY <1>1 DEF KernelOnce

LEMMA KernelGrows ==
  ASSUME NEW kern \in Kernels, NEW s \in Socks, NEW m \in Packets, NEW kern2,
         Pushed(kern, s, m, kern2)
  PROVE  /\ kern2 \in Kernels
         /\ \A n : AtKernel(kern2, n) <=> AtKernel(kern, n) \/ Numbered(m, n)
         /\ KernelOnce(kern) /\ (\A n : Numbered(m, n) => ~AtKernel(kern, n))
              => KernelOnce(kern2)
<1>1. kern[s] \in Seq(Packets)
  BY DEF Kernels
<1> DEFINE q == Append(kern[s], m)
<1>2. /\ q \in Seq(Packets) /\ Len(q) = Len(kern[s]) + 1 /\ Len(kern[s]) \in Nat
      /\ \A i \in 1 .. Len(kern[s]) : q[i] = kern[s][i]
      /\ q[Len(kern[s]) + 1] = m
      /\ DOMAIN q = 1 .. Len(kern[s]) + 1 /\ DOMAIN kern[s] = 1 .. Len(kern[s])
  BY <1>1, AppendProperties, LenProperties
<1>3. kern2 \in Kernels /\ kern2[s] = q /\ \A u \in Socks : u # s => kern2[u] = kern[u]
  BY <1>2 DEF Kernels, Pushed
<1> DEFINE last == Len(kern[s]) + 1
<1>4. /\ last \in DOMAIN q /\ q[last] = m /\ last \notin DOMAIN kern[s]
      /\ \A j \in DOMAIN q : j = last \/ (j \in DOMAIN kern[s] /\ q[j] = kern[s][j])
      /\ \A j \in DOMAIN kern[s] : j \in DOMAIN q /\ q[j] = kern[s][j]
  BY <1>2
<1> HIDE DEF q, last
<1>5. ASSUME NEW n PROVE AtKernel(kern2, n) <=> AtKernel(kern, n) \/ Numbered(m, n)
  <2>1. ASSUME AtKernel(kern2, n) PROVE AtKernel(kern, n) \/ Numbered(m, n)
    <3>1. PICK u \in Socks : \E j \in DOMAIN kern2[u] : Numbered(kern2[u][j], n)
      BY <2>1 DEF AtKernel
    <3>2. PICK j \in DOMAIN kern2[u] : Numbered(kern2[u][j], n)
      BY <3>1
    <3> QED BY <1>3, <1>4, <3>2 DEF AtKernel
  <2>2. ASSUME AtKernel(kern, n) PROVE AtKernel(kern2, n)
    <3>1. PICK u \in Socks : \E j \in DOMAIN kern[u] : Numbered(kern[u][j], n)
      BY <2>2 DEF AtKernel
    <3>2. PICK j \in DOMAIN kern[u] : Numbered(kern[u][j], n)
      BY <3>1
    <3>3. j \in DOMAIN kern2[u] /\ Numbered(kern2[u][j], n)
      BY <1>3, <1>4, <3>2
    <3> QED BY <3>3 DEF AtKernel
  <2>3. ASSUME Numbered(m, n) PROVE AtKernel(kern2, n)
    BY <1>3, <1>4, <2>3 DEF AtKernel
  <2> QED BY <2>1, <2>2, <2>3
<1>6. ASSUME KernelOnce(kern), \A n : Numbered(m, n) => ~AtKernel(kern, n)
      PROVE  KernelOnce(kern2)
  <2> SUFFICES ASSUME NEW a \in Socks, NEW b \in Socks, NEW j \in DOMAIN kern2[a],
                      NEW k \in DOMAIN kern2[b], SameNumber(kern2[a][j], kern2[b][k])
               PROVE  a = b /\ j = k
    BY DEF KernelOnce
  <2> DEFINE n == kern2[a][j].id
  <2>0. Numbered(kern2[a][j], n) /\ Numbered(kern2[b][k], n)
    BY DEF SameNumber
  <2> HIDE DEF n
  <2>1. (a = s /\ j = last) \/ (j \in DOMAIN kern[a] /\ kern2[a][j] = kern[a][j])
    BY <1>3, <1>4
  <2>2. (b = s /\ k = last) \/ (k \in DOMAIN kern[b] /\ kern2[b][k] = kern[b][k])
    BY <1>3, <1>4
  <2>3. CASE j \in DOMAIN kern[a] /\ kern2[a][j] = kern[a][j]
    <3>1. AtKernel(kern, n)
      BY <2>0, <2>3 DEF AtKernel
    <3>2. ~(b = s /\ k = last)
      BY <1>3, <1>4, <1>6, <2>0, <3>1
    <3>3. /\ Numbered(kern[a][j], n) /\ j \in DOMAIN kern[a]
          /\ Numbered(kern[b][k], n) /\ k \in DOMAIN kern[b]
      BY <2>0, <2>2, <2>3, <3>2
    <3> QED BY <1>6, <3>3, OnceBy
  <2>4. CASE a = s /\ j = last
    <3>1. Numbered(m, n)
      BY <1>3, <1>4, <2>0, <2>4
    <3>2. ~(k \in DOMAIN kern[b] /\ kern2[b][k] = kern[b][k])
      BY <1>6, <2>0, <3>1 DEF AtKernel
    <3> QED BY <2>2, <2>4, <3>2
  <2> QED BY <2>1, <2>3, <2>4
<1> QED BY <1>3, <1>5, <1>6

LEMMA TailIndex ==
  ASSUME NEW S, NEW q \in Seq(S), q # << >>
  PROVE  /\ 1 \in DOMAIN q /\ q[1] = Head(q)
         /\ \A j \in DOMAIN Tail(q) :
              j \in Nat /\ j + 1 \in DOMAIN q /\ Tail(q)[j] = q[j + 1] /\ j + 1 # 1
         /\ \A j \in DOMAIN q : j = 1 \/ (\E k \in DOMAIN Tail(q) : j = k + 1)
<1> DEFINE r == Tail(q)
<1> DEFINE N == Len(q)
<1>1. /\ r \in Seq(S) /\ Len(r) = N - 1 /\ N \in Nat \ {0}
      /\ \A i \in 1 .. Len(r) : r[i] = q[i + 1]
      /\ DOMAIN r = 1 .. Len(r) /\ DOMAIN q = 1 .. N
  BY HeadTailProperties, LenProperties, EmptySeq
<1>2. Head(q) = q[1]
  OBVIOUS
<1>3. DOMAIN r = 1 .. N - 1
  BY <1>1
<1> HIDE DEF r, N
<1>4. \A j \in 1 .. N - 1 : j \in Nat /\ j + 1 \in 1 .. N /\ j + 1 # 1
  BY <1>1
<1>5. \A j \in 1 .. N : j = 1 \/ (j - 1 \in 1 .. N - 1 /\ j = (j - 1) + 1)
  BY <1>1
<1>6. 1 \in 1 .. N
  BY <1>1
<1> QED BY <1>1, <1>2, <1>3, <1>4, <1>5, <1>6 DEF r

LEMMA KernelShrinks ==
  ASSUME NEW kern \in Kernels, KernelOnce(kern), NEW s \in Socks, kern[s] # << >>,
         NEW kern2, Popped(kern, s, kern2)
  PROVE  /\ kern2 \in Kernels /\ Head(kern[s]) \in Packets
         /\ \A n : Numbered(Head(kern[s]), n) => AtKernel(kern, n)
         /\ \A n : AtKernel(kern2, n) <=> AtKernel(kern, n) /\ ~Numbered(Head(kern[s]), n)
         /\ KernelOnce(kern2)
<1>1. kern[s] \in Seq(Packets)
  BY DEF Kernels
<1> DEFINE q == Tail(kern[s])
<1> DEFINE m == Head(kern[s])
<1>2. /\ q \in Seq(Packets) /\ Len(q) = Len(kern[s]) - 1 /\ Len(kern[s]) \in Nat \ {0}
      /\ m = kern[s][1] /\ m \in Packets
      /\ DOMAIN q = 1 .. Len(kern[s]) - 1 /\ DOMAIN kern[s] = 1 .. Len(kern[s])
      /\ \A i \in 1 .. Len(kern[s]) - 1 : q[i] = kern[s][i + 1]
  BY <1>1, HeadTailProperties, LenProperties, EmptySeq
<1>3. kern2 \in Kernels /\ kern2[s] = q /\ \A u \in Socks : u # s => kern2[u] = kern[u]
  BY <1>2 DEF Kernels, Popped
<1>4. /\ 1 \in DOMAIN kern[s] /\ kern[s][1] = m
      /\ \A j \in DOMAIN q : j \in Nat /\ j + 1 \in DOMAIN kern[s] /\ q[j] = kern[s][j + 1]
                             /\ j + 1 # 1
      /\ \A j \in DOMAIN kern[s] : j = 1 \/ (\E k \in DOMAIN q : j = k + 1)
  BY <1>1, TailIndex
<1> HIDE DEF q, m
<1>5. \A n : Numbered(m, n) => AtKernel(kern, n)
  BY <1>4 DEF AtKernel
<1>6. ASSUME NEW n PROVE AtKernel(kern2, n) <=> AtKernel(kern, n) /\ ~Numbered(m, n)
  <2>1. ASSUME AtKernel(kern2, n) PROVE AtKernel(kern, n) /\ ~Numbered(m, n)
    <3>a. PICK u \in Socks : \E j \in DOMAIN kern2[u] : Numbered(kern2[u][j], n)
      BY <2>1 DEF AtKernel
    <3>1. PICK j \in DOMAIN kern2[u] : Numbered(kern2[u][j], n)
      BY <3>a
    <3>2. CASE u = s
      <4>1. j + 1 \in DOMAIN kern[s] /\ Numbered(kern[s][j + 1], n) /\ j + 1 # 1
        BY <1>3, <1>4, <3>1, <3>2
      <4>a. \A k \in DOMAIN kern[s] : Numbered(kern[s][k], n) => k = j + 1
        BY <4>1, OnceBy
      <4>2. ~Numbered(m, n)
        BY <1>4, <4>1, <4>a
      <4> QED BY <4>1, <4>2 DEF AtKernel
    <3>3. CASE u # s
      <4>1. j \in DOMAIN kern[u] /\ Numbered(kern[u][j], n)
        BY <1>3, <3>1, <3>3
      <4>2. ~Numbered(m, n)
        BY <1>4, <3>3, <4>1, OnceBy
      <4> QED BY <4>1, <4>2 DEF AtKernel
    <3> QED BY <3>2, <3>3
  <2>2. ASSUME AtKernel(kern, n), ~Numbered(m, n) PROVE AtKernel(kern2, n)
    <3>a. PICK u \in Socks : \E j \in DOMAIN kern[u] : Numbered(kern[u][j], n)
      BY <2>2 DEF AtKernel
    <3>1. PICK j \in DOMAIN kern[u] : Numbered(kern[u][j], n)
      BY <3>a
    <3>2. CASE u = s
      <4>1. PICK k \in DOMAIN q : j = k + 1
        BY <1>4, <2>2, <3>1, <3>2
      <4>2. k \in DOMAIN kern2[s] /\ Numbered(kern2[s][k], n)
        BY <1>3, <1>4, <3>1, <3>2, <4>1
      <4> QED BY <4>2 DEF AtKernel
    <3>3. CASE u # s
      BY <1>3, <3>1, <3>3 DEF AtKernel
    <3> QED BY <3>2, <3>3
  <2> QED BY <2>1, <2>2
<1>7. KernelOnce(kern2)
  <2> SUFFICES ASSUME NEW a \in Socks, NEW b \in Socks, NEW j \in DOMAIN kern2[a],
                      NEW k \in DOMAIN kern2[b], SameNumber(kern2[a][j], kern2[b][k])
               PROVE  a = b /\ j = k
    BY DEF KernelOnce
  <2> DEFINE n == kern2[a][j].id
  <2>0. Numbered(kern2[a][j], n) /\ Numbered(kern2[b][k], n)
    BY DEF SameNumber
  <2> HIDE DEF n
  <2> DEFINE J == IF a = s THEN j + 1 ELSE j
  <2> DEFINE K == IF b = s THEN k + 1 ELSE k
  <2>1. J \in DOMAIN kern[a] /\ Numbered(kern[a][J], n)
    BY <1>3, <1>4, <2>0
  <2>2. K \in DOMAIN kern[b] /\ Numbered(kern[b][K], n)
    BY <1>3, <1>4, <2>0
  <2>3. a = b /\ J = K
    <3> HIDE DEF J, K
    <3> QED BY <2>1, <2>2, OnceBy
  <2>4. CASE a = s
    <3>1. j \in Nat /\ k \in Nat
      BY <1>3, <1>4, <2>3, <2>4
    <3>2. a = b /\ j + 1 = k + 1
      BY <2>3, <2>4
    <3> HIDE DEF J, K, n
    <3> QED BY <3>1, <3>2, SMT
  <2>5. CASE a # s
    BY <2>3, <2>5
  <2> QED BY <2>4, <2>5
<1> QED BY <1>2, <1>3, <1>5, <1>6, <1>7 DEF m

LEMMA KernelCleared ==
  ASSUME NEW kern \in Kernels, NEW s \in Socks, NEW kern2, Cleared(kern, s, kern2)
  PROVE  /\ kern2 \in Kernels
         /\ \A n : KernelOnce(kern) => (AtKernel(kern2, n) <=>
                     AtKernel(kern, n) /\ ~\E j \in DOMAIN kern[s] : Numbered(kern[s][j], n))
         /\ KernelOnce(kern) => KernelOnce(kern2)
<1>1. << >> \in Seq(Packets) /\ DOMAIN << >> = {}
  BY EmptySeq
<1>2. kern2 \in Kernels /\ kern2[s] = << >> /\ \A u \in Socks : u # s => kern2[u] = kern[u]
  BY <1>1 DEF Kernels, Cleared
<1>3. ASSUME NEW u \in Socks, NEW j \in DOMAIN kern2[u]
      PROVE  u # s /\ j \in DOMAIN kern[u] /\ kern2[u][j] = kern[u][j]
  BY <1>1, <1>2
<1>4. ASSUME NEW n, KernelOnce(kern)
      PROVE  AtKernel(kern2, n) <=>
               AtKernel(kern, n) /\ ~\E j \in DOMAIN kern[s] : Numbered(kern[s][j], n)
  <2>1. ASSUME AtKernel(kern2, n)
        PROVE  AtKernel(kern, n) /\ ~\E j \in DOMAIN kern[s] : Numbered(kern[s][j], n)
    <3>1. PICK u \in Socks : \E j \in DOMAIN kern2[u] : Numbered(kern2[u][j], n)
      BY <2>1 DEF AtKernel
    <3>2. PICK j \in DOMAIN kern2[u] : Numbered(kern2[u][j], n)
      BY <3>1
    <3>3. u # s /\ j \in DOMAIN kern[u] /\ Numbered(kern[u][j], n)
      BY <1>3, <3>2
    <3>4. \A k \in DOMAIN kern[s] : ~Numbered(kern[s][k], n)
      BY <1>4, <3>3, OnceBy
    <3> QED BY <3>3, <3>4 DEF AtKernel
  <2>2. ASSUME AtKernel(kern, n), ~\E j \in DOMAIN kern[s] : Numbered(kern[s][j], n)
        PROVE  AtKernel(kern2, n)
    BY <1>2, <2>2 DEF AtKernel
  <2> QED BY <2>1, <2>2
<1>5. ASSUME KernelOnce(kern) PROVE KernelOnce(kern2)
  <2> SUFFICES ASSUME NEW a \in Socks, NEW b \in Socks, NEW j \in DOMAIN kern2[a],
                      NEW k \in DOMAIN kern2[b], SameNumber(kern2[a][j], kern2[b][k])
               PROVE  a = b /\ j = k
    BY DEF KernelOnce
  <2> DEFINE n == kern2[a][j].id
  <2>0. Numbered(kern2[a][j], n) /\ Numbered(kern2[b][k], n)
    BY DEF SameNumber
  <2> HIDE DEF n
  <2>1. j \in DOMAIN kern[a] /\ Numbered(kern[a][j], n)
    BY <1>3, <2>0
  <2>2. k \in DOMAIN kern[b] /\ Numbered(kern[b][k], n)
    BY <1>3, <2>0
  <2> QED BY <1>5, <2>1, <2>2, OnceBy
<1> QED BY <1>2, <1>4, <1>5

LEMMA TableChanges ==
  ASSUME NEW t \in [0 .. Peers - 1 -> Entry], TableOnce(t), NEW i \in 0 .. Peers - 1,
         NEW p \in Entry, NEW t2, Refilled(t, i, p, t2),
         \A e, f \in p.held : e.id = f.id => e = f,
         \A e \in p.held : (\E f \in t[i].held : e.id = f.id) \/ ~AtTable(t, e.id)
  PROVE  /\ t2 \in [0 .. Peers - 1 -> Entry]
         /\ \A n : AtTable(t2, n) <=>
              Holds(p.held, n) \/ (AtTable(t, n) /\ ~Holds(t[i].held, n))
         /\ TableOnce(t2)
<1>1. /\ t2 \in [0 .. Peers - 1 -> Entry] /\ t2[i] = p
      /\ \A j \in 0 .. Peers - 1 : j # i => t2[j] = t[j]
      /\ DOMAIN t = 0 .. Peers - 1 /\ DOMAIN t2 = 0 .. Peers - 1
  BY DEF Refilled
<1>2. ASSUME NEW n
      PROVE  AtTable(t2, n) <=> Holds(p.held, n) \/ (AtTable(t, n) /\ ~Holds(t[i].held, n))
  BY <1>1 DEF AtTable, TableOnce, Holds
<1>3. ASSUME NEW j \in DOMAIN t, j # i, NEW e \in p.held, NEW f \in t[j].held
      PROVE  e.id # f.id
  <2>1. AtTable(t, f.id)
    BY DEF AtTable
  <2>2. \A g \in t[i].held : g.id # f.id
    BY <1>1, <1>3 DEF TableOnce
  <2> QED BY <2>1, <2>2
<1>4. TableOnce(t2)
  <2> SUFFICES ASSUME NEW a \in DOMAIN t2, NEW b \in DOMAIN t2, NEW e \in t2[a].held,
                      NEW f \in t2[b].held, e.id = f.id
               PROVE  a = b /\ e = f
    BY DEF TableOnce
  <2>1. CASE a = i /\ b = i
    BY <1>1, <2>1
  <2>2. CASE a = i /\ b # i
    BY <1>1, <1>3, <2>2
  <2>3. CASE a # i /\ b = i
    BY <1>1, <1>3, <2>3
  <2>4. CASE a # i /\ b # i
    BY <1>1, <2>4 DEF TableOnce
  <2> QED BY <2>1, <2>2, <2>3, <2>4
<1> QED BY <1>1, <1>2, <1>4

LEMMA GameGrows ==
  ASSUME NEW S, NEW g \in Seq(S), NEW x \in S, NEW g2, HandedOver(g, x, g2)
  PROVE  /\ g2 \in Seq(S)
         /\ \A n : AtGame(g2, n) <=> AtGame(g, n) \/ x.id = n
         /\ GameOnce(g) /\ ~AtGame(g, x.id) => GameOnce(g2)
         /\ \A j \in DOMAIN g2 : g2[j] = x \/ (j \in DOMAIN g /\ g2[j] = g[j])
<1>1. /\ g2 \in Seq(S) /\ Len(g2) = Len(g) + 1 /\ Len(g) \in Nat
      /\ \A i \in 1 .. Len(g) : g2[i] = g[i]
      /\ g2[Len(g) + 1] = x
      /\ DOMAIN g2 = 1 .. Len(g) + 1 /\ DOMAIN g = 1 .. Len(g)
  BY AppendProperties, LenProperties DEF HandedOver
<1> DEFINE last == Len(g) + 1
<1>2. /\ last \in DOMAIN g2 /\ g2[last] = x /\ last \notin DOMAIN g
      /\ \A j \in DOMAIN g2 : j = last \/ (j \in DOMAIN g /\ g2[j] = g[j])
      /\ \A j \in DOMAIN g : j \in DOMAIN g2 /\ g2[j] = g[j]
  BY <1>1
<1> HIDE DEF last
<1> QED BY <1>1, <1>2 DEF AtGame, GameOnce

LEMMA DisjointSum ==
  ASSUME NEW S, NEW T, IsFiniteSet(S), IsFiniteSet(T), S \cap T = {}
  PROVE  IsFiniteSet(S \cup T) /\ Cardinality(S \cup T) = Cardinality(S) + Cardinality(T)
<1>1. Cardinality(S) \in Nat /\ Cardinality(T) \in Nat
  BY FS_CardinalityType
<1>2. /\ IsFiniteSet(S \cup T)
      /\ Cardinality(S \cup T) = Cardinality(S) + Cardinality(T) - Cardinality(S \cap T)
  BY FS_Union
<1>3. Cardinality(S \cap T) = 0
  BY FS_EmptySet
<1> QED BY <1>1, <1>2, <1>3

LEMMA LostGrows ==
  ASSUME NEW l, NEW S, NEW how, NEW l2, Destroyed(l, S, how, l2)
  PROVE  /\ \A n : AtLost(l2, n) <=> AtLost(l, n) \/ \E e \in S : e.id = n
         /\ LostOnce(l) /\ (\A e \in S : ~AtLost(l, e.id)) => LostOnce(l2)
<1> DEFINE A == {[id |-> e.id, how |-> how] : e \in S}
<1>a. /\ \A x \in A : \E e \in S : x = [id |-> e.id, how |-> how]
      /\ \A e \in S : [id |-> e.id, how |-> how] \in A
  OBVIOUS
<1>b. \A e \in S : [id |-> e.id, how |-> how].id = e.id
  OBVIOUS
<1> HIDE DEF A
<1>1. /\ \A x \in A : \E e \in S : x.id = e.id
      /\ \A e \in S : \E x \in A : x.id = e.id
      /\ \A x, y \in A : x.id = y.id => x = y
  <2>1. \A x \in A : \E e \in S : x.id = e.id
    BY <1>a, <1>b
  <2>2. \A e \in S : \E x \in A : x.id = e.id
    BY <1>a, <1>b
  <2>3. \A x \in A : x = [id |-> x.id, how |-> how]
    BY <1>a, <1>b
  <2>4. \A x, y \in A : x.id = y.id => x = y
    BY <2>3
  <2> QED BY <2>1, <2>2, <2>4
<1> HIDE DEF A
<1>2. l2 = l \cup A
  BY DEF A, Destroyed
<1> QED BY <1>1, <1>2 DEF AtLost, LostOnce

-----------------------------------------------------------------------------
USE SeqSpaceAssumption, ReorderAssumption, RecvPathAssumption

-----------------------------------------------------------------------------
(* Least and greatest elements *)

Before == {p \in Nat \X Nat : p[1] < p[2]}

\* A set of naturals has a least element.
LEMMA LeastOfNats ==
  ASSUME NEW S, S \subseteq Nat, S # {}
  PROVE  \E m \in S : \A x \in S : m <= x
<1>1. IsWellFoundedOn(Before, Nat)
  <2>1. Before = OpToRel(<, Nat)
    BY DEF Before, OpToRel
  <2> QED BY <2>1, NatLessThanWellFounded
<1>2. \A x, y \in Nat : x < y => << x, y >> \in Before
  BY DEF Before
<1>3. \E m \in S : \A x \in S : ~(<< x, m >> \in Before)
  BY <1>1, WFMin
<1>4. PICK m \in S : \A x \in S : ~(<< x, m >> \in Before)
  BY <1>3
<1>5. \A x \in S : ~(x < m)
  BY <1>2, <1>4
<1> QED BY <1>5

\* A bounded set of naturals has a greatest one.
LEMMA GreatestOfBounded ==
  ASSUME NEW n \in Nat, NEW S, S \subseteq 0 .. n, S # {}
  PROVE  \E m \in S : \A x \in S : m >= x
<1> DEFINE T == {n - x : x \in S}
<1>1. T \subseteq Nat /\ T # {}
  <2>1. \A x \in S : n - x \in Nat
    OBVIOUS
  <2> QED BY <2>1
<1> HIDE DEF T
<1>2. PICK t \in T : \A u \in T : t <= u
  BY <1>1, LeastOfNats
<1>3. PICK m \in S : t = n - m
  BY <1>2 DEF T
<1>4. ASSUME NEW x \in S
      PROVE  m >= x
  <2>1. n - x \in T
    BY DEF T
  <2>2. t <= n - x
    BY <1>2, <2>1
  <2> QED BY <1>3, <2>2
<1> QED BY <1>4

-----------------------------------------------------------------------------
(* The order of the counters *)

\* The difference of two counters in the counter's own width.
LEMMA ModOfDifference ==
  ASSUME NEW a \in Seqs, NEW b \in Seqs
  PROVE  (a - b) % SeqSpace = IF a >= b THEN a - b ELSE a - b + SeqSpace
<1> DEFINE d == a - b
<1> DEFINE q == IF a >= b THEN 0 ELSE -1
<1>1. d \in Int /\ SeqSpace \in Nat \ {0} /\ -SeqSpace < d /\ d < SeqSpace
  BY DEF Seqs
<1> QED BY <1>1 DEF Seqs

LEMMA SeqCmpIs ==
  ASSUME NEW a \in Seqs, NEW b \in Seqs
  PROVE  LET d == IF a >= b THEN a - b ELSE a - b + SeqSpace
         IN  SeqCmp(a, b) = IF 2 * d >= SeqSpace THEN d - SeqSpace ELSE d
BY ModOfDifference DEF SeqCmp

\* Among the counters at most half the circle ahead of a point, being nearer to
\* it is being behind.
LEMMA NearerIsBehind ==
  ASSUME NEW a \in Seqs, NEW b \in Seqs, NEW c \in Seqs,
         SeqCmp(a, c) >= 0, SeqCmp(b, c) >= 0, SeqCmp(a, c) <= SeqCmp(b, c)
  PROVE  SeqCmp(a, b) <= 0
<1>1. a \in Int /\ b \in Int /\ c \in Int /\ SeqSpace \in Int
      /\ 0 <= a /\ a < SeqSpace /\ 0 <= b /\ b < SeqSpace /\ 0 <= c /\ c < SeqSpace
  BY DEF Seqs
<1> DEFINE da == IF a >= c THEN a - c ELSE a - c + SeqSpace
<1> DEFINE db == IF b >= c THEN b - c ELSE b - c + SeqSpace
<1> DEFINE dd == IF a >= b THEN a - b ELSE a - b + SeqSpace
<1>2. SeqCmp(a, c) = IF 2 * da >= SeqSpace THEN da - SeqSpace ELSE da
  BY SeqCmpIs
<1>3. SeqCmp(b, c) = IF 2 * db >= SeqSpace THEN db - SeqSpace ELSE db
  BY SeqCmpIs
<1>4. SeqCmp(a, b) = IF 2 * dd >= SeqSpace THEN dd - SeqSpace ELSE dd
  BY SeqCmpIs
<1>5. 2 * da < SeqSpace /\ da >= 0 /\ 2 * db < SeqSpace /\ db >= 0 /\ da <= db
  BY <1>1, <1>2, <1>3
<1>6. CASE a >= b
  BY <1>1, <1>4, <1>5, <1>6
<1>7. CASE a < b
  BY <1>1, <1>4, <1>5, <1>7
<1> QED BY <1>1, <1>6, <1>7

LEMMA SeqNextType ==
  ASSUME NEW s \in Seqs
  PROVE  SeqNext(s) \in Seqs
BY DEF SeqNext, Seqs

LEMMA SeqCmpType ==
  ASSUME NEW a \in Seqs, NEW b \in Seqs
  PROVE  SeqCmp(a, b) \in Int
BY SeqCmpIs DEF Seqs

-----------------------------------------------------------------------------
(* What the operations of the buffer do to an entry *)

\* Whoever keeps the cursor and the name of an entry.
SameCursor(p, q) == q.key = p.key /\ q.init = p.init /\ q.last = p.last

LEMMA LeastType ==
  ASSUME NEW n \in Nat, NEW x \in 0 .. n
  PROVE  Least(x + 1, n) \in 0 .. n
BY DEF Least

LEMMA NewPeerIs ==
  ASSUME NEW k \in Froms \cup {NoKey}
  PROVE  /\ NewPeer(k) \in Entry
         /\ NewPeer(k).key = k /\ NewPeer(k).held = {} /\ ~NewPeer(k).init
BY DEF NewPeer, Entry, Seqs

LEMMA NewPeerOK ==
  ASSUME NEW k \in Froms \cup {NoKey}
  PROVE  EntryOK(NewPeer(k))
BY NewPeerIs, FS_EmptySet DEF EntryOK, NoPeer

LEMMA EntryFields ==
  ASSUME NEW p \in Entry
  PROVE  /\ p.key \in Froms \cup {NoKey} /\ p.init \in BOOLEAN /\ p.last \in Seqs
         /\ p.held \subseteq HeldData /\ p.win \in WinMin .. WinMax
         /\ p.adj \in 0 .. DecayAfter /\ p.act \in 0 .. PeerIdle /\ p.del \in 0 .. WinMax
BY DEF Entry

\* An entry that differs in its times only.
LEMMA TimesOnly ==
  ASSUME NEW p, EntryOK(p), p.key # NoKey,
         NEW q \in Entry, q.key = p.key, q.held = p.held
  PROVE  EntryOK(q)
BY DEF EntryOK

\* One tick: the ring keeps its datagrams, one tick older.
LEMMA AgedOK ==
  ASSUME NEW p, EntryOK(p), p.key # NoKey
  PROVE  /\ EntryOK(Aged(p)) /\ SameCursor(p, Aged(p))
         /\ \A n : (\E e \in Aged(p).held : e.id = n) <=> (\E e \in p.held : e.id = n)
         /\ (\A e, f \in p.held : e.id = f.id => e = f)
              => \A e, f \in Aged(p).held : e.id = f.id => e = f
<1> DEFINE Older(e) == [e EXCEPT !.age = Least(@ + 1, WinMax)]
<1> DEFINE H == {Older(e) : e \in p.held}
<1>1. p \in Entry /\ IsFiniteSet(p.held) /\ Cardinality(p.held) <= Depth
      /\ \A e, f \in p.held : e.seq = f.seq => e = f
  BY DEF EntryOK
<1>2. \A e \in HeldData : Older(e) \in HeldData /\ Older(e).id = e.id /\ Older(e).seq = e.seq
  <2> SUFFICES ASSUME NEW e \in HeldData
               PROVE  Older(e) \in HeldData /\ Older(e).id = e.id /\ Older(e).seq = e.seq
    OBVIOUS
  <2>1. e.age \in 0 .. WinMax
    BY DEF HeldData
  <2>2. Least(e.age + 1, WinMax) \in 0 .. WinMax
    BY <2>1, LeastType
  <2> QED BY <2>2 DEF HeldData
<1>3. p.held \subseteq HeldData
  BY <1>1, EntryFields
<1>4. H \subseteq HeldData
  BY <1>2, <1>3
<1>5. IsFiniteSet(H) /\ Cardinality(H) <= Cardinality(p.held)
  <2> DEFINE F == [e \in p.held |-> Older(e)]
  <2>1. F \in Surjection(p.held, H)
    BY DEF Surjection
  <2> HIDE DEF F, H
  <2> QED BY <1>1, <2>1, FS_Surjection
<1>6. Cardinality(H) <= Depth
  <2>1. Cardinality(H) \in Nat /\ Cardinality(p.held) \in Nat
    BY <1>1, <1>5, FS_CardinalityType
  <2> QED BY <1>1, <1>5, <2>1
<1>a. /\ \A x \in H : \E e \in p.held : x = Older(e)
      /\ \A e \in p.held : Older(e) \in H
  OBVIOUS
<1>b. \A e \in p.held : Older(e).id = e.id /\ Older(e).seq = e.seq
  BY <1>2, <1>3
<1>7. \A x, y \in H : x.seq = y.seq => x = y
  <2> HIDE DEF H, Older
  <2> QED BY <1>1, <1>a, <1>b
<1>8. \A n : (\E e \in H : e.id = n) <=> (\E e \in p.held : e.id = n)
  <2> HIDE DEF H, Older
  <2> QED BY <1>a, <1>b
<1>9. (\A e, f \in p.held : e.id = f.id => e = f) => (\A e, f \in H : e.id = f.id => e = f)
  <2> HIDE DEF H, Older
  <2> QED BY <1>a, <1>b
<1>10. Aged(p) \in Entry /\ Aged(p).held = H /\ SameCursor(p, Aged(p))
  <2>1. p.adj \in 0 .. DecayAfter /\ p.act \in 0 .. PeerIdle /\ p.del \in 0 .. WinMax
    BY <1>1, EntryFields
  <2>2. /\ Least(p.adj + 1, DecayAfter) \in 0 .. DecayAfter
        /\ Least(p.act + 1, PeerIdle) \in 0 .. PeerIdle
        /\ Least(p.del + 1, WinMax) \in 0 .. WinMax
    BY <2>1, LeastType
  <2>3. Aged(p) = [p EXCEPT !.adj = Least(@ + 1, DecayAfter),
                            !.act = Least(@ + 1, PeerIdle),
                            !.del = Least(@ + 1, WinMax), !.held = H]
    BY DEF Aged
  <2> HIDE DEF H
  <2> QED BY <1>1, <1>4, <2>2, <2>3 DEF Entry, SameCursor
<1> HIDE DEF H
<1> QED
  BY <1>5, <1>6, <1>7, <1>8, <1>9, <1>10 DEF EntryOK, SameCursor

\* Claiming an entry keeps what it holds for the same source and nothing else.
LEMMA ClaimedOK ==
  ASSUME NEW p, EntryOK(p), NEW k \in Froms
  PROVE  /\ EntryOK(Claimed(p, k)) /\ Claimed(p, k).key = k
         /\ Claimed(p, k).held = IF p.key = k THEN p.held ELSE {}
         /\ p.key = k => SameCursor(p, Claimed(p, k))
<1>1. CASE p.key = k
  <2>1. p \in Entry
    BY DEF EntryOK
  <2>2. Claimed(p, k) = [p EXCEPT !.act = 0]
    BY <1>1 DEF Claimed
  <2>3. Claimed(p, k) \in Entry /\ SameCursor(p, Claimed(p, k))
        /\ Claimed(p, k).held = p.held
    BY <2>1, <2>2 DEF Entry, SameCursor
  <2>4. EntryOK(Claimed(p, k))
    BY <1>1, <2>3, TimesOnly DEF SameCursor
  <2> QED BY <1>1, <2>3, <2>4 DEF SameCursor
<1>2. CASE p.key # k
  BY <1>2, NewPeerOK, NewPeerIs DEF Claimed
<1> QED BY <1>1, <1>2

\* The window grows within its ceiling; nothing else changes but its clock.
LEMMA AdaptOK ==
  ASSUME NEW p, EntryOK(p), p.key # NoKey, NEW seq \in Seqs
  PROVE  LET q == AdaptOnArrival(p, seq)
         IN  EntryOK(q) /\ q.held = p.held /\ SameCursor(p, q)
<1> DEFINE q == AdaptOnArrival(p, seq)
<1> DEFINE W(age) == Least(age + GrowPad, WinMax)
<1> DEFINE waited == {e.age : e \in p.held}
<1> DEFINE oldest == CHOOSE a \in waited : \A b \in waited : a >= b
<1>1. p \in Entry
  BY DEF EntryOK
<1>2. p.win \in WinMin .. WinMax /\ p.del \in 0 .. WinMax /\ p.held \subseteq HeldData
  BY <1>1, EntryFields
<1>3. \A a \in Nat : W(a) \in Nat /\ W(a) <= WinMax
  BY DEF Least
<1>4. waited # {} => oldest \in Nat
  <2> SUFFICES ASSUME waited # {} PROVE oldest \in Nat
    OBVIOUS
  <2>1. waited \subseteq 0 .. WinMax
    BY <1>2 DEF HeldData
  <2> HIDE DEF waited
  <2>2. \E a \in waited : \A b \in waited : a >= b
    BY <2>1, GreatestOfBounded
  <2>3. oldest \in waited
    BY <2>2
  <2> HIDE DEF oldest
  <2> QED BY <2>1, <2>3
<1>5. \/ q = p
      \/ \E a \in Nat : W(a) > p.win /\ q = [p EXCEPT !.win = W(a), !.adj = 0]
  <2> DEFINE Grow(a) == IF W(a) > p.win THEN [p EXCEPT !.win = W(a), !.adj = 0] ELSE p
  <2>1. q = p \/ q = Grow(p.del) \/ (waited # {} /\ q = Grow(oldest))
    BY Zenon DEF AdaptOnArrival
  <2>2. p.del \in Nat
    BY <1>2
  <2>3. \A a \in Nat : q = Grow(a) =>
             q = p \/ (W(a) > p.win /\ q = [p EXCEPT !.win = W(a), !.adj = 0])
    OBVIOUS
  <2> HIDE DEF oldest, Grow, W, waited, q
  <2> QED BY <1>4, <2>1, <2>2, <2>3
<1> HIDE DEF q
<1>6. q \in Entry /\ q.held = p.held /\ SameCursor(p, q)
  <2>1. CASE q = p
    BY <1>1, <2>1 DEF SameCursor
  <2>2. ASSUME NEW a \in Nat, W(a) > p.win, q = [p EXCEPT !.win = W(a), !.adj = 0]
        PROVE  q \in Entry /\ q.held = p.held /\ SameCursor(p, q)
    <3>1. W(a) \in WinMin .. WinMax /\ 0 \in 0 .. DecayAfter
      BY <1>2, <1>3, <2>2
    <3> HIDE DEF W
    <3> QED BY <1>1, <2>2, <3>1 DEF Entry, SameCursor
  <2> QED BY <1>5, <2>1, <2>2
<1>7. EntryOK(q)
  BY <1>6, TimesOnly DEF SameCursor
<1> QED BY <1>6, <1>7 DEF q

\* A ring with a free slot never evicts: a datagram is refused or stored.
LEMMA InsertOK ==
  ASSUME NEW p, EntryOK(p), p.key # NoKey, Cardinality(p.held) < Depth,
         NEW d \in Nat, NEW seq \in Seqs
  PROVE  LET ins == Insert(p, d, seq)
             ring == [p EXCEPT !.held = ins.held]
             e == [id |-> d, seq |-> seq, age |-> 0]
         IN  /\ ins.what \in {"stale", "duplicate", "buffered"}
             /\ EntryOK(ring) /\ SameCursor(p, ring)
             /\ ring.held = IF ins.what = "buffered" THEN p.held \cup {e} ELSE p.held
<1> DEFINE ins == Insert(p, d, seq)
<1> DEFINE e == [id |-> d, seq |-> seq, age |-> 0]
<1> DEFINE ring == [p EXCEPT !.held = ins.held]
<1>1. /\ p \in Entry /\ IsFiniteSet(p.held) /\ Cardinality(p.held) \in Nat
      /\ \A x, y \in p.held : x.seq = y.seq => x = y
  BY FS_CardinalityType DEF EntryOK
<1>2. /\ ins.what \in {"stale", "duplicate", "buffered"}
      /\ ins.what = "buffered" => ins.held = p.held \cup {e} /\ \A x \in p.held : x.seq # seq
      /\ ins.what # "buffered" => ins.held = p.held
  BY DEF Insert
<1>3. e \in HeldData /\ e.seq = seq
  BY DEF HeldData
<1> HIDE DEF ins, e
<1>4. p.held \subseteq HeldData
  BY <1>1, EntryFields
<1>5. ins.held \subseteq HeldData
  BY <1>2, <1>3, <1>4
<1>6. ring \in Entry /\ ring.held = ins.held /\ SameCursor(p, ring)
  BY <1>1, <1>5 DEF Entry, SameCursor
<1>7. IsFiniteSet(ins.held) /\ Cardinality(ins.held) <= Depth
  <2>1. CASE ins.what = "buffered"
    <3>1. /\ IsFiniteSet(p.held \cup {e})
          /\ \/ Cardinality(p.held \cup {e}) = Cardinality(p.held)
             \/ Cardinality(p.held \cup {e}) = Cardinality(p.held) + 1
      BY <1>1, FS_AddElement
    <3>2. Cardinality(p.held \cup {e}) <= Depth
      BY <1>1, <3>1
    <3> QED BY <1>2, <2>1, <3>1, <3>2
  <2>2. CASE ins.what # "buffered"
    BY <1>1, <1>2, <2>2 DEF EntryOK
  <2> QED BY <2>1, <2>2
<1>8. \A x, y \in ins.held : x.seq = y.seq => x = y
  BY <1>1, <1>2, <1>3
<1>9. EntryOK(ring)
  BY <1>6, <1>7, <1>8 DEF EntryOK, SameCursor
<1> QED BY <1>2, <1>6, <1>9 DEF ins, e

\* Taking datagrams out of a ring.
LEMMA FewerOK ==
  ASSUME NEW p, EntryOK(p), p.key # NoKey,
         NEW q \in Entry, q.key = p.key, q.held \subseteq p.held
  PROVE  EntryOK(q)
<1>1. IsFiniteSet(p.held) /\ Cardinality(p.held) <= Depth
  BY DEF EntryOK
<1>2. IsFiniteSet(q.held) /\ Cardinality(q.held) <= Cardinality(p.held)
  BY <1>1, FS_Subset
<1>3. Cardinality(q.held) \in Nat /\ Cardinality(p.held) \in Nat
  BY <1>1, <1>2, FS_CardinalityType
<1> QED BY <1>1, <1>2, <1>3 DEF EntryOK

\* A delivery moves the cursor forward or not at all, and takes what the cursor
\* passes out of the ring.
LEMMA NoteDeliveryOK ==
  ASSUME NEW p, EntryOK(p), p.key # NoKey, NEW seq \in Seqs
  PROVE  LET q == NoteDelivery(p, seq)
         IN  /\ EntryOK(q) /\ q.key = p.key /\ q.init /\ q.last = Cursor(p, seq)
             /\ q.held = p.held \ Passed(p, Cursor(p, seq))
             /\ p.init => q.last = p.last \/ SeqCmp(q.last, p.last) > 0
             /\ \A e \in q.held : SeqCmp(e.seq, q.last) > 0
<1> DEFINE q == NoteDelivery(p, seq)
<1> DEFINE c == Cursor(p, seq)
<1>1. p \in Entry
  BY DEF EntryOK
<1>2. c \in Seqs /\ (p.init => c = p.last \/ SeqCmp(c, p.last) > 0)
  BY <1>1, EntryFields DEF Cursor
<1>3. q = [p EXCEPT !.init = TRUE, !.last = c, !.held = @ \ Passed(p, c),
                    !.del = 0, !.act = 0]
  BY DEF NoteDelivery
<1>4. p.held \subseteq HeldData
  BY <1>1, EntryFields
<1> HIDE DEF c, q
<1>5. /\ q \in Entry /\ q.key = p.key /\ q.init /\ q.last = c
      /\ q.held = p.held \ Passed(p, c)
  <2> DEFINE h == p.held \ Passed(p, c)
  <2>1. h \subseteq HeldData /\ 0 \in 0 .. WinMax /\ 0 \in 0 .. PeerIdle
    BY <1>4
  <2>2. q = [p EXCEPT !.init = TRUE, !.last = c, !.held = h, !.del = 0, !.act = 0]
    BY <1>3
  <2> HIDE DEF h
  <2>3. /\ q \in Entry /\ q.key = p.key /\ q.init /\ q.last = c /\ q.held = h
    BY <1>1, <1>2, <2>1, <2>2 DEF Entry
  <2> QED BY <2>3 DEF h
<1>6. EntryOK(q)
  BY <1>5, FewerOK
<1>7. ASSUME NEW e \in q.held
      PROVE  SeqCmp(e.seq, c) > 0
  <2>1. e \in p.held /\ ~(SeqCmp(e.seq, c) <= 0) /\ e.seq \in Seqs
    BY <1>4, <1>5 DEF Passed, HeldData
  <2>2. SeqCmp(e.seq, c) \in Int
    BY <1>2, <2>1, SeqCmpType
  <2> QED BY <2>1, <2>2
<1> QED BY <1>2, <1>5, <1>6, <1>7 DEF q, c

LEMMA DecayOK ==
  ASSUME NEW p, EntryOK(p), p.key # NoKey
  PROVE  EntryOK(Decay(p)) /\ Decay(p).held = p.held /\ SameCursor(p, Decay(p))
<1> DEFINE w == IF p.win <= WinMin THEN WinMin
                ELSE WinMin + (3 * (p.win - WinMin)) \div 4
<1>1. p \in Entry
  BY DEF EntryOK
<1>2. p.win \in WinMin .. WinMax
  BY <1>1, EntryFields
<1>3. w \in WinMin .. WinMax
  BY <1>2
<1>4. Decay(p) = p \/ Decay(p) = [p EXCEPT !.win = w, !.adj = 0]
  BY DEF Decay
<1> HIDE DEF w
<1>5. Decay(p) \in Entry /\ Decay(p).held = p.held /\ SameCursor(p, Decay(p))
  <2>1. 0 \in 0 .. DecayAfter
    OBVIOUS
  <2>2. CASE Decay(p) = p
    BY <1>1, <2>2 DEF SameCursor
  <2>3. CASE Decay(p) = [p EXCEPT !.win = w, !.adj = 0]
    BY <1>1, <1>3, <2>1, <2>3 DEF Entry, SameCursor
  <2> QED BY <1>4, <2>2, <2>3
<1> QED BY <1>5, TimesOnly DEF SameCursor

\* reorder_take as a whole.
LEMMA TakeOutOK ==
  ASSUME NEW p, EntryOK(p), p.key # NoKey, NEW e \in p.held
  PROVE  LET q == TakeOut(p, e)
             rest == [p EXCEPT !.held = @ \ {e}]
         IN  /\ EntryOK(q) /\ q.key = p.key /\ q.init
             /\ rest.held = p.held \ {e}
             /\ q.held = rest.held \ Passed(rest, Cursor(rest, e.seq))
             /\ p.init => q.last = p.last \/ SeqCmp(q.last, p.last) > 0
             /\ \A f \in q.held : SeqCmp(f.seq, q.last) > 0
<1> DEFINE rest == [p EXCEPT !.held = @ \ {e}]
<1>1. p \in Entry /\ p.held \subseteq HeldData
  BY EntryFields DEF EntryOK
<1>2. rest \in Entry /\ rest.held = p.held \ {e} /\ SameCursor(p, rest)
  BY <1>1 DEF Entry, SameCursor
<1>3. e.seq \in Seqs
  BY <1>1 DEF HeldData
<1> HIDE DEF rest
<1>4. EntryOK(rest)
  BY <1>2, FewerOK DEF SameCursor
<1> DEFINE note == NoteDelivery(rest, e.seq)
<1>5. /\ EntryOK(note) /\ note.key = rest.key /\ note.init
      /\ note.held = rest.held \ Passed(rest, Cursor(rest, e.seq))
      /\ rest.init => note.last = rest.last \/ SeqCmp(note.last, rest.last) > 0
      /\ \A f \in note.held : SeqCmp(f.seq, note.last) > 0
  BY <1>2, <1>3, <1>4, NoteDeliveryOK DEF SameCursor
<1>6. TakeOut(p, e) = Decay(note)
  BY DEF TakeOut, rest
<1> HIDE DEF note
<1>7. /\ EntryOK(Decay(note)) /\ Decay(note).held = note.held
      /\ SameCursor(note, Decay(note))
  BY <1>2, <1>5, DecayOK DEF SameCursor
<1> QED BY <1>2, <1>5, <1>6, <1>7 DEF SameCursor, rest

LEMMA EntryForIn ==
  ASSUME NEW t, DOMAIN t = 0 .. Peers - 1, NEW k, NEW i \in EntryFor(t, k)
  PROVE  i \in 0 .. Peers - 1
<1> DEFINE own  == {j \in DOMAIN t : t[j].key = k}
<1> DEFINE free == {j \in DOMAIN t : t[j].key = NoKey}
<1> DEFINE first == CHOOSE j \in free : \A m \in free : j <= m
<1>1. i \in DOMAIN t \/ (free # {} /\ i = first)
  BY Zenon DEF EntryFor
<1>2. free # {} => first \in free
  <2> SUFFICES ASSUME free # {} PROVE first \in free
    OBVIOUS
  <2>1. free \subseteq Nat
    OBVIOUS
  <2> HIDE DEF free
  <2> QED BY <2>1, LeastOfNats
<1> HIDE DEF first
<1> QED BY <1>1, <1>2

LEMMA PickIn ==
  ASSUME NEW p, NEW pick \in Pick(p)
  PROVE  pick.e \in p.held /\ pick.kind \in {"first", "inOrder", "forced"}
<1> DEFINE next  == {e \in p.held : e.seq = SeqNext(p.last)}
<1> DEFINE aged  == {e \in p.held : e.age >= Hold(p)}
<1> DEFINE ahead == {e \in aged : SeqCmp(e.seq, SeqNext(p.last)) >= 0}
<1> DEFINE Nearest(S) == {e \in S : \A f \in S : SeqCmp(e.seq, f.seq) <= 0}
<1> DEFINE Eldest(S)  == {e \in S : \A f \in S : e.age >= f.age}
<1> DEFINE Lowest(S) == IF Nearest(S) # {} THEN Nearest(S) ELSE S
<1> DEFINE As(kind, S) == {[kind |-> kind, e |-> e] : e \in S}
<1>1. \/ pick \in As("first", Lowest(p.held)) \/ pick \in As("inOrder", next)
      \/ pick \in As("forced", Nearest(ahead)) \/ pick \in As("forced", Eldest(aged))
  BY DEF Pick
<1>2. \A kind, S : pick \in As(kind, S) => pick.kind = kind /\ pick.e \in S
  OBVIOUS
<1>3. \A S : Nearest(S) \subseteq S /\ Eldest(S) \subseteq S /\ Lowest(S) \subseteq S
  OBVIOUS
<1>4. next \subseteq p.held /\ aged \subseteq p.held /\ ahead \subseteq p.held
  OBVIOUS
<1> HIDE DEF next, aged, ahead, Nearest, Eldest, Lowest, As
<1> QED BY <1>1, <1>2, <1>3, <1>4

-----------------------------------------------------------------------------
(* The invariant *)

Somewhere(kern, t, g, l, n) ==
  AtKernel(kern, n) \/ AtTable(t, n) \/ AtGame(g, n) \/ AtLost(l, n)
AtOnePlace(kern, t, g, l, n) ==
  /\ AtKernel(kern, n) => ~AtTable(t, n) /\ ~AtGame(g, n) /\ ~AtLost(l, n)
  /\ AtTable(t, n) => ~AtGame(g, n) /\ ~AtLost(l, n)
  /\ AtGame(g, n) => ~AtLost(l, n)

\* What the network brought is at one place, once.
Placed(kern, t, g, l, a) ==
  /\ KernelOnce(kern) /\ TableOnce(t) /\ GameOnce(g) /\ LostOnce(l)
  /\ \A n : (n \in 1 .. a <=> Somewhere(kern, t, g, l, n)) /\ AtOnePlace(kern, t, g, l, n)

Places == Placed(kernel, tbl, given, lost, arrived)

RxInv == TypeOK /\ Places /\ NothingEvicted

TableOK(t) == t \in [0 .. Peers - 1 -> Entry] /\ \A i \in 0 .. Peers - 1 : EntryOK(t[i])
Handed(a) == [id : 1 .. a, kind : Kinds, seq : Seqs, entry : 0 .. Peers - 1]
Marked(a) == [id : 1 .. a, how : Ends]
Control ==
  /\ rr \in 0 .. Peers - 1
  /\ reorderSock \in Socks \cup {"none"}
  /\ lastCall \in 0 .. WakeIdle /\ news \in BOOLEAN
  /\ game \in [pc : {"idle", "drain", "pick"}, sock : Socks, n : 0 .. DrainCap]
  /\ wake \in [pc : {"sleep", "send"}, target : Socks \cup {"none"},
               last : 0 .. WakeIdle, news : BOOLEAN, burst : 0 .. WakeCap]
  /\ open \subseteq Socks /\ closes \in Nat
Threads == << rr, reorderSock, lastCall, news, game, wake, open, closes >>

LEMMA TypeParts ==
  TypeOK <=> /\ kernel \in Kernels /\ TableOK(tbl) /\ Control /\ arrived \in Nat
             /\ given \in Seq(Handed(arrived)) /\ lost \subseteq Marked(arrived)
<1>1. TableOK(tbl) => DOMAIN tbl = 0 .. Peers - 1
  BY DEF TableOK
<1>2. DOMAIN tbl = 0 .. Peers - 1
        => Handed(arrived) = [id : 1 .. arrived, kind : Kinds, seq : Seqs, entry : DOMAIN tbl]
  BY DEF Handed
<1>3. TypeOK => TableOK(tbl)
  BY DEF TypeOK, TableOK
<1> QED BY <1>1, <1>2, <1>3 DEF TypeOK, TableOK, Control, Kernels, Marked

LEMMA TypePartsNext ==
  TypeOK' <=> /\ kernel' \in Kernels /\ TableOK(tbl') /\ Control' /\ arrived' \in Nat
              /\ given' \in Seq(Handed(arrived')) /\ lost' \subseteq Marked(arrived')
<1>1. TableOK(tbl') => DOMAIN tbl' = 0 .. Peers - 1
  BY DEF TableOK
<1>2. DOMAIN tbl' = 0 .. Peers - 1
        => Handed(arrived') = [id : 1 .. arrived', kind : Kinds, seq : Seqs, entry : DOMAIN tbl']
  BY DEF Handed
<1>3. TypeOK' => TableOK(tbl')
  BY DEF TypeOK, TableOK
<1> QED BY <1>1, <1>2, <1>3 DEF TypeOK, TableOK, Control, Kernels, Marked

LEMMA DestroyType ==
  ASSUME NEW a, NEW l, l \subseteq Marked(a), NEW how \in Ends, NEW S, NEW l2,
         Destroyed(l, S, how, l2), \A e \in S : e.id \in 1 .. a
  PROVE  l2 \subseteq Marked(a)
BY DEF Marked, Destroyed

LEMMA PlacedIn ==
  ASSUME RxInv, NEW n
  PROVE  /\ AtKernel(kernel, n) \/ AtTable(tbl, n) \/ AtGame(given, n) \/ AtLost(lost, n)
              => n \in 1 .. arrived
         /\ n \in 1 .. arrived => n \in Nat
BY DEF RxInv, Places, Placed, Somewhere, TypeOK

-----------------------------------------------------------------------------
(* The steps *)

LEMMA InitOK == Init => RxInv
<1> SUFFICES ASSUME Init PROVE RxInv
  OBVIOUS
<1>1. kernel \in Kernels /\ \A s \in Socks : DOMAIN kernel[s] = {}
  BY EmptySeq DEF Init, Kernels
<1>2. TableOK(tbl) /\ \A i \in DOMAIN tbl : tbl[i].held = {}
  <2>1. EntryOK(NoPeer) /\ NoPeer.held = {} /\ NoPeer \in Entry
    BY NewPeerOK, NewPeerIs DEF NoPeer
  <2> QED BY <2>1 DEF Init, NoPeers, TableOK
<1>3. Control
  <2>1. PICK s \in Socks : game = Idle(s)
    BY DEF Init
  <2>2. game \in [pc : {"idle", "drain", "pick"}, sock : Socks, n : 0 .. DrainCap]
    BY <2>1 DEF Idle
  <2>3. wake \in [pc : {"sleep", "send"}, target : Socks \cup {"none"},
                  last : 0 .. WakeIdle, news : BOOLEAN, burst : 0 .. WakeCap]
    BY DEF Init
  <2>4. rr = 0 /\ reorderSock = "none" /\ lastCall = WakeIdle /\ news = FALSE
        /\ open = Socks /\ closes = 0
    BY DEF Init
  <2>5. rr \in 0 .. Peers - 1 /\ lastCall \in 0 .. WakeIdle /\ closes \in Nat
    BY <2>4
  <2>6. reorderSock \in Socks \cup {"none"} /\ news \in BOOLEAN /\ open \subseteq Socks
    BY <2>4
  <2> QED BY <2>2, <2>3, <2>5, <2>6 DEF Control
<1>4. arrived \in Nat /\ given \in Seq(Handed(arrived)) /\ lost \subseteq Marked(arrived)
      /\ DOMAIN given = {}
  BY EmptySeq DEF Init
<1>5. TypeOK
  BY <1>1, <1>2, <1>3, <1>4, TypeParts
<1>6. Places
  <2>1. \A n : ~AtKernel(kernel, n) /\ ~AtTable(tbl, n) /\ ~AtGame(given, n) /\ ~AtLost(lost, n)
    BY <1>1, <1>2, <1>4 DEF AtKernel, AtTable, AtGame, AtLost, Init
  <2>2. KernelOnce(kernel) /\ TableOnce(tbl) /\ GameOnce(given) /\ LostOnce(lost)
    BY <1>1, <1>2, <1>4 DEF KernelOnce, TableOnce, GameOnce, LostOnce, Init
  <2>3. \A n : n \notin 1 .. arrived
    BY DEF Init
  <2> QED BY <2>1, <2>2, <2>3 DEF Places, Placed, Somewhere, AtOnePlace
<1>7. NothingEvicted
  BY <1>4 DEF NothingEvicted
<1> QED BY <1>5, <1>6, <1>7 DEF RxInv

\* A step of a thread that moves no datagram.
LEMMA QuietOK ==
  ASSUME RxInv, Control', UNCHANGED << kernel, tbl, arrived, given, lost >>
  PROVE  RxInv'
<1>1. TypeOK'
  BY TypeParts, TypePartsNext DEF RxInv
<1>2. Places' /\ NothingEvicted'
  BY DEF RxInv, Places, NothingEvicted
<1> QED BY <1>1, <1>2 DEF RxInv

LEMMA ArriveOK ==
  ASSUME RxInv, NEW s \in Socks, NEW kind \in {"data", "short", "big", "empty"},
         NEW k, NEW q, kind = "data" => k \in Froms /\ q \in Seqs, Arrive(s, kind, k, q)
  PROVE  RxInv'
<1> DEFINE d == arrived + 1
<1> DEFINE m == IF kind = "data" THEN Data(d, k, q) ELSE [kind |-> kind, id |-> d]
<1>1. /\ kernel \in Kernels /\ TableOK(tbl) /\ Control /\ arrived \in Nat
      /\ given \in Seq(Handed(arrived)) /\ lost \subseteq Marked(arrived)
  BY TypeParts DEF RxInv
<1>2. m \in Packets /\ \A n : Numbered(m, n) <=> n = d
  BY <1>1 DEF Packets, Data, Numbered
<1>3. /\ Pushed(kernel, s, m, kernel') /\ arrived' = d
      /\ UNCHANGED << tbl, given, lost >> /\ UNCHANGED Threads
  BY DEF Arrive, Threads, Pushed
<1> HIDE DEF m
<1>4. /\ d \in Nat /\ d \notin 1 .. arrived
      /\ \A n : n \in 1 .. d <=> n \in 1 .. arrived \/ n = d
  BY <1>1
<1> HIDE DEF d
<1>5. ~AtKernel(kernel, d) /\ ~AtTable(tbl, d) /\ ~AtGame(given, d) /\ ~AtLost(lost, d)
  BY <1>4, PlacedIn
<1>6. KernelOnce(kernel)
  BY DEF RxInv, Places, Placed
<1>7. /\ kernel' \in Kernels /\ KernelOnce(kernel')
      /\ \A n : AtKernel(kernel', n) <=> AtKernel(kernel, n) \/ n = d
  BY <1>1, <1>2, <1>3, <1>5, <1>6, KernelGrows
<1>8. Places'
  <2>1. KernelOnce(kernel') /\ TableOnce(tbl') /\ GameOnce(given') /\ LostOnce(lost')
    BY <1>3, <1>7 DEF RxInv, Places, Placed
  <2>2. ASSUME NEW n
        PROVE  /\ n \in 1 .. arrived' <=> Somewhere(kernel', tbl', given', lost', n)
               /\ AtOnePlace(kernel', tbl', given', lost', n)
    BY <1>3, <1>4, <1>5, <1>7 DEF RxInv, Places, Placed, Somewhere, AtOnePlace
  <2> QED BY <2>1, <2>2 DEF Places, Placed
<1>9. TypeOK'
  <2>1. Control'
    BY <1>1, <1>3 DEF Control, Threads
  <2>2. given' \in Seq(Handed(arrived')) /\ lost' \subseteq Marked(arrived')
    <3>1. Handed(arrived) \subseteq Handed(arrived') /\ Marked(arrived) \subseteq Marked(arrived')
      BY <1>3, <1>4 DEF Handed, Marked
    <3> QED BY <1>1, <1>3, <3>1, SeqMonotonic
  <2> QED BY <1>1, <1>3, <1>4, <1>7, <2>1, <2>2, TypePartsNext
<1>10. NothingEvicted'
  BY <1>3 DEF RxInv, NothingEvicted
<1> QED BY <1>8, <1>9, <1>10 DEF RxInv

\* The head of the kernel's buffer is taken.
LEMMA DrainFacts ==
  ASSUME RxInv, DrainGuard
  PROVE  /\ Packet \in Packets /\ kernel' \in Kernels /\ KernelOnce(kernel')
         /\ \A n : Numbered(Packet, n) => AtKernel(kernel, n)
         /\ \A n : AtKernel(kernel', n) <=> AtKernel(kernel, n) /\ ~Numbered(Packet, n)
         /\ ~Saturated(tbl)
<1>1. kernel \in Kernels /\ game.sock \in Socks
  BY TypeParts DEF RxInv, Control
<1>2. KernelOnce(kernel)
  BY DEF RxInv, Places, Placed
<1>3. /\ kernel[game.sock] # << >> /\ Popped(kernel, game.sock, kernel')
      /\ Packet = Head(kernel[game.sock]) /\ ~Saturated(tbl)
  BY DEF DrainGuard, Packet, Popped
<1> QED BY <1>1, <1>2, <1>3, KernelShrinks

LEMMA ContinueType ==
  ASSUME Control, DrainGuard, Continue
  PROVE  game' \in [pc : {"idle", "drain", "pick"}, sock : Socks, n : 0 .. DrainCap]
<1>1. game \in [pc : {"idle", "drain", "pick"}, sock : Socks, n : 0 .. DrainCap]
      /\ game.n < DrainCap
  BY DEF Control, DrainGuard
<1>2. game.n + 1 \in 0 .. DrainCap
  BY <1>1
<1> QED BY <1>1, <1>2 DEF Continue

LEMMA IdleType ==
  ASSUME Control, NEW s \in Socks
  PROVE  Idle(s) \in [pc : {"idle", "drain", "pick"}, sock : Socks, n : 0 .. DrainCap]
BY DEF Idle

LEMMA DeliverFacts ==
  ASSUME RxInv, NEW n \in 1 .. arrived, NEW kind \in Kinds \ {"evicted"}, NEW q \in Seqs,
         NEW i \in 0 .. Peers - 1, Deliver(n, kind, q, i)
  PROVE  /\ given' \in Seq(Handed(arrived))
         /\ \A x : AtGame(given', x) <=> AtGame(given, x) \/ x = n
         /\ ~AtGame(given, n) => GameOnce(given')
         /\ NothingEvicted'
         /\ game' \in [pc : {"idle", "drain", "pick"}, sock : Socks, n : 0 .. DrainCap]
<1> DEFINE x == [id |-> n, kind |-> kind, seq |-> q, entry |-> i]
<1>1. x \in Handed(arrived) /\ x.id = n /\ x.kind # "evicted"
  BY DEF Handed
<1>2. HandedOver(given, x, given') /\ game' = Idle(game.sock)
  BY DEF Deliver, HandedOver
<1> HIDE DEF x
<1>3. given \in Seq(Handed(arrived)) /\ Control
  BY TypeParts DEF RxInv
<1>4. GameOnce(given)
  BY DEF RxInv, Places, Placed
<1>5. /\ given' \in Seq(Handed(arrived))
      /\ \A y : AtGame(given', y) <=> AtGame(given, y) \/ y = n
      /\ ~AtGame(given, n) => GameOnce(given')
      /\ \A j \in DOMAIN given' : given'[j] = x \/ (j \in DOMAIN given /\ given'[j] = given[j])
  BY <1>1, <1>2, <1>3, <1>4, GameGrows
<1>6. NothingEvicted'
  BY <1>1, <1>5 DEF RxInv, NothingEvicted
<1>7. game.sock \in Socks
  BY <1>3 DEF Control
<1> QED BY <1>2, <1>3, <1>5, <1>6, <1>7, IdleType

LEMMA DestroyFacts ==
  ASSUME RxInv, NEW S, NEW how \in Ends, Destroy(S, how), \A e \in S : e.id \in 1 .. arrived
  PROVE  /\ lost' \subseteq Marked(arrived)
         /\ \A n : AtLost(lost', n) <=> AtLost(lost, n) \/ Holds(S, n)
         /\ (\A e \in S : ~AtLost(lost, e.id)) => LostOnce(lost')
<1>1. lost \subseteq Marked(arrived) /\ LostOnce(lost)
  BY TypeParts DEF RxInv, Places, Placed
<1>2. Destroyed(lost, S, how, lost')
  BY DEF Destroy, Destroyed
<1>3. lost' \subseteq Marked(arrived)
  BY <1>1, <1>2, DestroyType
<1> QED BY <1>1, <1>2, <1>3, LostGrows DEF Holds

\* The drain destroys the datagram it has taken.
LEMMA DrainLosesOK ==
  ASSUME RxInv, DrainGuard, Packet.kind # "wake", NEW how \in Ends, Destroy({Packet}, how),
         Control', UNCHANGED << tbl, arrived, given >>
  PROVE  RxInv'
<1>1. /\ Packet \in Packets /\ kernel' \in Kernels /\ KernelOnce(kernel')
      /\ \A n : Numbered(Packet, n) => AtKernel(kernel, n)
      /\ \A n : AtKernel(kernel', n) <=> AtKernel(kernel, n) /\ ~Numbered(Packet, n)
  BY DrainFacts
<1>2. /\ TableOK(tbl) /\ arrived \in Nat /\ given \in Seq(Handed(arrived))
  BY TypeParts DEF RxInv
<1>3. /\ lost' \subseteq Marked(arrived) /\ LostOnce(lost')
      /\ \A n : AtLost(lost', n) <=> AtLost(lost, n) \/ Numbered(Packet, n)
  <2>1. Numbered(Packet, Packet.id) /\ \A n : Numbered(Packet, n) <=> n = Packet.id
    BY DEF Numbered
  <2>2. AtKernel(kernel, Packet.id)
    BY <1>1, <2>1
  <2>3. Packet.id \in 1 .. arrived /\ ~AtLost(lost, Packet.id)
    BY <2>2, PlacedIn DEF RxInv, Places, Placed, AtOnePlace
  <2>4. \A n : Holds({Packet}, n) <=> n = Packet.id
    BY DEF Holds
  <2> DEFINE S == {Packet}
  <2>5. \A e \in S : e.id \in 1 .. arrived /\ ~AtLost(lost, e.id)
    BY <2>3
  <2> HIDE DEF S
  <2>6. Destroy(S, how) /\ \A n : Holds(S, n) <=> n = Packet.id
    BY <2>4 DEF S
  <2>7. /\ lost' \subseteq Marked(arrived) /\ LostOnce(lost')
        /\ \A n : AtLost(lost', n) <=> AtLost(lost, n) \/ Holds(S, n)
    BY <2>5, <2>6, DestroyFacts
  <2> QED BY <2>1, <2>6, <2>7
<1>4. TypeOK'
  BY <1>1, <1>2, <1>3, TypePartsNext
<1>5. Places'
  BY <1>1, <1>3 DEF RxInv, Places, Placed, Somewhere, AtOnePlace
<1>6. NothingEvicted'
  BY DEF RxInv, NothingEvicted
<1> QED BY <1>4, <1>5, <1>6 DEF RxInv

LEMMA DrainOtherOK == ASSUME RxInv, DrainOther PROVE RxInv'
<1>1. Control /\ DrainGuard /\ Continue
  BY TypeParts DEF RxInv, DrainOther
<1>2. UNCHANGED << tbl, rr, reorderSock, lastCall, news, wake, open, closes, arrived, given >>
  BY DEF DrainOther
<1>3. Control'
  BY <1>1, <1>2, ContinueType DEF Control
<1>4. CASE Packet.kind = "big"
  <2>1. "big" \in Ends /\ Destroy({Packet}, "big")
    BY <1>4 DEF Ends, DrainOther
  <2> QED BY <1>1, <1>2, <1>3, <1>4, <2>1, DrainLosesOK
<1>5. CASE Packet.kind = "wake"
  <2>1. lost' = lost
    BY <1>5 DEF DrainOther
  <2>2. /\ kernel' \in Kernels /\ KernelOnce(kernel')
        /\ \A n : AtKernel(kernel', n) <=> AtKernel(kernel, n)
    BY <1>1, <1>5, DrainFacts DEF Numbered
  <2>3. TypeOK'
    BY <1>2, <1>3, <2>1, <2>2, TypeParts, TypePartsNext DEF RxInv
  <2>4. Places'
    BY <1>2, <2>1, <2>2 DEF RxInv, Places, Placed, Somewhere, AtOnePlace
  <2>5. NothingEvicted'
    BY <1>2 DEF RxInv, NothingEvicted
  <2> QED BY <2>3, <2>4, <2>5 DEF RxInv
<1> QED BY <1>4, <1>5 DEF DrainOther

LEMMA DrainEmptyOK == ASSUME RxInv, DrainEmpty PROVE RxInv'
<1>1. Control /\ DrainGuard /\ Packet.kind # "wake"
  BY TypeParts DEF RxInv, DrainEmpty
<1>2. UNCHANGED << tbl, rr, reorderSock, lastCall, news, wake, open, closes, arrived, given >>
  BY DEF DrainEmpty
<1>3. game' = [game EXCEPT !.pc = "pick"]
  BY DEF DrainEmpty
<1>4. Control'
  BY <1>1, <1>2, <1>3 DEF Control
<1>5. "empty" \in Ends /\ Destroy({Packet}, "empty")
  BY DEF Ends, DrainEmpty
<1> QED BY <1>1, <1>2, <1>4, <1>5, DrainLosesOK

LEMMA DrainBypassOK == ASSUME RxInv, DrainBypass PROVE RxInv'
<1> DEFINE d == Packet.id
<1>1. /\ Packet \in Packets /\ kernel' \in Kernels /\ KernelOnce(kernel')
      /\ \A n : Numbered(Packet, n) => AtKernel(kernel, n)
      /\ \A n : AtKernel(kernel', n) <=> AtKernel(kernel, n) /\ ~Numbered(Packet, n)
  BY DrainFacts DEF DrainBypass
<1>2. /\ TableOK(tbl) /\ Control /\ arrived \in Nat
      /\ given \in Seq(Handed(arrived)) /\ lost \subseteq Marked(arrived)
  BY TypeParts DEF RxInv
<1>3. UNCHANGED << tbl, rr, reorderSock, lastCall, news, wake, open, closes, arrived, lost >>
  BY DEF DrainBypass
<1>4. \A n : Numbered(Packet, n) <=> n = d
  BY DEF DrainBypass, Numbered
<1>5. AtKernel(kernel, d)
  BY <1>1, <1>4
<1>6. d \in 1 .. arrived /\ ~AtGame(given, d)
  BY <1>5, PlacedIn DEF RxInv, Places, Placed, AtOnePlace
<1>7. \E kind \in {"short", "bypass"} : Deliver(d, kind, 0, 0)
  BY DEF DrainBypass
<1>8. 0 \in Seqs /\ 0 \in 0 .. Peers - 1
  BY DEF Seqs
<1>9. /\ given' \in Seq(Handed(arrived)) /\ GameOnce(given') /\ NothingEvicted'
      /\ \A n : AtGame(given', n) <=> AtGame(given, n) \/ n = d
      /\ game' \in [pc : {"idle", "drain", "pick"}, sock : Socks, n : 0 .. DrainCap]
  <2>1. PICK kind \in {"short", "bypass"} : Deliver(d, kind, 0, 0)
    BY <1>7
  <2>2. kind \in Kinds \ {"evicted"}
    BY DEF Kinds
  <2> QED BY <1>6, <1>8, <2>1, <2>2, DeliverFacts
<1>10. TypeOK'
  <2>1. Control'
    BY <1>2, <1>3, <1>9 DEF Control
  <2> QED BY <1>1, <1>2, <1>3, <1>9, <2>1, TypePartsNext
<1> HIDE DEF d
<1>11. Places'
  BY <1>1, <1>3, <1>4, <1>5, <1>9 DEF RxInv, Places, Placed, Somewhere, AtOnePlace
<1> QED BY <1>9, <1>10, <1>11 DEF RxInv

LEMMA FillOK ==
  ASSUME TableOK(tbl), ~Saturated(tbl), NEW i \in 0 .. Peers - 1,
         NEW k \in Froms, NEW d \in Nat, NEW q \in Seqs
  PROVE  LET p    == AdaptOnArrival(Claimed(tbl[i], k), q)
             ins  == Insert(p, d, q)
             ring == [p EXCEPT !.held = ins.held]
             kept == IF tbl[i].key = k THEN tbl[i].held ELSE {}
             e    == [id |-> d, seq |-> q, age |-> 0]
         IN  /\ ins.what \in {"stale", "duplicate", "buffered"}
             /\ EntryOK(ring) /\ ring.key = k
             /\ ring.held = IF ins.what = "buffered" THEN kept \cup {e} ELSE kept
             /\ tbl[i].key = k => SameCursor(tbl[i], ring)
<1> DEFINE c    == Claimed(tbl[i], k)
<1> DEFINE p    == AdaptOnArrival(c, q)
<1> DEFINE ins  == Insert(p, d, q)
<1> DEFINE ring == [p EXCEPT !.held = ins.held]
<1> DEFINE kept == IF tbl[i].key = k THEN tbl[i].held ELSE {}
<1>1. EntryOK(tbl[i]) /\ k # NoKey /\ DOMAIN tbl = 0 .. Peers - 1
  BY DEF TableOK
<1>2. /\ EntryOK(c) /\ c.key = k /\ c.held = kept
      /\ tbl[i].key = k => SameCursor(tbl[i], c)
  BY <1>1, ClaimedOK
<1>3. Cardinality(kept) < Depth
  <2>1. CASE tbl[i].key = k
    <3>1. ~(Cardinality(tbl[i].held) >= Depth)
      BY <1>1, <2>1 DEF Saturated
    <3>2. Cardinality(tbl[i].held) \in Nat
      BY <1>1, FS_CardinalityType DEF EntryOK
    <3> QED BY <2>1, <3>1, <3>2
  <2>2. CASE tbl[i].key # k
    BY <2>2, FS_EmptySet
  <2> QED BY <2>1, <2>2
<1> HIDE DEF c, kept
<1>4. EntryOK(p) /\ p.held = kept /\ SameCursor(c, p) /\ p.key = k
  BY <1>1, <1>2, AdaptOK DEF SameCursor
<1> HIDE DEF p
<1>5. /\ ins.what \in {"stale", "duplicate", "buffered"}
      /\ EntryOK(ring) /\ SameCursor(p, ring)
      /\ ring.held = IF ins.what = "buffered" THEN p.held \cup {[id |-> d, seq |-> q, age |-> 0]}
                                              ELSE p.held
  <2>1. p.key # NoKey /\ Cardinality(p.held) < Depth
    BY <1>1, <1>3, <1>4
  <2> QED BY <1>4, <2>1, InsertOK, Zenon
<1> HIDE DEF ins, ring
<1>6. ring.key = k /\ (tbl[i].key = k => SameCursor(tbl[i], ring))
  BY <1>2, <1>4, <1>5 DEF SameCursor
<1> QED BY <1>4, <1>5, <1>6 DEF c, p, ins, ring, kept

\* What a step of the drain does with a datagram that has a sequence.
LEMMA DrainDataFacts ==
  ASSUME RxInv, DrainData
  PROVE  \E i \in 0 .. Peers - 1, ring \in Entry, stored \in BOOLEAN :
           LET k == Packet.from
               kept == IF tbl[i].key = k THEN tbl[i].held ELSE {}
               gone == IF tbl[i].key = k THEN {} ELSE tbl[i].held
               e    == [id |-> Packet.id, seq |-> Packet.seq, age |-> 0]
           IN  /\ EntryOK(ring) /\ ring.key = k /\ Refilled(tbl, i, ring, tbl')
               /\ ring.held = IF stored THEN kept \cup {e} ELSE kept
               /\ tbl[i].key = k => SameCursor(tbl[i], ring)
               /\ Destroy(gone, "reclaimed")
               /\ stored => Continue /\ given' = given
               /\ ~stored => \E what \in {"stale", "duplicate"} :
                               Deliver(Packet.id, what, Packet.seq, i)
<1> DEFINE k == Packet.from
<1> DEFINE p(i)    == AdaptOnArrival(Claimed(tbl[i], k), Packet.seq)
<1> DEFINE ins(i)  == Insert(p(i), Packet.id, Packet.seq)
<1> DEFINE ring(i) == [p(i) EXCEPT !.held = ins(i).held]
<1> DEFINE gone(i) == IF tbl[i].key = k THEN {} ELSE tbl[i].held
<1> DEFINE kept(i) == IF tbl[i].key = k THEN tbl[i].held ELSE {}
<1> DEFINE e == [id |-> Packet.id, seq |-> Packet.seq, age |-> 0]
<1>1. TableOK(tbl) /\ DOMAIN tbl = 0 .. Peers - 1
  BY TypeParts DEF RxInv, TableOK
<1>2. k \in Froms /\ Packet.id \in Nat /\ Packet.seq \in Seqs /\ ~Saturated(tbl)
  <2>1. DrainGuard /\ Packet.kind = "data"
    BY DEF DrainData
  <2>2. Packet \in Packets /\ ~Saturated(tbl)
    BY <2>1, DrainFacts
  <2> QED BY <2>1, <2>2, PacketFacts
<1>3. PICK i \in EntryFor(tbl, k) :
        \/ /\ ins(i).what = "buffered"
           /\ tbl' = [tbl EXCEPT ![i] = ring(i)]
           /\ Continue
           /\ Destroy(gone(i), "reclaimed")
           /\ UNCHANGED given
        \/ /\ ins(i).what \in {"stale", "duplicate"}
           /\ tbl' = [tbl EXCEPT ![i] = ring(i)]
           /\ Deliver(Packet.id, ins(i).what, Packet.seq, i)
           /\ Destroy(gone(i), "reclaimed")
        \/ ins(i).what = "evicted"
  BY Zenon DEF DrainData
<1>4. i \in 0 .. Peers - 1
  BY <1>1, <1>3, EntryForIn
<1>5. /\ ins(i).what \in {"stale", "duplicate", "buffered"}
      /\ EntryOK(ring(i)) /\ ring(i).key = k
      /\ ring(i).held = IF ins(i).what = "buffered" THEN kept(i) \cup {e} ELSE kept(i)
      /\ tbl[i].key = k => SameCursor(tbl[i], ring(i))
  BY <1>1, <1>2, <1>4, FillOK
<1>6. ring(i) \in Entry
  BY <1>5 DEF EntryOK
<1> DEFINE stored == ins(i).what = "buffered"
<1>7. /\ Refilled(tbl, i, ring(i), tbl') /\ Destroy(gone(i), "reclaimed")
      /\ stored => Continue /\ given' = given
      /\ ~stored => \E what \in {"stale", "duplicate"} :
                      Deliver(Packet.id, what, Packet.seq, i)
  <2> HIDE DEF ring, ins, gone
  <2> QED BY <1>3, <1>5 DEF Refilled
<1>8. ring(i).held = IF stored THEN kept(i) \cup {e} ELSE kept(i)
  BY <1>5
<1> HIDE DEF ring, ins, stored
<1>9. \E st \in BOOLEAN : st <=> stored
  OBVIOUS
<1> QED BY <1>4, <1>5, <1>6, <1>7, <1>8, <1>9

LEMMA TableOnceIn ==
  ASSUME RxInv, NEW i \in 0 .. Peers - 1
  PROVE  /\ \A e, f \in tbl[i].held : e.id = f.id => e = f
         /\ \A e \in tbl[i].held : AtTable(tbl, e.id) /\ e.id \in 1 .. arrived
                                   /\ ~AtKernel(kernel, e.id) /\ ~AtGame(given, e.id)
                                   /\ ~AtLost(lost, e.id)
<1>1. DOMAIN tbl = 0 .. Peers - 1 /\ TableOnce(tbl)
  BY TypeParts DEF RxInv, TableOK, Places, Placed
<1>2. \A e \in tbl[i].held : AtTable(tbl, e.id)
  BY <1>1 DEF AtTable
<1>3. \A e, f \in tbl[i].held : e.id = f.id => e = f
  BY <1>1 DEF TableOnce
<1> QED BY <1>2, <1>3, PlacedIn DEF RxInv, Places, Placed, AtOnePlace

LEMMA DrainDataOK == ASSUME RxInv, DrainData PROVE RxInv'
<1> DEFINE d == Packet.id
<1> DEFINE k == Packet.from
<1> DEFINE e == [id |-> d, seq |-> Packet.seq, age |-> 0]
<1> DEFINE kept(i) == IF tbl[i].key = k THEN tbl[i].held ELSE {}
<1> DEFINE gone(i) == IF tbl[i].key = k THEN {} ELSE tbl[i].held
<1>1. /\ Packet \in Packets /\ kernel' \in Kernels /\ KernelOnce(kernel')
      /\ \A n : Numbered(Packet, n) => AtKernel(kernel, n)
      /\ \A n : AtKernel(kernel', n) <=> AtKernel(kernel, n) /\ ~Numbered(Packet, n)
  BY DrainFacts DEF DrainData
<1>2. /\ TableOK(tbl) /\ Control /\ arrived \in Nat
      /\ given \in Seq(Handed(arrived)) /\ lost \subseteq Marked(arrived)
  BY TypeParts DEF RxInv
<1>3. /\ UNCHANGED << rr, wake, open, closes, arrived >> /\ Packet.kind = "data"
      /\ reorderSock' = game.sock /\ lastCall' = 0 /\ news' = TRUE /\ DrainGuard
  BY DEF DrainData
<1>4. \A n : Numbered(Packet, n) <=> n = d
  BY <1>3 DEF Numbered
<1>5. AtKernel(kernel, d)
  BY <1>1, <1>4
<1>6. /\ d \in 1 .. arrived /\ ~AtGame(given, d) /\ ~AtTable(tbl, d) /\ ~AtLost(lost, d)
      /\ Packet.seq \in Seqs
  BY <1>1, <1>3, <1>5, PlacedIn, PacketFacts DEF RxInv, Places, Placed, AtOnePlace
<1>7. PICK i \in 0 .. Peers - 1, ring \in Entry, stored \in BOOLEAN :
        /\ EntryOK(ring) /\ ring.key = k /\ Refilled(tbl, i, ring, tbl')
        /\ ring.held = IF stored THEN kept(i) \cup {e} ELSE kept(i)
        /\ tbl[i].key = k => SameCursor(tbl[i], ring)
        /\ Destroy(gone(i), "reclaimed")
        /\ stored => Continue /\ given' = given
        /\ ~stored => \E what \in {"stale", "duplicate"} : Deliver(d, what, Packet.seq, i)
  BY DrainDataFacts
<1>8. /\ \A x, y \in tbl[i].held : x.id = y.id => x = y
      /\ \A x \in tbl[i].held : AtTable(tbl, x.id) /\ x.id \in 1 .. arrived
                                /\ ~AtKernel(kernel, x.id) /\ ~AtGame(given, x.id)
                                /\ ~AtLost(lost, x.id)
  BY TableOnceIn
<1>9. /\ kept(i) \subseteq tbl[i].held /\ gone(i) \subseteq tbl[i].held
      /\ \A n : Holds(tbl[i].held, n) <=> Holds(kept(i), n) \/ Holds(gone(i), n)
      /\ \A n : ~(Holds(kept(i), n) /\ Holds(gone(i), n))
  BY DEF Holds
<1>10. \A n : Holds(ring.held, n) <=> Holds(kept(i), n) \/ (stored /\ n = d)
  <2>1. e.id = d
    OBVIOUS
  <2> HIDE DEF kept, e, d
  <2> QED BY <1>7, <2>1 DEF Holds
<1>11. TableOnce(tbl) /\ tbl \in [0 .. Peers - 1 -> Entry]
  BY <1>2 DEF RxInv, Places, Placed, TableOK
<1>12. /\ \A x, y \in ring.held : x.id = y.id => x = y
       /\ \A x \in ring.held : (\E f \in tbl[i].held : x.id = f.id) \/ ~AtTable(tbl, x.id)
  <2>1. e.id = d
    OBVIOUS
  <2>2. \A x \in ring.held : x = e \/ x \in tbl[i].held
    BY <1>7, <1>9
  <2>3. \A x \in tbl[i].held : x.id # d
    BY <1>6, <1>8
  <2> HIDE DEF e, d, kept
  <2> QED BY <1>6, <1>8, <2>1, <2>2, <2>3
<1> HIDE DEF kept, gone, e, d
<1>13. /\ TableOnce(tbl') /\ tbl' \in [0 .. Peers - 1 -> Entry]
       /\ \A n : AtTable(tbl', n) <=> Holds(ring.held, n)
                                      \/ (AtTable(tbl, n) /\ ~Holds(tbl[i].held, n))
  BY <1>7, <1>11, <1>12, TableChanges
<1>14. TableOK(tbl')
  BY <1>2, <1>7, <1>13 DEF TableOK, Refilled
<1>15. /\ lost' \subseteq Marked(arrived) /\ LostOnce(lost')
       /\ \A n : AtLost(lost', n) <=> AtLost(lost, n) \/ Holds(gone(i), n)
  <2>1. \A x \in gone(i) : x.id \in 1 .. arrived /\ ~AtLost(lost, x.id)
    BY <1>8, <1>9
  <2>2. "reclaimed" \in Ends
    BY DEF Ends
  <2> QED BY <1>7, <2>1, <2>2, DestroyFacts
<1>16. /\ given' \in Seq(Handed(arrived)) /\ GameOnce(given') /\ NothingEvicted'
       /\ \A n : AtGame(given', n) <=> AtGame(given, n) \/ (~stored /\ n = d)
       /\ game' \in [pc : {"idle", "drain", "pick"}, sock : Socks, n : 0 .. DrainCap]
  <2>1. CASE stored
    <3>1. given' = given /\ Continue
      BY <1>7, <2>1
    <3> QED BY <1>2, <1>3, <2>1, <3>1, ContinueType DEF RxInv, Places, Placed, NothingEvicted
  <2>2. CASE ~stored
    <3>1. PICK what \in {"stale", "duplicate"} : Deliver(d, what, Packet.seq, i)
      BY <1>7, <2>2
    <3>2. what \in Kinds \ {"evicted"}
      BY DEF Kinds
    <3> QED BY <1>6, <2>2, <3>1, <3>2, DeliverFacts
  <2> QED BY <2>1, <2>2
<1>17. TypeOK'
  <2>1. Control'
    BY <1>2, <1>3, <1>16 DEF Control
  <2> QED BY <1>1, <1>2, <1>3, <1>14, <1>15, <1>16, <2>1, TypePartsNext
<1>18. Places'
  <2>1. ASSUME NEW n
        PROVE  /\ n \in 1 .. arrived <=> Somewhere(kernel', tbl', given', lost', n)
               /\ AtOnePlace(kernel', tbl', given', lost', n)
    <3>1. Holds(tbl[i].held, n) => AtTable(tbl, n)
      BY <1>8 DEF Holds
    <3> QED BY <1>1, <1>4, <1>5, <1>6, <1>9, <1>10, <1>13, <1>15, <1>16, <3>1
            DEF RxInv, Places, Placed, Somewhere, AtOnePlace
  <2> QED BY <1>1, <1>3, <1>13, <1>15, <1>16, <2>1 DEF Places, Placed
<1> QED BY <1>16, <1>17, <1>18 DEF RxInv

LEMMA ReturnHeldFacts ==
  ASSUME RxInv, ReturnHeld
  PROVE  \E i \in 0 .. Peers - 1, ring \in Entry, e \in HeldData, gone \in SUBSET HeldData,
            kind \in {"first", "inOrder", "forced"} :
           /\ e \in tbl[i].held /\ EntryOK(ring) /\ Refilled(tbl, i, ring, tbl')
           /\ ring = TakeOut(tbl[i], e)
           /\ gone \subseteq tbl[i].held \ {e}
           /\ ring.held = (tbl[i].held \ {e}) \ gone
           /\ Deliver(e.id, kind, e.seq, i) /\ Destroy(gone, "purged")
           /\ tbl[i].key # NoKey /\ rr' = (i + 1) % Peers
<1>1. TableOK(tbl) /\ DOMAIN tbl = 0 .. Peers - 1
  BY TypeParts DEF RxInv, TableOK
<1> DEFINE rest(i, e) == [tbl[i] EXCEPT !.held = @ \ {e}]
<1> DEFINE gone(i, e) == Passed(rest(i, e), Cursor(rest(i, e), e.seq))
<1>2. PICK i \in NextReady(tbl, rr) : \E pick \in Pick(tbl[i]) :
        /\ tbl' = [tbl EXCEPT ![i] = TakeOut(@, pick.e)]
        /\ rr' = (i + 1) % Peers
        /\ Deliver(pick.e.id, pick.kind, pick.e.seq, i)
        /\ Destroy(gone(i, pick.e), "purged")
  BY Zenon DEF ReturnHeld
<1>3. PICK pick \in Pick(tbl[i]) :
        /\ tbl' = [tbl EXCEPT ![i] = TakeOut(@, pick.e)]
        /\ rr' = (i + 1) % Peers
        /\ Deliver(pick.e.id, pick.kind, pick.e.seq, i)
        /\ Destroy(gone(i, pick.e), "purged")
  BY <1>2
<1>4. i \in 0 .. Peers - 1 /\ tbl[i].key # NoKey /\ EntryOK(tbl[i])
  BY <1>1 DEF NextReady, TableOK
<1>5. pick.e \in tbl[i].held /\ pick.kind \in {"first", "inOrder", "forced"}
  BY PickIn
<1> DEFINE e == pick.e
<1> DEFINE ring == TakeOut(tbl[i], e)
<1>6. tbl[i].held \subseteq HeldData /\ e \in tbl[i].held
  BY <1>4, <1>5, EntryFields DEF EntryOK
<1>7. /\ EntryOK(ring) /\ rest(i, e).held = tbl[i].held \ {e}
      /\ ring.held = rest(i, e).held \ gone(i, e)
  BY <1>4, <1>6, TakeOutOK
<1>8. gone(i, e) \subseteq rest(i, e).held
  BY DEF Passed
<1>9. Refilled(tbl, i, ring, tbl')
  BY <1>3 DEF Refilled
<1>10. ring \in Entry
  BY <1>7 DEF EntryOK
<1>11. gone(i, e) \in SUBSET HeldData /\ gone(i, e) \subseteq tbl[i].held \ {e}
       /\ ring.held = (tbl[i].held \ {e}) \ gone(i, e) /\ e \in HeldData
  <2> HIDE DEF ring, gone, e, rest
  <2> QED BY <1>6, <1>7, <1>8
<1>12. Deliver(e.id, pick.kind, e.seq, i) /\ Destroy(gone(i, e), "purged")
       /\ rr' = (i + 1) % Peers
  BY <1>3
<1>13. ring = TakeOut(tbl[i], e)
  OBVIOUS
<1> HIDE DEF ring, gone, e
<1> QED BY <1>4, <1>5, <1>6, <1>7, <1>9, <1>10, <1>11, <1>12, <1>13

LEMMA ReturnHeldOK == ASSUME RxInv, ReturnHeld PROVE RxInv'
<1>1. /\ kernel \in Kernels /\ TableOK(tbl) /\ Control /\ arrived \in Nat
      /\ given \in Seq(Handed(arrived)) /\ lost \subseteq Marked(arrived)
  BY TypeParts DEF RxInv
<1>2. UNCHANGED << kernel, reorderSock, lastCall, news, wake, open, closes, arrived >>
  BY DEF ReturnHeld
<1>3. PICK i \in 0 .. Peers - 1, ring \in Entry, e \in HeldData, gone \in SUBSET HeldData,
           kind \in {"first", "inOrder", "forced"} :
           /\ e \in tbl[i].held /\ EntryOK(ring) /\ Refilled(tbl, i, ring, tbl')
           /\ ring = TakeOut(tbl[i], e)
           /\ gone \subseteq tbl[i].held \ {e}
           /\ ring.held = (tbl[i].held \ {e}) \ gone
           /\ Deliver(e.id, kind, e.seq, i) /\ Destroy(gone, "purged")
           /\ tbl[i].key # NoKey /\ rr' = (i + 1) % Peers
  BY ReturnHeldFacts
<1>4. /\ \A x, y \in tbl[i].held : x.id = y.id => x = y
      /\ \A x \in tbl[i].held : AtTable(tbl, x.id) /\ x.id \in 1 .. arrived
                                /\ ~AtKernel(kernel, x.id) /\ ~AtGame(given, x.id)
                                /\ ~AtLost(lost, x.id)
  BY TableOnceIn
<1>5. TableOnce(tbl) /\ tbl \in [0 .. Peers - 1 -> Entry]
  BY <1>1 DEF RxInv, Places, Placed, TableOK
<1>6. /\ TableOnce(tbl') /\ tbl' \in [0 .. Peers - 1 -> Entry]
      /\ \A n : AtTable(tbl', n) <=> Holds(ring.held, n)
                                     \/ (AtTable(tbl, n) /\ ~Holds(tbl[i].held, n))
  <2>1. /\ \A x, y \in ring.held : x.id = y.id => x = y
        /\ \A x \in ring.held : (\E f \in tbl[i].held : x.id = f.id) \/ ~AtTable(tbl, x.id)
    BY <1>3, <1>4
  <2> QED BY <1>3, <1>5, <2>1, TableChanges
<1>7. TableOK(tbl')
  BY <1>1, <1>3, <1>6 DEF TableOK, Refilled
<1>8. /\ lost' \subseteq Marked(arrived) /\ LostOnce(lost')
      /\ \A n : AtLost(lost', n) <=> AtLost(lost, n) \/ Holds(gone, n)
  <2>1. \A x \in gone : x.id \in 1 .. arrived /\ ~AtLost(lost, x.id)
    BY <1>3, <1>4
  <2>2. "purged" \in Ends
    BY DEF Ends
  <2> QED BY <1>3, <2>1, <2>2, DestroyFacts
<1>9. /\ given' \in Seq(Handed(arrived)) /\ GameOnce(given') /\ NothingEvicted'
      /\ \A n : AtGame(given', n) <=> AtGame(given, n) \/ n = e.id
      /\ game' \in [pc : {"idle", "drain", "pick"}, sock : Socks, n : 0 .. DrainCap]
  <2>1. kind \in Kinds \ {"evicted"} /\ e.seq \in Seqs
    BY DEF Kinds, HeldData
  <2>2. e.id \in 1 .. arrived /\ ~AtGame(given, e.id)
    BY <1>3, <1>4
  <2> QED BY <1>3, <2>1, <2>2, DeliverFacts
<1>10. /\ \A n : Holds(tbl[i].held, n) <=> Holds(ring.held, n) \/ Holds(gone, n) \/ n = e.id
       /\ \A n : ~(Holds(ring.held, n) /\ Holds(gone, n))
       /\ ~Holds(ring.held, e.id) /\ ~Holds(gone, e.id)
  <2>1. /\ ring.held \subseteq tbl[i].held /\ gone \subseteq tbl[i].held /\ e \in tbl[i].held
        /\ e \notin ring.held /\ e \notin gone
        /\ \A x \in ring.held : x \notin gone
        /\ \A x \in tbl[i].held : x \in ring.held \/ x \in gone \/ x = e
    BY <1>3
  <2>2. \A n : Holds(tbl[i].held, n) <=> Holds(ring.held, n) \/ Holds(gone, n) \/ n = e.id
    BY <2>1 DEF Holds
  <2>3. \A x, y \in tbl[i].held : x.id = y.id => x = y
    BY <1>4
  <2>4. \A n : ~(Holds(ring.held, n) /\ Holds(gone, n))
    BY <2>1, <2>3 DEF Holds
  <2>5. ~Holds(ring.held, e.id) /\ ~Holds(gone, e.id)
    BY <2>1, <2>3 DEF Holds
  <2> QED BY <2>2, <2>4, <2>5
<1>11. TypeOK'
  <2>1. rr' \in 0 .. Peers - 1
    BY <1>3
  <2>2. Control'
    BY <1>1, <1>2, <1>9, <2>1 DEF Control
  <2> QED BY <1>1, <1>2, <1>7, <1>8, <1>9, <2>2, TypePartsNext
<1>12. Places'
  <2>1. ASSUME NEW n
        PROVE  /\ n \in 1 .. arrived <=> Somewhere(kernel', tbl', given', lost', n)
               /\ AtOnePlace(kernel', tbl', given', lost', n)
    <3>1. Holds(tbl[i].held, n) => AtTable(tbl, n)
      BY <1>4 DEF Holds
    <3> QED BY <1>2, <1>6, <1>8, <1>9, <1>10, <3>1
            DEF RxInv, Places, Placed, Somewhere, AtOnePlace
  <2> QED BY <1>2, <1>6, <1>8, <1>9, <2>1 DEF RxInv, Places, Placed
<1> QED BY <1>9, <1>11, <1>12 DEF RxInv

LEMMA PollOK == ASSUME RxInv, NEW s \in Socks, Poll(s) PROVE RxInv'
<1>1. Control
  BY TypeParts DEF RxInv
<1>2. Control'
  <2>1. game' \in [pc : {"idle", "drain", "pick"}, sock : Socks, n : 0 .. DrainCap]
    BY DEF Poll
  <2>2. lastCall' \in 0 .. WakeIdle /\ news' \in BOOLEAN
    BY <1>1 DEF Poll, Control
  <2> QED BY <1>1, <2>1, <2>2 DEF Poll, Control
<1> QED BY <1>2, QuietOK DEF Poll, history

LEMMA DrainEndOK == ASSUME RxInv, DrainEnd PROVE RxInv'
<1>1. Control
  BY TypeParts DEF RxInv
<1>2. Control'
  <2>1. game' \in [pc : {"idle", "drain", "pick"}, sock : Socks, n : 0 .. DrainCap]
    BY <1>1 DEF DrainEnd, Control
  <2> QED BY <1>1, <2>1 DEF DrainEnd, Control
<1> QED BY <1>2, QuietOK DEF DrainEnd, history

LEMMA ReturnEmptyOK == ASSUME RxInv, ReturnEmpty PROVE RxInv'
<1>1. Control
  BY TypeParts DEF RxInv
<1>2. Control'
  <2>1. game' \in [pc : {"idle", "drain", "pick"}, sock : Socks, n : 0 .. DrainCap]
    BY <1>1, IdleType DEF ReturnEmpty, Control
  <2> QED BY <1>1, <2>1 DEF ReturnEmpty, Control
<1> QED BY <1>2, QuietOK DEF ReturnEmpty, history

LEMMA WakeLookOK == ASSUME RxInv, WakeLook PROVE RxInv'
<1>1. Control
  BY TypeParts DEF RxInv
<1>2. Control'
  <2>1. wake' \in [pc : {"sleep", "send"}, target : Socks \cup {"none"},
                   last : 0 .. WakeIdle, news : BOOLEAN, burst : 0 .. WakeCap]
    BY <1>1 DEF WakeLook, Control
  <2>2. news' \in BOOLEAN
    BY DEF WakeLook
  <2>3. UNCHANGED << rr, reorderSock, lastCall, game, open, closes >>
    BY DEF WakeLook
  <2> QED BY <1>1, <2>1, <2>2, <2>3 DEF Control
<1> QED BY <1>2, QuietOK DEF WakeLook, history

LEMMA ReopenOK == ASSUME RxInv, NEW s \in Socks, Reopen(s) PROVE RxInv'
<1>1. Control
  BY TypeParts DEF RxInv
<1>2. Control'
  BY <1>1 DEF Reopen, Control
<1> QED BY <1>2, QuietOK DEF Reopen, history

LEMMA WakeSendOK == ASSUME RxInv, WakeSend PROVE RxInv'
<1>1. /\ kernel \in Kernels /\ TableOK(tbl) /\ Control /\ arrived \in Nat
      /\ given \in Seq(Handed(arrived)) /\ lost \subseteq Marked(arrived)
  BY TypeParts DEF RxInv
<1> DEFINE m == [kind |-> "wake"]
<1> DEFINE busy  == wake.last < WakeIdle
<1> DEFINE burst == IF wake.news THEN 0 ELSE wake.burst
<1> DEFINE send  == ~busy /\ burst < WakeCap /\ wake.target \in open
<1>2. UNCHANGED << tbl, rr, reorderSock, lastCall, game, open, closes, arrived, given, lost >>
  BY DEF WakeSend, history
<1>3. /\ kernel' \in Kernels /\ KernelOnce(kernel')
      /\ \A n : AtKernel(kernel', n) <=> AtKernel(kernel, n)
  <2>1. KernelOnce(kernel)
    BY DEF RxInv, Places, Placed
  <2>2. CASE kernel' = kernel
    BY <1>1, <2>1, <2>2
  <2>3. CASE Pushed(kernel, wake.target, m, kernel') /\ wake.target \in Socks
    <3>1. m \in Packets /\ \A n : ~Numbered(m, n)
      BY DEF Packets, Numbered
    <3> HIDE DEF m
    <3> QED BY <1>1, <2>1, <2>3, <3>1, KernelGrows
  <2>4. kernel' = kernel \/ (Pushed(kernel, wake.target, m, kernel') /\ wake.target \in open)
    BY DEF WakeSend, Pushed
  <2> QED BY <1>1, <2>2, <2>3, <2>4 DEF Control
<1>4. Control'
  <2>1. /\ wake.burst \in 0 .. WakeCap /\ wake.last \in 0 .. WakeIdle
        /\ wake.news \in BOOLEAN /\ news \in BOOLEAN
    BY <1>1 DEF Control
  <2>2. (IF busy THEN wake.burst ELSE IF send THEN burst + 1 ELSE burst) \in 0 .. WakeCap
    BY <2>1
  <2>3. wake' = [pc |-> "sleep", target |-> "none", last |-> 0, news |-> FALSE,
                 burst |-> IF busy THEN wake.burst ELSE IF send THEN burst + 1 ELSE burst]
    BY DEF WakeSend
  <2>4. wake' \in [pc : {"sleep", "send"}, target : Socks \cup {"none"},
                   last : 0 .. WakeIdle, news : BOOLEAN, burst : 0 .. WakeCap]
    BY <2>2, <2>3
  <2>5. news' \in BOOLEAN
    BY DEF WakeSend
  <2> QED BY <1>1, <1>2, <2>4, <2>5 DEF Control
<1>5. TypeOK'
  BY <1>1, <1>2, <1>3, <1>4, TypePartsNext
<1>6. Places'
  BY <1>2, <1>3 DEF RxInv, Places, Placed, Somewhere, AtOnePlace
<1>7. NothingEvicted'
  BY <1>2 DEF RxInv, NothingEvicted
<1> QED BY <1>5, <1>6, <1>7 DEF RxInv

LEMMA EmptyTable ==
  /\ TableOK(NoPeers) /\ TableOnce(NoPeers) /\ \A n : ~AtTable(NoPeers, n)
<1>1. EntryOK(NoPeer) /\ NoPeer.held = {} /\ NoPeer \in Entry
  BY NewPeerOK, NewPeerIs DEF NoPeer
<1>2. TableOK(NoPeers) /\ DOMAIN NoPeers = 0 .. Peers - 1
      /\ \A i \in 0 .. Peers - 1 : NoPeers[i].held = {}
  BY <1>1 DEF NoPeers, TableOK
<1> QED BY <1>2 DEF TableOnce, AtTable

LEMMA CloseOK == ASSUME RxInv, NEW s \in Socks, Close(s) PROVE RxInv'
<1>1. /\ kernel \in Kernels /\ TableOK(tbl) /\ Control /\ arrived \in Nat
      /\ given \in Seq(Handed(arrived)) /\ lost \subseteq Marked(arrived)
  BY TypeParts DEF RxInv
<1> DEFINE S == UNION {tbl[i].held : i \in DOMAIN tbl}
<1> DEFINE J == {j \in DOMAIN kernel[s] : kernel[s][j].kind # "wake"}
<1> DEFINE Q == {kernel[s][j] : j \in J}
<1> DEFINE mid == lost \cup {[id |-> e.id, how |-> "reset"] : e \in S}
<1>2. /\ UNCHANGED << lastCall, news, game, wake, arrived, given >>
      /\ Cleared(kernel, s, kernel') /\ tbl' = NoPeers /\ rr' = 0
      /\ closes' = closes + 1 /\ open' = open \ {s}
      /\ reorderSock' = IF reorderSock = s THEN "none" ELSE reorderSock
  BY DEF Close, Cleared
<1>3. Destroyed(lost, S, "reset", mid) /\ Destroyed(mid, Q, "closed", lost')
  <2>1. lost' = mid \cup {[id |-> kernel[s][j].id, how |-> "closed"] : j \in J}
    BY DEF Close
  <2>2. {[id |-> kernel[s][j].id, how |-> "closed"] : j \in J}
          = {[id |-> e.id, how |-> "closed"] : e \in Q}
    OBVIOUS
  <2> QED BY <2>1, <2>2 DEF Destroyed
<1>4. \A n : Holds(S, n) <=> AtTable(tbl, n)
  BY DEF Holds, AtTable
<1>5. \A n : Holds(Q, n) <=> \E j \in DOMAIN kernel[s] : Numbered(kernel[s][j], n)
  BY DEF Holds, Numbered
<1>6. KernelOnce(kernel) /\ LostOnce(lost)
  BY DEF RxInv, Places, Placed
<1>7. /\ kernel' \in Kernels /\ KernelOnce(kernel')
      /\ \A n : AtKernel(kernel', n) <=> AtKernel(kernel, n) /\ ~Holds(Q, n)
  <2> HIDE DEF Q
  <2> QED BY <1>1, <1>2, <1>5, <1>6, KernelCleared
<1>8. \A n : Holds(Q, n) => AtKernel(kernel, n)
  <2> HIDE DEF Q
  <2> QED BY <1>5 DEF AtKernel
<1> HIDE DEF S, J, Q, mid
<1>9. \A e \in S : AtTable(tbl, e.id)
  BY <1>4 DEF Holds
<1>10. \A e \in Q : AtKernel(kernel, e.id)
  BY <1>8 DEF Holds
<1>11. "reset" \in Ends /\ "closed" \in Ends
  BY DEF Ends
<1>12. /\ mid \subseteq Marked(arrived) /\ LostOnce(mid)
       /\ \A n : AtLost(mid, n) <=> AtLost(lost, n) \/ Holds(S, n)
  <2>1. \A e \in S : e.id \in 1 .. arrived /\ ~AtLost(lost, e.id)
    BY <1>9, PlacedIn DEF RxInv, Places, Placed, AtOnePlace
  <2>2. mid \subseteq Marked(arrived)
    BY <1>1, <1>3, <1>11, <2>1, DestroyType
  <2> QED BY <1>3, <1>6, <2>1, <2>2, LostGrows DEF Holds
<1>13. /\ lost' \subseteq Marked(arrived) /\ LostOnce(lost')
       /\ \A n : AtLost(lost', n) <=> AtLost(mid, n) \/ Holds(Q, n)
  <2>1. \A e \in Q : e.id \in 1 .. arrived /\ ~AtLost(lost, e.id) /\ ~AtTable(tbl, e.id)
    BY <1>10, PlacedIn DEF RxInv, Places, Placed, AtOnePlace
  <2>2. \A e \in Q : ~AtLost(mid, e.id)
    BY <1>4, <1>12, <2>1
  <2>3. lost' \subseteq Marked(arrived)
    BY <1>3, <1>11, <1>12, <2>1, DestroyType
  <2> QED BY <1>3, <1>12, <2>2, <2>3, LostGrows DEF Holds
<1>14. TypeOK'
  <2>1. Control'
    BY <1>1, <1>2 DEF Control
  <2> QED BY <1>1, <1>2, <1>7, <1>13, <2>1, EmptyTable, TypePartsNext
<1>15. Places'
  <2>1. ASSUME NEW n
        PROVE  /\ n \in 1 .. arrived <=> Somewhere(kernel', tbl', given', lost', n)
               /\ AtOnePlace(kernel', tbl', given', lost', n)
    BY <1>2, <1>4, <1>7, <1>8, <1>12, <1>13, EmptyTable
       DEF RxInv, Places, Placed, Somewhere, AtOnePlace
  <2> QED BY <1>2, <1>7, <1>13, <2>1, EmptyTable DEF RxInv, Places, Placed
<1>16. NothingEvicted'
  BY <1>2 DEF RxInv, NothingEvicted
<1> QED BY <1>14, <1>15, <1>16 DEF RxInv

LEMMA TickOK == ASSUME RxInv, Tick PROVE RxInv'
<1>1. /\ kernel \in Kernels /\ TableOK(tbl) /\ Control /\ arrived \in Nat
      /\ given \in Seq(Handed(arrived)) /\ lost \subseteq Marked(arrived)
      /\ DOMAIN tbl = 0 .. Peers - 1
  BY TypeParts DEF RxInv, TableOK
<1>2. UNCHANGED << kernel, rr, reorderSock, news, game, open, closes, arrived, given, lost >>
  BY DEF Tick, history
<1>3. TableOnce(tbl)
  BY DEF RxInv, Places, Placed
<1>4. tbl' = [i \in DOMAIN tbl |-> IF tbl[i].key = NoKey THEN tbl[i] ELSE Aged(tbl[i])]
  BY DEF Tick
<1>5. ASSUME NEW i \in 0 .. Peers - 1
      PROVE  /\ EntryOK(tbl'[i])
             /\ \A n : Holds(tbl'[i].held, n) <=> Holds(tbl[i].held, n)
             /\ \A e, f \in tbl'[i].held : e.id = f.id => e = f
  <2>1. EntryOK(tbl[i]) /\ \A e, f \in tbl[i].held : e.id = f.id => e = f
    BY <1>1, <1>3 DEF TableOK, TableOnce
  <2>2. CASE tbl[i].key = NoKey
    BY <1>1, <1>4, <2>1, <2>2
  <2>3. CASE tbl[i].key # NoKey
    <3>1. tbl'[i] = Aged(tbl[i])
      BY <1>1, <1>4, <2>3
    <3>2. /\ EntryOK(Aged(tbl[i]))
          /\ \A n : (\E e \in Aged(tbl[i]).held : e.id = n) <=> (\E e \in tbl[i].held : e.id = n)
          /\ \A e, f \in Aged(tbl[i]).held : e.id = f.id => e = f
      BY <2>1, <2>3, AgedOK
    <3> QED BY <3>1, <3>2 DEF Holds
  <2> QED BY <2>2, <2>3
<1>6. DOMAIN tbl' = 0 .. Peers - 1 /\ TableOK(tbl')
  <2>1. tbl' = [i \in 0 .. Peers - 1 |-> tbl'[i]]
    BY <1>1, <1>4
  <2>2. \A i \in 0 .. Peers - 1 : tbl'[i] \in Entry
    BY <1>5 DEF EntryOK
  <2>3. tbl' \in [0 .. Peers - 1 -> Entry]
    BY <2>1, <2>2
  <2> QED BY <1>5, <2>3 DEF TableOK
<1>7. \A n : AtTable(tbl', n) <=> AtTable(tbl, n)
  <2>1. \A n : AtTable(tbl, n) <=> \E i \in 0 .. Peers - 1 : Holds(tbl[i].held, n)
    BY <1>1 DEF AtTable, Holds
  <2>2. \A n : AtTable(tbl', n) <=> \E i \in 0 .. Peers - 1 : Holds(tbl'[i].held, n)
    BY <1>6 DEF AtTable, Holds
  <2> QED BY <1>5, <2>1, <2>2
<1>8. TableOnce(tbl')
  <2> SUFFICES ASSUME NEW i \in 0 .. Peers - 1, NEW j \in 0 .. Peers - 1,
                      NEW e \in tbl'[i].held, NEW f \in tbl'[j].held, e.id = f.id
               PROVE  i = j /\ e = f
    BY <1>6 DEF TableOnce
  <2>1. Holds(tbl[i].held, e.id) /\ Holds(tbl[j].held, e.id)
    BY <1>5 DEF Holds
  <2>2. i = j
    BY <1>1, <1>3, <2>1 DEF Holds, TableOnce
  <2> QED BY <1>5, <2>2
<1>9. Control'
  <2>1. lastCall' \in 0 .. WakeIdle
    BY <1>1, LeastType DEF Tick, Control
  <2>2. wake' \in [pc : {"sleep", "send"}, target : Socks \cup {"none"},
                   last : 0 .. WakeIdle, news : BOOLEAN, burst : 0 .. WakeCap]
    <3>1. Least(wake.last + 1, WakeIdle) \in 0 .. WakeIdle
      BY <1>1, LeastType DEF Control
    <3> QED BY <1>1, <3>1 DEF Tick, Control
  <2> QED BY <1>1, <1>2, <2>1, <2>2 DEF Control
<1>10. TypeOK'
  BY <1>1, <1>2, <1>6, <1>9, TypePartsNext
<1>11. Places'
  BY <1>2, <1>7, <1>8 DEF RxInv, Places, Placed, Somewhere, AtOnePlace
<1>12. NothingEvicted'
  BY <1>2 DEF RxInv, NothingEvicted
<1> QED BY <1>10, <1>11, <1>12 DEF RxInv

LEMMA StepOK == RxInv /\ [Next]_vars => RxInv'
<1> SUFFICES ASSUME RxInv, [Next]_vars PROVE RxInv'
  OBVIOUS
<1>1. CASE \E s \in Socks, k \in Froms, q \in Numbers : Arrive(s, "data", k, q)
  <2>1. PICK s \in Socks, k \in Froms, q \in Numbers : Arrive(s, "data", k, q)
    BY <1>1
  <2> QED BY <2>1, ArriveOK
<1>2. CASE \E s \in Socks, kind \in {"short", "big", "empty"} :
             Arrive(s, kind, CHOOSE k \in Froms : TRUE, 0)
  <2>1. PICK s \in Socks, kind \in {"short", "big", "empty"} :
             Arrive(s, kind, CHOOSE k \in Froms : TRUE, 0)
    BY <1>2
  <2> DEFINE k == CHOOSE k \in Froms : TRUE
  <2> HIDE DEF k
  <2>2. Arrive(s, kind, k, 0)
    BY <2>1 DEF k
  <2> QED BY <2>2, ArriveOK
<1>3. CASE \E s \in Socks : Poll(s)
  BY <1>3, PollOK
<1>4. CASE DrainOther \/ DrainEmpty \/ DrainBypass \/ DrainData \/ DrainEnd
  BY <1>4, DrainOtherOK, DrainEmptyOK, DrainBypassOK, DrainDataOK, DrainEndOK
<1>5. CASE ReturnHeld \/ ReturnEmpty
  BY <1>5, ReturnHeldOK, ReturnEmptyOK
<1>6. CASE WakeLook \/ WakeSend
  BY <1>6, WakeLookOK, WakeSendOK
<1>7. CASE \E s \in Socks : Close(s) \/ Reopen(s)
  BY <1>7, CloseOK, ReopenOK
<1>8. CASE Tick
  BY <1>8, TickOK
<1>9. CASE UNCHANGED vars
  <2>1. Control'
    BY <1>9, TypeParts DEF vars, Control, RxInv
  <2> QED BY <1>9, <2>1, QuietOK DEF vars
<1> QED BY <1>1, <1>2, <1>3, <1>4, <1>5, <1>6, <1>7, <1>8, <1>9 DEF Next

\* The invariant holds in every reachable state.
THEOREM Invariance == Safety => []RxInv
BY InitOK, StepOK, PTL DEF Safety

\* Every variable of the receive path has its type, and every ring is well
\* formed: no more datagrams than slots, no sequence twice, nothing in a free
\* entry.
THEOREM TypeCorrect == Safety => []TypeOK
<1>1. RxInv => TypeOK
  BY DEF RxInv
<1> QED BY <1>1, Invariance, PTL

\* A full ring never gives a datagram up: the drain stops before the ring that
\* it would have to evict from is filled.
THEOREM DrainLeavesRoom == Safety => []NothingEvicted
<1>1. RxInv => NothingEvicted
  BY DEF RxInv
<1> QED BY <1>1, Invariance, PTL

-----------------------------------------------------------------------------
(* The places, counted *)

LEMMA LostCounted ==
  ASSUME LostOnce(lost), IsFiniteSet(LostIds)
  PROVE  Cardinality(lost) = Cardinality(LostIds) /\ IsFiniteSet(lost)
<1> DEFINE F == [x \in lost |-> x.id]
<1>1. \A x \in lost : x.id \in LostIds
  BY DEF LostIds
<1>2. F \in [lost -> LostIds] /\ \A x \in lost : F[x] = x.id
  BY <1>1
<1>3. \A y \in LostIds : \E x \in lost : F[x] = y
  BY <1>2 DEF LostIds
<1>4. \A x, y \in lost : F[x] = F[y] => x = y
  BY <1>2 DEF LostOnce
<1> HIDE DEF F
<1>5. F \in Injection(lost, LostIds) /\ F \in Surjection(lost, LostIds)
  BY <1>2, <1>3, <1>4 DEF Injection, Surjection, IsInjective
<1> QED BY <1>5, FS_Injection

LEMMA GivenCounted ==
  ASSUME GameOnce(given), Len(given) \in Nat, DOMAIN given = 1 .. Len(given)
  PROVE  Cardinality(GivenIds) = Len(given) /\ IsFiniteSet(GivenIds)
<1> DEFINE F == [j \in DOMAIN given |-> given[j].id]
<1>1. \A j \in DOMAIN given : given[j].id \in GivenIds
  BY DEF GivenIds
<1>2. F \in [DOMAIN given -> GivenIds] /\ \A j \in DOMAIN given : F[j] = given[j].id
  BY <1>1
<1>3. \A y \in GivenIds : \E j \in DOMAIN given : F[j] = y
  BY <1>2 DEF GivenIds
<1>4. \A i, j \in DOMAIN given : F[i] = F[j] => i = j
  BY <1>2 DEF GameOnce
<1> HIDE DEF F
<1>5. F \in Injection(DOMAIN given, GivenIds) /\ F \in Surjection(DOMAIN given, GivenIds)
  BY <1>2, <1>3, <1>4 DEF Injection, Surjection, IsInjective
<1>6. IsFiniteSet(DOMAIN given) /\ Cardinality(DOMAIN given) = Len(given)
  <2> DEFINE m == Len(given)
  <2>1. m \in Nat /\ DOMAIN given = 1 .. m
    OBVIOUS
  <2> HIDE DEF m
  <2>2. IsFiniteSet(1 .. m) /\ Cardinality(1 .. m) = IF 1 > m THEN 0 ELSE m - 1 + 1
    BY <2>1, FS_Interval
  <2>3. IsFiniteSet(1 .. m) /\ Cardinality(1 .. m) = m
    BY <2>1, <2>2
  <2> QED BY <2>1, <2>3 DEF m
<1> QED BY <1>5, <1>6, FS_Surjection

LEMMA OnePlace == RxInv => EachInOnePlace
<1> SUFFICES ASSUME RxInv PROVE EachInOnePlace
  OBVIOUS
<1>1. /\ arrived \in Nat /\ given \in Seq(Handed(arrived))
      /\ KernelOnce(kernel) /\ GameOnce(given) /\ LostOnce(lost)
  BY TypeParts DEF RxInv, Places, Placed
<1>2. /\ \A n : n \in KernelIds <=> AtKernel(kernel, n)
      /\ \A n : n \in HeldIds <=> AtTable(tbl, n)
      /\ \A n : n \in GivenIds <=> AtGame(given, n)
      /\ \A n : n \in LostIds <=> AtLost(lost, n)
  <2>1. \A n : n \in KernelIds <=> AtKernel(kernel, n)
    BY DEF KernelIds, AtKernel, Numbered
  <2>2. \A n : n \in HeldIds <=> AtTable(tbl, n)
    BY DEF HeldIds, AtTable
  <2>3. \A n : n \in GivenIds <=> AtGame(given, n)
    BY DEF GivenIds, AtGame
  <2>4. \A n : n \in LostIds <=> AtLost(lost, n)
    BY DEF LostIds, AtLost
  <2> QED BY <2>1, <2>2, <2>3, <2>4
<1>3. KernelIds \cup HeldIds \cup GivenIds \cup LostIds = 1 .. arrived
  BY <1>2 DEF RxInv, Places, Placed, Somewhere
<1>4. /\ KernelIds \cap HeldIds = {} /\ (KernelIds \cup HeldIds) \cap GivenIds = {}
      /\ (KernelIds \cup HeldIds \cup GivenIds) \cap LostIds = {}
  BY <1>2 DEF RxInv, Places, Placed, AtOnePlace
<1>5. IsFiniteSet(1 .. arrived) /\ Cardinality(1 .. arrived) = arrived
  BY <1>1, FS_Interval
<1>6. /\ IsFiniteSet(KernelIds) /\ IsFiniteSet(HeldIds) /\ IsFiniteSet(GivenIds)
      /\ IsFiniteSet(LostIds)
  BY <1>3, <1>5, FS_Subset
<1>7. Cardinality(GivenIds) = Len(given)
  BY <1>1, LenProperties, GivenCounted
<1>8. Cardinality(lost) = Cardinality(LostIds)
  BY <1>1, <1>6, LostCounted
<1>9. /\ Cardinality(KernelIds) \in Nat /\ Cardinality(HeldIds) \in Nat
      /\ Cardinality(GivenIds) \in Nat /\ Cardinality(LostIds) \in Nat
  BY <1>6, FS_CardinalityType
<1> DEFINE A == KernelIds \cup HeldIds
<1> DEFINE B == A \cup GivenIds
<1>10. IsFiniteSet(A) /\ Cardinality(A) = Cardinality(KernelIds) + Cardinality(HeldIds)
  BY <1>4, <1>6, DisjointSum
<1>11. IsFiniteSet(B) /\ Cardinality(B) = Cardinality(A) + Cardinality(GivenIds)
  <2>1. A \cap GivenIds = {}
    BY <1>4
  <2> HIDE DEF A
  <2> QED BY <2>1, <1>6, <1>10, DisjointSum
<1>12. Cardinality(B \cup LostIds) = Cardinality(B) + Cardinality(LostIds)
  <2>1. B \cap LostIds = {}
    BY <1>4
  <2> HIDE DEF B
  <2> QED BY <2>1, <1>6, <1>11, DisjointSum
<1>13. B \cup LostIds = 1 .. arrived
  BY <1>3
<1> HIDE DEF A, B
<1> QED BY <1>3, <1>5, <1>7, <1>8, <1>9, <1>10, <1>11, <1>12, <1>13 DEF EachInOnePlace

\* No datagram the kernel accepted disappears or is handed over twice: in every
\* reachable state each is in the kernel's buffer, in a ring, with the game or
\* in the account of what was destroyed, and in one of them only.
THEOREM NothingLost == Safety => []EachInOnePlace
BY OnePlace, Invariance, PTL

-----------------------------------------------------------------------------
(* The order of the releases *)

LEMMA OrderStep ==
  ASSUME RxInv, [Next]_vars
  PROVE  [\A i \in DOMAIN tbl :
            /\ tbl[i].init /\ tbl'[i].init /\ tbl'[i].key = tbl[i].key
            /\ tbl'[i].last # tbl[i].last
            => /\ SeqCmp(tbl'[i].last, tbl[i].last) > 0
               /\ \A e \in tbl'[i].held : SeqCmp(e.seq, tbl'[i].last) > 0]_vars
<1> SUFFICES ASSUME NEW i \in DOMAIN tbl, tbl[i].init, tbl'[i].init, tbl'[i].key = tbl[i].key,
                    tbl'[i].last # tbl[i].last
             PROVE  /\ SeqCmp(tbl'[i].last, tbl[i].last) > 0
                    /\ \A e \in tbl'[i].held : SeqCmp(e.seq, tbl'[i].last) > 0
  OBVIOUS
<1>1. TableOK(tbl) /\ DOMAIN tbl = 0 .. Peers - 1 /\ i \in 0 .. Peers - 1
      /\ tbl \in [0 .. Peers - 1 -> Entry]
  BY TypeParts DEF RxInv, TableOK
<1>2. tbl' # tbl
  OBVIOUS
<1>3. DrainData \/ ReturnHeld \/ Tick \/ \E s \in Socks : Close(s)
  BY <1>2 DEF Next, vars, Arrive, Poll, DrainOther, DrainEmpty, DrainBypass, DrainEnd, ReturnEmpty,
              WakeLook, WakeSend, Reopen
<1>4. CASE DrainData
  <2>1. PICK j \in 0 .. Peers - 1, ring \in Entry :
          /\ ring.key = Packet.from /\ Refilled(tbl, j, ring, tbl')
          /\ tbl[j].key = Packet.from => SameCursor(tbl[j], ring)
    BY <1>4, DrainDataFacts
  <2>2. tbl'[j] = ring /\ \A x \in 0 .. Peers - 1 : x # j => tbl'[x] = tbl[x]
    BY <1>1, <2>1 DEF Refilled
  <2> QED BY <1>1, <2>1, <2>2 DEF SameCursor
<1>5. CASE ReturnHeld
  <2>1. PICK j \in 0 .. Peers - 1, ring \in Entry, e \in HeldData :
          /\ e \in tbl[j].held /\ Refilled(tbl, j, ring, tbl')
          /\ ring = TakeOut(tbl[j], e) /\ tbl[j].key # NoKey
    BY <1>5, ReturnHeldFacts
  <2>2. tbl'[j] = ring /\ \A x \in 0 .. Peers - 1 : x # j => tbl'[x] = tbl[x]
    BY <1>1, <2>1 DEF Refilled
  <2>3. i = j
    BY <1>1, <2>2
  <2>4. EntryOK(tbl[j])
    BY <1>1 DEF TableOK
  <2>5. /\ tbl[j].init => ring.last = tbl[j].last \/ SeqCmp(ring.last, tbl[j].last) > 0
        /\ \A f \in ring.held : SeqCmp(f.seq, ring.last) > 0
    BY <2>1, <2>4, TakeOutOK
  <2> QED BY <2>2, <2>3, <2>5
<1>6. CASE Tick
  <2>1. tbl'[i] = IF tbl[i].key = NoKey THEN tbl[i] ELSE Aged(tbl[i])
    BY <1>1, <1>6 DEF Tick
  <2>2. EntryOK(tbl[i])
    BY <1>1 DEF TableOK
  <2>3. tbl'[i].last = tbl[i].last
    BY <2>1, <2>2, AgedOK DEF SameCursor
  <2> QED BY <2>3
<1>7. CASE \E s \in Socks : Close(s)
  <2>1. tbl'[i] = NoPeer
    BY <1>1, <1>7 DEF Close, NoPeers
  <2>2. ~NoPeer.init
    BY NewPeerIs DEF NoPeer
  <2> QED BY <2>1, <2>2
<1> QED BY <1>3, <1>4, <1>5, <1>6, <1>7

\* The cursor of a peer never walks backwards while the peer keeps its entry,
\* and when it moves, everything still held is ahead of it: what the game gets
\* out of a ring comes in the order of the protocol's counter.
THEOREM InOrder == Safety => ReleasesInOrder
<1>1. RxInv /\ [Next]_vars =>
        [\A i \in DOMAIN tbl :
            /\ tbl[i].init /\ tbl'[i].init /\ tbl'[i].key = tbl[i].key
            /\ tbl'[i].last # tbl[i].last
            => /\ SeqCmp(tbl'[i].last, tbl[i].last) > 0
               /\ \A e \in tbl'[i].held : SeqCmp(e.seq, tbl'[i].last) > 0]_vars
  BY OrderStep
<1> QED BY <1>1, Invariance, PTL DEF Safety, ReleasesInOrder

-----------------------------------------------------------------------------
(* An empty answer *)

LEMMA PickEmpty ==
  ASSUME NEW p, EntryOK(p), Pick(p) = {}, NEW e \in p.held
  PROVE  p.init /\ e.seq # SeqNext(p.last) /\ e.age < Hold(p)
<1> DEFINE next  == {f \in p.held : f.seq = SeqNext(p.last)}
<1> DEFINE aged  == {f \in p.held : f.age >= Hold(p)}
<1> DEFINE ahead == {f \in aged : SeqCmp(f.seq, SeqNext(p.last)) >= 0}
<1> DEFINE Nearest(S) == {f \in S : \A g \in S : SeqCmp(f.seq, g.seq) <= 0}
<1> DEFINE Eldest(S)  == {f \in S : \A g \in S : f.age >= g.age}
<1> DEFINE Lowest(S) == IF Nearest(S) # {} THEN Nearest(S) ELSE S
<1> DEFINE As(kind, S) == {[kind |-> kind, e |-> f] : f \in S}
<1>1. p \in Entry /\ p.held \subseteq HeldData /\ p.last \in Seqs /\ p.win \in WinMin .. WinMax
  BY EntryFields DEF EntryOK
<1>2. Pick(p) = IF ~p.init THEN As("first", Lowest(p.held))
                ELSE IF next # {} THEN As("inOrder", next)
                ELSE IF ahead # {} THEN As("forced", Nearest(ahead))
                ELSE As("forced", Eldest(aged))
  BY DEF Pick
<1>3. \A kind, S : As(kind, S) = {} => S = {}
  <2> SUFFICES ASSUME NEW kind, NEW S, NEW x \in S PROVE As(kind, S) # {}
    OBVIOUS
  <2>1. [kind |-> kind, e |-> x] \in As(kind, S)
    OBVIOUS
  <2> QED BY <2>1
<1>4. p.init
  <2>1. Lowest(p.held) # {}
    OBVIOUS
  <2> HIDE DEF Lowest, As
  <2> QED BY <1>2, <1>3, <2>1
<1>5. next = {}
  <2> HIDE DEF next, As
  <2> QED BY <1>2, <1>3, <1>4
<1>6. ahead = {}
  <2> SUFFICES ASSUME ahead # {} PROVE Nearest(ahead) # {}
    <3> HIDE DEF ahead, next, As, Nearest
    <3> QED BY <1>2, <1>3, <1>4, <1>5
  <2> DEFINE start == SeqNext(p.last)
  <2> DEFINE D == {SeqCmp(f.seq, start) : f \in ahead}
  <2>1. start \in Seqs
    BY <1>1, SeqNextType
  <2>2. \A f \in ahead : f.seq \in Seqs /\ SeqCmp(f.seq, start) >= 0
    BY <1>1 DEF HeldData
  <2> HIDE DEF ahead, start
  <2>3. \A f \in ahead : SeqCmp(f.seq, start) \in Nat
    <3>1. \A f \in ahead : SeqCmp(f.seq, start) \in Int
      BY <2>1, <2>2, SeqCmpType
    <3> QED BY <2>2, <3>1
  <2>4. D \subseteq Nat /\ D # {}
    BY <2>3
  <2>5. PICK d \in D : \A x \in D : d <= x
    <3> HIDE DEF D
    <3> QED BY <2>4, LeastOfNats
  <2>6. PICK f \in ahead : d = SeqCmp(f.seq, start)
    OBVIOUS
  <2>7. ASSUME NEW g \in ahead PROVE SeqCmp(f.seq, g.seq) <= 0
    <3>1. SeqCmp(f.seq, start) <= SeqCmp(g.seq, start)
      BY <2>5, <2>6
    <3> QED BY <2>1, <2>2, <3>1, NearerIsBehind
  <2>8. f \in Nearest(ahead)
    BY <2>7
  <2> QED BY <2>8
<1>7. aged = {}
  <2> SUFFICES ASSUME aged # {} PROVE Eldest(aged) # {}
    <3> HIDE DEF ahead, next, As, Nearest, Eldest, aged
    <3> QED BY <1>2, <1>3, <1>4, <1>5, <1>6
  <2> DEFINE T == {f.age : f \in aged}
  <2>1. \A f \in aged : f.age \in 0 .. WinMax
    BY <1>1 DEF HeldData
  <2> HIDE DEF aged
  <2>2. T \subseteq 0 .. WinMax /\ T # {}
    BY <2>1
  <2>3. PICK a \in T : \A x \in T : a >= x
    <3> HIDE DEF T
    <3> QED BY <2>2, GreatestOfBounded
  <2>4. PICK f \in aged : a = f.age
    OBVIOUS
  <2>5. f \in Eldest(aged)
    BY <2>3, <2>4
  <2> QED BY <2>5
<1>8. e.seq # SeqNext(p.last)
  BY <1>5
<1>9. ~(e.age >= Hold(p))
  BY <1>7
<1>10. e.age \in Nat /\ Hold(p) \in Nat
  BY <1>1 DEF HeldData, Hold, Least
<1>11. e.age < Hold(p)
  <2> HIDE DEF aged
  <2> QED BY <1>9, <1>10
<1> QED BY <1>4, <1>8, <1>11

\* No entry comes next only if no entry has anything to deliver.
LEMMA NothingReady ==
  ASSUME DOMAIN tbl = 0 .. Peers - 1, rr \in 0 .. Peers - 1, NextReady(tbl, rr) = {},
         NEW i \in DOMAIN tbl, tbl[i].key # NoKey
  PROVE  Pick(tbl[i]) = {}
<1> DEFINE ready == {j \in DOMAIN tbl : tbl[j].key # NoKey /\ Pick(tbl[j]) # {}}
<1> DEFINE Turn(j) == (j - rr) % Peers
<1>1. NextReady(tbl, rr) = {j \in ready : \A m \in ready : Turn(j) <= Turn(m)}
  BY DEF NextReady
<1>2. ready = {}
  <2> SUFFICES ASSUME ready # {} PROVE FALSE
    OBVIOUS
  <2> DEFINE T == {Turn(j) : j \in ready}
  <2>1. \A j \in 0 .. Peers - 1 : Turn(j) \in Nat
    OBVIOUS
  <2>2. ready \subseteq 0 .. Peers - 1
    OBVIOUS
  <2> HIDE DEF ready, Turn
  <2>3. T \subseteq Nat /\ T # {}
    BY <2>1, <2>2
  <2>4. PICK t \in T : \A x \in T : t <= x
    <3> HIDE DEF T
    <3> QED BY <2>3, LeastOfNats
  <2>5. PICK j \in ready : t = Turn(j)
    OBVIOUS
  <2>6. j \in NextReady(tbl, rr)
    BY <1>1, <2>4, <2>5, SMTT(30)
  <2> QED BY <2>6
<1> QED BY <1>2

LEMMA EmptyStep ==
  ASSUME RxInv, ReturnEmpty, NEW i \in DOMAIN tbl, NEW e \in tbl[i].held
  PROVE  /\ tbl[i].init
         /\ e.seq # SeqNext(tbl[i].last)
         /\ e.age < Least(tbl[i].win, IF MaxHold = 0 THEN tbl[i].win ELSE MaxHold)
<1>1. TableOK(tbl) /\ DOMAIN tbl = 0 .. Peers - 1 /\ rr \in 0 .. Peers - 1
  BY TypeParts DEF RxInv, TableOK, Control
<1>2. EntryOK(tbl[i])
  BY <1>1 DEF TableOK
<1>3. tbl[i].key # NoKey
  <2>1. NoPeer.held = {}
    BY NewPeerIs DEF NoPeer
  <2> QED BY <1>2, <2>1 DEF EntryOK
<1>4. Pick(tbl[i]) = {}
  BY <1>1, <1>3, NothingReady DEF ReturnEmpty
<1>5. tbl[i].init /\ e.seq # SeqNext(tbl[i].last) /\ e.age < Hold(tbl[i])
  BY <1>2, <1>4, PickEmpty
<1>6. tbl[i].win \in WinMin .. WinMax
  BY <1>2, EntryFields DEF EntryOK
<1>7. Hold(tbl[i]) = Least(tbl[i].win, IF MaxHold = 0 THEN tbl[i].win ELSE MaxHold)
  BY <1>6 DEF Hold, Least
<1> QED BY <1>5, <1>7

\* When a call answers that the socket is empty, the buffer owes the game
\* nothing: whoever holds something has a cursor, holds no successor of it, and
\* nothing in the ring has waited its hold out.
THEOREM EmptyIsEmpty == Safety => EmptyOwesNothing
<1>1. RxInv /\ [Next]_vars =>
        [ReturnEmpty => \A i \in DOMAIN tbl : \A e \in tbl[i].held :
           /\ tbl[i].init
           /\ e.seq # SeqNext(tbl[i].last)
           /\ e.age < Least(tbl[i].win, IF MaxHold = 0 THEN tbl[i].win ELSE MaxHold)]_vars
  BY EmptyStep
<1> QED BY <1>1, Invariance, PTL DEF Safety, EmptyOwesNothing
=============================================================================
