----------------------------- MODULE ClusterProofs -----------------------------
(***************************************************************************)
(* Proofs about StwCluster for any app servers, crashes and retries: the   *)
(* unlocked handlers of RegisterServer, which share and replace the arrays *)
(* of ts.nodes, never use a slice beyond its array; and if no two of them  *)
(* are between append and the assignment at once, the master hands out no  *)
(* list with a gap.                                                        *)
(***************************************************************************)
EXTENDS StwCluster, FiniteSetTheorems, TLAPS

-----------------------------------------------------------------------------
(* The inductive invariants.                                               *)

SliceType == [arr: Arrays, len: Nat]
CallType  == [pc: {"none", "compare", "append", "reply"} \cup HasTemp, i: Nat, temp: SliceType]
WebType   == [phase: {"off", "asking", "on", "failed"}, asks: 0 .. MaxAsks, servers: Seq(Addrs)]

StateType ==
  /\ phase \in [Nodes -> Phases] /\ tries \in [Nodes -> 0 .. MaxDials]
  /\ arrays \in [Arrays -> Seq(Addrs)] /\ nodes \in SliceType
  /\ call \in [Slaves -> CallType]
  /\ own \in [Slaves -> Seq(Addrs)] /\ learn \in [Slaves -> Seq(Addrs)]
  /\ web \in WebType
  /\ crashes \in 0 .. MaxCrashes

\* The temp of a handler is within its array, and the place to store to within temp.
Fits(s) ==
  call[s].pc \in HasTemp =>
    /\ call[s].temp.len \in 1 .. Len(arrays[call[s].temp.arr])
    /\ call[s].pc = "store" => call[s].i < call[s].temp.len

SlicesFit == nodes.len \in 1 .. Len(arrays[nodes.arr]) /\ \A s \in Slaves : Fits(s)

ClusterInv == StateType /\ SlicesFit

NoGap(r, n) == \A j \in 1 .. n : r[j] \in Nodes

\* What a handler has made of ts.nodes, when no other handler has a temp: its list is one
\* longer than ts.nodes, and the only gap is where it has still to store the address.
HandlerWhole(s) ==
  /\ call[s].pc \in {"compare", "append", "copy", "store"} => call[s].i <= nodes.len
  /\ call[s].pc \in HasTemp => call[s].temp.len = nodes.len + 1
  /\ call[s].pc \in {"copy", "store"} => NoGap(arrays[call[s].temp.arr], nodes.len)
  /\ call[s].pc = "store" =>
       call[s].i = nodes.len \/ arrays[call[s].temp.arr][nodes.len + 1] \in Nodes
  /\ call[s].pc = "assign" => NoGap(arrays[call[s].temp.arr], nodes.len + 1)

WholeInv ==
  /\ HandedOut
  /\ NoGap(arrays[nodes.arr], nodes.len)
  /\ \A s \in Slaves : HandlerWhole(s)

-----------------------------------------------------------------------------
(* BinarySearchString ends, with a place in the list or behind it.         *)

\* A non-empty set of naturals has a least element.
LEMMA LeastNat ==
  ASSUME NEW T \in SUBSET Nat, T # {}
  PROVE  \E n \in T : \A m \in T : n <= m
<1> DEFINE F == {0 .. n : n \in T}
           R == StrictSubsetOrdering(Nat)
<1>1. F \subseteq FiniteSubsetsOf(Nat) /\ F # {}
  <2>1. \A n \in T : 0 .. n \in SUBSET Nat /\ IsFiniteSet(0 .. n)
    BY FS_Interval
  <2> QED  BY <2>1 DEF FiniteSubsetsOf
<1>2. \A m, n \in T : m < n => <<0 .. m, 0 .. n>> \in R
  <2> SUFFICES ASSUME NEW m \in T, NEW n \in T, m < n
               PROVE  <<0 .. m, 0 .. n>> \in R
    OBVIOUS
  <2>1. 0 .. m \in SUBSET Nat /\ 0 .. n \in SUBSET Nat
    OBVIOUS
  <2>2. 0 .. m \subseteq 0 .. n /\ n \in 0 .. n /\ n \notin 0 .. m
    OBVIOUS
  <2> QED  BY <2>1, <2>2 DEF StrictSubsetOrdering
<1>3. IsWellFoundedOn(R, FiniteSubsetsOf(Nat))
  BY FS_StrictSubsetOrderingWellFounded
<1> HIDE DEF R
<1>4. PICK f \in F : \A g \in F : ~ (<<g, f>> \in R)
  <2> HIDE DEF F
  <2> QED  BY <1>1, <1>3, WFMin
<1>5. PICK n \in T : f = 0 .. n
  OBVIOUS
<1>6. \A m \in T : ~ (m < n)
  BY <1>2, <1>4, <1>5
<1> QED  BY <1>6

\* A loop on the states D: at p it stops with v[p], or it goes on at q[p].
Loop(D, stop, v, q, f) == [p \in D |-> IF p \in stop THEN v[p] ELSE f[q[p]]]

\* Its next states get smaller, and it stops with values in R.
Shrinks(D, R, stop, v, q, M, size) ==
  /\ stop \in SUBSET D /\ v \in [D -> R] /\ q \in [D -> D]
  /\ M \in Nat /\ size \in [D -> 0 .. M]
  /\ \A p \in D \ stop : size[q[p]] < size[p]

\* Such a loop computes a function.
LEMMA LoopDefined ==
  ASSUME NEW D, NEW R, NEW stop, NEW v, NEW q, NEW M, NEW size,
         Shrinks(D, R, stop, v, q, M, size)
  PROVE  /\ \E f : f = Loop(D, stop, v, q, f)
         /\ \A f : f = Loop(D, stop, v, q, f) => f \in [D -> R]
<1> DEFINE Upto(f, n) == \A p \in D : size[p] < n => f[p] = IF p \in stop THEN v[p] ELSE f[q[p]]
           Good(n) == \E f \in [D -> R] : Upto(f, n)
<1> stop \in SUBSET D /\ v \in [D -> R] /\ q \in [D -> D] /\ M \in Nat /\ size \in [D -> 0 .. M]
  BY DEF Shrinks
<1> \A p \in D \ stop : size[q[p]] < size[p]
  BY DEF Shrinks
<1>0. \A p \in D : size[p] \in Nat /\ size[p] <= M /\ q[p] \in D /\ v[p] \in R
  OBVIOUS
<1>1. Good(0)
  <2>1. Upto(v, 0)
    BY <1>0
  <2> QED  BY <2>1
<1>2. ASSUME NEW n \in Nat, Good(n) PROVE Good(n + 1)
  <2>1. PICK f \in [D -> R] : Upto(f, n)
    BY <1>2
  <2> DEFINE g == [p \in D |-> IF size[p] < n THEN f[p] ELSE IF p \in stop THEN v[p] ELSE f[q[p]]]
  <2>2. g \in [D -> R]
    BY <1>0
  <2>3. ASSUME NEW p \in D, size[p] < n + 1 PROVE g[p] = IF p \in stop THEN v[p] ELSE g[q[p]]
    <3>1. p \notin stop => size[q[p]] < n
      BY <1>0, <2>3
    <3>2. p \notin stop => g[q[p]] = f[q[p]]
      BY <1>0, <3>1
    <3>3. size[p] < n => f[p] = IF p \in stop THEN v[p] ELSE f[q[p]]
      BY <2>1
    <3> QED  BY <3>2, <3>3
  <2> HIDE DEF g
  <2> QED  BY <2>2, <2>3
<1>3. \A n \in Nat : Good(n)
  <2> DEFINE T == {n \in Nat : ~Good(n)}
  <2> SUFFICES ASSUME T # {} PROVE FALSE
    OBVIOUS
  <2>1. PICK n \in T : \A m \in T : n <= m
    BY LeastNat
  <2>2. n \in Nat /\ ~Good(n)
    OBVIOUS
  <2> HIDE DEF Good
  <2>3. n # 0
    BY <1>1, <2>2
  <2>4. n - 1 \in Nat /\ n - 1 \notin T
    BY <2>1, <2>2, <2>3
  <2>5. Good(n - 1) /\ (n - 1) + 1 = n
    BY <2>2, <2>4
  <2> QED  BY <1>2, <2>2, <2>4, <2>5
<1>4. \E f : f = Loop(D, stop, v, q, f)
  <2>1. PICK f \in [D -> R] : Upto(f, M + 1)
    BY <1>3
  <2>2. f = [p \in D |-> IF p \in stop THEN v[p] ELSE f[q[p]]]
    BY <1>0, <2>1
  <2> QED  BY <2>2 DEF Loop
<1>5. ASSUME NEW f, f = Loop(D, stop, v, q, f) PROVE f \in [D -> R]
  <2> DEFINE T == {n \in Nat : \E p \in D : size[p] = n /\ f[p] \notin R}
  <2>1. \A p \in D : f[p] = IF p \in stop THEN v[p] ELSE f[q[p]]
    BY <1>5 DEF Loop
  <2>2. T = {}
    <3> SUFFICES ASSUME T # {} PROVE FALSE
      OBVIOUS
    <3>1. PICK n \in T : \A m \in T : n <= m
      BY LeastNat
    <3>2. PICK p \in D : size[p] = n /\ f[p] \notin R
      OBVIOUS
    <3>3. p \notin stop /\ f[q[p]] \notin R
      BY <1>0, <2>1, <3>2
    <3>4. size[q[p]] \in T /\ size[q[p]] < n
      BY <1>0, <3>2, <3>3
    <3> HIDE DEF T
    <3> QED  BY <1>0, <3>1, <3>2, <3>4
  <2>3. \A p \in D : f[p] \in R
    BY <1>0, <2>2
  <2> HIDE DEF T
  <2>4. f = [p \in D |-> f[p]]
    BY <1>5 DEF Loop
  <2> QED  BY <2>3, <2>4
<1> QED  BY <1>4, <1>5

\* Sorted or not, the list is searched up to a place in it, or behind it.
LEMMA SearchEnds ==
  ASSUME NEW vals, Len(vals) \in Nat, NEW val
  PROVE  BinarySearchString(vals, val) \in 0 .. Len(vals)
<1> DEFINE L == Len(vals)
           D == (0 .. L) \X (-1 .. L - 1)
           mid(p) == (p[1] + p[2]) \div 2
           Body(f) == [p \in D |->
             IF p[1] > p[2] THEN p[1]
             ELSE IF vals[mid(p) + 1] = val THEN mid(p)
             ELSE IF vals[mid(p) + 1] < val THEN f[<<mid(p) + 1, p[2]>>] ELSE f[<<p[1], mid(p) - 1>>]]
           from == CHOOSE f : f = Body(f)
           stop == {p \in D : p[1] > p[2] \/ vals[mid(p) + 1] = val}
           v == [p \in D |-> IF p[1] > p[2] THEN p[1] ELSE IF p \in stop THEN mid(p) ELSE 0]
           q == [p \in D |-> IF p \in stop THEN p
                              ELSE IF vals[mid(p) + 1] < val THEN <<mid(p) + 1, p[2]>>
                              ELSE <<p[1], mid(p) - 1>>]
           size == [p \in D |-> p[2] - p[1] + L + 1]
<1>1. BinarySearchString(vals, val) = from[<<0, L - 1>>]
  BY DEF BinarySearchString
<1>2. L \in Nat /\ \A p \in D : p[1] \in 0 .. L /\ p[2] \in -1 .. L - 1 /\ p = <<p[1], p[2]>>
  OBVIOUS
<1> HIDE DEF L
<1>3. ASSUME NEW p \in D, p[1] <= p[2] PROVE mid(p) \in Int /\ p[1] <= mid(p) /\ mid(p) <= p[2]
  BY <1>2, <1>3
<1>4. ASSUME NEW p \in D, p[1] <= p[2]
      PROVE  /\ <<mid(p) + 1, p[2]>> \in D /\ <<p[1], mid(p) - 1>> \in D
             /\ size[<<mid(p) + 1, p[2]>>] < size[p] /\ size[<<p[1], mid(p) - 1>>] < size[p]
  <2> DEFINE m == mid(p)
  <2>1. m \in Int /\ p[1] <= m /\ m <= p[2] /\ p[1] \in 0 .. L /\ p[2] \in -1 .. L - 1
    BY <1>2, <1>3, <1>4
  <2> HIDE DEF m
  <2>2. <<m + 1, p[2]>> \in D /\ <<p[1], m - 1>> \in D
    BY <1>2, <2>1
  <2>3. /\ size[<<m + 1, p[2]>>] = p[2] - (m + 1) + L + 1
        /\ size[<<p[1], m - 1>>] = (m - 1) - p[1] + L + 1
        /\ size[p] = p[2] - p[1] + L + 1
    BY <2>2
  <2> HIDE DEF size, D
  <2>4. size[<<m + 1, p[2]>>] < size[p] /\ size[<<p[1], m - 1>>] < size[p]
    <3> DEFINE a == p[1]
               b == p[2]
    <3>1. a \in Int /\ b \in Int /\ m \in Int /\ L \in Int /\ a <= m /\ m <= b
      BY <1>2, <2>1
    <3> HIDE DEF a, b
    <3>2. b - (m + 1) + L + 1 < b - a + L + 1 /\ (m - 1) - a + L + 1 < b - a + L + 1
      BY ONLY <3>1
    <3> QED  BY <2>3, <3>2 DEF a, b
  <2> QED  BY <2>2, <2>4 DEF m
<1>5. v \in [D -> 0 .. L]
  BY <1>2, <1>3
<1>6. q \in [D -> D]
  BY <1>2, <1>4
<1> DEFINE M == 2 * L + 1
<1>7. size \in [D -> 0 .. M] /\ M \in Nat
  BY <1>2
<1>8. \A p \in D \ stop : size[q[p]] < size[p]
  <2> SUFFICES ASSUME NEW p \in D \ stop PROVE size[q[p]] < size[p]
    OBVIOUS
  <2>1. p[1] <= p[2]
    BY <1>2
  <2>2. q[p] = <<mid(p) + 1, p[2]>> \/ q[p] = <<p[1], mid(p) - 1>>
    OBVIOUS
  <2> HIDE DEF q, size, mid
  <2> QED  BY <1>4, <2>1, <2>2
<1>9. ASSUME NEW f PROVE Body(f) = Loop(D, stop, v, q, f)
  <2>1. ASSUME NEW p \in D
        PROVE  (IF p[1] > p[2] THEN p[1]
                ELSE IF vals[mid(p) + 1] = val THEN mid(p)
                ELSE IF vals[mid(p) + 1] < val THEN f[<<mid(p) + 1, p[2]>>] ELSE f[<<p[1], mid(p) - 1>>])
               = IF p \in stop THEN v[p] ELSE f[q[p]]
    <3> HIDE DEF mid, D
    <3> QED  OBVIOUS
  <2> HIDE DEF stop, v, q, D
  <2> QED  BY <2>1 DEF Loop
<1>10. stop \in SUBSET D /\ <<0, L - 1>> \in D
  BY <1>2
<1> HIDE DEF D, stop, v, q, size, M
<1>11. (\E f : f = Loop(D, stop, v, q, f)) /\ \A f : f = Loop(D, stop, v, q, f) => f \in [D -> 0 .. L]
  <2> DEFINE R == 0 .. L
  <2>1. Shrinks(D, R, stop, v, q, M, size)
    BY <1>5, <1>6, <1>7, <1>8, <1>10 DEF Shrinks
  <2> HIDE DEF R
  <2>2. (\E f : f = Loop(D, stop, v, q, f)) /\ \A f : f = Loop(D, stop, v, q, f) => f \in [D -> R]
    BY ONLY <2>1, LoopDefined
  <2> QED  BY <2>2 DEF R
<1>12. \E f : f = Body(f)
  BY <1>9, <1>11
<1>13. from = Body(from)
  <2> HIDE DEF Body
  <2> QED  BY <1>12
<1>14. from \in [D -> 0 .. L]
  <2> HIDE DEF Body, from
  <2> QED  BY <1>9, <1>11, <1>13
<1> HIDE DEF from
<1> QED  BY <1>1, <1>10, <1>14 DEF L

-----------------------------------------------------------------------------
(* Lists of addresses.                                                     *)

\* Inserting an address makes a list one longer.
LEMMA InsertIn ==
  ASSUME NEW S, NEW r \in Seq(S), NEW i \in 0 .. Len(r), NEW x \in S
  PROVE  InsertAt(r, i + 1, x) \in Seq(S) /\ Len(InsertAt(r, i + 1, x)) = Len(r) + 1
<1> DEFINE front == SubSeq(r, 1, i)
           back == SubSeq(r, i + 1, Len(r))
           head == front \o <<x>>
<1>1. Len(r) \in Nat /\ \A m \in 1 .. Len(r) : r[m] \in S
  OBVIOUS
<1>2. front \in Seq(S) /\ Len(front) = i
  BY <1>1
<1>3. back \in Seq(S) /\ Len(back) = Len(r) - i
  BY <1>1
<1>4. InsertAt(r, i + 1, x) = head \o back
  <2>1. (i + 1) - 1 = i
    OBVIOUS
  <2> QED  BY <2>1 DEF InsertAt
<1> HIDE DEF front, back
<1>5. head \in Seq(S) /\ Len(head) = i + 1
  BY <1>2
<1> HIDE DEF head
<1>6. head \o back \in Seq(S) /\ Len(head \o back) = Len(head) + Len(back)
  BY <1>3, <1>5
<1>7. (i + 1) + (Len(r) - i) = Len(r) + 1
  BY <1>1
<1> QED  BY <1>3, <1>4, <1>5, <1>6, <1>7

\* Writing to a place of an array.
LEMMA StoreIn ==
  ASSUME NEW S, NEW r \in Seq(S), NEW x \in S, NEW p
  PROVE  [r EXCEPT ![p] = x] \in Seq(S) /\ Len([r EXCEPT ![p] = x]) = Len(r)
<1> DEFINE w == [r EXCEPT ![p] = x]
<1>1. Len(r) \in Nat /\ r \in [1 .. Len(r) -> S]
  OBVIOUS
<1>2. w \in [1 .. Len(r) -> S]
  BY <1>1
<1> HIDE DEF w
<1>3. w \in Seq(S) /\ Len(w) = Len(r)
  BY <1>1, <1>2
<1> QED  BY <1>3 DEF w

\* ts.nodes of the master is a list of addresses, each that of its array.
LEMMA MasterNodesType ==
  ASSUME ClusterInv
  PROVE  /\ MasterNodes \in Seq(Addrs) /\ Len(MasterNodes) = nodes.len /\ nodes.len \in Nat
         /\ \A j \in 1 .. nodes.len : MasterNodes[j] = arrays[nodes.arr][j]
<1> DEFINE r == arrays[nodes.arr]
           n == nodes.len
<1>1. r \in Seq(Addrs) /\ n \in 1 .. Len(r)
  BY DEF ClusterInv, StateType, SlicesFit, SliceType
<1>2. MasterNodes = SubSeq(r, 1, n)
  BY DEF MasterNodes
<1> HIDE DEF r, n
<1>3. Len(r) \in Nat /\ \A j \in 1 .. Len(r) : r[j] \in Addrs
  BY <1>1
<1>4. /\ SubSeq(r, 1, n) \in Seq(Addrs) /\ Len(SubSeq(r, 1, n)) = n
      /\ \A j \in 1 .. n : SubSeq(r, 1, n)[j] = r[j]
  BY <1>1, <1>3
<1> QED  BY <1>1, <1>2, <1>3, <1>4 DEF r, n

\* When a handler appends there is an array for it: those of the other handlers and that of
\* ts.nodes are not all.
LEMMA UnusedExists ==
  ASSUME ClusterInv, NEW s \in Slaves, call[s].pc = "append"
  PROVE  Min(Unused) \in Arrays /\ Min(Unused) \notin Used
<1> DEFINE T == Nodes \ {s}
           g == [q \in T |-> IF q \in Slaves /\ call[q].pc \in HasTemp THEN call[q].temp.arr ELSE nodes.arr]
<1>1. IsFiniteSet(Nodes) /\ s \in Nodes /\ Master \in T /\ Master \notin Slaves /\ N \in Nat
  BY ClusterAssumption, FS_CardinalityType DEF Nodes, N
<1>2. IsFiniteSet(T) /\ Cardinality(T) = N - 1
  BY <1>1, FS_RemoveElement DEF N
<1>3. g \in Surjection(T, Used)
  <2>1. \A q \in T : g[q] \in Used
    BY DEF Used
  <2>2. ASSUME NEW a \in Used PROVE \E q \in T : g[q] = a
    <3>1. CASE a = nodes.arr
      <4>1. g[Master] = nodes.arr
        BY <1>1
      <4> QED  BY <1>1, <3>1, <4>1
    <3>2. CASE \E q \in Slaves : call[q].pc \in HasTemp /\ a = call[q].temp.arr
      <4>1. PICK q \in Slaves : call[q].pc \in HasTemp /\ a = call[q].temp.arr
        BY <3>2
      <4>2. q \in T
        BY <4>1 DEF HasTemp, Nodes
      <4> QED  BY <4>1, <4>2
    <3> QED  BY <3>1, <3>2 DEF Used
  <2> HIDE DEF T
  <2> QED  BY <2>1, <2>2 DEF Surjection
<1> HIDE DEF T, g
<1>4. IsFiniteSet(Used) /\ Cardinality(Used) <= N - 1
  BY <1>2, <1>3, FS_Surjection
<1>5. Cardinality(Arrays) = N
  BY <1>1, FS_Interval DEF Arrays
<1>6. Used # Arrays
  BY <1>1, <1>4, <1>5
<1>7. Used \subseteq Arrays
  <2>1. nodes.arr \in Arrays /\ \A q \in Slaves : call[q].temp.arr \in Arrays
    BY DEF ClusterInv, StateType, SliceType, CallType
  <2> QED  BY <2>1 DEF Used
<1>8. Unused # {} /\ Unused \in SUBSET Nat
  <2>1. Arrays \in SUBSET Nat
    BY <1>1 DEF Arrays
  <2> QED  BY <1>6, <1>7, <2>1 DEF Unused
<1>9. PICK n \in Unused : \A m \in Unused : n <= m
  BY <1>8, LeastNat
<1>10. Min(Unused) \in Unused
  BY <1>9 DEF Min
<1> QED  BY <1>10 DEF Unused

-----------------------------------------------------------------------------
(* Slices stay within their arrays.                                        *)

\* The master starts with itself in its list.
LEMMA ClusterInit == Init => ClusterInv
<1> SUFFICES ASSUME Init PROVE ClusterInv
  OBVIOUS
<1> USE DEF Init
<1>1. Master \in Nodes /\ MaxDials \in Nat /\ MaxAsks \in Nat /\ MaxCrashes \in Nat /\ Slaves \subseteq Nodes
  BY ClusterAssumption DEF Nodes
<1>2. 1 \in Arrays
  <2>1. N \in Nat /\ N # 0
    BY <1>1, ClusterAssumption, FS_CardinalityType, FS_EmptySet DEF N
  <2> QED  BY <2>1 DEF Arrays
<1>3. arrays \in [Arrays -> Seq(Addrs)]
  <2>1. <<Master>> \in Seq(Addrs) /\ <<>> \in Seq(Addrs)
    BY <1>1 DEF Addrs
  <2> QED  BY <2>1
<1>4. nodes \in SliceType /\ nodes.len \in 1 .. Len(arrays[nodes.arr])
  BY <1>2 DEF SliceType
<1>5. NoCall \in CallType /\ NoCall.pc \notin HasTemp
  BY <1>2 DEF NoCall, CallType, SliceType, HasTemp
<1>6. call \in [Slaves -> CallType]
  BY <1>5
<1>7. own \in [Slaves -> Seq(Addrs)] /\ learn \in [Slaves -> Seq(Addrs)]
  <2>1. \A s \in Slaves : <<s>> \in Seq(Addrs)
    BY <1>1 DEF Addrs
  <2> QED  BY <2>1
<1>8. web \in WebType
  <2>1. <<>> \in Seq(Addrs) /\ 0 \in 0 .. MaxAsks
    BY <1>1
  <2> QED  BY <2>1 DEF WebType
<1>9. phase \in [Nodes -> Phases] /\ tries \in [Nodes -> 0 .. MaxDials] /\ crashes \in 0 .. MaxCrashes
  BY <1>1 DEF Phases
<1>10. StateType
  BY <1>3, <1>4, <1>6, <1>7, <1>8, <1>9 DEF StateType
<1>11. SlicesFit
  BY <1>4, <1>5 DEF SlicesFit, Fits
<1> QED  BY <1>10, <1>11 DEF ClusterInv

\* The steps that leave the lists and the handlers of the master alone.
LEMMA ListsStay ==
  ASSUME ClusterInv, UNCHANGED <<arrays, nodes, call>>, StateType'
  PROVE  ClusterInv'
<1>1. SlicesFit'
  BY DEF ClusterInv, SlicesFit, Fits
<1> QED  BY <1>1 DEF ClusterInv

\* A server's phase, its dials and the crashes, and nothing else.
LEMMA PhaseStep ==
  ASSUME ClusterInv, NEW s \in Nodes,
         Start(s) \/ DialMaster(s) \/ DialFails(s) \/ RegisterFails(s) \/ Ready(s) \/ Crash(s)
  PROVE  ClusterInv'
<1> USE DEF listVars, srvVars
<1>1. /\ phase \in [Nodes -> Phases] /\ tries \in [Nodes -> 0 .. MaxDials] /\ crashes \in 0 .. MaxCrashes
      /\ MaxDials \in Nat /\ MaxCrashes \in Nat
  BY ClusterAssumption DEF ClusterInv, StateType
<1>2. UNCHANGED <<arrays, nodes, call, own, learn, web>>
  BY DEF Start, DialMaster, DialFails, RegisterFails, Ready, Crash
<1>3. phase' \in [Nodes -> Phases]
  <2>1. \E x \in Phases : phase' = [phase EXCEPT ![s] = x] \/ phase' = phase
    BY DEF Start, DialMaster, DialFails, RegisterFails, Ready, Crash, Dies, Phases
  <2> QED  BY <1>1, <2>1
<1>4. tries' \in [Nodes -> 0 .. MaxDials]
  <2>1. CASE DialFails(s) /\ tries[s] < MaxDials
    <3>1. tries[s] + 1 \in 0 .. MaxDials
      BY <1>1, <2>1
    <3> QED  BY <1>1, <2>1, <3>1 DEF DialFails
  <2>2. CASE ~(DialFails(s) /\ tries[s] < MaxDials)
    <3>1. tries' = tries \/ tries' = [tries EXCEPT ![s] = 0]
      BY <2>2 DEF Start, DialMaster, DialFails, RegisterFails, Ready, Crash
    <3> QED  BY <1>1, <3>1
  <2> QED  BY <2>1, <2>2
<1>5. crashes' \in 0 .. MaxCrashes
  <2>1. crashes' = crashes \/ (crashes' = crashes + 1 /\ crashes < MaxCrashes)
    BY DEF Start, DialMaster, DialFails, RegisterFails, Ready, Crash
  <2> QED  BY <1>1, <2>1
<1>6. StateType'
  BY <1>2, <1>3, <1>4, <1>5 DEF ClusterInv, StateType
<1> QED  BY <1>2, <1>6, ListsStay

\* The slave's own list may get gaps; that of the master does not change.
LEMMA LearnStep ==
  ASSUME ClusterInv, NEW s \in Slaves, Learn(s)
  PROVE  ClusterInv'
<1> DEFINE i == BinarySearchString(own[s], Head(learn[s]))
           gap == IF i < Len(own[s]) THEN own[s][i + 1] ELSE Empty
           new == InsertAt(own[s], i + 1, gap)
           rest == Tail(learn[s])
<1>1. own \in [Slaves -> Seq(Addrs)] /\ learn \in [Slaves -> Seq(Addrs)]
  BY DEF ClusterInv, StateType
<1>2. /\ learn[s] # <<>>
      /\ own' = [own EXCEPT ![s] = new] /\ learn' = [learn EXCEPT ![s] = rest]
      /\ UNCHANGED <<phase, tries, arrays, nodes, call, web, crashes>>
  BY <1>1 DEF Learn, srvVars, listVars
<1>3. own[s] \in Seq(Addrs) /\ Len(own[s]) \in Nat
  BY <1>1
<1>4. i \in 0 .. Len(own[s])
  BY <1>3, SearchEnds
<1> HIDE DEF i
<1>5. gap \in Addrs
  BY <1>3, <1>4 DEF Addrs
<1> HIDE DEF gap
<1>6. new \in Seq(Addrs)
  BY <1>3, <1>4, <1>5, InsertIn
<1>7. rest \in Seq(Addrs)
  BY <1>1, <1>2
<1> HIDE DEF new, rest
<1>8. StateType'
  BY <1>1, <1>2, <1>6, <1>7 DEF ClusterInv, StateType
<1> QED  BY <1>2, <1>8, ListsStay

\* A slave that is started again has a new list; the master keeps what it has of it.
LEMMA RestartStep ==
  ASSUME ClusterInv, NEW s \in Slaves, Restart(s)
  PROVE  ClusterInv'
<1>1. /\ phase \in [Nodes -> Phases] /\ tries \in [Nodes -> 0 .. MaxDials] /\ MaxDials \in Nat
      /\ own \in [Slaves -> Seq(Addrs)] /\ learn \in [Slaves -> Seq(Addrs)]
  BY ClusterAssumption DEF ClusterInv, StateType
<1>2. "down" \in Phases /\ 0 \in 0 .. MaxDials /\ <<s>> \in Seq(Addrs) /\ <<>> \in Seq(Addrs)
  BY <1>1 DEF Phases, Addrs, Nodes
<1>3. UNCHANGED <<arrays, nodes, call, web, crashes>>
  BY DEF Restart, listVars
<1>4. phase' \in [Nodes -> Phases] /\ tries' \in [Nodes -> 0 .. MaxDials]
  BY <1>1, <1>2 DEF Restart
<1>5. own' \in [Slaves -> Seq(Addrs)]
  BY <1>1, <1>2 DEF Restart
<1>6. learn' \in [Slaves -> Seq(Addrs)]
  BY <1>1, <1>2 DEF Restart
<1>7. StateType'
  BY <1>3, <1>4, <1>5, <1>6 DEF ClusterInv, StateType
<1> QED  BY <1>3, <1>7, ListsStay

-----------------------------------------------------------------------------
(* RegisterServer at the master.                                           *)

\* A line of a handler that changes no array.
LEMMA CallStep ==
  ASSUME ClusterInv, NEW s \in Slaves, NEW c \in CallType, c.pc \notin HasTemp,
         call' = [call EXCEPT ![s] = c], UNCHANGED <<arrays, nodes, web>>,
         phase' \in [Nodes -> Phases], learn' \in [Slaves -> Seq(Addrs)],
         UNCHANGED <<tries, own, crashes>>
  PROVE  ClusterInv'
<1>1. call \in [Slaves -> CallType]
  BY DEF ClusterInv, StateType
<1>2. /\ call' \in [Slaves -> CallType] /\ call'[s] = c
      /\ \A q \in Slaves \ {s} : call'[q] = call[q]
  BY <1>1
<1>3. StateType'
  BY <1>2 DEF ClusterInv, StateType
<1>4. SlicesFit'
  BY <1>2 DEF ClusterInv, SlicesFit, Fits
<1> QED  BY <1>3, <1>4 DEF ClusterInv

\* A line of a handler that writes to one array: if the array is in use it keeps its length.
LEMMA ArrayStep ==
  ASSUME ClusterInv, NEW s \in Slaves, NEW c \in CallType, NEW a \in Arrays, NEW r \in Seq(Addrs),
         call' = [call EXCEPT ![s] = c], arrays' = [arrays EXCEPT ![a] = r],
         a \in Used => Len(r) = Len(arrays[a]),
         Fits(s)',
         UNCHANGED <<phase, tries, nodes, own, learn, web, crashes>>
  PROVE  ClusterInv'
<1>1. /\ call \in [Slaves -> CallType] /\ arrays \in [Arrays -> Seq(Addrs)]
      /\ nodes.arr \in Arrays /\ nodes.len \in 1 .. Len(arrays[nodes.arr])
  BY DEF ClusterInv, StateType, SlicesFit, SliceType
<1>2. /\ call' \in [Slaves -> CallType] /\ \A q \in Slaves \ {s} : call'[q] = call[q]
      /\ arrays' \in [Arrays -> Seq(Addrs)]
      /\ \A b \in Arrays : arrays'[b] = IF b = a THEN r ELSE arrays[b]
  BY <1>1
<1>3. \A b \in Arrays : b \in Used => Len(arrays'[b]) = Len(arrays[b])
  BY <1>2
<1>4. StateType'
  BY <1>2 DEF ClusterInv, StateType
<1>5. nodes'.len \in 1 .. Len(arrays'[nodes'.arr])
  BY <1>1, <1>3 DEF Used
<1>6. ASSUME NEW q \in Slaves \ {s} PROVE Fits(q)'
  <2>1. Fits(q) /\ call'[q] = call[q] /\ call[q].temp.arr \in Arrays
    BY <1>1, <1>2 DEF ClusterInv, SlicesFit, CallType, SliceType
  <2>2. call[q].pc \in HasTemp => Len(arrays'[call[q].temp.arr]) = Len(arrays[call[q].temp.arr])
    BY <1>3, <2>1 DEF Used
  <2> QED  BY <2>1, <2>2 DEF Fits
<1>7. SlicesFit'
  BY <1>5, <1>6 DEF SlicesFit
<1> QED  BY <1>4, <1>7 DEF ClusterInv

\* The search remembers an index, which may not fit the list later.
LEMMA SearchStep ==
  ASSUME ClusterInv, NEW s \in Slaves, RegisterSearch(s)
  PROVE  ClusterInv'
<1> DEFINE i == BinarySearchString(MasterNodes, s)
           c == [call[s] EXCEPT !.pc = "compare", !.i = i]
<1>1. call \in [Slaves -> CallType]
  BY DEF ClusterInv, StateType
<1>2. i \in Nat
  <2>1. Len(MasterNodes) \in Nat
    BY MasterNodesType
  <2>2. i \in 0 .. Len(MasterNodes)
    BY <2>1, SearchEnds
  <2> QED  BY <2>1, <2>2
<1>3. call' = [call EXCEPT ![s] = c]
  BY <1>1 DEF RegisterSearch
<1> HIDE DEF i
<1>4. c \in CallType /\ c.pc \notin HasTemp
  BY <1>1, <1>2 DEF CallType, HasTemp
<1> HIDE DEF c
<1>5. UNCHANGED <<phase, tries, arrays, nodes, own, learn, web, crashes>>
  BY DEF RegisterSearch, srvVars
<1> QED  BY <1>3, <1>4, <1>5, CallStep DEF ClusterInv, StateType

\* NoCall, and a handler that only has to reply.
LEMMA NoCallType == ClusterInv => /\ NoCall \in CallType /\ [NoCall EXCEPT !.pc = "reply"] \in CallType
                                  /\ NoCall.pc = "none" /\ [NoCall EXCEPT !.pc = "reply"].pc = "reply"
<1> SUFFICES ASSUME ClusterInv PROVE NoCall \in CallType
  BY DEF NoCall, CallType
<1>1. nodes.arr \in Arrays
  BY DEF ClusterInv, StateType, SliceType
<1>2. 1 \in Arrays
  BY <1>1, ClusterAssumption, FS_CardinalityType DEF Arrays, N
<1> QED  BY <1>2 DEF NoCall, CallType, SliceType

\* A handler finds its address, or not.
LEMMA CompareStep ==
  ASSUME ClusterInv, NEW s \in Slaves, RegisterCompare(s)
  PROVE  ClusterInv'
<1> DEFINE found == [NoCall EXCEPT !.pc = "reply"]
           other == [call[s] EXCEPT !.pc = "append"]
<1>1. call \in [Slaves -> CallType]
  BY DEF ClusterInv, StateType
<1>2. call' = [call EXCEPT ![s] = found] \/ call' = [call EXCEPT ![s] = other]
  BY DEF RegisterCompare
<1>3. found \in CallType /\ found.pc \notin HasTemp
  BY NoCallType DEF HasTemp
<1>4. other \in CallType /\ other.pc \notin HasTemp
  BY <1>1 DEF CallType, HasTemp
<1> HIDE DEF found, other
<1>5. UNCHANGED <<phase, tries, arrays, nodes, own, learn, web, crashes>>
  BY DEF RegisterCompare, srvVars
<1> QED  BY <1>2, <1>3, <1>4, <1>5, CallStep DEF ClusterInv, StateType

\* append, in place or in an array twice as large.
LEMMA AppendStep ==
  ASSUME ClusterInv, NEW s \in Slaves, RegisterAppend(s)
  PROVE  ClusterInv'
<1> DEFINE n == nodes.len
           old == arrays[nodes.arr]
           pad == [j \in 1 .. n |-> Empty]
           a == IF n = Len(old) THEN Min(Unused) ELSE nodes.arr
           r == IF n = Len(old) THEN MasterNodes \o pad ELSE [old EXCEPT ![n + 1] = Empty]
           t == [arr |-> a, len |-> n + 1]
           c == [call[s] EXCEPT !.pc = "copy", !.temp = t]
<1>1. /\ call \in [Slaves -> CallType] /\ arrays \in [Arrays -> Seq(Addrs)] /\ nodes.arr \in Arrays
      /\ old \in Seq(Addrs) /\ Len(old) \in Nat /\ n \in 1 .. Len(old) /\ call[s].pc = "append"
  BY DEF ClusterInv, StateType, SlicesFit, SliceType, RegisterAppend, At
<1>2. /\ call' = [call EXCEPT ![s] = c]
      /\ arrays' = [arrays EXCEPT ![a] = r]
      /\ UNCHANGED <<phase, tries, nodes, own, learn, web, crashes>>
  BY <1>1 DEF RegisterAppend, srvVars
<1>3. Min(Unused) \in Arrays /\ Min(Unused) \notin Used
  BY <1>1, UnusedExists
<1>4. pad \in Seq(Addrs) /\ Len(pad) = n
  BY <1>1 DEF Addrs
<1>5. MasterNodes \in Seq(Addrs) /\ Len(MasterNodes) = n
  BY MasterNodesType
<1>6. MasterNodes \o pad \in Seq(Addrs) /\ Len(MasterNodes \o pad) = n + n
  <2> HIDE DEF pad, n
  <2> QED  BY <1>4, <1>5
<1>7. [old EXCEPT ![n + 1] = Empty] \in Seq(Addrs) /\ Len([old EXCEPT ![n + 1] = Empty]) = Len(old)
  <2>1. Empty \in Addrs
    BY DEF Addrs
  <2> HIDE DEF old, n
  <2> QED  BY <1>1, <2>1, StoreIn
<1> HIDE DEF pad
<1>8. /\ a \in Arrays /\ r \in Seq(Addrs)
      /\ a \in Used => Len(r) = Len(arrays[a])
      /\ n + 1 \in 1 .. Len(r) /\ n + 1 \in Nat
  BY <1>1, <1>3, <1>6, <1>7
<1> HIDE DEF a, r, old
<1>9. t \in SliceType /\ t.arr = a /\ t.len = n + 1
  BY <1>1, <1>8 DEF SliceType
<1> HIDE DEF t, n
<1>10. c \in CallType /\ c.pc = "copy" /\ c.temp = t
  BY <1>1, <1>9 DEF CallType, HasTemp
<1> HIDE DEF c
<1>11. call'[s] = c /\ arrays'[a] = r
  BY <1>1, <1>2, <1>8
<1>12. Fits(s)'
  BY <1>8, <1>9, <1>10, <1>11 DEF Fits
<1> QED  BY <1>2, <1>8, <1>10, <1>12, ArrayStep

\* copy panics, or moves addresses of ts.nodes up within temp.
LEMMA CopyStep ==
  ASSUME ClusterInv, NEW s \in Slaves, RegisterCopy(s)
  PROVE  ClusterInv'
<1> DEFINE i == call[s].i
           temp == call[s].temp
           up == (i + 2) .. IF temp.len <= nodes.len THEN temp.len ELSE nodes.len + 1
           old == arrays[temp.arr]
           r == [j \in DOMAIN old |-> IF j \in up THEN MasterNodes[j - 1] ELSE old[j]]
           c == [call[s] EXCEPT !.pc = "store"]
<1>1. /\ call \in [Slaves -> CallType] /\ arrays \in [Arrays -> Seq(Addrs)] /\ temp.arr \in Arrays
      /\ i \in Nat /\ temp.len \in Nat /\ call[s].pc = "copy" /\ Fits(s)
      /\ UNCHANGED <<tries, nodes, own, learn, web, crashes>>
  BY DEF ClusterInv, StateType, SlicesFit, SliceType, CallType, RegisterCopy, At
<1>2. CASE i + 1 > temp.len \/ i > nodes.len
  <2>1. phase' = [phase EXCEPT ![Master] = "dead"] /\ UNCHANGED <<arrays, call>>
    BY <1>2 DEF RegisterCopy, Dies
  <2>2. StateType'
    BY <1>1, <2>1 DEF ClusterInv, StateType, Phases, Nodes
  <2> QED  BY <1>1, <2>1, <2>2, ListsStay
<1>3. CASE ~(i + 1 > temp.len \/ i > nodes.len)
  <2>1. /\ arrays' = [arrays EXCEPT ![temp.arr] = r] /\ call' = [call EXCEPT ![s] = c]
        /\ UNCHANGED phase
    BY <1>1, <1>3 DEF RegisterCopy
  <2>2. temp.len \in 1 .. Len(old) /\ old \in Seq(Addrs) /\ Len(old) \in Nat
    BY <1>1 DEF Fits, HasTemp
  <2>3. r \in Seq(Addrs) /\ Len(r) = Len(old)
    <3>1. MasterNodes \in Seq(Addrs) /\ Len(MasterNodes) = nodes.len /\ nodes.len \in Nat
      BY MasterNodesType
    <3>2. \A j \in 1 .. nodes.len : MasterNodes[j] \in Addrs
      BY <3>1
    <3>3. DOMAIN old = 1 .. Len(old) /\ \A j \in 1 .. Len(old) : old[j] \in Addrs
      BY <2>2
    <3>4. ASSUME NEW j \in up PROVE j - 1 \in 1 .. nodes.len
      BY <1>1, <3>1
    <3> HIDE DEF up, old
    <3>5. \A j \in 1 .. Len(old) : r[j] \in Addrs
      BY <3>2, <3>3, <3>4
    <3>6. r \in [1 .. Len(old) -> Addrs]
      BY <3>3, <3>5
    <3> HIDE DEF r
    <3> QED  BY <2>2, <3>6
  <2> HIDE DEF r
  <2>4. c \in CallType /\ c.pc = "store" /\ c.temp = temp /\ c.i = i
    BY <1>1 DEF CallType, HasTemp
  <2> HIDE DEF c
  <2>5. call'[s] = c /\ arrays'[temp.arr] = r
    BY <1>1, <2>1
  <2>6. Fits(s)'
    BY <1>1, <1>3, <2>2, <2>3, <2>4, <2>5 DEF Fits
  <2> QED  BY <1>1, <2>1, <2>3, <2>4, <2>6, ArrayStep
<1> QED  BY <1>2, <1>3

\* temp[i] = addr.
LEMMA StoreStep ==
  ASSUME ClusterInv, NEW s \in Slaves, RegisterStore(s)
  PROVE  ClusterInv'
<1> DEFINE a == call[s].temp.arr
           p == call[s].i + 1
           old == arrays[a]
           r == [old EXCEPT ![p] = s]
           c == [call[s] EXCEPT !.pc = "assign"]
<1>1. /\ call \in [Slaves -> CallType] /\ arrays \in [Arrays -> Seq(Addrs)] /\ a \in Arrays
      /\ call[s].pc = "store" /\ Fits(s) /\ s \in Addrs
  BY DEF ClusterInv, StateType, SlicesFit, SliceType, CallType, RegisterStore, At, Addrs, Nodes
<1>2. /\ arrays' = [arrays EXCEPT ![a] = r] /\ call' = [call EXCEPT ![s] = c]
      /\ UNCHANGED <<phase, tries, nodes, own, learn, web, crashes>>
  BY <1>1 DEF RegisterStore, srvVars
<1>3. old \in Seq(Addrs)
  BY <1>1
<1>4. r \in Seq(Addrs) /\ Len(r) = Len(old)
  <2> HIDE DEF old, p
  <2> QED  BY <1>1, <1>3, StoreIn
<1> HIDE DEF r
<1>5. c \in CallType /\ c.pc = "assign" /\ c.temp = call[s].temp
  BY <1>1 DEF CallType, HasTemp
<1> HIDE DEF c
<1>6. call'[s] = c /\ arrays'[a] = r
  BY <1>1, <1>2
<1>7. Fits(s)'
  BY <1>1, <1>4, <1>5, <1>6 DEF Fits, HasTemp
<1> QED  BY <1>1, <1>2, <1>4, <1>5, <1>7, ArrayStep

\* ts.nodes becomes the handler's list; the arrays in use stay.
LEMMA AssignStep ==
  ASSUME ClusterInv, NEW s \in Slaves, RegisterAssign(s)
  PROVE  ClusterInv'
<1> DEFINE c == [NoCall EXCEPT !.pc = "reply"]
<1>1. /\ call \in [Slaves -> CallType] /\ arrays \in [Arrays -> Seq(Addrs)]
      /\ call[s].pc = "assign" /\ Fits(s)
  BY DEF ClusterInv, StateType, SlicesFit, RegisterAssign, At
<1>2. /\ nodes' = call[s].temp /\ call' = [call EXCEPT ![s] = c]
      /\ arrays' = [a \in Arrays |-> IF a \in Used' THEN arrays[a] ELSE <<>>]
      /\ UNCHANGED <<phase, tries, own, learn, web, crashes>>
  BY DEF RegisterAssign, srvVars
<1>3. c \in CallType /\ c.pc = "reply"
  BY NoCallType
<1> HIDE DEF c
<1>4. call' \in [Slaves -> CallType] /\ call'[s] = c /\ \A q \in Slaves \ {s} : call'[q] = call[q]
  BY <1>1, <1>2, <1>3
<1>5. arrays' \in [Arrays -> Seq(Addrs)]
  <2>1. <<>> \in Seq(Addrs)
    OBVIOUS
  <2> QED  BY <1>1, <1>2, <2>1
<1>6. nodes' \in SliceType /\ nodes'.arr \in Arrays
  BY <1>1, <1>2 DEF CallType, SliceType
<1>7. StateType'
  BY <1>2, <1>4, <1>5, <1>6 DEF ClusterInv, StateType
<1>8. nodes'.len \in 1 .. Len(arrays'[nodes'.arr])
  <2>1. nodes'.arr \in Used'
    BY DEF Used
  <2>2. arrays'[nodes'.arr] = arrays[nodes'.arr]
    BY <1>2, <1>6, <2>1
  <2> QED  BY <1>1, <1>2, <2>2 DEF Fits, HasTemp
<1>9. ASSUME NEW q \in Slaves PROVE Fits(q)'
  <2>1. CASE call'[q].pc \in HasTemp
    <3>1. q # s /\ call'[q] = call[q] /\ Fits(q)
      BY <1>3, <1>4, <2>1 DEF HasTemp, ClusterInv, SlicesFit
    <3>2. call[q].temp.arr \in Used' /\ call[q].temp.arr \in Arrays
      BY <1>1, <2>1, <3>1 DEF Used, CallType, SliceType
    <3>3. arrays'[call[q].temp.arr] = arrays[call[q].temp.arr]
      BY <1>2, <3>2
    <3> QED  BY <3>1, <3>3 DEF Fits
  <2> QED  BY <2>1 DEF Fits
<1>10. SlicesFit'
  BY <1>8, <1>9 DEF SlicesFit
<1> QED  BY <1>7, <1>10 DEF ClusterInv

\* The reply hands out the list of the master as it is.
LEMMA ReplyStep ==
  ASSUME ClusterInv, NEW s \in Slaves, RegisterReply(s)
  PROVE  ClusterInv'
<1>1. NoCall \in CallType /\ NoCall.pc \notin HasTemp
  BY NoCallType DEF HasTemp
<1>2. call' = [call EXCEPT ![s] = NoCall] /\ UNCHANGED <<tries, arrays, nodes, own, web, crashes>>
  BY DEF RegisterReply
<1>3. phase' \in [Nodes -> Phases]
  <2>1. phase \in [Nodes -> Phases] /\ s \in Nodes /\ "learning" \in Phases
    BY DEF ClusterInv, StateType, Nodes, Phases
  <2> QED  BY <2>1 DEF RegisterReply
<1>4. learn' \in [Slaves -> Seq(Addrs)]
  <2>1. learn \in [Slaves -> Seq(Addrs)] /\ MasterNodes \in Seq(Addrs)
    BY MasterNodesType DEF ClusterInv, StateType
  <2> QED  BY <2>1 DEF RegisterReply
<1> QED  BY <1>1, <1>2, <1>3, <1>4, CallStep

-----------------------------------------------------------------------------
(* The web server, and all together.                                       *)

\* The web server takes the list of the one it asks.
LEMMA WebStep ==
  ASSUME ClusterInv, WebDial \/ GetServers \/ WebGivesUp
  PROVE  ClusterInv'
<1> DEFINE servers == IF Asked = Master THEN MasterNodes ELSE own[Asked]
<1>1. UNCHANGED <<phase, tries, arrays, nodes, call, own, learn, crashes>>
  BY DEF WebDial, GetServers, WebGivesUp, srvVars, listVars
<1>2. web \in WebType /\ MaxAsks \in Nat /\ 0 \in 0 .. MaxAsks
  BY ClusterAssumption DEF ClusterInv, StateType
<1>3. servers \in Seq(Addrs)
  <2>1. MasterNodes \in Seq(Addrs)
    BY MasterNodesType
  <2>2. Asked # Master => own[Asked] \in Seq(Addrs)
    BY ClusterAssumption DEF ClusterInv, StateType, Nodes
  <2> QED  BY <2>1, <2>2
<1>4. web' \in WebType
  <2>1. CASE WebDial \/ WebGivesUp
    BY <1>2, <2>1 DEF WebDial, WebGivesUp, WebType
  <2>2. CASE GetServers
    <3> DEFINE w == [phase |-> "on", asks |-> 0, servers |-> servers]
    <3>1. web.asks + 1 \in 0 .. MaxAsks
      BY <1>2, <2>2 DEF GetServers, WebType
    <3>2. web' = w \/ web' = [web EXCEPT !.asks = @ + 1]
      BY <2>2 DEF GetServers
    <3> HIDE DEF servers
    <3>3. w \in WebType
      BY <1>2, <1>3 DEF WebType
    <3> HIDE DEF w
    <3> QED  BY <1>2, <3>1, <3>2, <3>3 DEF WebType
  <2> QED  BY <2>1, <2>2
<1>5. StateType'
  BY <1>1, <1>4 DEF ClusterInv, StateType
<1> QED  BY <1>1, <1>5, ListsStay

\* Every step of every server, handler, crash and restart.
LEMMA ClusterNext == ClusterInv /\ [Next]_vars => ClusterInv'
<1> SUFFICES ASSUME ClusterInv, [Next]_vars PROVE ClusterInv'
  OBVIOUS
<1>1. CASE \E s \in Nodes : Start(s) \/ Ready(s) \/ Crash(s)
  BY <1>1, PhaseStep
<1>2. ASSUME NEW s \in Slaves, Join(s) PROVE ClusterInv'
  BY <1>2, PhaseStep, LearnStep DEF Join, Nodes
<1>3. ASSUME NEW s \in Slaves, Register(s) PROVE ClusterInv'
  BY <1>3, SearchStep, CompareStep, AppendStep, CopyStep, StoreStep, AssignStep, ReplyStep DEF Register
<1>4. ASSUME NEW s \in Slaves, Restart(s) PROVE ClusterInv'
  BY <1>4, RestartStep
<1>5. CASE WebDial \/ GetServers \/ WebGivesUp
  BY <1>5, WebStep
<1>6. CASE UNCHANGED vars
  <2>1. UNCHANGED <<phase, tries, arrays, nodes, call, own, learn, web, crashes>>
    BY <1>6 DEF vars, srvVars, listVars
  <2>2. StateType'
    BY <2>1 DEF ClusterInv, StateType
  <2> QED  BY <2>1, <2>2, ListsStay
<1> QED  BY <1>1, <1>2, <1>3, <1>4, <1>5, <1>6 DEF Next

-----------------------------------------------------------------------------
(* Lists without gaps, while no two handlers have a temp.                  *)

\* A list of the master without gaps can be handed out.
LEMMA MasterNodesWhole ==
  ASSUME ClusterInv, WholeInv
  PROVE  MasterNodes \in Seq(Nodes)
<1>1. /\ MasterNodes \in Seq(Addrs) /\ Len(MasterNodes) = nodes.len /\ nodes.len \in Nat
      /\ \A j \in 1 .. nodes.len : MasterNodes[j] = arrays[nodes.arr][j]
  BY MasterNodesType
<1>2. \A j \in 1 .. nodes.len : MasterNodes[j] \in Nodes
  BY <1>1 DEF WholeInv, NoGap
<1>3. MasterNodes \in [1 .. nodes.len -> Nodes]
  BY <1>1, <1>2
<1> QED  BY <1>1, <1>3

\* At the start.
LEMMA WholeInit == Init => WholeInv
<1> SUFFICES ASSUME Init PROVE WholeInv
  OBVIOUS
<1> USE DEF Init
<1>1. Master \in Nodes
  BY DEF Nodes
<1>2. HandedOut
  BY DEF HandedOut
<1>3. 1 \in Arrays
  BY <1>1, ClusterAssumption, FS_CardinalityType, FS_EmptySet DEF N, Arrays
<1>4. NoGap(arrays[nodes.arr], nodes.len)
  BY <1>1, <1>3 DEF NoGap
<1>5. \A s \in Slaves : HandlerWhole(s)
  BY DEF HandlerWhole, NoCall, HasTemp
<1> QED  BY <1>2, <1>4, <1>5 DEF WholeInv

\* The steps that leave the lists and the handlers of the master alone.
LEMMA WholeStays ==
  ASSUME WholeInv, UNCHANGED <<arrays, nodes, call>>, HandedOut'
  PROVE  WholeInv'
BY DEF WholeInv, HandlerWhole, NoGap

\* A slave goes through the reply, or is started again.
LEMMA LearnWhole ==
  ASSUME ClusterInv, WholeInv, NEW s \in Slaves, Learn(s) \/ Restart(s)
  PROVE  WholeInv'
<1> DEFINE rest == Tail(learn[s])
<1>1. learn \in [Slaves -> Seq(Addrs)] /\ UNCHANGED <<arrays, nodes, call, web>>
  BY DEF ClusterInv, StateType, Learn, Restart, listVars
<1>2. \A q \in Slaves : learn[q] \in Seq(Nodes)
  BY DEF WholeInv, HandedOut
<1>3. CASE Learn(s)
  <2>1. learn[s] # <<>> /\ learn' = [learn EXCEPT ![s] = rest]
    BY <1>3 DEF Learn
  <2>2. rest \in Seq(Nodes)
    BY <1>2, <2>1
  <2> HIDE DEF rest
  <2>3. HandedOut'
    BY <1>1, <1>2, <2>1, <2>2 DEF WholeInv, HandedOut
  <2> QED  BY <1>1, <2>3, WholeStays
<1>4. CASE Restart(s)
  <2>1. learn' = [learn EXCEPT ![s] = <<>>] /\ <<>> \in Seq(Nodes)
    BY <1>4 DEF Restart
  <2>2. HandedOut'
    BY <1>1, <1>2, <2>1 DEF WholeInv, HandedOut
  <2> QED  BY <1>1, <2>2, WholeStays
<1> QED  BY <1>3, <1>4

\* What is said of a handler that has no temp.
LEMMA NoTempWhole ==
  ASSUME NEW s \in Slaves, call[s].pc \notin HasTemp,
         call[s].pc \in {"compare", "append"} => call[s].i <= nodes.len
  PROVE  HandlerWhole(s)
BY DEF HandlerWhole, HasTemp

\* The lines before append, and the reply.
LEMMA BeforeAppendWhole ==
  ASSUME ClusterInv, WholeInv, NEW s \in Slaves,
         RegisterSearch(s) \/ RegisterCompare(s) \/ RegisterReply(s)
  PROVE  WholeInv'
<1>1. /\ call \in [Slaves -> CallType] /\ learn \in [Slaves -> Seq(Addrs)]
      /\ UNCHANGED <<arrays, nodes, web>>
  BY DEF ClusterInv, StateType, RegisterSearch, RegisterCompare, RegisterReply
<1>2. /\ call'[s].pc \notin HasTemp /\ \A q \in Slaves \ {s} : call'[q] = call[q]
      /\ call'[s].pc \in {"compare", "append"} => call'[s].i <= nodes.len
  <2>1. CASE RegisterSearch(s)
    <3> DEFINE i == BinarySearchString(MasterNodes, s)
    <3>1. call' = [call EXCEPT ![s].pc = "compare", ![s].i = i]
      BY <2>1 DEF RegisterSearch
    <3>2. Len(MasterNodes) = nodes.len /\ nodes.len \in Nat
      BY MasterNodesType
    <3>3. i <= nodes.len
      <4>1. i \in 0 .. Len(MasterNodes)
        BY <3>2, SearchEnds
      <4> QED  BY <3>2, <4>1
    <3> HIDE DEF i
    <3> QED  BY <1>1, <3>1, <3>3 DEF CallType, HasTemp
  <2>2. CASE RegisterCompare(s)
    <3> DEFINE found == [NoCall EXCEPT !.pc = "reply"]
               other == [call[s] EXCEPT !.pc = "append"]
    <3>1. call' = [call EXCEPT ![s] = found] \/ call' = [call EXCEPT ![s] = other]
      BY <2>2 DEF RegisterCompare
    <3>2. call[s].pc = "compare" /\ call[s].i <= nodes.len
      BY <2>2 DEF RegisterCompare, At, WholeInv, HandlerWhole
    <3>3. found.pc = "reply" /\ other.pc = "append" /\ other.i = call[s].i
      BY <1>1, NoCallType DEF CallType
    <3> HIDE DEF found, other
    <3> QED  BY <1>1, <3>1, <3>2, <3>3 DEF HasTemp
  <2>3. CASE RegisterReply(s)
    <3>1. call' = [call EXCEPT ![s] = NoCall] /\ NoCall.pc = "none"
      BY <2>3, NoCallType DEF RegisterReply
    <3> QED  BY <1>1, <3>1 DEF HasTemp
  <2> QED  BY <2>1, <2>2, <2>3
<1>3. HandedOut'
  <2>1. CASE RegisterReply(s)
    <3>1. MasterNodes \in Seq(Nodes)
      BY MasterNodesWhole
    <3>2. learn' = learn \/ learn' = [learn EXCEPT ![s] = MasterNodes]
      BY <2>1 DEF RegisterReply
    <3> QED  BY <1>1, <3>1, <3>2 DEF WholeInv, HandedOut
  <2>2. CASE RegisterSearch(s) \/ RegisterCompare(s)
    <3>1. learn' = learn
      BY <2>2 DEF RegisterSearch, RegisterCompare
    <3> QED  BY <1>1, <3>1 DEF WholeInv, HandedOut
  <2> QED  BY <2>1, <2>2
<1>4. HandlerWhole(s)'
  BY <1>1, <1>2 DEF HandlerWhole, HasTemp
<1>5. \A q \in Slaves \ {s} : HandlerWhole(q)'
  BY <1>1, <1>2 DEF WholeInv, HandlerWhole, NoGap
<1> QED  BY <1>1, <1>3, <1>4, <1>5 DEF WholeInv, NoGap

\* A line of the only handler that has a temp, before or after it, which writes to the array.
LEMMA AloneStep ==
  ASSUME ClusterInv, WholeInv, NEW s \in Slaves, NEW c, c.pc \in HasTemp,
         call' = [call EXCEPT ![s] = c], HandlerWhole(s)',
         NoGap(arrays'[nodes.arr], nodes.len),
         (call[s].pc \in HasTemp /\ ~Mixed) \/ ~Mixed',
         UNCHANGED <<nodes, learn, web>>
  PROVE  WholeInv'
<1>1. call \in [Slaves -> CallType]
  BY DEF ClusterInv, StateType
<1>2. call'[s] = c /\ \A q \in Slaves \ {s} : call'[q] = call[q]
  BY <1>1
<1>3. ASSUME NEW q \in Slaves \ {s} PROVE HandlerWhole(q)'
  <2>1. call'[q].pc \notin HasTemp
    BY <1>2 DEF Mixed
  <2>2. call'[q] = call[q] /\ HandlerWhole(q)
    BY <1>2 DEF WholeInv
  <2> QED  BY <2>1, <2>2 DEF HandlerWhole, HasTemp
<1>4. HandedOut'
  BY DEF WholeInv, HandedOut
<1>5. NoGap(arrays'[nodes'.arr], nodes'.len)
  OBVIOUS
<1> QED  BY <1>3, <1>4, <1>5 DEF WholeInv, NoGap

\* append leaves what is in ts.nodes, and has it in temp.
LEMMA AppendWhole ==
  ASSUME ClusterInv, WholeInv, ~Mixed', NEW s \in Slaves, RegisterAppend(s)
  PROVE  WholeInv'
<1> DEFINE n == nodes.len
           old == arrays[nodes.arr]
           pad == [j \in 1 .. n |-> Empty]
           a == IF n = Len(old) THEN Min(Unused) ELSE nodes.arr
           r == IF n = Len(old) THEN MasterNodes \o pad ELSE [old EXCEPT ![n + 1] = Empty]
           t == [arr |-> a, len |-> n + 1]
           c == [call[s] EXCEPT !.pc = "copy", !.temp = t]
<1>1. /\ call \in [Slaves -> CallType] /\ arrays \in [Arrays -> Seq(Addrs)] /\ nodes.arr \in Arrays
      /\ old \in Seq(Addrs) /\ Len(old) \in Nat /\ n \in 1 .. Len(old) /\ call[s].pc = "append"
  BY DEF ClusterInv, StateType, SlicesFit, SliceType, RegisterAppend, At
<1>2. /\ call' = [call EXCEPT ![s] = c]
      /\ arrays' = [arrays EXCEPT ![a] = r]
      /\ UNCHANGED <<nodes, learn, web>>
  BY <1>1 DEF RegisterAppend, srvVars
<1>3. Min(Unused) \in Arrays /\ Min(Unused) # nodes.arr
  BY <1>1, UnusedExists DEF Used
<1>4. \A j \in 1 .. n : old[j] \in Nodes
  BY DEF WholeInv, NoGap
<1>5. /\ MasterNodes \in Seq(Addrs) /\ Len(MasterNodes) = n
      /\ \A j \in 1 .. n : MasterNodes[j] = old[j]
  BY MasterNodesType
<1>6. \A j \in 1 .. n : r[j] = old[j]
  <2>1. CASE n = Len(old)
    <3>1. pad \in Seq(Addrs) /\ Len(pad) = n
      BY <1>1 DEF Addrs
    <3>2. r = MasterNodes \o pad
      BY <2>1
    <3> HIDE DEF pad, r, n, old
    <3>3. \A j \in 1 .. n : (MasterNodes \o pad)[j] = MasterNodes[j]
      BY <1>5, <3>1
    <3> QED  BY <1>5, <3>2, <3>3
  <2>2. CASE n # Len(old)
    BY <1>1, <2>2
  <2> QED  BY <2>1, <2>2
<1>7. a \in Arrays /\ (a = nodes.arr \/ arrays'[nodes.arr] = old)
  BY <1>1, <1>2, <1>3
<1> HIDE DEF r, pad, a
<1>8. arrays'[a] = r
  BY <1>1, <1>2, <1>7
<1>9. NoGap(arrays'[nodes.arr], n) /\ NoGap(arrays'[a], n)
  BY <1>4, <1>6, <1>7, <1>8 DEF NoGap
<1>10. c.pc = "copy" /\ c.i = call[s].i /\ c.temp.arr = a /\ c.temp.len = n + 1
  BY <1>1 DEF CallType
<1>11. call[s].i <= n
  BY <1>1 DEF WholeInv, HandlerWhole
<1> HIDE DEF c, t, old
<1>12. call'[s] = c
  BY <1>1, <1>2
<1>13. HandlerWhole(s)'
  BY <1>2, <1>9, <1>10, <1>11, <1>12 DEF HandlerWhole, HasTemp
<1> HIDE DEF n
<1>14. c.pc \in HasTemp
  BY <1>10 DEF HasTemp
<1> QED  BY <1>2, <1>9, <1>13, <1>14, AloneStep DEF n

\* copy does not panic, and leaves a gap at the place of the address only.
LEMMA CopyWhole ==
  ASSUME ClusterInv, WholeInv, ~Mixed, NEW s \in Slaves, RegisterCopy(s)
  PROVE  WholeInv'
<1> DEFINE n == nodes.len
           i == call[s].i
           temp == call[s].temp
           up == (i + 2) .. IF temp.len <= n THEN temp.len ELSE n + 1
           old == arrays[temp.arr]
           r == [j \in DOMAIN old |-> IF j \in up THEN MasterNodes[j - 1] ELSE old[j]]
           c == [call[s] EXCEPT !.pc = "store"]
<1>1. /\ call \in [Slaves -> CallType] /\ arrays \in [Arrays -> Seq(Addrs)] /\ temp.arr \in Arrays
      /\ i \in Nat /\ call[s].pc = "copy" /\ call[s].pc \in HasTemp /\ Fits(s)
      /\ UNCHANGED <<nodes, learn, web>>
  BY DEF ClusterInv, StateType, SlicesFit, SliceType, CallType, RegisterCopy, At, HasTemp
<1>2. i <= n /\ temp.len = n + 1 /\ n \in Nat /\ \A j \in 1 .. n : old[j] \in Nodes
  BY <1>1 DEF WholeInv, HandlerWhole, NoGap, ClusterInv, StateType, SliceType
<1>3. old \in Seq(Addrs) /\ Len(old) \in Nat /\ n + 1 <= Len(old) /\ DOMAIN old = 1 .. Len(old)
  BY <1>1, <1>2 DEF Fits
<1>4. arrays' = [arrays EXCEPT ![temp.arr] = r] /\ call' = [call EXCEPT ![s] = c]
  <2>1. ~ (i + 1 > temp.len \/ i > nodes.len)
    BY <1>1, <1>2
  <2> QED  BY <2>1 DEF RegisterCopy
<1>5. up = (i + 2) .. (n + 1)
  BY <1>2
<1>6. \A j \in 1 .. n : MasterNodes[j] \in Nodes /\ arrays[nodes.arr][j] \in Nodes
  BY MasterNodesType DEF WholeInv, NoGap
<1> HIDE DEF up, old, n, i
<1>7. \A j \in 1 .. n + 1 : j \in DOMAIN old /\ r[j] = IF j \in up THEN MasterNodes[j - 1] ELSE old[j]
  BY <1>2, <1>3
<1> HIDE DEF r
<1>8. \A j \in up : j - 1 \in 1 .. n
  BY <1>1, <1>2, <1>5
<1>9. \A j \in 1 .. n : r[j] \in Nodes
  <2> SUFFICES ASSUME NEW j \in 1 .. n PROVE r[j] \in Nodes
    OBVIOUS
  <2>1. j \in 1 .. n + 1
    BY <1>2
  <2> QED  BY <1>2, <1>6, <1>7, <1>8, <2>1
<1>10. i = n \/ r[n + 1] \in Nodes
  <2> SUFFICES ASSUME i # n PROVE r[n + 1] \in Nodes
    OBVIOUS
  <2>1. n + 1 \in up /\ n + 1 \in 1 .. n + 1
    BY <1>1, <1>2, <1>5
  <2> QED  BY <1>6, <1>7, <1>8, <2>1
<1>11. /\ arrays'[temp.arr] = r
       /\ nodes.arr # temp.arr => arrays'[nodes.arr] = arrays[nodes.arr]
  <2>1. nodes.arr \in Arrays
    BY DEF ClusterInv, StateType, SliceType
  <2> QED  BY <1>1, <1>4, <2>1
<1>12. NoGap(arrays'[nodes.arr], n) /\ NoGap(arrays'[temp.arr], n)
  BY <1>6, <1>9, <1>11 DEF NoGap
<1>13. c.pc = "store" /\ c.i = i /\ c.temp = temp
  BY <1>1 DEF CallType, i
<1> HIDE DEF c, temp
<1>14. call'[s] = c
  BY <1>1, <1>4
<1>15. HandlerWhole(s)'
  BY <1>1, <1>2, <1>10, <1>11, <1>12, <1>13, <1>14 DEF HandlerWhole, HasTemp, n
<1>16. c.pc \in HasTemp
  BY <1>13 DEF HasTemp
<1> QED  BY <1>1, <1>4, <1>12, <1>15, <1>16, AloneStep DEF n

\* The address fills the gap.
LEMMA StoreWhole ==
  ASSUME ClusterInv, WholeInv, ~Mixed, NEW s \in Slaves, RegisterStore(s)
  PROVE  WholeInv'
<1> DEFINE n == nodes.len
           i == call[s].i
           a == call[s].temp.arr
           old == arrays[a]
           r == [old EXCEPT ![i + 1] = s]
           c == [call[s] EXCEPT !.pc = "assign"]
<1>1. /\ call \in [Slaves -> CallType] /\ arrays \in [Arrays -> Seq(Addrs)] /\ a \in Arrays
      /\ i \in Nat /\ call[s].pc = "store" /\ call[s].pc \in HasTemp /\ Fits(s) /\ s \in Nodes
      /\ UNCHANGED <<nodes, learn, web>>
  BY DEF ClusterInv, StateType, SlicesFit, SliceType, CallType, RegisterStore, At, HasTemp, Nodes
<1>2. /\ i <= n /\ call[s].temp.len = n + 1 /\ n \in Nat /\ \A j \in 1 .. n : old[j] \in Nodes
      /\ i = n \/ old[n + 1] \in Nodes
  BY <1>1 DEF WholeInv, HandlerWhole, NoGap, ClusterInv, StateType, SliceType
<1>3. old \in Seq(Addrs) /\ Len(old) \in Nat /\ n + 1 <= Len(old) /\ DOMAIN old = 1 .. Len(old)
  BY <1>1, <1>2 DEF Fits
<1>4. arrays' = [arrays EXCEPT ![a] = r] /\ call' = [call EXCEPT ![s] = c]
  BY DEF RegisterStore
<1>5. \A j \in 1 .. n : arrays[nodes.arr][j] \in Nodes
  BY DEF WholeInv, NoGap
<1> HIDE DEF old, n, i
<1>6. \A j \in 1 .. n + 1 : r[j] \in Nodes
  <2> SUFFICES ASSUME NEW j \in 1 .. n + 1 PROVE r[j] \in Nodes
    OBVIOUS
  <2>1. j \in DOMAIN old /\ r[j] = IF j = i + 1 THEN s ELSE old[j]
    BY <1>2, <1>3
  <2>2. j \in 1 .. n \/ j = n + 1
    BY <1>2
  <2> QED  BY <1>1, <1>2, <2>1, <2>2
<1> HIDE DEF r
<1>7. /\ arrays'[a] = r
      /\ nodes.arr # a => arrays'[nodes.arr] = arrays[nodes.arr]
  <2>1. nodes.arr \in Arrays
    BY DEF ClusterInv, StateType, SliceType
  <2> QED  BY <1>1, <1>4, <2>1
<1>8. NoGap(arrays'[nodes.arr], n) /\ NoGap(arrays'[a], n + 1)
  <2>1. \A j \in 1 .. n : j \in 1 .. n + 1
    BY <1>2
  <2> QED  BY <1>5, <1>6, <1>7, <2>1 DEF NoGap
<1>9. c.pc = "assign" /\ c.temp = call[s].temp
  BY <1>1 DEF CallType
<1> HIDE DEF c
<1>10. call'[s] = c
  BY <1>1, <1>4
<1>11. HandlerWhole(s)'
  BY <1>1, <1>2, <1>8, <1>9, <1>10 DEF HandlerWhole, HasTemp, n
<1>12. c.pc \in HasTemp
  BY <1>9 DEF HasTemp
<1> QED  BY <1>1, <1>4, <1>8, <1>11, <1>12, AloneStep DEF n

\* ts.nodes becomes the list of the only handler that has a temp, and is longer than before.
LEMMA AssignWhole ==
  ASSUME ClusterInv, WholeInv, ~Mixed, NEW s \in Slaves, RegisterAssign(s)
  PROVE  WholeInv'
<1> DEFINE c == [NoCall EXCEPT !.pc = "reply"]
           n == nodes.len
<1>1. /\ call \in [Slaves -> CallType] /\ arrays \in [Arrays -> Seq(Addrs)] /\ n \in Nat
      /\ call[s].pc = "assign" /\ call[s].pc \in HasTemp /\ call[s].temp.arr \in Arrays
  BY DEF ClusterInv, StateType, RegisterAssign, At, CallType, SliceType, HasTemp
<1>2. /\ nodes' = call[s].temp /\ call' = [call EXCEPT ![s] = c]
      /\ arrays' = [a \in Arrays |-> IF a \in Used' THEN arrays[a] ELSE <<>>]
      /\ UNCHANGED <<learn, web>>
  BY DEF RegisterAssign
<1>3. call[s].temp.len = n + 1 /\ NoGap(arrays[call[s].temp.arr], n + 1)
  BY <1>1 DEF WholeInv, HandlerWhole
<1>4. NoGap(arrays'[nodes'.arr], nodes'.len)
  <2>1. nodes'.arr \in Used'
    BY DEF Used
  <2>2. arrays'[nodes'.arr] = arrays[call[s].temp.arr]
    BY <1>1, <1>2, <2>1
  <2> QED  BY <1>2, <1>3, <2>2
<1>5. c.pc = "reply"
  BY NoCallType
<1> HIDE DEF c
<1>6. call'[s] = c /\ \A q \in Slaves \ {s} : call'[q] = call[q]
  BY <1>1, <1>2
<1>7. HandlerWhole(s)'
  BY <1>5, <1>6 DEF HandlerWhole, HasTemp
<1>8. ASSUME NEW q \in Slaves \ {s} PROVE HandlerWhole(q)'
  <2>1. call[q].pc \notin HasTemp
    BY <1>1 DEF Mixed
  <2>2. call[q].pc \in {"compare", "append"} => call[q].i <= n /\ call[q].i \in Nat
    BY <1>1 DEF WholeInv, HandlerWhole, CallType
  <2>3. call[q].pc \in {"compare", "append"} => call[q].i <= nodes'.len
    BY <1>1, <1>2, <1>3, <2>2
  <2> QED  BY <1>6, <2>1, <2>3 DEF HandlerWhole, HasTemp
<1>9. HandedOut'
  BY <1>2 DEF WholeInv, HandedOut
<1> QED  BY <1>4, <1>7, <1>8, <1>9 DEF WholeInv

\* The web server asks.
LEMMA WebWhole ==
  ASSUME ClusterInv, WholeInv, WebDial \/ GetServers \/ WebGivesUp
  PROVE  WholeInv'
<1>1. UNCHANGED <<arrays, nodes, call, learn>>
  BY DEF WebDial, GetServers, WebGivesUp, listVars
<1>2. MasterNodes \in Seq(Nodes) /\ web \in WebType
  BY MasterNodesWhole DEF ClusterInv, StateType
<1>3. Asked = Master => web'.servers = web.servers \/ web'.servers = MasterNodes
  <2>1. CASE WebDial \/ WebGivesUp
    BY <1>2, <2>1 DEF WebDial, WebGivesUp, WebType
  <2>2. CASE GetServers
    <3> DEFINE servers == IF Asked = Master THEN MasterNodes ELSE own[Asked]
               w == [phase |-> "on", asks |-> 0, servers |-> servers]
    <3>1. web' = w \/ web' = [web EXCEPT !.asks = @ + 1]
      BY <2>2 DEF GetServers
    <3>2. w.servers = servers
      OBVIOUS
    <3>3. [web EXCEPT !.asks = @ + 1].servers = web.servers
      BY <1>2 DEF WebType
    <3> HIDE DEF w
    <3> QED  BY <3>1, <3>2, <3>3
  <2> QED  BY <2>1, <2>2
<1>4. HandedOut'
  BY <1>1, <1>2, <1>3 DEF WholeInv, HandedOut
<1> QED  BY <1>1, <1>4, WholeStays

\* Every step between states in which at most one handler has a temp.
LEMMA WholeNext == ClusterInv /\ WholeInv /\ ~Mixed /\ ~Mixed' /\ [Next]_vars => WholeInv'
<1> SUFFICES ASSUME ClusterInv, WholeInv, ~Mixed, ~Mixed', [Next]_vars PROVE WholeInv'
  OBVIOUS
<1>1. ASSUME NEW s \in Nodes,
             Start(s) \/ Ready(s) \/ Crash(s) \/ DialMaster(s) \/ DialFails(s) \/ RegisterFails(s)
      PROVE  WholeInv'
  <2>1. UNCHANGED <<arrays, nodes, call, learn, web>>
    BY <1>1 DEF Start, Ready, Crash, DialMaster, DialFails, RegisterFails, listVars
  <2>2. HandedOut'
    BY <2>1 DEF WholeInv, HandedOut
  <2> QED  BY <2>1, <2>2, WholeStays
<1>2. ASSUME NEW s \in Slaves, Join(s) \/ Restart(s) PROVE WholeInv'
  BY <1>1, <1>2, LearnWhole DEF Join, Nodes
<1>3. ASSUME NEW s \in Slaves, Register(s) PROVE WholeInv'
  BY <1>3, BeforeAppendWhole, AppendWhole, CopyWhole, StoreWhole, AssignWhole DEF Register
<1>4. CASE WebDial \/ GetServers \/ WebGivesUp
  BY <1>4, WebWhole
<1>5. CASE UNCHANGED vars
  <2>1. UNCHANGED <<arrays, nodes, call, learn, web>>
    BY <1>5 DEF vars, srvVars, listVars
  <2>2. HandedOut'
    BY <2>1 DEF WholeInv, HandedOut
  <2> QED  BY <2>1, <2>2, WholeStays
<1> QED  BY <1>1, <1>2, <1>3, <1>4, <1>5 DEF Next

-----------------------------------------------------------------------------
(* The theorems.                                                           *)

\* In every state each slice of the master, ts.nodes and the temps of the handlers, is within
\* its array, in any interleaving of the unlocked lines of RegisterServer.
THEOREM ClusterAlways == Spec => []ClusterInv
BY ClusterInit, ClusterNext, PTL DEF Spec

\* TypeOK always: handlers that run at once, crash and share the array of ts.nodes never have
\* a list that is longer than its array, nor store the address outside of it.
THEOREM ClusterTypeSafe == Spec => []TypeOK
<1>1. ClusterInv => TypeOK
  <2> SUFFICES ASSUME ClusterInv PROVE TypeOK
    OBVIOUS
  <2>1. StateType /\ SlicesFit
    BY DEF ClusterInv
  <2>2. nodes.arr \in Arrays /\ nodes.len \in 1 .. Len(arrays[nodes.arr])
    BY <2>1 DEF StateType, SliceType, SlicesFit
  <2>3. ASSUME NEW s \in Slaves
        PROVE  /\ call[s].pc \in {"none", "compare", "append", "reply"} \cup HasTemp
               /\ call[s].pc \in HasTemp =>
                    call[s].temp.arr \in Arrays /\ call[s].temp.len \in 1 .. Len(arrays[call[s].temp.arr])
               /\ call[s].pc = "store" => call[s].i \in 0 .. call[s].temp.len - 1
    <3>1. call[s].pc \in {"none", "compare", "append", "reply"} \cup HasTemp /\ call[s].i \in Nat
          /\ call[s].temp.arr \in Arrays /\ call[s].temp.len \in Nat /\ Fits(s)
      BY <2>1 DEF StateType, CallType, SliceType, SlicesFit
    <3> QED  BY <3>1 DEF Fits, HasTemp
  <2>4. ASSUME NEW s \in Slaves PROVE learn[s] \in Seq(Addrs) /\ own[s] \in Seq(Addrs)
    BY <2>1 DEF StateType
  <2>5. /\ web.phase \in {"off", "asking", "on", "failed"} /\ web.asks \in 0 .. MaxAsks
        /\ web.servers \in Seq(Addrs)
    BY <2>1 DEF StateType, WebType
  <2>6. /\ phase \in [Nodes -> Phases] /\ tries \in [Nodes -> 0 .. MaxDials]
        /\ arrays \in [Arrays -> Seq(Addrs)] /\ crashes \in 0 .. MaxCrashes
    BY <2>1 DEF StateType
  <2> QED  BY <2>2, <2>3, <2>4, <2>5, <2>6 DEF TypeOK
<1> QED  BY <1>1, ClusterAlways, PTL

\* In a run in which no two handlers are between append and the assignment of ts.nodes at
\* once, no list that the master hands out (RegisterServer, GetServers) has a gap: a lock
\* around these lines is all that is missing for it.
THEOREM ListsWholeUnlessMixed == Spec => WholeUnlessMixed
<1>1. WholeInv => HandedOut
  BY DEF WholeInv
<1>2. Spec /\ []~Mixed => []WholeInv
  BY WholeInit, WholeNext, ClusterAlways, PTL DEF Spec
<1> QED  BY <1>1, <1>2, PTL DEF WholeUnlessMixed
=============================================================================
