------------------------------ MODULE RingProofs ------------------------------
(***************************************************************************)
(* Proofs about RingFormation for any finite set of nodes: the rings are   *)
(* always sorted and without duplicates, a ready server knows all of them  *)
(* and takes the keys it owns, and where a write can land.                 *)
(***************************************************************************)
EXTENDS RingFormation, FiniteSetTheorems, SequenceTheorems, TLAPS

-----------------------------------------------------------------------------
(* The inductive invariant.                                                *)

Elems(r)     == {r[n] : n \in 1 .. Len(r)}
Ascending(r) == \A m, n \in 1 .. Len(r) : m < n => r[m] < r[n]

RingsAscending ==
  /\ \A s \in Servers : Ascending(ring[s])
  /\ \A c \in Clients : Ascending(libRing[c])

\* The master's ring holds the registered nodes and the one whose registration is under way.
MasterInv ==
  /\ phase[Master] \in {"down", "waiting", "ready", "dead"}
  /\ IF phase[Master] \in {"waiting", "ready"}
       THEN /\ Master \in nodes[Master]
            /\ regLock \notin nodes[Master]
            /\ Elems(ring[Master]) = nodes[Master] \cup ({regLock} \ {Nil})
       ELSE regLock = Nil /\ ring[Master] = <<>>

\* What a slave has of the ring and what it has still to learn make up the whole ring.
SlaveInv ==
  \A s \in Slaves :
    /\ phase[s] # "waiting"
    /\ phase[s] \in {"down", "dead", "dialing", "registering"} => ring[s] = <<>>
    /\ phase[s] = "learning" => /\ learn[s] \cap Elems(ring[s]) = {}
                                /\ learn[s] \cup Elems(ring[s]) = Servers

ReadyInv == \A s \in Servers : phase[s] = "ready" => Elems(ring[s]) = Servers

\* A libstore gets a ring once, and one with a node in it.
LibInv ==
  \A c \in Clients :
    /\ libPhase[c] \in {"off", "asking"} => libRing[c] = <<>>
    /\ libPhase[c] = "on" => libRing[c] # <<>>

\* No libstore is given a ring before the master's is full.
FullOnceGiven ==
  \A c \in Clients : libPhase[c] = "on" =>
    /\ phase[Master] \in {"waiting", "ready", "dead"}
    /\ phase[Master] # "dead" => Elems(ring[Master]) = Servers

RingInv ==
  /\ TypeOK /\ RingsAscending /\ MasterInv /\ SlaveInv /\ ReadyInv /\ LibInv
  /\ FullOnceGiven

-----------------------------------------------------------------------------
(* Induction, as the least element of a non-empty set of numbers.          *)

\* A non-empty set of naturals has a least element.
LEMMA LeastNat ==
  ASSUME NEW T \in SUBSET Nat, T # {}
  PROVE  \E n \in T : \A m \in T : n <= m
<1> DEFINE F == {0 .. n : n \in T}
           R == StrictSubsetOrdering(Nat)
<1>1. F \subseteq FiniteSubsetsOf(Nat) /\ F # {}
  <2>1. \A n \in T : 0 .. n \in SUBSET Nat /\ IsFiniteSet(0 .. n)
    BY FS_Interval
  <2> QED  BY <2>1 DEF FiniteSubsetsOf
<1>2. \A m, n \in T : m < n => <<0 .. m, 0 .. n>> \in R
  <2> SUFFICES ASSUME NEW m \in T, NEW n \in T, m < n
               PROVE  <<0 .. m, 0 .. n>> \in R
    OBVIOUS
  <2>1. 0 .. m \in SUBSET Nat /\ 0 .. n \in SUBSET Nat
    OBVIOUS
  <2>2. 0 .. m \subseteq 0 .. n /\ n \in 0 .. n /\ n \notin 0 .. m
    OBVIOUS
  <2> QED  BY <2>1, <2>2 DEF StrictSubsetOrdering
<1>3. IsWellFoundedOn(R, FiniteSubsetsOf(Nat))
  BY FS_StrictSubsetOrderingWellFounded
<1> HIDE DEF R
<1>4. PICK f \in F : \A g \in F : ~ (<<g, f>> \in R)
  <2> HIDE DEF F
  <2> QED  BY <1>1, <1>3, WFMin
<1>5. PICK n \in T : f = 0 .. n
  OBVIOUS
<1>6. \A m \in T : ~ (m < n)
  BY <1>2, <1>4, <1>5
<1> QED  BY <1>6

-----------------------------------------------------------------------------
(* Sorted sequences of node IDs.                                           *)

\* BinarySearchUint32 is defined for every value: the place where it belongs.
LEMMA SearchPlace ==
  ASSUME NEW r \in Seq(Nat), Ascending(r), NEW x \in Nat
  PROVE  LET n == BinarySearchUint32(r, x) IN
         /\ n \in 0 .. Len(r)
         /\ \A m \in 1 .. n : r[m] < x
         /\ \A m \in (n + 1) .. Len(r) : r[m] >= x
<1> DEFINE T == {n \in 0 .. Len(r) : \A m \in (n + 1) .. Len(r) : r[m] >= x}
<1>1. Len(r) \in Nat /\ \A m \in 1 .. Len(r) : r[m] \in Nat
  OBVIOUS
<1>2. Len(r) \in T /\ T \in SUBSET Nat
  BY <1>1
<1>3. PICK n \in T : \A m \in T : n <= m
  BY <1>2, LeastNat
<1>4. n \in 0 .. Len(r) /\ \A m \in (n + 1) .. Len(r) : r[m] >= x
  OBVIOUS
<1>5. ASSUME n > 0, r[n] >= x PROVE FALSE
  <2>1. n - 1 \in T
    BY <1>1, <1>4, <1>5
  <2> HIDE DEF T
  <2> QED  BY <1>3, <1>4, <2>1
<1>6. \A m \in 1 .. n : r[m] < x
  BY <1>1, <1>4, <1>5 DEF Ascending
<1> QED  BY <1>4, <1>6 DEF BinarySearchUint32

\* Insert puts a new value in its place.
LEMMA InsertAscending ==
  ASSUME NEW S \in SUBSET Nat, NEW r \in Seq(S), Ascending(r), NEW x \in S, x \notin Elems(r)
  PROVE  /\ Insert(r, x) \in Seq(S)
         /\ Ascending(Insert(r, x))
         /\ Elems(Insert(r, x)) = Elems(r) \cup {x}
         /\ Insert(r, x) # <<>>
<1> DEFINE n == BinarySearchUint32(r, x)
           ins == Insert(r, x)
<1>1. Len(r) \in Nat /\ \A m \in 1 .. Len(r) : r[m] \in S /\ r[m] \in Nat
  <2>1. Len(r) \in Nat /\ \A m \in 1 .. Len(r) : r[m] \in S
    OBVIOUS
  <2> QED  BY <2>1
<1>2. r \in Seq(Nat) /\ x \in Nat
  <2>1. r \in [1 .. Len(r) -> Nat]
    BY <1>1
  <2> QED  BY <1>1, <2>1
<1>3. n \in 0 .. Len(r) /\ (\A m \in 1 .. n : r[m] < x) /\ \A m \in (n + 1) .. Len(r) : r[m] >= x
  BY <1>2, SearchPlace
<1>4. ins = SubSeq(r, 1, n) \o <<x>> \o SubSeq(r, n + 1, Len(r))
  BY DEF Insert
<1> HIDE DEF n, ins
<1>5. /\ ins \in Seq(S) /\ Len(ins) = Len(r) + 1
      /\ \A m \in 1 .. Len(ins) : ins[m] = IF m <= n THEN r[m] ELSE IF m = n + 1 THEN x ELSE r[m - 1]
  <2>1. /\ SubSeq(r, 1, n) \in Seq(S) /\ Len(SubSeq(r, 1, n)) = n
        /\ \A m \in 1 .. n : SubSeq(r, 1, n)[m] = r[m]
    BY <1>1, <1>3
  <2>2. /\ SubSeq(r, n + 1, Len(r)) \in Seq(S) /\ Len(SubSeq(r, n + 1, Len(r))) = Len(r) - n
        /\ \A m \in 1 .. Len(r) - n : SubSeq(r, n + 1, Len(r))[m] = r[m + n]
    BY <1>1, <1>3
  <2> DEFINE front == SubSeq(r, 1, n)
             back  == SubSeq(r, n + 1, Len(r))
  <2> HIDE DEF front, back
  <2>3. front \o <<x>> \in Seq(S) /\ Len(front \o <<x>>) = n + 1
    BY <1>3, <2>1 DEF front
  <2>4. \A m \in 1 .. n + 1 : (front \o <<x>>)[m] = IF m <= n THEN r[m] ELSE x
    BY <1>3, <2>1 DEF front
  <2> DEFINE head == front \o <<x>>
  <2> HIDE DEF head
  <2>9. /\ head \in Seq(S) /\ Len(head) = n + 1
        /\ back \in Seq(S) /\ Len(back) = Len(r) - n
    BY <2>2, <2>3 DEF head, back
  <2>10. n \in Int /\ Len(r) \in Int
    BY <1>1, <1>3
  <2>5. head \o back \in Seq(S) /\ Len(head \o back) = Len(r) + 1
    BY <2>9, <2>10
  <2>6. \A m \in 1 .. Len(r) + 1 : (head \o back)[m] = IF m <= n + 1 THEN head[m] ELSE back[m - (n + 1)]
    <3>1. \A m \in 1 .. Len(head) + Len(back) :
            (head \o back)[m] = IF m <= Len(head) THEN head[m] ELSE back[m - Len(head)]
      BY ONLY <2>9, ConcatProperties
    <3>2. Len(head) + Len(back) = Len(r) + 1
      BY <2>9, <2>10
    <3> QED  BY <2>9, <3>1, <3>2
  <2>7. \A m \in 1 .. Len(r) + 1 : m > n + 1 => back[m - (n + 1)] = r[m - 1]
    BY <1>1, <1>3, <2>2 DEF back
  <2>8. ins = head \o back
    BY <1>4 DEF head, front, back
  <2> QED  BY <1>1, <1>3, <2>3, <2>4, <2>5, <2>6, <2>7, <2>8 DEF head
<1>6. \A m \in (n + 1) .. Len(r) : r[m] > x
  BY <1>1, <1>2, <1>3 DEF Elems
<1>7. Ascending(ins)
  <2> SUFFICES ASSUME NEW i \in 1 .. Len(ins), NEW j \in 1 .. Len(ins), i < j
               PROVE  ins[i] < ins[j]
    BY DEF Ascending
  <2>1. /\ ins[i] = IF i <= n THEN r[i] ELSE IF i = n + 1 THEN x ELSE r[i - 1]
        /\ ins[j] = IF j <= n THEN r[j] ELSE IF j = n + 1 THEN x ELSE r[j - 1]
    BY <1>5
  <2>2. n \in Nat /\ n <= Len(r) /\ Len(ins) = Len(r) + 1
    BY <1>3, <1>5
  <2>3. CASE j <= n
    BY <1>1, <2>1, <2>2, <2>3 DEF Ascending
  <2>4. CASE j = n + 1
    BY <1>1, <1>3, <2>1, <2>2, <2>4
  <2>5. CASE j > n + 1 /\ i <= n
    BY <1>1, <2>1, <2>2, <2>5 DEF Ascending
  <2>6. CASE j > n + 1 /\ i = n + 1
    BY <1>1, <1>6, <2>1, <2>2, <2>6
  <2>7. CASE i > n + 1
    BY <1>1, <2>1, <2>2, <2>7 DEF Ascending
  <2> QED  BY <2>2, <2>3, <2>4, <2>5, <2>6, <2>7
<1>8. Elems(ins) \subseteq Elems(r) \cup {x}
  BY <1>1, <1>3, <1>5 DEF Elems
<1>9. Elems(r) \cup {x} \subseteq Elems(ins)
  <2>1. \A m \in 1 .. n : ins[m] = r[m] /\ m \in 1 .. Len(ins)
    BY <1>1, <1>3, <1>5
  <2>2. \A m \in (n + 1) .. Len(r) : ins[m + 1] = r[m] /\ m + 1 \in 1 .. Len(ins)
    BY <1>1, <1>3, <1>5
  <2>3. ins[n + 1] = x /\ n + 1 \in 1 .. Len(ins)
    BY <1>1, <1>3, <1>5
  <2>4. x \in Elems(ins)
    BY <2>3 DEF Elems
  <2>5. ASSUME NEW i \in 1 .. Len(r) PROVE r[i] \in Elems(ins)
    <3>1. CASE i <= n
      BY <1>3, <2>1, <3>1 DEF Elems
    <3>2. CASE i > n
      <4>1. i \in (n + 1) .. Len(r)
        BY <1>1, <1>3, <3>2
      <4> QED  BY <2>2, <4>1 DEF Elems
    <3> QED  BY <1>3, <3>1, <3>2
  <2>6. ASSUME NEW e \in Elems(r) PROVE e \in Elems(ins)
    <3>1. PICK i \in 1 .. Len(r) : e = r[i]
      BY DEF Elems
    <3> QED  BY <2>5, <3>1
  <2> QED  BY <2>4, <2>6
<1> QED  BY <1>1, <1>5, <1>7, <1>8, <1>9 DEF ins

\* An ascending sequence has as many elements as it is long.
LEMMA LenIsCardinality ==
  ASSUME NEW r \in Seq(Nat), Ascending(r)
  PROVE  IsFiniteSet(Elems(r)) /\ Cardinality(Elems(r)) = Len(r)
<1>1. Len(r) \in Nat /\ \A m \in 1 .. Len(r) : r[m] \in Nat
  OBVIOUS
<1>2. r \in [1 .. Len(r) -> Elems(r)]
  BY <1>1 DEF Elems
<1>3. \A m, n \in 1 .. Len(r) : r[m] = r[n] => m = n
  <2>1. ASSUME NEW m \in 1 .. Len(r), NEW n \in 1 .. Len(r), m < n PROVE r[m] # r[n]
    BY <1>1, <2>1 DEF Ascending
  <2> QED  BY <2>1
<1>4. \A e \in Elems(r) : \E m \in 1 .. Len(r) : r[m] = e
  BY DEF Elems
<1>5. ExistsBijection(1 .. Len(r), Elems(r))
  BY <1>2, <1>3, <1>4 DEF ExistsBijection, Bijection, Injection, Surjection, IsInjective
<1>6. IsFiniteSet(1 .. Len(r)) /\ Cardinality(1 .. Len(r)) = Len(r)
  BY <1>1, FS_Interval
<1> QED  BY <1>5, <1>6, FS_Bijection

\* Two ascending sequences of the same elements are equal: the first place where they
\* differed would leave out the smaller of the two elements there.
LEMMA AscendingUnique ==
  ASSUME NEW r \in Seq(Nat), NEW q \in Seq(Nat), Ascending(r), Ascending(q), Elems(r) = Elems(q)
  PROVE  r = q
<1>1. /\ Len(r) \in Nat /\ \A m \in 1 .. Len(r) : r[m] \in Nat
      /\ Len(q) \in Nat /\ \A m \in 1 .. Len(q) : q[m] \in Nat
  OBVIOUS
<1>2. Len(r) = Len(q)
  BY LenIsCardinality
<1> DEFINE T == {n \in 1 .. Len(r) : r[n] # q[n]}
<1>3. ASSUME T # {} PROVE FALSE
  <2>1. PICK n \in T : \A m \in T : n <= m
    <3>1. T \in SUBSET Nat
      BY <1>1
    <3> HIDE DEF T
    <3> QED  BY <1>3, <3>1, LeastNat
  <2>2. n \in 1 .. Len(r) /\ r[n] # q[n] /\ \A m \in 1 .. n - 1 : r[m] = q[m]
    BY <1>1, <2>1
  <2>3. CASE r[n] < q[n]
    <3>1. PICK j \in 1 .. Len(q) : r[n] = q[j]
      BY <2>2 DEF Elems
    <3>2. CASE j < n
      <4>1. r[j] = q[j] /\ j \in 1 .. Len(r) /\ r[j] < r[n]
        BY <1>1, <1>2, <2>2, <3>2 DEF Ascending
      <4> QED  BY <1>1, <2>2, <3>1, <4>1
    <3>3. CASE n <= j
      <4>1. q[n] <= q[j]
        BY <1>1, <1>2, <2>2, <3>3 DEF Ascending
      <4> QED  BY <1>1, <1>2, <2>2, <2>3, <3>1, <4>1
    <3> QED  BY <1>1, <2>2, <3>2, <3>3
  <2>4. CASE q[n] < r[n]
    <3>1. PICK j \in 1 .. Len(r) : q[n] = r[j]
      BY <1>2, <2>2 DEF Elems
    <3>2. CASE j < n
      <4>1. r[j] = q[j] /\ j \in 1 .. Len(q) /\ q[j] < q[n]
        BY <1>1, <1>2, <2>2, <3>2 DEF Ascending
      <4> QED  BY <1>1, <1>2, <2>2, <3>1, <4>1
    <3>3. CASE n <= j
      <4>1. r[n] <= r[j]
        BY <1>1, <1>2, <2>2, <3>3 DEF Ascending
      <4> QED  BY <1>1, <1>2, <2>2, <2>4, <3>1, <4>1
    <3> QED  BY <1>1, <2>2, <3>2, <3>3
  <2> QED  BY <1>1, <1>2, <2>2, <2>3, <2>4
<1>4. \A n \in 1 .. Len(r) : r[n] = q[n]
  BY <1>3
<1>5. Len(r) = Len(q) /\ r = [n \in 1 .. Len(r) |-> r[n]] /\ q = [n \in 1 .. Len(q) |-> q[n]]
  BY <1>1, <1>2
<1> QED  BY ONLY <1>4, <1>5

-----------------------------------------------------------------------------
(* NewLibstore's fold over the reply.                                      *)

Enumerates(r, T) == r \in Seq(T) /\ Ascending(r) /\ Elems(r) = T

\* A sequence over a set of naturals is one of naturals.
LEMMA SeqOfNat ==
  ASSUME NEW T \in SUBSET Nat, NEW r \in Seq(T)
  PROVE  r \in Seq(Nat)
<1>1. Len(r) \in Nat /\ \A m \in 1 .. Len(r) : r[m] \in T
  OBVIOUS
<1>2. r \in [1 .. Len(r) -> Nat]
  <2>1. r = [m \in 1 .. Len(r) |-> r[m]]
    BY <1>1
  <2>2. \A m \in 1 .. Len(r) : r[m] \in Nat
    BY <1>1
  <2> QED  BY <2>1, <2>2
<1> QED  BY <1>1, <1>2

\* Insert adds one element to an enumeration.
LEMMA InsertEnumerates ==
  ASSUME NEW T \in SUBSET Nat, NEW x \in T, NEW r, Enumerates(r, T \ {x})
  PROVE  Enumerates(Insert(r, x), T)
<1>1. r \in Seq(T)
  <2>1. Len(r) \in Nat /\ r = [m \in 1 .. Len(r) |-> r[m]] /\ \A m \in 1 .. Len(r) : r[m] \in T \ {x}
    BY DEF Enumerates
  <2>2. r \in [1 .. Len(r) -> T]
    BY <2>1
  <2> QED  BY <2>1, <2>2
<1>2. Ascending(r) /\ Elems(r) = T \ {x}
  BY DEF Enumerates
<1>3. x \notin Elems(r)
  BY <1>2
<1>4. /\ Insert(r, x) \in Seq(T) /\ Ascending(Insert(r, x))
      /\ Elems(Insert(r, x)) = Elems(r) \cup {x}
  BY <1>1, <1>2, <1>3, InsertAscending
<1> QED  BY <1>2, <1>4 DEF Enumerates

\* Every finite set of naturals can be enumerated.
LEMMA EnumerationExists ==
  ASSUME NEW T \in SUBSET Nat, IsFiniteSet(T)
  PROVE  \A U \in SUBSET T : \E r : Enumerates(r, U)
<1> DEFINE C == {U \in SUBSET T : ~ \E r : Enumerates(r, U)}
           R == StrictSubsetOrdering(T)
<1>1. C \subseteq FiniteSubsetsOf(T)
  BY FS_FiniteSubsetsOfFinite
<1>2. IsWellFoundedOn(R, FiniteSubsetsOf(T))
  BY FS_StrictSubsetOrderingWellFounded
<1>3. ASSUME C # {} PROVE FALSE
  <2>1. PICK U \in C : \A V \in C : ~ (<<V, U>> \in R)
    <3> HIDE DEF C, R
    <3> QED  BY <1>1, <1>2, <1>3, WFMin
  <2>2. CASE U = {}
    <3>1. <<>> \in Seq({}) /\ Len(<<>>) = 0
      OBVIOUS
    <3>2. Enumerates(<<>>, {})
      BY <3>1 DEF Enumerates, Ascending, Elems
    <3> QED  BY <2>2, <3>2
  <2>3. CASE U # {}
    <3>1. PICK x \in U : TRUE
      BY <2>3
    <3>2. <<U \ {x}, U>> \in R
      BY <3>1 DEF StrictSubsetOrdering
    <3>3. PICK r : Enumerates(r, U \ {x})
      BY <2>1, <3>2
    <3>4. Enumerates(Insert(r, x), U)
      BY <3>1, <3>3, InsertEnumerates
    <3> QED  BY <3>4
  <2> QED  BY <2>2, <2>3
<1> QED  BY <1>3

\* NewLibstore's loop over the reply builds the sorted ring of the nodes in it, in whatever
\* order it meets them: the fold is a function that the enumerations satisfy.
LEMMA FoldEnumerates ==
  ASSUME NEW T \in SUBSET Nat, IsFiniteSet(T)
  PROVE  Enumerates(FoldSet(LAMBDA id, r : Insert(r, id), <<>>, T), T)
<1> DEFINE pick(U) == CHOOSE x \in U : TRUE
           Step(g) == [U \in SUBSET T |-> IF U = {} THEN <<>> ELSE Insert(g[U \ {pick(U)}], pick(U))]
           iter == CHOOSE g : g = Step(g)
           enum == [U \in SUBSET T |-> CHOOSE r : Enumerates(r, U)]
<1>1. FoldSet(LAMBDA id, r : Insert(r, id), <<>>, T) = iter[T]
  BY DEF FoldSet, MapThenFoldSet
<1>2. \A U \in SUBSET T : U # {} => pick(U) \in U
  OBVIOUS
<1> HIDE DEF pick
<1>3. \A U \in SUBSET T : Enumerates(enum[U], U)
  BY EnumerationExists
<1>4. enum = Step(enum)
  <2> HIDE DEF enum
  <2>1. enum[{}] = <<>>
    <3>1. enum[{}] \in Seq({})
      BY <1>3 DEF Enumerates
    <3> QED  BY <3>1
  <2>2. ASSUME NEW U \in SUBSET T, U # {}
        PROVE  enum[U] = Insert(enum[U \ {pick(U)}], pick(U))
    <3>1. pick(U) \in U /\ U \in SUBSET Nat
      BY <1>2, <2>2
    <3>2. Enumerates(enum[U \ {pick(U)}], U \ {pick(U)})
      BY <1>3
    <3>3. Enumerates(Insert(enum[U \ {pick(U)}], pick(U)), U)
      BY <3>1, <3>2, InsertEnumerates
    <3>4. Enumerates(enum[U], U)
      BY <1>3
    <3> QED  BY <3>1, <3>3, <3>4, SeqOfNat, AscendingUnique DEF Enumerates
  <2>3. enum = [U \in SUBSET T |-> enum[U]]
    BY DEF enum
  <2> QED  BY <2>1, <2>2, <2>3
<1>5. iter = Step(iter)
  <2> HIDE DEF enum, Step
  <2> QED  BY <1>4
<1> HIDE DEF iter, enum
<1> DEFINE C == {U \in SUBSET T : ~ Enumerates(iter[U], U)}
           R == StrictSubsetOrdering(T)
<1>6. ASSUME C # {} PROVE FALSE
  <2>1. C \subseteq FiniteSubsetsOf(T)
    BY FS_FiniteSubsetsOfFinite
  <2>2. IsWellFoundedOn(R, FiniteSubsetsOf(T))
    BY FS_StrictSubsetOrderingWellFounded
  <2>3. PICK U \in C : \A V \in C : ~ (<<V, U>> \in R)
    <3> HIDE DEF C, R
    <3> QED  BY <1>6, <2>1, <2>2, WFMin
  <2>4. CASE U = {}
    <3>1. iter[U] = <<>>
      BY <1>5, <2>4
    <3>2. Enumerates(<<>>, {})
      BY DEF Enumerates, Ascending, Elems
    <3> QED  BY <2>4, <3>1, <3>2
  <2>5. CASE U # {}
    <3>1. pick(U) \in U /\ U \in SUBSET T /\ U \in SUBSET Nat
      BY <1>2, <2>5
    <3>2. iter[U] = Insert(iter[U \ {pick(U)}], pick(U))
      BY <1>5, <2>5, <3>1
    <3>3. <<U \ {pick(U)}, U>> \in R
      BY <3>1 DEF StrictSubsetOrdering
    <3>4. Enumerates(iter[U \ {pick(U)}], U \ {pick(U)})
      BY <2>3, <3>1, <3>3
    <3> QED  BY <3>1, <3>2, <3>4, InsertEnumerates
  <2> QED  BY <2>4, <2>5
<1> QED  BY <1>1, <1>6

-----------------------------------------------------------------------------
(* Complete rings.                                                         *)

\* Node IDs are numbers.
LEMMA RingOfNat ==
  ASSUME NEW r \in Seq(Servers)
  PROVE  r \in Seq(Nat) /\ Len(r) \in Nat /\ \A m \in 1 .. Len(r) : r[m] \in Servers /\ r[m] \in Nat
<1>1. r \in Seq(Nat)
  BY RingAssumption, SeqOfNat
<1> QED  BY <1>1

\* A ring is complete when it is as long as there are nodes (the test on len(ss.ring) of
\* RegisterServer and GetServers).
LEMMA FullRing ==
  ASSUME NEW r \in Seq(Servers), Ascending(r)
  PROVE  Elems(r) \subseteq Servers /\ Len(r) <= N /\ (Len(r) = N <=> Elems(r) = Servers)
<1>1. Elems(r) \in SUBSET Servers
  BY RingOfNat DEF Elems
<1>2. IsFiniteSet(Elems(r)) /\ Cardinality(Elems(r)) = Len(r)
  BY RingOfNat, LenIsCardinality
<1>3. IsFiniteSet(Servers)
  BY RingAssumption
<1> QED  BY <1>1, <1>2, <1>3, FS_Subset DEF N

\* SearchHashRing on a complete ring finds the owner: consistent hashing does what it says.
LEMMA FullRingFindsOwner ==
  ASSUME NEW r \in Seq(Servers), Ascending(r), Elems(r) = Servers, NEW k \in Keys
  PROVE  SearchHashRing(r, k) = Owner(k)
<1> DEFINE n     == BinarySearchUint32(r, k)
           after == {s \in Servers : s >= k}
           pool  == IF after # {} THEN after ELSE Servers
<1>1. /\ r \in Seq(Nat) /\ Len(r) \in Nat
      /\ \A m \in 1 .. Len(r) : r[m] \in Servers /\ r[m] \in Nat
  BY RingOfNat
<1>2. k \in Nat /\ Servers \subseteq Nat /\ Master \in Servers
  BY RingAssumption
<1>3. \A s \in Servers : \E m \in 1 .. Len(r) : r[m] = s
  BY DEF Elems
<1>4. /\ n \in 0 .. Len(r)
      /\ \A m \in 1 .. n : r[m] < k
      /\ \A m \in (n + 1) .. Len(r) : r[m] >= k
  BY <1>1, <1>2, SearchPlace
<1> HIDE DEF n
<1>5. ASSUME NEW p \in pool, \A t \in pool : p <= t
      PROVE  Owner(k) = p
  <2>1. pool \subseteq Nat
    BY <1>2
  <2>2. Owner(k) = CHOOSE s \in pool : \A t \in pool : s <= t
    BY DEF Owner
  <2> HIDE DEF pool
  <2>3. PICK q \in pool : q = Owner(k) /\ \A t \in pool : q <= t
    BY <1>5, <2>2
  <2>4. p <= q /\ q <= p /\ p \in Nat /\ q \in Nat
    BY <1>5, <2>1, <2>3
  <2> QED  BY <2>3, <2>4
<1>6. CASE n = Len(r)
  <2>1. after = {}
    <3> SUFFICES ASSUME NEW s \in Servers, s >= k PROVE FALSE
      OBVIOUS
    <3>1. PICK m \in 1 .. Len(r) : r[m] = s
      BY <1>3
    <3> QED  BY <1>1, <1>2, <1>4, <1>6, <3>1
  <2>2. Len(r) > 0
    BY <1>1, <1>2, <1>3
  <2>3. r[1] \in pool /\ \A t \in pool : r[1] <= t
    <3>1. r[1] \in Servers
      BY <1>1, <2>2
    <3>2. ASSUME NEW t \in Servers PROVE r[1] <= t
      <4>1. PICK m \in 1 .. Len(r) : r[m] = t
        BY <1>3
      <4> QED  BY <1>1, <2>2, <4>1 DEF Ascending
    <3> QED  BY <2>1, <3>1, <3>2
  <2>4. SearchHashRing(r, k) = r[1]
    BY <1>6 DEF SearchHashRing, n
  <2> HIDE DEF pool
  <2> QED  BY <1>5, <2>3, <2>4
<1>7. CASE n < Len(r)
  <2>1. n + 1 \in (n + 1) .. Len(r) /\ n + 1 \in 1 .. Len(r)
    BY <1>1, <1>4, <1>7
  <2>2. r[n + 1] \in after
    BY <1>1, <1>4, <2>1
  <2>3. ASSUME NEW t \in after PROVE r[n + 1] <= t
    <3>1. PICK m \in 1 .. Len(r) : r[m] = t
      BY <1>3
    <3>2. ~ (m <= n)
      BY <1>1, <1>2, <1>4, <3>1
    <3>3. n + 1 = m \/ n + 1 < m
      BY <1>4, <3>2
    <3> QED  BY <1>1, <2>1, <3>1, <3>3 DEF Ascending
  <2>4. r[n + 1] \in pool /\ \A t \in pool : r[n + 1] <= t
    BY <2>2, <2>3
  <2>5. SearchHashRing(r, k) = r[n + 1]
    BY <1>4, <1>7 DEF SearchHashRing, n
  <2> HIDE DEF pool
  <2> QED  BY <1>5, <2>4, <2>5
<1> QED  BY <1>1, <1>4, <1>6, <1>7

-----------------------------------------------------------------------------
(* The steps keep the invariant.                                           *)

\* A step that leaves the libstores, and the master and its ring, as they are.
LEMMA GivenKept ==
  ASSUME FullOnceGiven, libPhase' = libPhase,
         phase'[Master] = phase[Master], ring'[Master] = ring[Master]
  PROVE  FullOnceGiven'
BY DEF FullOnceGiven, Elems

\* Before anything starts.
LEMMA InitInv == Init => RingInv
<1> SUFFICES ASSUME Init PROVE RingInv
  OBVIOUS
<1>1. TypeOK
  <2>1. <<>> \in Seq(Servers)
    OBVIOUS
  <2>2. 0 \in 0 .. MaxDials /\ 0 \in 0 .. MaxAsks /\ 0 \in 0 .. MaxCrashes
    BY RingAssumption
  <2> QED  BY <2>1, <2>2 DEF Init, TypeOK, SrvPhases
<1>2. Ascending(<<>>)
  BY DEF Ascending
<1>3. RingsAscending /\ MasterInv /\ SlaveInv /\ ReadyInv /\ LibInv /\ FullOnceGiven
  BY <1>2, RingAssumption
     DEF Init, RingsAscending, MasterInv, SlaveInv, ReadyInv, LibInv, FullOnceGiven, Slaves
<1> QED  BY <1>1, <1>3 DEF RingInv

\* A process that dies leaves nothing behind that the others' rings depend on.
LEMMA DiesInv ==
  ASSUME RingInv, NEW s \in Servers, Dies(s), UNCHANGED libVars, crashes' \in 0 .. MaxCrashes
  PROVE  RingInv'
<1> USE DEF RingInv
<1>1. TypeOK'
  <2>1. /\ phase' \in [Servers -> SrvPhases]
        /\ ring' \in [Servers -> Seq(Servers)]
        /\ nodes' \in [Servers -> SUBSET Servers]
        /\ learn' \in [Servers -> SUBSET Servers]
        /\ stored' \in [Servers -> SUBSET Keys]
    BY DEF Dies, TypeOK, SrvPhases
  <2>2. tries' \in [Servers -> 0 .. MaxDials] /\ regLock' \in {Nil} \cup Slaves
    BY RingAssumption DEF Dies, TypeOK
  <2>3. conns' \in [Clients -> [Servers -> {"none", "open", "broken"}]]
    <3>1. ASSUME NEW c \in Clients
          PROVE  [conns[c] EXCEPT ![s] = IF @ = "open" THEN "broken" ELSE @]
                   \in [Servers -> {"none", "open", "broken"}]
      BY DEF TypeOK
    <3> QED  BY <3>1 DEF Dies
  <2> QED  BY <2>1, <2>2, <2>3 DEF TypeOK, libVars
<1>2. RingsAscending'
  BY DEF Dies, TypeOK, RingsAscending, Ascending, libVars
<1>3. MasterInv'
  <2>1. CASE s = Master
    <3>1. phase'[Master] = "dead" /\ regLock' = Nil /\ ring'[Master] = <<>>
      BY <2>1, RingAssumption DEF Dies, TypeOK
    <3> QED  BY <3>1 DEF MasterInv
  <2>2. CASE s # Master
    <3>1. /\ phase'[Master] = phase[Master] /\ nodes'[Master] = nodes[Master]
          /\ ring'[Master] = ring[Master] /\ regLock' = regLock
      BY <2>2, RingAssumption DEF Dies, TypeOK
    <3> QED  BY <3>1 DEF MasterInv, Elems
  <2> QED  BY <2>1, <2>2
<1>4. SlaveInv' /\ ReadyInv'
  <2>1. phase'[s] = "dead" /\ ring'[s] = <<>> /\ \A t \in Servers \ {s} : phase'[t] = phase[t] /\ ring'[t] = ring[t] /\ learn'[t] = learn[t]
    BY DEF Dies, TypeOK
  <2>2. SlaveInv'
    BY <2>1 DEF SlaveInv, Slaves
  <2>3. ReadyInv'
    BY <2>1 DEF ReadyInv
  <2> QED  BY <2>2, <2>3
<1>5. LibInv'
  BY DEF LibInv, libVars
<1>6. FullOnceGiven'
  <2>1. CASE s = Master
    <3>1. phase'[Master] = "dead"
      BY <2>1, RingAssumption DEF Dies, TypeOK
    <3> QED  BY <3>1 DEF FullOnceGiven
  <2>2. CASE s # Master
    <3>1. phase'[Master] = phase[Master] /\ ring'[Master] = ring[Master] /\ libPhase' = libPhase
      BY <2>2, RingAssumption DEF Dies, TypeOK, libVars
    <3> QED  BY <3>1, GivenKept
  <2> QED  BY <2>1, <2>2
<1> QED  BY <1>1, <1>2, <1>3, <1>4, <1>5, <1>6

\* Starting, and the steps of a slave that reach the master or give up.
LEMMA StartInv ==
  ASSUME RingInv, NEW s \in Servers, Start(s)
  PROVE  RingInv'
<1> USE DEF RingInv
<1>1. TypeOK'
  <2>1. <<s>> \in Seq(Servers) /\ <<>> \in Seq(Servers)
    OBVIOUS
  <2> QED  BY <2>1 DEF Start, TypeOK, SrvPhases, libVars
<1>2. Ascending(<<s>>) /\ Ascending(<<>>) /\ Elems(<<s>>) = {s}
  BY DEF Ascending, Elems
<1>3. RingsAscending'
  BY <1>2 DEF Start, TypeOK, RingsAscending, libVars
<1>4. MasterInv'
  BY <1>2, RingAssumption DEF Start, TypeOK, MasterInv, Slaves
<1>5. SlaveInv' /\ ReadyInv'
  BY DEF Start, TypeOK, SlaveInv, ReadyInv, Slaves
<1>6. LibInv'
  BY DEF Start, LibInv, libVars
<1>7. FullOnceGiven'
  <2>1. CASE s = Master
    <3>1. phase[Master] = "down" /\ libPhase' = libPhase
      BY <2>1 DEF Start, libVars
    <3> QED  BY <3>1 DEF FullOnceGiven
  <2>2. CASE s # Master
    <3>1. phase'[Master] = phase[Master] /\ ring'[Master] = ring[Master] /\ libPhase' = libPhase
      BY <2>2, RingAssumption DEF Start, TypeOK, libVars
    <3> QED  BY <3>1, GivenKept
  <2> QED  BY <2>1, <2>2
<1> QED  BY <1>1, <1>3, <1>4, <1>5, <1>6, <1>7

\* The dials of a slave.
LEMMA DialInv ==
  ASSUME RingInv, NEW s \in Servers, DialMaster(s) \/ DialFails(s)
  PROVE  RingInv'
<1> USE DEF RingInv, DialMaster, DialFails
<1>1. TypeOK'
  <2>1. tries' \in [Servers -> 0 .. MaxDials]
    BY RingAssumption DEF TypeOK
  <2>2. phase' \in [Servers -> SrvPhases]
    BY DEF TypeOK, SrvPhases
  <2> QED  BY <2>1, <2>2 DEF TypeOK, libVars
<1>2. s # Master
  BY DEF MasterInv
<1>3. RingsAscending' /\ LibInv'
  BY DEF RingsAscending, LibInv, libVars
<1>4. MasterInv' /\ FullOnceGiven'
  <2>1. phase'[Master] = phase[Master]
    BY <1>2, RingAssumption DEF TypeOK
  <2>2. nodes' = nodes /\ ring' = ring /\ regLock' = regLock /\ libPhase' = libPhase
    BY DEF libVars
  <2>3. MasterInv'
    BY <2>1, <2>2 DEF MasterInv
  <2> QED  BY <2>1, <2>2, <2>3, GivenKept
<1>5. SlaveInv' /\ ReadyInv'
  BY DEF TypeOK, SlaveInv, ReadyInv, Slaves
<1> QED  BY <1>1, <1>3, <1>4, <1>5

\* RegisterServer's first assignment: the new node goes into the master's ring.
LEMMA RegisterRingInv ==
  ASSUME RingInv, NEW s \in Servers, RegisterRing(s)
  PROVE  RingInv'
<1> USE DEF RingInv
<1>1. /\ phase[s] = "registering" /\ phase[Master] \in {"waiting", "ready"}
      /\ s # Master /\ s \in Slaves /\ s # Nil /\ Master \in Servers
      /\ regLock = Nil /\ s \notin nodes[Master] /\ Elems(ring[Master]) = nodes[Master]
  BY RingAssumption DEF RegisterRing, Listening, MasterInv, Slaves
<1>2. ring[Master] \in Seq(Servers) /\ Ascending(ring[Master]) /\ Servers \in SUBSET Nat
  BY RingAssumption DEF TypeOK, RingsAscending
<1>3. /\ Insert(ring[Master], s) \in Seq(Servers)
      /\ Ascending(Insert(ring[Master], s))
      /\ Elems(Insert(ring[Master], s)) = nodes[Master] \cup {s}
  BY <1>1, <1>2, InsertAscending
<1>4. /\ ring'[Master] = Insert(ring[Master], s)
      /\ \A t \in Slaves : ring'[t] = ring[t]
      /\ ring' \in [Servers -> Seq(Servers)]
      /\ regLock' = s
      /\ UNCHANGED <<phase, tries, nodes, learn, stored, libVars, conns, crashes>>
  BY <1>1, <1>3 DEF RegisterRing, TypeOK, Slaves
<1>5. TypeOK'
  BY <1>1, <1>4 DEF TypeOK, libVars
<1>6. RingsAscending'
  BY <1>3, <1>4 DEF RingsAscending, Slaves, libVars
<1>7. MasterInv'
  BY <1>1, <1>3, <1>4 DEF MasterInv
<1>8. SlaveInv'
  BY <1>4 DEF SlaveInv
<1>9. ReadyInv'
  <2>1. phase[Master] # "ready"
    BY <1>1 DEF ReadyInv, Slaves
  <2> QED  BY <1>4, <2>1 DEF ReadyInv, Slaves
<1>10. LibInv'
  BY <1>4 DEF LibInv, libVars
<1>11. FullOnceGiven'
  <2>1. \A c \in Clients : libPhase[c] # "on"
    BY <1>1 DEF FullOnceGiven, Slaves
  <2> QED  BY <1>4, <2>1 DEF FullOnceGiven, libVars
<1> QED  BY <1>5, <1>6, <1>7, <1>8, <1>9, <1>10, <1>11

\* The reply to a slave that registers, from the whole ring: it has everything to learn.
LEMMA RegisterReplyInv ==
  ASSUME RingInv, NEW s \in Slaves, NEW known \in SUBSET Servers,
         RegisterReply(s, known),
         Len(ring[Master]) >= N => known = Servers,
         UNCHANGED <<tries, ring, stored, libVars, conns, crashes>>,
         nodes' \in [Servers -> SUBSET Servers], regLock' \in {Nil} \cup Slaves
  PROVE  TypeOK' /\ RingsAscending' /\ SlaveInv' /\ ReadyInv' /\ LibInv' /\ FullOnceGiven'
<1> USE DEF RingInv
<1>1. RingsAscending' /\ LibInv' /\ FullOnceGiven'
  <2>1. phase'[Master] = phase[Master]
    BY RingAssumption DEF RegisterReply, TypeOK, Slaves
  <2>2. FullOnceGiven'
    BY <2>1, GivenKept DEF libVars
  <2> QED  BY <2>2 DEF RingsAscending, LibInv, libVars
<1>2. CASE Len(ring[Master]) >= N /\ phase[s] = "registering"
  <2>1. /\ known = Servers
        /\ learn' = [learn EXCEPT ![s] = known]
        /\ phase' = [phase EXCEPT ![s] = "learning"]
    BY <1>2 DEF RegisterReply
  <2>2. ring[s] = <<>> /\ Elems(<<>>) = {}
    BY <1>2 DEF SlaveInv, Elems
  <2>3. TypeOK'
    BY <2>1 DEF TypeOK, SrvPhases, libVars
  <2>4. SlaveInv'
    BY <2>1, <2>2 DEF SlaveInv, TypeOK, Slaves
  <2>5. ReadyInv'
    BY <2>1 DEF ReadyInv, TypeOK, Slaves
  <2> QED  BY <1>1, <2>3, <2>4, <2>5
<1>3. CASE ~ (Len(ring[Master]) >= N /\ phase[s] = "registering")
  <2>1. UNCHANGED <<learn, phase>>
    BY <1>3 DEF RegisterReply
  <2> QED  BY <1>1, <2>1 DEF TypeOK, SlaveInv, ReadyInv, libVars
<1> QED  BY <1>2, <1>3

\* RegisterServer's second assignment and its reply: the new node goes into ss.nodes.
LEMMA RegisterNodeInv ==
  ASSUME RingInv, NEW s \in Servers, RegisterNode(s)
  PROVE  RingInv'
<1> USE DEF RingInv
<1>1. /\ regLock = s /\ s \in Slaves /\ s # Nil /\ s # Master /\ Master \in Servers
      /\ phase[Master] \in {"waiting", "ready"}
      /\ Elems(ring[Master]) = nodes[Master] \cup {s} /\ Master \in nodes[Master]
  BY RingAssumption DEF RegisterNode, TypeOK, MasterInv, Slaves
<1>2. Len(ring[Master]) >= N => nodes[Master] \cup {s} = Servers
  <2>1. ring[Master] \in Seq(Servers) /\ Ascending(ring[Master])
    BY <1>1 DEF TypeOK, RingsAscending
  <2>2. Len(ring[Master]) <= N /\ (Len(ring[Master]) = N <=> Elems(ring[Master]) = Servers)
    BY <2>1, FullRing
  <2>3. Len(ring[Master]) \in Nat /\ N \in Nat
    BY <2>1, RingAssumption, FS_CardinalityType DEF N
  <2> QED  BY <1>1, <2>2, <2>3
<1>3. /\ nodes' = [nodes EXCEPT ![Master] = @ \cup {s}] /\ regLock' = Nil
      /\ nodes' \in [Servers -> SUBSET Servers]
      /\ nodes[Master] \cup {s} \in SUBSET Servers
      /\ nodes'[Master] = nodes[Master] \cup {s}
      /\ RegisterReply(s, nodes[Master] \cup {s})
      /\ UNCHANGED <<tries, ring, stored, libVars, conns, crashes>>
  BY <1>1 DEF RegisterNode, TypeOK
<1>4. TypeOK' /\ RingsAscending' /\ SlaveInv' /\ ReadyInv' /\ LibInv' /\ FullOnceGiven'
  BY <1>1, <1>2, <1>3, RegisterReplyInv
<1>5. MasterInv'
  <2>1. phase'[Master] = phase[Master]
    BY <1>1, <1>3 DEF RegisterReply, TypeOK
  <2>2. Nil \notin nodes'[Master]
    BY <1>1, <1>3, RingAssumption DEF TypeOK
  <2> QED  BY <1>1, <1>3, <2>1, <2>2 DEF MasterInv
<1> QED  BY <1>4, <1>5

\* A slave that registers again gets the reply only.
LEMMA RegisterAgainInv ==
  ASSUME RingInv, NEW s \in Servers, RegisterAgain(s)
  PROVE  RingInv'
<1> USE DEF RingInv
<1>1. /\ phase[s] = "registering" /\ s \in Slaves /\ s # Master /\ Master \in Servers
      /\ regLock = Nil /\ nodes[Master] \in SUBSET Servers
      /\ phase[Master] \in {"waiting", "ready"}
      /\ Elems(ring[Master]) = nodes[Master]
  BY RingAssumption DEF RegisterAgain, Listening, TypeOK, MasterInv, Slaves
<1>2. Len(ring[Master]) >= N => nodes[Master] = Servers
  <2>1. ring[Master] \in Seq(Servers) /\ Ascending(ring[Master])
    BY <1>1 DEF TypeOK, RingsAscending
  <2>2. Len(ring[Master]) <= N /\ (Len(ring[Master]) = N <=> Elems(ring[Master]) = Servers)
    BY <2>1, FullRing
  <2>3. Len(ring[Master]) \in Nat /\ N \in Nat
    BY <2>1, RingAssumption, FS_CardinalityType DEF N
  <2> QED  BY <1>1, <2>2, <2>3
<1>3. /\ RegisterReply(s, nodes[Master])
      /\ UNCHANGED <<tries, ring, nodes, regLock, stored, libVars, conns, crashes>>
      /\ nodes' \in [Servers -> SUBSET Servers] /\ regLock' \in {Nil} \cup Slaves
  BY DEF RegisterAgain, TypeOK
<1>4. TypeOK' /\ RingsAscending' /\ SlaveInv' /\ ReadyInv' /\ LibInv' /\ FullOnceGiven'
  BY <1>1, <1>2, <1>3, RegisterReplyInv
<1>5. MasterInv'
  <2>1. phase'[Master] = phase[Master]
    BY <1>1, <1>3 DEF RegisterReply, TypeOK
  <2> QED  BY <1>3, <2>1 DEF MasterInv
<1> QED  BY <1>4, <1>5

\* One turn of the slave's loop over the reply moves a node from what it has to learn into
\* its ring.
LEMMA LearnInv ==
  ASSUME RingInv, NEW s \in Servers, Learn(s)
  PROVE  RingInv'
<1> USE DEF RingInv
<1>1. PICK id \in learn[s] :
        /\ ring' = [ring EXCEPT ![s] = Insert(@, id)]
        /\ nodes' = [nodes EXCEPT ![s] = @ \cup {id}]
        /\ learn' = [learn EXCEPT ![s] = @ \ {id}]
  BY DEF Learn
<1>2. /\ phase[s] = "learning" /\ s # Master /\ s \in Slaves
      /\ UNCHANGED <<phase, tries, regLock, stored, libVars, conns, crashes>>
  BY DEF Learn, MasterInv, Slaves
<1>3. /\ id \in Servers /\ id \notin Elems(ring[s])
      /\ ring[s] \in Seq(Servers) /\ Ascending(ring[s]) /\ Servers \in SUBSET Nat
  BY <1>2, RingAssumption DEF TypeOK, RingsAscending, SlaveInv
<1>4. /\ Insert(ring[s], id) \in Seq(Servers)
      /\ Ascending(Insert(ring[s], id))
      /\ Elems(Insert(ring[s], id)) = Elems(ring[s]) \cup {id}
  BY <1>3, InsertAscending
<1>5. /\ ring'[s] = Insert(ring[s], id) /\ learn'[s] = learn[s] \ {id}
      /\ \A t \in Servers \ {s} : ring'[t] = ring[t] /\ nodes'[t] = nodes[t] /\ learn'[t] = learn[t]
      /\ ring' \in [Servers -> Seq(Servers)]
      /\ nodes' \in [Servers -> SUBSET Servers]
      /\ learn' \in [Servers -> SUBSET Servers]
  BY <1>1, <1>3, <1>4 DEF TypeOK
<1>6. TypeOK'
  BY <1>2, <1>5 DEF TypeOK, libVars
<1>7. RingsAscending'
  BY <1>2, <1>4, <1>5 DEF RingsAscending, libVars
<1>8. MasterInv'
  BY <1>2, <1>5, RingAssumption DEF MasterInv
<1>9. SlaveInv'
  <2>1. learn'[s] \cap Elems(ring'[s]) = {} /\ learn'[s] \cup Elems(ring'[s]) = Servers
    BY <1>1, <1>2, <1>4, <1>5 DEF SlaveInv
  <2> QED  BY <1>2, <1>5, <2>1 DEF SlaveInv, Slaves
<1>10. ReadyInv'
  BY <1>2, <1>5 DEF ReadyInv
<1>11. LibInv' /\ FullOnceGiven'
  <2>1. phase'[Master] = phase[Master] /\ ring'[Master] = ring[Master] /\ libPhase' = libPhase
    BY <1>2, <1>5, RingAssumption DEF libVars
  <2> QED  BY <1>2, <2>1, GivenKept DEF LibInv, libVars
<1> QED  BY <1>6, <1>7, <1>8, <1>9, <1>10, <1>11

\* NewStorageServer returns with the whole ring.
LEMMA ReadyStepInv ==
  ASSUME RingInv, NEW s \in Servers, Ready(s)
  PROVE  RingInv'
<1> USE DEF RingInv
<1>1. /\ phase' = [phase EXCEPT ![s] = "ready"]
      /\ UNCHANGED <<tries, ring, nodes, learn, regLock, stored, libVars, conns, crashes>>
      /\ phase'[s] = "ready" /\ \A t \in Servers \ {s} : phase'[t] = phase[t]
  BY DEF Ready, TypeOK
<1>2. TypeOK'
  BY <1>1 DEF TypeOK, SrvPhases, libVars
<1>3. Elems(ring[s]) = Servers
  <2>1. CASE phase[s] = "learning" /\ learn[s] = {}
    BY <2>1 DEF MasterInv, SlaveInv, Slaves
  <2>2. CASE phase[s] = "waiting" /\ Len(ring[s]) >= N
    <3>1. ring[s] \in Seq(Servers) /\ Ascending(ring[s])
      BY DEF TypeOK, RingsAscending
    <3>2. Len(ring[s]) <= N /\ (Len(ring[s]) = N <=> Elems(ring[s]) = Servers)
      BY <3>1, FullRing
    <3>3. Len(ring[s]) \in Nat /\ N \in Nat
      BY <3>1, RingAssumption, FS_CardinalityType DEF N
    <3> QED  BY <2>2, <3>2, <3>3
  <2> QED  BY <2>1, <2>2 DEF Ready
<1>4. MasterInv'
  <2>1. s = Master => phase[Master] = "waiting"
    BY DEF Ready, MasterInv
  <2> QED  BY <1>1, <2>1, RingAssumption DEF MasterInv
<1>5. SlaveInv' /\ ReadyInv'
  BY <1>1, <1>3 DEF SlaveInv, ReadyInv, Slaves
<1>6. RingsAscending' /\ LibInv'
  BY <1>1 DEF RingsAscending, LibInv, libVars
<1>7. FullOnceGiven'
  <2>1. CASE s = Master
    BY <1>1, <1>3, <2>1 DEF FullOnceGiven, libVars
  <2>2. CASE s # Master
    <3>1. phase'[Master] = phase[Master] /\ ring'[Master] = ring[Master] /\ libPhase' = libPhase
      BY <1>1, <2>2, RingAssumption DEF libVars
    <3> QED  BY <3>1, GivenKept
  <2> QED  BY <2>1, <2>2
<1> QED  BY <1>2, <1>4, <1>5, <1>6, <1>7

\* A libstore step that leaves the servers alone keeps what is said of them.
LEMMA ServersKept ==
  ASSUME RingInv, UNCHANGED srvVars
  PROVE  MasterInv' /\ SlaveInv' /\ ReadyInv' /\ \A s \in Servers : Ascending(ring'[s])
BY DEF RingInv, srvVars, MasterInv, SlaveInv, ReadyInv, RingsAscending

\* A libstore that fails, or has only begun to ask, gets no ring.
LEMMA LibPhaseInv ==
  ASSUME RingInv, NEW c \in Clients, UNCHANGED <<srvVars, stored, conns, crashes>>,
         LibFails(c) \/ (/\ libPhase[c] = "off" /\ UNCHANGED <<asked, libRing>>
                         /\ libPhase' = [libPhase EXCEPT ![c] = "asking"])
  PROVE  RingInv'
<1> USE DEF RingInv
<1>1. TypeOK'
  <2>1. 0 \in 0 .. MaxAsks
    BY RingAssumption
  <2> QED  BY <2>1 DEF TypeOK, LibFails, srvVars
<1>2. libRing' = libRing
  BY DEF LibFails
<1>3. RingsAscending'
  BY <1>2, ServersKept DEF RingsAscending
<1>4. LibInv'
  BY DEF LibInv, TypeOK, LibFails
<1>5. FullOnceGiven'
  BY DEF FullOnceGiven, TypeOK, LibFails, srvVars
<1> QED  BY <1>1, <1>3, <1>4, <1>5, ServersKept

\* GetServers answers with nodes of the ring once there are enough, and NewLibstore sorts
\* them.
LEMMA GetServersInv ==
  ASSUME RingInv, NEW c \in Clients, GetServers(c)
  PROVE  RingInv'
<1> USE DEF RingInv
<1>1. UNCHANGED <<srvVars, stored, conns, crashes>> /\ libPhase[c] = "asking" /\ libRing[c] = <<>>
  BY DEF GetServers, LibInv
<1>2. MasterInv' /\ SlaveInv' /\ ReadyInv' /\ \A s \in Servers : Ascending(ring'[s])
  BY <1>1, ServersKept
<1>3. CASE /\ Len(ring[Master]) >= N
           /\ libRing' = [libRing EXCEPT ![c] = FoldSet(LAMBDA id, r : Insert(r, id), <<>>, nodes[Master])]
           /\ libPhase' = [libPhase EXCEPT ![c] = "on"]
           /\ asked' = [asked EXCEPT ![c] = 0]
  <2> DEFINE got == FoldSet(LAMBDA id, r : Insert(r, id), <<>>, nodes[Master])
  <2>1. /\ phase[Master] \in {"waiting", "ready"} /\ Master \in nodes[Master]
        /\ nodes[Master] \in SUBSET Servers
    BY RingAssumption DEF GetServers, Listening, MasterInv, TypeOK
  <2>2. nodes[Master] \in SUBSET Nat /\ IsFiniteSet(nodes[Master])
    BY <2>1, RingAssumption, FS_Subset
  <2>3. Enumerates(got, nodes[Master])
    BY <2>2, FoldEnumerates
  <2>4. libRing' = [libRing EXCEPT ![c] = got]
    BY <1>3
  <2> HIDE DEF got
  <2>5. got \in Seq(Servers)
    <3>1. Len(got) \in Nat /\ got = [m \in 1 .. Len(got) |-> got[m]]
          /\ \A m \in 1 .. Len(got) : got[m] \in Servers
      BY <2>1, <2>3 DEF Enumerates
    <3>2. got \in [1 .. Len(got) -> Servers]
      BY <3>1
    <3> QED  BY <3>1, <3>2
  <2>6. Ascending(got) /\ got # <<>>
    BY <2>1, <2>3 DEF Enumerates, Elems
  <2>7. TypeOK'
    <3>1. 0 \in 0 .. MaxAsks
      BY RingAssumption
    <3> QED  BY <1>1, <1>3, <2>4, <2>5, <3>1 DEF TypeOK, srvVars
  <2>8. libRing'[c] = got /\ \A d \in Clients \ {c} : libRing'[d] = libRing[d]
    BY <2>4 DEF TypeOK
  <2>9. RingsAscending'
    BY <1>2, <2>6, <2>8 DEF RingsAscending
  <2>10. LibInv'
    BY <1>3, <2>6, <2>8 DEF LibInv, TypeOK
  <2>11. FullOnceGiven'
    <3>1. ring[Master] \in Seq(Servers) /\ Ascending(ring[Master])
      BY RingAssumption DEF TypeOK, RingsAscending
    <3>2. Len(ring[Master]) <= N /\ (Len(ring[Master]) = N <=> Elems(ring[Master]) = Servers)
      BY <3>1, FullRing
    <3>3. Len(ring[Master]) \in Nat /\ N \in Nat
      BY <3>1, RingAssumption, FS_CardinalityType DEF N
    <3>4. Len(ring[Master]) >= N
      BY <1>3
    <3>5. Elems(ring[Master]) = Servers
      BY <3>2, <3>3, <3>4
    <3> QED  BY <1>1, <2>1, <3>5 DEF FullOnceGiven, srvVars
  <2> QED  BY <1>2, <2>7, <2>9, <2>10, <2>11
<1>4. CASE /\ asked[c] + 1 < MaxAsks
           /\ asked' = [asked EXCEPT ![c] = @ + 1] /\ UNCHANGED <<libPhase, libRing>>
  <2>1. asked' \in [Clients -> 0 .. MaxAsks]
    BY <1>4, RingAssumption DEF TypeOK
  <2>2. TypeOK'
    BY <1>1, <1>4, <2>1 DEF TypeOK, srvVars
  <2>3. FullOnceGiven'
    BY <1>1, <1>4 DEF FullOnceGiven, srvVars
  <2> QED  BY <1>2, <1>4, <2>2, <2>3 DEF RingsAscending, LibInv
<1>5. CASE LibFails(c)
  BY <1>1, <1>5, LibPhaseInv
<1> QED  BY <1>3, <1>4, <1>5 DEF GetServers

\* A libstore with a ring connects to a server.
LEMMA DialServerInv ==
  ASSUME RingInv, NEW c \in Clients, NEW k \in Keys, NEW s \in Servers, DialServer(c, k, s)
  PROVE  RingInv'
<1> USE DEF RingInv
<1>1. UNCHANGED <<srvVars, stored, libVars, crashes>> /\ conns' = [conns EXCEPT ![c][s] = "open"]
  BY DEF DialServer
<1>2. conns' \in [Clients -> [Servers -> {"none", "open", "broken"}]]
  <2>1. [conns[c] EXCEPT ![s] = "open"] \in [Servers -> {"none", "open", "broken"}]
    BY DEF TypeOK
  <2> QED  BY <1>1, <2>1 DEF TypeOK
<1>3. TypeOK'
  BY <1>1, <1>2 DEF TypeOK, srvVars, libVars
<1>4. RingsAscending' /\ LibInv'
  BY <1>1, ServersKept DEF RingsAscending, LibInv, libVars
<1>5. FullOnceGiven'
  BY <1>1, GivenKept DEF libVars, srvVars
<1> QED  BY <1>1, <1>3, <1>4, <1>5, ServersKept

\* A write changes what is stored and nothing else.
LEMMA WriteInv ==
  ASSUME RingInv, NEW c \in Clients, NEW k \in Keys, NEW s \in Servers, Write(c, k, s)
  PROVE  RingInv'
<1> USE DEF RingInv
<1>1. /\ UNCHANGED <<srvVars, libVars, conns, crashes>>
      /\ stored' = [stored EXCEPT ![s] = @ \cup {k}]
  BY DEF Write
<1>2. TypeOK'
  BY <1>1 DEF TypeOK, srvVars, libVars
<1>3. RingsAscending' /\ LibInv'
  BY <1>1, ServersKept DEF RingsAscending, LibInv, libVars
<1>4. FullOnceGiven'
  BY <1>1, GivenKept DEF libVars, srvVars
<1> QED  BY <1>1, <1>2, <1>3, <1>4, ServersKept

\* Where a write lands.  A server whose ring is neither empty nor being filled knows the
\* whole of it, and its range check finds the owner; at a slave whose ring is being filled
\* the key is right if the libstore that sent it knows the whole ring.
LEMMA WriteLands ==
  ASSUME RingInv, NEW c \in Clients, NEW k \in Keys, NEW s \in Servers, Write(c, k, s)
  PROVE  s = Owner(k) \/ (Moving(s) /\ libPhase[c] = "on" /\ ~Complete(c))
<1> USE DEF RingInv
<1>1. /\ libPhase[c] = "on" /\ SearchHashRing(libRing[c], k) = s
      /\ ring[s] # <<>> /\ (Moving(s) \/ SearchHashRing(ring[s], k) = s)
  BY DEF Write, Arrives, Routed, keyRangeContains
<1>2. CASE Moving(s) /\ Complete(c)
  <2>1. libRing[c] \in Seq(Servers) /\ Ascending(libRing[c]) /\ Len(libRing[c]) = N
    BY <1>2 DEF TypeOK, RingsAscending, Complete
  <2>2. Elems(libRing[c]) = Servers
    BY <2>1, FullRing
  <2> QED  BY <1>1, <2>1, <2>2, FullRingFindsOwner
<1>3. CASE ~Moving(s)
  <2>1. ring[s] \in Seq(Servers) /\ Ascending(ring[s])
    BY DEF TypeOK, RingsAscending
  <2>2. Elems(ring[s]) = Servers
    <3>1. CASE s = Master
      BY <1>1, <3>1 DEF MasterInv, FullOnceGiven
    <3>2. CASE s \in Slaves
      <4>1. phase[s] \in {"learning", "ready"}
        BY <1>1, <3>2 DEF TypeOK, SrvPhases, SlaveInv
      <4>2. phase[s] = "learning" => learn[s] = {}
        BY <1>3 DEF Moving
      <4> QED  BY <3>2, <4>1, <4>2 DEF SlaveInv, ReadyInv
    <3> QED  BY <3>1, <3>2 DEF Slaves
  <2> QED  BY <1>1, <1>3, <2>1, <2>2, FullRingFindsOwner
<1> QED  BY <1>1, <1>2, <1>3

\* No other step stores anything.
LEMMA OnlyWritesStore ==
  ASSUME RingInv, Next,
         \A c \in Clients, k \in Keys, s \in Servers : ~ Write(c, k, s)
  PROVE  \A s \in Servers : stored'[s] \subseteq stored[s]
<1> USE DEF RingInv
<1>1. ASSUME NEW s \in Servers, Dies(s)
      PROVE  \A t \in Servers : stored'[t] \subseteq stored[t]
  BY <1>1 DEF Dies, TypeOK
<1>2. ASSUME NEW s \in Servers, Start(s) \/ Join(s) \/ Crash(s)
      PROVE  \A t \in Servers : stored'[t] \subseteq stored[t]
  <2>1. Dies(s) \/ stored' = stored
    BY <1>2 DEF Start, Join, Crash, DialMaster, DialFails, GiveUp, RegisterRing, RegisterNode,
                RegisterAgain, RegisterFails, Learn, Ready
  <2> QED  BY <1>1, <2>1
<1>3. ASSUME NEW c \in Clients, Ask(c)
      PROVE  \A t \in Servers : stored'[t] \subseteq stored[t]
  <2>1. Dies(Master) \/ stored' = stored
    BY <1>3 DEF Ask, LibDial, GetServers, MapRace, GetServersFails
  <2> QED  BY <1>1, <2>1, RingAssumption
<1>4. ASSUME NEW c \in Clients, NEW k \in Keys, NEW s \in Servers, Request(c, k, s)
      PROVE  \A t \in Servers : stored'[t] \subseteq stored[t]
  <2>1. Dies(s) \/ stored' = stored
    BY <1>4 DEF Request, DialServer, EmptyRingPanic, RouteFails
  <2> QED  BY <1>1, <2>1
<1> QED  BY <1>2, <1>3, <1>4 DEF Next

\* Every step keeps the invariant.
LEMMA NextInv == RingInv /\ [Next]_vars => RingInv'
<1> SUFFICES ASSUME RingInv, [Next]_vars PROVE RingInv'
  OBVIOUS
<1>1. crashes \in 0 .. MaxCrashes /\ MaxCrashes \in Nat
  BY RingAssumption DEF RingInv, TypeOK
<1>2. ASSUME NEW s \in Servers, Start(s) \/ Join(s) \/ Crash(s)
      PROVE  RingInv'
  <2>1. CASE Start(s)
    BY <2>1, StartInv
  <2>2. CASE DialMaster(s) \/ DialFails(s)
    BY <2>2, DialInv
  <2>3. CASE GiveUp(s) \/ RegisterFails(s)
    <3>1. Dies(s) /\ UNCHANGED libVars /\ crashes' \in 0 .. MaxCrashes
      BY <1>1, <2>3 DEF GiveUp, RegisterFails
    <3> QED  BY <3>1, DiesInv
  <2>4. CASE RegisterRing(s)
    BY <2>4, RegisterRingInv
  <2>5. CASE RegisterNode(s)
    BY <2>5, RegisterNodeInv
  <2>6. CASE RegisterAgain(s)
    BY <2>6, RegisterAgainInv
  <2>7. CASE Learn(s)
    BY <2>7, LearnInv
  <2>8. CASE Ready(s)
    BY <2>8, ReadyStepInv
  <2>9. CASE Crash(s)
    <3>1. Dies(s) /\ UNCHANGED libVars /\ crashes' \in 0 .. MaxCrashes
      BY <1>1, <2>9 DEF Crash
    <3> QED  BY <3>1, DiesInv
  <2> QED  BY <1>2, <2>1, <2>2, <2>3, <2>4, <2>5, <2>6, <2>7, <2>8, <2>9 DEF Join
<1>3. ASSUME NEW c \in Clients, Ask(c)
      PROVE  RingInv'
  <2>1. CASE LibDial(c)
    BY <2>1, LibPhaseInv DEF LibDial
  <2>2. CASE GetServers(c)
    BY <2>2, GetServersInv
  <2>3. CASE MapRace(c)
    <3>1. Dies(Master) /\ UNCHANGED libVars /\ crashes' \in 0 .. MaxCrashes /\ Master \in Servers
      BY <1>1, <2>3, RingAssumption DEF MapRace
    <3> QED  BY <3>1, DiesInv
  <2>4. CASE GetServersFails(c)
    BY <2>4, LibPhaseInv DEF GetServersFails
  <2> QED  BY <1>3, <2>1, <2>2, <2>3, <2>4 DEF Ask
<1>4. ASSUME NEW c \in Clients, NEW k \in Keys, NEW s \in Servers, Request(c, k, s)
      PROVE  RingInv'
  <2>1. CASE DialServer(c, k, s)
    BY <2>1, DialServerInv
  <2>2. CASE Write(c, k, s)
    BY <2>2, WriteInv
  <2>3. CASE EmptyRingPanic(c, k, s)
    <3>1. Dies(s) /\ UNCHANGED libVars /\ crashes' \in 0 .. MaxCrashes
      BY <1>1, <2>3 DEF EmptyRingPanic
    <3> QED  BY <3>1, DiesInv
  <2>4. CASE RouteFails(c, k, s)
    BY <2>4, LibPhaseInv DEF RouteFails
  <2> QED  BY <1>4, <2>1, <2>2, <2>3, <2>4 DEF Request
<1>5. CASE UNCHANGED vars
  <2>1. UNCHANGED <<srvVars, stored, libVars, conns, crashes>>
    BY <1>5 DEF vars
  <2>2. TypeOK' /\ RingsAscending' /\ LibInv'
    BY <2>1, ServersKept DEF RingInv, TypeOK, RingsAscending, LibInv, srvVars, libVars
  <2>3. FullOnceGiven'
    BY <2>1, GivenKept DEF RingInv, libVars, srvVars
  <2> QED  BY <2>1, <2>2, <2>3, ServersKept DEF RingInv
<1> QED  BY <1>2, <1>3, <1>4, <1>5 DEF Next

-----------------------------------------------------------------------------
(* The theorems.                                                           *)

\* The inductive invariant of the formation of the ring: all rings are sorted, the master's
\* holds the nodes registered, and a slave's and what it has to learn make up the whole.
THEOREM RingAlways == Spec => []RingInv
BY InitInv, NextInv, PTL DEF Spec

\* The variables of NewStorageServer, RegisterServer and NewLibstore stay within their types.
THEOREM TypeSafe == Spec => []TypeOK
<1>1. RingInv => TypeOK
  BY DEF RingInv
<1> QED  BY <1>1, RingAlways, PTL

\* A server whose NewStorageServer has returned knows the whole ring and takes exactly the
\* keys it owns by consistent hashing, whatever the order of the registrations, retries,
\* crashes and restarts (RegisterServer, the slave's loop, SearchHashRing).
THEOREM ReadyServersServeTheirKeys == Spec => []ReadyServersPartitionKeys
<1>1. RingInv => ReadyServersPartitionKeys
  <2> SUFFICES ASSUME RingInv, NEW s \in Servers, NEW k \in Keys, phase[s] = "ready"
               PROVE  Len(ring[s]) = N /\ (keyRangeContains(s, k) <=> s = Owner(k))
    BY DEF ReadyServersPartitionKeys
  <2>1. ring[s] \in Seq(Servers) /\ Ascending(ring[s]) /\ Elems(ring[s]) = Servers
    BY DEF RingInv, TypeOK, RingsAscending, ReadyInv
  <2>2. Len(ring[s]) = N /\ SearchHashRing(ring[s], k) = Owner(k)
    BY <2>1, FullRing, FullRingFindsOwner
  <2> QED  BY <2>2 DEF keyRangeContains
<1> QED  BY <1>1, RingAlways, PTL

\* A key is written at its owner and nowhere else, whatever the servers and the libstores
\* know of the ring, except at a slave that is still inserting the reply's nodes while some
\* libstore has a ring with a node missing (getStorageServer, keyRangeContains, GetServers).
THEOREM KeysStoredAtOwners == Spec => StoredAtOwner
<1> DEFINE Lands ==
      \A s \in Servers, k \in Keys :
        k \in stored'[s] \ stored[s] =>
          \/ s = Owner(k)
          \/ Moving(s) /\ \E c \in Clients : libPhase[c] = "on" /\ ~Complete(c)
<1>1. RingInv /\ [Next]_vars => [Lands]_vars
  <2> SUFFICES ASSUME RingInv, Next PROVE Lands
    OBVIOUS
  <2>1. CASE \E c \in Clients, x \in Keys, t \in Servers : Write(c, x, t)
    <3>1. PICK c \in Clients, x \in Keys, t \in Servers : Write(c, x, t)
      BY <2>1
    <3>2. t = Owner(x) \/ (Moving(t) /\ libPhase[c] = "on" /\ ~Complete(c))
      BY <3>1, WriteLands
    <3>3. \A s \in Servers, k \in Keys : k \in stored'[s] \ stored[s] => s = t /\ k = x
      BY <3>1 DEF Write, RingInv, TypeOK
    <3> QED  BY <3>2, <3>3
  <2>2. CASE ~ \E c \in Clients, x \in Keys, t \in Servers : Write(c, x, t)
    BY <2>2, OnlyWritesStore
  <2> QED  BY <2>1, <2>2
<1>2. StoredAtOwner <=> [][Lands]_vars
  BY DEF StoredAtOwner
<1> QED  BY <1>1, <1>2, RingAlways, PTL DEF Spec
=============================================================================
