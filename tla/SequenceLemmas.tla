--------------------------- MODULE SequenceLemmas ---------------------------
(***************************************************************************)
(* What FlattenSeq of the community modules makes of sequences.  It is a   *)
(* recursive function, so that this has to be proved by induction over the *)
(* length of a sequence, which is done here over a set of numbers          *)
(* (LeastNumber, SetInduction): the induction theorems of the library take *)
(* an operator, which the provers cannot instantiate.                      *)
(***************************************************************************)
EXTENDS Integers, SequencesExt, FiniteSetTheorems, SequenceTheorems, TLAPS

-----------------------------------------------------------------------------
(* The least number of a set, and induction over one.                      *)

LEMMA LeastOfFinite ==
    ASSUME NEW S \in SUBSET Nat, IsFiniteSet(S), S # {}
    PROVE  \E m \in S : \A n \in S : m <= n
  <1> DEFINE UpTo(m) == {n \in S : n <= m}
             T == {UpTo(m) : m \in S}
  <1>1. T \subseteq FiniteSubsetsOf(S) /\ T # {}
    <2> SUFFICES ASSUME NEW m \in S PROVE UpTo(m) \in FiniteSubsetsOf(S)
      OBVIOUS
    <2>1. UpTo(m) \subseteq S /\ IsFiniteSet(UpTo(m))
      BY FS_Subset
    <2> QED BY <2>1 DEF FiniteSubsetsOf
  <1> HIDE DEF T
  <1>2. PICK u \in T : \A v \in T : ~(<<v, u>> \in StrictSubsetOrdering(S))
    <2>1. IsWellFoundedOn(StrictSubsetOrdering(S), FiniteSubsetsOf(S))
      BY FS_StrictSubsetOrderingWellFounded
    <2> QED BY <1>1, <2>1, WFMin
  <1>3. PICK m \in S : u = UpTo(m)
    BY DEF T
  <1>4. ASSUME NEW n \in S, n < m PROVE FALSE
    <2>1. UpTo(n) \in T
      BY DEF T
    <2>2. UpTo(n) \subseteq UpTo(m) /\ m \in UpTo(m) /\ m \notin UpTo(n) /\ UpTo(m) \subseteq S
      <3>1. m \in Nat /\ n \in Nat /\ \A x \in S : x \in Nat
        OBVIOUS
      <3>2. \A x \in UpTo(n) : x \in S /\ x <= m
        BY <1>4, <3>1
      <3>3. \A x \in UpTo(n) : x \in UpTo(m)
        BY <3>2
      <3>4. m \in UpTo(m) /\ m \notin UpTo(n)
        BY <1>4, <3>1
      <3>5. UpTo(n) \subseteq UpTo(m) /\ UpTo(m) \subseteq S
        BY <3>3
      <3> QED BY <3>4, <3>5
    <2> HIDE DEF UpTo
    <2>3. <<UpTo(n), u>> \in StrictSubsetOrdering(S)
      BY <1>3, <2>2 DEF StrictSubsetOrdering
    <2> QED BY <1>2, <2>1, <2>3
  <1> QED BY <1>4

LEMMA LeastNumber ==
    ASSUME NEW S \in SUBSET Nat, S # {}
    PROVE  \E m \in S : \A n \in S : m <= n
  <1>1. PICK k \in S : k \in Nat
    OBVIOUS
  <1> DEFINE L == S \cap (0..k)
  <1>2. L \in SUBSET Nat /\ k \in L
    BY <1>1
  <1>4. IsFiniteSet(L)
    <2>1. IsFiniteSet(0..k)
      BY <1>1, FS_Interval
    <2> QED BY <2>1, FS_Subset
  <1>3. PICK m \in L : \A n \in L : m <= n
    BY <1>2, <1>4, LeastOfFinite
  <1>5. \A n \in S \ L : k < n
    BY <1>1
  <1> QED BY <1>1, <1>2, <1>3, <1>5

-----------------------------------------------------------------------------
(* A sequence of sequences, put together.                                  *)

\* f[i] is what the first i of them give.
Gathers(f, seqs) ==
    f = [i \in 1..Len(seqs) |-> IF i = 1 THEN seqs[i] ELSE f[i - 1] \o seqs[i]]

LEMMA GathersExtends ==
    ASSUME NEW s, NEW t, NEW f, Gathers(f, s), Len(s) \in Nat \ {0},
           Len(t) = Len(s) + 1, \A i \in 1..Len(s) : t[i] = s[i]
    PROVE  \E g : Gathers(g, t) /\ g[Len(t)] = f[Len(s)] \o t[Len(t)]
  <1> DEFINE n == Len(s)
             g == [i \in 1..(n + 1) |-> IF i = n + 1 THEN f[n] \o t[n + 1] ELSE f[i]]
             h == [i \in 1..Len(t) |-> IF i = 1 THEN t[i] ELSE g[i - 1] \o t[i]]
  <1>1. \A i \in 1..n : f[i] = IF i = 1 THEN s[i] ELSE f[i - 1] \o s[i]
    BY DEF Gathers
  <1>2. \A i \in 1..(n + 1) : g[i] = h[i]
    <2> SUFFICES ASSUME NEW i \in 1..(n + 1) PROVE g[i] = h[i]
      OBVIOUS
    <2>1. CASE i = n + 1
      <3>0. i - 1 = n /\ n \in 1..(n + 1) /\ n # n + 1 /\ i # 1
        BY <2>1
      <3>1. g[i] = f[n] \o t[n + 1] /\ g[n] = f[n]
        BY <2>1, <3>0
      <3>2. h[i] = g[i - 1] \o t[i]
        BY <3>0
      <3> QED BY <2>1, <3>0, <3>1, <3>2
    <2>2. CASE i # n + 1 /\ i # 1
      <3>1. i \in 1..n /\ i - 1 \in 1..n /\ i - 1 \in 1..(n + 1) /\ i - 1 # n + 1
        BY <2>2
      <3>2. g[i] = f[i] /\ g[i - 1] = f[i - 1]
        BY <2>2, <3>1
      <3> QED BY <1>1, <2>2, <3>1, <3>2
    <2>3. CASE i = 1 /\ i # n + 1
      <3>1. i \in 1..n /\ g[i] = f[i]
        BY <2>3
      <3> QED BY <1>1, <2>3, <3>1
    <2> QED BY <2>1, <2>2, <2>3
  <1>3. DOMAIN g = 1..(n + 1) /\ DOMAIN h = 1..(n + 1)
    OBVIOUS
  <1>4. g = h
    BY <1>2, <1>3
  <1>5. g[Len(t)] = f[n] \o t[Len(t)]
    <2>1. Len(t) = n + 1 /\ n + 1 \in 1..(n + 1)
      OBVIOUS
    <2> QED BY <2>1
  <1> QED BY <1>4, <1>5 DEF Gathers

\* The first k of a sequence, and one more.
LEMMA OneMore ==
    ASSUME NEW S, NEW s \in Seq(S), NEW k \in 1..(Len(s) - 1)
    PROVE  /\ Len(SubSeq(s, 1, k)) = k /\ Len(SubSeq(s, 1, k + 1)) = k + 1
           /\ \A i \in 1..k : SubSeq(s, 1, k + 1)[i] = SubSeq(s, 1, k)[i]
           /\ SubSeq(s, 1, k + 1)[k + 1] = s[k + 1]
           /\ SubSeq(s, 1, k) \in Seq(S) /\ SubSeq(s, 1, k + 1) \in Seq(S)
  OBVIOUS

LEMMA GathersExists ==
    ASSUME NEW S, NEW s \in Seq(S), s # << >>
    PROVE  \E f : Gathers(f, s)
  <1> DEFINE Good(k) == \E f : Gathers(f, SubSeq(s, 1, k))
             bad == {k \in 1..Len(s) : ~Good(k)}
  <1>1. Len(s) \in Nat \ {0} /\ SubSeq(s, 1, Len(s)) = s
    BY SubSeqFull
  <1>2. ASSUME bad # {} PROVE FALSE
    <2>1. PICK m \in bad : \A n \in bad : m <= n
      <3>1. bad \in SUBSET Nat
        OBVIOUS
      <3> QED BY <1>2, <3>1, LeastNumber
    <2>2. m \in 1..Len(s) /\ ~Good(m)
      OBVIOUS
    <2>3. CASE m = 1
      <3> DEFINE t == SubSeq(s, 1, 1)
                 f == [i \in 1..1 |-> t[i]]
      <3>1. Len(t) = 1
        BY <2>2
      <3>2. f = [i \in 1..Len(t) |-> IF i = 1 THEN t[i] ELSE f[i - 1] \o t[i]]
        BY <3>1
      <3>3. Gathers(f, t)
        BY <3>2 DEF Gathers
      <3> QED BY <2>2, <2>3, <3>3
    <2>4. CASE m # 1
      <3>1. m - 1 \in 1..(Len(s) - 1) /\ (m - 1) + 1 = m
        BY <2>2, <2>4
      <3>2. m - 1 \in 1..Len(s) /\ ~(m <= m - 1)
        BY <2>2, <3>1
      <3>3. Good(m - 1)
        BY <2>1, <3>2
      <3> DEFINE u == SubSeq(s, 1, m - 1)
                 t == SubSeq(s, 1, m)
      <3>4. /\ Len(u) = m - 1 /\ Len(t) = m /\ \A i \in 1..(m - 1) : t[i] = u[i]
        BY <3>1, OneMore
      <3>5. PICK f : Gathers(f, u)
        BY <3>3
      <3>6. Len(u) \in Nat \ {0} /\ Len(t) = Len(u) + 1 /\ \A i \in 1..Len(u) : t[i] = u[i]
        BY <3>1, <3>4
      <3> HIDE DEF u, t
      <3>7. \E g : Gathers(g, t)
        BY <3>5, <3>6, GathersExtends
      <3> QED BY <2>2, <3>7 DEF t
    <2> QED BY <2>3, <2>4
  <1>3. Good(Len(s))
    BY <1>1, <1>2
  <1> QED BY <1>1, <1>3

LEMMA GathersUnique ==
    ASSUME NEW s, NEW f, NEW g, Gathers(f, s), Gathers(g, s), Len(s) \in Nat
    PROVE  f = g
  <1> DEFINE bad == {k \in 1..Len(s) : f[k] # g[k]}
  <1>1. \A i \in 1..Len(s) : /\ f[i] = IF i = 1 THEN s[i] ELSE f[i - 1] \o s[i]
                             /\ g[i] = IF i = 1 THEN s[i] ELSE g[i - 1] \o s[i]
    BY DEF Gathers
  <1>2. ASSUME bad # {} PROVE FALSE
    <2>1. PICK m \in bad : \A n \in bad : m <= n
      <3>1. bad \in SUBSET Nat
        OBVIOUS
      <3> QED BY <1>2, <3>1, LeastNumber
    <2>2. m \in 1..Len(s) /\ f[m] # g[m]
      OBVIOUS
    <2>3. CASE m = 1
      BY <1>1, <2>2, <2>3
    <2>4. CASE m # 1
      <3>1. m - 1 \in 1..Len(s) /\ ~(m <= m - 1)
        BY <2>2, <2>4
      <3>2. f[m - 1] = g[m - 1]
        BY <2>1, <3>1
      <3> QED BY <1>1, <2>2, <2>4, <3>2
    <2> QED BY <2>3, <2>4
  <1>3. DOMAIN f = 1..Len(s) /\ DOMAIN g = 1..Len(s)
    BY DEF Gathers
  <1>4. /\ f = [i \in 1..Len(s) |-> f[i]]
        /\ g = [i \in 1..Len(s) |-> g[i]]
    BY DEF Gathers
  <1> QED BY <1>2, <1>4

LEMMA FlattenIsGathered ==
    ASSUME NEW s, NEW f, Gathers(f, s), Len(s) \in Nat \ {0}
    PROVE  FlattenSeq(s) = f[Len(s)]
  <1> DEFINE h == CHOOSE g : Gathers(g, s)
  <1>1. Gathers(h, s)
    OBVIOUS
  <1>2. FlattenSeq(s) = h[Len(s)]
    BY DEF FlattenSeq, Gathers
  <1> HIDE DEF h
  <1>3. h = f
    BY <1>1, GathersUnique
  <1> QED BY <1>2, <1>3

\* One more sequence is put behind the others.
LEMMA FlattenAppend ==
    ASSUME NEW S, NEW s \in Seq(Seq(S)), NEW p \in Seq(S)
    PROVE  /\ FlattenSeq(<< >>) = << >>
           /\ FlattenSeq(Append(s, p)) = FlattenSeq(s) \o p
  <1>1. FlattenSeq(<< >>) = << >>
    BY DEF FlattenSeq
  <1> DEFINE t == Append(s, p)
  <1>2. /\ t \in Seq(Seq(S)) /\ Len(s) \in Nat /\ Len(t) = Len(s) + 1 /\ t[Len(t)] = p
        /\ \A i \in 1..Len(s) : t[i] = s[i]
    OBVIOUS
  <1> HIDE DEF t
  <1>3. CASE s = << >>
    <2>1. Len(t) = 1 /\ t[1] = p
      BY <1>2, <1>3
    <2>2. PICK f : Gathers(f, t)
      <3>1. t # << >>
        BY <1>2, <2>1, EmptySeq
      <3> QED BY <1>2, <3>1, GathersExists
    <2>3. f[1] = t[1]
      BY <2>1, <2>2 DEF Gathers
    <2>4. FlattenSeq(t) = p
      <3>1. Len(t) \in Nat \ {0}
        BY <2>1
      <3> QED BY <2>1, <2>2, <2>3, <3>1, FlattenIsGathered
    <2>5. << >> \o p = p
      BY ConcatEmptySeq
    <2> QED BY <1>1, <1>3, <2>4, <2>5 DEF t
  <1>4. CASE s # << >>
    <2>1. PICK f : Gathers(f, s)
      BY <1>4, GathersExists
    <2>2. Len(s) \in Nat \ {0}
      BY <1>4
    <2>3. PICK g : Gathers(g, t) /\ g[Len(t)] = f[Len(s)] \o t[Len(t)]
      BY <1>2, <2>1, <2>2, GathersExtends
    <2>4. FlattenSeq(s) = f[Len(s)] /\ FlattenSeq(t) = g[Len(t)]
      <3>1. Len(t) \in Nat \ {0}
        BY <1>2
      <3> QED BY <2>1, <2>2, <2>3, <3>1, FlattenIsGathered
    <2> QED BY <1>1, <1>2, <2>3, <2>4 DEF t
  <1> QED BY <1>3, <1>4

\* What holds of 0, and of k + 1 if of k, holds of n.
LEMMA SetInduction ==
    ASSUME NEW n \in Nat, NEW G, 0 \in G, \A k \in 0..(n - 1) : k \in G => k + 1 \in G
    PROVE  n \in G
  <1> DEFINE bad == (0..n) \ G
  <1> SUFFICES ASSUME bad # {} PROVE FALSE
    OBVIOUS
  <1>1. PICK m \in bad : \A k \in bad : m <= k
    <2>1. bad \in SUBSET Nat
      OBVIOUS
    <2> QED BY <2>1, LeastNumber
  <1>2. m \in 1..n /\ m \notin G
    OBVIOUS
  <1>3. m - 1 \in 0..(n - 1) /\ m - 1 \in 0..n /\ (m - 1) + 1 = m /\ ~(m <= m - 1)
    BY <1>2
  <1>4. m - 1 \in G
    BY <1>1, <1>3
  <1> QED BY <1>2, <1>3, <1>4

LEMMA FirstOnes ==
    ASSUME NEW S, NEW s \in Seq(S)
    PROVE  /\ SubSeq(s, 1, 0) = << >> /\ SubSeq(s, 1, Len(s)) = s /\ Len(s) \in Nat
           /\ \A k \in 0..(Len(s) - 1) :
                /\ SubSeq(s, 1, k) \in Seq(S) /\ s[k + 1] \in S
                /\ SubSeq(s, 1, k + 1) = Append(SubSeq(s, 1, k), s[k + 1])
  <1>1. SubSeq(s, 1, 0) = << >> /\ SubSeq(s, 1, Len(s)) = s
    BY SubSeqFull, SubSeqEmpty
  <1>2. ASSUME NEW k \in 0..(Len(s) - 1)
        PROVE  /\ SubSeq(s, 1, k) \in Seq(S) /\ s[k + 1] \in S
               /\ SubSeq(s, 1, k + 1) = Append(SubSeq(s, 1, k), s[k + 1])
    <2> DEFINE a == SubSeq(s, 1, k)
               b == SubSeq(s, 1, k + 1)
    <2>1. a \in Seq(S) /\ s[k + 1] \in S /\ Len(a) = k /\ b \in Seq(S) /\ Len(b) = k + 1
      OBVIOUS
    <2>2. \A i \in 1..k : a[i] = s[i] /\ b[i] = s[i]
      OBVIOUS
    <2>3. b[k + 1] = s[k + 1]
      OBVIOUS
    <2> HIDE DEF a, b
    <2> DEFINE c == Append(a, s[k + 1])
    <2>4. /\ c \in Seq(S) /\ Len(c) = k + 1 /\ \A i \in 1..k : c[i] = a[i]
          /\ c[k + 1] = s[k + 1]
      BY <2>1
    <2> HIDE DEF c
    <2>5. \A i \in 1..(k + 1) : b[i] = c[i]
      <3>1. \A i \in 1..(k + 1) : i \in 1..k \/ i = k + 1
        OBVIOUS
      <3> QED BY <2>2, <2>3, <2>4, <3>1
    <2>6. b = c
      BY <2>1, <2>4, <2>5, SeqEqual
    <2> QED BY <2>1, <2>6 DEF a, b, c
  <1> QED BY <1>1, <1>2

LEMMA FlattenEmpty == FlattenSeq(<< >>) = << >>
  BY DEF FlattenSeq

LEMMA FlattenType ==
    ASSUME NEW S, NEW s \in Seq(Seq(S))
    PROVE  FlattenSeq(s) \in Seq(S)
  <1> DEFINE First(k) == SubSeq(s, 1, k)
             G == {k \in 0..Len(s) : FlattenSeq(First(k)) \in Seq(S)}
  <1>1. 0 \in G
    <2>0. 0 \in 0..Len(s)
      BY FirstOnes
    <2>1. FlattenSeq(First(0)) = << >>
      BY FirstOnes, FlattenEmpty
    <2>2. << >> \in Seq(S)
      OBVIOUS
    <2> QED BY <2>0, <2>1, <2>2
  <1>2. ASSUME NEW k \in 0..(Len(s) - 1), k \in G PROVE k + 1 \in G
    <2>1. First(k + 1) = Append(First(k), s[k + 1]) /\ First(k) \in Seq(Seq(S)) /\ s[k + 1] \in Seq(S)
      BY FirstOnes
    <2> HIDE DEF First
    <2>2. FlattenSeq(First(k + 1)) = FlattenSeq(First(k)) \o s[k + 1]
      BY <2>1, FlattenAppend
    <2>3. FlattenSeq(First(k)) \in Seq(S)
      BY <1>2
    <2>4. FlattenSeq(First(k + 1)) \in Seq(S)
      BY <2>1, <2>2, <2>3, ConcatProperties
    <2> QED BY <2>4
  <1> HIDE DEF G
  <1>3. Len(s) \in G
    BY <1>1, <1>2, SetInduction, FirstOnes
  <1> QED BY <1>3, FirstOnes DEF G

\* Where only the grouping matters, \o has a name that nothing is computed of.
Cat(s, t) == s \o t

LEMMA CatAssociative ==
    \A S : \A p, q, r \in Seq(S) : Cat(Cat(p, q), r) = Cat(p, Cat(q, r))
  BY ConcatAssociative DEF Cat

LEMMA BeforeAppend ==
    ASSUME NEW S, NEW s \in Seq(S), NEW p \in S, NEW q \in S
    PROVE  <<p>> \o Append(s, q) = Append(<<p>> \o s, q) /\ <<p>> \o s \in Seq(S)
  OBVIOUS

LEMMA HeadStep ==
    ASSUME NEW S, NEW a \in Seq(Seq(S)), NEW p \in Seq(S), NEW q \in Seq(S),
           FlattenSeq(<<p>> \o a) = p \o FlattenSeq(a)
    PROVE  FlattenSeq(<<p>> \o Append(a, q)) = p \o FlattenSeq(Append(a, q))
  <1> DEFINE b == FlattenSeq(a)
  <1>1. b \in Seq(S)
    BY FlattenType
  <1>2. <<p>> \o Append(a, q) = Append(<<p>> \o a, q) /\ <<p>> \o a \in Seq(Seq(S))
    BY BeforeAppend
  <1>3. FlattenSeq(Append(<<p>> \o a, q)) = (p \o b) \o q /\ FlattenSeq(Append(a, q)) = b \o q
    BY <1>2, FlattenAppend
  <1> HIDE DEF b
  <1>4. (p \o b) \o q = p \o (b \o q)
    <2>1. Cat(Cat(p, b), q) = Cat(p, Cat(b, q))
      BY <1>1, CatAssociative
    <2> QED BY <2>1 DEF Cat
  <1> QED BY <1>2, <1>3, <1>4

\* The first sequence stands before the others.
LEMMA FlattenHead ==
    ASSUME NEW S, NEW s \in Seq(Seq(S)), NEW p \in Seq(S)
    PROVE  FlattenSeq(<<p>> \o s) = p \o FlattenSeq(s)
  <1> DEFINE First(k) == SubSeq(s, 1, k)
             G == {k \in 0..Len(s) : FlattenSeq(<<p>> \o First(k)) = p \o FlattenSeq(First(k))}
  <1>1. 0 \in G
    <2>0. 0 \in 0..Len(s)
      BY FirstOnes
    <2>1. First(0) = << >> /\ FlattenSeq(First(0)) = << >>
      BY FirstOnes, FlattenEmpty
    <2>2. <<p>> \o << >> = Append(<< >>, p)
      OBVIOUS
    <2>3. FlattenSeq(Append(<< >>, p)) = << >> \o p
      <3>1. << >> \in Seq(Seq(S))
        OBVIOUS
      <3> QED BY <3>1, FlattenAppend, FlattenEmpty
    <2>4. p \o << >> = p /\ << >> \o p = p
      BY ConcatEmptySeq
    <2> QED BY <2>0, <2>1, <2>2, <2>3, <2>4
  <1>2. ASSUME NEW k \in 0..(Len(s) - 1), k \in G PROVE k + 1 \in G
    <2>1. /\ First(k + 1) = Append(First(k), s[k + 1])
          /\ First(k) \in Seq(Seq(S)) /\ s[k + 1] \in Seq(S)
      BY FirstOnes
    <2>2. FlattenSeq(<<p>> \o First(k)) = p \o FlattenSeq(First(k))
      BY <1>2
    <2> HIDE DEF First, G
    <2>3. FlattenSeq(<<p>> \o First(k + 1)) = p \o FlattenSeq(First(k + 1))
      BY <2>1, <2>2, HeadStep
    <2>4. k + 1 \in 0..Len(s)
      BY FirstOnes
    <2> QED BY <2>3, <2>4 DEF G
  <1> HIDE DEF G
  <1>3. Len(s) \in G
    BY <1>1, <1>2, SetInduction, FirstOnes
  <1> QED BY <1>3, FirstOnes DEF G

\* Sequences of one length make one that is as many times as long.
LEMMA FlattenLength ==
    ASSUME NEW S, NEW s \in Seq(Seq(S)), NEW b \in Nat, \A i \in 1..Len(s) : Len(s[i]) = b
    PROVE  Len(FlattenSeq(s)) = Len(s) * b
  <1> DEFINE First(k) == SubSeq(s, 1, k)
             G == {k \in 0..Len(s) : Len(FlattenSeq(First(k))) = k * b}
  <1>1. 0 \in G
    <2>0. 0 \in 0..Len(s)
      BY FirstOnes
    <2>1. FlattenSeq(First(0)) = << >>
      BY FirstOnes, FlattenEmpty
    <2>2. Len(<< >>) = 0 /\ 0 * b = 0
      OBVIOUS
    <2> QED BY <2>0, <2>1, <2>2
  <1>2. ASSUME NEW k \in 0..(Len(s) - 1), k \in G PROVE k + 1 \in G
    <2>1. First(k + 1) = Append(First(k), s[k + 1]) /\ First(k) \in Seq(Seq(S)) /\ s[k + 1] \in Seq(S)
      BY FirstOnes
    <2> HIDE DEF First
    <2>2. FlattenSeq(First(k + 1)) = FlattenSeq(First(k)) \o s[k + 1]
      BY <2>1, FlattenAppend
    <2>3. FlattenSeq(First(k)) \in Seq(S) /\ Len(FlattenSeq(First(k))) = k * b
      BY <1>2, <2>1, FlattenType
    <2> DEFINE x == FlattenSeq(First(k))
               y == s[k + 1]
    <2>6. k + 1 \in 1..Len(s) /\ k + 1 \in 0..Len(s)
      BY FirstOnes
    <2>7. Len(y) = b
      BY <2>6
    <2> HIDE DEF x, y
    <2>8. Len(x \o y) = Len(x) + Len(y)
      BY <2>1, <2>3, ConcatProperties DEF x, y
    <2>4. Len(FlattenSeq(First(k + 1))) = k * b + b
      BY <2>2, <2>3, <2>7, <2>8 DEF x, y
    <2>5. k * b + b = (k + 1) * b
      OBVIOUS
    <2> QED BY <2>4, <2>5, <2>6
  <1> HIDE DEF G
  <1>3. Len(s) \in G
    BY <1>1, <1>2, SetInduction, FirstOnes
  <1> QED BY <1>3, FirstOnes DEF G

\* What is in the sequences is in what they make.
LEMMA FlattenRange ==
    ASSUME NEW S, NEW s \in Seq(Seq(S))
    PROVE  Range(FlattenSeq(s)) = UNION {Range(s[i]) : i \in 1..Len(s)}
  <1> DEFINE First(k) == SubSeq(s, 1, k)
             Of(k) == UNION {Range(s[i]) : i \in 1..k}
             G == {k \in 0..Len(s) : Range(FlattenSeq(First(k))) = Of(k)}
  <1>1. 0 \in G
    <2>0. 0 \in 0..Len(s)
      BY FirstOnes
    <2>1. FlattenSeq(First(0)) = << >>
      BY FirstOnes, FlattenEmpty
    <2>2. Range(<< >>) = {} /\ Of(0) = {}
      BY DEF Range
    <2> QED BY <2>0, <2>1, <2>2
  <1>2. ASSUME NEW k \in 0..(Len(s) - 1), k \in G PROVE k + 1 \in G
    <2>1. First(k + 1) = Append(First(k), s[k + 1]) /\ First(k) \in Seq(Seq(S)) /\ s[k + 1] \in Seq(S)
      BY FirstOnes
    <2>6. Of(k + 1) = Of(k) \cup Range(s[k + 1])
      <3>1. \A i : i \in 1..(k + 1) <=> i \in 1..k \/ i = k + 1
        OBVIOUS
      <3> QED BY <3>1
    <2> HIDE DEF First
    <2>2. FlattenSeq(First(k + 1)) = FlattenSeq(First(k)) \o s[k + 1]
      BY <2>1, FlattenAppend
    <2>3. FlattenSeq(First(k)) \in Seq(S) /\ Range(FlattenSeq(First(k))) = Of(k)
      BY <1>2, <2>1, FlattenType
    <2> DEFINE x == FlattenSeq(First(k))
               y == s[k + 1]
    <2> HIDE DEF x, y
    <2>7. Range(x \o y) = Range(x) \cup Range(y)
      BY <2>1, <2>3, RangeConcatenation DEF x, y
    <2>4. Range(FlattenSeq(First(k + 1))) = Range(FlattenSeq(First(k))) \cup Range(s[k + 1])
      BY <2>2, <2>7 DEF x, y
    <2> HIDE DEF Of
    <2>5. Range(FlattenSeq(First(k + 1))) = Of(k + 1)
      BY <2>3, <2>4, <2>6
    <2>8. k + 1 \in 0..Len(s)
      BY FirstOnes
    <2> QED BY <2>5, <2>8
  <1> HIDE DEF G
  <1>3. Len(s) \in G
    BY <1>1, <1>2, SetInduction, FirstOnes
  <1> QED BY <1>3, FirstOnes DEF G

LEMMA ConcatInjective ==
    ASSUME NEW S, NEW s \in Seq(S), NEW t \in Seq(S), IsInjective(s), IsInjective(t),
           Range(s) \cap Range(t) = {}
    PROVE  IsInjective(s \o t)
  <1> DEFINE u == s \o t
             n == Len(s)
  <1>1. /\ Len(s) \in Nat /\ Len(t) \in Nat /\ DOMAIN s = 1..n /\ DOMAIN t = 1..Len(t)
        /\ u \in Seq(S) /\ Len(u) = n + Len(t) /\ DOMAIN u = 1..(n + Len(t))
        /\ \A i \in 1..(n + Len(t)) : u[i] = IF i <= n THEN s[i] ELSE t[i - n]
    <2>1. /\ u \in Seq(S) /\ Len(u) = n + Len(t)
          /\ \A i \in 1..(n + Len(t)) : u[i] = IF i <= n THEN s[i] ELSE t[i - n]
      BY ConcatProperties
    <2>2. DOMAIN u = 1..Len(u)
      BY <2>1, LenProperties
    <2> QED BY <2>1, <2>2, LenProperties
  <1> HIDE DEF u, n
  <1>2. \A i \in DOMAIN s : \A j \in DOMAIN t : s[i] # t[j]
    BY DEF Range
  <1> SUFFICES ASSUME NEW i \in DOMAIN u, NEW j \in DOMAIN u, u[i] = u[j] PROVE i = j
    BY DEF IsInjective, u
  <1>3. n \in Nat /\ i \in 1..(n + Len(t)) /\ j \in 1..(n + Len(t))
    BY <1>1 DEF n
  <1>4. CASE i <= n /\ j <= n
    <2>1. i \in DOMAIN s /\ j \in DOMAIN s /\ s[i] = s[j]
      BY <1>1, <1>3, <1>4
    <2> QED BY <2>1 DEF IsInjective
  <1>5. CASE ~(i <= n) /\ ~(j <= n)
    <2>1. i - n \in DOMAIN t /\ j - n \in DOMAIN t /\ t[i - n] = t[j - n]
      BY <1>1, <1>3, <1>5
    <2>2. i - n = j - n
      BY <2>1 DEF IsInjective
    <2> QED BY <1>3, <2>2
  <1>6. CASE i <= n /\ ~(j <= n)
    <2>1. i \in DOMAIN s /\ j - n \in DOMAIN t /\ s[i] = t[j - n]
      BY <1>1, <1>3, <1>6
    <2> QED BY <1>2, <2>1
  <1>7. CASE ~(i <= n) /\ j <= n
    <2>1. j \in DOMAIN s /\ i - n \in DOMAIN t /\ s[j] = t[i - n]
      BY <1>1, <1>3, <1>7
    <2> QED BY <1>2, <2>1
  <1> QED BY <1>4, <1>5, <1>6, <1>7

\* What is nowhere twice in the sequences is not twice in what they make.
LEMMA FlattenInjective ==
    ASSUME NEW S, NEW s \in Seq(Seq(S)), \A i \in 1..Len(s) : IsInjective(s[i]),
           \A i, j \in 1..Len(s) : i # j => Range(s[i]) \cap Range(s[j]) = {}
    PROVE  IsInjective(FlattenSeq(s))
  <1> DEFINE First(k) == SubSeq(s, 1, k)
             G == {k \in 0..Len(s) : IsInjective(FlattenSeq(First(k)))}
  <1>1. 0 \in G
    <2>0. 0 \in 0..Len(s)
      BY FirstOnes
    <2>1. FlattenSeq(First(0)) = << >>
      BY FirstOnes, FlattenEmpty
    <2>2. IsInjective(<< >>)
      BY DEF IsInjective
    <2> QED BY <2>0, <2>1, <2>2
  <1>2. ASSUME NEW k \in 0..(Len(s) - 1), k \in G PROVE k + 1 \in G
    <2>1. First(k + 1) = Append(First(k), s[k + 1]) /\ First(k) \in Seq(Seq(S)) /\ s[k + 1] \in Seq(S)
      BY FirstOnes
    <2>2. /\ Len(First(k)) = k /\ k + 1 \in 0..Len(s) /\ k + 1 \in 1..Len(s)
          /\ \A i \in 1..k : First(k)[i] = s[i] /\ i \in 1..Len(s) /\ i # k + 1
      BY FirstOnes
    <2> DEFINE x == FlattenSeq(First(k))
               y == s[k + 1]
    <2> HIDE DEF First
    <2>3. FlattenSeq(First(k + 1)) = x \o y
      BY <2>1, FlattenAppend
    <2>4. x \in Seq(S) /\ Range(x) = UNION {Range(First(k)[i]) : i \in 1..k}
      BY <2>1, <2>2, FlattenType, FlattenRange
    <2>5. IsInjective(x)
      BY <1>2
    <2>6. IsInjective(y) /\ y \in Seq(S)
      BY <2>1, <2>2
    <2>7. \A i \in 1..k : Range(First(k)[i]) \cap Range(y) = {}
      <3> TAKE i \in 1..k
      <3>1. First(k)[i] = s[i] /\ i \in 1..Len(s) /\ i # k + 1
        BY <2>2
      <3>2. Range(s[i]) \cap Range(s[k + 1]) = {}
        BY <2>2, <3>1
      <3> QED BY <3>1, <3>2
    <2> HIDE DEF x, y
    <2>8. Range(x) \cap Range(y) = {}
      BY <2>4, <2>7
    <2>9. IsInjective(x \o y)
      BY <2>4, <2>5, <2>6, <2>8, ConcatInjective
    <2> QED BY <2>2, <2>3, <2>9
  <1> HIDE DEF G
  <1>3. Len(s) \in G
    BY <1>1, <1>2, SetInduction, FirstOnes
  <1> QED BY <1>3, FirstOnes DEF G
=============================================================================
