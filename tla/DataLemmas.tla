------------------------------ MODULE DataLemmas ------------------------------
(***************************************************************************)
(* What the proofs need about numbers and sequences: induction on the      *)
(* naturals, the least and the greatest element of a set of naturals, and  *)
(* the parts of a sequence.                                                *)
(*                                                                         *)
(* The induction theorems of the library take an operator as a parameter,  *)
(* which the provers cannot instantiate.  NatInduct takes a SET of         *)
(* naturals in its place: the proof that cites it defines the set of the   *)
(* numbers that have the property at hand.  It follows from the minimum    *)
(* principle for well-founded relations (WFMin), which is first order.     *)
(***************************************************************************)
EXTENDS Integers, Sequences, Functions, FiniteSetsExt, WellFoundedInduction, TLAPS

\* A set of naturals that is not empty has a least element.
LEMMA LeastOfNat ==
    ASSUME NEW T, T \subseteq Nat, T # {}
    PROVE  \E x \in T : \A y \in T : x <= y
<1>1. IsWellFoundedOn(OpToRel(<, Nat), Nat)
  BY NatLessThanWellFounded
<1>2. PICK x \in T : \A y \in T : ~ (<<y, x>> \in OpToRel(<, Nat))
  BY <1>1, WFMin
<1>3. \A y \in T : <<y, x>> \in Nat \X Nat
  OBVIOUS
<1>4. \A y \in T : ~ (y < x)
  BY <1>2, <1>3 DEF OpToRel
<1> QED
  BY <1>4

\* A set that holds 0, and n + 1 whenever it holds n, holds every natural.
LEMMA NatInduct ==
    ASSUME NEW S, 0 \in S, \A n \in Nat : n \in S => n + 1 \in S
    PROVE  Nat \subseteq S
<1> DEFINE T == Nat \ S
<1> SUFFICES ASSUME T # {} PROVE FALSE
  OBVIOUS
<1>1. PICK x \in T : \A y \in T : x <= y
  BY LeastOfNat
<1>2. x # 0 /\ x - 1 \in Nat /\ x - 1 \notin T
  BY <1>1
<1> QED
  BY <1>1, <1>2

\* Max picks the greatest element of a set of integers that has one ...
LEMMA MaxIs ==
    ASSUME NEW S, S \subseteq Int, NEW m \in S, \A x \in S : m >= x
    PROVE  Max(S) = m
<1>1. Max(S) \in S /\ \A x \in S : Max(S) >= x
  BY DEF Max
<1> DEFINE g == Max(S)
<1>2. g \in Int /\ m \in Int /\ g >= m /\ m >= g
  BY <1>1
<1> HIDE DEF g
<1>3. g = m
  BY <1>2
<1> QED
  BY <1>3 DEF g

\* ... and a set of naturals with a bound has one, if it is not empty.
LEMMA MaxOfNat ==
    ASSUME NEW n \in Nat, NEW S, S \subseteq 0..n, S # {}
    PROVE  Max(S) \in S /\ \A x \in S : Max(S) >= x
<1> DEFINE T == {n - x : x \in S}
<1>1. T \subseteq Nat /\ T # {}
  <2>1. \A x \in S : x \in Int /\ x <= n /\ n - x \in Nat
    OBVIOUS
  <2> QED
    BY <2>1
<1>2. PICK t \in T : \A y \in T : t <= y
  BY <1>1, LeastOfNat
<1>3. PICK m \in S : t = n - m
  OBVIOUS
<1>4. \A x \in S : m >= x
  BY <1>2, <1>3
<1>5. S \subseteq Int
  OBVIOUS
<1> QED
  BY <1>3, <1>4, <1>5, MaxIs

\* The least element is the one that Min picks.
LEMMA MinOfNat ==
    ASSUME NEW S, S \subseteq Nat, S # {}
    PROVE  Min(S) \in S /\ \A x \in S : Min(S) <= x
<1>1. PICK m \in S : \A x \in S : m <= x
  BY LeastOfNat
<1> QED
  BY <1>1 DEF Min

-----------------------------------------------------------------------------
\* A part of one element.
LEMMA SubSeqOne ==
    ASSUME NEW S, NEW q \in Seq(S), NEW k \in 1..Len(q)
    PROVE  SubSeq(q, k, k) = <<q[k]>>
<1>1. SubSeq(q, k, k) = [i \in 1..1 |-> q[i + k - 1]]
  BY SMT
<1>2. \A i \in 1..1 : q[i + k - 1] = q[k]
  BY SMT
<1>3. <<q[k]>> = [i \in 1..1 |-> q[k]]
  BY SMT
<1> QED
  BY <1>1, <1>2, <1>3, Zenon

\* A part that ends before it begins.
LEMMA SubSeqNone ==
    ASSUME NEW S, NEW q \in Seq(S), NEW k \in Nat
    PROVE  SubSeq(q, k + 1, k) = <<>>
<1>1. SubSeq(q, k + 1, k) = [i \in 1..0 |-> q[i + k]]
  BY SMT
<1>2. Len(SubSeq(q, k + 1, k)) = 0 /\ SubSeq(q, k + 1, k) \in Seq(S)
  BY SMT
<1> QED
  BY <1>2, SMT

\* What is appended comes last.
LEMMA AppendOf ==
    ASSUME NEW S, NEW q \in Seq(S), NEW e \in S
    PROVE  /\ Len(q) \in Nat
           /\ Append(q, e) \in Seq(S)
           /\ Len(Append(q, e)) = Len(q) + 1
           /\ Append(q, e)[Len(q) + 1] = e
           /\ \A i \in 1..Len(q) : Append(q, e)[i] = q[i]
           /\ \A i \in 1..Len(q) + 1 : i \in 1..Len(q) \/ i = Len(q) + 1
<1>1. /\ Len(q) \in Nat
      /\ Append(q, e) \in Seq(S)
      /\ Len(Append(q, e)) = Len(q) + 1
      /\ Append(q, e)[Len(q) + 1] = e
      /\ \A i \in 1..Len(q) : Append(q, e)[i] = q[i]
  OBVIOUS
<1>2. \A i \in 1..Len(q) + 1 : i \in 1..Len(q) \/ i = Len(q) + 1
  OBVIOUS
<1> QED
  BY <1>1, <1>2

\* What is left of a sequence without its first element.
LEMMA TailOf ==
    ASSUME NEW S, NEW q \in Seq(S), q # <<>>
    PROVE  /\ Len(q) \in Nat /\ Len(q) >= 1 /\ 1 \in 1..Len(q)
           /\ Tail(q) \in Seq(S)
           /\ Len(Tail(q)) = Len(q) - 1
           /\ \A i \in 1..Len(q) - 1 :
                 i + 1 \in 1..Len(q) /\ Tail(q)[i] = q[i + 1]
           /\ Len(q) = 1 => Tail(q) = <<>>
<1>1. Len(q) \in Nat /\ Len(q) # 0
  OBVIOUS
<1>2. Tail(q) \in Seq(S) /\ Len(Tail(q)) = Len(q) - 1
  BY <1>1
<1>3. \A i \in 1..Len(q) - 1 : Tail(q)[i] = q[i + 1]
  BY <1>1
<1>4. \A i \in 1..Len(q) - 1 : i + 1 \in 1..Len(q)
  BY <1>1
<1>5. Len(q) = 1 => Tail(q) = <<>>
  <2>1. \A p \in Seq(S) : Len(p) = 0 => p = <<>>
    OBVIOUS
  <2>2. Len(q) = 1 => Len(q) - 1 = 0
    OBVIOUS
  <2> QED
    BY <1>2, <2>1, <2>2, Zenon
<1> QED
  BY <1>1, <1>2, <1>3, <1>4, <1>5

\* What is left of a sequence from its m-th element on.
LEMMA RestOf ==
    ASSUME NEW S, NEW q \in Seq(S), NEW m \in Nat, m <= Len(q)
    PROVE  /\ SubSeq(q, m + 1, Len(q)) \in Seq(S)
           /\ Len(SubSeq(q, m + 1, Len(q))) = Len(q) - m
           /\ \A i \in 1..Len(q) - m : m + i \in 1..Len(q)
                 /\ SubSeq(q, m + 1, Len(q))[i] = q[m + i]
<1> DEFINE n == Len(q)
<1>1. n \in Nat
  OBVIOUS
<1>2. CASE m = n
  <2>1. SubSeq(q, m + 1, n) = <<>>
    BY <1>1, <1>2
  <2>2. n - m = 0 /\ 1..0 = {}
    BY <1>1, <1>2
  <2> QED
    BY <2>1, <2>2
<1>3. CASE m < n
  <2>1. SubSeq(q, m + 1, n) = [i \in 1..n - m |-> q[i + m]]
    BY <1>1, <1>3
  <2>2. \A i \in 1..n - m : m + i \in 1..n /\ i + m = m + i /\ q[m + i] \in S
    BY <1>1
  <2>3. n - m \in Nat
    BY <1>1, <1>3
  <2> QED
    BY <2>1, <2>2, <2>3
<1> QED
  BY <1>1, <1>2, <1>3

\* What appending does to the set of the elements, and when it repeats none.
LEMMA AppendRange ==
    ASSUME NEW S, NEW q \in Seq(S), NEW e \in S
    PROVE  /\ Range(Append(q, e)) = Range(q) \cup {e}
           /\ IsInjective(q) /\ e \notin Range(q) => IsInjective(Append(q, e))
<1> DEFINE p == Append(q, e)
           n == Len(q)
<1>1. /\ n \in Nat
      /\ Len(p) = n + 1 /\ p \in Seq(S)
      /\ p[n + 1] = e
      /\ \A i \in 1..n : p[i] = q[i]
      /\ \A i \in 1..n + 1 : i \in 1..n \/ i = n + 1
  BY AppendOf
<1>2. DOMAIN p = 1..n + 1 /\ DOMAIN q = 1..n
  BY <1>1
<1> HIDE DEF p, n
<1>3. \A i \in 1..n : i \in 1..n + 1
  BY <1>1
<1>4. n + 1 \in 1..n + 1
  BY <1>1
<1>5. Range(p) = Range(q) \cup {e}
  <2>1. \A x \in Range(p) : x \in Range(q) \cup {e}
    BY <1>1, <1>2 DEF Range
  <2>2. \A x \in Range(q) : x \in Range(p)
    BY <1>1, <1>2, <1>3 DEF Range
  <2>3. e \in Range(p)
    BY <1>1, <1>2, <1>4 DEF Range
  <2> QED
    BY <2>1, <2>2, <2>3
<1>6. ASSUME IsInjective(q), e \notin Range(q), NEW i \in 1..n + 1, NEW j \in 1..n + 1,
             p[i] = p[j]
      PROVE  i = j
  <2>1. \A k \in 1..n : p[k] # e
    BY <1>1, <1>2, <1>6 DEF Range
  <2>2. \A k, l \in 1..n : p[k] = p[l] => k = l
    BY <1>1, <1>2, <1>6 DEF IsInjective
  <2> QED
    BY <1>1, <1>6, <2>1, <2>2
<1>7. IsInjective(q) /\ e \notin Range(q) => IsInjective(p)
  BY <1>2, <1>6 DEF IsInjective
<1> QED
  BY <1>5, <1>7 DEF p

\* The first m elements and the others, of a sequence without repetitions.
LEMMA DropOf ==
    ASSUME NEW S, NEW q \in Seq(S), IsInjective(q), NEW m \in Nat, m <= Len(q)
    PROVE  LET rest == SubSeq(q, m + 1, Len(q))
           IN  /\ rest \in Seq(S)
               /\ Len(rest) = Len(q) - m
               /\ IsInjective(rest)
               /\ Range(rest) = Range(q) \ Range(SubSeq(q, 1, m))
<1> DEFINE rest == SubSeq(q, m + 1, Len(q))
           first == SubSeq(q, 1, m)
           n == Len(q)
<1>1. /\ rest \in Seq(S) /\ Len(rest) = n - m
      /\ \A i \in 1..n - m : m + i \in 1..n /\ rest[i] = q[m + i]
  BY RestOf
<1>2. n \in Nat /\ DOMAIN q = 1..n /\ DOMAIN rest = 1..n - m
  BY <1>1
<1>3. DOMAIN first = 1..m /\ \A i \in 1..m : i \in 1..n /\ first[i] = q[i]
  <2>1. first = [i \in 1..m |-> q[i]]
    OBVIOUS
  <2> QED
    BY <2>1
<1> HIDE DEF rest, first, n
<1>4. IsInjective(rest)
  <2> SUFFICES ASSUME NEW i \in 1..n - m, NEW j \in 1..n - m, rest[i] = rest[j] PROVE i = j
    BY <1>2 DEF IsInjective
  <2>1. m + i = m + j
    BY <1>1, <1>2 DEF IsInjective
  <2> QED
    BY <2>1
<1>5. \A x \in Range(rest) : x \in Range(q) /\ x \notin Range(first)
  <2> SUFFICES ASSUME NEW i \in 1..n - m
               PROVE  rest[i] \in Range(q) /\ rest[i] \notin Range(first)
    BY <1>2 DEF Range
  <2>1. rest[i] = q[m + i] /\ m + i \in 1..n
    BY <1>1
  <2>2. \A j \in 1..m : first[j] = q[j] /\ j \in 1..n /\ j # m + i
    BY <1>3
  <2>3. \A j \in 1..m : first[j] # rest[i]
    BY <1>2, <2>1, <2>2 DEF IsInjective
  <2> QED
    BY <1>2, <1>3, <2>1, <2>3 DEF Range
<1>6. \A x \in Range(q) : x \in Range(rest) \/ x \in Range(first)
  <2> SUFFICES ASSUME NEW i \in 1..n PROVE q[i] \in Range(rest) \/ q[i] \in Range(first)
    BY <1>2 DEF Range
  <2>1. CASE i <= m
    <3>1. i \in 1..m
      BY <2>1
    <3> QED
      BY <1>3, <3>1 DEF Range
  <2>2. CASE i > m
    <3>1. i - m \in 1..n - m /\ m + (i - m) = i
      BY <1>2, <2>2
    <3>2. rest[i - m] = q[i]
      BY <1>1, <3>1
    <3> QED
      BY <1>2, <3>1, <3>2 DEF Range
  <2> QED
    BY <2>1, <2>2
<1>7. Range(rest) = Range(q) \ Range(first)
  BY <1>5, <1>6
<1> QED
  BY <1>1, <1>4, <1>7 DEF rest, first, n

-----------------------------------------------------------------------------
(* Folds                                                                    *)
(*                                                                          *)
(* FoldLeft(op, b, q) chooses a function on the sets of indices of q.  An   *)
(* operator cannot be handed to a lemma, so what op does is given as a      *)
(* function F here, on a set S of values that op stays in: FoldFnIs says    *)
(* that there is a function to choose, and FoldRun that the one chosen goes *)
(* through the values g[1..0] = b, g[1..1], ..., g[1..n] of the loop.       *)

StepsIn(F, S, n) == \A s \in S, i \in 1..n : F[<<s, i>>] \in S

Folds(g, b, F, S, n) ==
    /\ g[{}] = b
    /\ \A t \in SUBSET (1..n) : t # {} /\ g[t \ {Max(t)}] \in S =>
          g[t] = F[<<g[t \ {Max(t)}], Max(t)>>]

FoldsIn(g, b, F, S, n) ==
    /\ g[{}] = b
    /\ \A t \in SUBSET (1..n) :
          /\ g[t] \in S
          /\ t # {} => g[t] = F[<<g[t \ {Max(t)}], Max(t)>>]

FoldFn(n, b, F) ==
    CHOOSE g : g = [t \in SUBSET (1..n) |->
                      IF t = {} THEN b ELSE F[<<g[t \ {Max(t)}], Max(t)>>]]

LEMMA Prefix ==
    ASSUME NEW m \in Nat
    PROVE  /\ 1..0 = {}
           /\ 1..m + 1 # {}
           /\ Max(1..m + 1) = m + 1
           /\ (1..m + 1) \ {m + 1} = 1..m
<1>1. 1..m + 1 \subseteq Int /\ m + 1 \in 1..m + 1 /\ \A x \in 1..m + 1 : m + 1 >= x
  OBVIOUS
<1>2. Max(1..m + 1) = m + 1
  BY <1>1, MaxIs
<1> QED
  BY <1>1, <1>2

\* The largest of a set of indices is one of them.
LEMMA MaxIndex ==
    ASSUME NEW n \in Nat, NEW t, t \in SUBSET (1..n), t # {}
    PROVE  Max(t) \in 1..n /\ t \ {Max(t)} \in SUBSET (1..n)
<1>1. t \subseteq 0..n
  OBVIOUS
<1>2. Max(t) \in t
  BY <1>1, MaxOfNat
<1> QED
  BY <1>2

LEMMA FoldFnIs ==
    ASSUME NEW n \in Nat, NEW S, NEW b \in S, NEW F, StepsIn(F, S, n)
    PROVE  FoldsIn(FoldFn(n, b, F), b, F, S, n)
<1> DEFINE Eq(g, m) ==
             /\ g \in [SUBSET (1..m) -> S]
             /\ \A t \in SUBSET (1..m) :
                   g[t] = IF t = {} THEN b ELSE F[<<g[t \ {Max(t)}], Max(t)>>]
           U == {m \in Nat : m <= n => \E g : Eq(g, m)}
<1>1. \E g : Eq(g, 0)
  <2> DEFINE g == [t \in SUBSET (1..0) |-> b]
  <2>1. 1..0 = {}
    BY Prefix
  <2>2. Eq(g, 0)
    BY <2>1
  <2> QED
    BY <2>2
<1>2. ASSUME NEW m \in Nat, m + 1 <= n, NEW g, Eq(g, m)
      PROVE  \E h : Eq(h, m + 1)
  <2> DEFINE h == [t \in SUBSET (1..m + 1) |->
                      IF m + 1 \in t THEN F[<<g[t \ {m + 1}], m + 1>>] ELSE g[t]]
  <2>2. ASSUME NEW t \in SUBSET (1..m + 1), m + 1 \in t
        PROVE  /\ Max(t) = m + 1
               /\ t \ {m + 1} \in SUBSET (1..m)
               /\ h[t] = F[<<g[t \ {m + 1}], m + 1>>]
               /\ h[t \ {m + 1}] = g[t \ {m + 1}]
    <3>1. t \subseteq Int /\ \A x \in t : m + 1 >= x
      OBVIOUS
    <3>2. Max(t) = m + 1
      BY <2>2, <3>1, MaxIs
    <3>3. t \ {m + 1} \in SUBSET (1..m) /\ t \ {m + 1} \in SUBSET (1..m + 1)
      OBVIOUS
    <3> QED
      BY <2>2, <3>2, <3>3
  <2>3. ASSUME NEW t \in SUBSET (1..m + 1), m + 1 \notin t
        PROVE  /\ t \in SUBSET (1..m)
               /\ t # {} => t \ {Max(t)} \in SUBSET (1..m) /\ m + 1 \notin t \ {Max(t)}
               /\ h[t] = g[t]
               /\ t # {} => h[t \ {Max(t)}] = g[t \ {Max(t)}]
    <3>1. \A x \in t : x \in 1..m
      BY <2>3
    <3>2. t \ {Max(t)} \in SUBSET (1..m + 1) /\ m + 1 \notin t \ {Max(t)}
      BY <2>3
    <3> QED
      BY <2>3, <3>1, <3>2
  <2>4. ASSUME NEW t \in SUBSET (1..m + 1)
        PROVE  /\ h[t] \in S
               /\ h[t] = IF t = {} THEN b ELSE F[<<h[t \ {Max(t)}], Max(t)>>]
    <3>1. CASE m + 1 \in t
      <4>1. g[t \ {m + 1}] \in S /\ m + 1 \in 1..n
        BY <1>2, <2>2, <3>1
      <4> HIDE DEF h
      <4>2. F[<<g[t \ {m + 1}], m + 1>>] \in S
        BY <4>1 DEF StepsIn
      <4> QED
        BY <2>2, <3>1, <4>2, Zenon
    <3>2. CASE m + 1 \notin t
      <4> HIDE DEF h
      <4> QED
        BY <1>2, <2>3, <3>2, Zenon
    <3> QED
      BY <3>1, <3>2
  <2>5. Eq(h, m + 1)
    BY <2>4
  <2> QED
    BY <2>5
<1> HIDE DEF Eq
<1>3. \E g : Eq(g, n)
  <2>1. 0 \in U
    BY <1>1
  <2>2. ASSUME NEW m \in Nat, m \in U PROVE m + 1 \in U
    BY <1>2, <2>2
  <2>3. Nat \subseteq U
    <3> HIDE DEF U
    <3> QED
      BY <2>1, <2>2, NatInduct
  <2> QED
    BY <2>3
<1>4. PICK g : Eq(g, n)
  BY <1>3
<1> DEFINE Fn(g1) == g1 = [t \in SUBSET (1..n) |->
                         IF t = {} THEN b ELSE F[<<g1[t \ {Max(t)}], Max(t)>>]]
<1>5. Fn(g)
  <2>1. \A t \in SUBSET (1..n) :
           g[t] = IF t = {} THEN b ELSE F[<<g[t \ {Max(t)}], Max(t)>>]
    BY <1>4 DEF Eq
  <2>2. g = [t \in SUBSET (1..n) |-> g[t]]
    BY <1>4 DEF Eq
  <2> QED
    BY <2>1, <2>2
<1> DEFINE f == FoldFn(n, b, F)
<1>6. Fn(f)
  BY <1>5 DEF FoldFn
<1> HIDE DEF f
<1>7. \A t \in SUBSET (1..n) :
         f[t] = IF t = {} THEN b ELSE F[<<f[t \ {Max(t)}], Max(t)>>]
  BY <1>6
<1>8. \A m \in Nat : m <= n => \A t \in SUBSET (1..m) : f[t] \in S
  <2> DEFINE V == {m \in Nat : m <= n => \A t \in SUBSET (1..m) : f[t] \in S}
  <2>1. 0 \in V
    <3>1. \A t \in SUBSET (1..0) : t = {} /\ t \in SUBSET (1..n)
      BY Prefix
    <3> QED
      BY <1>7, <3>1
  <2>2. ASSUME NEW m \in Nat, m \in V PROVE m + 1 \in V
    <3> SUFFICES ASSUME m + 1 <= n, NEW t \in SUBSET (1..m + 1) PROVE f[t] \in S
      OBVIOUS
    <3>1. \A r \in SUBSET (1..m) : f[r] \in S
      BY <2>2
    <3>2. CASE m + 1 \in t
      <4>1. t \subseteq Int /\ \A x \in t : m + 1 >= x
        OBVIOUS
      <4>2. Max(t) = m + 1
        BY <3>2, <4>1, MaxIs
      <4>3. t \ {m + 1} \in SUBSET (1..m) /\ t \in SUBSET (1..n) /\ m + 1 \in 1..n
        OBVIOUS
      <4>4. f[t] = F[<<f[t \ {m + 1}], m + 1>>]
        BY <1>7, <3>2, <4>2, <4>3
      <4>5. f[t \ {m + 1}] \in S
        BY <3>1, <4>3
      <4> QED
        BY <4>3, <4>4, <4>5 DEF StepsIn
    <3>3. CASE m + 1 \notin t
      <4>1. t \in SUBSET (1..m)
        BY <3>3
      <4> QED
        BY <3>1, <4>1
    <3> QED
      BY <3>2, <3>3
  <2>3. Nat \subseteq V
    <3> HIDE DEF V
    <3> QED
      BY <2>1, <2>2, NatInduct
  <2> QED
    BY <2>3
<1>9. f[{}] = b
  BY <1>7
<1>10. \A t \in SUBSET (1..n) : f[t] \in S
  BY <1>8
<1>11. \A t \in SUBSET (1..n) : t # {} => f[t] = F[<<f[t \ {Max(t)}], Max(t)>>]
  BY <1>7
<1> QED
  BY <1>9, <1>10, <1>11 DEF f, FoldsIn

LEMMA FoldRun ==
    ASSUME NEW n \in Nat, NEW S, NEW b \in S, NEW F, StepsIn(F, S, n),
           NEW g, Folds(g, b, F, S, n)
    PROVE  /\ g[1..0] = b
           /\ \A i \in 0..n : g[1..i] \in S
           /\ \A i \in 1..n : g[1..i] = F[<<g[1..i - 1], i>>]
           /\ g[1..n] \in S
<1> DEFINE U == {m \in Nat : m <= n => g[1..m] \in S}
<1>1. g[1..0] = b
  BY Prefix DEF Folds
<1>2. ASSUME NEW m \in Nat, m + 1 <= n, g[1..m] \in S
      PROVE  g[1..m + 1] = F[<<g[1..m], m + 1>>] /\ g[1..m + 1] \in S
  <2>1. 1..m + 1 \in SUBSET (1..n) /\ m + 1 \in 1..n
    BY <1>2
  <2>2. g[1..m + 1] = F[<<g[1..m], m + 1>>]
    BY <1>2, <2>1, Prefix, Zenon DEF Folds
  <2> QED
    BY <1>2, <2>1, <2>2 DEF StepsIn
<1>3. 0 \in U
  BY <1>1
<1>4. ASSUME NEW m \in Nat, m \in U PROVE m + 1 \in U
  <2> SUFFICES ASSUME m + 1 <= n PROVE g[1..m + 1] \in S
    OBVIOUS
  <2>1. m <= n
    OBVIOUS
  <2> QED
    BY <1>2, <1>4, <2>1
<1>5. Nat \subseteq U
  <2> HIDE DEF U
  <2> QED
    BY <1>3, <1>4, NatInduct
<1>6. \A m \in 0..n : g[1..m] \in S
  BY <1>5
<1>7. ASSUME NEW i \in 1..n PROVE g[1..i] = F[<<g[1..i - 1], i>>]
  <2>1. i - 1 \in Nat /\ (i - 1) + 1 = i /\ i - 1 \in 0..n /\ i <= n
    OBVIOUS
  <2> QED
    BY <1>2, <1>6, <2>1
<1>8. n \in 0..n
  OBVIOUS
<1> QED
  BY <1>1, <1>6, <1>7, <1>8

\* The same for a step that does not look at the index.
StepIn(G, S) == \A s \in S : G[s] \in S

Repeats(g, b, G, S, n) ==
    /\ g[{}] = b
    /\ \A t \in SUBSET (1..n) : t # {} /\ g[t \ {Max(t)}] \in S =>
          g[t] = G[g[t \ {Max(t)}]]

RepeatsIn(g, b, G, S, n) ==
    /\ g = [t \in SUBSET (1..n) |-> g[t]]
    /\ g[{}] = b
    /\ \A t \in SUBSET (1..n) : t # {} =>
          g[t \ {Max(t)}] \in S /\ g[t] = G[g[t \ {Max(t)}]]

TimesFn(n, S, b, G) ==
    LET F == [p \in S \X (1..n) |-> G[p[1]]]
    IN  [t \in SUBSET (1..n) |-> FoldFn(n, b, F)[t]]

LEMMA TimesFnIs ==
    ASSUME NEW n \in Nat, NEW S, NEW b \in S, NEW G, StepIn(G, S)
    PROVE  RepeatsIn(TimesFn(n, S, b, G), b, G, S, n)
<1> DEFINE F == [p \in S \X (1..n) |-> G[p[1]]]
           f == [t \in SUBSET (1..n) |-> FoldFn(n, b, F)[t]]
<1>1. \A x \in S, i \in 1..n : F[<<x, i>>] = G[x]
  OBVIOUS
<1>2. StepsIn(F, S, n)
  BY DEF StepsIn, StepIn
<1>3. TimesFn(n, S, b, G) = f
  BY DEF TimesFn
<1> HIDE DEF F
<1>4. FoldsIn(FoldFn(n, b, F), b, F, S, n)
  BY <1>2, FoldFnIs
<1>5. ASSUME NEW t \in SUBSET (1..n), t # {}
      PROVE  f[t \ {Max(t)}] \in S /\ f[t] = G[f[t \ {Max(t)}]]
  <2>1. Max(t) \in 1..n /\ t \ {Max(t)} \in SUBSET (1..n)
    BY <1>5, MaxIndex
  <2> QED
    BY <1>1, <1>4, <1>5, <2>1 DEF FoldsIn
<1>6. f = [t \in SUBSET (1..n) |-> f[t]] /\ f[{}] = b
  BY <1>4 DEF FoldsIn
<1> HIDE DEF f
<1> QED
  BY <1>3, <1>5, <1>6 DEF RepeatsIn

LEMMA TimesIn ==
    ASSUME NEW n \in Nat, NEW S, NEW b \in S, NEW G, StepIn(G, S),
           NEW g, Repeats(g, b, G, S, n)
    PROVE  g[1..n] \in S
<1> DEFINE F == [p \in S \X (1..n) |-> G[p[1]]]
<1>1. \A x \in S, i \in 1..n : F[<<x, i>>] = G[x]
  OBVIOUS
<1>0. StepsIn(F, S, n)
  BY DEF StepsIn, StepIn
<1> HIDE DEF F
<1>2. ASSUME NEW t \in SUBSET (1..n), t # {}, g[t \ {Max(t)}] \in S
      PROVE  g[t] = F[<<g[t \ {Max(t)}], Max(t)>>]
  <2>1. Max(t) \in 1..n
    BY <1>2, MaxIndex
  <2> QED
    BY <1>1, <1>2, <2>1 DEF Repeats
<1>3. Folds(g, b, F, S, n)
  BY <1>2 DEF Folds, Repeats
<1> QED
  BY <1>0, <1>3, FoldRun
=============================================================================
