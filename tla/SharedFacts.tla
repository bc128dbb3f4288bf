------------------------------ MODULE SharedFacts ------------------------------
(***************************************************************************)
(* The facts that the proofs of several components rest on: induction over  *)
(* numbers and sequences, what flattened and filtered sequences contain and *)
(* in which order, and what the rules of Verdicts return.                   *)
(***************************************************************************)
EXTENDS Verdicts, Filters, FiniteSetTheorems, TLAPS

-------------------------------------------------------------------------------
(* Induction and recursion over numbers *)

(* A set of numbers that is not empty has a smallest one. *)
LEMMA Smallest ==
  ASSUME NEW T \in SUBSET Nat, T # {}
  PROVE  \E m \in T : \A k \in T : m <= k
<1> DEFINE Below == {0..k : k \in T}
           R == StrictSubsetOrdering(Nat)
           S == FiniteSubsetsOf(Nat)
<1>1. IsWellFoundedOn(R, S)
  BY FS_StrictSubsetOrderingWellFounded
<1>2. Below \subseteq S
  <2>1. \A k \in T : 0..k \subseteq Nat /\ IsFiniteSet(0..k)
    BY FS_Interval
  <2> QED BY <2>1 DEF FiniteSubsetsOf
<1>3. Below # {}
  OBVIOUS
<1>4. PICK I \in Below : \A J \in Below : <<J, I>> \notin R
  <2> HIDE DEF R, S, Below
  <2> QED BY <1>1, <1>2, <1>3, WFMin
<1>5. PICK m \in T : I = 0..m
  OBVIOUS
<1>6. ASSUME NEW k \in T, k < m PROVE FALSE
  <2>1. 0..k \in Below /\ 0..k \subseteq 0..m /\ 0..k # 0..m
    BY <1>6
  <2>2. 0..k \subseteq Nat /\ 0..m \subseteq Nat
    OBVIOUS
  <2> QED BY <1>4, <1>5, <2>1, <2>2 DEF StrictSubsetOrdering
<1> QED BY <1>6

(* What holds of 0 and passes from each number to the next holds up to n. *)
LEMMA InductionUpTo ==
  ASSUME NEW n \in Nat, NEW T, 0 \in T, \A m \in 1..n : m - 1 \in T => m \in T
  PROVE  \A m \in 0..n : m \in T
<1> DEFINE B == {m \in 0..n : m \notin T}
<1>1. SUFFICES ASSUME B # {} PROVE FALSE
  OBVIOUS
<1>2. PICK m \in B : \A k \in B : m <= k
  <2>1. B \in SUBSET Nat
    OBVIOUS
  <2> HIDE DEF B
  <2> QED BY <1>1, <2>1, Smallest
<1>3. m \in 1..n /\ m - 1 \in 0..n /\ ~(m <= m - 1)
  BY <1>2
<1>4. m - 1 \in T
  BY <1>2, <1>3
<1> QED BY <1>2, <1>3, <1>4

(* A recursion over 0..n has a solution. *)
LEMMA PrimitiveRecursion ==
  ASSUME NEW Y, NEW base \in Y, NEW n \in Nat, NEW op \in [1..n -> [Y -> Y]]
  PROVE  \E f \in [0..n -> Y] : /\ f[0] = base
                                /\ \A m \in 1..n : f[m] = op[m][f[m - 1]]
<1> DEFINE Upto(k) == \E f \in [0..k -> Y] :
                         f[0] = base /\ \A m \in 1..k : f[m] = op[m][f[m - 1]]
           T == {k \in 0..n : Upto(k)}
<1>1. 0 \in T
  <2> DEFINE f == [i \in 0..0 |-> base]
  <2>1. f \in [0..0 -> Y] /\ f[0] = base /\ \A m \in 1..0 : f[m] = op[m][f[m - 1]]
    OBVIOUS
  <2>2. Upto(0)
    BY <2>1
  <2> QED BY <2>2
<1>2. ASSUME NEW k \in 1..n, k - 1 \in T PROVE k \in T
  <2>1. PICK f \in [0..(k - 1) -> Y] :
           f[0] = base /\ \A m \in 1..(k - 1) : f[m] = op[m][f[m - 1]]
    BY <1>2
  <2>2. k - 1 \in 0..(k - 1) /\ f[k - 1] \in Y
    OBVIOUS
  <2> DEFINE last == op[k][f[k - 1]]
             g == [i \in 0..k |-> IF i = k THEN last ELSE f[i]]
  <2>3. last \in Y
    BY <2>2
  <2> HIDE DEF last
  <2>4. g \in [0..k -> Y]
    BY <2>3
  <2>5. g[k] = last /\ \A i \in 0..(k - 1) : g[i] = f[i]
    OBVIOUS
  <2> HIDE DEF g
  <2>6. \A m \in 1..k : m - 1 \in 0..(k - 1) /\ (m = k \/ m \in 1..(k - 1))
    OBVIOUS
  <2>7. ASSUME NEW m \in 1..k PROVE g[m] = op[m][g[m - 1]]
    <3>1. CASE m = k
      BY <3>1, <2>2, <2>5 DEF last
    <3>2. CASE m # k
      <4>1. m \in 1..(k - 1) /\ m - 1 \in 0..(k - 1) /\ m \in 0..(k - 1)
        BY <3>2
      <4> QED BY <4>1, <2>1, <2>5
    <3> QED BY <3>1, <3>2
  <2>8. g[0] = base
    BY <2>1, <2>5
  <2>9. Upto(k)
    BY <2>4, <2>7, <2>8
  <2> HIDE DEF Upto
  <2> QED BY <2>9
<1>3. Upto(n)
  <2> HIDE DEF T, Upto
  <2>1. \A k \in 0..n : k \in T
    BY <1>1, <1>2, InductionUpTo
  <2>2. n \in 0..n
    OBVIOUS
  <2> QED BY <2>1, <2>2 DEF T
<1> QED BY <1>3

-------------------------------------------------------------------------------
(* Finite sets *)

LEMMA ImageFinite ==
    ASSUME NEW S, IsFiniteSet(S), NEW f, DOMAIN f = S
    PROVE  /\ IsFiniteSet({f[x] : x \in S})
           /\ Cardinality({f[x] : x \in S}) <= Cardinality(S)
<1>  DEFINE T == {f[x] : x \in S}
            g == [x \in S |-> f[x]]
<1>1. g \in Surjection(S, T)
  BY DEF Surjection
<1>  HIDE DEF T, g
<1>2. IsFiniteSet(T) /\ Cardinality(T) <= Cardinality(S)
  BY <1>1, FS_Surjection
<1>  QED  BY <1>2 DEF T

(* A set of at most one element. *)
LEMMA AtMostOne ==
    ASSUME NEW S, IsFiniteSet(S), Cardinality(S) <= 1, NEW a \in S, NEW b \in S
    PROVE  a = b
<1>1. Cardinality(S) \in Nat /\ (Cardinality(S) = 0 <=> S = {})
  BY FS_CardinalityType, FS_EmptySet
<1>2. Cardinality(S) = 1
  BY <1>1
<1>3. PICK x : S = {x}
  BY <1>2, FS_Singleton
<1>  QED  BY <1>3

LEMMA ElementsFinite ==
  ASSUME NEW X, NEW s \in Seq(X)
  PROVE  IsFiniteSet(ToSet(s))
<1>1. Len(s) \in Nat /\ DOMAIN s = 1..Len(s)
  OBVIOUS
<1>2. IsFiniteSet(DOMAIN s)
  BY <1>1, FS_Interval
<1> QED BY <1>2, ImageFinite DEF ToSet

(* The elements of a set one after the other. *)
LEMMA SequenceOfSet ==
  ASSUME NEW S, IsFiniteSet(S), S # {}
  PROVE  SetToSeq(S) \in Seq(S) /\ Len(SetToSeq(S)) \in Nat \ {0}
<1> DEFINE n == Cardinality(S)
           s == SetToSeq(S)
<1>1. n \in Nat /\ \E f \in [1..n -> S] : IsInjective(f)
  <2>1. n \in Nat /\ ExistsBijection(1..n, S)
    BY FS_CardinalityType
  <2> HIDE DEF n
  <2> QED BY <2>1 DEF ExistsBijection, Bijection, Injection
<1>2. n # 0
  BY FS_EmptySet
<1>3. s \in [1..n -> S]
  <2>1. s = CHOOSE f \in [1..n -> S] : IsInjective(f)
    BY DEF SetToSeq
  <2> HIDE DEF s, n
  <2> QED BY <1>1, <2>1
<1> HIDE DEF n, s
<1>4. s \in Seq(S) /\ Len(s) = n
  BY <1>1, <1>3
<1> QED BY <1>1, <1>2, <1>4 DEF s

-------------------------------------------------------------------------------
(* Flattened and filtered sequences *)

(* What FlattenSeq computes, one sequence at a time. *)
LEMMA FlattenSteps ==
  ASSUME NEW X, NEW ss \in Seq(Seq(X))
  PROVE  \E f \in [0..Len(ss) -> Seq(X)] :
           /\ f[0] = <<>>
           /\ \A m \in 1..Len(ss) : f[m] = f[m - 1] \o ss[m]
           /\ FlattenSeq(ss) = f[Len(ss)]
<1> DEFINE Y == Seq(X)
           n == Len(ss)
           op == [m \in 1..n |-> [y \in Y |-> y \o ss[m]]]
<1>0. n \in Nat /\ (\A i \in 1..n : ss[i] \in Y) /\ <<>> \in Y
  OBVIOUS
<1>1. op \in [1..n -> [Y -> Y]]
  <2>1. \A y \in Y, m \in 1..n : y \o ss[m] \in Y
    BY <1>0
  <2> QED BY <2>1
<1>2. \A a \in Y, m \in 1..n : op[m][a] = a \o ss[m]
  OBVIOUS
<1>3. PICK f \in [0..n -> Y] :
         f[0] = <<>> /\ \A m \in 1..n : f[m] = op[m][f[m - 1]]
  <2> HIDE DEF op, n, Y
  <2>1. \A base \in Y : \E f \in [0..n -> Y] :
           f[0] = base /\ \A m \in 1..n : f[m] = op[m][f[m - 1]]
    <3>1. n \in Nat /\ op \in [1..n -> [Y -> Y]]
      BY <1>0, <1>1
    <3> SUFFICES ASSUME NEW base \in Y
                 PROVE  \E f \in [0..n -> Y] :
                          f[0] = base /\ \A m \in 1..n : f[m] = op[m][f[m - 1]]
      OBVIOUS
    <3> QED BY <3>1, PrimitiveRecursion, SMTT(60)
  <2> QED BY <1>0, <2>1
<1>4. \A m \in 1..n : m - 1 \in 0..n /\ f[m] = f[m - 1] \o ss[m]
  <2>1. ASSUME NEW m \in 1..n PROVE m - 1 \in 0..n
    BY <1>0
  <2>2. ASSUME NEW m \in 1..n PROVE f[m] = f[m - 1] \o ss[m]
    <3>1. f[m - 1] \in Y
      BY <2>1
    <3> HIDE DEF op, n, Y
    <3> QED BY <3>1, <1>2, <1>3
  <2> QED BY <2>1, <2>2
<1>6. f[0] = <<>>
  BY <1>3
<1>7. (\A i \in 1..n : ss[i] \in Seq(X)) /\ f \in [0..n -> Seq(X)] /\ n = Len(ss)
  BY <1>0
<1> HIDE DEF n, op, Y
<1>5. FlattenSeq(ss) = f[n]
  <2>1. CASE n = 0
    <3>1. ss = <<>>
      BY <2>1 DEF n
    <3> QED BY <3>1, <2>1, <1>6 DEF FlattenSeq, n
  <2>2. CASE n # 0
    <3> DEFINE Eq(h) == h = [i \in 1..n |-> IF i = 1 THEN ss[i] ELSE h[i - 1] \o ss[i]]
               flatten == CHOOSE h : Eq(h)
               g == [i \in 1..n |-> f[i]]
    <3>1. Eq(g)
      <4>1. ASSUME NEW i \in 1..n
            PROVE  f[i] = IF i = 1 THEN ss[i] ELSE g[i - 1] \o ss[i]
        <5>1. CASE i = 1
          <6>1. f[1] = f[0] \o ss[1]
            <7>1. 1 \in 1..n /\ 1 - 1 = 0
              BY <5>1
            <7> QED BY <7>1, <1>4
          <6>2. ss[1] \in Seq(X)
            BY <5>1, <1>7
          <6>3. <<>> \o ss[1] = ss[1]
            BY <6>2
          <6> QED BY <5>1, <6>1, <6>3, <1>6
        <5>2. CASE i # 1
          <6>1. i - 1 \in 1..n
            BY <5>2, <1>0
          <6>2. g[i - 1] = f[i - 1]
            BY <6>1
          <6> HIDE DEF g
          <6> QED BY <6>2, <5>2, <1>4
        <5> QED BY <5>1, <5>2
      <4> QED BY <4>1
    <3>2. Eq(flatten)
      <4>1. \E h : Eq(h)
        BY <3>1
      <4> HIDE DEF Eq
      <4> QED BY <4>1
    <3>3. FlattenSeq(ss) = flatten[n]
      BY <2>2 DEF FlattenSeq, n
    <3> HIDE DEF flatten, g
    <3>4. \A i \in 1..n : flatten[i] = IF i = 1 THEN ss[i] ELSE flatten[i - 1] \o ss[i]
      BY <3>2
    <3> HIDE DEF Eq
    <3> DEFINE T == {m \in 0..n : m = 0 \/ flatten[m] = f[m]}
    <3>5. 0 \in T
      BY <1>0
    <3>6. ASSUME NEW m \in 1..n, m - 1 \in T PROVE m \in T
      <4>0. m \in 0..n
        BY <1>0
      <4>1. CASE m = 1
        <5>1. flatten[1] = ss[1]
          BY <4>1, <3>4
        <5>2. f[1] = f[0] \o ss[1]
          <6>1. 1 \in 1..n /\ 1 - 1 = 0
            BY <4>1
          <6> QED BY <6>1, <1>4
        <5>3. ss[1] \in Seq(X)
          BY <4>1, <1>7
        <5>4. <<>> \o ss[1] = ss[1]
          BY <5>3
        <5> QED BY <4>0, <4>1, <5>1, <5>2, <5>4, <1>6
      <4>2. CASE m # 1
        <5>0. m - 1 # 0
          BY <4>2
        <5>1. flatten[m - 1] = f[m - 1]
          BY <3>6, <5>0
        <5>2. flatten[m] = f[m - 1] \o ss[m]
          BY <3>4, <4>2, <5>1
        <5>3. flatten[m] = f[m]
          BY <5>2, <1>4
        <5> QED BY <5>3, <4>0
      <4> QED BY <4>1, <4>2
    <3> HIDE DEF T
    <3>7. \A m \in 0..n : m \in T
      BY <1>0, <3>5, <3>6, InductionUpTo
    <3>8. n \in T
      BY <3>7, <1>0
    <3>9. flatten[n] = f[n]
      BY <3>8, <2>2 DEF T
    <3> QED BY <3>9, <3>3
  <2> QED BY <2>1, <2>2
<1> QED BY <1>4, <1>5, <1>6, <1>7

(* Induction over the sequences of X, by appending an element. *)
LEMMA SequencesInduct ==
  ASSUME NEW X, NEW T, <<>> \in T,
         \A s \in Seq(X), e \in X : s \in T => Append(s, e) \in T
  PROVE  \A s \in Seq(X) : s \in T
<1> SUFFICES ASSUME NEW s \in Seq(X) PROVE s \in T
  OBVIOUS
<1> DEFINE n == Len(s)
           U == {m \in 0..n : SubSeq(s, 1, m) \in T}
<1>0. n \in Nat
  OBVIOUS
<1>1. 0 \in U
  <2>1. SubSeq(s, 1, 0) = <<>>
    OBVIOUS
  <2>2. SubSeq(s, 1, 0) \in T
    BY <2>1
  <2> HIDE DEF n
  <2> QED BY <1>0, <2>2
<1>2. ASSUME NEW m \in 1..n, m - 1 \in U PROVE m \in U
  <2>1. SubSeq(s, 1, m - 1) \in Seq(X) /\ s[m] \in X /\ SubSeq(s, 1, m - 1) \in T
    BY <1>2
  <2>2. SubSeq(s, 1, m) = Append(SubSeq(s, 1, m - 1), s[m])
    OBVIOUS
  <2>3. SubSeq(s, 1, m) \in T
    BY <2>1, <2>2
  <2>4. m \in 0..n
    BY <1>0
  <2> QED BY <2>3, <2>4
<1>3. \A m \in 0..n : m \in U
  <2> HIDE DEF U, n
  <2> QED BY <1>0, <1>1, <1>2, InductionUpTo
<1>4. SubSeq(s, 1, n) = s
  OBVIOUS
<1>5. SubSeq(s, 1, n) \in T
  <2> HIDE DEF n
  <2> QED BY <1>0, <1>3
<1> QED BY <1>4, <1>5

(* Flattening, by appending a sequence. *)
LEMMA FlattenAppend ==
  ASSUME NEW X
  PROVE  /\ FlattenSeq(<<>>) = <<>>
         /\ \A ss \in Seq(Seq(X)), s \in Seq(X) :
               /\ FlattenSeq(ss) \in Seq(X)
               /\ FlattenSeq(Append(ss, s)) = FlattenSeq(ss) \o s
<1>1. FlattenSeq(<<>>) = <<>>
  BY DEF FlattenSeq
<1>2. ASSUME NEW ss \in Seq(Seq(X)), NEW s \in Seq(X)
      PROVE  /\ FlattenSeq(ss) \in Seq(X)
             /\ FlattenSeq(Append(ss, s)) = FlattenSeq(ss) \o s
  <2> DEFINE n == Len(ss)
             tt == Append(ss, s)
  <2>0. n \in Nat /\ tt \in Seq(Seq(X)) /\ Len(tt) = n + 1 /\ tt[n + 1] = s
        /\ \A m \in 1..n : tt[m] = ss[m]
    OBVIOUS
  <2>1. PICK f \in [0..n -> Seq(X)] :
           /\ f[0] = <<>>
           /\ \A m \in 1..n : f[m] = f[m - 1] \o ss[m]
           /\ FlattenSeq(ss) = f[n]
    BY FlattenSteps
  <2>2. PICK g \in [0..(n + 1) -> Seq(X)] :
           /\ g[0] = <<>>
           /\ \A m \in 1..(n + 1) : g[m] = g[m - 1] \o tt[m]
           /\ FlattenSeq(tt) = g[n + 1]
    <3> HIDE DEF tt
    <3>1. \E g \in [0..Len(tt) -> Seq(X)] :
           /\ g[0] = <<>>
           /\ \A m \in 1..Len(tt) : g[m] = g[m - 1] \o tt[m]
           /\ FlattenSeq(tt) = g[Len(tt)]
      BY <2>0, FlattenSteps
    <3> QED BY <2>0, <3>1
  <2> HIDE DEF tt, n
  <2> DEFINE U == {m \in 0..n : f[m] = g[m]}
  <2>3. 0 \in U
    BY <2>0, <2>1, <2>2
  <2>4. ASSUME NEW m \in 1..n, m - 1 \in U PROVE m \in U
    <3>1. m \in 0..n /\ m \in 1..(n + 1) /\ tt[m] = ss[m] /\ f[m - 1] = g[m - 1]
      BY <2>0, <2>4
    <3>2. f[m] = f[m - 1] \o ss[m] /\ g[m] = g[m - 1] \o tt[m]
      BY <3>1, <2>1, <2>2
    <3> QED BY <3>1, <3>2
  <2>5. n \in U
    <3> HIDE DEF U
    <3>1. \A m \in 0..n : m \in U
      BY <2>0, <2>3, <2>4, InductionUpTo
    <3> QED BY <3>1, <2>0
  <2>6. f[n] = g[n] /\ f[n] \in Seq(X)
    BY <2>5, <2>0
  <2>7. g[n + 1] = g[n] \o s
    <3>1. n + 1 \in 1..(n + 1) /\ (n + 1) - 1 = n
      BY <2>0
    <3> QED BY <3>1, <2>0, <2>2
  <2> QED BY <2>1, <2>2, <2>6, <2>7 DEF tt
<1> QED BY <1>1, <1>2

(* Flattening distributes over concatenation. *)
LEMMA FlattenConcat ==
  ASSUME NEW X, NEW a \in Seq(Seq(X)), NEW b \in Seq(Seq(X))
  PROVE  /\ FlattenSeq(a \o b) = FlattenSeq(a) \o FlattenSeq(b)
         /\ FlattenSeq(a \o b) \in Seq(X)
<1> DEFINE Y == Seq(X)
           T == {s \in Seq(Y) : FlattenSeq(a \o s) = FlattenSeq(a) \o FlattenSeq(s)}
<1>1. <<>> \in T
  <2>1. FlattenSeq(a) \in Seq(X)
    BY FlattenAppend
  <2>2. FlattenSeq(<<>>) = <<>> /\ FlattenSeq(a) \o <<>> = FlattenSeq(a) /\ a \o <<>> = a
    BY <2>1, FlattenAppend
  <2>3. <<>> \in Seq(Y)
    OBVIOUS
  <2> QED BY <2>2, <2>3
<1>2. ASSUME NEW s \in Seq(Y), NEW e \in Y, s \in T PROVE Append(s, e) \in T
  <2>1. a \o Append(s, e) = Append(a \o s, e) /\ a \o s \in Seq(Seq(X)) /\ Append(s, e) \in Seq(Y)
    OBVIOUS
  <2>2. /\ FlattenSeq(Append(a \o s, e)) = FlattenSeq(a \o s) \o e
        /\ FlattenSeq(Append(s, e)) = FlattenSeq(s) \o e
        /\ FlattenSeq(a) \in Seq(X) /\ FlattenSeq(s) \in Seq(X) /\ e \in Seq(X)
    BY <2>1, FlattenAppend
  <2>3. FlattenSeq(a \o s) = FlattenSeq(a) \o FlattenSeq(s)
    BY <1>2
  <2>4. (FlattenSeq(a) \o FlattenSeq(s)) \o e = FlattenSeq(a) \o (FlattenSeq(s) \o e)
    BY <2>2
  <2>5. FlattenSeq(a \o Append(s, e)) = FlattenSeq(a) \o FlattenSeq(Append(s, e))
    BY <2>1, <2>2, <2>3, <2>4
  <2> QED BY <2>1, <2>5
<1>3. b \in T
  <2> HIDE DEF T
  <2>1. \A s \in Seq(Y) : s \in T
    BY <1>1, <1>2, SequencesInduct
  <2> QED BY <2>1
<1>4. FlattenSeq(a) \in Seq(X) /\ FlattenSeq(b) \in Seq(X)
  BY FlattenAppend
<1>5. FlattenSeq(a \o b) = FlattenSeq(a) \o FlattenSeq(b)
  BY <1>3
<1> HIDE DEF T
<1> QED BY <1>4, <1>5

(* What Filter computes, one element at a time. *)
LEMMA FilterSteps ==
  ASSUME NEW X, NEW S, NEW s \in Seq(X)
  PROVE  \E f \in [0..Len(s) -> Seq(X)] :
           /\ f[0] = <<>>
           /\ \A m \in 1..Len(s) :
                 f[m] = IF s[m] \in S THEN Append(f[m - 1], s[m]) ELSE f[m - 1]
           /\ Filter(s, S) = f[Len(s)]
<1> DEFINE Y == Seq(X)
           n == Len(s)
           step(y, m) == IF s[m] \in S THEN Append(y, s[m]) ELSE y
           op == [m \in 1..n |-> [y \in Y |-> step(y, m)]]
<1>0. n \in Nat /\ (\A i \in 1..n : s[i] \in X) /\ <<>> \in Y
  OBVIOUS
<1>1. \A a \in Y, m \in 1..n : step(a, m) \in Y
  BY <1>0
<1>2. op \in [1..n -> [Y -> Y]] /\ \A a \in Y, m \in 1..n : op[m][a] = step(a, m)
  <2> HIDE DEF step, Y, n
  <2> QED BY <1>1
<1>3. PICK f \in [0..n -> Y] :
         f[0] = <<>> /\ \A m \in 1..n : f[m] = op[m][f[m - 1]]
  <2> HIDE DEF op, n, Y, step
  <2>1. \A base \in Y : \E f \in [0..n -> Y] :
           f[0] = base /\ \A m \in 1..n : f[m] = op[m][f[m - 1]]
    <3>1. n \in Nat /\ op \in [1..n -> [Y -> Y]]
      BY <1>0, <1>2
    <3> SUFFICES ASSUME NEW base \in Y
                 PROVE  \E f \in [0..n -> Y] :
                          f[0] = base /\ \A m \in 1..n : f[m] = op[m][f[m - 1]]
      OBVIOUS
    <3> QED BY <3>1, PrimitiveRecursion, SMTT(60)
  <2> QED BY <1>0, <2>1
<1>4. \A m \in 1..n : m - 1 \in 0..n /\ f[m] = step(f[m - 1], m)
  <2>1. ASSUME NEW m \in 1..n PROVE m - 1 \in 0..n
    BY <1>0
  <2> HIDE DEF op, n, Y, step
  <2>2. ASSUME NEW m \in 1..n PROVE f[m] = step(f[m - 1], m)
    <3>1. f[m - 1] \in Y
      BY <2>1
    <3> QED BY <3>1, <1>2, <1>3
  <2> QED BY <2>1, <2>2
<1>5. Filter(s, S) = f[n]
  <2> DEFINE Eq(h) == h = [i \in 0..n |-> IF i = 0 THEN <<>>
                              ELSE IF s[i] \in S THEN Append(h[i - 1], s[i]) ELSE h[i - 1]]
             kept == CHOOSE h : Eq(h)
  <2>1. Eq(f)
    <3> HIDE DEF op
    <3>1. ASSUME NEW i \in 0..n
          PROVE f[i] = IF i = 0 THEN <<>>
                       ELSE IF s[i] \in S THEN Append(f[i - 1], s[i]) ELSE f[i - 1]
      <4>1. CASE i = 0
        BY <4>1, <1>3
      <4>2. CASE i # 0
        <5>1. i \in 1..n
          BY <4>2, <1>0
        <5> QED BY <4>2, <5>1, <1>4
      <4> QED BY <4>1, <4>2
    <3> HIDE DEF n, Y
    <3> QED BY <3>1
  <2>2. Eq(kept)
    <3>1. \E h : Eq(h)
      BY <2>1
    <3> HIDE DEF Eq
    <3> QED BY <3>1
  <2>3. Filter(s, S) = kept[n]
    BY DEF Filter
  <2> HIDE DEF kept, op, n, Y
  <2>4. \A i \in 0..n : kept[i] = IF i = 0 THEN <<>> ELSE step(kept[i - 1], i)
    BY <2>2
  <2> HIDE DEF Eq, step
  <2> DEFINE T == {m \in 0..n : kept[m] = f[m]}
  <2>5. 0 \in T
    <3>1. 0 \in 0..n
      BY <1>0
    <3> QED BY <3>1, <2>4, <1>3
  <2>6. ASSUME NEW m \in 1..n, m - 1 \in T PROVE m \in T
    <3>1. m \in 0..n /\ m # 0 /\ kept[m - 1] = f[m - 1]
      BY <1>0, <2>6
    <3>2. kept[m] = f[m]
      BY <3>1, <2>4, <1>4
    <3> QED BY <3>1, <3>2
  <2>7. n \in T
    <3> HIDE DEF T
    <3>1. \A m \in 0..n : m \in T
      BY <1>0, <2>5, <2>6, InductionUpTo
    <3> QED BY <3>1, <1>0
  <2> QED BY <2>3, <2>7
<1>6. f[0] = <<>>
  BY <1>3
<1> HIDE DEF op
<1> QED BY <1>4, <1>5, <1>6

(* Filtering, by appending an element. *)
LEMMA FilterAppend ==
  ASSUME NEW X, NEW S
  PROVE  /\ Filter(<<>>, S) = <<>>
         /\ \A s \in Seq(X) : Filter(s, S) \in Seq(X)
         /\ \A s \in Seq(X), e \in X :
               Filter(Append(s, e), S) = IF e \in S THEN Append(Filter(s, S), e) ELSE Filter(s, S)
<1>1. Filter(<<>>, S) = <<>>
  <2>1. ASSUME NEW s \in Seq({}) PROVE Len(s) = 0 /\ Filter(s, S) = <<>>
    <3>1. \E f \in [0..Len(s) -> Seq({})] : f[0] = <<>> /\ Filter(s, S) = f[Len(s)]
      BY FilterSteps
    <3>2. Len(s) = 0
      OBVIOUS
    <3> QED BY <3>1, <3>2
  <2>2. <<>> \in Seq({})
    OBVIOUS
  <2> QED BY <2>1, <2>2
<1>2. ASSUME NEW s \in Seq(X) PROVE Filter(s, S) \in Seq(X)
  <2>1. \E f \in [0..Len(s) -> Seq(X)] : Filter(s, S) = f[Len(s)]
    BY FilterSteps
  <2>2. Len(s) \in 0..Len(s)
    OBVIOUS
  <2> QED BY <2>1, <2>2
<1>3. ASSUME NEW s \in Seq(X), NEW e \in X
      PROVE  Filter(Append(s, e), S) = IF e \in S THEN Append(Filter(s, S), e) ELSE Filter(s, S)
  <2> DEFINE n == Len(s)
             t == Append(s, e)
  <2>0. n \in Nat /\ t \in Seq(X) /\ Len(t) = n + 1 /\ t[n + 1] = e
        /\ \A m \in 1..n : t[m] = s[m]
    OBVIOUS
  <2>1. PICK f \in [0..n -> Seq(X)] :
           /\ f[0] = <<>>
           /\ \A m \in 1..n : f[m] = IF s[m] \in S THEN Append(f[m - 1], s[m]) ELSE f[m - 1]
           /\ Filter(s, S) = f[n]
    BY FilterSteps
  <2>2. PICK g \in [0..(n + 1) -> Seq(X)] :
           /\ g[0] = <<>>
           /\ \A m \in 1..(n + 1) :
                 g[m] = IF t[m] \in S THEN Append(g[m - 1], t[m]) ELSE g[m - 1]
           /\ Filter(t, S) = g[n + 1]
    <3> HIDE DEF t
    <3>1. \E g \in [0..Len(t) -> Seq(X)] :
           /\ g[0] = <<>>
           /\ \A m \in 1..Len(t) :
                 g[m] = IF t[m] \in S THEN Append(g[m - 1], t[m]) ELSE g[m - 1]
           /\ Filter(t, S) = g[Len(t)]
      BY <2>0, FilterSteps
    <3> QED BY <2>0, <3>1
  <2> HIDE DEF t, n
  <2> DEFINE U == {m \in 0..n : f[m] = g[m]}
  <2>3. 0 \in U
    BY <2>0, <2>1, <2>2
  <2>4. ASSUME NEW m \in 1..n, m - 1 \in U PROVE m \in U
    <3>1. m \in 0..n /\ m \in 1..(n + 1) /\ t[m] = s[m] /\ f[m - 1] = g[m - 1]
      BY <2>0, <2>4
    <3>2. f[m] = g[m]
      BY <3>1, <2>1, <2>2
    <3> QED BY <3>1, <3>2
  <2>5. n \in U
    <3> HIDE DEF U
    <3>1. \A m \in 0..n : m \in U
      BY <2>0, <2>3, <2>4, InductionUpTo
    <3> QED BY <3>1, <2>0
  <2>6. f[n] = g[n]
    BY <2>5
  <2>7. g[n + 1] = IF e \in S THEN Append(g[n], e) ELSE g[n]
    <3>1. n + 1 \in 1..(n + 1) /\ (n + 1) - 1 = n
      BY <2>0
    <3> QED BY <3>1, <2>0, <2>2
  <2> QED BY <2>1, <2>2, <2>6, <2>7 DEF t
<1> QED BY <1>1, <1>2, <1>3

(* The elements of a sequence with one more element... *)
LEMMA ToSetOfAppend ==
  ASSUME NEW X, NEW s \in Seq(X), NEW e \in X
  PROVE  ToSet(<<>>) = {} /\ ToSet(Append(s, e)) = ToSet(s) \cup {e}
<1>1. DOMAIN Append(s, e) = DOMAIN s \cup {Len(s) + 1} /\ Append(s, e)[Len(s) + 1] = e
      /\ \A i \in DOMAIN s : Append(s, e)[i] = s[i]
  OBVIOUS
<1>2. DOMAIN <<>> = {}
  OBVIOUS
<1> QED BY <1>1, <1>2 DEF ToSet

(* ... and of two sequences. *)
LEMMA ToSetOfConcat ==
  ASSUME NEW X, NEW s \in Seq(X), NEW t \in Seq(X)
  PROVE  ToSet(s \o t) = ToSet(s) \cup ToSet(t)
<1>1. ASSUME NEW i \in 1..Len(t) PROVE i + Len(s) \in 1..Len(s \o t) /\ (s \o t)[i + Len(s)] = t[i]
  OBVIOUS
<1>2. ASSUME NEW i \in 1..Len(s) PROVE i \in 1..Len(s \o t) /\ (s \o t)[i] = s[i]
  OBVIOUS
<1>3. ASSUME NEW i \in 1..Len(s \o t)
      PROVE  \/ i \in 1..Len(s) /\ (s \o t)[i] = s[i]
             \/ i - Len(s) \in 1..Len(t) /\ (s \o t)[i] = t[i - Len(s)]
  OBVIOUS
<1>4. DOMAIN s = 1..Len(s) /\ DOMAIN t = 1..Len(t) /\ DOMAIN (s \o t) = 1..Len(s \o t)
  OBVIOUS
<1> DEFINE u == s \o t
<1>5. \A x \in ToSet(s) : x \in ToSet(u)
  BY <1>2, <1>4 DEF ToSet
<1>6. \A x \in ToSet(t) : x \in ToSet(u)
  BY <1>1, <1>4 DEF ToSet
<1>7. ASSUME NEW x \in ToSet(u) PROVE x \in ToSet(s) \cup ToSet(t)
  <2>1. PICK i \in 1..Len(u) : x = u[i]
    BY <1>4 DEF ToSet
  <2> HIDE DEF u
  <2>2. \/ i \in 1..Len(s) /\ u[i] = s[i]
        \/ i - Len(s) \in 1..Len(t) /\ u[i] = t[i - Len(s)]
    BY <1>3 DEF u
  <2> QED BY <2>1, <2>2, <1>4 DEF ToSet
<1> QED BY <1>5, <1>6, <1>7

(* A flattened sequence has the elements of its parts. *)
LEMMA FlattenElements ==
  ASSUME NEW X, NEW ss \in Seq(Seq(X))
  PROVE  ToSet(FlattenSeq(ss)) = UNION {ToSet(ss[i]) : i \in DOMAIN ss}
<1> DEFINE Y == Seq(X)
           all(s) == UNION {ToSet(s[i]) : i \in DOMAIN s}
           T == {s \in Seq(Y) : ToSet(FlattenSeq(s)) = all(s)}
<1>1. <<>> \in T
  <2>1. FlattenSeq(<<>>) = <<>> /\ ToSet(<<>>) = {}
    BY FlattenAppend DEF ToSet
  <2>2. all(<<>>) = {} /\ <<>> \in Seq(Y)
    OBVIOUS
  <2> QED BY <2>1, <2>2
<1>2. ASSUME NEW s \in Seq(Y), NEW e \in Y, s \in T PROVE Append(s, e) \in T
  <2>1. Append(s, e) \in Seq(Y)
    OBVIOUS
  <2>2. FlattenSeq(Append(s, e)) = FlattenSeq(s) \o e /\ FlattenSeq(s) \in Seq(X)
    BY FlattenAppend
  <2>3. ToSet(FlattenSeq(s) \o e) = ToSet(FlattenSeq(s)) \cup ToSet(e)
    BY <2>2, ToSetOfConcat
  <2>4. all(Append(s, e)) = all(s) \cup ToSet(e)
    <3>1. DOMAIN Append(s, e) = DOMAIN s \cup {Len(s) + 1} /\ Append(s, e)[Len(s) + 1] = e
          /\ \A i \in DOMAIN s : Append(s, e)[i] = s[i]
      OBVIOUS
    <3> QED BY <3>1
  <2>5. ToSet(FlattenSeq(s)) = all(s)
    BY <1>2
  <2> HIDE DEF all
  <2>6. ToSet(FlattenSeq(Append(s, e))) = all(Append(s, e))
    BY <2>2, <2>3, <2>4, <2>5
  <2> QED BY <2>1, <2>6
<1>3. ss \in T
  <2> HIDE DEF T
  <2>1. \A s \in Seq(Y) : s \in T
    BY <1>1, <1>2, SequencesInduct
  <2> QED BY <2>1
<1> QED BY <1>3

(* A filtered sequence has the elements that are in the set. *)
LEMMA FilterElements ==
  ASSUME NEW X, NEW S, NEW s \in Seq(X)
  PROVE  ToSet(Filter(s, S)) = ToSet(s) \cap S
<1>8. <<>> \in Seq(X)
  OBVIOUS
<1>9. /\ Filter(<<>>, S) = <<>>
      /\ \A u \in Seq(X) : Filter(u, S) \in Seq(X)
      /\ \A u \in Seq(X), e \in X :
            Filter(Append(u, e), S) = IF e \in S THEN Append(Filter(u, S), e) ELSE Filter(u, S)
  BY FilterAppend
<1> DEFINE T == {t \in Seq(X) : ToSet(Filter(t, S)) = ToSet(t) \cap S}
<1>1. <<>> \in T
  <2>1. Filter(<<>>, S) = <<>> /\ ToSet(<<>>) = {}
    BY <1>9 DEF ToSet
  <2> QED BY <2>1
<1>2. ASSUME NEW t \in Seq(X), NEW e \in X, t \in T PROVE Append(t, e) \in T
  <2>1. Filter(t, S) \in Seq(X)
        /\ Filter(Append(t, e), S) = IF e \in S THEN Append(Filter(t, S), e) ELSE Filter(t, S)
    BY <1>9
  <2>2. ToSet(Append(t, e)) = ToSet(t) \cup {e}
    BY ToSetOfAppend
  <2>3. e \in S => ToSet(Filter(Append(t, e), S)) = ToSet(Filter(t, S)) \cup {e}
    BY <2>1, ToSetOfAppend
  <2>4. ToSet(Filter(t, S)) = ToSet(t) \cap S /\ Append(t, e) \in Seq(X)
    BY <1>2
  <2>5. ToSet(Filter(Append(t, e), S)) = ToSet(Append(t, e)) \cap S
    <3>1. CASE e \in S
      BY <3>1, <2>2, <2>3, <2>4
    <3>2. CASE e \notin S
      BY <3>2, <2>1, <2>2, <2>4
    <3> QED BY <3>1, <3>2
  <2> QED BY <2>4, <2>5
<1>3. s \in T
  <2> HIDE DEF T
  <2> QED BY <1>1, <1>2, SequencesInduct
<1> QED BY <1>3

(* Filtering distributes over concatenation... *)
LEMMA FilterConcat ==
  ASSUME NEW X, NEW S, NEW s \in Seq(X), NEW t \in Seq(X)
  PROVE  Filter(s \o t, S) = Filter(s, S) \o Filter(t, S)
<1>8. <<>> \in Seq(X)
  OBVIOUS
<1>9. /\ Filter(<<>>, S) = <<>>
      /\ \A u \in Seq(X) : Filter(u, S) \in Seq(X)
      /\ \A u \in Seq(X), e \in X :
            Filter(Append(u, e), S) = IF e \in S THEN Append(Filter(u, S), e) ELSE Filter(u, S)
  BY FilterAppend
<1> DEFINE T == {u \in Seq(X) : Filter(s \o u, S) = Filter(s, S) \o Filter(u, S)}
<1>0. Filter(s, S) \in Seq(X)
  BY <1>9
<1>1. <<>> \in T
  <2>1. Filter(<<>>, S) = <<>> /\ s \o <<>> = s /\ Filter(s, S) \o <<>> = Filter(s, S)
    BY <1>0, <1>9
  <2>2. Filter(s \o <<>>, S) = Filter(s, S) \o Filter(<<>>, S)
    BY <2>1
  <2> QED BY <2>2, <1>8
<1>2. ASSUME NEW u \in Seq(X), NEW e \in X, u \in T PROVE Append(u, e) \in T
  <2>1. s \o Append(u, e) = Append(s \o u, e) /\ s \o u \in Seq(X) /\ Append(u, e) \in Seq(X)
    OBVIOUS
  <2>2. /\ Filter(Append(u, e), S) = IF e \in S THEN Append(Filter(u, S), e) ELSE Filter(u, S)
        /\ Filter(Append(s \o u, e), S) = IF e \in S THEN Append(Filter(s \o u, S), e) ELSE Filter(s \o u, S)
        /\ Filter(u, S) \in Seq(X)
    BY <2>1, <1>9
  <2>3. Filter(s, S) \o Append(Filter(u, S), e) = Append(Filter(s, S) \o Filter(u, S), e)
    BY <1>0, <2>2
  <2>4. Filter(s \o u, S) = Filter(s, S) \o Filter(u, S)
    BY <1>2
  <2>5. Filter(s \o Append(u, e), S) = Filter(s, S) \o Filter(Append(u, e), S)
    BY <2>1, <2>2, <2>3, <2>4
  <2> QED BY <2>1, <2>5
<1>3. t \in T
  <2> HIDE DEF T
  <2> QED BY <1>1, <1>2, SequencesInduct
<1> QED BY <1>3

(* ... and over flattening. *)
LEMMA FilterFlatten ==
  ASSUME NEW X, NEW S, NEW ss \in Seq(Seq(X))
  PROVE  Filter(FlattenSeq(ss), S) = FlattenSeq([i \in 1..Len(ss) |-> Filter(ss[i], S)])
<1>8. <<>> \in Seq(X)
  OBVIOUS
<1>9. /\ Filter(<<>>, S) = <<>>
      /\ \A u \in Seq(X) : Filter(u, S) \in Seq(X)
      /\ \A u \in Seq(X), e \in X :
            Filter(Append(u, e), S) = IF e \in S THEN Append(Filter(u, S), e) ELSE Filter(u, S)
  BY FilterAppend
<1> DEFINE Y == Seq(X)
           each(u) == [i \in 1..Len(u) |-> Filter(u[i], S)]
           T == {u \in Seq(Y) : Filter(FlattenSeq(u), S) = FlattenSeq(each(u))}
<1>0. \A x \in Seq(X) : Filter(x, S) \in Seq(X)
  BY <1>9
<1>1. <<>> \in T
  <2>1. FlattenSeq(<<>>) = <<>> /\ Filter(<<>>, S) = <<>> /\ each(<<>>) = <<>> /\ <<>> \in Seq(Y)
    BY FlattenAppend, <1>9
  <2> QED BY <2>1
<1>2. ASSUME NEW u \in Seq(Y), NEW e \in Y, u \in T PROVE Append(u, e) \in T
  <2>1. Append(u, e) \in Seq(Y)
    OBVIOUS
  <2>2. FlattenSeq(Append(u, e)) = FlattenSeq(u) \o e /\ FlattenSeq(u) \in Seq(X)
    BY FlattenAppend
  <2>3. Filter(FlattenSeq(u) \o e, S) = Filter(FlattenSeq(u), S) \o Filter(e, S)
    BY <2>2, FilterConcat
  <2>4. each(u) \in Seq(Seq(X)) /\ Filter(e, S) \in Seq(X)
    BY <1>0
  <2>5. each(Append(u, e)) = Append(each(u), Filter(e, S))
    BY <1>0
  <2>6. Filter(FlattenSeq(u), S) = FlattenSeq(each(u))
    BY <1>2
  <2> HIDE DEF each
  <2>7. FlattenSeq(Append(each(u), Filter(e, S))) = FlattenSeq(each(u)) \o Filter(e, S)
    BY <2>4, FlattenAppend
  <2>8. Filter(FlattenSeq(Append(u, e)), S) = FlattenSeq(each(Append(u, e)))
    BY <2>2, <2>3, <2>5, <2>6, <2>7
  <2> QED BY <2>1, <2>8
<1>3. ss \in T
  <2> HIDE DEF T
  <2>1. \A s \in Seq(Y) : s \in T
    BY <1>1, <1>2, SequencesInduct
  <2> QED BY <2>1
<1> QED BY <1>3

(* The elements that stay keep their order, and none is passed over. *)
LEMMA FilterPlaces ==
  ASSUME NEW X, NEW S, NEW s \in Seq(X)
  PROVE  \E pos \in [1..Len(Filter(s, S)) -> 1..Len(s)] :
            /\ \A k \in 1..Len(Filter(s, S)) : Filter(s, S)[k] = s[pos[k]] /\ s[pos[k]] \in S
            /\ \A j, k \in 1..Len(Filter(s, S)) : j < k => pos[j] < pos[k]
            /\ \A i \in 1..Len(s) : s[i] \in S => \E k \in 1..Len(Filter(s, S)) : pos[k] = i
<1>8. <<>> \in Seq(X)
  OBVIOUS
<1>9. /\ Filter(<<>>, S) = <<>>
      /\ \A u \in Seq(X) : Filter(u, S) \in Seq(X)
      /\ \A u \in Seq(X), e \in X :
            Filter(Append(u, e), S) = IF e \in S THEN Append(Filter(u, S), e) ELSE Filter(u, S)
  BY FilterAppend
<1> DEFINE At(t, pos) ==
             /\ \A k \in 1..Len(Filter(t, S)) : Filter(t, S)[k] = t[pos[k]] /\ t[pos[k]] \in S
             /\ \A j, k \in 1..Len(Filter(t, S)) : j < k => pos[j] < pos[k]
             /\ \A i \in 1..Len(t) : t[i] \in S => \E k \in 1..Len(Filter(t, S)) : pos[k] = i
           T == {t \in Seq(X) : \E pos \in [1..Len(Filter(t, S)) -> 1..Len(t)] : At(t, pos)}
<1>1. <<>> \in T
  <2>1. Filter(<<>>, S) = <<>>
    BY <1>9
  <2> DEFINE pos == [k \in 1..0 |-> 0]
  <2>2. pos \in [1..Len(Filter(<<>>, S)) -> 1..Len(<<>>)] /\ At(<<>>, pos)
    BY <2>1
  <2>3. \E p \in [1..Len(Filter(<<>>, S)) -> 1..Len(<<>>)] : At(<<>>, p)
    BY <2>2
  <2> HIDE DEF At, pos
  <2> QED BY <2>3, <1>8
<1>2. ASSUME NEW t \in Seq(X), NEW e \in X, t \in T PROVE Append(t, e) \in T
  <2> DEFINE u == Append(t, e)
             n == Len(t)
             f == Filter(t, S)
             m == Len(f)
  <2>1. PICK pos \in [1..m -> 1..n] : At(t, pos)
    BY <1>2
  <2>2. f \in Seq(X) /\ m \in Nat /\ n \in Nat /\ u \in Seq(X) /\ Len(u) = n + 1 /\ u[n + 1] = e
        /\ \A i \in 1..n : u[i] = t[i]
    BY <1>9
  <2>3. CASE e \in S
    <3> DEFINE new == [k \in 1..(m + 1) |-> IF k = m + 1 THEN n + 1 ELSE pos[k]]
    <3>1. Filter(u, S) = Append(f, e)
      BY <2>3, <1>9
    <3>2. Len(Filter(u, S)) = m + 1 /\ Filter(u, S)[m + 1] = e /\ \A k \in 1..m : Filter(u, S)[k] = f[k]
      BY <3>1, <2>2
    <3> HIDE DEF u, n, m, f
    <3>3. \A k \in 1..m : pos[k] \in 1..n /\ pos[k] \in Nat /\ pos[k] < n + 1
      BY <2>1, <2>2
    <3>4. new \in [1..(m + 1) -> 1..(n + 1)]
      BY <2>2, <3>3
    <3>5. new[m + 1] = n + 1 /\ \A k \in 1..m : new[k] = pos[k]
      BY <2>2
    <3>50. \A k \in 1..(m + 1) : k = m + 1 \/ k \in 1..m
      BY <2>2
    <3>51. \A k \in 1..(n + 1) : k = n + 1 \/ k \in 1..n
      BY <2>2
    <3> HIDE DEF new
    <3>6. \A k \in 1..m : f[k] = t[pos[k]] /\ t[pos[k]] \in S
      BY <2>1 DEF f, m
    <3>7. ASSUME NEW k \in 1..(m + 1) PROVE Filter(u, S)[k] = u[new[k]] /\ u[new[k]] \in S
      BY <3>2, <3>3, <3>5, <3>50, <3>6, <2>2, <2>3
    <3>8. ASSUME NEW j \in 1..(m + 1), NEW k \in 1..(m + 1), j < k PROVE new[j] < new[k]
      <4>1. j \in 1..m
        BY <3>8, <2>2
      <4>2. \A a, b \in 1..m : a < b => pos[a] < pos[b]
        BY <2>1 DEF f, m
      <4> QED BY <4>1, <4>2, <3>3, <3>5, <3>50, <3>8
    <3>9. ASSUME NEW i \in 1..(n + 1), u[i] \in S PROVE \E k \in 1..(m + 1) : new[k] = i
      <4>1. CASE i = n + 1
        BY <4>1, <3>5, <2>2
      <4>2. CASE i # n + 1
        <5>1. i \in 1..n /\ t[i] \in S
          BY <4>2, <3>51, <3>9, <2>2
        <5>2. PICK k \in 1..m : pos[k] = i
          BY <5>1, <2>1 DEF f, m, n
        <5>3. k \in 1..(m + 1) /\ new[k] = i
          BY <5>2, <3>5, <2>2
        <5> QED BY <5>3
      <4> QED BY <4>1, <4>2
    <3>10. At(u, new) /\ new \in [1..Len(Filter(u, S)) -> 1..Len(u)]
      BY <3>2, <3>4, <3>7, <3>8, <3>9, <2>2
    <3>11. u \in T
      BY <3>10, <2>2
    <3> QED BY <3>11 DEF u
  <2>4. CASE e \notin S
    <3>1. Filter(u, S) = f
      BY <2>4, <1>9
    <3> HIDE DEF u, n, f, m
    <3>2. \A k \in 1..m : f[k] = t[pos[k]] /\ t[pos[k]] \in S /\ pos[k] \in 1..n /\ u[pos[k]] = t[pos[k]]
      BY <2>1, <2>2 DEF f, m
    <3>3. \A a, b \in 1..m : a < b => pos[a] < pos[b]
      BY <2>1 DEF f, m
    <3>4. ASSUME NEW i \in 1..(n + 1), u[i] \in S PROVE \E k \in 1..m : pos[k] = i
      <4>1. i \in 1..n /\ t[i] \in S
        <5>1. i = n + 1 \/ i \in 1..n
          BY <2>2
        <5> QED BY <5>1, <3>4, <2>2, <2>4
      <4> QED BY <4>1, <2>1 DEF f, m, n
    <3>5. pos \in [1..m -> 1..(n + 1)]
      BY <2>1, <2>2
    <3>6. At(u, pos) /\ pos \in [1..Len(Filter(u, S)) -> 1..Len(u)]
      <4>1. Len(Filter(u, S)) = m
        BY <3>1 DEF m
      <4> QED BY <3>1, <3>2, <3>3, <3>4, <3>5, <2>2, <4>1
    <3>7. u \in T
      BY <3>6, <2>2
    <3> QED BY <3>7 DEF u
  <2> QED BY <2>3, <2>4
<1>3. s \in T
  <2> HIDE DEF T
  <2> QED BY <1>1, <1>2, SequencesInduct
<1> QED BY <1>3

-------------------------------------------------------------------------------
(* Sequences, and the rules of Verdicts *)

(* What appending to one of the service's lists changes. *)
LEMMA AppendFacts ==
    ASSUME NEW S, NEW s \in Seq(S), NEW e \in S
    PROVE  /\ Append(s, e) \in Seq(S)
           /\ Len(Append(s, e)) = Len(s) + 1
           /\ DOMAIN Append(s, e) = 1..Len(s) + 1
           /\ DOMAIN s = 1..Len(s)
           /\ Len(s) \in Nat
           /\ \A i \in 1..Len(s) : Append(s, e)[i] = s[i]
           /\ Append(s, e)[Len(s) + 1] = e
  OBVIOUS

LEMMA ElementType ==
    ASSUME NEW S, NEW s \in Seq(S), NEW k \in DOMAIN s
    PROVE  s[k] \in S
  OBVIOUS

(* A functional sequence is a sequence: the instances of one authorization. *)
LEMMA FunctionIsSeq ==
    ASSUME NEW S, NEW n \in Nat, NEW f \in [1..n -> S]
    PROVE  f \in Seq(S) /\ Len(f) = n /\ DOMAIN f = 1..n
  OBVIOUS

(* Aggregating the instances of one execution denies what some instance      *)
(* denies and authorizes only what every instance authorizes                 *)
(* (authorization_judge.py 240-314).                                         *)
LEMMA AggregateByInstance ==
    ASSUME NEW js \in Seq(Judgment)
    PROVE  /\ Aggregate(js) \in Judgment
           /\ FromComponents(Aggregate(js)) = "unauthorized" <=>
                 \E k \in DOMAIN js, c \in Components : js[k][c] = "false"
           /\ FromComponents(Aggregate(js)) = "authorized" <=>
                 \A k \in DOMAIN js, c \in Components : js[k][c] = "true"
  <1>1. DOMAIN js = 1..Len(js)
    OBVIOUS
  <1>2. \A c \in Components :
          /\ Aggregate(js)[c] = "false" <=> \E k \in 1..Len(js) : js[k][c] = "false"
          /\ Aggregate(js)[c] = "true"  <=> \A k \in 1..Len(js) : js[k][c] = "true"
    BY DEF Aggregate
  <1>3. Aggregate(js) \in Judgment
    BY DEF Aggregate, Judgment, Tri
  <1>4. FromComponents(Aggregate(js)) = "unauthorized" <=>
           \E c \in Components : Aggregate(js)[c] = "false"
    BY DEF FromComponents
  <1>5. FromComponents(Aggregate(js)) = "authorized" <=>
           \A c \in Components : Aggregate(js)[c] = "true"
    <2>1. Components # {}
      BY DEF Components
    <2> QED
      BY <2>1 DEF FromComponents
  <1> QED
    BY <1>1, <1>2, <1>3, <1>4, <1>5

(* What the pure rules return. *)
LEMMA LabelTypes ==
    /\ \A j \in Judgment : FromComponents(j) \in AuthorizationLabels
    /\ \A e, core, goal : LabelForContract(e, core, goal) \in NecessityLabels
    /\ \A a, n, r : Combine(a, n, r) \in FinalLabels
  BY DEF FromComponents, LabelForContract, Combine, AuthorizationLabels, NecessityLabels,
         FinalLabels

(* A report has a reason (models/validation.py 243-256).                      *)
LEMMA ReasonsAreLabels ==
    ASSUME NEW a \in AuthorizationLabels, NEW n \in NecessityLabels,
           OverprivilegeReasons(a, n) # {}
    PROVE  a = "unauthorized" \/ n = "unnecessary"
  BY DEF OverprivilegeReasons, AuthorizationLabels, NecessityLabels
===============================================================================
