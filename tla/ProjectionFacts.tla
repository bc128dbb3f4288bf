----------------------------- MODULE ProjectionFacts -----------------------------
(***************************************************************************)
(* What the execution units of a source hold, for every source and every    *)
(* set of repair items: no unit of the lattice executes the statement of an *)
(* item it does not allow, and what a model's may.  And what an edit of     *)
(* SKILL.md leaves as it was: guards and dispatches move no other text.     *)
(***************************************************************************)
EXTENDS DescriptorClusters, SourceVariants, InstructionDocument, SharedFacts

-------------------------------------------------------------------------------
(* Counting *)

(* A strict order of a finite set puts one element at each rank. *)
LEMMA Ranked ==
    ASSUME NEW S, IsFiniteSet(S), NEW R,
           \A a \in S : <<a, a>> \notin R,
           \A a, b, c \in S : <<a, b>> \in R /\ <<b, c>> \in R => <<a, c>> \in R,
           \A a, b \in S : a # b => <<a, b>> \in R \/ <<b, a>> \in R
    PROVE  /\ \A i \in 1..Cardinality(S) :
                  \E c \in S : Cardinality({d \in S : <<d, c>> \in R}) = i - 1
           /\ \A c \in S : \E i \in 1..Cardinality(S) :
                  Cardinality({d \in S : <<d, c>> \in R}) = i - 1
           /\ \A b, c \in S :
                  Cardinality({d \in S : <<d, b>> \in R}) =
                  Cardinality({d \in S : <<d, c>> \in R}) => b = c
<1>  DEFINE n == Cardinality(S)
            under(c) == {d \in S : <<d, c>> \in R}
            rank == [c \in S |-> Cardinality(under(c)) + 1]
<1>1. n \in Nat
  BY FS_CardinalityType
<1>2. ASSUME NEW c \in S
      PROVE  Cardinality(under(c)) \in Nat /\ Cardinality(under(c)) < n
  <2>1. under(c) \in SUBSET S /\ c \notin under(c)
    OBVIOUS
  <2>  HIDE DEF under
  <2>2. IsFiniteSet(under(c)) /\ Cardinality(under(c)) <= n
        /\ (n = Cardinality(under(c)) => S = under(c))
    BY <2>1, FS_Subset
  <2>3. Cardinality(under(c)) \in Nat
    BY <2>2, FS_CardinalityType
  <2>4. Cardinality(under(c)) # n
    BY <2>1, <2>2
  <2>  HIDE DEF n
  <2>  QED  BY <2>2, <2>3, <2>4, <1>1
<1>3. ASSUME NEW b \in S, NEW c \in S, <<b, c>> \in R
      PROVE  Cardinality(under(b)) < Cardinality(under(c))
  <2>1. under(b) \in SUBSET under(c) /\ b \in under(c) /\ b \notin under(b)
        /\ under(c) \in SUBSET S
    BY <1>3
  <2>  HIDE DEF under
  <2>2. IsFiniteSet(under(c))
    BY <2>1, FS_Subset
  <2>3. /\ Cardinality(under(b)) <= Cardinality(under(c))
        /\ Cardinality(under(c)) = Cardinality(under(b)) => under(c) = under(b)
    BY <2>1, <2>2, FS_Subset
  <2>4. Cardinality(under(b)) # Cardinality(under(c))
    BY <2>1, <2>3
  <2>  QED  BY <2>3, <2>4, <1>2
<1>4. \A b, c \in S : Cardinality(under(b)) = Cardinality(under(c)) => b = c
  <2>  SUFFICES ASSUME NEW b \in S, NEW c \in S, b # c
                PROVE  Cardinality(under(b)) # Cardinality(under(c))
    OBVIOUS
  <2>1. <<b, c>> \in R \/ <<c, b>> \in R
    OBVIOUS
  <2>2. Cardinality(under(b)) < Cardinality(under(c))
        \/ Cardinality(under(c)) < Cardinality(under(b))
    BY <2>1, <1>3
  <2>3. Cardinality(under(b)) \in Nat /\ Cardinality(under(c)) \in Nat
    BY <1>2
  <2>  HIDE DEF under
  <2>  QED  BY <2>2, <2>3
<1>5. rank \in Injection(S, 1..n)
  <2>1. \A c \in S : rank[c] \in 1..n
    <3>  SUFFICES ASSUME NEW c \in S PROVE Cardinality(under(c)) + 1 \in 1..n
      OBVIOUS
    <3>1. Cardinality(under(c)) \in Nat /\ Cardinality(under(c)) < n
      BY <1>2
    <3>  HIDE DEF n, under
    <3>  QED  BY <3>1, <1>1
  <2>2. \A b, c \in S : rank[b] = rank[c] => b = c
    <3>  SUFFICES ASSUME NEW b \in S, NEW c \in S,
                         Cardinality(under(b)) + 1 = Cardinality(under(c)) + 1
                  PROVE  b = c
      OBVIOUS
    <3>1. Cardinality(under(b)) \in Nat /\ Cardinality(under(c)) \in Nat
      BY <1>2
    <3>2. Cardinality(under(b)) = Cardinality(under(c))
      <4>  HIDE DEF under
      <4>  QED  BY <3>1
    <3>  QED  BY <3>2, <1>4
  <2>  QED  BY <2>1, <2>2 DEF Injection, IsInjective
<1>6. rank \in Surjection(S, 1..n)
  <2>1. IsFiniteSet(1..n) /\ Cardinality(1..n) = n
    <3>1. /\ IsFiniteSet(1..n)
          /\ Cardinality(1..n) = IF 1 > n THEN 0 ELSE n - 1 + 1
      BY <1>1, FS_Interval
    <3>  HIDE DEF n
    <3>  QED  BY <3>1, <1>1
  <2>  HIDE DEF rank
  <2>  QED  BY <2>1, <1>5, FS_Injection
<1>7. \A i \in 1..n : \E c \in S : rank[c] = i
  BY <1>6 DEF Surjection
<1>8. ASSUME NEW i \in 1..n PROVE \E c \in S : Cardinality(under(c)) = i - 1
  <2>1. PICK c \in S : Cardinality(under(c)) + 1 = i
    BY <1>7
  <2>2. Cardinality(under(c)) \in Nat
    BY <1>2
  <2>  HIDE DEF under, n
  <2>  QED  BY <2>1, <2>2, <1>1
<1>9. ASSUME NEW c \in S PROVE \E i \in 1..n : Cardinality(under(c)) = i - 1
  <2>1. Cardinality(under(c)) \in Nat /\ Cardinality(under(c)) < n
    BY <1>2
  <2>  HIDE DEF under, n
  <2>2. Cardinality(under(c)) + 1 \in 1..n
        /\ Cardinality(under(c)) = (Cardinality(under(c)) + 1) - 1
    BY <2>1, <1>1
  <2>  QED  BY <2>2
<1>  QED  BY <1>4, <1>8, <1>9

LEMMA PositionsFinite ==
    ASSUME NEW src, src.code \in Seq(Statement), NEW T \in SUBSET Positions(src)
    PROVE  IsFiniteSet(T)
<1>1. Len(src.code) \in Nat
  OBVIOUS
<1>2. IsFiniteSet(Positions(src))
  BY <1>1, FS_Interval DEF Positions
<1>  QED  BY <1>2, FS_Subset

(* A unit that passes the comparison executes no action that the expected    *)
(* one does not execute at all.                                              *)
LEMMA CountedAction ==
    ASSUME NEW unit, IsFiniteSet(DOMAIN unit), NEW expected, NothingNew(unit, expected),
           NEW i \in DOMAIN unit
    PROVE  \E j \in DOMAIN expected : expected[j] = unit[i]
<1>  SUFFICES ASSUME \A j \in DOMAIN expected : expected[j] # unit[i] PROVE FALSE
  OBVIOUS
<1>  DEFINE mine   == {j \in DOMAIN unit : unit[j] = unit[i]}
            theirs == {j \in DOMAIN expected : expected[j] = unit[i]}
<1>1. theirs = {} /\ i \in mine
  OBVIOUS
<1>2. IsFiniteSet(mine) /\ Cardinality(mine) \in Nat /\ Cardinality(mine) # 0
  <2>1. IsFiniteSet(mine)
    BY FS_Subset
  <2>  HIDE DEF mine
  <2>  QED  BY <2>1, <1>1, FS_EmptySet, FS_CardinalityType
<1>3. Cardinality(theirs) = 0
  BY <1>1, FS_EmptySet
<1>4. Cardinality(mine) <= Cardinality(theirs)
  BY DEF NothingNew, ActsOf, CountOf
<1>  HIDE DEF mine, theirs
<1>  QED  BY <1>2, <1>3, <1>4

-------------------------------------------------------------------------------
(* Where an item is *)

(* The statements with the text of an item, and those at its line. *)
Quoted(src, x) == {i \in Positions(src) : src.code[i].text = x.raw}
AtLine(src, x) == {i \in Positions(src) : x.line # NoLine /\ src.code[i].line = x.line}
Found(src, x)  == Quoted(src, x) \cap AtLine(src, x)

LEMMA WhereItemsAre ==
    ASSUME NEW src, src.code \in Seq(Statement), NEW x, Grounded(src, x)
    PROVE  /\ Quoted(src, x) # {}
           /\ Matched(src, x) = Found(src, x)
           /\ Target(src, x) = IF Found(src, x) # {} THEN Found(src, x) ELSE Quoted(src, x)
<1>1. x.raw # None /\ Quoted(src, x) # {}
  <2>1. PICK i \in Positions(src) : src.code[i].text = x.raw
    BY DEF Grounded
  <2>2. src.code[i] \in Statement
    BY <2>1 DEF Positions
  <2>  QED  BY <2>1, <2>2, TextsAssumption DEF Statement, Quoted
<1>2. Matched(src, x) = Found(src, x)
  BY <1>1 DEF Matched, Found, Quoted, AtLine
<1>3. Target(src, x) = IF Found(src, x) # {} THEN Found(src, x)
                       ELSE IF Quoted(src, x) # {} THEN Quoted(src, x) ELSE AtLine(src, x)
  BY DEF Target, Found, Quoted, AtLine
<1>  QED  BY <1>1, <1>2, <1>3

(* Cutting an item out removes its statement where that is at the item's     *)
(* line; the group of a script that is parsed is cut nowhere else.           *)
LEMMA ErasedTarget ==
    ASSUME NEW src, src.code \in Seq(Statement), NEW items, NEW x \in items, Grounded(src, x)
    PROVE  /\ Found(src, x) # {} => \/ Found(src, x) \subseteq Erased(src, items, x)
                                    \/ Erased(src, items, x) = {} /\ Cardinality(items) # 1
           /\ Found(src, x) = {} /\ Cardinality(items) # 1 /\ src.engine = "ast" =>
                  Erased(src, items, x) = {}
<1>1. Matched(src, x) = Found(src, x)
  BY WhereItemsAre
<1>2. Found(src, x) \subseteq ErasedByTree(src, x)
  BY <1>1 DEF ErasedByTree
<1>3. Found(src, x) = {} => ErasedByTree(src, x) = {}
  BY <1>1 DEF ErasedByTree
<1>4. Found(src, x) # {} => Found(src, x) \subseteq ErasedByLines(src, x)
  BY DEF Found, AtLine, ErasedByLines
<1>5. Found(src, x) # {} => Found(src, x) \subseteq ErasedAlone(src, x)
  BY <1>2, <1>4 DEF ErasedAlone
<1>6. Found(src, x) # {} => \/ Found(src, x) \subseteq ErasedTogether(src, items, x)
                            \/ ErasedTogether(src, items, x) = {}
  BY <1>2, <1>4 DEF ErasedTogether
<1>7. Found(src, x) = {} /\ src.engine = "ast" => ErasedTogether(src, items, x) = {}
  BY <1>3 DEF ErasedTogether
<1>  QED  BY <1>5, <1>6, <1>7 DEF Erased

-------------------------------------------------------------------------------
(* Units *)

(* A rebound statement is no longer the one an item quotes. *)
LEMMA ReboundDiffers ==
    ASSUME NEW src, src.code \in Seq(Statement), NEW items, \A y \in items : Grounded(src, y),
           NEW x \in items, Rebindable(src, x), NEW i \in Target(src, x)
    PROVE  Rebound(src, items, i) # Act(src, i)
<1>  DEFINE fits(y) == y \in items /\ Rebindable(src, y) /\ i \in Matched(src, y)
            y == CHOOSE z \in items : Rebindable(src, z) /\ i \in Matched(src, z)
<1>1. Matched(src, x) # {}
  <2>1. Cardinality(Matched(src, x)) = 1
    BY DEF Rebindable
  <2>2. Cardinality({}) = 0
    BY FS_EmptySet
  <2>  QED  BY <2>1, <2>2
<1>2. i \in Matched(src, x)
  BY <1>1, WhereItemsAre
<1>3. fits(y)
  BY <1>2
<1>4. y.alt # src.code[i].text
  BY <1>3 DEF Grounded
<1>5. Rebound(src, items, i) = [Act(src, i) EXCEPT !.text = y.alt]
  BY <1>2 DEF Rebound
<1>  HIDE DEF y
<1>  QED  BY <1>4, <1>5 DEF Act

(* Without a rebinding a statement stays as it is. *)
LEMMA ReboundSame ==
    ASSUME NEW src, NEW items, NEW i, ~(\E y \in items : Rebindable(src, y))
    PROVE  Rebound(src, items, i) = Act(src, i)
  BY DEF Rebound

(* A unit that passes the comparison keeps nothing with the text of a        *)
(* blocked item unless a read was rebound to that text.                      *)
LEMMA NothingQuoted ==
    ASSUME NEW src, src.code \in Seq(Statement), NEW blocked,
           ~(\E y \in blocked : Rebindable(src, y)), NEW x \in blocked,
           Target(src, x) = Quoted(src, x),
           NEW unit, IsFiniteSet(DOMAIN unit), NothingNew(unit, Expected(src, blocked)),
           NEW i \in Quoted(src, x) \cap DOMAIN unit
    PROVE  unit[i] # Act(src, i)
<1>  SUFFICES ASSUME unit[i] = Act(src, i) PROVE FALSE
  OBVIOUS
<1>1. PICK j \in DOMAIN Expected(src, blocked) : Expected(src, blocked)[j] = Act(src, i)
  BY CountedAction
<1>2. j \in Positions(src) /\ j \notin Target(src, x) /\ Expected(src, blocked)[j] = Act(src, j)
  BY ReboundSame DEF Expected
<1>3. src.code[j].text = src.code[i].text
  BY <1>1, <1>2 DEF Act
<1>  QED  BY <1>2, <1>3 DEF Quoted

(* The statements of a blocked item are not in a unit that was proved... *)
LEMMA NeutralizedIsNarrow ==
    ASSUME NEW src, src.code \in Seq(Statement), NEW items, IsFiniteSet(items),
           \A y \in items : Grounded(src, y),
           NEW blocked \in SUBSET items, NEW x \in blocked,
           Localized(src, items, blocked) \/ Cardinality(items) = 1,
           Complete(src, Neutralized(src, items, blocked), blocked),
           NEW i \in Target(src, x) \cap DOMAIN Neutralized(src, items, blocked)
    PROVE  Neutralized(src, items, blocked)[i] # Act(src, i)
<1>  DEFINE unit == Neutralized(src, items, blocked)
<1>1. /\ DOMAIN unit \subseteq Positions(src)
      /\ \A j \in DOMAIN unit : unit[j] = Rebound(src, blocked, j)
      /\ ~Rebindable(src, x) => i \notin Erased(src, items, x)
  BY DEF Neutralized
<1>2. CASE Rebindable(src, x)
  BY <1>1, <1>2, ReboundDiffers
<1>3. CASE ~Rebindable(src, x)
  <2>1. Erased(src, items, x) # {} \/ Cardinality(items) = 1
    BY <1>3 DEF Localized
  <2>2. Found(src, x) = {}
    BY <1>1, <1>3, <2>1, ErasedTarget, WhereItemsAre
  <2>3. Target(src, x) = Quoted(src, x)
    BY <2>2, WhereItemsAre
  <2>4. ~(\E y \in blocked : Rebindable(src, y))
    <3>1. CASE Cardinality(items) = 1
      <4>1. PICK z : items = {z}
        BY <3>1, FS_Singleton
      <4>  QED  BY <4>1, <1>3
    <3>2. CASE Cardinality(items) # 1
      BY <3>2, <2>1, <2>2, ErasedTarget DEF Rebindable
    <3>  QED  BY <3>1, <3>2
  <2>5. IsFiniteSet(DOMAIN unit)
    BY <1>1, PositionsFinite
  <2>6. NothingNew(unit, Expected(src, blocked))
    BY DEF Complete
  <2>  HIDE DEF unit
  <2>7. i \in Quoted(src, x) \cap DOMAIN unit
    BY <2>3 DEF unit
  <2>8. unit[i] # Act(src, i)
    BY <2>3, <2>4, <2>5, <2>6, <2>7, NothingQuoted
  <2>  QED  BY <2>8 DEF unit
<1>  QED  BY <1>2, <1>3

LEMMA ConservativeIsNarrow ==
    ASSUME NEW src, NEW x
    PROVE  Target(src, x) \cap DOMAIN Conservative = {}
<1>1. 0 \notin Positions(src)
  BY DEF Positions
<1>2. Target(src, x) \subseteq Positions(src)
  BY DEF Target
<1>  QED  BY <1>1, <1>2 DEF Conservative

(* ... so no unit of the lattice executes an item it does not allow.         *)
LEMMA LatticeIsNarrow ==
    ASSUME NEW src, src.code \in Seq(Statement), NEW items, IsFiniteSet(items),
           \A y \in items : Grounded(src, y),
           NEW allowed \in SUBSET items, NEW x \in items \ allowed,
           NEW i \in Target(src, x) \cap DOMAIN Lattice(src, items)[allowed].unit
    PROVE  Lattice(src, items)[allowed].unit[i] # Act(src, i)
<1>1. CASE Cardinality(items) = 1
  <2>1. items = {x}
    <3>1. PICK z : items = {z}
      BY <1>1, FS_Singleton
    <3>  QED  BY <3>1
  <2>2. allowed = {}
    BY <2>1
  <2>3. (CHOOSE y \in items : TRUE) = x
    BY <2>1
  <2>4. Lattice(src, items)[allowed] = Single(src, x, {})
    BY <1>1, <2>2, <2>3 DEF Lattice
  <2>  DEFINE unit   == Neutralized(src, {x}, {x})
              proved == unit # Original(src) /\ Complete(src, unit, {x})
  <2>5. Lattice(src, items)[allowed].unit = IF proved THEN unit ELSE Conservative
    BY <2>4 DEF Single
  <2>6. CASE proved
    <3>1. Lattice(src, items)[allowed].unit = Neutralized(src, {x}, {x})
      BY <2>5, <2>6
    <3>  QED  BY <3>1, <2>1, <2>6, <1>1, NeutralizedIsNarrow
  <2>7. CASE ~proved
    <3>1. Lattice(src, items)[allowed].unit = Conservative
      BY <2>5, <2>7
    <3>  QED  BY <3>1, ConservativeIsNarrow
  <2>  QED  BY <2>6, <2>7
<1>2. CASE Cardinality(items) # 1
  <2>  DEFINE blocked == items \ allowed
              proved  == Localized(src, items, blocked)
                         /\ Complete(src, Neutralized(src, items, blocked), blocked)
  <2>1. Lattice(src, items)[allowed].unit =
            IF proved THEN Neutralized(src, items, blocked) ELSE Conservative
    BY <1>2 DEF Lattice, Variant
  <2>2. CASE proved
    BY <2>1, <2>2, NeutralizedIsNarrow
  <2>3. CASE ~proved
    <3>1. Lattice(src, items)[allowed].unit = Conservative
      BY <2>1, <2>3
    <3>  QED  BY <3>1, ConservativeIsNarrow
  <2>  QED  BY <2>2, <2>3
<1>  QED  BY <1>1, <1>2

(* A unit that a model wrote keeps nothing with the text of the item, unless *)
(* that is short: then an equal action of the script is gone in its place.   *)
LEMMA ModelUnitIsNarrow ==
    ASSUME NEW src, src.code \in Seq(Statement), NEW x, Grounded(src, x),
           NEW kept \in SUBSET Positions(src),
           ModelUnitAccepted(src, x, [j \in kept |-> Act(src, j)]),
           NEW i \in Target(src, x) \cap kept
    PROVE  Doubles(src, x) \ kept # {}
<1>  DEFINE unit     == [j \in kept |-> Act(src, j)]
            expected == Expected(src, {x})
            mine     == {j \in kept : Act(src, j) = Act(src, i)}
            theirs   == {j \in DOMAIN expected : Act(src, j) = Act(src, i)}
<1>  SUFFICES ASSUME Doubles(src, x) \ kept = {} PROVE FALSE
  OBVIOUS
<1>1. x.raw \in ShortTexts
  <2>1. src.code[i].text = x.raw
    BY WhereItemsAre DEF Found, Quoted
  <2>2. unit[i].text = x.raw /\ i \in DOMAIN unit
    BY <2>1 DEF Act
  <2>  QED  BY <2>2 DEF ModelUnitAccepted
<1>2. /\ DOMAIN expected \subseteq Positions(src) \ Target(src, x)
      /\ \A j \in DOMAIN expected : expected[j] = Act(src, j)
  <2>1. ~Rebindable(src, x)
    BY DEF ModelUnitAccepted
  <2>  QED  BY <2>1, ReboundSame DEF Expected
<1>3. theirs \subseteq mine /\ i \in mine /\ i \notin theirs
  BY <1>1, <1>2 DEF Doubles
<1>4. IsFiniteSet(mine)
  BY PositionsFinite
<1>5. Cardinality(mine) <= Cardinality(theirs)
  <2>1. NothingNew(unit, expected)
    BY DEF ModelUnitAccepted, Complete
  <2>2. mine = {j \in DOMAIN unit : unit[j] = Act(src, i)}
    OBVIOUS
  <2>3. theirs = {j \in DOMAIN expected : expected[j] = Act(src, i)}
    BY <1>2
  <2>4. Act(src, i) \in ActsOf(unit)
    BY DEF ActsOf
  <2>  HIDE DEF unit, expected, mine, theirs
  <2>  QED  BY <2>1, <2>2, <2>3, <2>4 DEF NothingNew, CountOf
<1>6. /\ IsFiniteSet(theirs) /\ Cardinality(theirs) <= Cardinality(mine)
      /\ Cardinality(theirs) = Cardinality(mine) => theirs = mine
  <2>  HIDE DEF mine, theirs
  <2>  QED  BY <1>3, <1>4, FS_Subset
<1>7. Cardinality(mine) \in Nat /\ Cardinality(theirs) \in Nat
  <2>  HIDE DEF mine, theirs
  <2>  QED  BY <1>4, <1>6, FS_CardinalityType
<1>  HIDE DEF mine, theirs
<1>  QED  BY <1>3, <1>5, <1>6, <1>7

-------------------------------------------------------------------------------
(* The file                                                                 *)

LineOf(X) == [kind: LineKinds, frags: Seq(X)]

(* A file is the sequence of its lines, whatever its fragments are taken from. *)
LEMMA FileOf ==
    ASSUME NEW X, NEW d \in Seq(LineOf(X))
    PROVE  IsFile(d)
<1>1. Lines(d) = 1..Len(d) /\ \A l \in 1..Len(d) : d[l] \in LineOf(X)
  BY DEF Lines
<1>2. ASSUME NEW l \in 1..Len(d) PROVE d[l].frags \in Seq(FragmentsOf(d))
  <2>1. d[l].frags \in Seq(X) /\ ToSet(d[l].frags) \subseteq FragmentsOf(d)
    BY <1>1 DEF FragmentsOf, LineOf
  <2>2. \A p \in 1..Len(d[l].frags) : d[l].frags[p] \in FragmentsOf(d)
    BY <2>1 DEF ToSet
  <2>  DEFINE s == d[l].frags
              F == FragmentsOf(d)
  <2>3. s \in Seq(X) /\ \A p \in 1..Len(s) : s[p] \in F
    BY <2>1, <2>2
  <2>  HIDE DEF s, F
  <2>4. s \in Seq(F)
    BY <2>3
  <2>  QED  BY <2>4 DEF s, F
<1>3. \A l \in 1..Len(d) : d[l] \in [kind: LineKinds, frags: Seq(FragmentsOf(d))]
  BY <1>1, <1>2 DEF LineOf
<1>  DEFINE L == LineOf(X)
            M == [kind: LineKinds, frags: Seq(FragmentsOf(d))]
<1>4. d \in Seq(M)
  <2>1. d \in Seq(L) /\ \A l \in 1..Len(d) : d[l] \in M
    BY <1>3
  <2>  HIDE DEF L, M
  <2>  QED  BY <2>1
<1>  QED  BY <1>4 DEF IsFile

LEMMA LineFrags ==
    ASSUME NEW X, NEW d \in Seq(LineOf(X))
    PROVE  \A l \in 1..Len(d) : d[l].kind \in LineKinds /\ d[l].frags \in Seq(X)
<1>1. \A l \in 1..Len(d) : d[l] \in LineOf(X)
  OBVIOUS
<1>  QED  BY <1>1 DEF LineOf

LEMMA WiderSeq ==
    ASSUME NEW X, NEW Y, X \subseteq Y, NEW s \in Seq(X)
    PROVE  s \in Seq(Y)
  OBVIOUS

LEMMA WiderFile ==
    ASSUME NEW X, NEW Y, X \subseteq Y, NEW d \in Seq(LineOf(X))
    PROVE  d \in Seq(LineOf(Y))
<1>1. LineOf(X) \subseteq LineOf(Y)
  BY WiderSeq DEF LineOf
<1>  QED  BY <1>1, WiderSeq

LEMMA HasFragment ==
    ASSUME NEW X, NEW d \in Seq(LineOf(X)), NEW is, NEW of
    PROVE  Has(d, is, of) <=> \E f \in FragmentsOf(d) : f.is = is /\ f.of = of
<1>  DEFINE at(l) == {<<l, p>> : p \in {q \in DOMAIN d[l].frags :
                                d[l].frags[q].is = is /\ d[l].frags[q].of = of}}
<1>1. Places(d, is, of) = UNION {at(l) : l \in Lines(d)}
  BY DEF Places
<1>2. Has(d, is, of) <=> \E l \in Lines(d) : at(l) # {}
  BY <1>1 DEF Has
<1>3. Has(d, is, of) <=> \E l \in Lines(d) : \E p \in DOMAIN d[l].frags :
                            d[l].frags[p].is = is /\ d[l].frags[p].of = of
  BY <1>2
<1>  QED  BY <1>3 DEF FragmentsOf, ToSet

(* The fragments of a file are those of its lines, whatever their order. *)
LEMMA FragmentsOfLines ==
    ASSUME NEW X, NEW d \in Seq(LineOf(X))
    PROVE  FragmentsOf(d) = UNION {ToSet(e.frags) : e \in ToSet(d)}
<1>1. ToSet(d) = {d[l] : l \in Lines(d)}
  BY DEF ToSet, Lines
<1>  QED  BY <1>1 DEF FragmentsOf

(* The text of lines that follow each other. *)
LEMMA TextAppend ==
    ASSUME NEW X
    PROVE  /\ TextIn(<<>>) = <<>>
           /\ \A d \in Seq(LineOf(X)) : TextIn(d) \in Seq(X)
           /\ \A d \in Seq(LineOf(X)), e \in LineOf(X) :
                  TextIn(Append(d, e)) = TextIn(d) \o e.frags
<1>1. TextIn(<<>>) = <<>>
  <2>1. [l \in Lines(<<>>) |-> <<>>[l].frags] = <<>>
    BY DEF Lines
  <2>  QED  BY <2>1, FlattenAppend DEF TextIn
<1>2. ASSUME NEW d \in Seq(LineOf(X)) PROVE TextIn(d) \in Seq(X)
  <2>  DEFINE each == [l \in 1..Len(d) |-> d[l].frags]
  <2>1. \A l \in 1..Len(d) : d[l].frags \in Seq(X)
    BY LineFrags
  <2>2. each \in Seq(Seq(X)) /\ TextIn(d) = FlattenSeq(each) /\ <<>> \in Seq(X)
    BY <2>1 DEF TextIn, Lines
  <2>  HIDE DEF each
  <2>  QED  BY <2>2, FlattenAppend
<1>3. ASSUME NEW d \in Seq(LineOf(X)), NEW e \in LineOf(X)
      PROVE  TextIn(Append(d, e)) = TextIn(d) \o e.frags
  <2>  DEFINE each == [l \in 1..Len(d) |-> d[l].frags]
  <2>0. e.frags \in Seq(X) /\ \A l \in 1..Len(d) : d[l].frags \in Seq(X)
    BY LineFrags DEF LineOf
  <2>1. e.frags \in Seq(X) /\ each \in Seq(Seq(X))
    BY <2>0
  <2>2. [l \in Lines(Append(d, e)) |-> Append(d, e)[l].frags] = Append(each, e.frags)
    BY DEF Lines
  <2>3. TextIn(d) = FlattenSeq(each) /\ TextIn(Append(d, e)) = FlattenSeq(Append(each, e.frags))
    BY <2>2 DEF TextIn, Lines
  <2>  HIDE DEF each
  <2>  QED  BY <2>1, <2>3, FlattenAppend
<1>  QED  BY <1>1, <1>2, <1>3

LEMMA TextConcat ==
    ASSUME NEW X, NEW a \in Seq(LineOf(X)), NEW b \in Seq(LineOf(X))
    PROVE  TextIn(a \o b) = TextIn(a) \o TextIn(b)
<1>  DEFINE L == LineOf(X)
            T == {s \in Seq(L) : TextIn(a \o s) = TextIn(a) \o TextIn(s)}
<1>0. /\ TextIn(<<>>) = <<>>
      /\ \A d \in Seq(L) : TextIn(d) \in Seq(X)
      /\ \A d \in Seq(L), e \in L : TextIn(Append(d, e)) = TextIn(d) \o e.frags
  BY TextAppend
<1>1. \A e \in L : e.frags \in Seq(X)
  BY DEF LineOf
<1>  HIDE DEF L
<1>2. <<>> \in T
  <2>1. a \o <<>> = a /\ <<>> \in Seq(L)
    BY DEF L
  <2>2. TextIn(a) \in Seq(X)
    BY <1>0 DEF L
  <2>  DEFINE x == TextIn(a)
  <2>21. x \in Seq(X)
    BY <2>2 DEF x
  <2>  HIDE DEF x
  <2>22. x \o <<>> = x
    BY <2>21
  <2>3. TextIn(a) \o <<>> = TextIn(a)
    BY <2>22 DEF x
  <2>  QED  BY <2>1, <2>3, <1>0
<1>3. ASSUME NEW s \in Seq(L), NEW e \in L, s \in T PROVE Append(s, e) \in T
  <2>1. a \in Seq(L) /\ a \o s \in Seq(L) /\ Append(s, e) \in Seq(L)
        /\ a \o Append(s, e) = Append(a \o s, e)
    BY DEF L
  <2>2. /\ TextIn(Append(a \o s, e)) = TextIn(a \o s) \o e.frags
        /\ TextIn(Append(s, e)) = TextIn(s) \o e.frags
        /\ TextIn(a) \in Seq(X) /\ TextIn(s) \in Seq(X) /\ e.frags \in Seq(X)
    BY <2>1, <1>0, <1>1
  <2>3. TextIn(a \o s) = TextIn(a) \o TextIn(s)
    BY <1>3
  <2>4. \A u, v, w \in Seq(X) : (u \o v) \o w = u \o (v \o w)
    OBVIOUS
  <2>5. TextIn(a \o Append(s, e)) = TextIn(a) \o TextIn(Append(s, e))
    <3>1. (TextIn(a) \o TextIn(s)) \o e.frags = TextIn(a) \o (TextIn(s) \o e.frags)
      BY <2>2, <2>4
    <3>  QED  BY <2>1, <2>2, <2>3, <3>1
  <2>  QED  BY <2>1, <2>5
<1>4. b \in T
  <2>  HIDE DEF T
  <2>1. \A s \in Seq(L) : s \in T
    BY <1>2, <1>3, SequencesInduct
  <2>  QED  BY <2>1 DEF L
<1>  QED  BY <1>4

(* The text of a file made of pieces. *)
LEMMA TextFlatten ==
    ASSUME NEW X, NEW ss \in Seq(Seq(LineOf(X)))
    PROVE  /\ [i \in 1..Len(ss) |-> TextIn(ss[i])] \in Seq(Seq(X))
           /\ TextIn(FlattenSeq(ss)) = FlattenSeq([i \in 1..Len(ss) |-> TextIn(ss[i])])
<1>  DEFINE L == LineOf(X)
            Y == Seq(L)
            each(u) == [i \in 1..Len(u) |-> TextIn(u[i])]
            T == {u \in Seq(Y) : TextIn(FlattenSeq(u)) = FlattenSeq(each(u))}
<1>0. \A s \in Y : TextIn(s) \in Seq(X)
  <2>1. \A d \in Seq(LineOf(X)) : TextIn(d) \in Seq(X)
    BY TextAppend
  <2>  QED  BY <2>1
<1>1. \A u \in Seq(Y) : each(u) \in Seq(Seq(X))
  BY <1>0
<1>2. <<>> \in T
  <2>1. FlattenSeq(<<>>) = <<>> /\ TextIn(<<>>) = <<>> /\ each(<<>>) = <<>> /\ <<>> \in Seq(Y)
    BY FlattenAppend, TextAppend
  <2>  QED  BY <2>1
<1>3. ASSUME NEW u \in Seq(Y), NEW e \in Y, u \in T PROVE Append(u, e) \in T
  <2>1. Append(u, e) \in Seq(Y)
    OBVIOUS
  <2>  HIDE DEF L
  <2>2. FlattenSeq(Append(u, e)) = FlattenSeq(u) \o e /\ FlattenSeq(u) \in Seq(L)
    BY FlattenAppend
  <2>3. TextIn(FlattenSeq(u) \o e) = TextIn(FlattenSeq(u)) \o TextIn(e)
    BY <2>2, TextConcat DEF L
  <2>4. each(u) \in Seq(Seq(X)) /\ TextIn(e) \in Seq(X)
    BY <1>0, <1>1
  <2>5. each(Append(u, e)) = Append(each(u), TextIn(e))
    BY <1>0
  <2>6. TextIn(FlattenSeq(u)) = FlattenSeq(each(u))
    BY <1>3
  <2>  HIDE DEF each
  <2>7. FlattenSeq(Append(each(u), TextIn(e))) = FlattenSeq(each(u)) \o TextIn(e)
    BY <2>4, FlattenAppend
  <2>8. TextIn(FlattenSeq(Append(u, e))) = FlattenSeq(each(Append(u, e)))
    BY <2>2, <2>3, <2>5, <2>6, <2>7
  <2>  QED  BY <2>1, <2>8
<1>4. ss \in T
  <2>  HIDE DEF T
  <2>1. \A u \in Seq(Y) : u \in T
    BY <1>2, <1>3, SequencesInduct
  <2>  QED  BY <2>1
<1>  QED  BY <1>1, <1>4

-------------------------------------------------------------------------------
(* A line that is split                                                     *)

(* What a run of unguarded fragments ends with: q is the last of those that  *)
(* begin at m, or m itself where nothing begins.                             *)
EndsAt(n, hits, m, q) ==
    IF m = 0 \/ m \in hits THEN q = m
    ELSE (\A r \in m..q : r \notin hits) /\ (q = n \/ q + 1 \in hits)

LEMMA RunsEnd ==
    ASSUME NEW n \in Nat, NEW hits, NEW m \in 1..n, m \notin hits
    PROVE  \E q \in m..n : EndsAt(n, hits, m, q)
<1>  DEFINE T == {q \in m..n : q = n \/ q + 1 \in hits}
<1>1. T \in SUBSET Nat /\ n \in T
  OBVIOUS
<1>2. PICK q \in T : \A k \in T : q <= k
  <2>  HIDE DEF T
  <2>  QED  BY <1>1, Smallest
<1>3. ASSUME NEW r \in m..q, r \in hits PROVE FALSE
  <2>1. r # m /\ r - 1 \in m..n /\ (r - 1) + 1 = r
    BY <1>3, <1>2
  <2>2. r - 1 \in T
    BY <2>1, <1>3
  <2>  QED  BY <2>2, <1>2
<1>  QED  BY <1>2, <1>3 DEF EndsAt

(* Each run of unhit fragments, without what is outside S, stands where it    *)
(* begins, and nothing stands anywhere else.                                 *)
RunTexts(s, S, hits, tt) ==
    /\ Len(tt) = Len(s)
    /\ \A p \in 1..Len(s) :
           /\ p \in hits => s[p] \notin S /\ tt[p] = <<>>
           /\ p \notin hits /\ p > 1 /\ p - 1 \notin hits => tt[p] = <<>>
           /\ p \notin hits /\ (p = 1 \/ p - 1 \in hits) =>
                  \A q \in p..Len(s) : EndsAt(Len(s), hits, p, q) =>
                      tt[p] = Filter(SubSeq(s, p, q), S)

(* The texts between the hits, filtered of the hits, are the whole text.     *)
LEMMA RunsCover ==
    ASSUME NEW X, NEW S, NEW s \in Seq(X), NEW hits, NEW tt \in Seq(Seq(X)),
           RunTexts(s, S, hits, tt)
    PROVE  FlattenSeq(tt) = Filter(s, S)
<1>  DEFINE n == Len(s)
            Upto(q) == Filter(SubSeq(s, 1, q), S)
<1>  USE DEF RunTexts
<1>0. /\ Filter(<<>>, S) = <<>>
      /\ \A u \in Seq(X) : Filter(u, S) \in Seq(X)
      /\ \A u \in Seq(X), e \in X :
            Filter(Append(u, e), S) = IF e \in S THEN Append(Filter(u, S), e) ELSE Filter(u, S)
  BY FilterAppend
<1>10. \A u, v \in Seq(X) : Filter(u \o v, S) = Filter(u, S) \o Filter(v, S)
  BY FilterConcat
<1>11. \E f \in [0..Len(tt) -> Seq(X)] :
        /\ f[0] = <<>>
        /\ \A m \in 1..Len(tt) : f[m] = f[m - 1] \o tt[m]
        /\ FlattenSeq(tt) = f[Len(tt)]
  BY FlattenSteps
<1>1. PICK f \in [0..n -> Seq(X)] :
        /\ f[0] = <<>>
        /\ \A m \in 1..n : f[m] = f[m - 1] \o tt[m]
        /\ FlattenSeq(tt) = f[n]
  BY <1>11
<1>2. n \in Nat
  OBVIOUS
<1>3. \A q \in 0..n : SubSeq(s, 1, q) \in Seq(X)
  OBVIOUS
<1>4. \A q \in 0..n : Upto(q) \in Seq(X)
  BY <1>0, <1>3
<1>  DEFINE T == {m \in 0..n : \A q \in m..n : EndsAt(n, hits, m, q) => f[m] = Upto(q)}
<1>5. 0 \in T
  <2>1. SubSeq(s, 1, 0) = <<>>
    OBVIOUS
  <2>2. f[0] = Upto(0)
    BY <2>1, <1>0, <1>1
  <2>  HIDE DEF Upto, n
  <2>  QED  BY <2>2, <1>2 DEF EndsAt
<1>6. ASSUME NEW m \in 1..n, m - 1 \in T PROVE m \in T
  <2>  SUFFICES ASSUME NEW q \in m..n, EndsAt(n, hits, m, q) PROVE f[m] = Upto(q)
    OBVIOUS
  <2>0. m - 1 \in 0..n /\ tt[m] \in Seq(X)
    OBVIOUS
  <2>1. f[m] = f[m - 1] \o tt[m] /\ f[m - 1] \in Seq(X) /\ m - 1 \in 0..n
    BY <1>1, <2>0
  <2>2. \A r \in (m - 1)..n : EndsAt(n, hits, m - 1, r) => f[m - 1] = Upto(r)
    BY <1>6
  <2>3. CASE m \in hits
    <3>1. q = m /\ tt[m] = <<>>
      BY <2>3 DEF EndsAt
    <3>2. EndsAt(n, hits, m - 1, m - 1)
      BY <2>3, <1>2 DEF EndsAt
    <3>3. f[m - 1] = Upto(m - 1)
      BY <3>2, <2>2, <1>2
    <3>4. SubSeq(s, 1, m) = Append(SubSeq(s, 1, m - 1), s[m]) /\ s[m] \in X /\ s[m] \notin S
      BY <2>3
    <3>5. Upto(m) = Upto(m - 1)
      BY <3>4, <1>0, <1>3, <2>1
    <3>6. f[m] = f[m - 1]
      BY <3>1, <2>1
    <3>  QED  BY <3>1, <3>3, <3>5, <3>6
  <2>4. CASE m \notin hits /\ (m = 1 \/ m - 1 \in hits)
    <3>1. tt[m] = Filter(SubSeq(s, m, q), S)
      BY <2>4
    <3>2. EndsAt(n, hits, m - 1, m - 1)
      BY <2>4, <1>2 DEF EndsAt
    <3>3. f[m - 1] = Upto(m - 1)
      BY <3>2, <2>2, <1>2
    <3>4. SubSeq(s, 1, m - 1) \o SubSeq(s, m, q) = SubSeq(s, 1, q)
          /\ SubSeq(s, m, q) \in Seq(X)
      OBVIOUS
    <3>5. Filter(SubSeq(s, 1, m - 1) \o SubSeq(s, m, q), S) =
             Filter(SubSeq(s, 1, m - 1), S) \o Filter(SubSeq(s, m, q), S)
      BY <3>4, <1>3, <2>1, <1>10
    <3>  QED  BY <3>1, <3>3, <3>4, <3>5, <2>1
  <2>5. CASE m \notin hits /\ m > 1 /\ m - 1 \notin hits
    <3>1. tt[m] = <<>>
      BY <2>5
    <3>2. EndsAt(n, hits, m - 1, q)
      BY <2>5, <1>2 DEF EndsAt
    <3>3. f[m - 1] = Upto(q)
      BY <3>2, <2>2, <1>2
    <3>4. f[m] = f[m - 1]
      BY <3>1, <2>1
    <3>  QED  BY <3>3, <3>4
  <2>6. m = 1 \/ m > 1
    BY <1>2
  <2>  QED  BY <2>3, <2>4, <2>5, <2>6
<1>7. n \in T
  <2>  HIDE DEF T
  <2>1. \A m \in 0..n : m \in T
    BY <1>2, <1>5, <1>6, InductionUpTo
  <2>  QED  BY <2>1, <1>2
<1>8. EndsAt(n, hits, n, n)
  BY <1>2 DEF EndsAt
<1>9. f[n] = Upto(n) /\ SubSeq(s, 1, n) = s
  BY <1>7, <1>8
<1>  QED  BY <1>1, <1>9
LEMMA LineFacts ==
    ASSUME NEW X
    PROVE  /\ Blank \in LineOf(X) /\ TextIn(<<Blank>>) = <<>>
           /\ \A e \in LineOf(X) : TextIn(<<e>>) = e.frags
           /\ \A e \in LineOf(X) : <<e>> \in Seq(LineOf(X))
<1>1. <<>> \in Seq(X)
  OBVIOUS
<1>2. Blank \in LineOf(X) /\ Blank.frags = <<>>
  BY <1>1 DEF Blank, Line, LineOf, LineKinds
<1>3. ASSUME NEW e \in LineOf(X) PROVE TextIn(<<e>>) = e.frags
  <2>  DEFINE L == LineOf(X)
  <2>1. e \in L /\ e.frags \in Seq(X)
    BY DEF LineOf
  <2>2. TextIn(Append(<<>>, e)) = TextIn(<<>>) \o e.frags /\ TextIn(<<>>) = <<>>
    <3>1. <<>> \in Seq(L)
      OBVIOUS
    <3>  QED  BY <3>1, TextAppend
  <2>3. \A s \in Seq(X) : <<>> \o s = s
    OBVIOUS
  <2>  HIDE DEF L
  <2>4. Append(<<>>, e) = <<e>>
    OBVIOUS
  <2>  QED  BY <2>1, <2>2, <2>3, <2>4
<1>4. \A e \in LineOf(X) : <<e>> \in Seq(LineOf(X))
  <2>  DEFINE L == LineOf(X)
  <2>  HIDE DEF L
  <2>1. \A e \in L : <<e>> \in Seq(L)
    OBVIOUS
  <2>  QED  BY <2>1 DEF L
<1>5. TextIn(<<Blank>>) = <<>>
  BY <1>2, <1>3
<1>  QED  BY <1>2, <1>3, <1>4, <1>5

(* A line that is split has a guard for every fragment that is hit, and the  *)
(* other fragments in their order (instruction_rewriter.py 1323-1497).       *)
LEMMA SplitFacts ==
    ASSUME NEW X, NEW line \in LineOf(X), NEW guarded,
           DOMAIN guarded \subseteq 1..Len(line.frags),
           \A p \in DOMAIN guarded : Fragment("guard", guarded[p], 0) \in X
    PROVE  /\ SplitLine(line, guarded) \in Seq(LineOf(X))
           /\ \A p \in DOMAIN guarded : GuardLine(guarded[p]) \in ToSet(SplitLine(line, guarded))
           /\ \A S : (\A p \in DOMAIN guarded :
                          line.frags[p] \notin S /\ Fragment("guard", guarded[p], 0) \notin S)
                     => Filter(TextIn(SplitLine(line, guarded)), S) = Filter(line.frags, S)
<1>  DEFINE s == line.frags
            n == Len(s)
            L == LineOf(X)
            hits == DOMAIN guarded
            gap == IF line.kind = "prose" THEN <<Blank>> ELSE <<>>
            starts(p) == p \notin hits /\ (p = 1 \/ p - 1 \in hits)
            ends(p) == CHOOSE q \in p..n :
                           /\ \A r \in p..q : r \notin hits
                           /\ q = n \/ q + 1 \in hits
            rest(p) == Line(line.kind, SubSeq(s, p, ends(p)))
            piece(p) == IF p \in hits THEN <<GuardLine(guarded[p])>> \o gap
                        ELSE IF starts(p)
                        THEN <<rest(p)>> \o (IF ends(p) = n THEN <<>> ELSE gap)
                        ELSE <<>>
            ss == [p \in 1..n |-> piece(p)]
<1>1. s \in Seq(X) /\ n \in Nat /\ line.kind \in LineKinds
  BY DEF LineOf
<1>2. SplitLine(line, guarded) = FlattenSeq(ss)
  BY DEF SplitLine
<1>3. /\ Blank \in L /\ TextIn(<<Blank>>) = <<>> /\ TextIn(<<>>) = <<>>
      /\ \A e \in L : TextIn(<<e>>) = e.frags
      /\ \A e \in L : <<e>> \in Seq(L)
      /\ <<>> \in Seq(L)
  BY LineFacts, TextAppend
<1>4. gap \in Seq(L) /\ TextIn(gap) = <<>>
  BY <1>3
<1>5. ASSUME NEW p \in hits
      PROVE  GuardLine(guarded[p]) \in L
             /\ GuardLine(guarded[p]).frags = <<Fragment("guard", guarded[p], 0)>>
  <2>1. Fragment("guard", guarded[p], 0) \in X
    OBVIOUS
  <2>2. <<Fragment("guard", guarded[p], 0)>> \in Seq(X)
    <3>  DEFINE f == Fragment("guard", guarded[p], 0)
    <3>1. f \in X
      BY <2>1
    <3>  HIDE DEF f
    <3>2. <<f>> \in Seq(X)
      BY <3>1
    <3>  QED  BY <3>2 DEF f
  <2>  QED  BY <2>2 DEF GuardLine, Line, LineOf, LineKinds
<1>6. ASSUME NEW p \in 1..n, starts(p)
      PROVE  /\ ends(p) \in p..n /\ EndsAt(n, hits, p, ends(p))
             /\ rest(p) \in L /\ rest(p).frags = SubSeq(s, p, ends(p))
             /\ \A q \in p..n : EndsAt(n, hits, p, q) => q = ends(p)
  <2>  HIDE DEF n
  <2>1. \A q \in p..n : EndsAt(n, hits, p, q) <=>
            (\A r \in p..q : r \notin hits) /\ (q = n \/ q + 1 \in hits)
    BY <1>1, <1>6 DEF EndsAt
  <2>2. \E q \in p..n : EndsAt(n, hits, p, q)
    BY <1>1, <1>6, RunsEnd
  <2>3. ends(p) \in p..n /\ EndsAt(n, hits, p, ends(p))
    BY <2>1, <2>2
  <2>  HIDE DEF ends
  <2>4. SubSeq(s, p, ends(p)) \in Seq(X)
    BY <1>1, <2>3 DEF n
  <2>5. ASSUME NEW q \in p..n, EndsAt(n, hits, p, q) PROVE q = ends(p)
    <3>1. (\A r \in p..q : r \notin hits) /\ (q = n \/ q + 1 \in hits)
      BY <2>1, <2>5
    <3>2. (\A r \in p..ends(p) : r \notin hits) /\ (ends(p) = n \/ ends(p) + 1 \in hits)
      BY <2>1, <2>3
    <3>3. CASE q < ends(p)
      <4>1. q + 1 \in p..ends(p) /\ q # n
        BY <3>3, <2>3, <1>1
      <4>  QED  BY <3>1, <3>2, <4>1
    <3>4. CASE ends(p) < q
      <4>1. ends(p) + 1 \in p..q /\ ends(p) # n
        BY <3>4, <2>3, <1>1
      <4>  QED  BY <3>1, <3>2, <4>1
    <3>  QED  BY <3>3, <3>4, <2>3, <1>1
  <2>  QED  BY <1>1, <2>3, <2>4, <2>5 DEF Line, LineOf
<1>7. \A u, v \in Seq(L) : u \o v \in Seq(L)
  OBVIOUS
<1>8. \A p \in 1..n : piece(p) \in Seq(L)
  <2>1. ASSUME NEW p \in hits PROVE <<GuardLine(guarded[p])>> \o gap \in Seq(L)
    <3>1. <<GuardLine(guarded[p])>> \in Seq(L)
      BY <1>3, <1>5
    <3>  HIDE DEF gap, L
    <3>  QED  BY <3>1, <1>4, <1>7
  <2>2. ASSUME NEW p \in 1..n, starts(p)
        PROVE  <<rest(p)>> \o (IF ends(p) = n THEN <<>> ELSE gap) \in Seq(L)
    <3>1. <<rest(p)>> \in Seq(L)
      BY <1>3, <1>6, <2>2
    <3>  DEFINE t == IF ends(p) = n THEN <<>> ELSE gap
    <3>2. t \in Seq(L)
      BY <1>3, <1>4
    <3>  HIDE DEF t, L, rest
    <3>3. <<rest(p)>> \o t \in Seq(L)
      BY <3>1, <3>2, <1>7
    <3>  QED  BY <3>3 DEF t
  <2>  HIDE DEF L, gap, rest, ends, starts, n
  <2>  QED  BY <2>1, <2>2, <1>3
<1>9. ss \in Seq(Seq(L)) /\ Len(ss) = n /\ \A p \in 1..n : ss[p] = piece(p)
  <2>  HIDE DEF piece, n, L
  <2>  QED  BY <1>1, <1>8
<1>10. FlattenSeq(ss) \in Seq(L)
  <2>  HIDE DEF ss, L
  <2>  QED  BY <1>9, FlattenAppend
<1>11. ASSUME NEW p \in hits PROVE GuardLine(guarded[p]) \in ToSet(FlattenSeq(ss))
  <2>1. p \in 1..n /\ ss[p] = <<GuardLine(guarded[p])>> \o gap
    BY <1>9
  <2>2. <<GuardLine(guarded[p])>> \in Seq(L)
    BY <1>3, <1>5
  <2>  DEFINE g == GuardLine(guarded[p])
  <2>  HIDE DEF g, gap, L, ss, n
  <2>3. <<g>> \in Seq(L)
    BY <2>2 DEF g
  <2>31. ToSet(<<g>> \o gap) = ToSet(<<g>>) \cup ToSet(gap)
    BY <2>3, <1>4, ToSetOfConcat
  <2>32. g \in ToSet(<<g>>)
    BY DEF ToSet
  <2>4. g \in ToSet(ss[p])
    BY <2>1, <2>31, <2>32 DEF g
  <2>5. ToSet(FlattenSeq(ss)) = UNION {ToSet(ss[i]) : i \in DOMAIN ss}
    BY <1>9, FlattenElements
  <2>6. p \in DOMAIN ss
    BY <1>9, <2>1
  <2>  QED  BY <2>4, <2>5, <2>6 DEF g
<1>12. ASSUME NEW S, \A p \in hits :
                        s[p] \notin S /\ Fragment("guard", guarded[p], 0) \notin S
       PROVE  Filter(TextIn(FlattenSeq(ss)), S) = Filter(s, S)
  <2>  DEFINE uu == [i \in 1..Len(ss) |-> TextIn(ss[i])]
              tt == [i \in 1..Len(uu) |-> Filter(uu[i], S)]
  <2>0. /\ Filter(<<>>, S) = <<>>
        /\ \A u \in Seq(X) : Filter(u, S) \in Seq(X)
        /\ \A u \in Seq(X), e \in X :
              Filter(Append(u, e), S) = IF e \in S THEN Append(Filter(u, S), e) ELSE Filter(u, S)
    BY FilterAppend
  <2>1. uu \in Seq(Seq(X)) /\ TextIn(FlattenSeq(ss)) = FlattenSeq(uu)
    <3>  HIDE DEF ss
    <3>  QED  BY <1>9, TextFlatten
  <2>2. Len(uu) = n /\ \A p \in 1..n : uu[p] = TextIn(piece(p))
    <3>  HIDE DEF ss, piece, n
    <3>  QED  BY <1>1, <1>9
  <2>  HIDE DEF uu
  <2>3. Filter(FlattenSeq(uu), S) = FlattenSeq(tt)
    BY <2>1, FilterFlatten
  <2>4. Len(tt) = n /\ tt \in Seq(Seq(X)) /\ \A p \in 1..n : tt[p] = Filter(TextIn(piece(p)), S)
    <3>1. \A p \in 1..Len(uu) : uu[p] \in Seq(X)
      <4>  DEFINE Y == Seq(X)
      <4>1. uu \in Seq(Y)
        BY <2>1
      <4>  HIDE DEF Y
      <4>2. \A p \in 1..Len(uu) : uu[p] \in Y
        BY <4>1
      <4>  QED  BY <4>2 DEF Y
    <3>2. \A p \in 1..Len(uu) : Filter(uu[p], S) \in Seq(X)
      BY <3>1, <2>0
    <3>3. Len(uu) \in Nat /\ Len(uu) = n
      BY <1>1, <2>2
    <3>  HIDE DEF piece, n
    <3>4. tt \in Seq(Seq(X)) /\ Len(tt) = Len(uu)
      BY <3>2, <3>3
    <3>  QED  BY <3>3, <3>4, <2>2
  <2>5. \A u, v \in Seq(L) : TextIn(u \o v) = TextIn(u) \o TextIn(v)
    BY TextConcat
  <2>51. \A u \in Seq(X) : u \o <<>> = u
    OBVIOUS
  <2>6. ASSUME NEW p \in hits PROVE Filter(TextIn(piece(p)), S) = <<>>
    <3>  DEFINE f == Fragment("guard", guarded[p], 0)
                g == GuardLine(guarded[p])
    <3>1. g \in L /\ <<g>> \in Seq(L) /\ TextIn(<<g>>) = <<f>> /\ f \in X /\ f \notin S
      BY <1>3, <1>5, <2>6, <1>12
    <3>2. piece(p) = <<g>> \o gap
      OBVIOUS
    <3>  HIDE DEF f, g, gap, L, piece
    <3>3. TextIn(piece(p)) = <<f>> \o <<>>
      BY <3>1, <3>2, <1>4, <2>5
    <3>4. <<f>> \o <<>> = Append(<<>>, f)
      BY <3>1
    <3>5. <<>> \in Seq(X)
      OBVIOUS
    <3>6. Filter(Append(<<>>, f), S) = Filter(<<>>, S)
      BY <3>1, <3>5, <2>0
    <3>  QED  BY <3>3, <3>4, <3>6, <2>0
  <2>7. ASSUME NEW p \in 1..n, starts(p)
        PROVE  TextIn(piece(p)) = SubSeq(s, p, ends(p))
    <3>  DEFINE t == IF ends(p) = n THEN <<>> ELSE gap
    <3>1. t \in Seq(L) /\ TextIn(t) = <<>>
      BY <1>3, <1>4
    <3>2. /\ rest(p) \in L /\ rest(p).frags = SubSeq(s, p, ends(p)) /\ ends(p) \in p..n
      BY <1>6, <2>7
    <3>3. piece(p) = <<rest(p)>> \o t
      BY <2>7
    <3>4. <<rest(p)>> \in Seq(L) /\ TextIn(<<rest(p)>>) = SubSeq(s, p, ends(p))
      BY <1>3, <3>2
    <3>5. SubSeq(s, p, ends(p)) \in Seq(X)
      <4>  HIDE DEF ends
      <4>  QED  BY <1>1, <3>2
    <3>  HIDE DEF t, L, piece, rest, ends
    <3>6. TextIn(piece(p)) = SubSeq(s, p, ends(p)) \o <<>>
      BY <3>1, <3>3, <3>4, <2>5
    <3>  QED  BY <3>5, <3>6, <2>51
  <2>  HIDE DEF tt
  <2>8. ASSUME NEW p \in 1..n
        PROVE  /\ p \in hits => tt[p] = <<>>
               /\ p \notin hits /\ p > 1 /\ p - 1 \notin hits => tt[p] = <<>>
               /\ p \notin hits /\ (p = 1 \/ p - 1 \in hits) =>
                     \A q \in p..n : EndsAt(n, hits, p, q) =>
                         tt[p] = Filter(SubSeq(s, p, q), S)
    <3>1. tt[p] = Filter(TextIn(piece(p)), S)
      BY <2>4
    <3>2. CASE p \in hits
      <4>  HIDE DEF piece, n
      <4>  QED  BY <2>6, <3>1, <3>2
    <3>3. CASE starts(p)
      <4>1. TextIn(piece(p)) = SubSeq(s, p, ends(p))
            /\ \A q \in p..n : EndsAt(n, hits, p, q) => q = ends(p)
        BY <3>3, <1>6, <2>7
      <4>2. p \notin hits /\ (p = 1 \/ p - 1 \in hits)
        BY <3>3
      <4>  HIDE DEF piece, n, ends
      <4>3. \A q \in p..n : EndsAt(n, hits, p, q) => tt[p] = Filter(SubSeq(s, p, q), S)
        BY <3>1, <4>1
      <4>  QED  BY <4>2, <4>3
    <3>4. CASE p \notin hits /\ ~starts(p)
      <4>1. piece(p) = <<>>
        BY <3>4
      <4>2. p # 1 /\ p - 1 \notin hits
        BY <3>4
      <4>  HIDE DEF piece, n
      <4>  QED  BY <3>1, <3>4, <4>1, <4>2, <1>3, <2>0
    <3>  QED  BY <3>2, <3>3, <3>4
  <2>9. Len(tt) = Len(s) /\ \A p \in 1..Len(s) : p \in hits => s[p] \notin S
    BY <1>12, <2>4
  <2>  HIDE DEF hits, s
  <2>10. FlattenSeq(tt) = Filter(s, S)
    <3>1. RunTexts(s, S, hits, tt)
      BY <2>8, <2>9 DEF RunTexts
    <3>2. s \in Seq(X) /\ tt \in Seq(Seq(X))
      BY <1>1, <2>4
    <3>  HIDE DEF n
    <3>  QED  BY <2>9, <3>1, <3>2, RunsCover
  <2>  QED  BY <2>1, <2>3, <2>10
<1>  QED
  <2>  HIDE DEF ss
  <2>  QED  BY <1>2, <1>10, <1>11, <1>12
-------------------------------------------------------------------------------
(* What the edits of a file keep                                            *)

(* The text of a file has its fragments. *)
LEMMA TextFragments ==
    ASSUME NEW X, NEW d \in Seq(LineOf(X))
    PROVE  ToSet(TextIn(d)) = FragmentsOf(d) /\ FragmentsOf(d) \subseteq X
<1>  DEFINE each == [l \in Lines(d) |-> d[l].frags]
            n == Len(d)
<1>1. \A l \in 1..n : d[l].frags \in Seq(X)
  BY LineFrags
<1>2. each = [l \in 1..n |-> d[l].frags] /\ n \in Nat /\ TextIn(d) = FlattenSeq(each)
      /\ Lines(d) = 1..n
  BY DEF TextIn, Lines
<1>  HIDE DEF n
<1>3. each \in Seq(Seq(X)) /\ DOMAIN each = 1..n /\ \A l \in 1..n : each[l] = d[l].frags
  BY <1>1, <1>2
<1>  HIDE DEF each
<1>4. ToSet(FlattenSeq(each)) = UNION {ToSet(each[l]) : l \in DOMAIN each}
  BY <1>3, FlattenElements
<1>5. FragmentsOf(d) = UNION {ToSet(each[l]) : l \in DOMAIN each}
  BY <1>2, <1>3 DEF FragmentsOf
<1>6. \A l \in 1..n : ToSet(d[l].frags) \subseteq X
  BY <1>1 DEF ToSet
<1>7. FragmentsOf(d) \subseteq X
  BY <1>2, <1>6 DEF FragmentsOf
<1>  QED  BY <1>2, <1>4, <1>5, <1>7

(* Two files with the same text of a kind have the same fragments of it. *)
LEMMA SameTextSameHas ==
    ASSUME NEW X, NEW d \in Seq(LineOf(X)), NEW e \in Seq(LineOf(X)), NEW is, NEW of,
           LET S == {f \in X : f.is = is /\ f.of = of}
           IN Filter(TextIn(d), S) = Filter(TextIn(e), S)
    PROVE  Has(d, is, of) <=> Has(e, is, of)
<1>  DEFINE S == {f \in X : f.is = is /\ f.of = of}
<1>1. \A g \in Seq(LineOf(X)) :
         /\ TextIn(g) \in Seq(X)
         /\ ToSet(TextIn(g)) = FragmentsOf(g) /\ FragmentsOf(g) \subseteq X
         /\ Has(g, is, of) <=> \E f \in FragmentsOf(g) : f.is = is /\ f.of = of
  BY TextAppend, TextFragments, HasFragment
<1>2. \A t \in Seq(X) : ToSet(Filter(t, S)) = ToSet(t) \cap S
  BY FilterElements
<1>3. \A g \in Seq(LineOf(X)) : Has(g, is, of) <=> ToSet(Filter(TextIn(g), S)) # {}
  <2>  TAKE g \in Seq(LineOf(X))
  <2>1. ToSet(Filter(TextIn(g), S)) = FragmentsOf(g) \cap S
    <3>  HIDE DEF S
    <3>  QED  BY <1>1, <1>2
  <2>  QED  BY <1>1, <2>1
<1>4. Filter(TextIn(d), S) = Filter(TextIn(e), S)
  OBVIOUS
<1>  HIDE DEF S
<1>  QED  BY <1>3, <1>4

(* Line by line the same text makes the same text. *)
LEMMA TextByLine ==
    ASSUME NEW X, NEW S, NEW d \in Seq(LineOf(X)), NEW ss \in Seq(Seq(LineOf(X))),
           Len(ss) = Len(d),
           \A l \in 1..Len(d) : Filter(TextIn(ss[l]), S) = Filter(d[l].frags, S)
    PROVE  Filter(TextIn(FlattenSeq(ss)), S) = Filter(TextIn(d), S)
<1>  DEFINE n == Len(d)
            uu == [l \in 1..Len(ss) |-> TextIn(ss[l])]
            each == [l \in Lines(d) |-> d[l].frags]
            fu == [l \in 1..Len(uu) |-> Filter(uu[l], S)]
            fe == [l \in 1..Len(each) |-> Filter(each[l], S)]
<1>1. uu \in Seq(Seq(X)) /\ TextIn(FlattenSeq(ss)) = FlattenSeq(uu)
  BY TextFlatten
<1>2. n \in Nat /\ Len(ss) = n /\ Lines(d) = 1..n /\ \A l \in 1..n : d[l].frags \in Seq(X)
  BY LineFrags DEF Lines
<1>3. TextIn(d) = FlattenSeq(each)
  BY DEF TextIn
<1>4. each \in Seq(Seq(X)) /\ Len(each) = n /\ \A l \in 1..n : each[l] = d[l].frags
  <2>1. each = [l \in 1..n |-> d[l].frags]
    BY <1>2
  <2>  DEFINE Y == Seq(X)
              g(l) == d[l].frags
  <2>2. each = [l \in 1..n |-> g(l)] /\ n \in Nat /\ \A l \in 1..n : g(l) \in Y
    BY <2>1, <1>2
  <2>  HIDE DEF n, each, Y, g
  <2>3. each \in Seq(Y) /\ Len(each) = n /\ \A l \in 1..n : each[l] = g(l)
    BY <2>2
  <2>  QED  BY <2>3 DEF Y, g
<1>5. Len(uu) = n /\ \A l \in 1..n : uu[l] = TextIn(ss[l])
  <2>  HIDE DEF n
  <2>  QED  BY <1>2
<1>  HIDE DEF uu, each
<1>6. Filter(FlattenSeq(uu), S) = FlattenSeq(fu)
  BY <1>1, FilterFlatten
<1>7. Filter(FlattenSeq(each), S) = FlattenSeq(fe)
  BY <1>4, FilterFlatten
<1>8. fu = fe
  <2>1. \A l \in 1..n : Filter(uu[l], S) = Filter(each[l], S)
    BY <1>4, <1>5
  <2>  HIDE DEF n
  <2>  QED  BY <2>1, <1>4, <1>5
<1>  QED  BY <1>1, <1>3, <1>6, <1>7, <1>8

(* A batch of guards: the matched fragments become guards, every other text  *)
(* stays where it was (instruction_rewriter.py 1203-1497).                   *)
LEMMA GuardFacts ==
    ASSUME NEW X, NEW d \in Seq(LineOf(X)), NEW range, NEW items,
           Projectable(d, range, items),
           \A x \in items : Fragment("guard", x.id, 0) \in X
    PROVE  /\ ProjectGuards(d, range, items) \in Seq(LineOf(X))
           /\ \A x \in items : Has(ProjectGuards(d, range, items), "guard", x.id)
           /\ \A S : (/\ \A x \in items : Fragment("guard", x.id, 0) \notin S
                      /\ \A f \in S, x \in items : f.is = "text" => f.of # x.raw)
                     => Filter(TextIn(ProjectGuards(d, range, items)), S)
                        = Filter(TextIn(d), S)
<1>  DEFINE place(x) == CHOOSE m \in MatchesIn(d, range, x) : TRUE
            on(l) == {x \in items : place(x)[1] = l}
            guarded(l) == [p \in {place(x)[2] : x \in on(l)} |->
                               (CHOOSE x \in on(l) : place(x)[2] = p).id]
            piece(l) == IF on(l) = {} THEN <<d[l]>> ELSE SplitLine(d[l], guarded(l))
            n == Len(d)
            ss == [l \in 1..n |-> piece(l)]
            L == LineOf(X)
            res == ProjectGuards(d, range, items)
<1>1. n \in Nat /\ Lines(d) = 1..n /\ \A l \in 1..n : d[l] \in L
  BY DEF Lines
<1>2. res = FlattenSeq(ss)
  BY <1>1 DEF ProjectGuards
<1>3. ASSUME NEW x \in items
      PROVE  /\ place(x) \in MatchesIn(d, range, x)
             /\ place(x) = <<place(x)[1], place(x)[2]>>
             /\ place(x)[1] \in 1..n /\ place(x)[2] \in 1..Len(d[place(x)[1]].frags)
             /\ d[place(x)[1]].frags[place(x)[2]].is = "text"
             /\ d[place(x)[1]].frags[place(x)[2]].of = x.raw
  <2>1. MatchesIn(d, range, x) # {}
    <3>1. Cardinality({}) = 0
      BY FS_EmptySet
    <3>2. Cardinality(MatchesIn(d, range, x)) = 1
      BY DEF Projectable
    <3>3. ASSUME MatchesIn(d, range, x) = {} PROVE FALSE
      <4>1. Cardinality(MatchesIn(d, range, x)) = 0
        BY <3>1, <3>3
      <4>  QED  BY <3>2, <4>1
    <3>  QED  BY <3>3
  <2>2. place(x) \in MatchesIn(d, range, x)
    BY <2>1
  <2>  HIDE DEF place
  <2>3. PICK l \in Lines(d) :
           place(x) \in {<<l, p>> : p \in {q \in DOMAIN d[l].frags :
                             d[l].frags[q].is = "text" /\ d[l].frags[q].of = x.raw}}
    BY <2>2 DEF MatchesIn, Places
  <2>4. PICK p \in DOMAIN d[l].frags :
           /\ place(x) = <<l, p>>
           /\ d[l].frags[p].is = "text" /\ d[l].frags[p].of = x.raw
    BY <2>3
  <2>5. d[l].frags \in Seq(X)
    BY <1>1, LineFrags
  <2>6. DOMAIN d[l].frags = 1..Len(d[l].frags)
    BY <2>5
  <2>  HIDE DEF n
  <2>  QED  BY <1>1, <2>2, <2>4, <2>6
<1>4. ASSUME NEW x \in items, NEW y \in items, place(x) = place(y)
      PROVE  x = y
  <2>1. place(x) \in MatchesIn(d, range, x) /\ place(y) \in MatchesIn(d, range, y)
    BY <1>3
  <2>  HIDE DEF place
  <2>  QED  BY <1>4, <2>1 DEF Projectable
<1>  HIDE DEF place
<1>5. ASSUME NEW l, NEW x \in on(l)
      PROVE  place(x)[2] \in DOMAIN guarded(l) /\ guarded(l)[place(x)[2]] = x.id
  <2>  DEFINE p == place(x)[2]
              y == CHOOSE z \in on(l) : place(z)[2] = p
  <2>1. y \in on(l) /\ place(y)[2] = p
    OBVIOUS
  <2>2. x \in items /\ y \in items /\ place(x)[1] = l /\ place(y)[1] = l
    BY <2>1
  <2>  HIDE DEF y
  <2>3. place(y) = place(x)
    BY <1>3, <2>1, <2>2
  <2>4. y = x
    BY <1>4, <2>2, <2>3
  <2>  QED  BY <2>4 DEF y
<1>6. ASSUME NEW l, NEW p \in DOMAIN guarded(l)
      PROVE  \E x \in on(l) : p = place(x)[2] /\ guarded(l)[p] = x.id
  <2>1. PICK x \in on(l) : p = place(x)[2]
    OBVIOUS
  <2>  QED  BY <1>5, <2>1
<1>  HIDE DEF guarded
<1>7. ASSUME NEW l \in 1..n
      PROVE  /\ DOMAIN guarded(l) \subseteq 1..Len(d[l].frags)
             /\ \A p \in DOMAIN guarded(l) : Fragment("guard", guarded(l)[p], 0) \in X
  <2>1. ASSUME NEW p \in DOMAIN guarded(l)
        PROVE  p \in 1..Len(d[l].frags) /\ Fragment("guard", guarded(l)[p], 0) \in X
    <3>1. PICK x \in on(l) : p = place(x)[2] /\ guarded(l)[p] = x.id
      BY <1>6
    <3>2. x \in items /\ place(x)[1] = l
      OBVIOUS
    <3>  QED  BY <1>3, <3>1, <3>2
  <2>  QED  BY <2>1
<1>8. ASSUME NEW l \in 1..n
      PROVE  /\ SplitLine(d[l], guarded(l)) \in Seq(L)
             /\ \A p \in DOMAIN guarded(l) :
                    GuardLine(guarded(l)[p]) \in ToSet(SplitLine(d[l], guarded(l)))
             /\ \A S : (\A p \in DOMAIN guarded(l) :
                            /\ d[l].frags[p] \notin S
                            /\ Fragment("guard", guarded(l)[p], 0) \notin S)
                       => Filter(TextIn(SplitLine(d[l], guarded(l))), S)
                          = Filter(d[l].frags, S)
  <2>1. d[l] \in LineOf(X)
    BY <1>1
  <2>  HIDE DEF n, L
  <2>  QED  BY <1>7, <2>1, SplitFacts DEF L
<1>9. \A e \in L : <<e>> \in Seq(L) /\ TextIn(<<e>>) = e.frags
  BY LineFacts
<1>10. \A l \in 1..n : piece(l) \in Seq(L)
  <2>  HIDE DEF on, n, L
  <2>  QED  BY <1>1, <1>8, <1>9
<1>11. ss \in Seq(Seq(L)) /\ Len(ss) = n /\ DOMAIN ss = 1..n /\ \A l \in 1..n : ss[l] = piece(l)
  <2>  HIDE DEF piece, n, L
  <2>  QED  BY <1>1, <1>10
<1>12. res \in Seq(L)
  <2>  HIDE DEF ss, L, res
  <2>  QED  BY <1>2, <1>11, FlattenAppend
<1>13. ASSUME NEW x \in items PROVE Has(res, "guard", x.id)
  <2>  DEFINE l == place(x)[1]
              p == place(x)[2]
              g == GuardLine(x.id)
  <2>1. l \in 1..n /\ x \in on(l)
    BY <1>3
  <2>2. p \in DOMAIN guarded(l) /\ guarded(l)[p] = x.id
    BY <2>1, <1>5
  <2>3. g \in ToSet(SplitLine(d[l], guarded(l)))
    BY <2>1, <2>2, <1>8
  <2>4. g \in ToSet(ss[l])
    <3>1. ss[l] = SplitLine(d[l], guarded(l))
      BY <2>1, <1>11
    <3>  QED  BY <2>3, <3>1
  <2>  HIDE DEF g, l, ss, L, n
  <2>5. ToSet(FlattenSeq(ss)) = UNION {ToSet(ss[i]) : i \in DOMAIN ss}
    BY <1>11, FlattenElements
  <2>6. g \in ToSet(res)
    BY <1>2, <1>11, <2>1, <2>4, <2>5
  <2>  HIDE DEF res
  <2>7. FragmentsOf(res) = UNION {ToSet(e.frags) : e \in ToSet(res)}
    BY <1>12, FragmentsOfLines DEF L
  <2>8. Fragment("guard", x.id, 0) \in ToSet(g.frags)
    <3>1. g.frags = <<Fragment("guard", x.id, 0)>>
      BY DEF g, GuardLine, Line
    <3>2. 1 \in DOMAIN g.frags /\ g.frags[1] = Fragment("guard", x.id, 0)
      BY <3>1
    <3>  QED  BY <3>2 DEF ToSet
  <2>9. Fragment("guard", x.id, 0) \in FragmentsOf(res)
    BY <2>6, <2>7, <2>8
  <2>10. Fragment("guard", x.id, 0).is = "guard" /\ Fragment("guard", x.id, 0).of = x.id
    BY DEF Fragment
  <2>  QED  BY <1>12, <2>9, <2>10, HasFragment DEF L
<1>14. ASSUME NEW S, \A x \in items : Fragment("guard", x.id, 0) \notin S,
              \A f \in S, x \in items : f.is = "text" => f.of # x.raw
       PROVE  Filter(TextIn(res), S) = Filter(TextIn(d), S)
  <2>1. ASSUME NEW l \in 1..n PROVE Filter(TextIn(piece(l)), S) = Filter(d[l].frags, S)
    <3>1. ASSUME NEW p \in DOMAIN guarded(l)
          PROVE  d[l].frags[p] \notin S /\ Fragment("guard", guarded(l)[p], 0) \notin S
      <4>1. PICK x \in on(l) : p = place(x)[2] /\ guarded(l)[p] = x.id
        BY <1>6
      <4>2. x \in items /\ place(x)[1] = l
        OBVIOUS
      <4>3. d[l].frags[p].is = "text" /\ d[l].frags[p].of = x.raw
        BY <1>3, <4>1, <4>2
      <4>  QED  BY <1>14, <4>1, <4>2, <4>3
    <3>  HIDE DEF on, n, L
    <3>2. CASE on(l) = {}
      BY <1>1, <1>9, <3>2
    <3>3. CASE on(l) # {}
      BY <1>8, <3>1, <3>3
    <3>  QED  BY <3>2, <3>3
  <2>2. \A l \in 1..n : Filter(TextIn(ss[l]), S) = Filter(d[l].frags, S)
    <3>  HIDE DEF ss, piece, n
    <3>  QED  BY <1>11, <2>1
  <2>3. Len(ss) = Len(d) /\ ss \in Seq(Seq(LineOf(X)))
    <3>  HIDE DEF ss
    <3>  QED  BY <1>11
  <2>4. \A l \in 1..Len(d) : Filter(TextIn(ss[l]), S) = Filter(d[l].frags, S)
    BY <2>2
  <2>  HIDE DEF ss, n, L, res
  <2>  QED  BY <1>2, <2>3, <2>4, TextByLine
<1>15. /\ res \in Seq(L)
       /\ \A x \in items : Has(res, "guard", x.id)
       /\ \A S : (/\ \A x \in items : Fragment("guard", x.id, 0) \notin S
                  /\ \A f \in S, x \in items : f.is = "text" => f.of # x.raw)
                 => Filter(TextIn(res), S) = Filter(TextIn(d), S)
  <2>  HIDE DEF res, L
  <2>  QED  BY <1>12, <1>13, <1>14
<1>  QED  BY <1>15
LEMMA ConcatFacts ==
    ASSUME NEW X, NEW u \in Seq(X), NEW v \in Seq(X)
    PROVE  /\ u \o v \in Seq(X) /\ Len(u \o v) = Len(u) + Len(v)
           /\ \A i \in 1..Len(u) : (u \o v)[i] = u[i]
           /\ \A i \in 1..Len(v) : (u \o v)[Len(u) + i] = v[i]
  OBVIOUS

LEMMA SameElements ==
    ASSUME NEW X, NEW u \in Seq(X), NEW v \in Seq(X), Len(u) = Len(v),
           \A i \in 1..Len(u) : u[i] = v[i]
    PROVE  u = v
  OBVIOUS

(* A sequence that differs from another one at one place is that sequence cut *)
(* there.                                                                    *)
LEMMA Cut ==
    ASSUME NEW X, NEW s \in Seq(X), NEW p \in 1..Len(s), NEW r \in Seq(X),
           Len(r) = Len(s), \A i \in 1..Len(s) : i # p => r[i] = s[i]
    PROVE  /\ SubSeq(s, 1, p - 1) \in Seq(X) /\ SubSeq(s, p + 1, Len(s)) \in Seq(X)
           /\ r[p] \in X
           /\ r = (SubSeq(s, 1, p - 1) \o <<r[p]>>) \o SubSeq(s, p + 1, Len(s))
<1>  DEFINE n == Len(s)
            a == SubSeq(s, 1, p - 1)
            b == SubSeq(s, p + 1, n)
<1>0. \A x, y \in Seq(X) :
         /\ x \o y \in Seq(X) /\ Len(x \o y) = Len(x) + Len(y)
         /\ \A i \in 1..Len(x) : (x \o y)[i] = x[i]
         /\ \A i \in 1..Len(y) : (x \o y)[Len(x) + i] = y[i]
  BY ConcatFacts
<1>1. n \in Nat /\ p \in 1..n /\ p - 1 \in Nat /\ n - p \in Nat /\ r[p] \in X
  OBVIOUS
<1>2. /\ a \in Seq(X) /\ Len(a) = p - 1 /\ \A i \in 1..(p - 1) : a[i] = s[i]
      /\ b \in Seq(X) /\ Len(b) = n - p /\ \A i \in 1..(n - p) : b[i] = s[p + i]
  OBVIOUS
<1>3. r = (a \o <<r[p]>>) \o b
  <2>  DEFINE f == r[p]
              o == <<f>>
              u == a \o o
              t == u \o b
  <2>1. o \in Seq(X) /\ Len(o) = 1 /\ o[1] = f
    BY <1>1
  <2>2. r \in Seq(X) /\ Len(r) = n /\ f \in X /\ \A i \in 1..n : r[i] = IF i = p THEN f ELSE s[i]
    OBVIOUS
  <2>  HIDE DEF a, b, n, o, f
  <2>3. /\ u \in Seq(X) /\ Len(u) = Len(a) + Len(o)
        /\ \A i \in 1..Len(a) : u[i] = a[i]
        /\ \A i \in 1..Len(o) : u[Len(a) + i] = o[i]
    BY <1>0, <1>2, <2>1
  <2>4. Len(u) = p
    BY <1>1, <1>2, <2>1, <2>3
  <2>5. \A i \in 1..p : u[i] = IF i = p THEN f ELSE s[i]
    <3>  SUFFICES ASSUME NEW i \in 1..p PROVE u[i] = IF i = p THEN f ELSE s[i]
      OBVIOUS
    <3>1. CASE i = p
      <4>1. 1 \in 1..Len(o) /\ Len(a) + 1 = p
        BY <1>1, <1>2, <2>1
      <4>2. u[Len(a) + 1] = o[1]
        BY <2>3, <4>1
      <4>  QED  BY <2>1, <3>1, <4>1, <4>2
    <3>2. CASE i # p
      <4>1. i \in 1..(p - 1)
        BY <1>1, <3>2
      <4>2. u[i] = a[i] /\ a[i] = s[i]
        BY <1>2, <2>3, <4>1
      <4>  QED  BY <3>2, <4>2
    <3>  QED  BY <3>1, <3>2
  <2>  HIDE DEF u
  <2>6. /\ t \in Seq(X) /\ Len(t) = Len(u) + Len(b)
        /\ \A i \in 1..Len(u) : t[i] = u[i]
        /\ \A i \in 1..Len(b) : t[Len(u) + i] = b[i]
    BY <1>0, <1>2, <2>3
  <2>  HIDE DEF t
  <2>7. Len(t) = n
    BY <1>1, <1>2, <2>4, <2>6
  <2>8. \A i \in 1..n : t[i] = r[i]
    <3>  SUFFICES ASSUME NEW i \in 1..n PROVE t[i] = r[i]
      OBVIOUS
    <3>1. CASE i <= p
      <4>1. i \in 1..p
        BY <1>1, <3>1
      <4>2. t[i] = u[i]
        BY <2>4, <2>6, <4>1
      <4>  QED  BY <2>2, <2>5, <4>1, <4>2
    <3>2. CASE ~(i <= p)
      <4>1. i - p \in 1..(n - p) /\ p + (i - p) = i /\ i # p
        BY <1>1, <3>2
      <4>  DEFINE k == i - p
      <4>2. k \in 1..(n - p) /\ p + k = i
        BY <4>1
      <4>  HIDE DEF k
      <4>3. t[p + k] = b[k] /\ b[k] = s[p + k]
        BY <1>2, <2>4, <2>6, <4>2
      <4>  QED  BY <2>2, <4>1, <4>2, <4>3
    <3>  QED  BY <3>1, <3>2
  <2>9. r = t
    BY <2>2, <2>6, <2>7, <2>8, SameElements
  <2>  QED  BY <2>9 DEF t, u, o, f
<1>  QED  BY <1>1, <1>2, <1>3

LEMMA FilterReplaced ==
    ASSUME NEW X, NEW S, NEW s \in Seq(X), NEW p \in 1..Len(s), NEW r \in Seq(X),
           Len(r) = Len(s), \A i \in 1..Len(s) : i # p => r[i] = s[i],
           s[p] \notin S, r[p] \notin S
    PROVE  Filter(r, S) = Filter(s, S)
<1>  DEFINE a == SubSeq(s, 1, p - 1)
            b == SubSeq(s, p + 1, Len(s))
<1>1. /\ a \in Seq(X) /\ b \in Seq(X) /\ s[p] \in X /\ r[p] \in X
      /\ s = (a \o <<s[p]>>) \o b
      /\ r = (a \o <<r[p]>>) \o b
  BY Cut
<1>11. \A f \in X : <<f>> \in Seq(X)
  OBVIOUS
<1>2. /\ Filter(<<>>, S) = <<>>
      /\ \A u \in Seq(X) : Filter(u, S) \in Seq(X)
      /\ \A u \in Seq(X), f \in X :
            Filter(Append(u, f), S) = IF f \in S THEN Append(Filter(u, S), f) ELSE Filter(u, S)
  BY FilterAppend
<1>3. \A u, v \in Seq(X) : Filter(u \o v, S) = Filter(u, S) \o Filter(v, S)
  BY FilterConcat
<1>4. \A u, v \in Seq(X) : u \o v \in Seq(X)
  OBVIOUS
<1>5. \A u \in Seq(X), f \in X : u \o <<f>> = Append(u, f)
  OBVIOUS
<1>  HIDE DEF a, b
<1>6. \A f \in X : f \notin S => Filter((a \o <<f>>) \o b, S) = Filter(a, S) \o Filter(b, S)
  <2>  SUFFICES ASSUME NEW f \in X, f \notin S
                PROVE  Filter((a \o <<f>>) \o b, S) = Filter(a, S) \o Filter(b, S)
    OBVIOUS
  <2>1. a \o <<f>> \in Seq(X)
    BY <1>1, <1>4
  <2>2. Filter(a \o <<f>>, S) = Filter(a, S)
    BY <1>1, <1>2, <1>5
  <2>  QED  BY <1>1, <1>3, <2>1, <2>2
<1>7. Filter(s, S) = Filter(a, S) \o Filter(b, S)
  BY <1>1, <1>6
<1>8. Filter(r, S) = Filter(a, S) \o Filter(b, S)
  BY <1>1, <1>6
<1>  QED  BY <1>7, <1>8

(* A dispatch: the command becomes a reference and two lines are added; every *)
(* other text stays where it was (instruction_rewriter.py 1919-1938).         *)
LEMMA DispatchFacts ==
    ASSUME NEW X, NEW d \in Seq(LineOf(X)), NEW script, Dispatchable(d, script),
           \A f \in FragmentsOf(d) : Fragment("reference", script, f.at) \in X,
           Fragment("dispatch", script, 0) \in X
    PROVE  /\ ProjectDispatch(d, script) \in Seq(LineOf(X))
           /\ \A S : (\A f \in S : f.is \notin {"run", "reference", "dispatch"})
                     => Filter(TextIn(ProjectDispatch(d, script)), S) = Filter(TextIn(d), S)
<1>  DEFINE at   == CHOOSE x \in Invocations(d, script) : TRUE
            l    == at[1]
            p    == at[2]
            line == d[l]
            new  == Fragment("reference", script, line.frags[p].at)
            rest == [line EXCEPT !.frags[p] = new]
            disp == Dispatch(script)
            a    == SubSeq(d, 1, l - 1)
            b    == SubSeq(d, l + 1, Len(d))
            mid  == <<rest, Blank, disp>>
            res  == ProjectDispatch(d, script)
            L    == LineOf(X)
<1>1. res = (a \o mid) \o b
  BY DEF ProjectDispatch
<1>2. /\ l \in 1..Len(d) /\ p \in 1..Len(line.frags)
      /\ line.frags[p].is = "run" /\ line.frags \in Seq(X) /\ line \in L
  <2>1. Invocations(d, script) # {}
    <3>1. Cardinality({}) = 0
      BY FS_EmptySet
    <3>2. Cardinality(Invocations(d, script)) = 1
      BY DEF Dispatchable
    <3>3. ASSUME Invocations(d, script) = {} PROVE FALSE
      <4>1. Cardinality(Invocations(d, script)) = 0
        BY <3>1, <3>3
      <4>  QED  BY <3>2, <4>1
    <3>  QED  BY <3>3
  <2>2. at \in Invocations(d, script)
    BY <2>1
  <2>  HIDE DEF at
  <2>3. PICK k \in Lines(d) :
           at \in {<<k, q>> : q \in {r \in DOMAIN d[k].frags :
                             d[k].frags[r].is = "run" /\ d[k].frags[r].of = script}}
    BY <2>2 DEF Invocations, Places
  <2>4. PICK q \in DOMAIN d[k].frags : at = <<k, q>> /\ d[k].frags[q].is = "run"
    BY <2>3
  <2>5. l = k /\ p = q /\ k \in 1..Len(d)
    BY <2>4 DEF Lines
  <2>6. d[k].frags \in Seq(X) /\ d[k] \in LineOf(X)
    BY <2>5, LineFrags
  <2>  QED  BY <2>4, <2>5, <2>6
<1>3. new \in X /\ new.is = "reference"
  <2>0. p \in DOMAIN line.frags
    BY <1>2
  <2>1. line.frags[p] \in FragmentsOf(d)
    <3>  HIDE DEF at
    <3>1. line.frags[p] \in ToSet(d[l].frags)
      BY <2>0 DEF ToSet
    <3>2. l \in Lines(d)
      BY <1>2 DEF Lines
    <3>  QED  BY <3>1, <3>2 DEF FragmentsOf
  <2>  QED  BY <2>1 DEF Fragment
<1>  DEFINE frags == [line.frags EXCEPT ![p] = new]
<1>4. rest.frags = frags /\ rest = [kind |-> line.kind, frags |-> frags]
  <2>1. line \in [kind: LineKinds, frags: Seq(X)]
    BY <1>2 DEF LineOf
  <2>  HIDE DEF line, new, at
  <2>2. rest = [line EXCEPT !.frags = frags]
    BY <2>1
  <2>  HIDE DEF rest, frags
  <2>  QED  BY <2>1, <2>2
<1>5. frags \in Seq(X)
  BY <1>2, <1>3
<1>6. rest \in L /\ disp \in L /\ disp.frags = <<Fragment("dispatch", script, 0)>>
  <2>1. <<Fragment("dispatch", script, 0)>> \in Seq(X)
    <3>  DEFINE f == Fragment("dispatch", script, 0)
    <3>1. f \in X
      OBVIOUS
    <3>  HIDE DEF f
    <3>2. <<f>> \in Seq(X)
      BY <3>1
    <3>  QED  BY <3>2 DEF f
  <2>2. disp \in L /\ disp.frags = <<Fragment("dispatch", script, 0)>>
    BY <2>1 DEF Dispatch, Line, LineOf, LineKinds
  <2>3. line.kind \in LineKinds
    BY <1>2 DEF LineOf
  <2>  HIDE DEF frags, line, rest
  <2>  QED  BY <1>4, <1>5, <2>2, <2>3 DEF LineOf
<1>7. /\ Blank \in L /\ TextIn(<<Blank>>) = <<>>
      /\ \A e \in L : TextIn(<<e>>) = e.frags
      /\ \A e \in L : <<e>> \in Seq(L)
  BY LineFacts
<1>8. /\ a \in Seq(L) /\ b \in Seq(L) /\ d = (a \o <<line>>) \o b
  <2>  DEFINE k == l
  <2>1. d \in Seq(L) /\ k \in 1..Len(d) /\ Blank \in L
    BY <1>2, <1>7
  <2>2. /\ SubSeq(d, 1, k - 1) \in Seq(L) /\ SubSeq(d, k + 1, Len(d)) \in Seq(L)
        /\ d = (SubSeq(d, 1, k - 1) \o <<d[k]>>) \o SubSeq(d, k + 1, Len(d))
    <3>  HIDE DEF k, L
    <3>  QED  BY <2>1, Cut
  <2>  QED  BY <2>2
<1>9. mid = Append(Append(<<rest>>, Blank), disp)
  <2>1. \A x, y, z \in L : <<x, y, z>> = Append(Append(<<x>>, y), z)
    <3>  HIDE DEF L
    <3>  QED  OBVIOUS
  <2>2. rest \in L /\ Blank \in L /\ disp \in L
    BY <1>6, <1>7
  <2>  HIDE DEF rest, disp, L
  <2>  QED  BY <2>1, <2>2
<1>10. \A u, v \in Seq(L) : u \o v \in Seq(L)
  OBVIOUS
<1>  HIDE DEF L, at, line, rest, new, disp, a, b, res, frags
<1>11. mid \in Seq(L) /\ TextIn(mid) = (frags \o <<>>) \o <<Fragment("dispatch", script, 0)>>
  <2>1. Blank.frags = <<>>
    BY DEF Blank, Line
  <2>2. \A u \in Seq(L), e \in L :
           Append(u, e) \in Seq(L) /\ TextIn(Append(u, e)) = TextIn(u) \o e.frags
    <3>1. \A u \in Seq(L), e \in L : Append(u, e) \in Seq(L)
      OBVIOUS
    <3>2. \A u \in Seq(L), e \in L : TextIn(Append(u, e)) = TextIn(u) \o e.frags
      BY TextAppend DEF L
    <3>  QED  BY <3>1, <3>2
  <2>3. <<rest>> \in Seq(L) /\ TextIn(<<rest>>) = frags /\ Blank \in L /\ disp \in L
    BY <1>4, <1>6, <1>7
  <2>4. Append(<<rest>>, Blank) \in Seq(L) /\ TextIn(Append(<<rest>>, Blank)) = frags \o <<>>
    BY <2>1, <2>2, <2>3
  <2>  HIDE DEF mid
  <2>  QED  BY <1>6, <1>9, <2>2, <2>3, <2>4
<1>12. res \in Seq(L)
  <2>  HIDE DEF mid
  <2>  QED  BY <1>1, <1>8, <1>10, <1>11
<1>13. ASSUME NEW S, \A f \in S : f.is \notin {"run", "reference", "dispatch"}
       PROVE  Filter(TextIn(res), S) = Filter(TextIn(d), S)
  <2>1. \A u, v \in Seq(L) : TextIn(u \o v) = TextIn(u) \o TextIn(v)
    BY TextConcat DEF L
  <2>2. \A u, v \in Seq(X) : Filter(u \o v, S) = Filter(u, S) \o Filter(v, S)
    BY FilterConcat
  <2>3. \A u \in Seq(L) : TextIn(u) \in Seq(X)
    BY TextAppend DEF L
  <2>4. \A u, v \in Seq(L) :
           Filter(TextIn(u \o v), S) = Filter(TextIn(u), S) \o Filter(TextIn(v), S)
    BY <2>1, <2>2, <2>3
  <2>5. Filter(frags, S) = Filter(line.frags, S)
    <3>1. line.frags[p] \notin S /\ new \notin S
      BY <1>2, <1>3, <1>13
    <3>  DEFINE s == line.frags
                k == p
    <3>2. s \in Seq(X) /\ k \in 1..Len(s) /\ s[k] \notin S /\ new \in X /\ new \notin S
      BY <1>2, <1>3, <3>1
    <3>3. frags = [s EXCEPT ![k] = new]
      BY DEF frags
    <3>  HIDE DEF s, k
    <3>4. /\ frags \in Seq(X) /\ Len(frags) = Len(s) /\ frags[k] = new
          /\ \A i \in 1..Len(s) : i # k => frags[i] = s[i]
      BY <3>2, <3>3
    <3>5. Filter(frags, S) = Filter(s, S)
      BY <3>2, <3>4, FilterReplaced
    <3>  QED  BY <3>5 DEF s
  <2>6. Filter(<<Fragment("dispatch", script, 0)>>, S) = <<>>
    <3>  DEFINE f == Fragment("dispatch", script, 0)
    <3>1. f \in X /\ f \notin S
      BY <1>13 DEF Fragment
    <3>  HIDE DEF f
    <3>2. <<f>> = Append(<<>>, f)
      OBVIOUS
    <3>3. <<>> \in Seq(X)
      OBVIOUS
    <3>31. /\ Filter(<<>>, S) = <<>>
           /\ \A u \in Seq(X), e \in X :
                 Filter(Append(u, e), S) = IF e \in S THEN Append(Filter(u, S), e) ELSE Filter(u, S)
      BY FilterAppend
    <3>4. Filter(<<>>, S) = <<>> /\ Filter(Append(<<>>, f), S) = Filter(<<>>, S)
      BY <3>1, <3>3, <3>31
    <3>5. Filter(<<f>>, S) = <<>>
      BY <3>2, <3>4
    <3>  QED  BY <3>5 DEF f
  <2>7. Filter(<<>>, S) = <<>> /\ \A u \in Seq(X) : Filter(u, S) \in Seq(X)
    BY FilterAppend
  <2>8. \A u \in Seq(X) : u \o <<>> = u
    OBVIOUS
  <2>9. Filter(TextIn(mid), S) = Filter(TextIn(<<line>>), S)
    <3>1. TextIn(<<line>>) = line.frags
      BY <1>2, <1>7 DEF line, L
    <3>2. frags \o <<>> = frags /\ <<Fragment("dispatch", script, 0)>> \in Seq(X)
      BY <1>5, <1>6, <2>8 DEF L, LineOf
    <3>3. Filter(TextIn(mid), S) = Filter(frags, S) \o <<>>
      BY <1>5, <1>11, <2>2, <2>6, <3>2
    <3>4. Filter(frags, S) \in Seq(X)
      BY <1>5, <2>7
    <3>  HIDE DEF mid
    <3>  QED  BY <2>5, <2>8, <3>1, <3>3, <3>4
  <2>10. <<line>> \in Seq(L)
    BY <1>2, <1>7 DEF line, L
  <2>  HIDE DEF mid
  <2>11. Filter(TextIn(res), S) =
            (Filter(TextIn(a), S) \o Filter(TextIn(mid), S)) \o Filter(TextIn(b), S)
    <3>1. a \o mid \in Seq(L)
      BY <1>8, <1>10, <1>11
    <3>  QED  BY <1>1, <1>8, <1>11, <2>4, <3>1
  <2>12. Filter(TextIn(d), S) =
            (Filter(TextIn(a), S) \o Filter(TextIn(<<line>>), S)) \o Filter(TextIn(b), S)
    <3>1. a \o <<line>> \in Seq(L)
      BY <1>8, <1>10, <2>10
    <3>2. Filter(TextIn((a \o <<line>>) \o b), S) =
            (Filter(TextIn(a), S) \o Filter(TextIn(<<line>>), S)) \o Filter(TextIn(b), S)
      BY <1>8, <2>4, <2>10, <3>1
    <3>  QED  BY <1>8, <3>2
  <2>  QED  BY <2>9, <2>11, <2>12
<1>  QED  BY <1>12, <1>13 DEF res, L

(* Flattening non-empty pieces shortens nothing, and the pieces of one element *)
(* it starts with stay where they are.                                         *)
LEMMA FlattenKeeps ==
    ASSUME NEW Y, NEW ss \in Seq(Seq(Y)), \A i \in 1..Len(ss) : Len(ss[i]) > 0,
           NEW k \in 0..Len(ss), \A i \in 1..k : Len(ss[i]) = 1
    PROVE  /\ Len(FlattenSeq(ss)) >= Len(ss)
           /\ \A i \in 1..k : FlattenSeq(ss)[i] = ss[i][1]
<1>1. PICK f \in [0..Len(ss) -> Seq(Y)] :
           /\ f[0] = <<>>
           /\ \A m \in 1..Len(ss) : f[m] = f[m - 1] \o ss[m]
           /\ FlattenSeq(ss) = f[Len(ss)]
  BY FlattenSteps
<1>  DEFINE n == Len(ss)
            T == {m \in 0..n : /\ Len(f[m]) >= m
                               /\ m <= k => Len(f[m]) = m
                               /\ \A i \in 1..m : i <= k => f[m][i] = ss[i][1]}
<1>2. n \in Nat /\ \A i \in 1..n : ss[i] \in Seq(Y) /\ Len(ss[i]) > 0 /\ Len(ss[i]) \in Nat
  OBVIOUS
<1>3. 0 \in T
  BY <1>1, <1>2
<1>4. ASSUME NEW m \in 1..n, m - 1 \in T PROVE m \in T
  <2>0. m \in Nat /\ m - 1 \in 0..n
    BY <1>2
  <2>1. /\ f[m] = f[m - 1] \o ss[m] /\ f[m - 1] \in Seq(Y) /\ ss[m] \in Seq(Y)
        /\ Len(ss[m]) > 0 /\ Len(ss[m]) \in Nat
    <3>1. f[m] = f[m - 1] \o ss[m]
      BY <1>1
    <3>2. f[m - 1] \in Seq(Y)
      BY <2>0
    <3>  HIDE DEF n
    <3>  QED  BY <1>2, <3>1, <3>2
  <2>2. /\ Len(f[m]) = Len(f[m - 1]) + Len(ss[m]) /\ Len(f[m - 1]) \in Nat
        /\ Len(f[m]) \in Nat
        /\ \A i \in 1..Len(f[m - 1]) : f[m][i] = f[m - 1][i]
        /\ \A i \in 1..Len(ss[m]) : f[m][Len(f[m - 1]) + i] = ss[m][i]
    <3>1. \A u, v \in Seq(Y) :
             /\ Len(u \o v) = Len(u) + Len(v) /\ Len(u) \in Nat /\ Len(u \o v) \in Nat
             /\ \A i \in 1..Len(u) : (u \o v)[i] = u[i]
             /\ \A i \in 1..Len(v) : (u \o v)[Len(u) + i] = v[i]
      <4>1. \A u, v \in Seq(Y) : Len(u) \in Nat /\ Len(u \o v) \in Nat
        OBVIOUS
      <4>  QED  BY <4>1, ConcatFacts
    <3>  DEFINE u == f[m - 1]
                v == ss[m]
                w == f[m]
    <3>2. u \in Seq(Y) /\ v \in Seq(Y) /\ w = u \o v
      BY <2>1
    <3>3. /\ Len(w) = Len(u) + Len(v) /\ Len(u) \in Nat /\ Len(w) \in Nat
          /\ \A i \in 1..Len(u) : w[i] = u[i]
          /\ \A i \in 1..Len(v) : w[Len(u) + i] = v[i]
      <4>  HIDE DEF u, v, w
      <4>  QED  BY <3>1, <3>2
    <3>  QED  BY <3>3
  <2>3. /\ Len(f[m - 1]) >= m - 1
        /\ m - 1 <= k => Len(f[m - 1]) = m - 1
        /\ \A i \in 1..(m - 1) : i <= k => f[m - 1][i] = ss[i][1]
    BY <1>4
  <2>  DEFINE a == Len(f[m - 1])
              b == Len(ss[m])
              c == Len(f[m])
  <2>30. \A j, u, v, w \in Nat : u = v + w /\ v >= j - 1 /\ w > 0 => u >= j
    OBVIOUS
  <2>31. \A j, u, v, w \in Nat : u = v + w /\ v = j - 1 /\ w = 1 => u = j
    OBVIOUS
  <2>32. c = a + b /\ a \in Nat /\ b \in Nat /\ c \in Nat /\ a >= m - 1 /\ b > 0
    <3>1. c = a + b /\ a \in Nat /\ b \in Nat /\ c \in Nat /\ b > 0
      BY <2>1, <2>2
    <3>2. a >= m - 1
      BY <2>3
    <3>  QED  BY <3>1, <3>2
  <2>33. k \in Nat /\ (m <= k => m - 1 <= k)
    BY <2>0, <1>2
  <2>5. m <= k => b = 1
    BY <2>0
  <2>51. m <= k => a = m - 1
    BY <2>3, <2>33
  <2>4. Len(f[m]) >= m
    <3>  HIDE DEF a, b, n
    <3>1. c >= m
      <4>  HIDE DEF c
      <4>  QED  BY <2>0, <2>30, <2>32
    <3>  QED  BY <3>1
  <2>6. m <= k => Len(f[m]) = m
    <3>  HIDE DEF a, b, n
    <3>1. m <= k => c = m
      <4>  HIDE DEF c
      <4>  QED  BY <2>0, <2>31, <2>32, <2>5, <2>51
    <3>  QED  BY <3>1
  <2>7. ASSUME NEW i \in 1..m, i <= k PROVE f[m][i] = ss[i][1]
    <3>1. CASE i = m
      <4>1. Len(f[m - 1]) = m - 1 /\ Len(ss[m]) = 1
        BY <2>3, <2>5, <2>7, <3>1
      <4>2. f[m][Len(f[m - 1]) + 1] = ss[m][1]
        BY <2>2, <4>1
      <4>3. (m - 1) + 1 = m
        OBVIOUS
      <4>  QED  BY <3>1, <4>1, <4>2, <4>3
    <3>2. CASE i # m
      <4>1. i \in 1..(m - 1) /\ i \in 1..Len(f[m - 1])
        BY <2>2, <2>3, <3>2
      <4>  QED  BY <2>2, <2>3, <2>7, <4>1
    <3>  QED  BY <3>1, <3>2
  <2>  QED  BY <2>4, <2>6, <2>7
<1>5. \A m \in 0..n : m \in T
  <2>  HIDE DEF T, n
  <2>  QED  BY <1>2, <1>3, <1>4, InductionUpTo
<1>6. n \in T
  <2>1. \A q \in Nat : q \in 0..q
    OBVIOUS
  <2>  HIDE DEF T, n
  <2>  QED  BY <1>2, <1>5, <2>1
<1>7. \A i \in 1..k : i \in 1..n
  BY <1>2
<1>  QED  BY <1>1, <1>6, <1>7

(* Guards leave the lines above all their fragments alone, and no line less.  *)
LEMMA GuardLines ==
    ASSUME NEW X, NEW d \in Seq(LineOf(X)), NEW range, NEW items,
           Projectable(d, range, items),
           \A x \in items : Fragment("guard", x.id, 0) \in X,
           NEW k \in 0..Len(d),
           \A x \in items : \A m \in MatchesIn(d, range, x) : m[1] > k
    PROVE  /\ Len(ProjectGuards(d, range, items)) >= Len(d)
           /\ \A l \in 1..k : ProjectGuards(d, range, items)[l] = d[l]
<1>  DEFINE place(x) == CHOOSE m \in MatchesIn(d, range, x) : TRUE
            on(l) == {x \in items : place(x)[1] = l}
            guarded(l) == [p \in {place(x)[2] : x \in on(l)} |->
                               (CHOOSE x \in on(l) : place(x)[2] = p).id]
            piece(l) == IF on(l) = {} THEN <<d[l]>> ELSE SplitLine(d[l], guarded(l))
            n == Len(d)
            ss == [l \in 1..n |-> piece(l)]
            L == LineOf(X)
<1>1. n \in Nat /\ Lines(d) = 1..n /\ \A l \in 1..n : d[l] \in L
  BY DEF Lines
<1>2. ProjectGuards(d, range, items) = FlattenSeq(ss)
  BY <1>1 DEF ProjectGuards
<1>3. ASSUME NEW x \in items
      PROVE  /\ place(x) \in MatchesIn(d, range, x)
             /\ place(x)[1] \in 1..n /\ place(x)[2] \in 1..Len(d[place(x)[1]].frags)
  <2>1. MatchesIn(d, range, x) # {}
    <3>1. Cardinality({}) = 0
      BY FS_EmptySet
    <3>2. Cardinality(MatchesIn(d, range, x)) = 1
      BY DEF Projectable
    <3>3. ASSUME MatchesIn(d, range, x) = {} PROVE FALSE
      <4>1. Cardinality(MatchesIn(d, range, x)) = 0
        BY <3>1, <3>3
      <4>  QED  BY <3>2, <4>1
    <3>  QED  BY <3>3
  <2>2. place(x) \in MatchesIn(d, range, x)
    BY <2>1
  <2>  HIDE DEF place
  <2>3. PICK l \in Lines(d) :
           place(x) \in {<<l, p>> : p \in {q \in DOMAIN d[l].frags :
                             d[l].frags[q].is = "text" /\ d[l].frags[q].of = x.raw}}
    BY <2>2 DEF MatchesIn, Places
  <2>4. PICK p \in DOMAIN d[l].frags : place(x) = <<l, p>>
    BY <2>3
  <2>5. d[l].frags \in Seq(X)
    BY <1>1, LineFrags
  <2>6. DOMAIN d[l].frags = 1..Len(d[l].frags)
    BY <2>5
  <2>  HIDE DEF n
  <2>  QED  BY <1>1, <2>2, <2>4, <2>6
<1>4. \A l \in 1..k : on(l) = {}
  <2>1. ASSUME NEW l \in 1..k, NEW x \in items, place(x)[1] = l PROVE FALSE
    <3>1. place(x)[1] > k
      BY <1>3
    <3>  HIDE DEF place
    <3>  QED  BY <2>1, <3>1
  <2>  QED  BY <2>1
<1>  HIDE DEF place
<1>5. ASSUME NEW l \in 1..n, NEW p \in DOMAIN guarded(l)
      PROVE  /\ p \in 1..Len(d[l].frags)
             /\ Fragment("guard", guarded(l)[p], 0) \in X
  <2>1. PICK x \in on(l) : p = place(x)[2]
    OBVIOUS
  <2>  DEFINE y == CHOOSE z \in on(l) : place(z)[2] = p
  <2>2. y \in on(l)
    BY <2>1
  <2>3. guarded(l)[p] = y.id /\ y \in items
    BY <2>2
  <2>  QED  BY <1>3, <2>1, <2>3
<1>6. ASSUME NEW l \in 1..n
      PROVE  piece(l) \in Seq(L) /\ Len(piece(l)) > 0
  <2>1. CASE on(l) = {}
    <3>1. \A e \in L : <<e>> \in Seq(L) /\ Len(<<e>>) = 1
      <4>  HIDE DEF L
      <4>  QED  OBVIOUS
    <3>2. piece(l) = <<d[l]>> /\ d[l] \in L
      BY <1>1, <2>1
    <3>  HIDE DEF piece, L
    <3>  QED  BY <3>1, <3>2
  <2>2. CASE on(l) # {}
    <3>1. PICK x \in on(l) : TRUE
      BY <2>2
    <3>2. place(x)[2] \in DOMAIN guarded(l)
      BY <3>1
    <3>3. d[l] \in LineOf(X)
      BY <1>1
    <3>  HIDE DEF guarded
    <3>4. /\ SplitLine(d[l], guarded(l)) \in Seq(LineOf(X))
          /\ \A p \in DOMAIN guarded(l) :
                 GuardLine(guarded(l)[p]) \in ToSet(SplitLine(d[l], guarded(l)))
      <4>1. /\ DOMAIN guarded(l) \subseteq 1..Len(d[l].frags)
            /\ \A p \in DOMAIN guarded(l) : Fragment("guard", guarded(l)[p], 0) \in X
        BY <1>5
      <4>  HIDE DEF n
      <4>  QED  BY <3>3, <4>1, SplitFacts
    <3>5. piece(l) = SplitLine(d[l], guarded(l))
      BY <2>2
    <3>6. \A s \in Seq(L) : ToSet(s) # {} => Len(s) > 0
      <4>  HIDE DEF L
      <4>  QED  BY DEF ToSet
    <3>  HIDE DEF piece, on
    <3>  QED  BY <3>2, <3>4, <3>5, <3>6
  <2>  QED  BY <2>1, <2>2
<1>7. ss \in Seq(Seq(L)) /\ Len(ss) = n /\ \A l \in 1..n : ss[l] = piece(l)
  <2>  HIDE DEF piece, n, L
  <2>  QED  BY <1>1, <1>6
<1>8. ASSUME NEW l \in 1..k PROVE l \in 1..n /\ Len(ss[l]) = 1 /\ ss[l][1] = d[l]
  <2>1. l \in 1..n
    BY <1>1
  <2>2. ss[l] = <<d[l]>>
    BY <1>4, <1>7, <2>1
  <2>  HIDE DEF ss
  <2>  QED  BY <2>1, <2>2
<1>9. \A l \in 1..n : Len(ss[l]) > 0
  BY <1>6, <1>7
<1>  HIDE DEF ss, piece, L
<1>10. Len(FlattenSeq(ss)) >= Len(ss) /\ \A i \in 1..k : FlattenSeq(ss)[i] = ss[i][1]
  BY <1>7, <1>8, <1>9, FlattenKeeps
<1>  QED  BY <1>2, <1>7, <1>8, <1>10

(* A sequence with three elements in the place of one. *)
ThreeFor(s, k, x, y, z) == SubSeq(s, 1, k - 1) \o <<x, y, z>> \o SubSeq(s, k + 1, Len(s))

LEMMA ThreeForOne ==
    ASSUME NEW Y, NEW s \in Seq(Y), NEW k \in 1..Len(s), NEW x \in Y, NEW y \in Y, NEW z \in Y
    PROVE  /\ Len(ThreeFor(s, k, x, y, z)) = Len(s) + 2
           /\ \A i \in 1..(k - 1) : ThreeFor(s, k, x, y, z)[i] = s[i]
           /\ ThreeFor(s, k, x, y, z)[k] = x /\ ThreeFor(s, k, x, y, z)[k + 2] = z
           /\ \A i \in (k + 1)..Len(s) : ThreeFor(s, k, x, y, z)[i + 2] = s[i]
<1>  DEFINE a == SubSeq(s, 1, k - 1)
            m == <<x, y, z>>
            b == SubSeq(s, k + 1, Len(s))
            u == a \o m
            r == u \o b
            n == Len(s)
<1>1. n \in Nat /\ k \in 1..n
  OBVIOUS
<1>2. a \in Seq(Y) /\ Len(a) = k - 1 /\ \A i \in 1..(k - 1) : a[i] = s[i]
  OBVIOUS
<1>3. b \in Seq(Y) /\ Len(b) = n - k /\ \A i \in 1..(n - k) : b[i] = s[k + i]
  OBVIOUS
<1>4. m \in Seq(Y) /\ Len(m) = 3 /\ m[1] = x /\ m[3] = z
  OBVIOUS
<1>  HIDE DEF a, m, b, n
<1>41. \A v, w \in Seq(Y) :
          /\ v \o w \in Seq(Y) /\ Len(v \o w) = Len(v) + Len(w)
          /\ \A i \in 1..Len(v) : (v \o w)[i] = v[i]
          /\ \A i \in 1..Len(w) : (v \o w)[Len(v) + i] = w[i]
  BY ConcatFacts
<1>5. /\ u \in Seq(Y) /\ Len(u) = k + 2 /\ \A i \in 1..(k - 1) : u[i] = s[i]
      /\ u[k] = x /\ u[k + 2] = z
  <2>1. /\ u \in Seq(Y) /\ Len(u) = Len(a) + Len(m)
        /\ \A i \in 1..Len(a) : u[i] = a[i]
        /\ \A i \in 1..Len(m) : u[Len(a) + i] = m[i]
    BY <1>2, <1>4, <1>41
  <2>  HIDE DEF u
  <2>2. Len(u) = k + 2 /\ \A i \in 1..(k - 1) : u[i] = s[i]
    BY <1>1, <1>2, <1>4, <2>1
  <2>3. u[Len(a) + 1] = x /\ u[Len(a) + 3] = z
    BY <1>4, <2>1
  <2>4. Len(a) + 1 = k /\ Len(a) + 3 = k + 2
    BY <1>1, <1>2
  <2>  QED  BY <2>1, <2>2, <2>3, <2>4
<1>  HIDE DEF u
<1>6. /\ Len(r) = Len(u) + Len(b)
      /\ \A i \in 1..Len(u) : r[i] = u[i]
      /\ \A i \in 1..Len(b) : r[Len(u) + i] = b[i]
  BY <1>3, <1>5, <1>41
<1>  HIDE DEF r
<1>7. Len(r) = n + 2
  BY <1>1, <1>3, <1>5, <1>6
<1>8. r[k] = x /\ r[k + 2] = z /\ \A i \in 1..(k - 1) : r[i] = s[i]
  BY <1>1, <1>5, <1>6
<1>9. ASSUME NEW i \in (k + 1)..n PROVE r[i + 2] = s[i]
  <2>1. i - k \in 1..(n - k) /\ k + (i - k) = i /\ (k + 2) + (i - k) = i + 2
    BY <1>1
  <2>2. b[i - k] = s[i]
    BY <1>3, <2>1
  <2>3. r[(k + 2) + (i - k)] = b[i - k]
    BY <1>3, <1>5, <1>6, <2>1
  <2>  QED  BY <2>1, <2>2, <2>3
<1>10. ThreeFor(s, k, x, y, z) = r
  BY DEF ThreeFor, r, u, a, m, b
<1>  QED  BY <1>7, <1>8, <1>9, <1>10 DEF n

(* A file in which a dispatch turned one command into a reference and moved   *)
(* the lines below by two; all else is as it was.                             *)
OneMoved(d, res, script, l, p) ==
    /\ <<l, p>> \in Invocations(d, script)
    /\ d[l].frags[p].is = "run" /\ d[l].frags[p].of = script
    /\ Len(res) = Len(d) + 2
    /\ \A k \in 1..(l - 1) : res[k] = d[k]
    /\ res[l].kind = d[l].kind /\ DOMAIN res[l].frags = DOMAIN d[l].frags
    /\ \A q \in DOMAIN d[l].frags : q # p => res[l].frags[q] = d[l].frags[q]
    /\ res[l].frags[p].is = "reference"
    /\ res[l + 2] = Dispatch(script)
    /\ \A k \in (l + 1)..Len(d) : res[k + 2] = d[k]

LEMMA DispatchLines ==
    ASSUME NEW X, NEW d \in Seq(LineOf(X)), NEW script, Dispatchable(d, script)
    PROVE  \E l \in 1..Len(d) : \E p \in DOMAIN d[l].frags :
               OneMoved(d, ProjectDispatch(d, script), script, l, p)
<1>  DEFINE at   == CHOOSE x \in Invocations(d, script) : TRUE
            l    == at[1]
            p    == at[2]
            line == d[l]
            new  == Fragment("reference", script, line.frags[p].at)
            rest == [line EXCEPT !.frags[p] = new]
            disp == Dispatch(script)
            res  == ProjectDispatch(d, script)
            n    == Len(d)
<1>1. res = SubSeq(d, 1, l - 1) \o <<rest, Blank, disp>> \o SubSeq(d, l + 1, Len(d))
  BY DEF ProjectDispatch
<1>2. /\ l \in 1..n /\ p \in DOMAIN line.frags /\ <<l, p>> \in Invocations(d, script)
      /\ line.frags[p].is = "run" /\ line.frags[p].of = script
      /\ line.frags \in Seq(X) /\ line \in LineOf(X)
  <2>1. Invocations(d, script) # {}
    <3>1. Cardinality({}) = 0
      BY FS_EmptySet
    <3>2. Cardinality(Invocations(d, script)) = 1
      BY DEF Dispatchable
    <3>3. ASSUME Invocations(d, script) = {} PROVE FALSE
      <4>1. Cardinality(Invocations(d, script)) = 0
        BY <3>1, <3>3
      <4>  QED  BY <3>2, <4>1
    <3>  QED  BY <3>3
  <2>2. at \in Invocations(d, script)
    BY <2>1
  <2>  HIDE DEF at
  <2>3. PICK k \in Lines(d) :
           at \in {<<k, q>> : q \in {r \in DOMAIN d[k].frags :
                             d[k].frags[r].is = "run" /\ d[k].frags[r].of = script}}
    BY <2>2 DEF Invocations, Places
  <2>4. PICK q \in DOMAIN d[k].frags :
            at = <<k, q>> /\ d[k].frags[q].is = "run" /\ d[k].frags[q].of = script
    BY <2>3
  <2>5. l = k /\ p = q /\ k \in 1..Len(d)
    BY <2>4 DEF Lines
  <2>6. d[k].frags \in Seq(X) /\ d[k] \in LineOf(X)
    BY <2>5, LineFrags
  <2>7. <<l, p>> \in Invocations(d, script)
    BY <2>2, <2>4, <2>5
  <2>  QED  BY <2>4, <2>5, <2>6, <2>7
<1>3. /\ rest.kind = line.kind /\ DOMAIN rest.frags = DOMAIN line.frags
      /\ \A q \in DOMAIN line.frags : q # p => rest.frags[q] = line.frags[q]
      /\ rest.frags[p].is = "reference"
  <2>  DEFINE frags == [line.frags EXCEPT ![p] = new]
  <2>1. line \in [kind: LineKinds, frags: Seq(X)]
    BY <1>2 DEF LineOf
  <2>2. new.is = "reference"
    BY DEF Fragment
  <2>3. rest.kind = line.kind /\ rest.frags = frags
    <3>  HIDE DEF line, new, at
    <3>  QED  BY <2>1
  <2>  HIDE DEF line, new, at, rest, p
  <2>4. /\ DOMAIN frags = DOMAIN line.frags
        /\ \A q \in DOMAIN line.frags : q # p => frags[q] = line.frags[q]
        /\ frags[p] = new
    BY <1>2
  <2>  HIDE DEF frags
  <2>  QED  BY <2>2, <2>3, <2>4
<1>4. /\ Len(res) = n + 2
      /\ \A k \in 1..(l - 1) : res[k] = d[k]
      /\ res[l] = rest /\ res[l + 2] = disp
      /\ \A k \in (l + 1)..n : res[k + 2] = d[k]
  <2>  DEFINE Y == LineOf(X) \cup {rest, Blank, disp}
  <2>1. d \in Seq(Y) /\ rest \in Y /\ Blank \in Y /\ disp \in Y
    <3>1. LineOf(X) \subseteq Y /\ rest \in Y /\ Blank \in Y /\ disp \in Y
      OBVIOUS
    <3>  HIDE DEF Y
    <3>  QED  BY <3>1, WiderSeq
  <2>2. l \in 1..Len(d)
    BY <1>2
  <2>  DEFINE r == ThreeFor(d, l, rest, Blank, disp)
  <2>3. res = r
    BY <1>1 DEF ThreeFor
  <2>  HIDE DEF Y, rest, disp, l
  <2>4. /\ Len(r) = Len(d) + 2
        /\ \A i \in 1..(l - 1) : r[i] = d[i]
        /\ r[l] = rest /\ r[l + 2] = disp
        /\ \A i \in (l + 1)..Len(d) : r[i + 2] = d[i]
    BY <2>1, <2>2, ThreeForOne
  <2>  HIDE DEF r, res
  <2>  QED  BY <2>3, <2>4
<1>5. l \in 1..Len(d) /\ p \in DOMAIN d[l].frags
  BY <1>2
<1>  HIDE DEF p, new, rest, disp, res, at
<1>6. OneMoved(d, res, script, l, p)
  <2>1. /\ l \in 1..n /\ <<l, p>> \in Invocations(d, script)
        /\ d[l].frags[p].is = "run" /\ d[l].frags[p].of = script
        /\ Len(res) = n + 2
        /\ \A k \in 1..(l - 1) : res[k] = d[k]
        /\ res[l].kind = d[l].kind /\ DOMAIN res[l].frags = DOMAIN d[l].frags
        /\ \A q \in DOMAIN d[l].frags : q # p => res[l].frags[q] = d[l].frags[q]
        /\ res[l].frags[p].is = "reference"
        /\ res[l + 2] = disp
        /\ \A k \in (l + 1)..n : res[k + 2] = d[k]
    <3>  HIDE DEF l
    <3>  QED  BY <1>2, <1>3, <1>4
  <2>  HIDE DEF l
  <2>  QED  BY <2>1 DEF OneMoved, disp
<1>  HIDE DEF l
<1>7. \E i \in 1..Len(d) : \E j \in DOMAIN d[i].frags : OneMoved(d, res, script, i, j)
  BY <1>5, <1>6
<1>  QED  BY <1>7 DEF res
===============================================================================
