---------------------------- MODULE AccessProofs ----------------------------
(***************************************************************************)
(* Proofs about Access, for every set of environments, claims, key rows,   *)
(* configurations and peers and any number of starts and signing keys.     *)
(***************************************************************************)
EXTENDS Access, FiniteSetTheorems, SequenceTheorems, WellFoundedInduction, TLAPS

-----------------------------------------------------------------------------
(* Numbers and loops.  What a loop computes is shown by least counter-     *)
(* example: the first position where it is wrong cannot exist.             *)

(* A set of naturals that is not empty has a least element.                *)
LEMMA LeastExists ==
  ASSUME NEW T \in SUBSET Nat, T # {}
  PROVE  \E x \in T : \A y \in T : x <= y
<1>1. PICK x \in T : \A y \in T : ~(<<y, x>> \in OpToRel(<, Nat))
  BY NatLessThanWellFounded, WFMin
<1>2. ASSUME NEW y \in T PROVE x <= y
  <2>1. ~(<<y, x>> \in OpToRel(<, Nat)) /\ x \in Nat /\ y \in Nat
    BY <1>1
  <2> QED
    BY <2>1 DEF OpToRel
<1> QED
  BY <1>2

(* A set of positions of a list that is not empty has a last one.          *)
LEMMA LastExists ==
  ASSUME NEW n \in Nat, NEW S \in SUBSET (1..n), S # {}
  PROVE  \E i \in S : \A j \in S : j <= i
<1> DEFINE T == {m \in Nat : n - m \in S}
<1>1. \A i \in S : n - i \in T
  BY \A i \in 1..n : n - i \in Nat /\ n - (n - i) = i
<1>2. T \in SUBSET Nat /\ T # {}
  BY <1>1
<1>3. PICK x \in T : \A y \in T : x <= y
  <2> HIDE DEF T
  <2> QED
    BY <1>2, LeastExists
<1>4. n - x \in S /\ x \in Nat
  OBVIOUS
<1>5. ASSUME NEW j \in S PROVE j <= n - x
  <2>1. x <= n - j
    BY <1>1, <1>3
  <2> QED
    BY <2>1, <1>4
<1> QED
  BY <1>4, <1>5

Stepping(G, n, V) == G \in [1..n -> [V -> V]]

Loop(f, G, n, V, a) ==
  f \in [0..n -> V] /\ f[0] = a /\ \A i \in 1..n : f[i] = G[i][f[i - 1]]

(* A step function applied again and again from a first value defines the  *)
(* values of a loop.                                                       *)
LEMMA LoopExists ==
  ASSUME NEW n \in Nat, NEW V, NEW a \in V, NEW G, Stepping(G, n, V)
  PROVE  \E f : Loop(f, G, n, V, a)
<1> SUFFICES \E f \in [0..n -> V] :
               f[0] = a /\ \A i \in 1..n : f[i] = G[i][f[i - 1]]
  BY DEF Loop
<1>0. G \in [1..n -> [V -> V]]
  BY DEF Stepping
<1> DEFINE Good(m) == \E f \in [0..m -> V] :
                        f[0] = a /\ \A i \in 1..m : f[i] = G[i][f[i - 1]]
           T == {m \in Nat : m <= n /\ ~Good(m)}
<1>1. SUFFICES ASSUME T # {} PROVE FALSE
  <2>1. n \notin T => Good(n)
    OBVIOUS
  <2> QED
    BY <2>1
<1>2. PICK m \in T : \A y \in T : m <= y
  <2>1. T \in SUBSET Nat
    OBVIOUS
  <2> HIDE DEF T
  <2> QED
    BY <1>1, <2>1, LeastExists
<1>3. m \in Nat /\ m <= n /\ ~Good(m)
  OBVIOUS
<1>4. m # 0
  <2>1. Good(0)
    <3> DEFINE f == [i \in 0..0 |-> a]
    <3>1. f \in [0..0 -> V] /\ f[0] = a /\ \A i \in 1..0 : f[i] = G[i][f[i - 1]]
      OBVIOUS
    <3> QED
      BY <3>1
  <2> QED
    BY <1>3, <2>1
<1>5. Good(m - 1)
  <2>1. m - 1 \in Nat /\ m - 1 <= n /\ ~(m <= m - 1)
    BY <1>3, <1>4
  <2> QED
    BY <1>2, <2>1
<1>6. PICK g \in [0..(m - 1) -> V] :
        g[0] = a /\ \A i \in 1..(m - 1) : g[i] = G[i][g[i - 1]]
  BY <1>5
<1> DEFINE f == [i \in 0..m |-> IF i = m THEN G[m][g[m - 1]] ELSE g[i]]
<1>7. G[m][g[m - 1]] \in V
  <2>1. m \in 1..n /\ m - 1 \in 0..(m - 1)
    BY <1>3, <1>4
  <2>2. g[m - 1] \in V /\ G[m] \in [V -> V]
    BY <1>0, <2>1
  <2> QED
    BY <2>2
<1>8. f \in [0..m -> V]
  BY <1>3, <1>6, <1>7
<1>9. f[0] = a
  BY <1>3, <1>4, <1>6
<1>10. ASSUME NEW i \in 1..m PROVE f[i] = G[i][f[i - 1]]
  <2>1. f[i - 1] = g[i - 1]
    BY <1>3
  <2>2. CASE i = m
    BY <1>3, <2>1, <2>2
  <2>3. CASE i # m
    <3>1. i \in 1..(m - 1) /\ i \in 0..m
      BY <1>3, <2>3
    <3> QED
      BY <1>6, <2>1, <2>3, <3>1
  <2> QED
    BY <2>2, <2>3
<1>11. Good(m)
  <2> HIDE DEF f
  <2> QED
    BY <1>8, <1>9, <1>10
<1> QED
  BY <1>3, <1>11

-----------------------------------------------------------------------------
(* The parts of a pattern.                                                 *)

(* The k-th star of a pattern exists.                                      *)
LEMMA StarExists ==
  ASSUME NEW n \in Nat, NEW S \in SUBSET (1..n), NEW k \in 1..Cardinality(S)
  PROVE  \E i \in S : Cardinality({j \in S : j <= i}) = k
<1> DEFINE Upto(i) == {j \in S : j <= i}
           T == {i \in Nat : Cardinality(Upto(i)) >= k}
<1>0. \A j \in S : j \in Nat /\ 1 <= j /\ j <= n
  OBVIOUS
<1>1. IsFiniteSet(S)
  <2>1. IsFiniteSet(1..n)
    BY FS_Interval
  <2> QED
    BY <2>1, FS_Subset
<1>2. \A i \in Nat : IsFiniteSet(Upto(i)) /\ Cardinality(Upto(i)) \in Nat
  <2>1. \A i \in Nat : Upto(i) \subseteq S
    OBVIOUS
  <2> HIDE DEF Upto
  <2> QED
    BY <1>1, <2>1, FS_Subset, FS_CardinalityType
<1>3. Cardinality(S) \in Nat /\ k \in Nat /\ k >= 1
  BY <1>1, FS_CardinalityType
<1>4. n \in T
  <2>1. Upto(n) = S
    BY <1>0
  <2> QED
    BY <1>3, <2>1
<1>5. PICK i \in T : \A y \in T : i <= y
  <2>1. T \in SUBSET Nat /\ T # {}
    BY <1>4
  <2> HIDE DEF T
  <2> QED
    BY <2>1, LeastExists
<1>6. i \in Nat /\ Cardinality(Upto(i)) >= k
  OBVIOUS
<1>7. i # 0
  <2>0. \A j \in S : ~(j <= 0)
    BY <1>0
  <2>1. Upto(0) = {}
    BY <2>0
  <2>2. Cardinality(Upto(0)) = 0
    BY <2>1, FS_EmptySet
  <2> QED
    BY <1>3, <1>6, <2>2
<1>8. i - 1 \in Nat /\ Cardinality(Upto(i - 1)) < k
  <2>1. i - 1 \in Nat /\ ~(i <= i - 1)
    BY <1>6, <1>7
  <2>2. i - 1 \notin T
    BY <1>5, <2>1
  <2>3. Cardinality(Upto(i - 1)) \in Nat
    BY <1>2, <2>1
  <2> QED
    BY <1>3, <2>1, <2>2, <2>3
<1>8a. \A j \in S : /\ j <= i <=> (j <= i - 1 \/ j = i)
                    /\ ~(i <= i - 1)
  BY <1>0, <1>6
<1>9. i \in S
  <2>1. SUFFICES ASSUME i \notin S PROVE FALSE
    OBVIOUS
  <2>2. Upto(i) = Upto(i - 1)
    BY <1>8a, <2>1
  <2> QED
    BY <1>2, <1>3, <1>6, <1>8, <2>2
<1>10. Upto(i) = Upto(i - 1) \cup {i} /\ i \notin Upto(i - 1)
  BY <1>8a, <1>9
<1>11. Cardinality(Upto(i)) = Cardinality(Upto(i - 1)) + 1
  <2> HIDE DEF Upto
  <2> QED
    BY <1>2, <1>8, <1>10, FS_AddElement
<1>12. Cardinality(Upto(i)) = k
  <2> HIDE DEF Upto
  <2> QED
    BY <1>2, <1>3, <1>6, <1>8, <1>11
<1> QED
  BY <1>9, <1>12

(* split('*') gives at least one part, and every part is a sequence.       *)
LEMMA SplitParts ==
  ASSUME NEW pattern \in Seq(STRING)
  PROVE  /\ Len(Split(pattern)) \in Nat \ {0}
         /\ DOMAIN Split(pattern) = 1..Len(Split(pattern))
         /\ \A i \in 1..Len(Split(pattern)) : Split(pattern)[i] \in Seq(STRING)
<1> DEFINE stars == {i \in DOMAIN pattern : pattern[i] = "*"}
           c == Cardinality(stars)
           cut == [k \in 0..(c + 1) |->
                     IF k = 0 THEN 0
                     ELSE IF k = c + 1 THEN Len(pattern) + 1
                     ELSE CHOOSE i \in stars : Cardinality({j \in stars : j <= i}) = k]
<1>1. Len(pattern) \in Nat /\ DOMAIN pattern = 1..Len(pattern)
  BY LenProperties
<1>2. stars \in SUBSET (1..Len(pattern))
  BY <1>1
<1>3. c \in Nat
  <2>1. IsFiniteSet(1..Len(pattern))
    BY <1>1, FS_Interval
  <2> HIDE DEF stars
  <2> QED
    BY <1>2, <2>1, FS_Subset, FS_CardinalityType
<1>4. ASSUME NEW k \in 0..(c + 1)
      PROVE  cut[k] \in 0..(Len(pattern) + 1)
  <2>1. CASE k = 0
    BY <2>1, <1>1, <1>3
  <2>2. CASE k = c + 1
    BY <2>2, <1>1, <1>3
  <2>3. CASE k \in 1..c
    <3>1. \E i \in stars : Cardinality({j \in stars : j <= i}) = k
      <4> HIDE DEF stars
      <4> QED
        BY <1>1, <1>2, <2>3, StarExists
    <3>2. (CHOOSE i \in stars : Cardinality({j \in stars : j <= i}) = k) \in stars
      <4> HIDE DEF stars
      <4> QED
        BY <3>1
    <3>3. cut[k] = CHOOSE i \in stars : Cardinality({j \in stars : j <= i}) = k
      <4>1. k \in 0..(c + 1) /\ k # 0 /\ k # c + 1
        BY <1>3, <2>3
      <4> HIDE DEF stars, c
      <4> QED
        BY <4>1
    <3> HIDE DEF stars, cut, c
    <3>4. cut[k] \in 1..Len(pattern)
      BY <1>2, <3>2, <3>3
    <3> QED
      BY <1>1, <3>4
  <2> QED
    BY <1>3, <2>1, <2>2, <2>3
<1>5. Split(pattern) = [k \in 1..(c + 1) |->
                          SubSeq(pattern, cut[k - 1] + 1, cut[k] - 1)]
  BY DEF Split
<1> HIDE DEF stars, c, cut
<1>6. ASSUME NEW k \in 1..(c + 1)
      PROVE  SubSeq(pattern, cut[k - 1] + 1, cut[k] - 1) \in Seq(STRING)
  <2>1. k - 1 \in 0..(c + 1) /\ k \in 0..(c + 1)
    BY <1>3
  <2>2. PICK m, q : m = cut[k - 1] /\ q = cut[k]
    OBVIOUS
  <2>3. m \in 0..(Len(pattern) + 1) /\ q \in 0..(Len(pattern) + 1)
    BY <1>4, <2>1, <2>2
  <2>4. m + 1 \in 1..(Len(pattern) + 2) /\ q - 1 \in Int /\ q - 1 <= Len(pattern)
    BY <1>1, <2>3
  <2>5. SubSeq(pattern, m + 1, q - 1) \in Seq(STRING)
    BY <1>1, <2>4
  <2> QED
    BY <2>2, <2>5
<1>7. Split(pattern) \in Seq(Seq(STRING)) /\ Len(Split(pattern)) = c + 1
  BY <1>3, <1>5, <1>6
<1>8. \A i \in 1..(c + 1) : Split(pattern)[i] \in Seq(STRING)
  BY <1>5, <1>6
<1>9. DOMAIN Split(pattern) = 1..(c + 1)
  BY <1>5
<1>10. c + 1 \in Nat \ {0}
  BY <1>3
<1> QED
  BY <1>7, <1>8, <1>9, <1>10

PartsOK(parts) ==
  Len(parts) \in Nat /\ \A i \in 1..Len(parts) : parts[i] \in Seq(STRING)

(* What matching part i from pos on may return as the position p after it: *)
(* 0, or the part lies before p, where matching stood or after it and      *)
(* within the value; the first part just where matching stood, the last    *)
(* one at the end of the value.                                            *)
Finds(parts, value, i, pos, p, a) ==
  /\ p \in 0..(Len(value) + 1)
  /\ p # 0 => /\ a \in pos..(Len(value) + 1) /\ a + Len(parts[i]) = p
              /\ SubSeq(value, a, a + Len(parts[i]) - 1) = parts[i]
              /\ i = 1 => a = pos
              /\ i # 1 /\ i = Len(parts) /\ parts[i] # << >> =>
                   a = Len(value) + 1 - Len(parts[i])

(* One turn of the loop: the part is found where the loop says it is.      *)
LEMMA MatchPartFinds ==
  ASSUME NEW parts, PartsOK(parts), NEW value \in Seq(STRING),
         NEW i \in 1..Len(parts), NEW pos \in 1..(Len(value) + 1)
  PROVE  Finds(parts, value, i, pos, MatchPart(parts, value, i, pos),
               MatchPart(parts, value, i, pos) - Len(parts[i]))
<1>0. PICK p, a : /\ p = MatchPart(parts, value, i, pos)
                  /\ a = MatchPart(parts, value, i, pos) - Len(parts[i])
  OBVIOUS
<1>0a. SUFFICES Finds(parts, value, i, pos, p, a)
  BY <1>0
<1>0b. parts[i] \in Seq(STRING) /\ Len(parts) \in Nat /\ a = p - Len(parts[i])
  BY <1>0 DEF PartsOK
<1>1. PICK l, m : l = Len(value) /\ m = Len(parts[i])
  OBVIOUS
<1>2. l \in Nat /\ m \in Nat
  BY <1>0b, <1>1, LenProperties
<1> DEFINE at == Occurrences(parts[i], value, pos)
<1>3. ASSUME NEW q \in at
      PROVE  /\ q \in Int /\ pos <= q /\ q + m <= l + 1
             /\ SubSeq(value, q, q + m - 1) = parts[i]
  BY <1>1, <1>2 DEF Occurrences
<1> HIDE DEF at
<1> DEFINE Found(q) == /\ q \in Int /\ pos <= q /\ q + m <= l + 1 /\ p = q + m
                       /\ SubSeq(value, q, q + m - 1) = parts[i]
                       /\ i = 1 => q = pos
                       /\ i # 1 /\ i = Len(parts) /\ parts[i] # << >> =>
                            q = l + 1 - m
<1>3a. SUFFICES p = 0 \/ \E q : Found(q)
  <2>1. ASSUME NEW q, Found(q)
        PROVE  /\ a = q /\ p \in 1..(l + 1)
               /\ a \in pos..(l + 1) /\ a + m = p
               /\ i # 1 /\ i = Len(parts) /\ parts[i] # << >> => a = l + 1 - m
               /\ i = 1 => a = pos
    BY <1>0b, <1>1, <1>2, <2>1
  <2>2. ASSUME NEW q, Found(q)
        PROVE  SubSeq(value, a, a + m - 1) = parts[i]
    BY <2>1, <2>2
  <2> HIDE DEF Found
  <2>3. CASE p = 0
    BY <1>1, <1>2, <2>3 DEF Finds
  <2>4. CASE \E q : Found(q)
    <3>1. PICK q : Found(q)
      BY <2>4
    <3>2. p \in 0..(l + 1)
      BY <1>2, <2>1, <3>1
    <3> QED
      BY <1>1, <2>1, <2>2, <3>1, <3>2 DEF Finds
  <2> QED
    BY <2>3, <2>4
<1>4. CASE parts[i] = << >>
  <2>1. p = pos /\ m = 0
    BY <1>0, <1>0b, <1>1, <1>4 DEF MatchPart
  <2>2. SubSeq(value, pos, pos + m - 1) = << >>
    BY <1>1, <1>2, <2>1
  <2>3. Found(pos)
    BY <1>1, <1>2, <1>4, <2>1, <2>2
  <2> QED
    BY <2>3
<1>5. CASE parts[i] # << >> /\ i = 1
  <2>1. p = IF pos \in at THEN pos + m ELSE 0
    BY <1>0, <1>1, <1>5 DEF MatchPart, at
  <2>2. CASE pos \in at
    <3>1. Found(pos)
      BY <1>3, <1>5, <2>1, <2>2
    <3> QED
      BY <3>1
  <2> QED
    BY <2>1, <2>2
<1>6. CASE parts[i] # << >> /\ i # 1 /\ i = Len(parts)
  <2>1. p = IF l - m + 1 \in at THEN l + 1 ELSE 0
    BY <1>0, <1>1, <1>6 DEF MatchPart, at
  <2>2. CASE l - m + 1 \in at
    <3>1. PICK q \in at : q = l - m + 1
      BY <2>2
    <3>2. q = l + 1 - m /\ p = q + m
      BY <1>2, <2>1, <2>2, <3>1
    <3>3. Found(q)
      BY <1>3, <1>6, <3>2
    <3> QED
      BY <3>3
  <2> QED
    BY <2>1, <2>2
<1>7. CASE parts[i] # << >> /\ i # 1 /\ i # Len(parts)
  <2>1. p = IF at = {} THEN 0 ELSE Least(at) + m
    BY <1>0, <1>1, <1>7 DEF MatchPart, at
  <2>2. CASE at # {}
    <3>1. at \in SUBSET Nat
      BY <1>3
    <3>2. Least(at) \in at
      BY <2>2, <3>1, LeastExists DEF Least
    <3>3. Found(Least(at))
      BY <1>3, <1>7, <2>1, <2>2, <3>2
    <3> QED
      BY <3>3
  <2> QED
    BY <2>1, <2>2
<1> QED
  BY <1>4, <1>5, <1>6, <1>7

(* The loop of pattern_matches: positions in the value or 0, each from the *)
(* one before it.                                                          *)
LEMMA PositionsLoop ==
  ASSUME NEW parts, PartsOK(parts), NEW value \in Seq(STRING)
  PROVE  /\ Positions(parts, value) \in [0..Len(parts) -> 0..(Len(value) + 1)]
         /\ Positions(parts, value)[0] = 1
         /\ \A i \in 1..Len(parts) :
              Positions(parts, value)[i] =
                IF Positions(parts, value)[i - 1] = 0 THEN 0
                ELSE MatchPart(parts, value, i, Positions(parts, value)[i - 1])
<1>0. PICK n \in Nat : n = Len(parts)
  BY DEF PartsOK
<1>1. PICK V : n = Len(parts) /\ V = 0..(Len(value) + 1)
  BY <1>0
<1>2. 1 \in V /\ 0 \in V
  BY <1>1, LenProperties
<1> DEFINE Step(i, p) == IF p = 0 THEN 0 ELSE MatchPart(parts, value, i, p)
           Body(f) == [i \in 0..n |-> IF i = 0 THEN 1 ELSE Step(i, f[i - 1])]
<1>3. ASSUME NEW i \in 1..n, NEW p \in V PROVE Step(i, p) \in V
  <2>1. CASE p = 0
    BY <1>2, <2>1
  <2>2. CASE p # 0
    <3>1. p \in 1..(Len(value) + 1)
      BY <1>1, <2>2, LenProperties
    <3>2. MatchPart(parts, value, i, p) \in 0..(Len(value) + 1)
      BY <1>1, <3>1, MatchPartFinds DEF Finds
    <3> QED
      BY <1>1, <2>2, <3>2
  <2> QED
    BY <2>1, <2>2
<1> HIDE DEF Step
<1>4. \E f \in [0..n -> V] : f = Body(f)
  <2> DEFINE G == [i \in 1..n |-> [p \in V |-> Step(i, p)]]
  <2>1. G \in [1..n -> [V -> V]]
    BY <1>3
  <2>1a. PICK one \in V : one = 1
    BY <1>2
  <2>1b. \E f : Loop(f, G, n, V, one)
    <3>1. Stepping(G, n, V)
      BY <2>1 DEF Stepping
    <3> HIDE DEF G
    <3> QED
      BY <3>1, LoopExists, Zenon
  <2>2. PICK f \in [0..n -> V] : f[0] = one /\ \A i \in 1..n : f[i] = G[i][f[i - 1]]
    BY <2>1b DEF Loop
  <2>3. ASSUME NEW i \in 0..n PROVE f[i] = IF i = 0 THEN 1 ELSE Step(i, f[i - 1])
    <3>1. CASE i = 0
      BY <2>2, <2>1a, <3>1
    <3>2. CASE i # 0
      <4>1. i \in 1..n /\ i - 1 \in 0..n
        BY <3>2
      <4>2. f[i - 1] \in V
        BY <4>1
      <4> QED
        BY <2>2, <3>2, <4>1, <4>2
    <3> QED
      BY <3>1, <3>2
  <2>4. f = Body(f)
    BY <2>3
  <2> QED
    BY <2>4
<1>5. Positions(parts, value) = CHOOSE f : f = Body(f)
  BY <1>1 DEF Positions, Step
<1>6. PICK f : f = Positions(parts, value) /\ f = Body(f)
  <2> HIDE DEF Body
  <2> QED
    BY <1>4, <1>5
<1>7. f[0] = 1 /\ \A i \in 1..n : f[i] = Step(i, f[i - 1])
  BY <1>6
<1>8. \A i \in 0..n : f[i] \in V
  <2> DEFINE T == {i \in Nat : i <= n /\ f[i] \notin V}
  <2>1. SUFFICES ASSUME T # {} PROVE FALSE
    OBVIOUS
  <2>2. PICK t \in T : \A y \in T : t <= y
    <3>1. T \in SUBSET Nat
      OBVIOUS
    <3> HIDE DEF T
    <3> QED
      BY <2>1, <3>1, LeastExists
  <2>3. t # 0
    BY <1>2, <1>7
  <2>4. t \in 1..n /\ t - 1 \in Nat /\ t - 1 <= n /\ ~(t <= t - 1)
    BY <2>3
  <2>5. f[t - 1] \in V
    BY <2>2, <2>4
  <2> QED
    BY <1>3, <1>7, <2>4, <2>5
<1>9. f \in [0..n -> V]
  BY <1>6, <1>8
<1> QED
  BY <1>1, <1>6, <1>7, <1>9 DEF Step

(* Matching that ends somewhere never was lost on the way.                 *)
LEMMA NeverLost ==
  ASSUME NEW parts, PartsOK(parts), NEW value \in Seq(STRING),
         Positions(parts, value)[Len(parts)] # 0
  PROVE  \A i \in 0..Len(parts) : Positions(parts, value)[i] # 0
<1>0. PICK n \in Nat : n = Len(parts)
  BY DEF PartsOK
<1>1. PICK f : n = Len(parts) /\ f = Positions(parts, value)
  BY <1>0
<1>2. /\ f[0] = 1
      /\ \A i \in 1..n : f[i] = IF f[i - 1] = 0 THEN 0
                               ELSE MatchPart(parts, value, i, f[i - 1])
  BY <1>1, PositionsLoop
<1> DEFINE T == {i \in 1..n : f[i] = 0}
<1>3. SUFFICES ASSUME T # {} PROVE FALSE
  BY <1>1, <1>2
<1>4. PICK t \in T : \A j \in T : j <= t
  <2>1. T \in SUBSET (1..n)
    OBVIOUS
  <2> HIDE DEF T
  <2> QED
    BY <1>3, <2>1, LastExists
<1>5. t # n
  BY <1>1
<1>6. t + 1 \in 1..n /\ (t + 1) - 1 = t /\ ~(t + 1 <= t)
  BY <1>5
<1>7. f[t + 1] = 0
  BY <1>2, <1>6
<1> QED
  BY <1>4, <1>6, <1>7

(* pattern_matches accepts only names that the pattern means, for every    *)
(* pattern and name: matching greedily loses no constraint.                *)
THEOREM PatternsMean ==
  ASSUME NEW pattern \in Seq(STRING), NEW value \in Seq(STRING),
         PatternMatches(pattern, value)
  PROVE  GlobMeans(pattern, value)
<1>1. PICK parts, n, l : /\ parts = Split(pattern) /\ n = Len(parts)
                         /\ l = Len(value)
  OBVIOUS
<1>2. n \in Nat \ {0} /\ l \in Nat /\ PartsOK(parts)
  BY <1>1, SplitParts, LenProperties DEF PartsOK
<1>3. CASE n = 1
  BY <1>1, <1>3 DEF PatternMatches, GlobMeans
<1>4. CASE n # 1
  <2>1. PICK f : f = Positions(parts, value)
    OBVIOUS
  <2>2. f[n] # 0
    BY <1>1, <1>4, <2>1 DEF PatternMatches
  <2>3. /\ f \in [0..n -> 0..(l + 1)] /\ f[0] = 1
        /\ \A i \in 1..n : f[i] = IF f[i - 1] = 0 THEN 0
                                 ELSE MatchPart(parts, value, i, f[i - 1])
    BY <1>1, <1>2, <2>1, PositionsLoop
  <2>4. \A i \in 0..n : f[i] # 0
    BY <1>1, <1>2, <2>1, <2>2, NeverLost
  <2>5. \A i \in 0..n : f[i] \in 1..(l + 1)
    BY <1>2, <2>3, <2>4
  <2>6. \A i \in 1..n : Len(parts[i]) \in Nat /\ parts[i] \in Seq(STRING)
    BY <1>1, <1>2, LenProperties DEF PartsOK
  <2>7. ASSUME NEW i \in 1..n
        PROVE  Finds(parts, value, i, f[i - 1], f[i], f[i] - Len(parts[i]))
    <3>1. i - 1 \in 0..n
      BY <1>2
    <3>2. f[i] = MatchPart(parts, value, i, f[i - 1]) /\ f[i - 1] \in 1..(l + 1)
      BY <2>3, <2>4, <2>5, <3>1
    <3>3. i \in 1..Len(parts) /\ f[i - 1] \in 1..(Len(value) + 1)
      BY <1>1, <3>2
    <3>4. Finds(parts, value, i, f[i - 1], MatchPart(parts, value, i, f[i - 1]),
                MatchPart(parts, value, i, f[i - 1]) - Len(parts[i]))
      BY <1>2, <3>3, MatchPartFinds
    <3> QED
      BY <3>2, <3>4
  <2>8. ASSUME NEW i \in 1..n
        PROVE  /\ f[i - 1] <= f[i] - Len(parts[i]) /\ f[i - 1] \in 1..(l + 1)
               /\ f[i] - Len(parts[i]) \in 1..(l + 1)
               /\ SubSeq(value, f[i] - Len(parts[i]),
                         f[i] - Len(parts[i]) + Len(parts[i]) - 1) = parts[i]
               /\ i = 1 => f[i] - Len(parts[i]) = 1
               /\ i = n /\ parts[i] # << >> =>
                    f[i] - Len(parts[i]) = l + 1 - Len(parts[i])
    <3>1. PICK p, q, a, m : /\ p = f[i - 1] /\ q = f[i] /\ m = Len(parts[i])
                            /\ a = f[i] - Len(parts[i])
      OBVIOUS
    <3>2. i - 1 \in 0..n /\ i \in 0..n
      BY <1>2
    <3>3. p \in 1..(l + 1) /\ q \in 1..(l + 1) /\ q # 0
      BY <1>2, <2>5, <3>1, <3>2
    <3>4. Finds(parts, value, i, p, q, a)
      BY <2>7, <3>1
    <3>5. /\ a \in p..(l + 1)
          /\ SubSeq(value, a, a + m - 1) = parts[i]
          /\ i = 1 => a = p
          /\ i # 1 /\ i = n /\ parts[i] # << >> => a = l + 1 - m
      BY <1>1, <3>1, <3>3, <3>4 DEF Finds
    <3>6. p <= a /\ a \in 1..(l + 1)
      BY <1>2, <3>3, <3>5
    <3>7. i = 1 => p = 1
      BY <2>3, <3>1
    <3> QED
      BY <1>4, <3>1, <3>3, <3>5, <3>6, <3>7
  <2> DEFINE at == [i \in 1..n |-> IF i = n THEN l + 1 - Len(parts[n])
                                   ELSE f[i] - Len(parts[i])]
  <2>9. n \in 1..n /\ 1 \in 1..n /\ n - 1 \in 1..n
    BY <1>2, <1>4
  <2>10. /\ f[n - 1] <= at[n] /\ at[n] \in 1..(l + 1)
         /\ SubSeq(value, at[n], at[n] + Len(parts[n]) - 1) = parts[n]
    <3>1. CASE parts[n] # << >>
      <4>1. at[n] = f[n] - Len(parts[n])
        BY <2>8, <2>9, <3>1
      <4> HIDE DEF at
      <4> QED
        BY <2>8, <2>9, <4>1
    <3>2. CASE parts[n] = << >>
      <4>1. Len(parts[n]) = 0 /\ at[n] = l + 1
        BY <1>2, <2>9, <3>2
      <4>2. f[n - 1] \in 1..(l + 1)
        BY <2>8, <2>9
      <4>3. SubSeq(value, l + 1, l + 1 + 0 - 1) = << >>
        BY <1>1, <1>2
      <4> HIDE DEF at
      <4> QED
        BY <1>2, <3>2, <4>1, <4>2, <4>3
    <3> QED
      BY <3>1, <3>2
  <2>11. \A i \in 1..n : i # n => at[i] = f[i] - Len(parts[i])
    OBVIOUS
  <2>12. at[n] = l + 1 - Len(parts[n])
    BY <2>9
  <2>13. DOMAIN at = 1..n /\ at = [i \in 1..n |-> at[i]]
    OBVIOUS
  <2> HIDE DEF at
  <2>14. at \in [1..n -> 1..(l + 1)]
    BY <2>8, <2>10, <2>11, <2>13
  <2>15. at[1] = 1
    BY <1>4, <2>8, <2>9, <2>11
  <2>16. \A i \in 1..n : SubSeq(value, at[i], at[i] + Len(parts[i]) - 1) = parts[i]
    BY <2>8, <2>10, <2>11
  <2>17. ASSUME NEW i \in 1..(n - 1) PROVE at[i] + Len(parts[i]) <= at[i + 1]
    <3>1. i \in 1..n /\ i # n /\ i + 1 \in 1..n /\ (i + 1) - 1 = i
      BY <1>2
    <3>2. at[i] + Len(parts[i]) = f[i]
      <4>1. f[i] \in Nat /\ Len(parts[i]) \in Nat
        BY <1>2, <2>5, <2>6, <3>1
      <4> QED
        BY <2>11, <3>1, <4>1
    <3>3. f[i] <= at[i + 1]
      <4>1. CASE i + 1 = n
        <5>1. n - 1 = i
          BY <3>1, <4>1
        <5> QED
          BY <2>10, <4>1, <5>1
      <4>2. CASE i + 1 # n
        BY <2>8, <2>11, <3>1, <4>2
      <4> QED
        BY <4>1, <4>2
    <3> QED
      BY <3>2, <3>3
  <2> QED
    BY <1>1, <1>4, <2>12, <2>14, <2>15, <2>16, <2>17 DEF GlobMeans
<1> QED
  BY <1>3, <1>4

-----------------------------------------------------------------------------
(* Roles.                                                                  *)

(* filter_targets_by_rbac keeps targets of the list that pass the check.   *)
LEMMA FilterKeeps ==
  ASSUME NEW auth, NEW rbac, NEW order, Len(order) \in Nat
  PROVE  \A k \in DOMAIN FilterTargets(auth, rbac, order) :
           \E i \in 1..Len(order) :
             /\ FilterTargets(auth, rbac, order)[k] = order[i]
             /\ CheckProvider(rbac, RolesOf(auth), IsAdmin(auth),
                              order[i].provider) = Ok
<1> DEFINE Allowed(t) == CheckProvider(rbac, RolesOf(auth), IsAdmin(auth),
                                       t.provider) = Ok
<1>0. PICK n \in Nat : n = Len(order)
  OBVIOUS
<1>1. PICK K, V :
        /\ n = Len(order)
        /\ K = {t \in {order[i] : i \in 1..Len(order)} : Allowed(t)}
        /\ V = Seq(K)
  BY <1>0
<1> DEFINE Step(i, s) == IF Allowed(order[i]) THEN Append(s, order[i]) ELSE s
           Body(f) == [i \in 0..n |-> IF i = 0 THEN << >> ELSE Step(i, f[i - 1])]
<1>2. << >> \in V
  BY <1>1
<1>3. ASSUME NEW i \in 1..n, NEW s \in V PROVE Step(i, s) \in V
  <2>1. CASE Allowed(order[i])
    <3>1. order[i] \in K
      BY <1>1, <2>1
    <3> HIDE DEF Allowed
    <3> QED
      BY <1>1, <2>1, <3>1
  <2>2. CASE ~Allowed(order[i])
    BY <2>2
  <2> QED
    BY <2>1, <2>2
<1>4. FilterTargets(auth, rbac, order) = (CHOOSE f : f = Body(f))[n]
  BY <1>1 DEF FilterTargets
<1> HIDE DEF Step
<1>5. \E f : f = Body(f)
  <2> DEFINE G == [i \in 1..n |-> [s \in V |-> Step(i, s)]]
  <2>1. Stepping(G, n, V)
    BY <1>3 DEF Stepping
  <2>2. \E f : Loop(f, G, n, V, << >>)
    <3>1. PICK none \in V : none = << >>
      BY <1>2
    <3> HIDE DEF G
    <3>2. \E f : Loop(f, G, n, V, none)
      BY <2>1, LoopExists, Zenon
    <3> QED
      BY <3>1, <3>2
  <2>3. PICK f \in [0..n -> V] :
          f[0] = << >> /\ \A i \in 1..n : f[i] = G[i][f[i - 1]]
    BY <2>2 DEF Loop
  <2>4. ASSUME NEW i \in 0..n
        PROVE  f[i] = IF i = 0 THEN << >> ELSE Step(i, f[i - 1])
    <3>1. CASE i = 0
      BY <2>3, <3>1
    <3>2. CASE i # 0
      <4>1. i \in 1..n /\ i - 1 \in 0..n
        BY <3>2
      <4>2. f[i - 1] \in V
        BY <4>1
      <4> QED
        BY <2>3, <3>2, <4>1, <4>2
    <3> QED
      BY <3>1, <3>2
  <2>5. f = Body(f)
    BY <2>4
  <2> QED
    BY <2>5
<1>6. PICK f : f = (CHOOSE g : g = Body(g)) /\ f = Body(f)
  <2> HIDE DEF Body
  <2> QED
    BY <1>5
<1>7. f[0] = << >> /\ \A i \in 1..n : f[i] = Step(i, f[i - 1])
  <2>1. Body(f)[0] = << >> /\ \A i \in 1..n : Body(f)[i] = Step(i, f[i - 1])
    OBVIOUS
  <2> HIDE DEF Body
  <2> QED
    BY <1>6, <2>1
<1>8. f[n] \in V
  <2> DEFINE T == {i \in Nat : i <= n /\ f[i] \notin V}
  <2>1. SUFFICES ASSUME T # {} PROVE FALSE
    OBVIOUS
  <2>2. PICK t \in T : \A y \in T : t <= y
    <3>1. T \in SUBSET Nat
      OBVIOUS
    <3> HIDE DEF T
    <3> QED
      BY <2>1, <3>1, LeastExists
  <2>3. t # 0
    BY <1>2, <1>7
  <2>4. t \in 1..n /\ t - 1 \in Nat /\ t - 1 <= n /\ ~(t <= t - 1)
    BY <2>3
  <2>5. f[t - 1] \in V
    BY <2>2, <2>4
  <2> QED
    BY <1>3, <1>7, <2>4, <2>5
<1>9. PICK left : left = FilterTargets(auth, rbac, order) /\ left = f[n]
  <2> HIDE DEF Body
  <2> QED
    BY <1>4, <1>6
<1>10. \A k \in DOMAIN left : left[k] \in K
  BY <1>1, <1>8, <1>9
<1> HIDE DEF Body
<1> QED
  BY <1>1, <1>9, <1>10

(* The roles that speak for a principal, as RolesGrant names them.         *)
Mine(rbac, roles) ==
  {r \in DOMAIN rbac.roles :
     \/ r \in roles
     \/ r = rbac.default_role /\ \A q \in roles : q \notin DOMAIN rbac.roles}

(* check_dimension passes only what a role of the principal grants.        *)
LEMMA DimensionGrants ==
  ASSUME NEW config \in Configs, NEW roles, NEW value \in Seq(STRING),
         NEW dim \in {"models", "providers"}, NEW denial, denial # Ok,
         config.rbac.enabled,
         CheckDimension(config.rbac, roles, FALSE, value, dim, denial) = Ok
  PROVE  RoleGrants(config.rbac, roles, dim, value)
<1>1. PICK rbac, table : rbac = config.rbac /\ table = config.rbac.roles
  OBVIOUS
<1> DEFINE matched == roles \cap DOMAIN table
           named == IF matched = {} THEN {rbac.default_role} \cap DOMAIN table
                                    ELSE matched
           policies == {table[r] : r \in named}
           lists == {table[r][dim] : r \in named}
           policy == EffectivePolicy(rbac, roles)
<1>2. named = Mine(rbac, roles) /\ named \subseteq DOMAIN table
  BY <1>1 DEF Mine
<1>3. policy # None /\ (policy[dim] # None => AnyMatch(policy[dim], value))
  BY <1>1 DEF CheckDimension, Ok
<1>4. policy = IF policies = {} THEN None
               ELSE [models |-> MergeDimension({p.models : p \in policies}),
                     providers |-> MergeDimension({p.providers : p \in policies})]
  BY <1>1 DEF EffectivePolicy
<1>5. /\ {p.models : p \in policies} = {table[r]["models"] : r \in named}
      /\ {p.providers : p \in policies} = {table[r]["providers"] : r \in named}
  <2> HIDE DEF named
  <2> QED
    OBVIOUS
<1> HIDE DEF named, policies, policy
<1>6. policy[dim] = MergeDimension(lists)
  <2>1. policy = [models |-> MergeDimension({table[r]["models"] : r \in named}),
                  providers |-> MergeDimension({table[r]["providers"] : r \in named})]
    BY <1>3, <1>4, <1>5
  <2>2. CASE dim = "models"
    BY <2>1, <2>2
  <2>3. CASE dim = "providers"
    BY <2>1, <2>3
  <2> QED
    BY <2>2, <2>3
<1>7. CASE None \in lists
  <2>1. PICK r \in named : table[r][dim] = None
    BY <1>7
  <2> QED
    BY <1>1, <1>2, <2>1 DEF RoleGrants, Mine
<1>8. CASE None \notin lists
  <2>1. policy[dim] = UNION lists
    BY <1>6, <1>8 DEF MergeDimension
  <2>2. lists \in SUBSET {table[r][dim] : r \in DOMAIN table}
    BY <1>2
  <2>3. UNION lists # None
    <3> HIDE DEF lists
    <3> QED
      BY <1>1, <1>8, <2>2, PatternAssumption
  <2>4. PICK p \in UNION lists : PatternMatches(p, value)
    BY <1>3, <2>1, <2>3 DEF AnyMatch
  <2>5. PICK r \in named : p \in table[r][dim]
    BY <2>4
  <2>6. table[r][dim] # None /\ r \in DOMAIN table
    BY <1>2, <1>8
  <2>7. p \in Seq(STRING)
    BY <1>1, <2>5, <2>6, PatternAssumption
  <2>8. GlobMeans(p, value)
    BY <2>4, <2>7, PatternsMean
  <2> QED
    BY <1>1, <1>2, <2>5, <2>8 DEF RoleGrants, Mine
<1> QED
  BY <1>7, <1>8

-----------------------------------------------------------------------------
(* Organisations and teams.                                                *)

(* The first error of a list of verdicts is Ok only when all of them are.  *)
LEMMA FirstErrorOk ==
  ASSUME NEW verdicts, DOMAIN verdicts \in SUBSET Nat
  PROVE  FirstError(verdicts) = Ok <=> \A i \in DOMAIN verdicts : verdicts[i] = Ok
<1> DEFINE failed == {i \in DOMAIN verdicts : verdicts[i] # Ok}
<1>1. CASE failed = {}
  BY <1>1 DEF FirstError
<1>2. CASE failed # {}
  <2>1. failed \in SUBSET Nat
    OBVIOUS
  <2>2. Least(failed) \in failed
    <3> HIDE DEF failed
    <3> QED
      BY <1>2, <2>1, LeastExists DEF Least
  <2>3. FirstError(verdicts) = verdicts[Least(failed)]
    BY <1>2 DEF FirstError
  <2> QED
    BY <2>2, <2>3
<1> QED
  BY <1>1, <1>2

(* What one scope of the chain lets pass.                                  *)
Permits(scope, request) ==
  /\ ListVerdict(scope, request) = Ok /\ GuardVerdict(scope, request) = Ok
  /\ ~Exceeds(request.max_tokens, scope.token_budget)

(* The policy checks pass exactly when every scope of the chain lets the   *)
(* request pass and the roles allow the model.                             *)
LEMMA VerdictOk ==
  ASSUME NEW auth, auth # None, NEW config, NEW request,
         NEW n \in Nat, NEW chain,
         chain = Scopes(config.orgs, auth.org, auth.team), DOMAIN chain = 1..n
  PROVE  PolicyVerdict(auth, config, request) = Ok <=>
           /\ \A i \in 1..n : Permits(chain[i], request)
           /\ CheckRbacModel(auth, config.rbac, request.model) = Ok
<1>1. PICK b, g, r : /\ b = CheckTokenBudgets(auth, config.orgs, request)
                     /\ g = CheckOrgGuardrails(auth, config.orgs, request)
                     /\ r = CheckRbacModel(auth, config.rbac, request.model)
  OBVIOUS
<1>2. PolicyVerdict(auth, config, request) = Ok <=> b = Ok /\ g = Ok /\ r = Ok
  <2>1. PICK v : v = <<b, g, r>>
    OBVIOUS
  <2>2. DOMAIN v = 1..3 /\ v[1] = b /\ v[2] = g /\ v[3] = r
    BY <2>1
  <2>3. FirstError(v) = Ok <=> \A i \in 1..3 : v[i] = Ok
    BY <2>2, FirstErrorOk
  <2>4. FirstError(v) = Ok <=> b = Ok /\ g = Ok /\ r = Ok
    BY <2>2, <2>3
  <2> QED
    BY <1>1, <2>1, <2>4 DEF PolicyVerdict
<1>3. b = Ok <=> \A i \in 1..n : ~Exceeds(request.max_tokens, chain[i].token_budget)
  <2>1. PICK v : v = [i \in 1..n |->
                        IF Exceeds(request.max_tokens, chain[i].token_budget)
                        THEN "budget_max_tokens" ELSE Ok]
    OBVIOUS
  <2>2. b = FirstError(v)
    BY <1>1, <2>1 DEF CheckTokenBudgets
  <2>3. FirstError(v) = Ok <=> \A i \in 1..n : v[i] = Ok
    BY <2>1, FirstErrorOk
  <2>4. \A i \in 1..n :
          v[i] = Ok <=> ~Exceeds(request.max_tokens, chain[i].token_budget)
    BY <2>1 DEF Ok
  <2> QED
    BY <2>2, <2>3, <2>4
<1>4. g = Ok <=> \A i \in 1..n : /\ ListVerdict(chain[i], request) = Ok
                                /\ GuardVerdict(chain[i], request) = Ok
  <2>1. PICK v, w, x : /\ v = [i \in 1..n |-> ListVerdict(chain[i], request)]
                       /\ w = [i \in 1..n |-> GuardVerdict(chain[i], request)]
                       /\ x = v \o w
    OBVIOUS
  <2>2. g = FirstError(x)
    BY <1>1, <2>1 DEF CheckOrgGuardrails
  <2> DEFINE S == {ListVerdict(chain[i], request) : i \in 1..n}
                  \cup {GuardVerdict(chain[i], request) : i \in 1..n}
  <2>3. v \in Seq(S) /\ Len(v) = n /\ w \in Seq(S) /\ Len(w) = n
    <3>1. v \in [1..n -> S] /\ w \in [1..n -> S]
      BY <2>1
    <3> HIDE DEF S
    <3> QED
      BY <3>1
  <2> HIDE DEF S
  <2>4. /\ DOMAIN x = 1..(n + n)
        /\ \A i \in 1..(n + n) : x[i] = IF i <= n THEN v[i] ELSE w[i - n]
    BY <2>1, <2>3, ConcatProperties
  <2>5. FirstError(x) = Ok <=> \A i \in 1..(n + n) : x[i] = Ok
    BY <2>4, FirstErrorOk
  <2>6. (\A i \in 1..(n + n) : x[i] = Ok) <=>
          \A i \in 1..n : v[i] = Ok /\ w[i] = Ok
    <3>1. ASSUME \A i \in 1..(n + n) : x[i] = Ok, NEW i \in 1..n
          PROVE  v[i] = Ok /\ w[i] = Ok
      <4>1. i \in 1..(n + n) /\ i <= n /\ i + n \in 1..(n + n)
            /\ ~(i + n <= n) /\ (i + n) - n = i
        OBVIOUS
      <4> QED
        BY <2>4, <3>1, <4>1
    <3>2. ASSUME \A i \in 1..n : v[i] = Ok /\ w[i] = Ok, NEW i \in 1..(n + n)
          PROVE  x[i] = Ok
      <4>1. CASE i <= n
        BY <2>4, <3>2, <4>1
      <4>2. CASE ~(i <= n)
        <5>1. i - n \in 1..n
          BY <4>2
        <5> QED
          BY <2>4, <3>2, <4>2, <5>1
      <4> QED
        BY <4>1, <4>2
    <3> QED
      BY <3>1, <3>2
  <2>7. \A i \in 1..n : /\ v[i] = ListVerdict(chain[i], request)
                        /\ w[i] = GuardVerdict(chain[i], request)
    BY <2>1
  <2> QED
    BY <2>2, <2>5, <2>6, <2>7
<1> QED
  BY <1>1, <1>2, <1>3, <1>4 DEF Permits

(* One chain of scopes begins with another.                                *)
BeginsWith(long, short) ==
  \E n \in Nat, m \in Nat :
    /\ DOMAIN long = 1..n /\ DOMAIN short = 1..m /\ m <= n
    /\ \A i \in 1..m : short[i] = long[i]

(* The chain with a team begins with the chain without one.                *)
LEMMA ChainGrows ==
  ASSUME NEW config \in Configs, NEW org, NEW team
  PROVE  BeginsWith(Scopes(config.orgs, org, team), Scopes(config.orgs, org, None))
<1> DEFINE orgs == config.orgs
<1>1. CASE org \notin DOMAIN orgs
  <2>1. Scopes(orgs, org, team) = << >> /\ Scopes(orgs, org, None) = << >>
    BY <1>1 DEF Scopes
  <2>2. DOMAIN << >> = 1..0
    OBVIOUS
  <2> QED
    BY <2>1, <2>2 DEF BeginsWith
<1>2. CASE org \in DOMAIN orgs
  <2>1. PICK a, t, b : /\ a = ScopeRecord("org", orgs[org])
                       /\ t = orgs[org].teams
                       /\ b = ScopeRecord("team", orgs[org].teams[team])
    OBVIOUS
  <2>2. PICK x, y : x = <<a>> \o << >> /\ y = <<a>> \o <<b>>
    OBVIOUS
  <2>3. DOMAIN x = 1..1 /\ x[1] = a /\ DOMAIN y = 1..2 /\ y[1] = a
    <3>1. PICK S : S = {a, b}
      OBVIOUS
    <3>2. <<a>> \in Seq(S) /\ <<b>> \in Seq(S) /\ << >> \in Seq(S)
      BY <3>1
    <3> QED
      BY <2>2, <3>2, ConcatProperties
  <2>4. Scopes(orgs, org, None) = x
    BY <1>2, <2>1, <2>2, OptionAssumption DEF Scopes
  <2>5. Scopes(orgs, org, team) \in {x, y}
    BY <1>2, <2>1, <2>2 DEF Scopes
  <2>6. CASE Scopes(orgs, org, team) = x
    BY <2>3, <2>4, <2>6 DEF BeginsWith
  <2>7. CASE Scopes(orgs, org, team) = y
    BY <2>3, <2>4, <2>7 DEF BeginsWith
  <2> QED
    BY <2>5, <2>6, <2>7
<1> QED
  BY <1>1, <1>2

-----------------------------------------------------------------------------
(* The inductive invariant.                                                *)

Fields == {"pc", "route", "token", "ctx", "code", "audited", "via", "asked",
           "from", "remote_ip"}

(* What the process holds follows from the environment it was started in:  *)
(* nothing while it is not up, keys of an issuer only when one is set, and *)
(* the login secret of this very start exactly when a password is set.     *)
ProcessOK ==
  /\ boot \in Nat
  /\ status \in {"down", "up", "refused"}
  /\ status # "up" =>
       jwks = None /\ fetched = None /\ secret = None /\ req = Idle
  /\ jwks # None \/ fetched # None => env.issuer
  /\ fetched # None => jwks # None
  /\ secret # None => env.password /\ secret = boot
  /\ status = "up" /\ env.password => secret # None

(* By right, or through a gateway that was left open.                      *)
MayEnter(r) == (r.via = "bypass" /\ LeftOpen) \/ EntitledAdmin(r)

(* Who was let in is a principal that may do what it will be allowed.      *)
Admitted(r) ==
  /\ r.ctx \in Principals
  /\ r.ctx.scope = "admin" => MayEnter(r)
  /\ r.via \notin {"bypass", "login"} /\ env.required_roles # {} =>
       r.ctx.roles \cap env.required_roles # {}

(* What is known of a request at each point of its way.                    *)
Waiting(r) ==
  r.pc \in {"idle", "auth", "store", "login"} =>
    r.ctx = None /\ r.asked = None /\ r.from = None /\ ~r.audited

Genuine(r) ==
  r.pc = "auth" /\ r.token # None /\ r.token.kind = "oidc" =>
    r.token.claims \in ClaimSets

Routed(r) ==
  r.pc = "route" =>
    r.ctx # None /\ r.asked = None /\ r.from = None /\ ~r.audited

(* The policy let the request pass under the configuration it read.        *)
Checked(r) ==
  /\ r.asked.config \in Configs /\ r.asked.chat \in ChatRequests
  /\ r.asked.verdict = PolicyVerdict(r.ctx, r.asked.config, r.asked.chat)
  /\ DOMAIN r.asked = {"config", "chat", "verdict", "served"}

Selecting(r) ==
  r.pc = "select" =>
    /\ r.ctx # None /\ r.from = None /\ ~r.audited /\ r.route = "api"
    /\ Checked(r) /\ r.asked.verdict = Ok

Answered(r) ==
  r.pc = "done" =>
    /\ r.route = "admin" /\ r.code = 200 => r.ctx # None /\ r.ctx.scope = "admin"
    /\ r.audited <=> (r.code = 401 \/ (r.code = 403 /\ r.ctx = None))

Located(r) ==
  r.from # None => \/ r.remote_ip = r.from.peer
                   \/ /\ Internal(r.from.peer)
                      /\ r.remote_ip # "junk" /\ ~Internal(r.remote_ip)

Decided(r) ==
  r.asked # None =>
    /\ r.ctx # None /\ Checked(r)
    /\ r.code = 200 =>
         /\ r.asked.verdict = Ok
         /\ \E config \in Configs, order \in TargetOrders :
              /\ r.asked.served.rbac = config.rbac
              /\ r.asked.served.left = FilterTargets(r.ctx, config.rbac, order)

RequestOK(r) ==
  /\ DOMAIN r = Fields
  /\ r.pc = "login" => r.route = "login"
  /\ Waiting(r) /\ Genuine(r) /\ Routed(r) /\ Selecting(r) /\ Answered(r) /\ Located(r)
  /\ Decided(r)
  /\ r.ctx # None => Admitted(r)

AccessInv == ProcessOK /\ RequestOK(req)

-----------------------------------------------------------------------------
(* Client addresses.                                                       *)

(* resolve_remote_ip: a header is believed only when an internal peer sent *)
(* it, and only for the public addresses in it.                            *)
LEMMA ResolvedSound ==
  ASSUME NEW p \in Peers
  PROVE  \/ ResolveRemoteIp(p) = p.peer
         \/ /\ Internal(p.peer)
            /\ ResolveRemoteIp(p) # "junk" /\ ~Internal(ResolveRemoteIp(p))
<1> DEFINE public == {i \in DOMAIN p.forwarded :
                        p.forwarded[i] # "junk" /\ ~Internal(p.forwarded[i])}
<1>1. SUFFICES ASSUME Internal(p.peer), TrustedProxyIp(p) # None
               PROVE  TrustedProxyIp(p) # "junk" /\ ~Internal(TrustedProxyIp(p))
  BY DEF ResolveRemoteIp
<1>2. CASE public # {}
  <2>1. PICK n \in Nat : DOMAIN p.forwarded = 1..n
    BY OptionAssumption, LenProperties
  <2>2. \E i \in public : \A j \in public : j <= i
    BY <1>2, <2>1, LastExists
  <2>3. TrustedProxyIp(p)
          = p.forwarded[CHOOSE i \in public : \A j \in public : j <= i]
    BY <1>2 DEF TrustedProxyIp
  <2> QED
    BY <2>2, <2>3
<1>3. CASE public = {}
  BY <1>1, <1>3 DEF TrustedProxyIp
<1> QED
  BY <1>2, <1>3

-----------------------------------------------------------------------------
(* The request before it arrives: nothing is known of it.                  *)

LEMMA IdleFields ==
  /\ DOMAIN Idle = Fields
  /\ Idle.pc = "idle" /\ Idle.ctx = None /\ Idle.asked = None
  /\ Idle.from = None /\ Idle.audited = FALSE
  BY DEF Idle, Fields

(* The request before it arrives meets the invariant.                      *)
LEMMA IdleOK == RequestOK(Idle)
  BY IdleFields DEF RequestOK, Waiting, Genuine, Routed, Selecting, Answered, Located, Decided

(* A request is judged by the environment and the start of the process.    *)
LEMMA RequestStays ==
  ASSUME RequestOK(req'), env' = env, boot' = boot, jwks = None => jwks' = None
  PROVE  RequestOK(req)'
  BY DEF RequestOK, Waiting, Genuine, Routed, Selecting, Answered, Located, Decided, Checked,
         Admitted, MayEnter, LeftOpen, EntitledAdmin

-----------------------------------------------------------------------------
(* The initial states and the steps of the process.                        *)

LEMMA InvInit == Init => AccessInv
  BY IdleOK DEF Init, AccessInv, ProcessOK

(* main: what a start builds follows from its environment.                 *)
LEMMA StartOK ==
  ASSUME AccessInv, Start
  PROVE  AccessInv'
<1>1. /\ status # "up" /\ req = Idle /\ req' = Idle /\ fetched' = None
      /\ jwks = None /\ secret = None
  BY DEF AccessInv, ProcessOK, Start
<1>2. boot \in Nat /\ boot' = boot + 1 /\ boot' # None
  BY OptionAssumption DEF AccessInv, ProcessOK, Start
<1>3. RequestOK(req)'
  <2>1. /\ DOMAIN req' = Fields
        /\ req'.pc = "idle" /\ req'.ctx = None /\ req'.asked = None
        /\ req'.from = None /\ ~req'.audited
    BY <1>1, IdleFields
  <2> QED
    BY <2>1 DEF RequestOK, Waiting, Genuine, Routed, Selecting, Answered, Located, Decided
<1>4. CASE RefusesToStart(env')
  <2>1. status' = "refused" /\ jwks' = None /\ secret' = None
    BY <1>1, <1>4 DEF Start
  <2> QED
    BY <1>1, <1>2, <1>3, <2>1 DEF AccessInv, ProcessOK
<1>5. CASE ~RefusesToStart(env')
  <2>1. /\ status' = "up"
        /\ jwks' \in IF env'.issuer THEN {{idp}, None} ELSE {None}
        /\ secret' = IF env'.password THEN boot' ELSE None
    BY <1>5 DEF Start, NewSecret
  <2>2. jwks' # None => env'.issuer
    BY <2>1
  <2>3. secret' # None <=> env'.password
    BY <2>1, <1>2
  <2>4. secret' # None => secret' = boot'
    BY <2>1
  <2>5. status' = "up" /\ fetched' = None /\ boot' \in Nat
    BY <1>1, <1>2, <2>1
  <2>6. ProcessOK'
    BY <2>2, <2>3, <2>4, <2>5 DEF ProcessOK
  <2> QED
    BY <1>3, <2>6 DEF AccessInv
<1> QED
  BY <1>4, <1>5

(* A stop or crash: the process forgets what it held.                      *)
LEMMA StopOK ==
  ASSUME AccessInv, Stop
  PROVE  AccessInv'
<1>1. /\ status' = "down" /\ jwks' = None /\ fetched' = None
      /\ secret' = None /\ req' = Idle /\ boot' = boot
  BY DEF Stop
<1>2. /\ DOMAIN req' = Fields
      /\ req'.pc = "idle" /\ req'.ctx = None /\ req'.asked = None
      /\ req'.from = None /\ ~req'.audited
  BY <1>1, IdleFields
<1>3. RequestOK(req)'
  BY <1>2 DEF RequestOK, Waiting, Genuine, Routed, Selecting, Answered, Located, Decided
<1> QED
  BY <1>1, <1>3 DEF AccessInv, ProcessOK

(* The identity provider and the refresh task leave the request alone.     *)
LEMMA KeysOK ==
  ASSUME AccessInv, RotateKey \/ FetchJwks \/ StoreJwks
  PROVE  AccessInv'
<1>1. RequestOK(req') /\ env' = env /\ boot' = boot /\ (jwks = None => jwks' = None)
  BY DEF AccessInv, ProcessOK, RotateKey, FetchJwks, StoreJwks
<1>2. ProcessOK'
  BY DEF AccessInv, ProcessOK, RotateKey, FetchJwks, StoreJwks
<1> QED
  BY <1>1, <1>2, RequestStays DEF AccessInv

-----------------------------------------------------------------------------
(* The steps of a request.                                                 *)

LEMMA ProceedFields ==
  ASSUME DOMAIN req = Fields, NEW ctx, NEW via, Proceed(ctx, via)
  PROVE  /\ DOMAIN req' = Fields
         /\ req'.pc = "route" /\ req'.ctx = ctx /\ req'.via = via
         /\ req'.token = req.token /\ req'.route = req.route
         /\ req'.asked = req.asked /\ req'.from = req.from
         /\ req'.audited = req.audited
  BY DEF Proceed, Fields

(* A reply changes the answer and the record, not who was let in.          *)
LEMMA ReplyFields ==
  ASSUME DOMAIN req = Fields, NEW code, NEW audited, Reply(code, audited)
  PROVE  /\ DOMAIN req' = Fields
         /\ req'.pc = "done" /\ req'.code = code /\ req'.audited = audited
         /\ req'.ctx = req.ctx /\ req'.via = req.via
         /\ req'.token = req.token /\ req'.route = req.route
         /\ req'.asked = req.asked /\ req'.from = req.from
  BY DEF Reply, Fields

(* A principal that is entitled to what it may do is let in.               *)
LEMMA ProceedOK ==
  ASSUME RequestOK(req), req.pc \in {"auth", "store"},
         NEW ctx \in Principals, NEW via, Proceed(ctx, via),
         ctx.scope = "admin" => MayEnter(req'),
         via \notin {"bypass", "login"} /\ env.required_roles # {} =>
           ctx.roles \cap env.required_roles # {}
  PROVE  RequestOK(req')
<1>1. DOMAIN req = Fields /\ req.asked = None /\ req.from = None /\ ~req.audited
  BY DEF RequestOK, Waiting
<1>2. /\ DOMAIN req' = Fields
      /\ req'.pc = "route" /\ req'.ctx = ctx /\ req'.via = via
      /\ req'.asked = None /\ req'.from = None /\ ~req'.audited
  BY <1>1, ProceedFields
<1>3. ctx # None
  BY OptionAssumption
<1>4. Admitted(req')
  BY <1>2 DEF Admitted
<1> QED
  BY <1>2, <1>3, <1>4
  DEF RequestOK, Waiting, Genuine, Routed, Selecting, Answered, Located, Decided

(* A request is answered before anyone is let in.                          *)
LEMMA RefusedOK ==
  ASSUME RequestOK(req), req.pc \in {"auth", "store", "login"},
         NEW code, NEW audited, Reply(code, audited),
         \/ code \in {401, 403} /\ audited = TRUE
         \/ code \in {404, 500} /\ audited = FALSE
         \/ code = 200 /\ audited = FALSE /\ req.route = "login"
  PROVE  RequestOK(req')
<1>1. DOMAIN req = Fields /\ req.asked = None /\ req.from = None /\ req.ctx = None
  BY DEF RequestOK, Waiting
<1>2. /\ DOMAIN req' = Fields
      /\ req'.pc = "done" /\ req'.code = code /\ req'.audited = audited
      /\ req'.ctx = None /\ req'.asked = None /\ req'.from = None
      /\ req'.route = req.route
  BY <1>1, ReplyFields
<1> QED
  BY <1>2 DEF RequestOK, Waiting, Genuine, Routed, Selecting, Answered, Located, Decided

(* enforce_required_roles lets in who holds one of the roles.              *)
LEMMA GatedOK ==
  ASSUME RequestOK(req), req.pc \in {"auth", "store"},
         NEW ctx \in Principals, NEW via, Gated(ctx, via),
         ctx.scope = "admin" /\ req'.token = req.token /\ req'.ctx = ctx =>
           MayEnter(req')
  PROVE  RequestOK(req')
<1>1. CASE HasRequiredRole(ctx)
  <2>1. Proceed(ctx, via)
    BY <1>1 DEF Gated
  <2>2. req'.token = req.token /\ req'.ctx = ctx
    BY <2>1, ProceedFields DEF RequestOK
  <2>3. env.required_roles # {} => ctx.roles \cap env.required_roles # {}
    BY <1>1 DEF HasRequiredRole
  <2> QED
    BY <2>1, <2>2, <2>3, ProceedOK
<1>2. CASE ~HasRequiredRole(ctx)
  <2>1. Reply(403, TRUE)
    BY <1>2 DEF Gated
  <2> QED
    BY <2>1, RefusedOK
<1> QED
  BY <1>1, <1>2

(* into_auth_context gives the admin scope to the holders of an admin role *)
(* or of the admin scope only.                                             *)
LEMMA ClaimedAdmin ==
  ASSUME NEW claims, IntoAuthContext(claims).scope = "admin"
  PROVE  \/ "admin" \in claims.scope
         \/ \E role \in {"admin", "gateway-admin"} :
              role \in claims.roles \cup claims.project_roles
  BY DEF IntoAuthContext, Context, ClaimedRoles

(* An API key acts as admin only if its row has the scope.                 *)
LEMMA KeyAdmin ==
  ASSUME NEW row
  PROVE  /\ KeyContext(row).key = row.id
         /\ KeyContext(row).scope = "admin" => "admin" \in row.scopes
  BY DEF KeyContext, Context

(* The combined middleware, by the kind of token it is shown.              *)
LEMMA MiddlewareOK ==
  ASSUME AccessInv, Middleware
  PROVE  RequestOK(req')
<1> DEFINE token == req.token
<1>1. RequestOK(req) /\ req.pc = "auth" /\ DOMAIN req = Fields
  BY DEF AccessInv, Middleware, RequestOK
<1>2. status = "up"
  BY <1>1, IdleFields DEF AccessInv, ProcessOK
<1>3. CASE Bypass
  <2>1. Proceed(Anonymous, "bypass")
    BY <1>3 DEF Middleware
  <2>2. Anonymous \in Principals
    BY DEF Principals
  <2>3. req'.via = "bypass"
    BY <1>1, <2>1, ProceedFields
  <2>4. env.master_key = None /\ ~env.password /\ jwks = None
    BY <1>2, <1>3 DEF Bypass, AccessInv, ProcessOK
  <2>5. MayEnter(req')
    BY <2>3, <2>4 DEF MayEnter, LeftOpen, EntitledAdmin
  <2> QED
    BY <1>1, <2>1, <2>2, <2>5, ProceedOK
<1>4. CASE ~Bypass /\ token = None
  <2>1. Reply(401, TRUE)
    BY <1>4 DEF Middleware
  <2> QED
    BY <1>1, <2>1, RefusedOK
<1>5. CASE ~Bypass /\ token # None /\ LoginValid(token)
  <2>1. ~OidcValid(token)
    BY <1>5 DEF LoginValid, OidcValid
  <2>2. Proceed(IntoAuthContext(LoginClaims), "login")
    BY <1>5, <2>1 DEF Middleware
  <2>3. IntoAuthContext(LoginClaims) \in Principals
    BY DEF Principals
  <2>4. req'.token = token
    BY <1>1, <2>2, ProceedFields
  <2>5. token.kind = "login" /\ env.password /\ token.secret = boot
    BY <1>5 DEF LoginValid, AccessInv, ProcessOK
  <2>6. MayEnter(req')
    BY <2>4, <2>5 DEF MayEnter, EntitledAdmin
  <2> QED
    BY <1>1, <2>2, <2>3, <2>6, ProceedOK
<1>6. CASE ~Bypass /\ token # None /\ OidcValid(token)
  <2> DEFINE ctx == IntoAuthContext(token.claims)
  <2>1. ~LoginValid(token)
    BY <1>6 DEF LoginValid, OidcValid
  <2>2. Gated(ctx, "oidc")
    BY <1>6, <2>1 DEF Middleware
  <2>3. ctx \in Principals
    BY <1>1, <1>6 DEF Principals, AccessInv, RequestOK, Genuine, OidcValid
  <2>4. /\ token.kind = "oidc" /\ env.issuer
        /\ token.signed /\ token.fresh /\ token.for_us
    BY <1>6 DEF OidcValid, AccessInv, ProcessOK
  <2>5. ctx.scope = "admin" /\ req'.token = token /\ req'.ctx = ctx =>
          MayEnter(req')
    BY <2>4, ClaimedAdmin DEF MayEnter, EntitledAdmin
  <2> HIDE DEF ctx
  <2> QED
    BY <1>1, <2>2, <2>3, <2>5, GatedOK
<1>7. CASE /\ ~Bypass /\ token # None
           /\ ~LoginValid(token) /\ ~OidcValid(token)
  <2>1. req' = [req EXCEPT !.pc = "store"]
    BY <1>7 DEF Middleware
  <2>2. PICK q : q = req'
    OBVIOUS
  <2>3. /\ DOMAIN q = Fields /\ q.pc = "store" /\ q.ctx = req.ctx
        /\ q.asked = req.asked /\ q.from = req.from
        /\ q.audited = req.audited /\ q.token = req.token
    BY <1>1, <2>1, <2>2 DEF Fields
  <2>4. RequestOK(q)
    BY <1>1, <2>3
    DEF RequestOK, Waiting, Genuine, Routed, Selecting, Answered, Located, Decided
  <2> QED
    BY <2>2, <2>4
<1> QED
  BY <1>3, <1>4, <1>5, <1>6, <1>7

(* What is checked behind the middleware: master key, API key rows.        *)
LEMMA AuthenticateOK ==
  ASSUME AccessInv, Authenticate
  PROVE  RequestOK(req')
<1>1. RequestOK(req) /\ req.pc = "store" /\ DOMAIN req = Fields
  BY DEF AccessInv, Authenticate, RequestOK
<1>2. CASE req.token.kind = "master" /\ env.master_key # None
  <2>1. Gated(Master, "master") /\ Master \in Principals
    BY <1>2 DEF Authenticate, Principals
  <2>2. req'.token = req.token => MayEnter(req')
    BY <1>2 DEF MayEnter, EntitledAdmin
  <2> QED
    BY <1>1, <2>1, <2>2, GatedOK
<1>3. CASE Reply(401, TRUE) \/ Reply(500, FALSE)
  BY <1>1, <1>3, RefusedOK
<1>4. CASE /\ req.token.kind = "key"
           /\ \E row \in KeyRows : Gated(KeyContext(row), "key")
  <2>1. PICK row \in KeyRows : Gated(KeyContext(row), "key")
    BY <1>4
  <2>2. KeyContext(row) \in Principals
    BY DEF Principals
  <2>3. KeyContext(row).scope = "admin" /\ req'.token = req.token
          /\ req'.ctx = KeyContext(row) => MayEnter(req')
    BY <1>4, KeyAdmin DEF MayEnter, EntitledAdmin
  <2> QED
    BY <1>1, <2>1, <2>2, <2>3, GatedOK
<1> QED
  BY <1>2, <1>3, <1>4 DEF Authenticate

(* dev_admin_login.                                                        *)
LEMMA LoginOK ==
  ASSUME AccessInv, Login
  PROVE  RequestOK(req')
<1>1. /\ RequestOK(req) /\ req.pc = "login" /\ DOMAIN req = Fields
      /\ req.route = "login"
  BY DEF AccessInv, Login, RequestOK
<1>2. CASE Reply(404, FALSE) \/ Reply(200, FALSE)
  BY <1>1, <1>2, RefusedOK
<1>3. ASSUME NEW p \in Peers,
             req' = [req EXCEPT !.pc = "done", !.code = 401, !.audited = TRUE,
                                !.from = p, !.remote_ip = ResolveRemoteIp(p)]
      PROVE  RequestOK(req')
  <2>1. PICK q : q = req'
    OBVIOUS
  <2>2. PICK ip : ip = ResolveRemoteIp(p)
    OBVIOUS
  <2>3. /\ DOMAIN q = Fields /\ q.pc = "done" /\ q.code = 401
        /\ q.audited = TRUE /\ q.from = p /\ q.remote_ip = ip
        /\ q.ctx = req.ctx /\ q.asked = req.asked
    BY <1>1, <1>3, <2>1, <2>2 DEF Fields
  <2>4. q.ctx = None /\ q.asked = None
    BY <1>1, <2>3 DEF RequestOK, Waiting
  <2>5. Located(q)
    BY <2>2, <2>3, ResolvedSound DEF Located
  <2>6. RequestOK(q)
    BY <2>3, <2>4, <2>5
    DEF RequestOK, Waiting, Genuine, Routed, Selecting, Answered, Decided
  <2> QED
    BY <2>1, <2>6
<1> QED
  BY <1>2, <1>3 DEF Login

(* require_admin_scope in front of the admin routes.                       *)
LEMMA AdminRouteOK ==
  ASSUME AccessInv, AdminRoute
  PROVE  RequestOK(req')
<1>1. /\ RequestOK(req) /\ req.pc = "route" /\ DOMAIN req = Fields
      /\ req.ctx # None /\ req.asked = None /\ req.from = None
      /\ Admitted(req)
  BY DEF AccessInv, AdminRoute, RequestOK, Routed
<1>2. PICK code : code = IF req.ctx.scope = "admin" THEN 200 ELSE 403
  OBVIOUS
<1>3. Reply(code, FALSE)
  BY <1>2 DEF AdminRoute
<1>4. /\ DOMAIN req' = Fields
      /\ req'.pc = "done" /\ req'.code = code /\ req'.audited = FALSE
      /\ req'.ctx = req.ctx /\ req'.via = req.via
      /\ req'.token = req.token /\ req'.asked = None /\ req'.from = None
  BY <1>1, <1>3, ReplyFields
<1>5. Admitted(req')
  BY <1>1, <1>4 DEF Admitted, MayEnter, EntitledAdmin
<1>6. Answered(req')
  BY <1>1, <1>2, <1>4 DEF Answered
<1> QED
  BY <1>4, <1>5, <1>6
  DEF RequestOK, Waiting, Genuine, Routed, Selecting, Located, Decided

(* The policy checks, their verdict kept.                                  *)
LEMMA ApiRouteOK ==
  ASSUME AccessInv, ApiRoute
  PROVE  RequestOK(req')
<1>1. /\ RequestOK(req) /\ req.pc = "route" /\ DOMAIN req = Fields
      /\ req.ctx # None /\ req.from = None /\ ~req.audited
      /\ Admitted(req) /\ req.route = "api"
  BY DEF AccessInv, ApiRoute, RequestOK, Routed
<1>2. PICK config \in Configs, chat \in ChatRequests :
        req' = [req EXCEPT !.pc = IF PolicyVerdict(req.ctx, config, chat) = Ok
                                  THEN "select" ELSE "done",
                  !.code = IF PolicyVerdict(req.ctx, config, chat) = Ok THEN 0 ELSE 403,
                  !.asked = [config |-> config, chat |-> chat,
                             verdict |-> PolicyVerdict(req.ctx, config, chat),
                             served |-> None]]
  BY DEF ApiRoute
<1>3. PICK verdict, pc, code, asked, q :
        /\ verdict = PolicyVerdict(req.ctx, config, chat)
        /\ pc = (IF verdict = Ok THEN "select" ELSE "done")
        /\ code = (IF verdict = Ok THEN 0 ELSE 403)
        /\ asked = [config |-> config, chat |-> chat, verdict |-> verdict, served |-> None]
        /\ q = [req EXCEPT !.pc = pc, !.code = code, !.asked = asked]
  OBVIOUS
<1>4. req' = q
  BY <1>2, <1>3
<1>5. /\ DOMAIN q = Fields /\ q.pc = pc /\ q.code = code /\ q.asked = asked
      /\ q.route = req.route /\ q.ctx = req.ctx /\ q.via = req.via
      /\ q.token = req.token /\ q.from = req.from /\ q.audited = req.audited
  BY <1>1, <1>3 DEF Fields
<1>6. Admitted(q)
  BY <1>1, <1>5 DEF Admitted, MayEnter, EntitledAdmin
<1>7. pc \in {"select", "done"} /\ code \in {0, 403} /\ (pc = "select" => verdict = Ok)
      /\ (pc = "done" => code = 403)
  BY <1>3
<1>8. /\ asked.config = config /\ asked.chat = chat /\ asked.verdict = verdict
      /\ DOMAIN asked = {"config", "chat", "verdict", "served"}
  BY <1>3
<1>9. Checked(q)
  BY <1>3, <1>5, <1>8 DEF Checked
<1>10. Answered(q) /\ Decided(q) /\ Located(q) /\ Waiting(q) /\ Routed(q) /\ Selecting(q)
  BY <1>1, <1>5, <1>7, <1>8, <1>9 DEF Answered, Decided, Located, Waiting, Routed, Selecting
<1>11. RequestOK(q)
  BY <1>5, <1>6, <1>7, <1>10 DEF RequestOK, Genuine
<1> QED
  BY <1>4, <1>11

(* The answer to a chat request that passed, the targets left kept.        *)
LEMMA SelectTargetsOK ==
  ASSUME AccessInv, SelectTargets
  PROVE  RequestOK(req')
<1>1. /\ RequestOK(req) /\ req.pc = "select" /\ DOMAIN req = Fields
      /\ req.ctx # None /\ req.from = None /\ ~req.audited
      /\ Admitted(req) /\ req.route = "api" /\ Checked(req) /\ req.asked.verdict = Ok
  BY DEF AccessInv, SelectTargets, RequestOK, Selecting
<1>2. PICK config \in Configs, order \in TargetOrders :
        req' = [req EXCEPT !.pc = "done",
                  !.code = IF FilterTargets(req.ctx, config.rbac, order) = << >>
                           THEN 403 ELSE 200,
                  !.asked.served = [rbac |-> config.rbac,
                                    left |-> FilterTargets(req.ctx, config.rbac, order)]]
  BY DEF SelectTargets
<1>3. PICK left, code, served :
        /\ left = FilterTargets(req.ctx, config.rbac, order)
        /\ code = (IF left = << >> THEN 403 ELSE 200)
        /\ served = [rbac |-> config.rbac, left |-> left]
  OBVIOUS
<1>4. PICK asked, q : /\ asked = [req.asked EXCEPT !.served = served]
                      /\ q = [req EXCEPT !.pc = "done", !.code = code, !.asked = asked]
  OBVIOUS
<1>5. req' = q
  BY <1>1, <1>2, <1>3, <1>4 DEF Fields
<1>6. /\ DOMAIN q = Fields /\ q.pc = "done" /\ q.code = code /\ q.asked = asked
      /\ q.route = req.route /\ q.ctx = req.ctx /\ q.via = req.via
      /\ q.token = req.token /\ q.from = req.from /\ q.audited = req.audited
  BY <1>1, <1>4 DEF Fields
<1>7. Admitted(q)
  BY <1>1, <1>6 DEF Admitted, MayEnter, EntitledAdmin
<1>8. code \in {200, 403}
  BY <1>3
<1>9. /\ asked.config = req.asked.config /\ asked.chat = req.asked.chat
      /\ asked.verdict = req.asked.verdict /\ asked.served = served
      /\ DOMAIN asked = {"config", "chat", "verdict", "served"}
  BY <1>1, <1>4 DEF Checked
<1>10. Checked(q) /\ asked.verdict = Ok
  BY <1>1, <1>6, <1>9 DEF Checked
<1>11. served.rbac = config.rbac /\ served.left = FilterTargets(q.ctx, config.rbac, order)
  BY <1>3, <1>6
<1>12. Decided(q)
  BY <1>1, <1>6, <1>9, <1>10, <1>11 DEF Decided
<1>13. Answered(q) /\ Located(q) /\ Waiting(q) /\ Routed(q) /\ Selecting(q)
  BY <1>1, <1>6, <1>8 DEF Answered, Located, Waiting, Routed, Selecting
<1>14. RequestOK(q)
  BY <1>6, <1>7, <1>12, <1>13 DEF RequestOK, Genuine
<1> QED
  BY <1>5, <1>14

(* A token that names the identity provider's format carries its claims.   *)
LEMMA TokenClaims ==
  ASSUME NEW token \in Tokens, token # None, token.kind = "oidc"
  PROVE  token.claims \in ClaimSets
  BY DEF Tokens

(* A request arrives with a token, or at the login.                        *)
LEMMA ArriveOK ==
  ASSUME AccessInv, Arrive
  PROVE  RequestOK(req')
<1>1. PICK q : q = req'
  OBVIOUS
<1>2. CASE req' = [Idle EXCEPT !.pc = "login", !.route = "login"]
  <2>1. /\ DOMAIN q = Fields /\ q.pc = "login" /\ q.route = "login"
        /\ q.ctx = None /\ q.asked = None /\ q.from = None /\ q.audited = FALSE
    BY <1>1, <1>2 DEF Idle, Fields
  <2> QED
    BY <1>1, <2>1
    DEF RequestOK, Waiting, Genuine, Routed, Selecting, Answered, Located, Decided
<1>3. ASSUME NEW route \in {"api", "admin"}, NEW token \in Tokens,
             req' = [Idle EXCEPT !.pc = "auth", !.route = route, !.token = token]
      PROVE  RequestOK(req')
  <2>1. /\ DOMAIN q = Fields /\ q.pc = "auth" /\ q.token = token
        /\ q.ctx = None /\ q.asked = None /\ q.from = None /\ q.audited = FALSE
    BY <1>1, <1>3 DEF Idle, Fields
  <2>2. Genuine(q)
    BY <2>1, TokenClaims DEF Genuine
  <2> QED
    BY <1>1, <2>1, <2>2
    DEF RequestOK, Waiting, Routed, Selecting, Answered, Located, Decided
<1> QED
  BY <1>2, <1>3 DEF Arrive

(* The steps of a request leave the process as it is.                      *)
LEMMA RequestStepOK ==
  ASSUME AccessInv,
         \/ Arrive \/ Middleware \/ Authenticate \/ Login
         \/ AdminRoute \/ ApiRoute \/ SelectTargets \/ Finish
  PROVE  AccessInv'
<1>1. RequestOK(req')
  <2>1. Finish => req' = Idle
    BY DEF Finish
  <2> QED
    BY <2>1, IdleOK, ArriveOK, MiddlewareOK, AuthenticateOK, LoginOK,
       AdminRouteOK, ApiRouteOK, SelectTargetsOK
<1>2. UNCHANGED <<env, status, boot, jwks, fetched, secret>>
  BY DEF Arrive, Middleware, Authenticate, Login, AdminRoute, ApiRoute,
         SelectTargets, Finish
<1>3. status = "up" \/ req' = Idle
  <2>1. req.pc \in {"auth", "store", "login", "route", "select", "done"} => status = "up"
    BY IdleFields DEF AccessInv, ProcessOK
  <2> QED
    BY <2>1
    DEF Arrive, Middleware, Authenticate, Login, AdminRoute, ApiRoute,
         SelectTargets, Finish
<1>4. ProcessOK'
  BY <1>2, <1>3 DEF AccessInv, ProcessOK
<1> QED
  BY <1>1, <1>2, <1>4, RequestStays DEF AccessInv

(* AccessInv is inductive.                                                 *)
LEMMA InvNext == AccessInv /\ [Next]_vars => AccessInv'
<1> SUFFICES ASSUME AccessInv, [Next]_vars
             PROVE  AccessInv'
  OBVIOUS
<1>1. CASE UNCHANGED vars
  <2>1. RequestOK(req') /\ env' = env /\ boot' = boot /\ jwks' = jwks
    BY <1>1 DEF AccessInv, vars
  <2>2. RequestOK(req)'
    BY <2>1, RequestStays
  <2> QED
    BY <1>1, <2>2 DEF AccessInv, ProcessOK, vars
<1> QED
  BY <1>1, StartOK, StopOK, KeysOK, RequestStepOK DEF Next

(* In every run of the gateway AccessInv holds.                            *)
THEOREM AccessInvariant == Spec => []AccessInv
  BY InvInit, InvNext, PTL DEF Spec

-----------------------------------------------------------------------------
(* Nobody is let in or reaches an admin handler but by right, across       *)
(* restarts, key rotation and refresh: an admin answer goes to a bearer    *)
(* entitled to it, and JWT_REQUIRED_ROLES is held by all it applies to.    *)
(* The one exception is a gateway whose only authentication is an issuer   *)
(* and whose discovery failed at this start: it serves everybody.          *)
THEOREM EntryByRight == Spec => []AccessByRight
<1>1. AccessInv => AccessByRight
  BY DEF AccessInv, RequestOK, Answered, Admitted, MayEnter, AccessByRight,
         AdminByRight, RequiredRolesHeld
<1> QED
  BY <1>1, AccessInvariant, PTL

(* Every refusal by the middleware or the login is audited, nothing else   *)
(* is, and the address on record is the peer's or a public one vouched for *)
(* by an internal peer.                                                    *)
THEOREM RefusalsStayOnRecord == Spec => []RefusalsOnRecord
<1>1. AccessInv => RefusalsOnRecord
  BY DEF AccessInv, RequestOK, Answered, Located, RefusalsOnRecord,
         RefusalsAudited, RemoteIpSound
<1> QED
  BY <1>1, AccessInvariant, PTL

-----------------------------------------------------------------------------
(* What a request is granted.                                              *)

(* policy.rs: "team config narrows org config", for every configuration.   *)
LEMMA TeamNarrows ==
  ASSUME NEW ctx \in Principals, NEW config \in Configs, NEW request,
         PolicyVerdict(ctx, config, request) = Ok
  PROVE  PolicyVerdict([ctx EXCEPT !.team = None], config, request) = Ok
<1>1. PICK other : other = [ctx EXCEPT !.team = None]
  OBVIOUS
<1>2. ctx # None /\ other # None
  BY <1>1, OptionAssumption
<1>3. DOMAIN ctx = {"scope", "roles", "org", "team", "key", "rate"}
  BY DEF Principals, Anonymous, Master, IntoAuthContext, KeyContext, Context
<1>4. /\ other.scope = ctx.scope /\ other.roles = ctx.roles
      /\ other.org = ctx.org /\ other.team = None
  BY <1>1, <1>3
<1>5. PICK long, short : /\ long = Scopes(config.orgs, ctx.org, ctx.team)
                         /\ short = Scopes(config.orgs, ctx.org, None)
  OBVIOUS
<1>6. PICK n \in Nat, m \in Nat :
        /\ DOMAIN long = 1..n /\ DOMAIN short = 1..m /\ m <= n
        /\ \A i \in 1..m : short[i] = long[i]
  <2>1. BeginsWith(long, short)
    BY <1>5, ChainGrows
  <2> QED
    BY <2>1 DEF BeginsWith
<1>7. /\ \A i \in 1..n : Permits(long[i], request)
      /\ CheckRbacModel(ctx, config.rbac, request.model) = Ok
  BY <1>2, <1>5, <1>6, VerdictOk
<1>8. CheckRbacModel(other, config.rbac, request.model) = Ok
  BY <1>2, <1>4, <1>7 DEF CheckRbacModel, RolesOf, IsAdmin
<1>9. \A i \in 1..m : Permits(short[i], request)
  BY <1>6, <1>7
<1>10. short = Scopes(config.orgs, other.org, other.team)
  BY <1>4, <1>5
<1>11. PolicyVerdict(other, config, request) = Ok
  BY <1>2, <1>6, <1>8, <1>9, <1>10, VerdictOk
<1> QED
  BY <1>1, <1>11

(* The model asked for is granted by a role.                               *)
LEMMA ModelGranted ==
  ASSUME NEW ctx \in Principals, NEW config \in Configs, NEW chat \in ChatRequests,
         PolicyVerdict(ctx, config, chat) = Ok, config.rbac.enabled, ctx.scope # "admin"
  PROVE  RoleGrants(config.rbac, ctx.roles, "models", chat.model)
<1>1. ctx # None /\ RolesOf(ctx) = ctx.roles /\ IsAdmin(ctx) = FALSE
  BY OptionAssumption DEF RolesOf, IsAdmin
<1>2. CheckRbacModel(ctx, config.rbac, chat.model) = Ok
  <2>1. PICK chain : chain = Scopes(config.orgs, ctx.org, ctx.team)
    OBVIOUS
  <2>2. PICK n \in Nat : DOMAIN chain = 1..n
    <3>1. BeginsWith(chain, Scopes(config.orgs, ctx.org, None))
      BY <2>1, ChainGrows
    <3> QED
      BY <3>1 DEF BeginsWith
  <2> QED
    BY <1>1, <2>1, <2>2, VerdictOk
<1>3. CheckDimension(config.rbac, ctx.roles, FALSE, chat.model, "models",
                     "model_forbidden") = Ok
  BY <1>1, <1>2 DEF CheckRbacModel, CheckModel
<1>4. chat.model \in Seq(STRING) /\ "model_forbidden" # Ok
  BY PatternAssumption DEF Ok
<1> QED
  BY <1>3, <1>4, DimensionGrants

(* Every target left is granted by a role.                                 *)
LEMMA TargetsGranted ==
  ASSUME NEW ctx \in Principals, NEW config \in Configs, NEW order \in TargetOrders,
         NEW left, left = FilterTargets(ctx, config.rbac, order),
         config.rbac.enabled, ctx.scope # "admin", NEW k \in DOMAIN left
  PROVE  RoleGrants(config.rbac, ctx.roles, "providers", left[k].provider)
<1>1. ctx # None /\ RolesOf(ctx) = ctx.roles /\ IsAdmin(ctx) = FALSE
  BY OptionAssumption DEF RolesOf, IsAdmin
<1>2. Len(order) \in Nat
  BY PatternAssumption
<1>3. PICK i \in 1..Len(order) :
        /\ left[k] = order[i]
        /\ CheckProvider(config.rbac, RolesOf(ctx), IsAdmin(ctx), order[i].provider) = Ok
  BY <1>2, FilterKeeps
<1>4. CheckDimension(config.rbac, ctx.roles, FALSE, order[i].provider,
                     "providers", "provider_forbidden") = Ok
  BY <1>1, <1>3 DEF CheckProvider
<1>5. order[i].provider \in Seq(STRING) /\ "provider_forbidden" # Ok
  BY PatternAssumption DEF Ok
<1>6. RoleGrants(config.rbac, ctx.roles, "providers", order[i].provider)
  BY <1>4, <1>5, DimensionGrants
<1> QED
  BY <1>3, <1>6

(* A request is served only what its organisation, its team and its roles  *)
(* grant: what a team member may ask for the organisation's others may ask *)
(* for too, and the model and every target left are matched, in the        *)
(* meaning of the pattern, by a role that speaks for the principal.        *)
THEOREM GrantsStayHeld == Spec => []GrantsHold
<1>1. AccessInv => TeamNarrowsOrg
  <2> SUFFICES ASSUME AccessInv, req.asked # None, req.asked.verdict = Ok
               PROVE  PolicyVerdict([req.ctx EXCEPT !.team = None],
                                    req.asked.config, req.asked.chat) = Ok
    BY DEF TeamNarrowsOrg
  <2>1. /\ req.ctx \in Principals /\ req.asked.config \in Configs
        /\ PolicyVerdict(req.ctx, req.asked.config, req.asked.chat) = Ok
    BY DEF AccessInv, RequestOK, Decided, Checked, Admitted
  <2> QED
    BY <2>1, TeamNarrows
<1>2. AccessInv => RolesGrant
  <2> SUFFICES ASSUME AccessInv, req.asked # None, req.code = 200, req.ctx.scope # "admin"
               PROVE  /\ req.asked.config.rbac.enabled =>
                           RoleGrants(req.asked.config.rbac, req.ctx.roles, "models",
                                      req.asked.chat.model)
                      /\ req.asked.served.rbac.enabled =>
                           \A i \in DOMAIN req.asked.served.left :
                             RoleGrants(req.asked.served.rbac, req.ctx.roles, "providers",
                                        req.asked.served.left[i].provider)
    BY DEF RolesGrant
  <2>1. PICK ctx, config, chat :
          /\ ctx \in Principals /\ config \in Configs /\ chat \in ChatRequests
          /\ ctx = req.ctx /\ config = req.asked.config /\ chat = req.asked.chat
          /\ PolicyVerdict(ctx, config, chat) = Ok
    BY DEF AccessInv, RequestOK, Decided, Checked, Admitted
  <2>2. PICK later \in Configs, order \in TargetOrders :
          /\ req.asked.served.rbac = later.rbac
          /\ req.asked.served.left = FilterTargets(ctx, later.rbac, order)
    BY <2>1 DEF AccessInv, RequestOK, Decided
  <2>3. PICK left : left = req.asked.served.left
    OBVIOUS
  <2>4. config.rbac.enabled => RoleGrants(config.rbac, ctx.roles, "models", chat.model)
    BY <2>1, ModelGranted
  <2>5. ASSUME later.rbac.enabled, NEW k \in DOMAIN left
        PROVE  RoleGrants(later.rbac, ctx.roles, "providers", left[k].provider)
    BY <2>1, <2>2, <2>3, <2>5, TargetsGranted
  <2> QED
    BY <2>1, <2>2, <2>3, <2>4, <2>5
<1> QED
  BY <1>1, <1>2, AccessInvariant, PTL DEF GrantsHold
=============================================================================
