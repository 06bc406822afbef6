--------------------------- MODULE Reslice_proofs ---------------------------
(***************************************************************************)
(* What applying part of a diff gives, and what becomes of the work that   *)
(* folds and discards put aside, for every history, worktree and           *)
(* selection.                                                              *)
(*                                                                         *)
(* The hunks of a diff are stretches of lines, in order and apart, of both *)
(* sides.  With the hunks of a set applied the file is the old one with    *)
(* those stretches exchanged; the next one by old line numbers from below, *)
(* or by new ones less the shift of what was skipped, then stands exactly  *)
(* where it is looked for, and, its old lines being there in order,        *)
(* nowhere else.  So an application gives a file in order, or is refused.  *)
(*                                                                         *)
(* The work: what diffs see of the worktree goes to the ref, and what they *)
(* do not see is untracked.  No reset of the replay reaches an untracked   *)
(* file, as none of the trees it passes has it: HEAD's tree has only files *)
(* of the index, a checkout over it is refused, and the abort goes back to *)
(* the branch the call found.                                              *)
(***************************************************************************)
EXTENDS Reslice, FiniteSetTheorems, WellFoundedInduction, TLAPS

(***************************************************************************)
(* Files and their lines in order.                                           *)
(***************************************************************************)

(* Every set of numbers has a least.                                       *)
LEMMA LeastExists ==
  ASSUME NEW S \in SUBSET Nat, S # {}
  PROVE  \E x \in S : \A y \in S : x <= y
<1> DEFINE T == {0..n : n \in S}
<1>1. T \subseteq FiniteSubsetsOf(Nat) /\ T # {}
  <2>1. ASSUME NEW n \in S
        PROVE  0..n \in SUBSET Nat /\ IsFiniteSet(0..n)
    BY FS_Interval
  <2> QED
    BY <2>1 DEF FiniteSubsetsOf
<1>2. PICK t \in T : \A u \in T : <<u, t>> \notin StrictSubsetOrdering(Nat)
  BY <1>1, FS_StrictSubsetOrderingWellFounded, WFMin
<1>3. PICK x \in S : t = 0..x
  BY <1>2
<1>4. ASSUME NEW y \in S, y < x
      PROVE  FALSE
  <2>1. 0..y \subseteq 0..x /\ x \in 0..x /\ x \notin 0..y
    BY <1>4
  <2>2. <<0..y, t>> \in StrictSubsetOrdering(Nat)
    BY <2>1, <1>3 DEF StrictSubsetOrdering
  <2> QED
    BY <2>2, <1>2
<1> QED
  BY <1>4

(* A file is finite, and its lines are numbers.                              *)
LEMMA RisingIs ==
  ASSUME NEW s \in Rising
  PROVE  /\ s \in Seq(Int) /\ Len(s) \in Nat /\ DOMAIN s = 1..Len(s)
         /\ ToSet(s) \in SUBSET Int
         /\ \A i \in 1..Len(s) : s[i] \in Int /\ s[i] \in ToSet(s)
         /\ \A n \in ToSet(s) : \E i \in 1..Len(s) : n = s[i]
         /\ \A i, j \in 1..Len(s) : s[i] < s[j] <=> i < j
<1>1. s \in Seq(Int) /\ Len(s) \in Nat /\ DOMAIN s = 1..Len(s)
  BY DEF Rising
<1>2. \A i \in 1..Len(s) : s[i] \in Int
  BY <1>1
<1>3. ToSet(s) = {s[i] : i \in 1..Len(s)}
  BY <1>1 DEF ToSet
<1>4. ASSUME NEW i \in 1..Len(s), NEW j \in 1..Len(s), s[i] < s[j]
      PROVE  i < j
  <2>1. ~(j < i) /\ j # i
    BY <1>2, <1>4 DEF Rising
  <2> QED
    BY <2>1, <1>1
<1>5. \A i, j \in 1..Len(s) : i < j => s[i] < s[j]
  BY DEF Rising
<1> QED
  BY <1>1, <1>2, <1>3, <1>4, <1>5

(* The first lines of a file are as many as they are.                      *)
LEMMA FirstsCounted ==
  ASSUME NEW s \in Rising, NEW k \in 0..Len(s)
  PROVE  /\ IsFiniteSet({s[i] : i \in 1..k})
         /\ Cardinality({s[i] : i \in 1..k}) = k
<1> DEFINE T == {s[i] : i \in 1..k}
           f == [i \in 1..k |-> s[i]]
<1>1. k \in Nat /\ 1..k \subseteq 1..Len(s)
  BY RisingIs
<1>2. f \in [1..k -> T]
  OBVIOUS
<1>3. ASSUME NEW i \in 1..k, NEW j \in 1..k, f[i] = f[j]
      PROVE  i = j
  <2>1. s[i] = s[j] /\ s[i] \in Int /\ s[j] \in Int
    BY <1>1, <1>3, RisingIs
  <2>2. ~(s[i] < s[j]) /\ ~(s[j] < s[i])
    BY <2>1
  <2>3. ~(i < j) /\ ~(j < i)
    BY <1>1, <2>2, RisingIs
  <2> QED
    BY <2>3, <1>1
<1>4. \A t \in T : \E i \in 1..k : f[i] = t
  OBVIOUS
<1>5. f \in Injection(1..k, T)
  BY <1>2, <1>3 DEF Injection, IsInjective
<1>6. f \in Surjection(1..k, T)
  BY <1>2, <1>4 DEF Surjection
<1>7. ExistsBijection(1..k, T)
  BY <1>5, <1>6 DEF ExistsBijection, Bijection
<1>8. IsFiniteSet(1..k) /\ Cardinality(1..k) = k
  BY <1>1, FS_Interval
<1> QED
  BY <1>7, <1>8, FS_Bijection

(* A file is its lines in order, and each line has its place.              *)
LEMMA RisingIsInOrder ==
  ASSUME NEW s \in Rising
  PROVE  /\ IsFiniteSet(ToSet(s)) /\ Cardinality(ToSet(s)) = Len(s)
         /\ \A i \in 1..Len(s) : Below(ToSet(s), s[i]) = i - 1
         /\ InOrder(ToSet(s)) = s
<1>1. ToSet(s) = {s[i] : i \in 1..Len(s)}
  BY RisingIs DEF ToSet
<1>2. IsFiniteSet(ToSet(s)) /\ Cardinality(ToSet(s)) = Len(s)
  <2>1. Len(s) \in 0..Len(s)
    BY RisingIs
  <2> QED
    BY <1>1, <2>1, FirstsCounted
<1>3. ASSUME NEW i \in 1..Len(s)
      PROVE  Below(ToSet(s), s[i]) = i - 1
  <2>1. i - 1 \in 0..Len(s) /\ 1..(i - 1) \subseteq 1..Len(s)
    BY RisingIs
  <2>2. {m \in ToSet(s) : m < s[i]} = {s[j] : j \in 1..(i - 1)}
    <3>1. ASSUME NEW m \in ToSet(s), m < s[i]
          PROVE  m \in {s[j] : j \in 1..(i - 1)}
      <4>1. PICK j \in 1..Len(s) : m = s[j]
        BY RisingIs
      <4>2. j < i
        BY <3>1, <4>1, RisingIs
      <4>3. j \in 1..(i - 1)
        BY <4>2
      <4> QED
        BY <4>1, <4>3
    <3>2. ASSUME NEW j \in 1..(i - 1)
          PROVE  s[j] \in ToSet(s) /\ s[j] < s[i]
      <4>1. j \in 1..Len(s) /\ j < i
        BY <2>1
      <4> QED
        BY <4>1, RisingIs
    <3> QED
      BY <3>1, <3>2
  <2> QED
    BY <2>1, <2>2, FirstsCounted DEF Below
<1>4. ASSUME NEW i \in 1..Len(s)
      PROVE  (CHOOSE n \in ToSet(s) : Below(ToSet(s), n) = i - 1) = s[i]
  <2>1. s[i] \in ToSet(s) /\ Below(ToSet(s), s[i]) = i - 1
    BY <1>3, RisingIs
  <2>2. ASSUME NEW n \in ToSet(s), Below(ToSet(s), n) = i - 1
        PROVE  n = s[i]
    <3>1. PICK j \in 1..Len(s) : n = s[j]
      BY RisingIs
    <3>2. j - 1 = i - 1
      BY <1>3, <2>2, <3>1
    <3>3. j = i
      BY <3>2
    <3> QED
      BY <3>1, <3>3
  <2> QED
    BY <2>1, <2>2
<1>5. InOrder(ToSet(s)) = [i \in 1..Len(s) |-> s[i]]
  BY <1>2, <1>4 DEF InOrder
<1>6. s = [i \in 1..Len(s) |-> s[i]]
  BY RisingIs
<1> QED
  BY <1>2, <1>3, <1>5, <1>6

(* Two files, the one before the other, make a file.                         *)
LEMMA Joined ==
  ASSUME NEW s \in Rising, NEW t \in Rising,
         \A m \in ToSet(s), n \in ToSet(t) : m < n
  PROVE  s \o t \in Rising /\ ToSet(s \o t) = ToSet(s) \cup ToSet(t)
         /\ Len(s \o t) = Len(s) + Len(t)
<1> DEFINE u == s \o t
<1>1. /\ s \in Seq(Int) /\ Len(s) \in Nat /\ t \in Seq(Int) /\ Len(t) \in Nat
      /\ u \in Seq(Int) /\ Len(u) = Len(s) + Len(t)
      /\ DOMAIN u = 1..(Len(s) + Len(t))
  BY RisingIs
<1>2. /\ \A i \in 1..Len(s) : u[i] = s[i] /\ s[i] \in Int
      /\ \A i \in 1..Len(t) : u[Len(s) + i] = t[i] /\ t[i] \in Int
  BY <1>1
<1>3. \A i \in 1..Len(u) : i \in 1..Len(s) \/ \E k \in 1..Len(t) : i = Len(s) + k
  <2>1. \A i \in 1..Len(u) : i \in 1..Len(s) \/ (i - Len(s) \in 1..Len(t) /\ i = Len(s) + (i - Len(s)))
    BY <1>1
  <2> QED
    BY <2>1
<1> HIDE DEF u
<1>4. ASSUME NEW i \in 1..Len(u), NEW j \in 1..Len(u), i < j
      PROVE  u[i] < u[j]
  <2>1. CASE i \in 1..Len(s) /\ j \in 1..Len(s)
    BY <1>2, <1>4, <2>1, RisingIs
  <2>2. ASSUME i \in 1..Len(s), NEW k \in 1..Len(t), j = Len(s) + k
        PROVE  u[i] < u[j]
    <3>1. u[i] \in ToSet(s) /\ u[j] \in ToSet(t)
      BY <1>2, <2>2, RisingIs
    <3> QED
      BY <3>1
  <2>3. ASSUME NEW k \in 1..Len(t), NEW l \in 1..Len(t), i = Len(s) + k, j = Len(s) + l
        PROVE  u[i] < u[j]
    <3>1. k < l
      BY <1>1, <1>4, <2>3
    <3> QED
      BY <1>2, <2>3, <3>1, RisingIs
  <2>4. ~(\E k \in 1..Len(t) : i = Len(s) + k /\ j \in 1..Len(s))
    BY <1>1, <1>4
  <2> QED
    BY <1>3, <2>1, <2>2, <2>3, <2>4
<1>5. u \in Rising
  BY <1>1, <1>4 DEF Rising
<1>6. ASSUME NEW n \in ToSet(u)
      PROVE  n \in ToSet(s) \cup ToSet(t)
  <2>1. PICK i \in 1..Len(u) : n = u[i]
    BY <1>5, RisingIs
  <2> QED
    BY <1>2, <1>3, <2>1, RisingIs
<1>7. ASSUME NEW n \in ToSet(s)
      PROVE  n \in ToSet(u)
  <2>1. PICK i \in 1..Len(s) : n = s[i]
    BY RisingIs
  <2>2. i \in 1..Len(u) /\ n = u[i]
    BY <1>1, <1>2, <2>1
  <2> QED
    BY <1>5, <2>2, RisingIs
<1>8. ASSUME NEW n \in ToSet(t)
      PROVE  n \in ToSet(u)
  <2>1. PICK i \in 1..Len(t) : n = t[i]
    BY RisingIs
  <2>2. Len(s) + i \in 1..Len(u) /\ n = u[Len(s) + i]
    BY <1>1, <1>2, <2>1
  <2> QED
    BY <1>5, <2>2, RisingIs
<1>9. ToSet(u) = ToSet(s) \cup ToSet(t)
  BY <1>6, <1>7, <1>8
<1> QED
  BY <1>1, <1>5, <1>9 DEF u

(* Every finite set of lines can be put in order.                          *)
LEMMA OrderExists ==
  ASSUME NEW S \in SUBSET Int, IsFiniteSet(S)
  PROVE  \E s \in Rising : ToSet(s) = S
<1> DEFINE Listed(T) == \E s \in Rising : ToSet(s) = T
           Bad == {n \in Nat : \E T \in SUBSET S : Cardinality(T) = n /\ ~Listed(T)}
<1>1. SUFFICES ASSUME Bad # {}
               PROVE  FALSE
  <2>1. SUFFICES ASSUME ~Listed(S)
                 PROVE  Cardinality(S) \in Bad
    BY <1>1
  <2> QED
    BY <2>1, FS_CardinalityType
<1>2. PICK n \in Bad : \A m \in Bad : n <= m
  <2>1. Bad \in SUBSET Nat
    OBVIOUS
  <2> HIDE DEF Bad
  <2> QED
    BY <1>1, <2>1, LeastExists
<1>3. PICK T \in SUBSET S : Cardinality(T) = n /\ ~Listed(T)
  BY <1>2
<1>4. ASSUME NEW U \in SUBSET T, NEW x \in T, x \notin U
      PROVE  Listed(U)
  <2>1. IsFiniteSet(T) /\ IsFiniteSet(U) /\ Cardinality(U) <= Cardinality(T) /\ Cardinality(U) # Cardinality(T)
    <3>1. IsFiniteSet(T)
      BY FS_Subset
    <3> QED
      BY <1>4, <3>1, FS_Subset
  <2>2. Cardinality(U) \in Nat /\ Cardinality(T) \in Nat
    BY <2>1, FS_CardinalityType
  <2>3. Cardinality(U) < n
    BY <1>3, <2>1, <2>2
  <2>4. Cardinality(U) \notin Bad
    BY <1>2, <2>2, <2>3
  <2>5. U \in SUBSET S
    BY <1>3
  <2> QED
    BY <2>2, <2>4, <2>5
<1> HIDE DEF Listed
<1>5. T # {}
  <2>1. <<>> \in Rising /\ ToSet(<<>>) = {}
    BY DEF Rising, ToSet
  <2>2. Listed({})
    BY <2>1 DEF Listed
  <2> QED
    BY <1>3, <2>2
<1>6. PICK x \in T : TRUE
  BY <1>5
<1> DEFINE low == {m \in T : m < x}
           high == {m \in T : x < m}
<1>7. x \in Int /\ T \in SUBSET Int
  BY <1>3
<1>8. Listed(low) /\ Listed(high)
  <2>1. low \in SUBSET T /\ x \notin low /\ high \in SUBSET T /\ x \notin high
    BY <1>7
  <2> QED
    BY <1>4, <1>6, <2>1
<1>9. PICK s \in Rising : ToSet(s) = low
  BY <1>8 DEF Listed
<1>10. PICK t \in Rising : ToSet(t) = high
  BY <1>8 DEF Listed
<1>11. <<x>> \in Rising /\ ToSet(<<x>>) = {x}
  BY <1>7 DEF Rising, ToSet
<1>12. s \o <<x>> \in Rising /\ ToSet(s \o <<x>>) = low \cup {x}
  BY <1>7, <1>9, <1>11, Joined
<1>13. (s \o <<x>>) \o t \in Rising /\ ToSet((s \o <<x>>) \o t) = low \cup {x} \cup high
  <2>1. \A m \in low \cup {x}, k \in high : m < k
    BY <1>7
  <2> QED
    BY <1>10, <1>12, <2>1, Joined
<1>14. T = low \cup {x} \cup high
  <2>1. \A m \in T : m < x \/ m = x \/ x < m
    BY <1>7
  <2> QED
    BY <1>6, <2>1
<1>15. Listed(T)
  BY <1>13, <1>14 DEF Listed
<1> QED
  BY <1>3, <1>15

(* InOrder lists a set in rising order, and is the only list that does.    *)
LEMMA InOrderRises ==
  ASSUME NEW S \in SUBSET Int, IsFiniteSet(S)
  PROVE  /\ InOrder(S) \in Rising /\ ToSet(InOrder(S)) = S
         /\ Len(InOrder(S)) = Cardinality(S) /\ Cardinality(S) \in Nat
<1>1. PICK s \in Rising : ToSet(s) = S
  BY OrderExists
<1>2. InOrder(S) = s /\ Len(s) = Cardinality(S)
  BY <1>1, RisingIsInOrder
<1> QED
  BY <1>1, <1>2, RisingIs

(***************************************************************************)
(* Stretches of a file.                                                      *)
(***************************************************************************)

(* The number of lines before a line grows with it.                          *)
LEMMA BelowGrows ==
  ASSUME NEW S \in SUBSET Int, IsFiniteSet(S), NEW x \in Int, NEW y \in Int
  PROVE  /\ Below(S, x) \in Nat
         /\ x <= y => Below(S, x) <= Below(S, y)
         /\ x \in S /\ x < y => Below(S, x) < Below(S, y)
<1> DEFINE A(n) == {m \in S : m < n}
<1>1. \A n : A(n) \in SUBSET S /\ IsFiniteSet(A(n)) /\ Cardinality(A(n)) \in Nat
  BY FS_Subset, FS_CardinalityType
<1>2. ASSUME x <= y
      PROVE  Cardinality(A(x)) <= Cardinality(A(y))
  <2>1. ASSUME NEW m \in S, m < x
        PROVE  m < y
    BY <1>2, <2>1
  <2>2. A(x) \in SUBSET A(y)
    BY <2>1
  <2> QED
    BY <1>1, <2>2, FS_Subset
<1>3. ASSUME x \in S, x < y
      PROVE  Cardinality(A(x)) < Cardinality(A(y))
  <2>0. ASSUME NEW m \in S, m < x
        PROVE  m < y
    BY <1>3, <2>0
  <2>1. A(x) \in SUBSET A(y) /\ x \in A(y) /\ x \notin A(x)
    <3>1. ~(x < x)
      OBVIOUS
    <3> QED
      BY <1>3, <2>0, <3>1
  <2>2. A(x) # A(y)
    BY <2>1
  <2>3. Cardinality(A(x)) <= Cardinality(A(y)) /\ Cardinality(A(x)) # Cardinality(A(y))
    BY <1>1, <2>1, <2>2, FS_Subset
  <2> HIDE DEF A
  <2> QED
    BY <1>1, <2>3
<1> QED
  BY <1>1, <1>2, <1>3 DEF Below

(* A finite set of numbers has a least and a greatest.                       *)
LEMMA SpanEnds ==
  ASSUME NEW S \in SUBSET Int, IsFiniteSet(S), S # {}
  PROVE  /\ Min(S) \in S /\ \A n \in S : Min(S) <= n
         /\ Max(S) \in S /\ \A n \in S : n <= Max(S)
<1>1. PICK s \in Rising : ToSet(s) = S
  BY OrderExists
<1>2. Len(s) \in Nat /\ Len(s) > 0
  <2>1. PICK n \in S : TRUE
    OBVIOUS
  <2>2. PICK i \in 1..Len(s) : n = s[i]
    BY <1>1, RisingIs
  <2> QED
    BY RisingIs
<1>3. 1 \in 1..Len(s) /\ Len(s) \in 1..Len(s)
  BY <1>2
<1>4. ASSUME NEW n \in S
      PROVE  s[1] <= n /\ n <= s[Len(s)]
  <2>1. PICK i \in 1..Len(s) : n = s[i]
    BY <1>1, RisingIs
  <2>2. s[1] \in Int /\ s[i] \in Int /\ s[Len(s)] \in Int
    BY <1>3, RisingIs
  <2>3. ~(i < 1) /\ ~(Len(s) < i)
    BY <1>2
  <2> QED
    BY <1>3, <2>1, <2>2, <2>3, RisingIs
<1>5. s[1] \in S /\ s[Len(s)] \in S
  BY <1>1, <1>3, RisingIs
<1> QED
  BY <1>4, <1>5 DEF Min, Max

(* Replacing part of a file. *)

(* A file is known by its lines.                                             *)
LEMMA SameFile ==
  ASSUME NEW s \in Seq(Int), NEW t \in Seq(Int), Len(s) = Len(t),
         \A i \in 1..Len(t) : s[i] = t[i]
  PROVE  s = t
OBVIOUS

(* Where a part of a file is replaced by what fits there, the lines come out *)
(* in order.                                                                 *)
LEMMA PartReplaced ==
  ASSUME NEW x \in Seq(Int), NEW y \in Seq(Int), NEW z \in Seq(Int), NEW w \in Seq(Int)
  PROVE  Replaced((x \o y) \o z, Len(x), y, w) = (x \o w) \o z
<1> DEFINE image == (x \o y) \o z
           at == Len(x)
<1>1. /\ Len(x) \in Nat /\ Len(y) \in Nat /\ Len(z) \in Nat /\ Len(w) \in Nat
      /\ image \in Seq(Int) /\ Len(image) = Len(x) + Len(y) + Len(z)
  OBVIOUS
<1>2. \A i \in 1..Len(image) :
        image[i] = IF i <= Len(x) THEN x[i]
                   ELSE IF i <= Len(x) + Len(y) THEN y[i - Len(x)] ELSE z[i - Len(x) - Len(y)]
  <2>1. x \o y \in Seq(Int) /\ Len(x \o y) = Len(x) + Len(y)
    OBVIOUS
  <2>2. \A i \in 1..(Len(x) + Len(y)) : (x \o y)[i] = IF i <= Len(x) THEN x[i] ELSE y[i - Len(x)]
    OBVIOUS
  <2>3. \A i \in 1..Len(image) : image[i] = IF i <= Len(x \o y) THEN (x \o y)[i] ELSE z[i - Len(x \o y)]
    BY <2>1
  <2> HIDE DEF image
  <2> QED
    BY <1>1, <2>1, <2>2, <2>3
<1> HIDE DEF image
<1>3. SubSeq(image, 1, at) = x
  <2>1. SubSeq(image, 1, at) \in Seq(Int) /\ Len(SubSeq(image, 1, at)) = Len(x)
    BY <1>1
  <2>2. \A i \in 1..Len(x) : SubSeq(image, 1, at)[i] = x[i]
    BY <1>1, <1>2
  <2> QED
    BY <2>1, <2>2
<1>4. SubSeq(image, at + 1, at + Len(y)) = y
  <2>1. SubSeq(image, at + 1, at + Len(y)) \in Seq(Int) /\ Len(SubSeq(image, at + 1, at + Len(y))) = Len(y)
    BY <1>1
  <2>2. ASSUME NEW i \in 1..Len(y)
        PROVE  SubSeq(image, at + 1, at + Len(y))[i] = y[i]
    <3>1. SubSeq(image, at + 1, at + Len(y))[i] = image[at + i]
      BY <1>1
    <3>2. at + i \in 1..Len(image) /\ ~(at + i <= Len(x)) /\ at + i <= Len(x) + Len(y) /\ at + i - Len(x) = i
      BY <1>1
    <3> QED
      BY <1>2, <3>1, <3>2
  <2> QED
    BY <2>1, <2>2, SameFile
<1>5. SubSeq(image, at + Len(y) + 1, Len(image)) = z
  <2>1. /\ SubSeq(image, at + Len(y) + 1, Len(image)) \in Seq(Int)
        /\ Len(SubSeq(image, at + Len(y) + 1, Len(image))) = Len(z)
    BY <1>1
  <2>2. ASSUME NEW i \in 1..Len(z)
        PROVE  SubSeq(image, at + Len(y) + 1, Len(image))[i] = z[i]
    <3>1. SubSeq(image, at + Len(y) + 1, Len(image))[i] = image[at + Len(y) + i]
      BY <1>1
    <3>2. /\ at + Len(y) + i \in 1..Len(image) /\ ~(at + Len(y) + i <= Len(x) + Len(y))
          /\ ~(at + Len(y) + i <= Len(x))
          /\ at + Len(y) + i - Len(x) - Len(y) = i
      BY <1>1
    <3> QED
      BY <1>2, <3>1, <3>2
  <2> QED
    BY <2>1, <2>2, SameFile
<1>6. ~(at < 0 \/ at + Len(y) > Len(image))
  BY <1>1
<1> QED
  BY <1>3, <1>4, <1>5, <1>6 DEF Replaced, image

(* What stands elsewhere is not replaced.                                  *)
LEMMA ElsewhereRefused ==
  ASSUME NEW image \in Rising, NEW old \in Rising, NEW new, NEW at \in Int,
         Len(old) > 0, NEW k \in 1..Len(image), image[k] = old[1], k # at + 1
  PROVE  Replaced(image, at, old, new) = Refused
<1>1. Len(image) \in Nat /\ Len(old) \in Nat /\ image \in Seq(Int)
  BY RisingIs
<1>2. SUFFICES ASSUME ~(at < 0), ~(at + Len(old) > Len(image)), SubSeq(image, at + 1, at + Len(old)) = old
               PROVE  FALSE
  BY DEF Replaced
<1>3. SubSeq(image, at + 1, at + Len(old))[1] = image[at + 1] /\ at + 1 \in 1..Len(image)
  BY <1>1, <1>2
<1>4. image[at + 1] = image[k]
  BY <1>2, <1>3
<1>5. ~(image[k] < image[at + 1]) /\ ~(image[at + 1] < image[k])
  BY <1>3, <1>4, RisingIs
<1>6. ~(k < at + 1) /\ ~(at + 1 < k)
  BY <1>3, <1>5, RisingIs
<1> QED
  BY <1>3, <1>6

(* A is the stretch of L from lo to hi, B may take its place.              *)
IsStretch(L, A, B, lo, hi) ==
  /\ L \in SUBSET Int /\ IsFiniteSet(L) /\ A \in SUBSET L /\ B \in SUBSET Int /\ IsFiniteSet(B)
  /\ lo \in Int /\ hi \in Int /\ lo <= hi
  /\ \A n \in L : n \in A <=> lo <= n /\ n <= hi
  /\ \A n \in B : lo <= n /\ n <= hi

(* Lines of a stretch replaced by others of the same stretch, where it     *)
(* begins: the lines come out in order, and are the others instead.        *)
LEMMA StretchReplaced ==
  ASSUME NEW L, NEW A, NEW B, NEW lo, NEW hi, IsStretch(L, A, B, lo, hi)
  PROVE  Replaced(InOrder(L), Below(L, lo), InOrder(A), InOrder(B)) = InOrder((L \ A) \cup B)
<1> USE DEF IsStretch
<1> DEFINE low == {n \in L : n < lo}
           high == {n \in L : hi < n}
           x == InOrder(low)
           y == InOrder(A)
           w == InOrder(B)
           z == InOrder(high)
<1>1. /\ low \in SUBSET L /\ high \in SUBSET L
      /\ IsFiniteSet(low) /\ IsFiniteSet(high) /\ IsFiniteSet(A)
      /\ low \in SUBSET Int /\ high \in SUBSET Int /\ A \in SUBSET Int
  BY FS_Subset
<1>2. /\ x \in Rising /\ ToSet(x) = low /\ Len(x) = Below(L, lo)
      /\ y \in Rising /\ ToSet(y) = A
      /\ w \in Rising /\ ToSet(w) = B
      /\ z \in Rising /\ ToSet(z) = high
  BY <1>1, InOrderRises DEF Below
<1>3. /\ \A m \in low, n \in A : m < n
      /\ \A m \in low, n \in B : m < n
      /\ \A m \in low \cup A, n \in high : m < n
      /\ \A m \in low \cup B, n \in high : m < n
  OBVIOUS
<1> HIDE DEF low, high, x, y, z, w
<1>4. x \o y \in Rising /\ ToSet(x \o y) = low \cup A /\ Len(x \o y) = Len(x) + Len(y)
  BY <1>2, <1>3, Joined
<1>5. (x \o y) \o z \in Rising /\ ToSet((x \o y) \o z) = low \cup A \cup high
      /\ Len((x \o y) \o z) = Len(x) + Len(y) + Len(z)
  BY <1>2, <1>3, <1>4, Joined
<1>6. x \o w \in Rising /\ ToSet(x \o w) = low \cup B
  BY <1>2, <1>3, Joined
<1>7. (x \o w) \o z \in Rising /\ ToSet((x \o w) \o z) = low \cup B \cup high
  BY <1>2, <1>3, <1>6, Joined
<1>8. L = low \cup A \cup high /\ (L \ A) \cup B = low \cup B \cup high
  <2>1. ASSUME NEW n \in L
        PROVE  n \in low \cup A \cup high /\ (n \notin A <=> n \in low \cup high)
    BY DEF low, high
  <2>2. low \subseteq L /\ high \subseteq L
    BY DEF low, high
  <2> QED
    BY <2>1, <2>2
<1>9. InOrder(L) = (x \o y) \o z /\ InOrder((L \ A) \cup B) = (x \o w) \o z
  BY <1>5, <1>7, <1>8, RisingIsInOrder
<1>10. /\ x \in Seq(Int) /\ y \in Seq(Int) /\ z \in Seq(Int) /\ w \in Seq(Int)
       /\ Len(x) \in Nat /\ Len(y) \in Nat /\ Len(z) \in Nat
  BY <1>2, RisingIs
<1>11. Replaced(InOrder(L), Len(x), y, w) = InOrder((L \ A) \cup B)
  <2>1. Replaced((x \o y) \o z, Len(x), y, w) = (x \o w) \o z
    BY <1>10, PartReplaced
  <2> QED
    BY <1>9, <2>1
<1> QED
  BY <1>2, <1>11 DEF x, y, w, z, low

(* They are not found anywhere else.                                       *)
LEMMA StretchElsewhere ==
  ASSUME NEW L, NEW A, NEW B, NEW lo, NEW hi, IsStretch(L, A, B, lo, hi),
         NEW at \in Int, A # {}, at # Below(L, lo)
  PROVE  Replaced(InOrder(L), at, InOrder(A), InOrder(B)) = Refused
<1> USE DEF IsStretch
<1> DEFINE x == InOrder(L)
           y == InOrder(A)
<1>1. x \in Rising /\ ToSet(x) = L
  BY InOrderRises
<1>2. y \in Rising /\ ToSet(y) = A
  <2>1. IsFiniteSet(A) /\ A \in SUBSET Int
    BY FS_Subset
  <2> QED
    BY <2>1, InOrderRises
<1> HIDE DEF x, y
<1>3. Len(y) > 0 /\ Len(y) \in Nat
  <2>1. PICK i \in 1..Len(y) : TRUE
    BY <1>2, RisingIs
  <2> QED
    BY <1>2, <2>1, RisingIs
<1> DEFINE a == y[1]
<1>4. a \in A /\ \A n \in A : a <= n
  <2>1. 1 \in 1..Len(y) /\ y[1] \in Int
    BY <1>2, <1>3, RisingIs
  <2>2. \A i \in 1..Len(y) : y[1] <= y[i]
    <3>1. \A i \in 1..Len(y) : y[i] \in Int /\ (i # 1 => y[1] < y[i])
      BY <1>2, <1>3, <2>1, RisingIs
    <3> QED
      BY <2>1, <3>1
  <2> QED
    BY <1>2, <2>1, <2>2, RisingIs
<1>5. PICK k \in 1..Len(x) : a = x[k]
  BY <1>1, <1>4, RisingIs
<1>6. Below(L, a) = k - 1
  BY <1>1, <1>5, RisingIsInOrder
<1>7. Below(L, a) = Below(L, lo)
  <2> HIDE DEF a
  <2>1. \A n \in L : n < a <=> n < lo
    BY <1>4
  <2>2. {n \in L : n < a} = {n \in L : n < lo}
    BY <2>1
  <2> QED
    BY <2>2 DEF Below
<1>8. k # at + 1
  BY <1>5, <1>6, <1>7
<1>9. Replaced(x, at, y, InOrder(B)) = Refused
  BY <1>1, <1>2, <1>3, <1>5, <1>8, ElsewhereRefused
<1> QED
  BY <1>9 DEF x, y

(***************************************************************************)
(* The spans of a diff.                                                      *)
(***************************************************************************)

(* The lines each hunk of a file spans.                                    *)
GroupsOf(context, old, new) == Groups(SymDiff(old, new), Firsts(context, old \cap new, SymDiff(old, new)))
Spans(context, old, new) ==
  [i \in DOMAIN GroupsOf(context, old, new) |->
     SpanOf(context, old \cap new, GroupsOf(context, old, new)[i])]

(* Spans are stretches of the file, in order and apart from each other,    *)
(* and all changed lines are in one.                                       *)
AreStretches(sp, m, old, new) ==
  /\ m \in Nat /\ DOMAIN sp = 1..m
  /\ \A i \in 1..m :
       /\ sp[i] \in SUBSET (old \cup new) /\ sp[i] # {}
       /\ \A a, b \in sp[i], n \in old \cup new : a <= n /\ n <= b => n \in sp[i]
  /\ \A i, j \in 1..m : i < j => \A a \in sp[i], b \in sp[j] : a < b
  /\ \A n \in SymDiff(old, new) : \E i \in 1..m : n \in sp[i]

(* The spans of the groups of a diff are stretches of both sides, in order   *)
(* and apart, and hold every changed line.                                   *)
LEMMA SpansAreStretches ==
  ASSUME NEW context \in Nat, NEW old \in SUBSET Int, IsFiniteSet(old),
         NEW new \in SUBSET Int, IsFiniteSet(new)
  PROVE  LET sp == Spans(context, old, new)
             m == Cardinality(Firsts(context, old \cap new, SymDiff(old, new)))
         IN  /\ AreStretches(sp, m, old, new)
             /\ DOMAIN GroupsOf(context, old, new) = 1..m
             /\ \A i \in 1..m : GroupsOf(context, old, new)[i] = sp[i] \cap SymDiff(old, new)
<1> DEFINE common == old \cap new
           changed == SymDiff(old, new)
           firsts == Firsts(context, common, changed)
           m == Cardinality(firsts)
           F == InOrder(firsts)
           g == GroupsOf(context, old, new)
           sp == Spans(context, old, new)
           B(n) == Below(common, n)
<1>1. /\ common \in SUBSET Int /\ IsFiniteSet(common)
      /\ changed \in SUBSET Int /\ IsFiniteSet(changed)
      /\ changed \cap common = {} /\ changed \cup common = old \cup new
  <2>1. IsFiniteSet(old \cup new) /\ common \in SUBSET (old \cup new) /\ changed \in SUBSET (old \cup new)
    BY FS_Union DEF SymDiff
  <2>2. IsFiniteSet(common) /\ IsFiniteSet(changed)
    BY <2>1, FS_Subset
  <2> QED
    BY <2>2 DEF SymDiff
<1> HIDE DEF common, changed
<1>2. firsts \in SUBSET changed /\ firsts \in SUBSET Int /\ IsFiniteSet(firsts)
  <2>1. firsts \in SUBSET changed
    BY DEF Firsts
  <2> QED
    BY <1>1, <2>1, FS_Subset
<1>3. F \in Rising /\ ToSet(F) = firsts /\ Len(F) = m /\ m \in Nat
  BY <1>2, InOrderRises
<1>4. DOMAIN g = 1..m /\ DOMAIN sp = 1..m
  BY DEF GroupsOf, Groups, Spans, common, changed
<1>5. ASSUME NEW i \in 1..m
      PROVE  g[i] = Group(changed, firsts, F[i]) /\ sp[i] = SpanOf(context, common, g[i])
  BY <1>4, <1>5 DEF GroupsOf, Groups, Spans, InOrder, common, changed
<1>6. \A n \in Int : B(n) \in Nat
  BY <1>1, BelowGrows
<1>7. \A n, k \in Int : n <= k => B(n) <= B(k)
  BY <1>1, BelowGrows
<1>8. \A n \in common, k \in Int : n < k => B(n) < B(k)
  BY <1>1, BelowGrows
<1> HIDE DEF firsts, m, F, g, sp, B
(* A group begins with its first line. *)
<1>9. ASSUME NEW i \in 1..m
      PROVE  /\ F[i] \in firsts /\ F[i] \in g[i]
             /\ g[i] \in SUBSET changed /\ IsFiniteSet(g[i])
             /\ \A n \in g[i] : F[i] <= n
             /\ Min(g[i]) = F[i]
             /\ Max(g[i]) \in g[i] /\ \A n \in g[i] : n <= Max(g[i])
  <2>1. F[i] \in firsts /\ F[i] \in Int
    BY <1>3, RisingIs
  <2>2. g[i] = {n \in changed : F[i] <= n /\ ~\E f \in firsts : F[i] < f /\ f <= n}
    BY <1>5 DEF Group
  <2>3. F[i] \in g[i]
    <3>1. F[i] <= F[i] /\ ~\E f \in firsts : F[i] < f /\ f <= F[i]
      BY <1>2, <2>1
    <3> QED
      BY <1>2, <2>1, <2>2, <3>1
  <2>4. g[i] \in SUBSET changed /\ IsFiniteSet(g[i]) /\ g[i] \in SUBSET Int
    <3>1. g[i] \in SUBSET changed
      BY <2>2
    <3> QED
      BY <1>1, <3>1, FS_Subset
  <2>5. \A n \in g[i] : F[i] <= n
    BY <2>2
  <2>6. /\ Min(g[i]) \in g[i] /\ \A n \in g[i] : Min(g[i]) <= n
        /\ Max(g[i]) \in g[i] /\ \A n \in g[i] : n <= Max(g[i])
    BY <2>3, <2>4, SpanEnds
  <2>7. Min(g[i]) = F[i]
    <3>1. Min(g[i]) <= F[i] /\ F[i] <= Min(g[i]) /\ Min(g[i]) \in Int
      BY <2>3, <2>4, <2>5, <2>6
    <3> QED
      BY <2>1, <3>1
  <2> QED
    BY <2>1, <2>3, <2>4, <2>5, <2>6, <2>7
<1>10. ASSUME NEW i \in 1..m
       PROVE  sp[i] = g[i] \cup {k \in common : B(F[i]) - B(k) <= context /\ B(k) - B(Max(g[i])) < context}
  BY <1>5, <1>9 DEF SpanOf, B
(* How far a span reaches, in common lines. *)
<1>11. ASSUME NEW i \in 1..m, NEW n \in sp[i]
       PROVE  /\ n \in Int /\ n \in old \cup new
              /\ B(F[i]) - B(n) <= context /\ B(n) - B(Max(g[i])) <= context
              /\ n \in common => B(n) - B(Max(g[i])) < context
  <2>1. F[i] \in Int /\ Max(g[i]) \in Int
    BY <1>1, <1>2, <1>9
  <2>2. CASE n \in g[i]
    <3>1. n \in changed /\ n \in Int /\ F[i] <= n /\ n <= Max(g[i])
      BY <1>1, <1>9, <2>2
    <3>2. B(F[i]) <= B(n) /\ B(n) <= B(Max(g[i])) /\ B(F[i]) \in Nat /\ B(n) \in Nat /\ B(Max(g[i])) \in Nat
      BY <1>6, <1>7, <2>1, <3>1
    <3>3. n \notin common
      BY <1>1, <3>1
    <3> QED
      BY <1>1, <3>1, <3>2, <3>3
  <2>3. CASE n \notin g[i]
    <3>1. n \in common /\ n \in Int /\ B(F[i]) - B(n) <= context /\ B(n) - B(Max(g[i])) < context
      BY <1>1, <1>10, <2>3
    <3>2. B(n) \in Nat /\ B(Max(g[i])) \in Nat
      BY <1>6, <2>1, <3>1
    <3> QED
      BY <1>1, <3>1, <3>2
  <2> QED
    BY <2>2, <2>3
<1>12. ASSUME NEW i \in 1..m, NEW j \in 1..m, i < j, NEW a \in sp[i], NEW b \in sp[j]
       PROVE  a < b
  <2>1. F[i] < F[j] /\ F[i] \in Int /\ F[j] \in Int /\ F[j] \in firsts
    BY <1>3, <1>12, RisingIs
  <2>2. Max(g[i]) \in changed /\ Max(g[i]) \in Int /\ Max(g[i]) < F[j]
    <3>1. Max(g[i]) \in g[i]
      BY <1>9
    <3>2. ~(F[j] <= Max(g[i]))
      BY <1>5, <2>1, <3>1 DEF Group
    <3>3. Max(g[i]) \in changed /\ Max(g[i]) \in Int
      BY <1>1, <1>9
    <3> QED
      BY <2>1, <3>2, <3>3
  <2>3. B(F[j]) - B(Max(g[i])) > 2 * context
    BY <2>1, <2>2 DEF firsts, Firsts, B
  <2>4. /\ B(a) \in Nat /\ B(b) \in Nat /\ B(F[j]) \in Nat /\ B(Max(g[i])) \in Nat
        /\ a \in Int /\ b \in Int
    BY <1>6, <1>11, <2>1, <2>2
  <2>5. B(a) - B(Max(g[i])) <= context /\ B(F[j]) - B(b) <= context
    BY <1>11
  <2>6. B(a) < B(b)
    BY <2>3, <2>4, <2>5
  <2>7. ~(b <= a)
    BY <1>7, <2>4, <2>6
  <2> QED
    BY <2>4, <2>7
(* Each changed line is in the group of the last first line up to it. *)
<1>13. ASSUME NEW n \in changed
       PROVE  \E i \in 1..m : n \in g[i]
  <2> DEFINE before == {k \in changed : k <= n}
             upTo == {f \in firsts : f <= n}
  <2>1. n \in Int /\ n \in before
    BY <1>1
  <2>2. /\ before \in SUBSET Int /\ IsFiniteSet(before)
        /\ upTo \in SUBSET Int /\ IsFiniteSet(upTo)
    BY <1>1, <1>2, FS_Subset
  <2>3. Min(before) \in before /\ \A k \in before : Min(before) <= k
    BY <2>1, <2>2, SpanEnds
  <2>4. Min(before) \in upTo
    <3>1. ASSUME NEW k \in changed, k < Min(before)
          PROVE  FALSE
      <4>1. k \in Int /\ Min(before) \in Int /\ Min(before) <= n
        BY <1>1, <2>2, <2>3
      <4>2. k \in before
        BY <2>1, <3>1, <4>1
      <4> QED
        BY <2>3, <3>1, <4>1, <4>2
    <3> QED
      BY <2>3, <3>1 DEF firsts, Firsts
  <2>5. Max(upTo) \in upTo /\ \A f \in upTo : f <= Max(upTo)
    BY <2>2, <2>4, SpanEnds
  <2>6. PICK i \in 1..m : Max(upTo) = F[i]
    BY <1>3, <2>5, RisingIs
  <2>7. ~\E f \in firsts : F[i] < f /\ f <= n
    <3>1. ASSUME NEW f \in firsts, F[i] < f, f <= n
          PROVE  FALSE
      <4>1. f \in Int /\ F[i] \in Int
        BY <1>2, <1>3, RisingIs
      <4> QED
        BY <2>5, <2>6, <3>1, <4>1
    <3> QED
      BY <3>1
  <2>8. n \in g[i]
    BY <1>5, <2>5, <2>6, <2>7 DEF Group
  <2> QED
    BY <2>8
<1>14. ASSUME NEW i \in 1..m, NEW a \in sp[i], NEW b \in sp[i], NEW n \in old \cup new, a <= n, n <= b
       PROVE  n \in sp[i]
  <2>1. a \in Int /\ b \in Int /\ n \in Int
    BY <1>11
  <2>2. CASE n \in changed
    <3>1. PICK j \in 1..m : n \in g[j]
      BY <1>13, <2>2
    <3>2. n \in sp[j]
      BY <1>10, <3>1
    <3>3. ~(j < i) /\ ~(i < j)
      BY <1>12, <1>14, <2>1, <3>2
    <3>4. j = i
      BY <1>3, <3>3
    <3> QED
      BY <3>2, <3>4
  <2>3. CASE n \in common
    <3>1. F[i] \in Int /\ Max(g[i]) \in Int
      BY <1>1, <1>2, <1>9
    <3>2. /\ B(F[i]) \in Nat /\ B(Max(g[i])) \in Nat /\ B(a) \in Nat /\ B(b) \in Nat /\ B(n) \in Nat
          /\ B(a) <= B(n) /\ B(n) <= B(b)
      BY <1>6, <1>7, <1>14, <2>1, <3>1
    <3>3. B(F[i]) - B(n) <= context
      BY <1>11, <3>2
    <3>4. B(n) - B(Max(g[i])) < context
      <4>1. CASE b \in common
        <5>1. B(b) - B(Max(g[i])) < context
          BY <1>11, <4>1
        <5> QED
          BY <3>2, <5>1
      <4>2. CASE b \notin common
        <5>1. n < b
          BY <1>14, <2>1, <2>3, <4>2
        <5>2. B(n) < B(b)
          BY <1>8, <2>1, <2>3, <5>1
        <5>3. B(b) - B(Max(g[i])) <= context
          BY <1>11
        <5> QED
          BY <3>2, <5>2, <5>3
      <4> QED
        BY <4>1, <4>2
    <3> QED
      BY <1>10, <2>3, <3>3, <3>4
  <2> QED
    BY <1>1, <2>2, <2>3
<1>15. \A i \in 1..m : sp[i] \in SUBSET (old \cup new) /\ sp[i] # {}
  BY <1>9, <1>10, <1>11
<1>16. \A n \in changed : \E i \in 1..m : n \in sp[i]
  BY <1>10, <1>13
<1>17. \A i \in 1..m : g[i] = sp[i] \cap changed
  BY <1>1, <1>9, <1>10
<1>18. AreStretches(sp, m, old, new)
  BY <1>3, <1>4, <1>12, <1>14, <1>15, <1>16 DEF AreStretches, changed
<1> QED
  BY <1>4, <1>17, <1>18 DEF sp, m, firsts, common, changed, g

(***************************************************************************)
(* Recursions, and the two ways hunks are applied.                           *)
(***************************************************************************)

(* f[k] is F of k and f[k - 1], from a on. *)
IsRecursion(f, n, S, a, F) ==
  /\ f \in [0..n -> S] /\ f[0] = a
  /\ \A k \in 1..n : f[k] = F[<<k, f[k - 1]>>]

(* A recursion from a start by a step exists.                                *)
LEMMA RecursionExists ==
  ASSUME NEW n \in Nat, NEW S, NEW a \in S, NEW F \in [(1..n) \X S -> S]
  PROVE  \E f : IsRecursion(f, n, S, a, F)
<1> DEFINE IsUpTo(f, k) == f \in [0..k -> S] /\ f[0] = a /\ \A i \in 1..k : f[i] = F[<<i, f[i - 1]>>]
           Bad == {k \in 0..n : ~\E f : IsUpTo(f, k)}
<1>1. SUFFICES ASSUME Bad # {}
               PROVE  FALSE
  <2>1. n \in 0..n
    OBVIOUS
  <2> QED
    BY <1>1, <2>1 DEF IsRecursion
<1>2. PICK k \in Bad : \A j \in Bad : k <= j
  <2>1. Bad \in SUBSET Nat
    OBVIOUS
  <2> HIDE DEF Bad
  <2> QED
    BY <1>1, <2>1, LeastExists
<1>3. k \in 0..n /\ ~\E f : IsUpTo(f, k)
  OBVIOUS
<1>4. CASE k = 0
  <2>1. IsUpTo([i \in 0..0 |-> a], 0)
    OBVIOUS
  <2> QED
    BY <1>3, <1>4, <2>1
<1>5. CASE k # 0
  <2>1. k - 1 \in 0..n /\ k - 1 \notin Bad /\ k \in 1..n
    BY <1>2, <1>3, <1>5
  <2>2. PICK f : IsUpTo(f, k - 1)
    BY <2>1
  <2> DEFINE h == [i \in 0..k |-> IF i = k THEN F[<<k, f[k - 1]>>] ELSE f[i]]
  <2>3. f[k - 1] \in S /\ <<k, f[k - 1]>> \in (1..n) \X S
    BY <2>1, <2>2
  <2>4. h \in [0..k -> S]
    <3>1. \A i \in 0..k : i # k => i \in 0..(k - 1)
      BY <1>3
    <3> QED
      BY <2>2, <2>3, <3>1
  <2>5. h[0] = a
    BY <1>5, <1>3, <2>2
  <2>6. ASSUME NEW i \in 1..k
        PROVE  h[i] = F[<<i, h[i - 1]>>]
    <3>1. CASE i = k
      <4>1. h[k] = F[<<k, f[k - 1]>>] /\ h[k - 1] = f[k - 1]
        BY <1>3, <2>1
      <4> QED
        BY <3>1, <4>1
    <3>2. CASE i # k
      <4>1. h[i] = f[i] /\ h[i - 1] = f[i - 1] /\ i \in 1..(k - 1)
        BY <1>3, <3>2
      <4> QED
        BY <2>2, <4>1
    <3> QED
      BY <3>1, <3>2
  <2>7. IsUpTo(h, k)
    BY <2>4, <2>5, <2>6
  <2> QED
    BY <1>3, <2>7
<1> QED
  BY <1>4, <1>5 DEF IsRecursion

(* What is replaced in a file leaves a file.                               *)
Image == Seq(Int) \cup {Refused}

(* A replacement gives a sequence of lines or is refused.                    *)
LEMMA ReplacedIsImage ==
  ASSUME NEW image \in Seq(Int), NEW at \in Int, NEW old \in Seq(Int), NEW new \in Seq(Int)
  PROVE  Replaced(image, at, old, new) \in Image
<1>1. CASE at < 0 \/ at + Len(old) > Len(image)
  BY <1>1 DEF Replaced, Image
<1>2. CASE ~(at < 0) /\ ~(at + Len(old) > Len(image))
  <2>1. Len(image) \in Nat /\ Len(old) \in Nat /\ at >= 0 /\ at + Len(old) <= Len(image)
    BY <1>2
  <2>2. SubSeq(image, 1, at) \in Seq(Int) /\ SubSeq(image, at + Len(old) + 1, Len(image)) \in Seq(Int)
    BY <2>1
  <2>3. SubSeq(image, 1, at) \o new \o SubSeq(image, at + Len(old) + 1, Len(image)) \in Seq(Int)
    BY <2>2
  <2> QED
    BY <2>3 DEF Replaced, Image
<1> QED
  BY <1>1, <1>2

HaveLines(hunks) ==
  /\ Len(hunks) \in Nat
  /\ \A i \in 1..Len(hunks) : /\ hunks[i].old \in Seq(Int) /\ hunks[i].new \in Seq(Int)
                              /\ hunks[i].os \in Int /\ hunks[i].ns \in Int

(* f[k] is the file with the last k hunks put into it.                     *)
ComesByOldLine(f, file, hunks, keys) ==
  /\ f[0] = file
  /\ \A k \in 1..Len(hunks) : f[k] = PutByOldLine(f[k - 1], hunks[Len(hunks) + 1 - k], keys)
  /\ ApplyByOldLine(file, hunks, keys) = f[Len(hunks)]

(* Application by old line numbers, step by step.                            *)
LEMMA OldLineUnfolds ==
  ASSUME NEW file \in Seq(Int), NEW hunks, NEW keys, HaveLines(hunks)
  PROVE  \E f : ComesByOldLine(f, file, hunks, keys)
<1> USE DEF HaveLines
<1> DEFINE n == Len(hunks)
           F == [x \in (1..n) \X Image |-> PutByOldLine(x[2], hunks[n + 1 - x[1]], keys)]
           IsLast(f) == f = [k \in 0..n |-> IF k = 0 THEN file ELSE PutByOldLine(f[k - 1], hunks[n + 1 - k], keys)]
<1>1. ASSUME NEW k \in 1..n, NEW image \in Image
      PROVE  PutByOldLine(image, hunks[n + 1 - k], keys) \in Image
  <2>1. n + 1 - k \in 1..n
    OBVIOUS
  <2> DEFINE h == hunks[n + 1 - k]
             at == IF h.old = <<>> THEN h.os ELSE h.os - 1
  <2>2. h.old \in Seq(Int) /\ h.new \in Seq(Int) /\ at \in Int
    BY <2>1
  <2>3. CASE image = Refused \/ Key(h) \notin keys
    BY <2>3 DEF PutByOldLine
  <2>4. CASE ~(image = Refused \/ Key(h) \notin keys)
    <3>1. image \in Seq(Int)
      BY <2>4 DEF Image
    <3>2. Replaced(image, at, h.old, h.new) \in Image
      BY <2>2, <3>1, ReplacedIsImage
    <3> QED
      BY <2>4, <3>2 DEF PutByOldLine
  <2> QED
    BY <2>3, <2>4
<1>2. F \in [(1..n) \X Image -> Image]
  BY <1>1
<1>3. file \in Image
  BY DEF Image
<1>n. n \in Nat
  OBVIOUS
<1> HIDE DEF F, n
<1>r. PICK f : IsRecursion(f, n, Image, file, F)
  BY <1>2, <1>3, <1>n, RecursionExists
<1>4. f \in [0..n -> Image] /\ f[0] = file /\ \A k \in 1..n : f[k] = F[<<k, f[k - 1]>>]
  BY <1>r DEF IsRecursion
<1>5. ASSUME NEW k \in 1..n
      PROVE  f[k] = PutByOldLine(f[k - 1], hunks[n + 1 - k], keys)
  <2>1. k - 1 \in 0..n
    BY <1>n
  <2>2. <<k, f[k - 1]>> \in (1..n) \X Image
    BY <2>1, <1>4
  <2>3. F[<<k, f[k - 1]>>] = PutByOldLine(f[k - 1], hunks[n + 1 - k], keys)
    BY <2>2 DEF F
  <2> QED
    BY <1>4, <2>3
<1>6. IsLast(f)
  <2>1. \A k \in 0..n : f[k] = IF k = 0 THEN file ELSE PutByOldLine(f[k - 1], hunks[n + 1 - k], keys)
    BY <1>4, <1>5, <1>n
  <2> QED
    BY <1>4, <2>1
<1> DEFINE c == CHOOSE g : IsLast(g)
<1>7. IsLast(c)
  BY <1>6
<1>8. c = [k \in 0..n |-> IF k = 0 THEN file ELSE PutByOldLine(c[k - 1], hunks[n + 1 - k], keys)]
  BY <1>7
<1>9. ApplyByOldLine(file, hunks, keys) = c[n]
  BY DEF ApplyByOldLine, n
<1> HIDE DEF c
<1>10. c[0] = file
  BY <1>8, <1>n
<1>11. ASSUME NEW k \in 1..n
       PROVE  c[k] = PutByOldLine(c[k - 1], hunks[n + 1 - k], keys)
  BY <1>8, <1>n
<1> QED
  BY <1>9, <1>10, <1>11 DEF n, ComesByOldLine

(* f[k] is the file with the first k hunks put into it.                    *)
ComesByNewLine(f, file, hunks, keys) ==
  /\ f[0] = [image |-> IF file = Absent THEN <<>> ELSE file, shift |-> 0]
  /\ \A k \in 1..Len(hunks) : f[k] = PutByNewLine(f[k - 1], hunks[k], keys)
  /\ ApplyByNewLine(file, hunks, keys) = f[Len(hunks)].image

(* Application by new line numbers, step by step.                            *)
LEMMA NewLineUnfolds ==
  ASSUME NEW file \in Seq(Int) \cup {Absent}, NEW hunks, NEW keys, HaveLines(hunks)
  PROVE  \E f : ComesByNewLine(f, file, hunks, keys)
<1> USE DEF HaveLines
<1> DEFINE n == Len(hunks)
           a == [image |-> IF file = Absent THEN <<>> ELSE file, shift |-> 0]
           S == [image : Image, shift : Int]
           F == [x \in (1..n) \X S |-> PutByNewLine(x[2], hunks[x[1]], keys)]
           IsUpTo(f) == f = [k \in 0..n |-> IF k = 0 THEN a ELSE PutByNewLine(f[k - 1], hunks[k], keys)]
<1>1. ASSUME NEW k \in 1..n, NEW acc \in S
      PROVE  PutByNewLine(acc, hunks[k], keys) \in S
  <2> DEFINE h == hunks[k]
             at == (IF h.ns = 0 THEN 0 ELSE h.ns - 1) + acc.shift
             shifted == acc.shift + Len(h.old) - Len(h.new)
  <2>1. acc.image \in Image /\ acc.shift \in Int /\ acc = [image |-> acc.image, shift |-> acc.shift]
    OBVIOUS
  <2>2. h.old \in Seq(Int) /\ h.new \in Seq(Int) /\ h.ns \in Int
    OBVIOUS
  <2>3. PutByNewLine(acc, h, keys) =
          IF acc.image = Refused THEN acc
          ELSE IF Key(h) \notin keys THEN [acc EXCEPT !.shift = shifted]
          ELSE [acc EXCEPT !.image = Replaced(acc.image, at, h.old, h.new)]
    BY DEF PutByNewLine
  <2> HIDE DEF S, h
  <2>4. at \in Int
    BY <2>1, <2>2
  <2>5. shifted \in Int
    <3>1. Len(h.old) \in Nat /\ Len(h.new) \in Nat
      BY <2>2
    <3> DEFINE a1 == acc.shift
               a2 == Len(h.old)
               a3 == Len(h.new)
    <3>2. a1 \in Int /\ a2 \in Int /\ a3 \in Int
      BY <2>1, <3>1
    <3> HIDE DEF a1, a2, a3
    <3>3. a1 + a2 - a3 \in Int
      BY <3>2
    <3> QED
      BY <3>3 DEF a1, a2, a3
  <2> HIDE DEF at, shifted
  <2>6. acc.image # Refused => Replaced(acc.image, at, h.old, h.new) \in Image
    <3>1. acc.image # Refused => acc.image \in Seq(Int)
      BY <2>1 DEF Image
    <3> QED
      BY <3>1, <2>2, <2>4, ReplacedIsImage
  <2>7. \A s \in Int : [acc EXCEPT !.shift = s] \in S
    BY <2>1 DEF S
  <2>8. \A i \in Image : [acc EXCEPT !.image = i] \in S
    BY <2>1 DEF S
  <2> QED
    BY <2>3, <2>5, <2>6, <2>7, <2>8 DEF h
<1>2. F \in [(1..n) \X S -> S]
  BY <1>1
<1>3. a \in S
  BY DEF Image
<1>n. n \in Nat
  OBVIOUS
<1> HIDE DEF F, n, a, S
<1>r. PICK f : IsRecursion(f, n, S, a, F)
  BY <1>2, <1>3, <1>n, RecursionExists
<1>4. f \in [0..n -> S] /\ f[0] = a /\ \A k \in 1..n : f[k] = F[<<k, f[k - 1]>>]
  BY <1>r DEF IsRecursion
<1>5. ASSUME NEW k \in 1..n
      PROVE  f[k] = PutByNewLine(f[k - 1], hunks[k], keys)
  <2>1. k - 1 \in 0..n
    BY <1>n
  <2>2. <<k, f[k - 1]>> \in (1..n) \X S
    BY <2>1, <1>4
  <2>3. F[<<k, f[k - 1]>>] = PutByNewLine(f[k - 1], hunks[k], keys)
    BY <2>2 DEF F
  <2> QED
    BY <1>4, <2>3
<1>6. IsUpTo(f)
  <2>1. \A k \in 0..n : f[k] = IF k = 0 THEN a ELSE PutByNewLine(f[k - 1], hunks[k], keys)
    BY <1>4, <1>5, <1>n
  <2> QED
    BY <1>4, <2>1
<1> DEFINE c == CHOOSE g : IsUpTo(g)
<1>7. IsUpTo(c)
  BY <1>6
<1>8. c = [k \in 0..n |-> IF k = 0 THEN a ELSE PutByNewLine(c[k - 1], hunks[k], keys)]
  BY <1>7
<1>9. ApplyByNewLine(file, hunks, keys) = c[n].image
  BY DEF ApplyByNewLine, n, a
<1> HIDE DEF c
<1>10. c[0] = a
  BY <1>8, <1>n
<1>11. ASSUME NEW k \in 1..n
       PROVE  c[k] = PutByNewLine(c[k - 1], hunks[k], keys)
  BY <1>8, <1>n
<1> QED
  BY <1>9, <1>10, <1>11 DEF n, a, ComesByNewLine

(***************************************************************************)
(* A hunk in its place.                                                      *)
(***************************************************************************)

(* The lines of a file of which some hunks are applied.                    *)
Mixed(old, new, sp, J) ==
  {n \in old : \A j \in J : n \notin sp[j]} \cup {n \in new : \E j \in J : n \in sp[j]}

IsDiff(sp, m, old, new) ==
  /\ old \in SUBSET Int /\ IsFiniteSet(old) /\ new \in SUBSET Int /\ IsFiniteSet(new)
  /\ AreStretches(sp, m, old, new)

(* A file with some hunks applied is a finite set of lines.                  *)
LEMMA MixedIsFinite ==
  ASSUME NEW old \in SUBSET Int, IsFiniteSet(old), NEW new \in SUBSET Int, IsFiniteSet(new), NEW sp, NEW J
  PROVE  Mixed(old, new, sp, J) \in SUBSET Int /\ IsFiniteSet(Mixed(old, new, sp, J))
<1>1. IsFiniteSet(old \cup new) /\ Mixed(old, new, sp, J) \in SUBSET (old \cup new)
  BY FS_Union DEF Mixed
<1> QED
  BY <1>1, FS_Subset

FallsInPlace(old, new, sp, i, J) ==
  LET L == Mixed(old, new, sp, J)
      A == old \cap sp[i]
      B == new \cap sp[i]
  IN  /\ Replaced(InOrder(L), Below(L, Min(sp[i])), InOrder(A), InOrder(B))
            = InOrder(Mixed(old, new, sp, J \cup {i}))
      /\ \A at \in Int : A # {} /\ at # Below(L, Min(sp[i])) =>
            Replaced(InOrder(L), at, InOrder(A), InOrder(B)) = Refused

(* One more hunk, put where its old lines are, is one more hunk applied;   *)
(* anywhere else it does not apply, unless it has no old lines.            *)
LEMMA HunkFallsInPlace ==
  ASSUME NEW sp, NEW m, NEW old, NEW new, IsDiff(sp, m, old, new),
         NEW i \in 1..m, NEW J \in SUBSET (1..m), i \notin J
  PROVE  FallsInPlace(old, new, sp, i, J)
<1> USE DEF IsDiff
<1> DEFINE L == Mixed(old, new, sp, J)
           A == old \cap sp[i]
           B == new \cap sp[i]
           lo == Min(sp[i])
           hi == Max(sp[i])
<1>1. L \in SUBSET Int /\ IsFiniteSet(L)
  BY MixedIsFinite
<1>2. /\ m \in Nat
      /\ sp[i] \in SUBSET (old \cup new) /\ sp[i] \in SUBSET Int /\ sp[i] # {} /\ IsFiniteSet(sp[i])
      /\ \A a, b \in sp[i], n \in old \cup new : a <= n /\ n <= b => n \in sp[i]
  <2>1. IsFiniteSet(old \cup new)
    BY FS_Union
  <2>2. sp[i] \in SUBSET (old \cup new) /\ sp[i] # {}
    BY DEF AreStretches
  <2>3. IsFiniteSet(sp[i])
    BY <2>1, <2>2, FS_Subset
  <2> QED
    BY <2>2, <2>3 DEF AreStretches
<1>3. /\ lo \in sp[i] /\ hi \in sp[i] /\ lo \in Int /\ hi \in Int /\ lo <= hi
      /\ \A n \in sp[i] : lo <= n /\ n <= hi
  BY <1>2, SpanEnds
<1>4. \A n \in old \cup new : n \in sp[i] <=> lo <= n /\ n <= hi
  BY <1>2, <1>3
<1>5. ASSUME NEW j \in J, NEW n \in sp[j]
      PROVE  n \notin sp[i]
  <2>1. j \in 1..m /\ j # i
    OBVIOUS
  <2>2. j < i \/ i < j
    BY <1>2, <2>1
  <2>3. \A a \in sp[i], b \in sp[j] : a < b \/ b < a
    BY <2>1, <2>2 DEF AreStretches
  <2>4. n \in Int
    BY <2>1 DEF AreStretches
  <2> QED
    BY <2>3, <2>4
<1>6. A \in SUBSET L
  BY <1>5 DEF Mixed
<1>7. ASSUME NEW n \in L
      PROVE  n \in A <=> lo <= n /\ n <= hi
  <2>1. n \in old \cup new
    BY DEF Mixed
  <2>2. n \in sp[i] => n \in A
    BY <1>5 DEF Mixed
  <2> QED
    BY <1>4, <2>1, <2>2
<1>8. B \in SUBSET Int /\ IsFiniteSet(B) /\ \A n \in B : lo <= n /\ n <= hi
  <2>1. B \in SUBSET new
    OBVIOUS
  <2> QED
    BY <1>3, <2>1, FS_Subset
<1>9. (L \ A) \cup B = Mixed(old, new, sp, J \cup {i})
  BY <1>5 DEF Mixed
<1> HIDE DEF L, A, B, lo, hi
<1>10. IsStretch(L, A, B, lo, hi)
  <2>1. \A n \in L : n \in A <=> lo <= n /\ n <= hi
    BY <1>7
  <2>2. L \in SUBSET Int /\ IsFiniteSet(L) /\ A \in SUBSET L /\ B \in SUBSET Int /\ IsFiniteSet(B)
    BY <1>1, <1>6, <1>8
  <2>3. lo \in Int /\ hi \in Int /\ lo <= hi /\ \A n \in B : lo <= n /\ n <= hi
    BY <1>3, <1>8
  <2> QED
    BY <2>1, <2>2, <2>3 DEF IsStretch
<1>11. Replaced(InOrder(L), Below(L, lo), InOrder(A), InOrder(B)) = InOrder((L \ A) \cup B)
  BY <1>10, StretchReplaced
<1>12. ASSUME NEW at \in Int, A # {}, at # Below(L, lo)
       PROVE  Replaced(InOrder(L), at, InOrder(A), InOrder(B)) = Refused
  BY <1>10, <1>12, StretchElsewhere
<1>13. Replaced(InOrder(L), Below(L, lo), InOrder(A), InOrder(B)) = InOrder(Mixed(old, new, sp, J \cup {i}))
  BY <1>9, <1>11
<1> QED
  BY <1>12, <1>13 DEF L, A, B, lo, FallsInPlace

(* The lines before a hunk: untouched as long as only later hunks are      *)
(* applied, the new ones when all earlier hunks are.                       *)
LEMMA BeforeHunk ==
  ASSUME NEW sp, NEW m, NEW old, NEW new, IsDiff(sp, m, old, new), NEW i \in 1..m
  PROVE  /\ \A J \in SUBSET ((i + 1)..m) :
              Below(Mixed(old, new, sp, J), Min(sp[i])) = Below(old, Min(sp[i]))
         /\ Below(Mixed(old, new, sp, 1..(i - 1)), Min(sp[i])) = Below(new, Min(sp[i]))
         /\ Min(sp[i]) \in sp[i] /\ Min(sp[i]) \in Int
<1> USE DEF IsDiff
<1> DEFINE lo == Min(sp[i])
<1>1. /\ m \in Nat /\ sp[i] \in SUBSET (old \cup new) /\ sp[i] \in SUBSET Int /\ sp[i] # {}
      /\ IsFiniteSet(sp[i])
  <2>1. IsFiniteSet(old \cup new)
    BY FS_Union
  <2>2. sp[i] \in SUBSET (old \cup new) /\ sp[i] # {}
    BY DEF AreStretches
  <2>3. IsFiniteSet(sp[i])
    BY <2>1, <2>2, FS_Subset
  <2> QED
    BY <2>2, <2>3 DEF AreStretches
<1>2. lo \in sp[i] /\ lo \in Int /\ \A n \in sp[i] : lo <= n
  BY <1>1, SpanEnds
<1> HIDE DEF lo
<1>3. \A j \in 1..m : sp[j] \in SUBSET Int
  BY DEF AreStretches
<1>4. ASSUME NEW j \in 1..m, i <= j, NEW n \in sp[j]
      PROVE  ~(n < lo)
  <2>1. CASE j = i
    BY <1>1, <1>2, <2>1
  <2>2. CASE i < j
    <3>1. lo < n
      BY <1>2, <2>2 DEF AreStretches
    <3> QED
      BY <1>2, <1>3, <3>1
  <2> QED
    BY <1>1, <1>4, <2>1, <2>2
<1>5. ASSUME NEW J \in SUBSET ((i + 1)..m)
      PROVE  Below(Mixed(old, new, sp, J), lo) = Below(old, lo)
  <2>1. \A j \in J : j \in 1..m /\ i <= j
    BY <1>1
  <2>2. {n \in Mixed(old, new, sp, J) : n < lo} = {n \in old : n < lo}
    BY <1>4, <2>1 DEF Mixed
  <2> QED
    BY <2>2 DEF Below
<1>6. Below(Mixed(old, new, sp, 1..(i - 1)), lo) = Below(new, lo)
  <2>1. ASSUME NEW n \in old \cup new, n < lo
        PROVE  n \in Mixed(old, new, sp, 1..(i - 1)) <=> n \in new
    <3>1. CASE n \in SymDiff(old, new)
      <4>1. PICK j \in 1..m : n \in sp[j]
        BY <3>1 DEF AreStretches
      <4>2. j \in 1..(i - 1)
        BY <1>1, <1>4, <2>1, <4>1
      <4> QED
        BY <4>1, <4>2 DEF Mixed
    <3>2. CASE n \notin SymDiff(old, new)
      <4>1. n \in old /\ n \in new
        BY <3>2 DEF SymDiff
      <4> QED
        BY <4>1 DEF Mixed
    <3> QED
      BY <3>1, <3>2
  <2>2. {n \in Mixed(old, new, sp, 1..(i - 1)) : n < lo} = {n \in new : n < lo}
    <3>1. \A n \in Mixed(old, new, sp, 1..(i - 1)) : n \in old \cup new
      BY DEF Mixed
    <3> QED
      BY <2>1, <3>1
  <2> QED
    BY <2>2 DEF Below
<1> QED
  BY <1>2, <1>5, <1>6 DEF lo

(* Exchanged stretches leave what lies elsewhere.                            *)
LEMMA Exchanged ==
  ASSUME NEW S, IsFiniteSet(S), NEW A \in SUBSET S, NEW B, IsFiniteSet(B), B \cap (S \ A) = {}
  PROVE  /\ Cardinality((S \ A) \cup B) = Cardinality(S) - Cardinality(A) + Cardinality(B)
         /\ Cardinality(A) \in Nat /\ Cardinality(B) \in Nat /\ Cardinality(S) \in Nat
<1> DEFINE R == S \ A
<1>1. IsFiniteSet(A) /\ IsFiniteSet(R) /\ R \cap A = {} /\ R \cup A = S /\ R \cap B = {}
  BY FS_Subset
<1> HIDE DEF R
<1>2. /\ Cardinality(R) \in Nat /\ Cardinality(A) \in Nat /\ Cardinality(B) \in Nat
      /\ Cardinality(S) \in Nat /\ Cardinality({}) = 0
  BY <1>1, FS_CardinalityType, FS_EmptySet
<1>3. Cardinality(S) = Cardinality(R) + Cardinality(A)
  <2>1. Cardinality(R \cup A) = Cardinality(R) + Cardinality(A) - Cardinality(R \cap A)
    BY <1>1, FS_Union
  <2>2. Cardinality(R \cap A) = 0 /\ Cardinality(R \cup A) = Cardinality(S)
    BY <1>1, <1>2
  <2> QED
    BY <1>2, <2>1, <2>2
<1>4. Cardinality(R \cup B) = Cardinality(R) + Cardinality(B)
  <2>1. Cardinality(R \cup B) = Cardinality(R) + Cardinality(B) - Cardinality(R \cap B)
    BY <1>1, FS_Union
  <2>2. Cardinality(R \cap B) = 0
    BY <1>1, <1>2
  <2> QED
    BY <1>1, <1>2, <2>1, <2>2
<1>5. Cardinality(R \cup B) = Cardinality(S) - Cardinality(A) + Cardinality(B)
  BY <1>2, <1>3, <1>4
<1> QED
  BY <1>2, <1>5 DEF R

(* What a hunk adds to the number of the lines behind it.                  *)
AddsItsLines(old, new, sp, J, i, x) ==
  /\ Below(Mixed(old, new, sp, J \cup {i}), x) =
       Below(Mixed(old, new, sp, J), x) - Cardinality(old \cap sp[i]) + Cardinality(new \cap sp[i])
  /\ Cardinality(old \cap sp[i]) \in Nat /\ Cardinality(new \cap sp[i]) \in Nat
  /\ Below(Mixed(old, new, sp, J), x) \in Nat

(* Behind a hunk that is applied, places move by the lines it adds.          *)
LEMMA BehindHunk ==
  ASSUME NEW sp, NEW m, NEW old, NEW new, IsDiff(sp, m, old, new),
         NEW i \in 1..m, NEW J \in SUBSET (1..m), i \notin J,
         NEW x \in Int, \A n \in sp[i] : n < x
  PROVE  AddsItsLines(old, new, sp, J, i, x)
<1> USE DEF IsDiff
<1> DEFINE S == {n \in Mixed(old, new, sp, J) : n < x}
           A == old \cap sp[i]
           B == new \cap sp[i]
<1>1. IsFiniteSet(S)
  BY MixedIsFinite, FS_Subset
<1>2. ASSUME NEW j \in J, NEW n \in sp[j]
      PROVE  n \notin sp[i]
  <2>1. j \in 1..m /\ j # i /\ m \in Nat
    BY DEF AreStretches
  <2>2. j < i \/ i < j
    BY <2>1
  <2>3. \A a \in sp[i], b \in sp[j] : a < b \/ b < a
    BY <2>1, <2>2 DEF AreStretches
  <2>4. n \in Int
    BY <2>1 DEF AreStretches
  <2> QED
    BY <2>3, <2>4
<1>3. A \in SUBSET S
  BY <1>2 DEF Mixed
<1>4. IsFiniteSet(B)
  BY FS_Subset
<1>5. B \cap (S \ A) = {}
  BY <1>2 DEF Mixed
<1>6. {n \in Mixed(old, new, sp, J \cup {i}) : n < x} = (S \ A) \cup B
  BY <1>2 DEF Mixed
<1> HIDE DEF S, A, B
<1>7. /\ Cardinality((S \ A) \cup B) = Cardinality(S) - Cardinality(A) + Cardinality(B)
      /\ Cardinality(A) \in Nat /\ Cardinality(B) \in Nat /\ Cardinality(S) \in Nat
  BY <1>1, <1>3, <1>4, <1>5, Exchanged
<1> QED
  BY <1>6, <1>7 DEF S, A, B, Below, AddsItsLines

(* With all hunks a file is the new one, with none the old.                  *)
LEMMA AllOrNothing ==
  ASSUME NEW sp, NEW m, NEW old, NEW new, IsDiff(sp, m, old, new)
  PROVE  Mixed(old, new, sp, {}) = old /\ Mixed(old, new, sp, 1..m) = new
<1> USE DEF IsDiff
<1>1. Mixed(old, new, sp, {}) = old
  BY DEF Mixed
<1>2. ASSUME NEW n
      PROVE  n \in Mixed(old, new, sp, 1..m) <=> n \in new
  <2>1. n \in SymDiff(old, new) => \E i \in 1..m : n \in sp[i]
    BY DEF AreStretches
  <2> QED
    BY <2>1 DEF Mixed, SymDiff
<1> QED
  BY <1>1, <1>2

(* What holds of the hunks of one file.                                      *)
AreHunks(hs, path, old, new, sp, m) ==
  /\ IsDiff(sp, m, old, new)
  /\ Len(hs) = m /\ DOMAIN hs = 1..m
  /\ \A i \in 1..m : hs[i] = Hunk(path, old, new, sp[i] \cap SymDiff(old, new), sp[i])

(* The hunks of a diff are made of its spans.                                *)
LEMMA FileHunksAre ==
  ASSUME NEW context \in Nat, NEW path, NEW old \in SUBSET Int, IsFiniteSet(old),
         NEW new \in SUBSET Int, IsFiniteSet(new)
  PROVE  \E sp, m : AreHunks(FileHunks(context, path, old, new), path, old, new, sp, m)
<1> DEFINE sp == Spans(context, old, new)
           m == Cardinality(Firsts(context, old \cap new, SymDiff(old, new)))
           hs == FileHunks(context, path, old, new)
           g == GroupsOf(context, old, new)
<1>1. /\ AreStretches(sp, m, old, new) /\ DOMAIN g = 1..m
      /\ \A i \in 1..m : g[i] = sp[i] \cap SymDiff(old, new)
  BY SpansAreStretches
<1>2. hs = [i \in 1..m |-> Hunk(path, old, new, g[i], SpanOf(context, old \cap new, g[i]))]
  BY <1>1 DEF FileHunks, HunksOfGroups, GroupsOf
<1>3. \A i \in 1..m : sp[i] = SpanOf(context, old \cap new, g[i])
  BY <1>1 DEF Spans
<1>4. m \in Nat
  BY <1>1 DEF AreStretches
<1> HIDE DEF m, g, sp, hs
<1>5. Len(hs) = m
  <2>1. hs \in Seq({hs[i] : i \in 1..m}) /\ DOMAIN hs = 1..m
    BY <1>2, <1>4
  <2> QED
    BY <1>4, <2>1
<1>6. \A i \in 1..m : hs[i] = Hunk(path, old, new, sp[i] \cap SymDiff(old, new), sp[i])
  BY <1>1, <1>2, <1>3
<1>7. DOMAIN hs = 1..m
  BY <1>2
<1>8. AreHunks(hs, path, old, new, sp, m)
  BY <1>1, <1>5, <1>6, <1>7 DEF AreHunks, IsDiff
<1> QED
  BY <1>8 DEF hs

(***************************************************************************)
(* Application by old line numbers.                                          *)
(***************************************************************************)

(* A sequence of lines is not the refusal.                                   *)
LEMMA NotRefused ==
  ASSUME NEW S \in SUBSET Int, IsFiniteSet(S)
  PROVE  InOrder(S) # Refused /\ InOrder(S) # Absent /\ InOrder(S) \in Seq(Int)
<1>1. InOrder(S) \in Seq(Int)
  BY InOrderRises, RisingIs
<1> QED
  BY <1>1, HunksAssumption

(* The sides of a hunk and where they start.                               *)
HasSides(h, old, new, span) ==
  /\ h.old = InOrder(old \cap span) /\ h.new = InOrder(new \cap span)
  /\ h.old \in Seq(Int) /\ h.new \in Seq(Int)
  /\ Len(h.old) = Cardinality(old \cap span) /\ Len(h.new) = Cardinality(new \cap span)
  /\ h.old = <<>> <=> old \cap span = {}
  /\ h.os = Below(old, Min(span)) + (IF old \cap span = {} THEN 0 ELSE 1)
  /\ h.ns = Below(new, Min(span)) + (IF new \cap span = {} THEN 0 ELSE 1)
  /\ Below(old, Min(span)) \in Nat /\ Below(new, Min(span)) \in Nat
  /\ old \cap span # {} \/ new \cap span # {}

(* A hunk starts before its lines, on both sides.                            *)
LEMMA HunkSides ==
  ASSUME NEW hs, NEW path, NEW old, NEW new, NEW sp, NEW m, AreHunks(hs, path, old, new, sp, m),
         NEW i \in 1..m
  PROVE  HasSides(hs[i], old, new, sp[i])
<1> DEFINE A == old \cap sp[i]
           B == new \cap sp[i]
<1>1. /\ A \in SUBSET Int /\ IsFiniteSet(A) /\ B \in SUBSET Int /\ IsFiniteSet(B)
      /\ A # {} \/ B # {}
  <2>1. sp[i] \in SUBSET (old \cup new) /\ sp[i] # {}
    BY DEF AreHunks, IsDiff, AreStretches
  <2>2. A # {} \/ B # {}
    BY <2>1
  <2> QED
    BY <2>2, FS_Subset DEF AreHunks, IsDiff
<1>2. Min(sp[i]) \in Int
  BY BeforeHunk DEF AreHunks
<1> HIDE DEF A, B
<1>3. /\ hs[i].old = InOrder(A) /\ hs[i].new = InOrder(B)
      /\ hs[i].os = StartOf(old, sp[i]) /\ hs[i].ns = StartOf(new, sp[i])
  <2>1. hs[i] = Hunk(path, old, new, sp[i] \cap SymDiff(old, new), sp[i])
    BY DEF AreHunks
  <2> QED
    BY <2>1 DEF Hunk, A, B
<1>4. /\ InOrder(A) \in Seq(Int) /\ Len(InOrder(A)) = Cardinality(A) /\ ToSet(InOrder(A)) = A
      /\ InOrder(B) \in Seq(Int) /\ Len(InOrder(B)) = Cardinality(B)
  BY <1>1, InOrderRises, RisingIs
<1>5. InOrder(A) = <<>> <=> A = {}
  <2>1. A = {} => Len(InOrder(A)) = 0
    BY <1>4, FS_EmptySet
  <2>2. Len(InOrder(A)) = 0 => InOrder(A) = <<>>
    BY <1>4
  <2>3. ToSet(<<>>) = {}
    BY DEF ToSet
  <2> QED
    BY <1>4, <2>1, <2>2, <2>3
<1>6. Below(old, Min(sp[i])) \in Nat /\ Below(new, Min(sp[i])) \in Nat
  BY <1>2, BelowGrows DEF AreHunks, IsDiff
<1> QED
  BY <1>1, <1>3, <1>4, <1>5, <1>6 DEF A, B, StartOf, HasSides

PutsByOldLine(h, keys, old, new, sp, i, J) ==
  /\ Key(h) \in keys =>
       PutByOldLine(InOrder(Mixed(old, new, sp, J)), h, keys) = InOrder(Mixed(old, new, sp, J \cup {i}))
  /\ Key(h) \notin keys =>
       PutByOldLine(InOrder(Mixed(old, new, sp, J)), h, keys) = InOrder(Mixed(old, new, sp, J))

(* From the last hunk up, old line numbers are true.                       *)
LEMMA OldLineStep ==
  ASSUME NEW hs, NEW path, NEW old, NEW new, NEW sp, NEW m, AreHunks(hs, path, old, new, sp, m),
         NEW i \in 1..m, NEW J \in SUBSET ((i + 1)..m), NEW keys
  PROVE  PutsByOldLine(hs[i], keys, old, new, sp, i, J)
<1> DEFINE L == Mixed(old, new, sp, J)
           at == IF hs[i].old = <<>> THEN hs[i].os ELSE hs[i].os - 1
<1>1. L \in SUBSET Int /\ IsFiniteSet(L)
  BY MixedIsFinite DEF AreHunks, IsDiff
<1>2. InOrder(L) # Refused
  BY <1>1, NotRefused
<1>3. at = Below(L, Min(sp[i]))
  <2>1. Below(L, Min(sp[i])) = Below(old, Min(sp[i]))
    BY BeforeHunk DEF AreHunks
  <2>2. /\ hs[i].old = <<>> <=> old \cap sp[i] = {}
        /\ hs[i].os = Below(old, Min(sp[i])) + (IF old \cap sp[i] = {} THEN 0 ELSE 1)
        /\ Below(old, Min(sp[i])) \in Nat
    BY HunkSides DEF HasSides
  <2> HIDE DEF L
  <2> QED
    BY <2>1, <2>2
<1>4. J \in SUBSET (1..m) /\ i \notin J
  BY DEF AreHunks, IsDiff, AreStretches
<1>5. Replaced(InOrder(L), Below(L, Min(sp[i])), hs[i].old, hs[i].new)
        = InOrder(Mixed(old, new, sp, J \cup {i}))
  <2>1. Replaced(InOrder(L), Below(L, Min(sp[i])), InOrder(old \cap sp[i]), InOrder(new \cap sp[i]))
          = InOrder(Mixed(old, new, sp, J \cup {i}))
    BY <1>4, HunkFallsInPlace DEF AreHunks, FallsInPlace
  <2>2. hs[i].old = InOrder(old \cap sp[i]) /\ hs[i].new = InOrder(new \cap sp[i])
    BY HunkSides DEF HasSides
  <2> HIDE DEF L
  <2> QED
    BY <2>1, <2>2
<1> HIDE DEF L
<1> QED
  BY <1>2, <1>3, <1>5 DEF PutByOldLine, PutsByOldLine, L

(* By old line numbers every hunk of keys falls in its place.                *)
LEMMA AppliedByOldLine ==
  ASSUME NEW hs, NEW path, NEW old, NEW new, NEW sp, NEW m, AreHunks(hs, path, old, new, sp, m),
         NEW keys
  PROVE  ApplyByOldLine(InOrder(old), hs, keys)
           = InOrder(Mixed(old, new, sp, {i \in 1..m : Key(hs[i]) \in keys}))
<1> DEFINE J(k) == {i \in (m + 1 - k)..m : Key(hs[i]) \in keys}
<1>1. m \in Nat /\ Len(hs) = m
  BY DEF AreHunks, IsDiff, AreStretches
<1>2. InOrder(old) \in Seq(Int)
  BY NotRefused DEF AreHunks, IsDiff
<1>3. HaveLines(hs)
  <2>1. ASSUME NEW i \in 1..m
        PROVE  hs[i].old \in Seq(Int) /\ hs[i].new \in Seq(Int) /\ hs[i].os \in Int /\ hs[i].ns \in Int
    <3>1. HasSides(hs[i], old, new, sp[i])
      BY HunkSides
    <3> QED
      BY <3>1 DEF HasSides
  <2> QED
    BY <1>1, <2>1 DEF HaveLines
<1>c. PICK f : ComesByOldLine(f, InOrder(old), hs, keys)
  BY <1>2, <1>3, OldLineUnfolds
<1>4. /\ f[0] = InOrder(old)
      /\ \A k \in 1..m : f[k] = PutByOldLine(f[k - 1], hs[m + 1 - k], keys)
      /\ ApplyByOldLine(InOrder(old), hs, keys) = f[m]
  BY <1>1, <1>c DEF ComesByOldLine
<1> DEFINE Bad == {k \in 0..m : f[k] # InOrder(Mixed(old, new, sp, J(k)))}
<1>5. Bad = {}
  <2>1. SUFFICES ASSUME Bad # {}
                 PROVE  FALSE
    OBVIOUS
  <2>2. Bad \in SUBSET Nat
    OBVIOUS
  <2>3. PICK k \in Bad : \A y \in Bad : k <= y
    <3> HIDE DEF Bad
    <3> QED
      BY <2>1, <2>2, LeastExists
  <2>4. k \in 0..m /\ f[k] # InOrder(Mixed(old, new, sp, J(k)))
    OBVIOUS
  <2>5. k # 0
    <3>1. J(0) = {}
      BY <1>1
    <3>2. Mixed(old, new, sp, {}) = old
      BY AllOrNothing DEF AreHunks
    <3> QED
      BY <1>4, <2>4, <3>1, <3>2
  <2> DEFINE i == m + 1 - k
  <2>6. k \in 1..m /\ k - 1 \in 0..m /\ k - 1 < k /\ i \in 1..m
    BY <1>1, <2>4, <2>5
  <2>7. f[k - 1] = InOrder(Mixed(old, new, sp, J(k - 1)))
    <3>1. k - 1 \notin Bad
      BY <2>3, <2>6
    <3> QED
      BY <2>6, <3>1
  <2>8. J(k - 1) \in SUBSET ((i + 1)..m)
    BY <1>1, <2>6
  <2>9. J(k) = IF Key(hs[i]) \in keys THEN J(k - 1) \cup {i} ELSE J(k - 1)
    <3>1. \A j \in Int : j \in (m + 1 - k)..m <=> j = i \/ j \in (m + 1 - (k - 1))..m
      BY <1>1, <2>6
    <3> QED
      BY <2>6, <3>1
  <2> HIDE DEF J, i, Bad
  <2>10. f[k] = InOrder(Mixed(old, new, sp, J(k)))
    <3>1. f[k] = PutByOldLine(f[k - 1], hs[i], keys)
      BY <1>4, <2>6 DEF i
    <3>2. PutsByOldLine(hs[i], keys, old, new, sp, i, J(k - 1))
      BY <2>6, <2>8, OldLineStep
    <3> QED
      BY <2>7, <2>9, <3>1, <3>2 DEF PutsByOldLine
  <2> QED
    BY <2>4, <2>10
<1>6. J(m) = {i \in 1..m : Key(hs[i]) \in keys}
  BY <1>1
<1>7. f[m] = InOrder(Mixed(old, new, sp, J(m)))
  <2>1. m \in 0..m
    BY <1>1
  <2> QED
    BY <1>5, <2>1
<1> QED
  BY <1>4, <1>6, <1>7

(***************************************************************************)
(* Application by new line numbers.                                          *)
(***************************************************************************)

Taken(hs, keys, k) == {i \in 1..k : Key(hs[i]) \in keys}

(* What git_apply has made of a file when it comes to hunk k + 1: the      *)
(* hunks it took are in place, and behind them its shift is true.          *)
IsShift(shift, old, new, sp, J, k) ==
  \A x \in Int : (\A j \in 1..k : \A n \in sp[j] : n < x) =>
    Below(Mixed(old, new, sp, J), x) = Below(Mixed(old, new, sp, 1..k), x) + shift

IsUpTo(acc, hs, keys, old, new, sp, k) ==
  /\ acc = [image |-> acc.image, shift |-> acc.shift] /\ acc.shift \in Int
  /\ acc.image # Refused =>
       /\ acc.image = InOrder(Mixed(old, new, sp, Taken(hs, keys, k)))
       /\ IsShift(acc.shift, old, new, sp, Taken(hs, keys, k), k)

ShiftsOn(shift, old, new, sp, J, k) ==
  /\ IsShift(shift, old, new, sp, J \cup {k}, k)
  /\ IsShift(shift + Cardinality(old \cap sp[k]) - Cardinality(new \cap sp[k]), old, new, sp, J, k)
  /\ Below(Mixed(old, new, sp, J), Min(sp[k])) = Below(new, Min(sp[k])) + shift
  /\ Cardinality(old \cap sp[k]) \in Nat /\ Cardinality(new \cap sp[k]) \in Nat

(* The shift grows by what a skipped hunk would have added.                  *)
LEMMA ShiftStep ==
  ASSUME NEW sp, NEW m, NEW old, NEW new, IsDiff(sp, m, old, new), NEW k \in 1..m,
         NEW J \in SUBSET (1..(k - 1)), NEW shift \in Int, IsShift(shift, old, new, sp, J, k - 1)
  PROVE  ShiftsOn(shift, old, new, sp, J, k)
<1>1. /\ m \in Nat /\ k \in Nat /\ 1..k = (1..(k - 1)) \cup {k} /\ k \notin 1..(k - 1)
      /\ 1..(k - 1) \in SUBSET (1..m)
  BY DEF IsDiff, AreStretches
<1>2. ASSUME NEW x \in Int, \A j \in 1..k : \A n \in sp[j] : n < x
      PROVE  /\ Below(Mixed(old, new, sp, J \cup {k}), x) = Below(Mixed(old, new, sp, 1..k), x) + shift
             /\ Below(Mixed(old, new, sp, J), x)
                  = Below(Mixed(old, new, sp, 1..k), x)
                      + (shift + Cardinality(old \cap sp[k]) - Cardinality(new \cap sp[k]))
  <2> DEFINE a == Cardinality(old \cap sp[k])
             b == Cardinality(new \cap sp[k])
             c == Below(Mixed(old, new, sp, J), x)
             d == Below(Mixed(old, new, sp, 1..(k - 1)), x)
  <2>1. \A n \in sp[k] : n < x
    BY <1>1, <1>2
  <2>2. c = d + shift
    <3>1. \A j \in 1..(k - 1) : \A n \in sp[j] : n < x
      BY <1>1, <1>2
    <3> QED
      BY <3>1 DEF IsShift
  <2>3. Below(Mixed(old, new, sp, J \cup {k}), x) = c - a + b /\ a \in Nat /\ b \in Nat /\ c \in Nat
    <3>1. J \in SUBSET (1..m) /\ k \notin J
      BY <1>1
    <3>2. AddsItsLines(old, new, sp, J, k, x)
      BY <2>1, <3>1, BehindHunk
    <3> QED
      BY <3>2 DEF AddsItsLines
  <2>4. Below(Mixed(old, new, sp, 1..k), x) = d - a + b /\ d \in Nat
    <3>1. AddsItsLines(old, new, sp, 1..(k - 1), k, x)
      BY <1>1, <2>1, BehindHunk
    <3> QED
      BY <1>1, <3>1 DEF AddsItsLines
  <2> HIDE DEF a, b, c, d
  <2>5. c - a + b = d - a + b + shift /\ c = d - a + b + (shift + a - b)
    BY <2>2, <2>3, <2>4
  <2> QED
    BY <2>3, <2>4, <2>5 DEF a, b, c, d
<1>3. Below(Mixed(old, new, sp, J), Min(sp[k])) = Below(new, Min(sp[k])) + shift
  <2>1. Min(sp[k]) \in sp[k] /\ Min(sp[k]) \in Int
    BY BeforeHunk
  <2>2. ASSUME NEW j \in 1..(k - 1), NEW n \in sp[j]
        PROVE  n < Min(sp[k])
    BY <1>1, <2>1 DEF IsDiff, AreStretches
  <2>3. Below(Mixed(old, new, sp, J), Min(sp[k])) = Below(Mixed(old, new, sp, 1..(k - 1)), Min(sp[k])) + shift
    BY <2>1, <2>2 DEF IsShift
  <2>4. Below(Mixed(old, new, sp, 1..(k - 1)), Min(sp[k])) = Below(new, Min(sp[k]))
    BY BeforeHunk
  <2> QED
    BY <2>3, <2>4
<1>4. Cardinality(old \cap sp[k]) \in Nat /\ Cardinality(new \cap sp[k]) \in Nat
  BY FS_Subset, FS_CardinalityType DEF IsDiff
<1> QED
  BY <1>2, <1>3, <1>4 DEF IsShift, ShiftsOn

(* A hunk that is put by its new line falls in its place.                    *)
LEMMA NewLineStep ==
  ASSUME NEW hs, NEW path, NEW old, NEW new, NEW sp, NEW m, AreHunks(hs, path, old, new, sp, m),
         NEW keys, NEW k \in 1..m, NEW acc, IsUpTo(acc, hs, keys, old, new, sp, k - 1)
  PROVE  IsUpTo(PutByNewLine(acc, hs[k], keys), hs, keys, old, new, sp, k)
<1> DEFINE J == Taken(hs, keys, k - 1)
           L == Mixed(old, new, sp, J)
           h == hs[k]
           a == Cardinality(old \cap sp[k])
           b == Cardinality(new \cap sp[k])
           put == PutByNewLine(acc, h, keys)
<1>1. IsDiff(sp, m, old, new) /\ m \in Nat
  BY DEF AreHunks, IsDiff, AreStretches
<1>2. HasSides(h, old, new, sp[k])
  BY HunkSides
<1>3. /\ acc = [image |-> acc.image, shift |-> acc.shift] /\ acc.shift \in Int
      /\ acc.image # Refused => acc.image = InOrder(L) /\ IsShift(acc.shift, old, new, sp, J, k - 1)
  BY DEF IsUpTo
<1>4. J \in SUBSET (1..(k - 1)) /\ J \in SUBSET (1..m) /\ k \notin J
  BY <1>1 DEF Taken
<1>5. Taken(hs, keys, k) = IF Key(h) \in keys THEN J \cup {k} ELSE J
  <2>1. \A j \in Int : j \in 1..k <=> j = k \/ j \in 1..(k - 1)
    BY <1>1
  <2> QED
    BY <1>1, <2>1 DEF Taken
<1>6. acc.image # Refused => ShiftsOn(acc.shift, old, new, sp, J, k)
  BY <1>1, <1>3, <1>4, ShiftStep
<1> HIDE DEF J, h
<1>7. CASE acc.image = Refused
  <2>1. put = acc
    BY <1>7 DEF PutByNewLine
  <2> QED
    BY <1>3, <1>7, <2>1 DEF IsUpTo, h
<1>8. CASE acc.image # Refused /\ Key(h) \notin keys
  <2> DEFINE shift == acc.shift + a - b
  <2>1. Len(h.old) = a /\ Len(h.new) = b /\ a \in Nat /\ b \in Nat
    BY <1>2, <1>6, <1>8 DEF HasSides, ShiftsOn
  <2>2. put = [acc EXCEPT !.shift = acc.shift + Len(h.old) - Len(h.new)]
    BY <1>8 DEF PutByNewLine
  <2>3. shift \in Int /\ put = [image |-> acc.image, shift |-> shift]
    <3>1. put = [acc EXCEPT !.shift = shift]
      BY <2>1, <2>2
    <3>2. shift \in Int
      BY <1>3, <2>1
    <3> HIDE DEF shift, put
    <3> QED
      BY <1>3, <3>1, <3>2
  <2>4. IsShift(shift, old, new, sp, J, k)
    BY <1>6, <1>8 DEF ShiftsOn
  <2>5. Taken(hs, keys, k) = J
    BY <1>5, <1>8
  <2> HIDE DEF put, shift
  <2>6. put.image = acc.image /\ put.shift = shift /\ put = [image |-> put.image, shift |-> put.shift]
    BY <2>3
  <2> QED
    BY <1>3, <1>8, <2>3, <2>4, <2>5, <2>6 DEF IsUpTo, put, h
<1>9. CASE acc.image # Refused /\ Key(h) \in keys
  <2> DEFINE at == (IF h.ns = 0 THEN 0 ELSE h.ns - 1) + acc.shift
             image == Replaced(InOrder(L), at, h.old, h.new)
  <2>1. FallsInPlace(old, new, sp, k, J)
    BY <1>1, <1>4, HunkFallsInPlace
  <2>2. Below(L, Min(sp[k])) = Below(new, Min(sp[k])) + acc.shift
    BY <1>6, <1>9 DEF ShiftsOn
  <2>3. at \in Int /\ (old \cap sp[k] = {} => at = Below(L, Min(sp[k])))
    <3>1. /\ h.ns = Below(new, Min(sp[k])) + (IF new \cap sp[k] = {} THEN 0 ELSE 1)
          /\ Below(new, Min(sp[k])) \in Nat
          /\ old \cap sp[k] # {} \/ new \cap sp[k] # {}
      BY <1>2 DEF HasSides
    <3> HIDE DEF L
    <3> QED
      BY <1>3, <2>2, <3>1
  <2>4. image = InOrder(Mixed(old, new, sp, J \cup {k})) \/ image = Refused
    <3>1. h.old = InOrder(old \cap sp[k]) /\ h.new = InOrder(new \cap sp[k])
      BY <1>2 DEF HasSides
    <3> HIDE DEF at
    <3>2. CASE at = Below(L, Min(sp[k]))
      BY <2>1, <3>1, <3>2 DEF FallsInPlace
    <3>3. CASE at # Below(L, Min(sp[k]))
      BY <2>1, <2>3, <3>1, <3>3 DEF FallsInPlace
    <3> QED
      BY <3>2, <3>3
  <2>5. put = [acc EXCEPT !.image = image]
    BY <1>3, <1>9 DEF PutByNewLine
  <2>6. IsShift(acc.shift, old, new, sp, J \cup {k}, k)
    BY <1>6, <1>9 DEF ShiftsOn
  <2>7. Taken(hs, keys, k) = J \cup {k}
    BY <1>5, <1>9
  <2> HIDE DEF put, image
  <2>8. put.image = image /\ put.shift = acc.shift /\ put = [image |-> put.image, shift |-> put.shift]
    BY <1>3, <2>5
  <2> QED
    BY <1>3, <2>4, <2>6, <2>7, <2>8 DEF IsUpTo, put, h
<1> QED
  BY <1>7, <1>8, <1>9

(* By new line numbers git_apply puts every hunk in its place or none.     *)
LEMMA AppliedByNewLine ==
  ASSUME NEW hs, NEW path, NEW old, NEW new, NEW sp, NEW m, AreHunks(hs, path, old, new, sp, m),
         NEW keys, NEW file, file = InOrder(old) \/ (file = Absent /\ old = {}),
         ApplyByNewLine(file, hs, keys) # Refused
  PROVE  ApplyByNewLine(file, hs, keys) = InOrder(Mixed(old, new, sp, Taken(hs, keys, m)))
<1>1. IsDiff(sp, m, old, new) /\ m \in Nat /\ Len(hs) = m
  BY DEF AreHunks, IsDiff, AreStretches
<1>2. InOrder(old) \in Seq(Int) /\ InOrder(old) # Absent
  BY <1>1, NotRefused DEF IsDiff
<1>3. HaveLines(hs)
  <2>1. ASSUME NEW i \in 1..m
        PROVE  hs[i].old \in Seq(Int) /\ hs[i].new \in Seq(Int) /\ hs[i].os \in Int /\ hs[i].ns \in Int
    <3>1. HasSides(hs[i], old, new, sp[i])
      BY HunkSides
    <3> QED
      BY <3>1 DEF HasSides
  <2> QED
    BY <1>1, <2>1 DEF HaveLines
<1>4. PICK f : ComesByNewLine(f, file, hs, keys)
  BY <1>2, <1>3, NewLineUnfolds
<1>5. (IF file = Absent THEN <<>> ELSE file) = InOrder(old)
  <2>1. CASE file = Absent
    <3>1. old = {}
      BY <1>2, <2>1
    <3>2. Len(InOrder({})) = 0 /\ InOrder({}) \in Seq(Int)
      BY FS_EmptySet, InOrderRises, NotRefused
    <3> QED
      BY <2>1, <3>1, <3>2
  <2> QED
    BY <2>1
<1>6. /\ f[0] = [image |-> InOrder(old), shift |-> 0]
      /\ \A k \in 1..m : f[k] = PutByNewLine(f[k - 1], hs[k], keys)
      /\ ApplyByNewLine(file, hs, keys) = f[m].image
  BY <1>1, <1>4, <1>5 DEF ComesByNewLine
<1> DEFINE Bad == {k \in 0..m : ~IsUpTo(f[k], hs, keys, old, new, sp, k)}
<1>7. Bad = {}
  <2>1. SUFFICES ASSUME Bad # {}
                 PROVE  FALSE
    OBVIOUS
  <2>2. Bad \in SUBSET Nat
    OBVIOUS
  <2>3. PICK k \in Bad : \A y \in Bad : k <= y
    <3> HIDE DEF Bad
    <3> QED
      BY <2>1, <2>2, LeastExists
  <2>4. k \in 0..m /\ ~IsUpTo(f[k], hs, keys, old, new, sp, k)
    OBVIOUS
  <2>5. k # 0
    <3>1. Taken(hs, keys, 0) = {} /\ 1..0 = {}
      BY DEF Taken
    <3>2. Mixed(old, new, sp, {}) = old
      BY <1>1, AllOrNothing
    <3>3. \A x \in Int : Below(old, x) = Below(old, x) + 0
      BY <1>1, BelowGrows DEF IsDiff
    <3>4. IsShift(0, old, new, sp, {}, 0)
      BY <3>1, <3>2, <3>3 DEF IsShift
    <3> QED
      BY <1>6, <2>4, <3>1, <3>2, <3>4 DEF IsUpTo
  <2>6. k \in 1..m /\ k - 1 \in 0..m /\ k - 1 < k
    BY <1>1, <2>4, <2>5
  <2>7. IsUpTo(f[k - 1], hs, keys, old, new, sp, k - 1)
    <3>1. k - 1 \notin Bad
      BY <2>3, <2>6
    <3> QED
      BY <2>6, <3>1
  <2> HIDE DEF Bad
  <2>8. IsUpTo(PutByNewLine(f[k - 1], hs[k], keys), hs, keys, old, new, sp, k)
    BY <2>6, <2>7, NewLineStep
  <2> QED
    BY <1>6, <2>4, <2>6, <2>8
<1>8. IsUpTo(f[m], hs, keys, old, new, sp, m)
  <2>1. m \in 0..m
    BY <1>1
  <2> QED
    BY <1>7, <2>1
<1> QED
  BY <1>6, <1>8 DEF IsUpTo

(***************************************************************************)
(* Files, paths, trees.                                                      *)
(***************************************************************************)

(* The lines of a file of a tree.                                            *)
LEMMA FileIs ==
  ASSUME NEW file \in Rising \cup {Absent}
  PROVE  /\ Lines(file) \in SUBSET Int /\ IsFiniteSet(Lines(file)) /\ file # Refused
         /\ file # Absent => file = InOrder(Lines(file)) /\ file \in Seq(Int)
         /\ file = Absent => Lines(file) = {}
<1>1. CASE file = Absent
  BY <1>1, FS_EmptySet, HunksAssumption DEF Lines
<1>2. CASE file # Absent
  <2>1. file \in Rising
    BY <1>2
  <2>2. ToSet(file) \in SUBSET Int /\ IsFiniteSet(ToSet(file)) /\ InOrder(ToSet(file)) = file /\ file \in Seq(Int)
    BY <2>1, RisingIs, RisingIsInOrder
  <2> QED
    BY <1>2, <2>2, HunksAssumption DEF Lines
<1> QED
  BY <1>1, <1>2

(* What is made of a file a diff changes: by new line numbers a file with   *)
(* its lines in order or nothing, by old ones always a file; with all hunks *)
(* the file the diff leads to.                                              *)
IsApplied(image, whole, new) ==
  image \in Rising /\ (whole => image = InOrder(new))

(* A file with some hunks applied is a file, with all of them the new one.   *)
LEMMA FileApplied ==
  ASSUME NEW hs, NEW path, NEW old, NEW new, NEW sp, NEW m, AreHunks(hs, path, old, new, sp, m),
         NEW keys, NEW whole, whole => \A h \in ToSet(hs) : Key(h) \in keys,
         NEW file, file = InOrder(old) \/ (file = Absent /\ old = {})
  PROVE  /\ ApplyByNewLine(file, hs, keys) # Refused => IsApplied(ApplyByNewLine(file, hs, keys), whole, new)
         /\ file # Absent => IsApplied(ApplyByOldLine(file, hs, keys), whole, new)
<1> DEFINE J == {i \in 1..m : Key(hs[i]) \in keys}
           image == InOrder(Mixed(old, new, sp, J))
<1>1. IsDiff(sp, m, old, new) /\ DOMAIN hs = 1..m
  BY DEF AreHunks
<1>2. image \in Rising
  BY <1>1, MixedIsFinite, InOrderRises DEF IsDiff
<1>3. whole => image = InOrder(new)
  <2>1. whole => J = 1..m
    BY <1>1 DEF ToSet
  <2>2. Mixed(old, new, sp, 1..m) = new
    BY <1>1, AllOrNothing
  <2> QED
    BY <2>1, <2>2
<1>4. ApplyByNewLine(file, hs, keys) # Refused => ApplyByNewLine(file, hs, keys) = image
  BY AppliedByNewLine DEF Taken
<1>5. file # Absent => ApplyByOldLine(file, hs, keys) = image
  BY AppliedByOldLine
<1> HIDE DEF image
<1> QED
  BY <1>2, <1>3, <1>4, <1>5 DEF IsApplied

PathIsApplied(diff, p, keys, whole) ==
  /\ ApplyByNewLine(diff.old[p], diff.hunks[p], keys) # Refused =>
       IsApplied(ApplyByNewLine(diff.old[p], diff.hunks[p], keys), whole, Lines(diff.new[p]))
  /\ diff.old[p] # Absent =>
       IsApplied(ApplyByOldLine(diff.old[p], diff.hunks[p], keys), whole, Lines(diff.new[p]))

(* So it is for each path of a diff.                                         *)
LEMMA PathApplied ==
  ASSUME NEW context \in Nat, NEW a \in SomeTrees, NEW b \in SomeTrees, NEW p \in Paths,
         NEW keys, NEW whole, whole => AllKeys(Diff(context, a, b)) \subseteq keys
  PROVE  /\ PathIsApplied(Diff(context, a, b), p, keys, whole)
         /\ Diff(context, a, b).hunks[p] = <<>> \/ \E h : h \in ToSet(Diff(context, a, b).hunks[p])
<1> DEFINE diff == Diff(context, a, b)
           hs == diff.hunks[p]
           old == Lines(a[p])
           new == Lines(b[p])
<1>1. a[p] \in Rising \cup {Absent} /\ b[p] \in Rising \cup {Absent}
  BY DEF SomeTrees
<1>2. diff.old = a /\ diff.new = b /\ hs = FileHunks(context, p, old, new)
  BY DEF Diff
<1>3. old \in SUBSET Int /\ IsFiniteSet(old) /\ new \in SUBSET Int /\ IsFiniteSet(new)
  BY <1>1, FileIs
<1>4. PICK sp, m : AreHunks(hs, p, old, new, sp, m)
  BY <1>2, <1>3, FileHunksAre
<1>5. whole => \A h \in ToSet(hs) : Key(h) \in keys
  <2>1. ToSet(hs) \subseteq DiffHunks(diff)
    BY DEF DiffHunks
  <2>2. \A h \in ToSet(hs) : Key(h) \in AllKeys(diff)
    BY <2>1 DEF AllKeys
  <2> QED
    BY <2>2
<1>6. a[p] = InOrder(old) \/ (a[p] = Absent /\ old = {})
  BY <1>1, FileIs
<1> HIDE DEF hs, diff, old, new
<1>7. /\ ApplyByNewLine(a[p], hs, keys) # Refused => IsApplied(ApplyByNewLine(a[p], hs, keys), whole, new)
      /\ a[p] # Absent => IsApplied(ApplyByOldLine(a[p], hs, keys), whole, new)
  BY <1>4, <1>5, <1>6, FileApplied
<1>8. hs = <<>> \/ \E h : h \in ToSet(hs)
  <2>1. /\ Len(hs) = m /\ DOMAIN hs = 1..m /\ m \in Nat
        /\ \A i \in 1..m : hs[i] = Hunk(p, old, new, sp[i] \cap SymDiff(old, new), sp[i])
    BY <1>4 DEF AreHunks, IsDiff, AreStretches
  <2>2. CASE m = 0
    <3>1. hs = [i \in 1..m |-> hs[i]]
      BY <1>2, <2>1 DEF FileHunks, HunksOfGroups, hs
    <3> QED
      BY <2>2, <3>1
  <2>3. CASE m # 0
    <3>1. 1 \in DOMAIN hs
      BY <2>1, <2>3
    <3> QED
      BY <3>1 DEF ToSet
  <2> QED
    BY <2>2, <2>3
<1> QED
  BY <1>2, <1>7, <1>8 DEF PathIsApplied, diff, hs, old, new

IsPart(tree, whole, b) == tree # Refused => tree \in SomeTrees /\ (whole => tree = b)

(* apply_subset and apply_subset_by_old_line make a tree of files or refuse, *)
(* and all of a diff is its new side.                                        *)
LEMMA SubsetApplied ==
  ASSUME NEW context \in Nat, NEW a \in SomeTrees, NEW b \in SomeTrees,
         NEW paths, NEW keys, NEW whole,
         whole => paths = Paths /\ keys = AllKeys(Diff(context, a, b))
  PROVE  /\ IsPart(ApplySubset(Diff(context, a, b), paths, keys), whole, b)
         /\ IsPart(ApplySubsetByOldLine(Diff(context, a, b), paths, keys), whole, b)
<1> DEFINE diff == Diff(context, a, b)
           Kept == KeptFiles(diff, paths, keys)
<1>1. diff.old = a /\ diff.new = b
  BY DEF Diff
<1>2. ASSUME NEW p \in Paths
      PROVE  PathIsApplied(diff, p, keys, whole) /\ (diff.hunks[p] = <<>> \/ \E h : h \in ToSet(diff.hunks[p]))
  BY PathApplied
<1>3. ASSUME NEW p \in Paths
      PROVE  /\ a[p] \in Rising \cup {Absent} /\ b[p] \in Rising \cup {Absent}
             /\ b[p] # Absent => InOrder(Lines(b[p])) = b[p]
  <2>1. a[p] \in Rising \cup {Absent} /\ b[p] \in Rising \cup {Absent}
    BY DEF SomeTrees
  <2> QED
    BY <2>1, FileIs
<1> HIDE DEF diff
<1>4. ASSUME NEW p \in Paths, p \notin Kept, whole
      PROVE  a[p] = b[p]
  <2>1. SUFFICES ASSUME p \in Deltas(diff)
                 PROVE  FALSE
    BY <1>1 DEF Deltas, Differing
  <2>2. \A h \in ToSet(diff.hunks[p]) : Key(h) \in keys
    BY <1>4 DEF AllKeys, DiffHunks, diff
  <2> QED
    BY <1>2, <1>4, <2>1, <2>2 DEF KeptFiles
<1> DEFINE Good(tree) == \A p \in Paths : tree[p] # Refused => tree[p] \in Rising \cup {Absent} /\ (whole => tree[p] = b[p])
<1>5. ASSUME NEW tree, tree = [p \in Paths |-> tree[p]], Good(tree)
      PROVE  IsPart(WhereApplied(tree), whole, b)
  <2>1. SUFFICES ASSUME WhereApplied(tree) # Refused
                 PROVE  WhereApplied(tree) \in SomeTrees /\ (whole => WhereApplied(tree) = b)
    BY DEF IsPart
  <2>2. WhereApplied(tree) = tree /\ \A p \in Paths : tree[p] # Refused
    BY <2>1 DEF WhereApplied
  <2>3. tree \in SomeTrees
    BY <1>5, <2>2 DEF SomeTrees
  <2>4. whole => tree = b
    <3>1. b = [p \in Paths |-> b[p]]
      BY DEF SomeTrees
    <3> QED
      BY <1>5, <2>2, <3>1
  <2> QED
    BY <2>2, <2>3, <2>4
<1>6. IsPart(ApplySubset(diff, paths, keys), whole, b)
  <2> DEFINE tree == [p \in Paths |->
                        IF p \notin Kept THEN diff.old[p]
                        ELSE IF diff.new[p] = Absent THEN Absent
                        ELSE ApplyByNewLine(diff.old[p], diff.hunks[p], keys)]
  <2>1. ASSUME NEW p \in Paths, tree[p] # Refused
        PROVE  tree[p] \in Rising \cup {Absent} /\ (whole => tree[p] = b[p])
    <3>1. CASE p \notin Kept
      BY <1>1, <1>3, <1>4, <3>1
    <3>2. CASE p \in Kept /\ b[p] = Absent
      BY <1>1, <3>2
    <3>3. CASE p \in Kept /\ b[p] # Absent
      <4>1. tree[p] = ApplyByNewLine(a[p], diff.hunks[p], keys)
        BY <1>1, <3>3
      <4>2. IsApplied(tree[p], whole, Lines(b[p]))
        BY <1>1, <1>2, <2>1, <4>1 DEF PathIsApplied
      <4> HIDE DEF tree
      <4> QED
        BY <1>3, <3>3, <4>2 DEF IsApplied
    <3> QED
      BY <3>1, <3>2, <3>3
  <2>2. Good(tree)
    BY <2>1
  <2>3. tree = [p \in Paths |-> tree[p]]
    OBVIOUS
  <2>4. ApplySubset(diff, paths, keys) = WhereApplied(tree)
    BY DEF ApplySubset
  <2> HIDE DEF tree, Good
  <2> QED
    BY <1>5, <2>2, <2>3, <2>4
<1>7. IsPart(ApplySubsetByOldLine(diff, paths, keys), whole, b)
  <2> DEFINE tree == [p \in Paths |->
                        IF p \notin Kept THEN diff.old[p]
                        ELSE IF diff.new[p] = Absent THEN Absent
                        ELSE IF diff.old[p] = Absent THEN ApplyByNewLine(diff.old[p], diff.hunks[p], keys)
                        ELSE ApplyByOldLine(diff.old[p], diff.hunks[p], keys)]
  <2>1. ASSUME NEW p \in Paths, tree[p] # Refused
        PROVE  tree[p] \in Rising \cup {Absent} /\ (whole => tree[p] = b[p])
    <3>1. CASE p \notin Kept
      BY <1>1, <1>3, <1>4, <3>1
    <3>2. CASE p \in Kept /\ b[p] = Absent
      BY <1>1, <3>2
    <3>3. CASE p \in Kept /\ b[p] # Absent
      <4>1. tree[p] = IF a[p] = Absent THEN ApplyByNewLine(a[p], diff.hunks[p], keys)
                      ELSE ApplyByOldLine(a[p], diff.hunks[p], keys)
        BY <1>1, <3>3
      <4>2. IsApplied(tree[p], whole, Lines(b[p]))
        BY <1>1, <1>2, <2>1, <4>1 DEF PathIsApplied
      <4> HIDE DEF tree
      <4> QED
        BY <1>3, <3>3, <4>2 DEF IsApplied
    <3> QED
      BY <3>1, <3>2, <3>3
  <2>2. Good(tree)
    BY <2>1
  <2>3. tree = [p \in Paths |-> tree[p]]
    OBVIOUS
  <2>4. ApplySubsetByOldLine(diff, paths, keys) = WhereApplied(tree)
    BY DEF ApplySubsetByOldLine
  <2> HIDE DEF tree, Good
  <2> QED
    BY <1>5, <2>2, <2>3, <2>4
<1> QED
  BY <1>6, <1>7 DEF diff

(* A merge makes a tree of files.                                            *)
LEMMA MergedIsTree ==
  ASSUME NEW base \in SomeTrees, NEW ours \in SomeTrees, NEW theirs \in SomeTrees
  PROVE  Merged(base, ours, theirs) \in SomeTrees
<1>1. ASSUME NEW p \in Paths
      PROVE  Merged(base, ours, theirs)[p] \in Rising \cup {Absent}
  <2> DEFINE S == (Lines(ours[p]) \ (Lines(base[p]) \ Lines(theirs[p]))) \cup (Lines(theirs[p]) \ Lines(base[p]))
  <2>1. base[p] \in Rising \cup {Absent} /\ ours[p] \in Rising \cup {Absent} /\ theirs[p] \in Rising \cup {Absent}
    BY DEF SomeTrees
  <2>2. S \in SUBSET Int /\ IsFiniteSet(S)
    <3>1. /\ Lines(ours[p]) \in SUBSET Int /\ IsFiniteSet(Lines(ours[p]))
          /\ Lines(theirs[p]) \in SUBSET Int /\ IsFiniteSet(Lines(theirs[p]))
      BY <2>1, FileIs
    <3>2. IsFiniteSet(Lines(ours[p]) \cup Lines(theirs[p]))
      BY <3>1, FS_Union
    <3>3. S \in SUBSET (Lines(ours[p]) \cup Lines(theirs[p]))
      OBVIOUS
    <3> QED
      BY <3>1, <3>2, <3>3, FS_Subset
  <2>3. InOrder(S) \in Rising
    BY <2>2, InOrderRises
  <2> QED
    BY <2>1, <2>3 DEF Merged
<1>2. Merged(base, ours, theirs) = [p \in Paths |-> Merged(base, ours, theirs)[p]]
  BY DEF Merged
<1> QED
  BY <1>1, <1>2 DEF SomeTrees

(***************************************************************************)
(* Commits and steps.                                                        *)
(***************************************************************************)

(* Commits, and those with a parent.                                         *)
Commits == Seq(SomeTrees) \ {<<>>}
LongCommits == {c \in Seq(SomeTrees) : Len(c) >= 2}

(* Steps of a fold, of a rebase, and any.                                   *)
PlainStep == [commit : LongCommits, action : {"pick", "fold"}, parts : {<<>>}]
SomeStep ==
  [commit : LongCommits, action : {"pick", "fold", "split", "edit"}, parts : {<<>>} \cup Partitions]

(* Plain steps are steps.                                                    *)
LEMMA StepsAre ==
  /\ SomeSteps = Seq(SomeStep)
  /\ PlainStep \subseteq SomeStep
  /\ \A s \in Seq(PlainStep) : s \in Seq(SomeStep)
<1>1. PlainStep \subseteq SomeStep
  BY DEF PlainStep, SomeStep
<1>2. ASSUME NEW s \in Seq(PlainStep)
      PROVE  s \in Seq(SomeStep)
  BY <1>1
<1> QED
  BY <1>1, <1>2 DEF SomeSteps, SomeStep, LongCommits

(* The trees of a commit, its ancestors and its children.                    *)
LEMMA CommitIs ==
  ASSUME NEW c \in Commits
  PROVE  /\ c \in Seq(SomeTrees) /\ Len(c) \in Nat /\ Len(c) >= 1 /\ DOMAIN c = 1..Len(c)
         /\ Tree(c) \in SomeTrees
         /\ \A n \in 1..Len(c) : c[n] \in SomeTrees /\ SubSeq(c, 1, n) \in Commits /\ Tree(SubSeq(c, 1, n)) = c[n]
         /\ \A t \in SomeTrees : Append(c, t) \in LongCommits /\ Append(c, t) \in Commits /\ Tree(Append(c, t)) = t
<1>1. c \in Seq(SomeTrees) /\ Len(c) \in Nat /\ Len(c) >= 1 /\ DOMAIN c = 1..Len(c)
  <2>1. c \in Seq(SomeTrees) /\ c # <<>>
    BY DEF Commits
  <2> QED
    BY <2>1
<1>2. \A n \in 1..Len(c) : c[n] \in SomeTrees
  BY <1>1
<1>3. ASSUME NEW n \in 1..Len(c)
      PROVE  SubSeq(c, 1, n) \in Commits /\ Tree(SubSeq(c, 1, n)) = c[n]
  <2>1. SubSeq(c, 1, n) \in Seq(SomeTrees) /\ Len(SubSeq(c, 1, n)) = n /\ SubSeq(c, 1, n)[n] = c[n]
    BY <1>1
  <2>2. SubSeq(c, 1, n) # <<>>
    BY <2>1
  <2> QED
    BY <2>1, <2>2 DEF Commits, Tree
<1>4. ASSUME NEW t \in SomeTrees
      PROVE  Append(c, t) \in LongCommits /\ Append(c, t) \in Commits /\ Tree(Append(c, t)) = t
  <2>1. Append(c, t) \in Seq(SomeTrees) /\ Len(Append(c, t)) = Len(c) + 1 /\ Append(c, t)[Len(c) + 1] = t
    BY <1>1
  <2>2. Append(c, t) # <<>>
    BY <1>1, <2>1
  <2> QED
    BY <1>1, <2>1, <2>2 DEF Commits, LongCommits, Tree
<1> QED
  BY <1>1, <1>2, <1>3, <1>4 DEF Tree

(* A commit with a parent.                                                   *)
LEMMA LongCommitIs ==
  ASSUME NEW c \in LongCommits
  PROVE  c \in Commits /\ Parent(c) \in Commits
<1>1. c \in Seq(SomeTrees) /\ Len(c) >= 2 /\ Len(c) \in Nat
  BY DEF LongCommits
<1>2. c # <<>>
  BY <1>1
<1>3. Parent(c) \in Seq(SomeTrees) /\ Len(Parent(c)) = Len(c) - 1
  BY <1>1 DEF Parent
<1>4. Parent(c) # <<>>
  BY <1>1, <1>3
<1> QED
  BY <1>1, <1>2, <1>3, <1>4 DEF Commits

(* The steps over the commits since one are plain, each of its number.       *)
LEMMA SinceArePlain ==
  ASSUME HeadCommit \in Commits, NEW n \in 1..Len(HeadCommit)
  PROVE  /\ Steps(CommitsSince(n)) \in Seq(PlainStep)
         /\ Len(Steps(CommitsSince(n))) = Len(HeadCommit) - n
         /\ \A i \in 1..(Len(HeadCommit) - n) :
              /\ CommitsSince(n)[i] \in LongCommits
              /\ Len(Steps(CommitsSince(n))[i].commit) = n + i
<1> DEFINE k == Len(HeadCommit) - n
           cs == CommitsSince(n)
<1>1. /\ HeadCommit \in Seq(SomeTrees) /\ Len(HeadCommit) \in Nat /\ k \in Nat
  BY CommitIs
<1>2. ASSUME NEW i \in 1..k
      PROVE  SubSeq(HeadCommit, 1, n + i) \in LongCommits /\ Len(SubSeq(HeadCommit, 1, n + i)) = n + i
  <2>1. n + i \in 2..Len(HeadCommit)
    BY <1>1
  <2>2. SubSeq(HeadCommit, 1, n + i) \in Seq(SomeTrees) /\ Len(SubSeq(HeadCommit, 1, n + i)) = n + i
    BY <1>1, <2>1
  <2> QED
    BY <2>1, <2>2 DEF LongCommits
<1>3. cs = [i \in 1..k |-> SubSeq(HeadCommit, 1, n + i)]
  BY DEF CommitsSince
<1> HIDE DEF cs, k
<1>4. \A i \in 1..k : cs[i] \in LongCommits /\ Len(cs[i]) = n + i
  BY <1>2, <1>3
<1>5. Steps(cs) = [i \in 1..k |-> [commit |-> cs[i], action |-> "pick", parts |-> <<>>]]
  BY <1>3 DEF Steps
<1>6. \A i \in 1..k : [commit |-> cs[i], action |-> "pick", parts |-> <<>>] \in PlainStep
  BY <1>4 DEF PlainStep
<1>7. Steps(cs) \in Seq(PlainStep) /\ Len(Steps(cs)) = k
  BY <1>1, <1>5, <1>6
<1>8. \A i \in 1..k : Steps(cs)[i].commit = cs[i]
  BY <1>5
<1> QED
  BY <1>4, <1>7, <1>8 DEF cs, k

(***************************************************************************)
(* The steps of an absorb.                                                   *)
(***************************************************************************)

(* Sequences joined are a sequence of what they hold.                        *)
LEMMA Flattened ==
  ASSUME NEW S, NEW seqs, Len(seqs) \in Nat, Len(seqs) # 0, \A i \in 1..Len(seqs) : seqs[i] \in Seq(S)
  PROVE  FlattenSeq(seqs) \in Seq(S)
<1> DEFINE n == Len(seqs)
           F == [x \in (1..n) \X Seq(S) |-> x[2] \o seqs[x[1]]]
           IsFlat(f) == f = [i \in 1..n |-> IF i = 1 THEN seqs[i] ELSE f[i - 1] \o seqs[i]]
<1>1. n \in Nat /\ n # 0 /\ \A i \in 1..n : seqs[i] \in Seq(S)
  OBVIOUS
<1>2. F \in [(1..n) \X Seq(S) -> Seq(S)]
  <2>1. \A i \in 1..n, s \in Seq(S) : s \o seqs[i] \in Seq(S)
    BY <1>1
  <2> QED
    BY <2>1
<1>3. <<>> \in Seq(S)
  OBVIOUS
<1> HIDE DEF F, n
<1>4. PICK g : IsRecursion(g, n, Seq(S), <<>>, F)
  BY <1>1, <1>2, <1>3, RecursionExists
<1>5. g \in [0..n -> Seq(S)] /\ g[0] = <<>> /\ \A k \in 1..n : g[k] = F[<<k, g[k - 1]>>]
  BY <1>4 DEF IsRecursion
<1>6. ASSUME NEW k \in 1..n
      PROVE  g[k] = g[k - 1] \o seqs[k]
  <2>1. k - 1 \in 0..n
    BY <1>1
  <2>2. <<k, g[k - 1]>> \in (1..n) \X Seq(S)
    BY <1>5, <2>1
  <2>3. F[<<k, g[k - 1]>>] = g[k - 1] \o seqs[k]
    BY <2>2 DEF F
  <2> QED
    BY <1>5, <2>3
<1> DEFINE f == [i \in 1..n |-> g[i]]
<1>7. IsFlat(f)
  <2>1. ASSUME NEW i \in 1..n
        PROVE  f[i] = IF i = 1 THEN seqs[i] ELSE f[i - 1] \o seqs[i]
    <3>1. CASE i = 1
      <4>1. 1 \in 1..n /\ 1 - 1 = 0 /\ seqs[1] \in Seq(S)
        BY <1>1, <3>1
      <4>2. g[1] = g[0] \o seqs[1]
        BY <1>6, <4>1
      <4>3. g[1] = seqs[1]
        BY <1>5, <4>1, <4>2
      <4>4. f[1] = g[1]
        BY <4>1
      <4> HIDE DEF f
      <4> QED
        BY <3>1, <4>3, <4>4
    <3>2. CASE i # 1
      <4>1. i - 1 \in 1..n
        BY <1>1, <3>2
      <4> QED
        BY <1>6, <3>2, <4>1
    <3> QED
      BY <3>1, <3>2
  <2>2. f = [i \in 1..n |-> f[i]]
    OBVIOUS
  <2> HIDE DEF f
  <2> QED
    BY <2>1, <2>2
<1> DEFINE c == CHOOSE h : IsFlat(h)
<1>8. IsFlat(c)
  <2> HIDE DEF f, IsFlat
  <2> QED
    BY <1>7
<1>9. FlattenSeq(seqs) = c[n]
  BY <1>1 DEF FlattenSeq, n
<1> HIDE DEF c
<1> DEFINE Bad == {i \in 1..n : c[i] \notin Seq(S)}
<1>10. Bad = {}
  <2>1. SUFFICES ASSUME Bad # {}
                 PROVE  FALSE
    OBVIOUS
  <2>2. Bad \in SUBSET Nat
    BY <1>1
  <2>3. PICK k \in Bad : \A y \in Bad : k <= y
    <3> HIDE DEF Bad
    <3> QED
      BY <2>1, <2>2, LeastExists
  <2>4. k \in 1..n /\ c[k] \notin Seq(S)
    OBVIOUS
  <2>5. c[k] = IF k = 1 THEN seqs[k] ELSE c[k - 1] \o seqs[k]
    BY <1>8, <2>4
  <2>6. k # 1
    BY <1>1, <2>4, <2>5
  <2>7. k - 1 \in 1..n /\ k - 1 < k
    BY <1>1, <2>4, <2>6
  <2>8. c[k - 1] \in Seq(S)
    BY <1>1, <2>3, <2>7
  <2> QED
    BY <1>1, <2>4, <2>5, <2>6, <2>8
<1> QED
  <2>1. n \in 1..n
    BY <1>1
  <2> QED
    BY <1>9, <1>10, <2>1

(* Steps of an absorb, whose folds may have been refused.                   *)
Dangling == {Append(HeadCommit, t) : t \in SomeTrees \cup {Refused}}
MaybeStep == [commit : LongCommits \cup Dangling, action : {"pick", "fold"}, parts : {<<>>}]

(* A step whose fold was not refused is plain.                               *)
LEMMA MaybeIsPlain ==
  ASSUME HeadCommit \in Commits, NEW s \in MaybeStep, Tree(s.commit) # Refused
  PROVE  s \in PlainStep
<1>1. s = [commit |-> s.commit, action |-> s.action, parts |-> s.parts]
      /\ s.commit \in LongCommits \cup Dangling /\ s.action \in {"pick", "fold"} /\ s.parts \in {<<>>}
  BY DEF MaybeStep
<1>2. CASE s.commit \in LongCommits
  BY <1>1, <1>2 DEF PlainStep
<1>3. CASE s.commit \in Dangling
  <2>1. PICK t \in SomeTrees \cup {Refused} : s.commit = Append(HeadCommit, t)
    BY <1>3 DEF Dangling
  <2>2. HeadCommit \in Seq(SomeTrees \cup {Refused}) /\ Len(HeadCommit) \in Nat
    BY CommitIs
  <2>3. Len(Append(HeadCommit, t)) = Len(HeadCommit) + 1 /\ Append(HeadCommit, t)[Len(HeadCommit) + 1] = t
    BY <2>2
  <2>4. Tree(Append(HeadCommit, t)) = t
    BY <2>3 DEF Tree
  <2>5. t \in SomeTrees
    BY <2>1, <2>4
  <2>6. s.commit \in LongCommits
    BY <2>1, <2>5, CommitIs
  <2> QED
    BY <1>1, <2>6 DEF PlainStep
<1> QED
  BY <1>1, <1>2, <1>3

(* The steps of an absorb, whatever its owners.                              *)
LEMMA AbsorbStepsAre ==
  ASSUME HeadCommit \in Commits, NEW onto \in 1..(Len(HeadCommit) - 1), NEW diff, NEW since, NEW owners,
         \A keys : IsPart(ApplySubsetByOldLine(diff, {}, keys), FALSE, diff)
  PROVE  AbsorbSteps(diff, since, owners, onto) \in Seq(MaybeStep)
<1> DEFINE n == Len(HeadCommit) - onto
           piece(i) == Steps(<<CommitsSince(onto)[i]>>) \o FoldOf(diff, since, owners, onto + i)
           seqs == [i \in 1..n |-> piece(i)]
<1>1. Len(HeadCommit) \in Nat /\ n \in Nat /\ n # 0 /\ onto \in 1..Len(HeadCommit)
  <2>1. Len(HeadCommit) \in Nat
    BY CommitIs
  <2> QED
    BY <2>1
<1>2. ASSUME NEW k
      PROVE  FoldOf(diff, since, owners, k) \in Seq(MaybeStep)
  <2> DEFINE t == ApplySubsetByOldLine(diff, {}, {Key(h) : h \in OwnedBy(diff, since, k)})
  <2>1. IsPart(t, FALSE, diff)
    OBVIOUS
  <2> HIDE DEF t
  <2>2. t \in SomeTrees \cup {Refused}
    BY <2>1 DEF IsPart
  <2>3. FoldStep(t) \in MaybeStep
    BY <2>2 DEF FoldStep, MaybeStep, Dangling
  <2>4. <<FoldStep(t)>> \in Seq(MaybeStep)
    BY <2>3
  <2>5. FoldOf(diff, since, owners, k) = IF k \notin owners THEN <<>> ELSE <<FoldStep(t)>>
    BY DEF FoldOf, t
  <2>6. <<>> \in Seq(MaybeStep)
    OBVIOUS
  <2> QED
    BY <2>4, <2>5, <2>6
<1>3. ASSUME NEW i \in 1..n
      PROVE  Steps(<<CommitsSince(onto)[i]>>) \in Seq(MaybeStep)
  <2> DEFINE c == CommitsSince(onto)[i]
  <2>1. c \in LongCommits
    BY <1>1, SinceArePlain
  <2> HIDE DEF c
  <2>2. DOMAIN <<c>> = {1} /\ <<c>>[1] = c
    OBVIOUS
  <2> DEFINE st == [commit |-> c, action |-> "pick", parts |-> <<>>]
  <2>3. Steps(<<c>>) = [j \in {1} |-> st]
    BY <2>2 DEF Steps
  <2>4. st \in MaybeStep
    BY <2>1 DEF MaybeStep
  <2> HIDE DEF st
  <2>5. [j \in {1} |-> st] = <<st>>
    OBVIOUS
  <2>6. <<st>> \in Seq(MaybeStep)
    BY <2>4
  <2> QED
    BY <2>3, <2>5, <2>6 DEF c
<1>4. ASSUME NEW i \in 1..n
      PROVE  piece(i) \in Seq(MaybeStep)
  <2>1. \A x, y \in Seq(MaybeStep) : x \o y \in Seq(MaybeStep)
    OBVIOUS
  <2> QED
    BY <1>2, <1>3, <2>1
<1>5. AbsorbSteps(diff, since, owners, onto) = FlattenSeq(seqs)
  BY DEF AbsorbSteps
<1> HIDE DEF piece, n
<1>6. Len(seqs) = n
  BY <1>1
<1>7. Len(seqs) \in Nat /\ Len(seqs) # 0 /\ \A i \in 1..Len(seqs) : seqs[i] \in Seq(MaybeStep)
  BY <1>1, <1>4, <1>6
<1> HIDE DEF seqs
<1>8. FlattenSeq(seqs) \in Seq(MaybeStep)
  BY <1>7, Flattened
<1> QED
  BY <1>5, <1>8

(* An absorb goes on only when none of its folds was refused.                *)
LEMMA AbsorbStepsArePlain ==
  ASSUME HeadCommit \in Commits, NEW steps \in Seq(MaybeStep),
         \A i \in DOMAIN steps : Tree(steps[i].commit) # Refused
  PROVE  steps \in Seq(PlainStep)
<1>1. steps \in [1..Len(steps) -> MaybeStep] /\ Len(steps) \in Nat
  OBVIOUS
<1>2. \A i \in 1..Len(steps) : steps[i] \in PlainStep
  BY <1>1, MaybeIsPlain
<1>3. steps \in [1..Len(steps) -> PlainStep]
  BY <1>1, <1>2
<1> QED
  BY <1>1, <1>3

(***************************************************************************)
(* The steps of an autosquash.                                               *)
(***************************************************************************)

Has(s, n) == \E i \in DOMAIN s : Len(s[i].commit) = n

(* A step that is there is found.                                            *)
LEMMA Found ==
  ASSUME NEW s, NEW n, Has(s, n)
  PROVE  At(s, n) \in DOMAIN s /\ Len(s[At(s, n)].commit) = n
<1> DEFINE P(i) == i \in DOMAIN s /\ Len(s[i].commit) = n
<1>1. \E i : P(i)
  BY DEF Has
<1>2. P(CHOOSE i : P(i))
  <2> HIDE DEF P
  <2> QED
    BY <1>1
<1>3. At(s, n) = CHOOSE i : P(i)
  BY DEF At
<1> QED
  BY <1>2, <1>3

(* What is behind a place of a sequence.                                     *)
LEMMA TailIs ==
  ASSUME NEW S, NEW s \in Seq(S), NEW k \in 1..Len(s)
  PROVE  /\ SubSeq(s, k + 1, Len(s)) \in Seq(S)
         /\ Len(SubSeq(s, k + 1, Len(s))) = Len(s) - k
         /\ \A j \in 1..(Len(s) - k) : SubSeq(s, k + 1, Len(s))[j] = s[k + j]
<1> DEFINE m == k + 1
           n == Len(s)
           t == SubSeq(s, m, n)
<1>1. n \in Nat /\ k \in 1..n /\ m \in 1..(n + 1) /\ n - m + 1 = n - k /\ n - k \in Nat
  OBVIOUS
<1> HIDE DEF m
<1>2. t \in Seq(S)
  BY <1>1
<1>3. Len(t) = n - m + 1
  BY <1>1
<1>4. \A j \in 1..(n - m + 1) : t[j] = s[m + j - 1]
  BY <1>1
<1>5. \A j \in 1..(n - k) : m + j - 1 = k + j
  BY <1>1 DEF m
<1> HIDE DEF t
<1> SUFFICES t \in Seq(S) /\ Len(t) = n - k /\ \A j \in 1..(n - k) : t[j] = s[k + j]
  BY DEF t, m
<1> HIDE DEF n
<1> QED
  BY <1>1, <1>2, <1>3, <1>4, <1>5

(* A sequence without a step has the others.                                 *)
LEMMA WithoutOne ==
  ASSUME NEW S, NEW s \in Seq(S), NEW i \in 1..Len(s)
  PROVE  /\ RemoveAt(s, i) \in Seq(S)
         /\ \A n : Has(s, n) /\ n # Len(s[i].commit) => Has(RemoveAt(s, i), n)
<1> DEFINE u == SubSeq(s, 1, i - 1)
           v == SubSeq(s, i + 1, Len(s))
<1>1. Len(s) \in Nat /\ DOMAIN s = 1..Len(s)
  OBVIOUS
<1>2. /\ u \in Seq(S) /\ Len(u) = i - 1 /\ \A j \in 1..(i - 1) : u[j] = s[j]
      /\ v \in Seq(S) /\ Len(v) = Len(s) - i /\ \A j \in 1..(Len(s) - i) : v[j] = s[i + j]
  <2>1. i - 1 \in 0..Len(s) /\ i + 1 \in 1..(Len(s) + 1)
    BY <1>1
  <2>2. u \in Seq(S) /\ Len(u) = i - 1 /\ \A j \in 1..(i - 1) : u[j] = s[j]
    BY <1>1, <2>1
  <2>3. v \in Seq(S) /\ Len(v) = Len(s) - i /\ \A j \in 1..(Len(s) - i) : v[j] = s[i + j]
    BY TailIs
  <2> QED
    BY <2>2, <2>3
<1>3. RemoveAt(s, i) = u \o v
  BY DEF RemoveAt
<1> HIDE DEF u, v
<1>4. u \o v \in Seq(S)
  BY <1>2
<1>5. ASSUME NEW n, Has(s, n), n # Len(s[i].commit)
      PROVE  Has(u \o v, n)
  <2>1. PICK j \in 1..Len(s) : Len(s[j].commit) = n
    BY <1>1, <1>5 DEF Has
  <2>2. CASE j < i
    <3>1. j \in 1..(i - 1)
      BY <1>1, <2>2
    <3>2. (u \o v)[j] = u[j] /\ j \in DOMAIN (u \o v)
      BY <1>1, <1>2, <3>1
    <3> QED
      BY <1>2, <2>1, <3>1, <3>2 DEF Has
  <2>3. CASE j > i
    <3>1. j - i \in 1..(Len(s) - i) /\ i + (j - i) = j
      BY <1>1, <2>3
    <3>2. (u \o v)[j - 1] = v[j - i] /\ j - 1 \in DOMAIN (u \o v)
      BY <1>1, <1>2, <3>1
    <3>3. (u \o v)[j - 1] = s[j]
      BY <1>2, <3>1, <3>2
    <3> QED
      BY <2>1, <3>2, <3>3 DEF Has
  <2> QED
    BY <1>1, <1>5, <2>1, <2>2, <2>3
<1> QED
  BY <1>3, <1>4, <1>5

(* A sequence with a step more has all it had, and the step.                 *)
LEMMA WithOne ==
  ASSUME NEW S, NEW s \in Seq(S), NEW k \in 1..Len(s), NEW step \in S
  PROVE  /\ InsertAfter(s, k, step) \in Seq(S)
         /\ \A n : Has(s, n) => Has(InsertAfter(s, k, step), n)
         /\ Has(InsertAfter(s, k, step), Len(step.commit))
<1> DEFINE u == SubSeq(s, 1, k)
           v == SubSeq(s, k + 1, Len(s))
           w == InsertAfter(s, k, step)
<1>1. Len(s) \in Nat /\ DOMAIN s = 1..Len(s)
  OBVIOUS
<1>2. /\ u \in Seq(S) /\ Len(u) = k /\ \A j \in 1..k : u[j] = s[j]
      /\ v \in Seq(S) /\ Len(v) = Len(s) - k /\ \A j \in 1..(Len(s) - k) : v[j] = s[k + j]
  <2>1. k + 1 \in 1..(Len(s) + 1)
    BY <1>1
  <2>2. u \in Seq(S) /\ Len(u) = k /\ \A j \in 1..k : u[j] = s[j]
    BY <1>1, <2>1
  <2>3. v \in Seq(S) /\ Len(v) = Len(s) - k /\ \A j \in 1..(Len(s) - k) : v[j] = s[k + j]
    BY TailIs
  <2> QED
    BY <2>2, <2>3
<1>3. w = u \o <<step>> \o v
  BY DEF InsertAfter
<1> HIDE DEF u, v, w
<1>4. /\ w \in Seq(S) /\ DOMAIN w = 1..(Len(s) + 1) /\ w[k + 1] = step
      /\ \A j \in 1..k : w[j] = s[j]
      /\ \A j \in 1..(Len(s) - k) : w[k + 1 + j] = s[k + j]
  <2> DEFINE x == u \o <<step>>
  <2>1. x \in Seq(S) /\ Len(x) = k + 1 /\ x[k + 1] = step /\ \A j \in 1..k : x[j] = u[j]
    BY <1>1, <1>2
  <2>2. w = x \o v
    BY <1>3
  <2> HIDE DEF x
  <2>3. w \in Seq(S) /\ Len(w) = k + 1 + (Len(s) - k)
    <3>1. \A y, z \in Seq(S) : y \o z \in Seq(S) /\ Len(y \o z) = Len(y) + Len(z)
      OBVIOUS
    <3>2. w \in Seq(S) /\ Len(w) = Len(x) + Len(v)
      BY <1>2, <2>1, <2>2, <3>1
    <3> QED
      BY <1>2, <2>1, <3>2
  <2>4. \A j \in 1..(k + 1) : w[j] = x[j]
    BY <1>1, <1>2, <2>1, <2>2
  <2>5. ASSUME NEW j \in 1..(Len(s) - k)
        PROVE  w[k + 1 + j] = v[j]
    BY <1>1, <1>2, <2>1, <2>2
  <2>6. DOMAIN w = 1..(Len(s) + 1)
    BY <1>1, <2>3
  <2>7. w[k + 1] = step
    <3>1. k + 1 \in 1..(k + 1)
      BY <1>1
    <3> QED
      BY <2>1, <2>4, <3>1
  <2>8. ASSUME NEW j \in 1..k
        PROVE  w[j] = s[j]
    <3>1. j \in 1..(k + 1)
      BY <1>1
    <3> QED
      BY <1>2, <2>1, <2>4, <3>1
  <2> QED
    BY <1>2, <2>3, <2>5, <2>6, <2>7, <2>8
<1>5. ASSUME NEW n, Has(s, n)
      PROVE  Has(w, n)
  <2>1. PICK j \in 1..Len(s) : Len(s[j].commit) = n
    BY <1>1, <1>5 DEF Has
  <2>2. CASE j <= k
    <3>1. j \in 1..k /\ j \in DOMAIN w
      BY <1>1, <1>4, <2>2
    <3> QED
      BY <1>4, <2>1, <3>1 DEF Has
  <2>3. CASE j > k
    <3>1. j - k \in 1..(Len(s) - k) /\ k + (j - k) = j /\ k + 1 + (j - k) = j + 1 /\ j + 1 \in 1..(Len(s) + 1)
      BY <1>1, <2>3
    <3>2. w[j + 1] = s[j]
      <4>1. w[k + 1 + (j - k)] = s[k + (j - k)]
        BY <1>4, <3>1
      <4> QED
        BY <3>1, <4>1
    <3> QED
      BY <1>4, <2>1, <3>1, <3>2 DEF Has
  <2> QED
    BY <1>1, <2>1, <2>2, <2>3
<1>6. Has(w, Len(step.commit))
  <2>1. k + 1 \in DOMAIN w
    BY <1>1, <1>4
  <2> QED
    BY <1>4, <2>1 DEF Has
<1> QED
  BY <1>4, <1>5, <1>6 DEF w

(* The commits after the first `onto`, in some order, each of them there.   *)
StepsOfAll(onto, top) == {s \in Seq(PlainStep) : \A n \in (onto + 1)..top : Has(s, n)}

(* A squash relocates a step, and loses none.                                *)
LEMMA SquashedIs ==
  ASSUME NEW onto, NEW top, NEW s \in StepsOfAll(onto, top), NEW d,
         d.commit \in (onto + 1)..top, d.into \in (onto + 1)..top, d.commit # d.into
  PROVE  Squashed(s, d) \in StepsOfAll(onto, top)
<1> DEFINE i == At(s, d.commit)
           others == RemoveAt(s, i)
           j == At(others, d.into)
           step == [s[i] EXCEPT !.action = "fold"]
           w == InsertAfter(others, j, step)
<1>1. s \in Seq(PlainStep) /\ DOMAIN s = 1..Len(s) /\ \A n \in (onto + 1)..top : Has(s, n)
  BY DEF StepsOfAll
<1>2. i \in 1..Len(s) /\ Len(s[i].commit) = d.commit
  BY <1>1, Found
<1>3. Squashed(s, d) = w
  BY DEF Squashed, Relocated
<1> HIDE DEF i
<1>4. others \in Seq(PlainStep) /\ \A n : Has(s, n) /\ n # Len(s[i].commit) => Has(others, n)
  BY <1>1, <1>2, WithoutOne
<1>5. \A n \in (onto + 1)..top : n # d.commit => Has(others, n)
  BY <1>1, <1>2, <1>4
<1> HIDE DEF others
<1>6. j \in DOMAIN others
  BY <1>5, Found
<1>7. j \in 1..Len(others)
  BY <1>4, <1>6
<1> HIDE DEF j
<1>8. s[i] \in PlainStep
  BY <1>1, <1>2
<1>9. step \in PlainStep /\ step.commit = s[i].commit
  BY <1>8 DEF PlainStep
<1> HIDE DEF step
<1>10. w \in Seq(PlainStep) /\ (\A n : Has(others, n) => Has(w, n)) /\ Has(w, Len(step.commit))
  BY <1>4, <1>7, <1>9, WithOne
<1> HIDE DEF w
<1>11. \A n \in (onto + 1)..top : Has(w, n)
  BY <1>2, <1>5, <1>9, <1>10
<1> QED
  BY <1>3, <1>10, <1>11 DEF StepsOfAll

(* So do all squashes of an autosquash.                                      *)
LEMMA SquashedArePlain ==
  ASSUME HeadCommit \in Commits, NEW onto \in 1..Len(HeadCommit), NEW directives, Len(directives) \in Nat,
         \A k \in 1..Len(directives) :
           /\ directives[k].commit \in (onto + 1)..Len(HeadCommit)
           /\ directives[k].into \in (onto + 1)..Len(HeadCommit)
           /\ directives[k].commit # directives[k].into
  PROVE  AutosquashSteps(onto, directives) \in Seq(PlainStep)
<1> DEFINE n == Len(directives)
           top == Len(HeadCommit)
           S == StepsOfAll(onto, top)
           a == Steps(CommitsSince(onto))
           F == [x \in (1..n) \X S |-> Squashed(x[2], directives[x[1]])]
           IsUpTo0(f) == f = [k \in 0..n |-> IF k = 0 THEN a ELSE Squashed(f[k - 1], directives[k])]
<1>1. n \in Nat /\ top \in Nat /\ onto \in 1..top
  BY CommitIs
<1>2. a \in S
  <2>1. a \in Seq(PlainStep) /\ Len(a) = top - onto /\ \A i \in 1..(top - onto) : Len(a[i].commit) = onto + i
    BY <1>1, SinceArePlain
  <2> HIDE DEF a, top
  <2>2. ASSUME NEW m \in (onto + 1)..top
        PROVE  Has(a, m)
    <3>1. m - onto \in 1..(top - onto) /\ onto + (m - onto) = m
      BY <1>1
    <3>2. m - onto \in DOMAIN a
      BY <2>1, <3>1
    <3>3. Len(a[m - onto].commit) = m
      BY <2>1, <3>1
    <3> QED
      BY <3>2, <3>3 DEF Has
  <2> QED
    BY <2>1, <2>2 DEF StepsOfAll
<1>3. ASSUME NEW k \in 1..n, NEW s \in S
      PROVE  Squashed(s, directives[k]) \in S
  <2>1. directives[k].commit \in (onto + 1)..top /\ directives[k].into \in (onto + 1)..top
        /\ directives[k].commit # directives[k].into
    OBVIOUS
  <2> HIDE DEF top
  <2> QED
    BY <2>1, SquashedIs
<1>4. F \in [(1..n) \X S -> S]
  <2> HIDE DEF S
  <2> QED
    BY <1>3
<1> HIDE DEF n, a, S
<1>5. ASSUME NEW k \in 1..n, NEW s \in S
      PROVE  F[<<k, s>>] = Squashed(s, directives[k])
  <2>1. <<k, s>> \in (1..n) \X S
    OBVIOUS
  <2> QED
    BY <2>1
<1> HIDE DEF F
<1>6. PICK g : IsRecursion(g, n, S, a, F)
  BY <1>1, <1>2, <1>4, RecursionExists
<1>7. g \in [0..n -> S] /\ g[0] = a /\ \A k \in 1..n : g[k] = F[<<k, g[k - 1]>>]
  BY <1>6 DEF IsRecursion
<1>8. IsUpTo0(g)
  <2>1. ASSUME NEW k \in 0..n
        PROVE  g[k] = IF k = 0 THEN a ELSE Squashed(g[k - 1], directives[k])
    <3>1. CASE k = 0
      BY <1>7, <3>1
    <3>2. CASE k # 0
      <4>1. k \in 1..n /\ k - 1 \in 0..n
        BY <1>1, <3>2
      <4>2. g[k - 1] \in S
        BY <1>7, <4>1
      <4> QED
        BY <1>5, <1>7, <3>2, <4>1, <4>2
    <3> QED
      BY <3>1, <3>2
  <2>2. g = [k \in 0..n |-> g[k]]
    BY <1>7
  <2> QED
    BY <2>1, <2>2
<1> DEFINE c == CHOOSE f : IsUpTo0(f)
<1>9. IsUpTo0(c)
  <2> HIDE DEF IsUpTo0
  <2> QED
    BY <1>8
<1>10. AutosquashSteps(onto, directives) = c[n]
  BY DEF AutosquashSteps, n, a
<1> HIDE DEF c
<1> DEFINE Bad == {i \in 0..n : c[i] \notin S}
<1>11. Bad = {}
  <2>1. SUFFICES ASSUME Bad # {}
                 PROVE  FALSE
    OBVIOUS
  <2>2. Bad \in SUBSET Nat
    BY <1>1
  <2>3. PICK k \in Bad : \A y \in Bad : k <= y
    <3> HIDE DEF Bad
    <3> QED
      BY <2>1, <2>2, LeastExists
  <2>4. k \in 0..n /\ c[k] \notin S
    OBVIOUS
  <2>5. c[k] = IF k = 0 THEN a ELSE Squashed(c[k - 1], directives[k])
    BY <1>9, <2>4
  <2>6. k # 0
    BY <1>2, <2>4, <2>5
  <2>7. k \in 1..n /\ k - 1 \in 0..n /\ k - 1 < k
    BY <1>1, <2>4, <2>6
  <2>8. c[k - 1] \in S
    BY <1>1, <2>3, <2>7
  <2> QED
    BY <1>3, <2>4, <2>5, <2>6, <2>7, <2>8
<1>12. c[n] \in S
  <2>1. n \in 0..n
    BY <1>1
  <2> QED
    BY <1>11, <2>1
<1> QED
  BY <1>10, <1>12 DEF S, StepsOfAll

(***************************************************************************)
(* Splits and moves.                                                         *)
(***************************************************************************)

(* The parts of a split are trees, if it is not refused.                     *)
LEMMA PartsAreCut ==
  ASSUME NEW a \in SomeTrees, NEW b \in SomeTrees, NEW parts, parts \in Seq(ToSet(parts))
  PROVE  BuildSplit(Diff(Context, a, b), parts) \in Seq(SomeTrees \cup {Refused})
<1> DEFINE diff == Diff(Context, a, b)
           T == SomeTrees \cup {Refused}
<1>1. DOMAIN parts = 1..Len(parts) /\ Len(parts) \in Nat
  OBVIOUS
<1>2. diff.old = a /\ diff.new = b
  BY DEF Diff
<1>3. \A paths, keys : ApplySubset(diff, paths, keys) \in T
  <2> TAKE paths, keys
  <2>1. IsPart(ApplySubset(diff, paths, keys), FALSE, b)
    <3>1. Context \in Nat
      BY HunksAssumption
    <3> QED
      BY <3>1, SubsetApplied
  <2> QED
    BY <2>1 DEF IsPart
<1> HIDE DEF diff
<1>4. <<Refused>> \in Seq(T)
  OBVIOUS
<1> HIDE DEF T
<1>5. ASSUME NEW plan
      PROVE  SplitByHunks(diff, parts, plan) \in Seq(T)
  <2> DEFINE f == [k \in DOMAIN parts |-> ApplySubset(diff, UNION {plan[j].paths : j \in 1..k},
                                                   UNION {plan[j].keys : j \in 1..k})]
  <2>1. f \in [1..Len(parts) -> T]
    BY <1>1, <1>3
  <2>2. SplitByHunks(diff, parts, plan) = IF ~SoundPlan(diff, parts, plan) THEN <<Refused>> ELSE f
    BY DEF SplitByHunks
  <2> HIDE DEF f
  <2>3. f \in Seq(T)
    BY <1>1, <2>1
  <2> QED
    BY <1>4, <2>2, <2>3
<1>6. ASSUME NEW left
      PROVE  SplitByPaths(diff, parts, left) \in Seq(T)
  <2> DEFINE upTo(k) == UNION {IF parts[j].rest THEN left ELSE parts[j].paths : j \in 1..k}
             tree(k) == [p \in Paths |-> IF p \in upTo(k) THEN diff.new[p] ELSE diff.old[p]]
             f == [k \in DOMAIN parts |-> tree(k)]
  <2>1. \A k : tree(k) \in SomeTrees
    <3> HIDE DEF upTo
    <3> QED
      BY <1>2 DEF SomeTrees
  <2>2. SplitByPaths(diff, parts, left) \in {f, <<Refused>>}
    BY DEF SplitByPaths
  <2> HIDE DEF tree
  <2>3. f \in [1..Len(parts) -> T]
    BY <1>1, <2>1 DEF T
  <2> HIDE DEF f
  <2>4. f \in Seq(T)
    BY <1>1, <2>3
  <2> QED
    BY <1>4, <2>2, <2>4
<1> QED
  BY <1>5, <1>6 DEF BuildSplit, T, diff

(* What is not refused is a sequence of trees.                               *)
LEMMA NoneRefused ==
  ASSUME NEW s \in Seq(SomeTrees \cup {Refused}), Refused \notin ToSet(s)
  PROVE  s \in Seq(SomeTrees)
<1>1. s \in [1..Len(s) -> SomeTrees \cup {Refused}] /\ Len(s) \in Nat /\ DOMAIN s = 1..Len(s)
  OBVIOUS
<1>2. \A i \in 1..Len(s) : s[i] \in SomeTrees
  BY <1>1 DEF ToSet
<1>3. s \in [1..Len(s) -> SomeTrees]
  BY <1>1, <1>2
<1> QED
  BY <1>1, <1>3

(* The ends of a set of two.                                                *)
LEMMA PairEnds ==
  ASSUME NEW a \in Nat, NEW b \in Nat, a = b + 1 \/ b = a + 1
  PROVE  /\ Min({a, b}) \in {a, b} /\ Max({a, b}) \in {a, b}
         /\ Max({a, b}) = Min({a, b}) + 1
<1>1. {a, b} \in SUBSET Int /\ IsFiniteSet({a, b}) /\ {a, b} # {}
  <2>1. IsFiniteSet({a, b})
    <3>1. IsFiniteSet({a}) /\ {a, b} = {a} \cup {b}
      BY FS_Singleton
    <3> QED
      BY <3>1, FS_AddElement
  <2> QED
    BY <2>1
<1> DEFINE S == {a, b}
<1>2. S \in SUBSET Int /\ IsFiniteSet(S) /\ S # {}
  BY <1>1
<1>3. \A n : n \in S <=> n = a \/ n = b
  OBVIOUS
<1> HIDE DEF S
<1>4. Min(S) \in S /\ (\A n \in S : Min(S) <= n) /\ Max(S) \in S /\ \A n \in S : n <= Max(S)
  BY <1>2, SpanEnds
<1>5. (Min(S) = a \/ Min(S) = b) /\ (Max(S) = a \/ Max(S) = b)
      /\ Min(S) <= a /\ Min(S) <= b /\ a <= Max(S) /\ b <= Max(S)
  BY <1>3, <1>4
<1>6. Max(S) = Min(S) + 1
  BY <1>5
<1> QED
  BY <1>5, <1>6 DEF S

(***************************************************************************)
(* The invariant.                                                            *)
(***************************************************************************)

Types ==
  /\ branch \in Commits
  /\ head \in Commits \cup {None}
  /\ index \in SomeTrees /\ wt \in SomeTrees
  /\ parachute \in [at : SomeTrees \cup {None}, detached : SomeTrees \cup {None}]
  /\ saved \in SomeReplays \cup {None}
  /\ (saved = None) <=> (head = None)

(* A file the index does not hold is none of HEAD's.                        *)
Tracked == \A p \in Paths : index[p] = Absent => HeadTree[p] = Absent

OfFiles(snap) == DOMAIN snap \subseteq Paths /\ \A p \in DOMAIN snap : snap[p] \in Rising \cup {Absent}

Folds == {"fixup", "absorb"}
FoldUnderWay ==
  /\ {"kind", "was", "steps", "onto", "outcome", "snap"} \subseteq DOMAIN call
  /\ call.kind \in Folds
  /\ OfFiles(call.snap)
DiscardUnderWay ==
  /\ {"kind", "was", "outcome", "snap"} \subseteq DOMAIN call
  /\ call.kind = "discard"
  /\ OfFiles(call.snap)
RecutUnderWay ==
  /\ {"kind", "was", "outcome"} \subseteq DOMAIN call
  /\ call.kind \notin Folds \cup {"discard"}

(* What each place of a call may count on.                                  *)
Phases ==
  /\ pc \in {"idle", "clean", "begin", "replay", "abort", "restore", "discard"}
  /\ pc \in {"clean", "begin"} =>
       /\ call.steps \in Seq(PlainStep)
       /\ saved = None => call.onto \in 1..Len(branch)
  /\ pc \in {"clean", "begin", "abort", "restore"} => FoldUnderWay
  /\ pc \in {"clean", "begin", "abort"} => branch = call.was.branch
  /\ pc = "discard" => DiscardUnderWay
  /\ pc = "replay" =>
       /\ saved # None
       /\ \/ RecutUnderWay
          \/ FoldUnderWay /\ branch = call.was.branch /\ saved.steps \in Seq(PlainStep)

(* A call that parks the work or drops part of it, over no replay.          *)
Working ==
  (pc # "idle" \/ call # None) /\ call.kind \in Folds \cup {"discard"} /\ call.was.saved = None

(* The files the ref does not have, which are untracked, are in the worktree *)
(* and no reset reaches them.                                                *)
WorkIsKept ==
  Working =>
    /\ call.was.view \in SomeTrees /\ parachute.at = call.was.view
    /\ \A p \in Paths : call.was.view[p] # call.was.wt[p] =>
         /\ wt[p] = call.was.wt[p]
         /\ pc \in {"clean", "begin", "replay", "abort"} =>
              index[p] = Absent /\ wt[p] # Absent /\ Tree(call.was.branch)[p] = Absent
    /\ pc \in {"clean", "begin", "replay", "abort", "restore"} =>
         \A p \in DOMAIN call.snap : call.snap[p] = call.was.wt[p]
    /\ pc = "discard" => \A p \in DOMAIN call.snap : call.was.view[p] = call.was.wt[p]

ResliceInv == Types /\ Tracked /\ Phases /\ WorkIsKept

(***************************************************************************)
(* What resets and calls do.                                               *)
(***************************************************************************)
(* None is no tree, no commit and no replay.                                 *)
LEMMA NoneIs == None \notin SomeTrees /\ None \notin Seq(SomeTrees) /\ None \notin Commits /\ None \notin SomeReplays
BY ResliceAssumption DEF Commits

(* The commit HEAD is at, and the worktree as diffs see it.                  *)
LEMMA StateIs ==
  ASSUME Types
  PROVE  /\ HeadCommit \in Commits /\ HeadTree \in SomeTrees /\ View \in SomeTrees
         /\ saved = None => HeadCommit = branch
         /\ saved # None => HeadCommit = head /\ head \in Commits
<1>1. branch \in Commits /\ head \in Commits \cup {None} /\ index \in SomeTrees /\ wt \in SomeTrees
      /\ ((saved = None) <=> (head = None))
  BY DEF Types
<1>2. HeadCommit \in Commits
  BY <1>1 DEF HeadCommit
<1>3. HeadTree \in SomeTrees
  BY <1>2, CommitIs DEF HeadTree
<1>4. View \in SomeTrees
  BY <1>1 DEF View, SomeTrees
<1> QED
  BY <1>1, <1>2, <1>3, <1>4 DEF HeadCommit

(* A reset keeps a file that neither the index nor the tree has.            *)
LEMMA ResetIs ==
  ASSUME NEW tree \in SomeTrees, index \in SomeTrees, wt \in SomeTrees, HardReset(tree)
  PROVE  /\ index' = tree /\ index' \in SomeTrees /\ wt' \in SomeTrees
         /\ \A p \in Paths : tree[p] = Absent /\ index[p] = Absent => wt'[p] = wt[p]
<1>1. index' = tree
      /\ wt' = [p \in Paths |-> IF tree[p] = Absent /\ index[p] = Absent THEN wt[p] ELSE tree[p]]
  BY DEF HardReset
<1>2. wt' \in SomeTrees
  BY <1>1 DEF SomeTrees
<1> QED
  BY <1>1, <1>2

(* The worktree against HEAD: what is taken of it is a tree, all of it is   *)
(* the worktree.                                                            *)
LEMMA WorkTaken ==
  ASSUME Types, NEW context \in Nat, NEW paths, NEW keys
  PROVE  /\ ApplySubset(WorktreeDiff(context), paths, keys) # Refused =>
              ApplySubset(WorktreeDiff(context), paths, keys) \in SomeTrees
         /\ ApplySubsetByOldLine(WorktreeDiff(context), paths, keys) # Refused =>
              ApplySubsetByOldLine(WorktreeDiff(context), paths, keys) \in SomeTrees
<1>1. HeadTree \in SomeTrees /\ View \in SomeTrees
  BY StateIs
<1>2. WorktreeDiff(context) = Diff(context, HeadTree, View)
  BY DEF WorktreeDiff
<1>3. /\ IsPart(ApplySubset(Diff(context, HeadTree, View), paths, keys), FALSE, View)
      /\ IsPart(ApplySubsetByOldLine(Diff(context, HeadTree, View), paths, keys), FALSE, View)
  BY <1>1, SubsetApplied
<1> QED
  BY <1>2, <1>3 DEF IsPart

(* All of the work against HEAD is the worktree as diffs see it.             *)
LEMMA AllTaken ==
  ASSUME Types, NEW context \in Nat
  PROVE  LET diff == WorktreeDiff(context)
         IN  /\ ApplySubset(diff, Paths, AllKeys(diff)) \in {Refused, View}
             /\ ApplySubsetByOldLine(diff, Paths, AllKeys(diff)) \in {Refused, View}
<1>1. HeadTree \in SomeTrees /\ View \in SomeTrees
  BY StateIs
<1>2. WorktreeDiff(context) = Diff(context, HeadTree, View)
  BY DEF WorktreeDiff
<1> DEFINE diff == Diff(context, HeadTree, View)
           keys == AllKeys(diff)
<1>3. TRUE => Paths = Paths /\ keys = AllKeys(diff)
  OBVIOUS
<1>4. /\ IsPart(ApplySubset(diff, Paths, keys), TRUE, View)
      /\ IsPart(ApplySubsetByOldLine(diff, Paths, keys), TRUE, View)
  <2> HIDE DEF keys
  <2> QED
    BY <1>1, <1>3, SubsetApplied
<1> HIDE DEF diff
<1> QED
  BY <1>2, <1>4 DEF IsPart, diff

(***************************************************************************)
(* Folds begin.                                                              *)
(***************************************************************************)

(* On the branch, the ref of the branch is stamped.                          *)
LEMMA StampIs ==
  ASSUME Types, NEW tree \in SomeTrees, Stamp(tree)
  PROVE  /\ parachute' \in [at : SomeTrees \cup {None}, detached : SomeTrees \cup {None}]
         /\ saved = None => parachute'.at = tree
<1>1. parachute \in [at : SomeTrees \cup {None}, detached : SomeTrees \cup {None}]
      /\ ((saved = None) <=> (head = None))
  BY DEF Types
<1> QED
  BY <1>1 DEF Stamp

(* A file that diffs do not see is untracked.                               *)
LEMMA Unseen ==
  ASSUME Types, Tracked, NEW p \in Paths, View[p] # wt[p]
  PROVE  /\ index[p] = Absent /\ wt[p] # Absent /\ View[p] = Absent /\ HeadTree[p] = Absent
         /\ saved = None => Tree(branch)[p] = Absent
<1>1. View[p] = IF index[p] = Absent THEN Absent ELSE wt[p]
  BY DEF View
<1>2. HeadTree[p] = Absent
  BY <1>1 DEF Tracked
<1>3. saved = None => HeadCommit = branch
  BY StateIs
<1> QED
  BY <1>1, <1>2, <1>3 DEF HeadTree

(* A fold begins: the ref has all that diffs see, the rest is untracked and  *)
(* kept for the way back.                                                    *)
LEMMA Parked ==
  ASSUME ResliceInv, NEW kind \in Folds, NEW since, NEW steps \in Seq(PlainStep),
         NEW onto \in 1..Len(HeadCommit), NEW took, NEW work \in {Refused, View},
         Park(kind, since, steps, onto, work, took)
  PROVE  ResliceInv'
<1> DEFINE snap == [p \in Differing(HeadTree, View) |-> wt[p]]
<1>1. /\ work # Refused /\ Stamp(work) /\ pc' = "clean"
      /\ call' = [kind |-> kind, was |-> Was, since |-> since, steps |-> steps, onto |-> onto,
                  outcome |-> "running", took |-> took, snap |-> snap]
      /\ branch' = branch /\ head' = head /\ index' = index /\ wt' = wt /\ saved' = saved
  BY DEF Park, Begun
<1>2. Types /\ Tracked
  BY DEF ResliceInv
<1>3. work = View /\ View \in SomeTrees
  BY <1>1, <1>2, StateIs
<1>4. /\ parachute' \in [at : SomeTrees \cup {None}, detached : SomeTrees \cup {None}]
      /\ saved = None => parachute'.at = View
  BY <1>1, <1>2, <1>3, StampIs
<1>5. HeadCommit' = HeadCommit /\ HeadTree' = HeadTree
  BY <1>1 DEF HeadCommit, HeadTree
<1>6. Types'
  BY <1>1, <1>2, <1>4 DEF Types
<1>7. Tracked'
  BY <1>1, <1>2, <1>5 DEF Tracked
<1>8. /\ DOMAIN snap \subseteq Paths /\ \A p \in DOMAIN snap : snap[p] = wt[p]
      /\ \A p \in DOMAIN snap : snap[p] \in Rising \cup {Absent}
  <2>1. DOMAIN snap \subseteq Paths /\ \A p \in DOMAIN snap : snap[p] = wt[p]
    BY DEF Differing
  <2>2. wt \in SomeTrees
    BY <1>2 DEF Types
  <2> QED
    BY <2>1, <2>2 DEF SomeTrees
<1> HIDE DEF snap
<1>9. /\ call'.kind = kind /\ call'.was = Was /\ call'.steps = steps /\ call'.onto = onto /\ call'.snap = snap
      /\ {"kind", "was", "steps", "onto", "outcome", "snap"} \subseteq DOMAIN call'
  BY <1>1
<1>10. FoldUnderWay'
  BY <1>8, <1>9 DEF FoldUnderWay, OfFiles
<1>11. Phases'
  <2>1. saved = None => onto \in 1..Len(branch)
    BY <1>2, StateIs
  <2>2. Was.branch = branch
    BY DEF Was
  <2> QED
    BY <1>1, <1>9, <1>10, <2>1, <2>2 DEF Phases
<1>12. WorkIsKept'
  <2>1. SUFFICES ASSUME Working'
                 PROVE  WorkIsKept'
    BY DEF WorkIsKept
  <2>2. Was.view = View /\ Was.wt = wt /\ Was.saved = saved /\ Was.branch = branch
    BY DEF Was
  <2>3. saved = None
    BY <1>9, <2>1, <2>2 DEF Working
  <2>4. ASSUME NEW p \in Paths, View[p] # wt[p]
        PROVE  index[p] = Absent /\ wt[p] # Absent /\ Tree(branch)[p] = Absent
    BY <1>2, <2>3, <2>4, Unseen
  <2>5. call'.was.view = View /\ call'.was.wt = wt /\ call'.was.branch = branch
    BY <1>9, <2>2
  <2>6. call'.was.view \in SomeTrees /\ parachute'.at = call'.was.view
    BY <1>3, <1>4, <2>3, <2>5
  <2>7. \A p \in Paths : call'.was.view[p] # call'.was.wt[p] =>
          /\ wt'[p] = call'.was.wt[p]
          /\ index'[p] = Absent /\ wt'[p] # Absent /\ Tree(call'.was.branch)[p] = Absent
    BY <1>1, <2>4, <2>5
  <2>8. \A p \in DOMAIN call'.snap : call'.snap[p] = call'.was.wt[p]
    BY <1>8, <1>9, <2>5
  <2> QED
    BY <1>1, <2>6, <2>7, <2>8 DEF WorkIsKept
<1> QED
  BY <1>6, <1>7, <1>11, <1>12 DEF ResliceInv

(* Context is a number.                                                      *)
LEMMA ContextIs == Context \in Nat
BY HunksAssumption

(* What git_fixup folds is a tree, on a plain step.                          *)
LEMMA FoldIntoStep ==
  ASSUME ResliceInv, NEW target \in 2..Len(HeadCommit), NEW paths, NEW keys,
         FoldSelected(target, WorktreeDiff(Context), paths, keys)
  PROVE  ResliceInv'
<1> DEFINE diff == WorktreeDiff(Context)
           fold == ApplySubset(diff, paths, keys)
           work == ApplySubset(diff, Paths, AllKeys(diff))
           steps == FixupSteps(target, fold)
<1>1. Types
  BY DEF ResliceInv
<1>2. fold # Refused => fold \in SomeTrees
  BY <1>1, ContextIs, WorkTaken
<1>3. work \in {Refused, View}
  BY <1>1, ContextIs, AllTaken
<1> HIDE DEF work, fold, diff
<1>4. fold # Refused /\ Park("fixup", 0, steps, target - 1, work, LinesOf(diff, keys))
  BY DEF FoldSelected, FoldInto, work, fold, diff
<1>5. HeadCommit \in Commits
  BY <1>1, StateIs
<1>6. Len(HeadCommit) \in Nat /\ target - 1 \in 1..Len(HeadCommit) /\ Len(HeadCommit) - (target - 1) >= 1
  <2>1. Len(HeadCommit) \in Nat
    BY <1>5, CommitIs
  <2> QED
    BY <2>1
<1>7. steps \in Seq(PlainStep)
  <2> DEFINE since == Steps(CommitsSince(target - 1))
  <2>1. since \in Seq(PlainStep) /\ Len(since) = Len(HeadCommit) - (target - 1)
    BY <1>5, <1>6, SinceArePlain
  <2>2. Append(HeadCommit, fold) \in LongCommits
    BY <1>2, <1>4, <1>5, CommitIs
  <2>3. FoldStep(fold) \in PlainStep
    BY <2>2 DEF FoldStep, PlainStep
  <2>4. steps = InsertAfter(since, 1, FoldStep(fold))
    BY DEF FixupSteps
  <2> HIDE DEF since, steps
  <2>5. 1 \in 1..Len(since)
    BY <1>6, <2>1
  <2> QED
    BY <2>1, <2>3, <2>4, <2>5, WithOne
<1> HIDE DEF steps
<1>8. "fixup" \in Folds
  BY DEF Folds
<1> QED
  BY <1>3, <1>4, <1>6, <1>7, <1>8, Parked

(* git_fixup.                                                                *)
LEMMA FixupStep ==
  ASSUME ResliceInv, NEW target \in 2..Len(HeadCommit), NEW paths, NEW sels,
         FixupWorktree(target, WorktreeDiff(Context), paths, sels)
  PROVE  ResliceInv'
BY FoldIntoStep DEF FixupWorktree

(* git_absorb.                                                               *)
LEMMA AbsorbStep ==
  ASSUME ResliceInv, NEW since, Absorb(WorktreeDiff(0), since)
  PROVE  ResliceInv'
<1> DEFINE diff == WorktreeDiff(0)
           owners == {k \in (2..Len(HeadCommit)) \ {since} : OwnedBy(diff, since, k) # {}}
           onto == Min(owners) - 1
           steps == AbsorbSteps(diff, since, owners, onto)
           work == ApplySubsetByOldLine(diff, Paths, AllKeys(diff))
           took == LinesOf(diff, {Key(h) : h \in UNION {OwnedBy(diff, since, k) : k \in owners}})
<1>1. Types
  BY DEF ResliceInv
<1>2. HeadCommit \in Commits
  BY <1>1, StateIs
<1>3. Len(HeadCommit) \in Nat
  BY <1>2, CommitIs
<1>4. work \in {Refused, View}
  BY <1>1, AllTaken
<1>5. \A keys : IsPart(ApplySubsetByOldLine(diff, {}, keys), FALSE, diff)
  <2> TAKE keys
  <2>1. 0 \in Nat
    OBVIOUS
  <2> QED
    BY <1>1, <2>1, WorkTaken DEF IsPart
<1>6. owners \subseteq 2..Len(HeadCommit)
  OBVIOUS
<1> HIDE DEF diff, work, took
<1>7. owners # {} /\ AbsorbInto(diff, since, owners, steps)
  BY DEF Absorb, AbsorbHunks, diff
<1> HIDE DEF owners
<1>8. onto \in 1..(Len(HeadCommit) - 1)
  <2>1. IsFiniteSet(2..Len(HeadCommit))
    BY <1>3, FS_Interval
  <2>2. IsFiniteSet(owners) /\ owners \in SUBSET Int
    <3>1. IsFiniteSet(owners)
      BY <1>6, <2>1, FS_Subset
    <3>2. 2..Len(HeadCommit) \subseteq Int
      BY <1>3
    <3> QED
      BY <1>6, <3>1, <3>2
  <2>3. Min(owners) \in owners
    BY <1>7, <2>2, SpanEnds
  <2>4. Min(owners) \in 2..Len(HeadCommit)
    BY <1>6, <2>3
  <2> QED
    BY <1>3, <2>4
<1>9. (\A i \in DOMAIN steps : Tree(steps[i].commit) # Refused)
      /\ Park("absorb", since, steps, onto, work, took)
  BY <1>7 DEF AbsorbInto, work, took
<1> HIDE DEF onto
<1>10. steps \in Seq(MaybeStep)
  BY <1>2, <1>5, <1>8, AbsorbStepsAre
<1> HIDE DEF steps
<1>11. steps \in Seq(PlainStep)
  BY <1>2, <1>9, <1>10, AbsorbStepsArePlain
<1>12. onto \in 1..Len(HeadCommit) /\ "absorb" \in Folds
  BY <1>3, <1>8 DEF Folds
<1> QED
  BY <1>4, <1>9, <1>11, <1>12, Parked

(***************************************************************************)
(* Resets over the work.                                                     *)
(***************************************************************************)

Early == {"clean", "begin", "replay", "abort"}

SameCall ==
  /\ call'.kind = call.kind /\ call'.was = call.was
  /\ call.kind \in Folds \cup {"discard"} => call'.snap = call.snap

(* The tree has none of the files the ref does not hold.                    *)
Spares(tree) ==
  Working => \A p \in Paths : call.was.view[p] # call.was.wt[p] => tree[p] = Absent

(* A checkout that clobbers nothing spares the work.                         *)
LEMMA NotClobbered ==
  ASSUME WorkIsKept, pc \in Early, NEW tree, ~Clobbers(tree)
  PROVE  Spares(tree)
BY DEF WorkIsKept, Early, Spares, Clobbers

(* A reset to a tree that spares the work keeps it.                          *)
LEMMA ResetKeepsWork ==
  ASSUME Types, WorkIsKept, pc \in Early, NEW tree \in SomeTrees, HardReset(tree), Spares(tree),
         parachute' = parachute, SameCall, pc' \in Early \cup {"idle", "restore"}
  PROVE  WorkIsKept'
<1>1. SUFFICES ASSUME Working'
               PROVE  WorkIsKept'
  BY DEF WorkIsKept
<1>2. Working
  BY <1>1 DEF Working, SameCall, Early
<1>3. call'.was = call.was /\ call'.snap = call.snap
  BY <1>2 DEF Working, SameCall
<1>4. index \in SomeTrees /\ wt \in SomeTrees
  BY DEF Types
<1>5. index' = tree /\ \A p \in Paths : tree[p] = Absent /\ index[p] = Absent => wt'[p] = wt[p]
  BY <1>4, ResetIs
<1>6. /\ call.was.view \in SomeTrees /\ parachute.at = call.was.view
      /\ \A p \in DOMAIN call.snap : call.snap[p] = call.was.wt[p]
      /\ \A p \in Paths : call.was.view[p] # call.was.wt[p] =>
           wt[p] = call.was.wt[p] /\ index[p] = Absent /\ wt[p] # Absent /\ Tree(call.was.branch)[p] = Absent
  BY <1>2 DEF WorkIsKept, Early
<1>7. ASSUME NEW p \in Paths, call.was.view[p] # call.was.wt[p]
      PROVE  /\ wt'[p] = call.was.wt[p] /\ index'[p] = Absent /\ wt'[p] # Absent
             /\ Tree(call.was.branch)[p] = Absent
  <2>1. tree[p] = Absent
    BY <1>2, <1>7 DEF Spares
  <2> QED
    BY <1>5, <1>6, <1>7, <2>1
<1>8. pc' # "discard"
  BY DEF Early
<1> QED
  BY <1>3, <1>6, <1>7, <1>8 DEF WorkIsKept

(* A step that leaves index and worktree alone keeps it.                     *)
LEMMA StepKeepsWork ==
  ASSUME WorkIsKept, pc \in Early \cup {"restore"}, UNCHANGED <<index, wt, parachute>>, SameCall,
         pc' \in (IF pc = "restore" THEN {"idle", "restore"} ELSE Early \cup {"idle", "restore"})
  PROVE  WorkIsKept'
<1>1. SUFFICES ASSUME Working'
               PROVE  WorkIsKept'
  BY DEF WorkIsKept
<1>2. Working
  BY <1>1 DEF Working, SameCall, Early
<1>3. call'.was = call.was /\ call'.snap = call.snap
  BY <1>2 DEF Working, SameCall
<1>4. pc' # "discard" /\ (pc' \in Early => pc \in Early)
  BY DEF Early
<1> QED
  BY <1>2, <1>3, <1>4 DEF WorkIsKept, Early

(* The clean worktree.                                                       *)
LEMMA CleanStep ==
  ASSUME ResliceInv, Clean
  PROVE  ResliceInv'
<1>1. Types /\ Tracked /\ Phases /\ WorkIsKept
  BY DEF ResliceInv
<1>2. /\ pc = "clean" /\ HardReset(HeadTree) /\ pc' = "begin" /\ branch' = branch /\ head' = head
      /\ parachute' = parachute /\ saved' = saved /\ call' = call
  BY DEF Clean
<1>3. HeadTree \in SomeTrees
  BY <1>1, StateIs
<1>4. index \in SomeTrees /\ wt \in SomeTrees
  BY <1>1 DEF Types
<1>5. index' = HeadTree /\ index' \in SomeTrees /\ wt' \in SomeTrees
  BY <1>2, <1>3, <1>4, ResetIs
<1>6. HeadTree' = HeadTree
  BY <1>2 DEF HeadTree, HeadCommit
<1>7. Types'
  BY <1>1, <1>2, <1>5 DEF Types
<1>8. Tracked'
  BY <1>5, <1>6 DEF Tracked
<1>9. Phases'
  BY <1>1, <1>2 DEF Phases, FoldUnderWay
<1>10. Spares(HeadTree)
  <2>1. ~Clobbers(HeadTree)
    BY <1>1 DEF Tracked, Clobbers
  <2> QED
    BY <1>1, <1>2, <2>1, NotClobbered DEF Early
<1>11. WorkIsKept'
  BY <1>1, <1>2, <1>3, <1>10, ResetKeepsWork DEF Early, SameCall
<1> QED
  BY <1>7, <1>8, <1>9, <1>11 DEF ResliceInv

(* The begin of a fold.                                                      *)
LEMMA BeginStep ==
  ASSUME ResliceInv, Begin
  PROVE  ResliceInv'
<1>1. Types /\ Tracked /\ Phases /\ WorkIsKept
  BY DEF ResliceInv
<1>2. pc = "begin" /\ branch' = branch /\ parachute' = parachute /\ call' = call
  BY DEF Begin
<1>3. FoldUnderWay /\ branch = call.was.branch /\ call.steps \in Seq(PlainStep)
      /\ (saved = None => call.onto \in 1..Len(branch))
  BY <1>1, <1>2 DEF Phases
<1>4. FoldUnderWay'
  BY <1>2, <1>3 DEF FoldUnderWay
<1>5. SameCall
  BY <1>2 DEF SameCall
<1>6. CASE saved # None \/ Clobbers(call.was.branch[call.onto])
  <2>1. pc' = "abort" /\ UNCHANGED <<head, index, wt, saved>>
    BY <1>6 DEF Begin
  <2>2. Types'
    BY <1>1, <1>2, <2>1 DEF Types
  <2>3. Tracked'
    BY <1>1, <1>2, <2>1 DEF Tracked, HeadTree, HeadCommit
  <2>4. Phases'
    BY <1>2, <1>3, <1>4, <2>1 DEF Phases
  <2>5. WorkIsKept'
    BY <1>1, <1>2, <1>5, <2>1, StepKeepsWork DEF Early
  <2> QED
    BY <2>2, <2>3, <2>4, <2>5 DEF ResliceInv
<1>7. CASE ~(saved # None \/ Clobbers(call.was.branch[call.onto]))
  <2> DEFINE onto == SubSeq(branch, 1, call.onto)
  <2>1. /\ saved' = [steps |-> call.steps, next |-> 1, conflict |-> FALSE]
        /\ head' = onto /\ HardReset(Tree(head')) /\ pc' = "replay"
        /\ ~Clobbers(branch[call.onto])
    BY <1>3, <1>7 DEF Begin
  <2>2. branch \in Commits /\ call.onto \in 1..Len(branch)
    BY <1>1, <1>3, <1>7 DEF Types
  <2>3. onto \in Commits /\ Tree(onto) = branch[call.onto] /\ Tree(onto) \in SomeTrees
    <3>1. onto \in Commits /\ Tree(onto) = branch[call.onto] /\ branch[call.onto] \in SomeTrees
      BY <2>2, CommitIs
    <3> QED
      BY <3>1
  <2> HIDE DEF onto
  <2>4. HardReset(Tree(onto)) /\ ~Clobbers(Tree(onto))
    BY <2>1, <2>3
  <2>5. index \in SomeTrees /\ wt \in SomeTrees
    BY <1>1 DEF Types
  <2>6. index' = Tree(onto) /\ index' \in SomeTrees /\ wt' \in SomeTrees
    BY <2>3, <2>4, <2>5, ResetIs
  <2>7. call.steps \in Seq(SomeStep)
    BY <1>3, StepsAre
  <2>8. saved' \in SomeReplays
    BY <2>1, <2>7, StepsAre DEF SomeReplays
  <2>9. saved' # None /\ head' # None
    BY <2>1, <2>3, <2>8, NoneIs
  <2>10. HeadTree' = Tree(onto)
    BY <2>1, <2>9 DEF HeadTree, HeadCommit
  <2>11. Types'
    BY <1>1, <1>2, <2>1, <2>3, <2>6, <2>8, <2>9 DEF Types
  <2>12. Tracked'
    BY <2>6, <2>10 DEF Tracked
  <2>13. saved'.steps = call.steps
    BY <2>1
  <2>14. Phases'
    BY <1>2, <1>3, <1>4, <2>1, <2>9, <2>13 DEF Phases
  <2>15. Spares(Tree(onto))
    BY <1>1, <1>2, <2>4, NotClobbered DEF Early
  <2>16. WorkIsKept'
    BY <1>1, <1>2, <1>5, <2>1, <2>3, <2>4, <2>15, ResetKeepsWork DEF Early
  <2> QED
    BY <2>11, <2>12, <2>14, <2>16 DEF ResliceInv
<1> QED
  BY <1>6, <1>7

(***************************************************************************)
(* The replay.                                                               *)
(***************************************************************************)

Parking == {"clean", "begin", "replay", "abort", "restore"}

(* An outcome changes nothing else of a call.                                *)
LEMMA SameAfter ==
  ASSUME Phases, pc \in Parking, NEW o, call' = [call EXCEPT !.outcome = o]
  PROVE  SameCall /\ (FoldUnderWay => FoldUnderWay')
<1>1. DOMAIN call' = DOMAIN call /\ \A f \in DOMAIN call : f # "outcome" => call'[f] = call[f]
  OBVIOUS
<1>2. FoldUnderWay \/ RecutUnderWay
  BY DEF Phases, Parking
<1>3. CASE FoldUnderWay
  <2>1. call'.kind = call.kind /\ call'.was = call.was /\ call'.snap = call.snap
    BY <1>1, <1>3 DEF FoldUnderWay
  <2> QED
    BY <1>1, <1>3, <2>1 DEF SameCall, FoldUnderWay, OfFiles
<1>4. CASE RecutUnderWay /\ ~FoldUnderWay
  <2>1. call'.kind = call.kind /\ call'.was = call.was /\ call.kind \notin Folds \cup {"discard"}
    BY <1>1, <1>4 DEF RecutUnderWay
  <2> QED
    BY <1>4, <2>1 DEF SameCall
<1> QED
  BY <1>2, <1>3, <1>4

(* A step of a replay that stops it, or the abort of a fold that follows.   *)
Stops == (Parks /\ pc' = "abort" /\ call' = call) \/ (\E o : Returns(o))

(* A replay that stops keeps what it has.                                    *)
LEMMA Stopped ==
  ASSUME ResliceInv, pc = "replay", Stops, UNCHANGED <<branch, head, index, wt, parachute>>,
         saved' \in SomeReplays
  PROVE  ResliceInv'
<1>1. Types /\ Tracked /\ Phases /\ WorkIsKept
  BY DEF ResliceInv
<1>2. saved # None /\ saved' # None
  BY <1>1, NoneIs DEF Phases
<1>3. Types'
  BY <1>1, <1>2 DEF Types
<1>4. Tracked'
  BY <1>1 DEF Tracked, HeadTree, HeadCommit
<1>5. Phases' /\ SameCall /\ pc' \in Early \cup {"idle", "restore"}
  <2>1. CASE Parks /\ pc' = "abort" /\ call' = call
    <3>1. FoldUnderWay /\ branch = call.was.branch
      BY <1>1, <2>1 DEF Phases, RecutUnderWay, Folds, Parks
    <3>2. FoldUnderWay'
      BY <2>1, <3>1 DEF FoldUnderWay
    <3> QED
      BY <2>1, <3>1, <3>2 DEF Phases, SameCall, Early
  <2>2. CASE \E o : Returns(o)
    <3>1. PICK o : Returns(o)
      BY <2>2
    <3>2. pc' = "idle" /\ call' = [call EXCEPT !.outcome = o]
      BY <3>1 DEF Returns
    <3>3. SameCall
      BY <1>1, <3>2, SameAfter DEF Parking
    <3> QED
      BY <3>2, <3>3 DEF Phases, Early
  <2> QED
    BY <2>1, <2>2 DEF Stops
<1>6. WorkIsKept'
  BY <1>1, <1>5, StepKeepsWork DEF Early
<1> QED
  BY <1>3, <1>4, <1>5, <1>6 DEF ResliceInv

(* The branch a step makes: of a plain step it ends in the merge.           *)
LEMMA LandedIs ==
  ASSUME NEW step \in SomeStep, NEW tree \in SomeTrees, head \in Commits, HeadTree \in SomeTrees
  PROVE  /\ Refused \notin ToSet(Landed(step, tree)) => Landed(step, tree) \in Commits
         /\ step.action # "split" => Landed(step, tree) \in Commits /\ Tree(Landed(step, tree)) = tree
<1>1. step.parts \in Seq(ToSet(step.parts))
  <2>1. step.parts = <<>> \/ step.parts \in Partitions
    BY DEF SomeStep
  <2>2. <<>> \in Seq(ToSet(<<>>))
    OBVIOUS
  <2> QED
    BY <2>1, <2>2, ResliceAssumption
<1>2. head \in Seq(SomeTrees) /\ Len(head) \in Nat /\ Len(head) >= 1
  BY CommitIs
<1>3. CASE step.action = "split"
  <2> DEFINE cut == BuildSplit(Diff(Context, HeadTree, tree), step.parts)
             landed == Landed(step, tree)
  <2>1. cut \in Seq(SomeTrees \cup {Refused})
    BY <1>1, PartsAreCut
  <2> HIDE DEF cut
  <2>2. landed = head \o cut
    BY <1>3 DEF Landed, cut
  <2> HIDE DEF landed
  <2>3. head \in Seq(SomeTrees \cup {Refused})
    BY <1>2
  <2>4. landed \in Seq(SomeTrees \cup {Refused}) /\ Len(landed) = Len(head) + Len(cut) /\ Len(cut) \in Nat
    BY <2>1, <2>2, <2>3
  <2>5. landed # <<>>
    BY <1>2, <2>4
  <2>6. Refused \notin ToSet(landed) => landed \in Commits
    BY <2>4, <2>5, NoneRefused DEF Commits
  <2> QED
    BY <1>3, <2>6 DEF landed
<1>4. CASE step.action # "split"
  <2> DEFINE before == IF step.action = "fold" THEN Parent(head) ELSE head
  <2>1. Landed(step, tree) = Append(before, tree)
    BY <1>4 DEF Landed
  <2>2. before \in Seq(SomeTrees)
    BY <1>2 DEF Parent
  <2> HIDE DEF before
  <2>3. Append(before, tree) \in Seq(SomeTrees) /\ Len(Append(before, tree)) = Len(before) + 1
        /\ Append(before, tree)[Len(before) + 1] = tree /\ Len(before) \in Nat
    BY <2>2
  <2>4. Append(before, tree) # <<>>
    BY <2>3
  <2> QED
    BY <2>1, <2>3, <2>4 DEF Commits, Tree
<1> QED
  BY <1>3, <1>4

(* A step lands.                                                             *)
LEMMA LandStep ==
  ASSUME ResliceInv, pc = "replay", NEW step \in SomeStep, NEW tree \in SomeTrees,
         FoldUnderWay => step.action # "split",
         ~Clobbers(tree), Land(step, Landed(step, tree)), UNCHANGED <<branch, parachute>>
  PROVE  ResliceInv'
<1> DEFINE landed == Landed(step, tree)
<1>1. Types /\ Tracked /\ Phases /\ WorkIsKept
  BY DEF ResliceInv
<1>2. saved # None /\ (RecutUnderWay \/ (FoldUnderWay /\ branch = call.was.branch /\ saved.steps \in Seq(PlainStep)))
  BY <1>1 DEF Phases
<1>3. head \in Commits /\ HeadTree \in SomeTrees
  BY <1>1, <1>2, StateIs
<1>4. /\ Refused \notin ToSet(landed) => landed \in Commits
      /\ step.action # "split" => landed \in Commits /\ Tree(landed) = tree
  BY <1>3, LandedIs
<1> HIDE DEF landed
<1>5. saved \in SomeReplays
  BY <1>1, <1>2 DEF Types
<1>6. CASE Refused \in ToSet(landed)
  <2>1. Returns("refused") /\ UNCHANGED <<head, index, wt, saved>>
    BY <1>6 DEF Land, landed
  <2>2. Stops
    BY <2>1 DEF Stops
  <2> QED
    BY <1>5, <2>1, <2>2, Stopped
<1>7. CASE Refused \notin ToSet(landed)
  <2>1. /\ head' = landed /\ HardReset(Tree(landed)) /\ saved' = [saved EXCEPT !.next = @ + 1]
        /\ IF step.action = "edit" THEN Returns("paused") ELSE UNCHANGED <<pc, call>>
    BY <1>7 DEF Land, landed
  <2>2. landed \in Commits
    BY <1>4, <1>7
  <2>3. Tree(landed) \in SomeTrees
    BY <2>2, CommitIs
  <2>4. index \in SomeTrees /\ wt \in SomeTrees
    BY <1>1 DEF Types
  <2>5. index' = Tree(landed) /\ index' \in SomeTrees /\ wt' \in SomeTrees
    BY <2>1, <2>3, <2>4, ResetIs
  <2>6. saved' \in SomeReplays /\ saved'.steps = saved.steps
    BY <1>5, <2>1 DEF SomeReplays
  <2>7. saved' # None /\ head' # None
    BY <2>1, <2>2, <2>6, NoneIs
  <2>8. HeadTree' = Tree(landed)
    BY <2>1, <2>7 DEF HeadTree, HeadCommit
  <2>9. Types'
    BY <1>1, <2>1, <2>2, <2>5, <2>6, <2>7 DEF Types
  <2>10. Tracked'
    BY <2>5, <2>8 DEF Tracked
  <2>11. SameCall /\ pc' \in {"replay", "idle"} /\ Phases'
    <3>1. CASE step.action = "edit"
      <4>1. pc' = "idle" /\ call' = [call EXCEPT !.outcome = "paused"]
        BY <2>1, <3>1 DEF Returns
      <4>2. SameCall
        BY <1>1, <4>1, SameAfter DEF Parking
      <4> QED
        BY <4>1, <4>2 DEF Phases
    <3>2. CASE step.action # "edit"
      <4>1. pc' = "replay" /\ call' = call
        BY <2>1, <3>2
      <4>2. SameCall
        BY <4>1 DEF SameCall
      <4>3. (FoldUnderWay => FoldUnderWay') /\ (RecutUnderWay => RecutUnderWay')
        BY <4>1 DEF FoldUnderWay, RecutUnderWay
      <4> QED
        BY <1>2, <2>6, <2>7, <4>1, <4>2, <4>3 DEF Phases
    <3> QED
      BY <3>1, <3>2
  <2>12. Spares(Tree(landed))
    <3>1. CASE FoldUnderWay
      <4>1. Tree(landed) = tree
        BY <1>4, <3>1
      <4> QED
        BY <1>1, <4>1, NotClobbered DEF Early
    <3>2. CASE RecutUnderWay
      BY <3>2 DEF RecutUnderWay, Spares, Working
    <3> QED
      BY <1>2, <3>1, <3>2
  <2>13. WorkIsKept'
    BY <1>1, <2>1, <2>3, <2>11, <2>12, ResetKeepsWork DEF Early
  <2> QED
    BY <2>9, <2>10, <2>11, <2>13 DEF ResliceInv
<1> QED
  BY <1>6, <1>7

(* A pick lands, stops over an untracked file, or conflicts.                 *)
LEMMA PickStepStep ==
  ASSUME ResliceInv, pc = "replay", NEW step \in SomeStep, FoldUnderWay => step.action # "split",
         PickStep(step, Tree(Parent(step.commit)), Tree(step.commit)), UNCHANGED <<branch, parachute>>
  PROVE  ResliceInv'
<1> DEFINE base == Tree(Parent(step.commit))
           theirs == Tree(step.commit)
           tree == Merged(base, HeadTree, theirs)
<1>1. Types /\ Phases
  BY DEF ResliceInv
<1>2. saved # None
  BY <1>1 DEF Phases
<1>3. saved \in SomeReplays /\ HeadTree \in SomeTrees
  BY <1>1, <1>2, StateIs DEF Types
<1>4. step.commit \in LongCommits
  BY DEF SomeStep
<1>5. base \in SomeTrees /\ theirs \in SomeTrees
  <2>1. step.commit \in Commits /\ Parent(step.commit) \in Commits
    BY <1>4, LongCommitIs
  <2> QED
    BY <2>1, CommitIs
<1> HIDE DEF base, theirs
<1>6. tree \in SomeTrees
  BY <1>3, <1>5, MergedIsTree
<1> DEFINE conflicts == MergeConflicts(Diff(0, base, HeadTree), Diff(0, base, theirs))
<1>7. PickStep(step, base, theirs)
  BY DEF base, theirs
<1> HIDE DEF tree, conflicts
<1>8. IF Clobbers(tree)
      THEN /\ IF Parks THEN pc' = "abort" /\ UNCHANGED call ELSE Returns("refused")
           /\ UNCHANGED <<head, index, wt, saved>>
      ELSE IF conflicts # {}
      THEN /\ saved' = [saved EXCEPT !.conflict = TRUE]
           /\ IF Parks THEN pc' = "abort" /\ UNCHANGED call ELSE Returns("paused")
           /\ UNCHANGED <<head, index, wt>>
      ELSE Land(step, Landed(step, tree))
  BY <1>7 DEF PickStep, tree, conflicts
<1>9. CASE Clobbers(tree)
  <2>1. Stops /\ UNCHANGED <<head, index, wt, saved>>
    BY <1>8, <1>9 DEF Stops
  <2> QED
    BY <1>3, <2>1, Stopped
<1>10. CASE ~Clobbers(tree) /\ conflicts # {}
  <2>1. Stops /\ UNCHANGED <<head, index, wt>> /\ saved' = [saved EXCEPT !.conflict = TRUE]
    BY <1>8, <1>10 DEF Stops
  <2>2. saved' \in SomeReplays
    BY <1>3, <2>1 DEF SomeReplays
  <2> QED
    BY <2>1, <2>2, Stopped
<1>11. CASE ~Clobbers(tree) /\ conflicts = {}
  <2>1. Land(step, Landed(step, tree))
    BY <1>8, <1>11
  <2> QED
    BY <1>6, <1>11, <2>1, LandStep
<1> QED
  BY <1>9, <1>10, <1>11

(* A step of a replay.                                                       *)
LEMMA ReplayStepStep ==
  ASSUME ResliceInv, ReplayStep
  PROVE  ResliceInv'
<1> DEFINE step == saved.steps[saved.next]
<1>1. Types /\ Phases
  BY DEF ResliceInv
<1>2. pc = "replay" /\ saved.next <= Len(saved.steps) /\ UNCHANGED <<branch, parachute>>
      /\ PickStep(step, Tree(Parent(step.commit)), Tree(step.commit))
  BY DEF ReplayStep
<1>3. saved # None /\ (RecutUnderWay \/ (FoldUnderWay /\ branch = call.was.branch /\ saved.steps \in Seq(PlainStep)))
  BY <1>1, <1>2 DEF Phases
<1>4. saved \in SomeReplays
  BY <1>1, <1>3 DEF Types
<1>5. saved.steps \in Seq(SomeStep) /\ saved.next \in Nat \ {0}
  BY <1>4, StepsAre DEF SomeReplays
<1>6. saved.next \in 1..Len(saved.steps)
  BY <1>2, <1>5
<1>7. step \in SomeStep
  BY <1>5, <1>6
<1>8. FoldUnderWay => step.action # "split"
  <2>1. ASSUME FoldUnderWay
        PROVE  step \in PlainStep
    BY <1>3, <1>6, <2>1 DEF FoldUnderWay, RecutUnderWay
  <2> QED
    BY <2>1 DEF PlainStep
<1> HIDE DEF step
<1> QED
  BY <1>2, <1>7, <1>8, PickStepStep

(***************************************************************************)
(* The end of folds, and discards.                                           *)
(***************************************************************************)

(* The end of a replay.                                                      *)
LEMMA FinishStep ==
  ASSUME ResliceInv, Finish
  PROVE  ResliceInv'
<1>1. Types /\ Tracked /\ Phases /\ WorkIsKept
  BY DEF ResliceInv
<1>2. /\ pc = "replay" /\ branch' = head /\ head' = None /\ saved' = None
      /\ UNCHANGED <<index, wt, parachute>>
      /\ IF Parks THEN pc' = "restore" /\ UNCHANGED call ELSE Returns("done")
  BY DEF Finish
<1>3. saved # None /\ (RecutUnderWay \/ FoldUnderWay)
  BY <1>1, <1>2 DEF Phases
<1>4. HeadCommit = head /\ head \in Commits
  BY <1>1, <1>3, StateIs
<1>5. HeadTree' = HeadTree
  BY <1>2, <1>4 DEF HeadTree, HeadCommit
<1>6. Types'
  BY <1>1, <1>2, <1>4 DEF Types
<1>7. Tracked'
  BY <1>1, <1>2, <1>5 DEF Tracked
<1>8. SameCall /\ Phases' /\ pc' \in {"idle", "restore"}
  <2>1. CASE Parks
    <3>1. pc' = "restore" /\ call' = call
      BY <1>2, <2>1
    <3>2. FoldUnderWay'
      BY <1>3, <2>1, <3>1 DEF FoldUnderWay, RecutUnderWay, Folds, Parks
    <3> QED
      BY <3>1, <3>2 DEF SameCall, Phases
  <2>2. CASE ~Parks
    <3>1. pc' = "idle" /\ call' = [call EXCEPT !.outcome = "done"]
      BY <1>2, <2>2 DEF Returns
    <3>2. SameCall
      BY <1>1, <1>2, <3>1, SameAfter DEF Parking
    <3> QED
      BY <3>1, <3>2 DEF Phases
  <2> QED
    BY <2>1, <2>2
<1>9. WorkIsKept'
  BY <1>1, <1>2, <1>8, StepKeepsWork DEF Early
<1> QED
  BY <1>6, <1>7, <1>8, <1>9 DEF ResliceInv

(* HEAD back on the branch.                                                  *)
LEMMA BackIs ==
  ASSUME Types, BackOnBranch, branch' = branch, parachute' = parachute
  PROVE  Types' /\ Tracked'
<1>1. head' = None /\ saved' = None /\ HardReset(Tree(branch))
  BY DEF BackOnBranch
<1>2. branch \in Commits /\ index \in SomeTrees /\ wt \in SomeTrees
  BY DEF Types
<1>3. Tree(branch) \in SomeTrees
  BY <1>2, CommitIs
<1>4. index' = Tree(branch) /\ index' \in SomeTrees /\ wt' \in SomeTrees
  BY <1>1, <1>2, <1>3, ResetIs
<1>5. HeadTree' = Tree(branch)
  BY <1>1 DEF HeadTree, HeadCommit
<1> QED
  BY <1>1, <1>4, <1>5 DEF Types, Tracked

(* The abort of a fold, which spares the work since the branch is as the     *)
(* call found it.                                                            *)
LEMMA AbortFoldStep ==
  ASSUME ResliceInv, AbortFold
  PROVE  ResliceInv'
<1>1. Types /\ Tracked /\ Phases /\ WorkIsKept
  BY DEF ResliceInv
<1>2. /\ pc = "abort" /\ pc' = "restore" /\ call' = [call EXCEPT !.outcome = "refused"]
      /\ branch' = branch /\ parachute' = parachute
  BY DEF AbortFold
<1>3. FoldUnderWay /\ branch = call.was.branch
  BY <1>1, <1>2 DEF Phases
<1>4. SameCall /\ FoldUnderWay'
  BY <1>1, <1>2, <1>3, SameAfter DEF Parking
<1>5. Phases'
  BY <1>2, <1>4 DEF Phases
<1>6. CASE saved = None
  <2>1. UNCHANGED <<head, index, wt, saved>>
    BY <1>6 DEF AbortFold
  <2>2. Types' /\ Tracked'
    BY <1>1, <1>2, <2>1 DEF Types, Tracked, HeadTree, HeadCommit
  <2>3. WorkIsKept'
    BY <1>1, <1>2, <1>4, <2>1, StepKeepsWork DEF Early
  <2> QED
    BY <1>5, <2>2, <2>3 DEF ResliceInv
<1>7. CASE saved # None
  <2>1. BackOnBranch
    BY <1>7 DEF AbortFold
  <2>2. Types' /\ Tracked'
    BY <1>1, <1>2, <2>1, BackIs
  <2>3. branch \in Commits
    BY <1>1 DEF Types
  <2>4. Tree(branch) \in SomeTrees /\ HardReset(Tree(branch))
    BY <2>1, <2>3, CommitIs DEF BackOnBranch
  <2>5. Spares(Tree(branch))
    BY <1>1, <1>2, <1>3 DEF WorkIsKept, Spares
  <2>6. WorkIsKept'
    BY <1>1, <1>2, <1>4, <2>4, <2>5, ResetKeepsWork DEF Early
  <2> QED
    BY <1>5, <2>2, <2>6 DEF ResliceInv
<1> QED
  BY <1>6, <1>7

(* A file of a snapshot is written.                                          *)
LEMMA FileWritten ==
  ASSUME Types, Tracked, NEW snap, OfFiles(snap), NEW p \in DOMAIN snap, wt' = [wt EXCEPT ![p] = snap[p]],
         UNCHANGED <<branch, head, index, parachute, saved>>
  PROVE  Types' /\ Tracked'
<1>1. p \in Paths /\ snap[p] \in Rising \cup {Absent}
  BY DEF OfFiles
<1>2. wt \in SomeTrees
  BY DEF Types
<1>3. wt' \in SomeTrees
  BY <1>1, <1>2 DEF SomeTrees
<1> QED
  BY <1>3 DEF Types, Tracked, HeadTree, HeadCommit

(* The way back, file after file.                                            *)
LEMMA RestoreFileStep ==
  ASSUME ResliceInv, RestoreFile
  PROVE  ResliceInv'
<1>1. Types /\ Tracked /\ Phases /\ WorkIsKept
  BY DEF ResliceInv
<1>2. pc = "restore" /\ UNCHANGED <<branch, head, index, parachute, saved, pc, call>>
  BY DEF RestoreFile
<1>3. PICK p \in DOMAIN call.snap : wt' = [wt EXCEPT ![p] = call.snap[p]]
  BY DEF RestoreFile
<1>4. FoldUnderWay /\ OfFiles(call.snap) /\ FoldUnderWay'
  BY <1>1, <1>2 DEF Phases, FoldUnderWay
<1>5. Types' /\ Tracked'
  BY <1>1, <1>2, <1>3, <1>4, FileWritten
<1>6. Phases'
  BY <1>2, <1>4 DEF Phases
<1>7. WorkIsKept'
  <2>1. SUFFICES ASSUME Working'
                 PROVE  WorkIsKept'
    BY DEF WorkIsKept
  <2>2. Working
    BY <1>2, <2>1 DEF Working
  <2>3. wt \in SomeTrees /\ p \in Paths
    BY <1>1, <1>4 DEF Types, OfFiles
  <2>4. wt'[p] = call.snap[p] /\ \A q \in Paths : q # p => wt'[q] = wt[q]
    BY <1>3, <2>3 DEF SomeTrees
  <2>5. /\ call.was.view \in SomeTrees /\ parachute.at = call.was.view
        /\ \A q \in DOMAIN call.snap : call.snap[q] = call.was.wt[q]
        /\ \A q \in Paths : call.was.view[q] # call.was.wt[q] => wt[q] = call.was.wt[q]
    BY <1>1, <1>2, <2>2 DEF WorkIsKept
  <2>6. \A q \in Paths : call.was.view[q] # call.was.wt[q] => wt'[q] = call.was.wt[q]
    BY <2>4, <2>5
  <2> QED
    BY <1>2, <2>5, <2>6 DEF WorkIsKept
<1> QED
  BY <1>5, <1>6, <1>7 DEF ResliceInv

(* The end of the way back.                                                  *)
LEMMA RestoredStep ==
  ASSUME ResliceInv, Restored
  PROVE  ResliceInv'
<1>1. Types /\ Tracked /\ Phases /\ WorkIsKept
  BY DEF ResliceInv
<1> DEFINE o == IF call.outcome = "refused" THEN "refused" ELSE "done"
<1>2. pc = "restore" /\ Returns(o) /\ UNCHANGED <<branch, head, index, wt, parachute, saved>>
  BY DEF Restored
<1> HIDE DEF o
<1>3. pc' = "idle" /\ call' = [call EXCEPT !.outcome = o]
  BY <1>2 DEF Returns
<1>4. SameCall
  BY <1>1, <1>2, <1>3, SameAfter DEF Parking
<1>5. Types' /\ Tracked'
  BY <1>1, <1>2 DEF Types, Tracked, HeadTree, HeadCommit
<1>6. Phases'
  BY <1>3 DEF Phases
<1>7. WorkIsKept'
  BY <1>1, <1>2, <1>3, <1>4, StepKeepsWork
<1> QED
  BY <1>5, <1>6, <1>7 DEF ResliceInv

(* A discard begins: its files are all on the ref.                           *)
LEMMA DiscardStarts ==
  ASSUME ResliceInv, NEW keys, NEW kept, NEW work \in {Refused, View},
         kept # Refused => kept \in SomeTrees, pc = "idle",
         DiscardHunks(WorktreeDiff(0), keys, kept, work)
  PROVE  ResliceInv'
<1> DEFINE diff == WorktreeDiff(0)
           snap == [p \in Deltas(diff) |-> kept[p]]
           took == LinesOf(diff, keys)
<1>1. Types /\ Tracked /\ Phases /\ WorkIsKept
  BY DEF ResliceInv
<1>2. Deltas(diff) = {p \in Paths : HeadTree[p] # View[p]}
  BY DEF WorktreeDiff, Diff, Deltas, Differing
<1> HIDE DEF diff, took
<1>3. /\ Refused \notin {kept, work} /\ Stamp(work) /\ pc' = "discard"
      /\ call' = [kind |-> "discard", was |-> Was, outcome |-> "running", took |-> took, snap |-> snap]
      /\ UNCHANGED <<branch, head, index, wt, saved>>
  BY DEF DiscardHunks, Begun, diff, took
<1>4. work = View /\ View \in SomeTrees /\ kept \in SomeTrees
  BY <1>1, <1>3, StateIs
<1>5. /\ parachute' \in [at : SomeTrees \cup {None}, detached : SomeTrees \cup {None}]
      /\ saved = None => parachute'.at = View
  BY <1>1, <1>3, <1>4, StampIs
<1>6. Types' /\ Tracked'
  BY <1>1, <1>3, <1>5 DEF Types, Tracked, HeadTree, HeadCommit
<1>7. DOMAIN snap = {p \in Paths : HeadTree[p] # View[p]} /\ OfFiles(snap)
  <2>1. \A p \in Paths : kept[p] \in Rising \cup {Absent}
    BY <1>4 DEF SomeTrees
  <2> QED
    BY <1>2, <2>1 DEF OfFiles
<1> HIDE DEF snap
<1>8. /\ call'.kind = "discard" /\ call'.was = Was /\ call'.snap = snap
      /\ {"kind", "was", "outcome", "snap"} \subseteq DOMAIN call'
  BY <1>3
<1>9. Phases'
  BY <1>3, <1>7, <1>8 DEF Phases, DiscardUnderWay, OfFiles
<1>10. WorkIsKept'
  <2>1. SUFFICES ASSUME Working'
                 PROVE  WorkIsKept'
    BY DEF WorkIsKept
  <2>2. Was.view = View /\ Was.wt = wt /\ Was.saved = saved
    BY DEF Was
  <2>3. saved = None
    BY <1>8, <2>1, <2>2 DEF Working
  <2>4. call'.was.view = View /\ call'.was.wt = wt
    BY <1>8, <2>2
  <2>5. \A p \in DOMAIN call'.snap : call'.was.view[p] = call'.was.wt[p]
    BY <1>1, <1>7, <1>8, <2>4, Unseen
  <2> QED
    BY <1>3, <1>4, <1>5, <2>3, <2>4, <2>5 DEF WorkIsKept
<1> QED
  BY <1>6, <1>9, <1>10 DEF ResliceInv

(* git_discard.                                                              *)
LEMMA DiscardStep ==
  ASSUME ResliceInv, NEW paths, NEW sels, Discard(WorktreeDiff(0), paths, sels)
  PROVE  ResliceInv'
<1> DEFINE diff == WorktreeDiff(0)
           keys == KeysTaken(diff, paths, sels)
           kept == ApplySubsetByOldLine(diff, Paths \ paths, AllKeys(diff) \ keys)
           work == ApplySubsetByOldLine(diff, Paths, AllKeys(diff))
<1>1. Types /\ 0 \in Nat
  BY DEF ResliceInv
<1>2. work \in {Refused, View}
  BY <1>1, AllTaken
<1>3. kept # Refused => kept \in SomeTrees
  BY <1>1, WorkTaken
<1>4. pc = "idle" /\ DiscardHunks(diff, keys, kept, work)
  BY DEF Discard, CanCall, DiscardSelected
<1> HIDE DEF keys, kept, work
<1> QED
  BY <1>2, <1>3, <1>4, DiscardStarts

(* A file of a discard.                                                      *)
LEMMA DiscardFileStep ==
  ASSUME ResliceInv, DiscardFile
  PROVE  ResliceInv'
<1>1. Types /\ Tracked /\ Phases /\ WorkIsKept
  BY DEF ResliceInv
<1>2. pc = "discard" /\ UNCHANGED <<branch, head, index, parachute, saved, pc, call>>
  BY DEF DiscardFile
<1>3. PICK p \in DOMAIN call.snap : wt' = [wt EXCEPT ![p] = call.snap[p]]
  BY DEF DiscardFile
<1>4. DiscardUnderWay /\ OfFiles(call.snap) /\ DiscardUnderWay'
  BY <1>1, <1>2 DEF Phases, DiscardUnderWay
<1>5. Types' /\ Tracked'
  BY <1>1, <1>2, <1>3, <1>4, FileWritten
<1>6. Phases'
  BY <1>2, <1>4 DEF Phases
<1>7. WorkIsKept'
  <2>1. SUFFICES ASSUME Working'
                 PROVE  WorkIsKept'
    BY DEF WorkIsKept
  <2>2. Working
    BY <1>2, <2>1 DEF Working
  <2>3. wt \in SomeTrees
    BY <1>1 DEF Types
  <2>4. \A q \in Paths : q # p => wt'[q] = wt[q]
    BY <1>3, <2>3 DEF SomeTrees
  <2>5. /\ call.was.view \in SomeTrees /\ parachute.at = call.was.view
        /\ \A q \in DOMAIN call.snap : call.was.view[q] = call.was.wt[q]
        /\ \A q \in Paths : call.was.view[q] # call.was.wt[q] => wt[q] = call.was.wt[q]
    BY <1>1, <1>2, <2>2 DEF WorkIsKept
  <2>6. \A q \in Paths : call.was.view[q] # call.was.wt[q] => wt'[q] = call.was.wt[q]
    BY <2>4, <2>5
  <2> QED
    BY <1>2, <2>5, <2>6 DEF WorkIsKept
<1> QED
  BY <1>5, <1>6, <1>7 DEF ResliceInv

(* The end of a discard.                                                     *)
LEMMA DiscardedStep ==
  ASSUME ResliceInv, Discarded
  PROVE  ResliceInv'
<1>1. Types /\ Tracked /\ Phases /\ WorkIsKept
  BY DEF ResliceInv
<1>2. /\ pc = "discard" /\ UNCHANGED <<branch, head, wt, parachute, saved>>
      /\ index' = [p \in Paths |-> IF p \in DOMAIN call.snap THEN HeadTree[p] ELSE index[p]]
      /\ pc' = "idle" /\ call' = [call EXCEPT !.outcome = "done"]
  BY DEF Discarded, Returns
<1>3. DiscardUnderWay
  BY <1>1, <1>2 DEF Phases
<1>4. HeadTree \in SomeTrees /\ index \in SomeTrees
  BY <1>1, StateIs DEF Types
<1>5. index' \in SomeTrees
  BY <1>2, <1>4 DEF SomeTrees
<1>6. HeadTree' = HeadTree
  BY <1>2 DEF HeadTree, HeadCommit
<1>7. Types'
  BY <1>1, <1>2, <1>5 DEF Types
<1>8. Tracked'
  BY <1>1, <1>2, <1>6 DEF Tracked
<1>9. Phases'
  BY <1>2 DEF Phases
<1>10. call'.kind = call.kind /\ call'.was = call.was
  BY <1>2, <1>3 DEF DiscardUnderWay
<1>11. WorkIsKept'
  <2>1. SUFFICES ASSUME Working'
                 PROVE  WorkIsKept'
    BY DEF WorkIsKept
  <2>2. Working
    BY <1>2, <1>10, <2>1 DEF Working
  <2>3. /\ call.was.view \in SomeTrees /\ parachute.at = call.was.view
        /\ \A q \in Paths : call.was.view[q] # call.was.wt[q] => wt[q] = call.was.wt[q]
    BY <1>1, <2>2 DEF WorkIsKept
  <2> QED
    BY <1>2, <1>10, <2>3 DEF WorkIsKept
<1> QED
  BY <1>7, <1>8, <1>9, <1>11 DEF ResliceInv

(***************************************************************************)
(* Commits and recuts.                                                       *)
(***************************************************************************)

(* Other calls park nothing here.                                            *)
LEMMA OtherCall ==
  ASSUME call'.kind \notin Folds \cup {"discard"}
  PROVE  WorkIsKept'
BY DEF WorkIsKept, Working

(* A commit whose tree the index takes.                                      *)
LEMMA CommittedStep ==
  ASSUME ResliceInv, pc = "idle", head = None, NEW tree, tree # Refused => tree \in SomeTrees, NEW took,
         Committed(tree, tree, took)
  PROVE  ResliceInv'
<1>1. Types /\ Tracked
  BY DEF ResliceInv
<1>2. /\ tree # Refused /\ branch' = Append(branch, tree) /\ index' = tree
      /\ call' = [kind |-> "commit", was |-> Was, outcome |-> "done", took |-> took]
      /\ UNCHANGED <<head, wt, parachute, saved, pc>>
  BY DEF Committed, Begun
<1>3. branch \in Commits
  BY <1>1 DEF Types
<1>4. tree \in SomeTrees
  BY <1>2
<1>5. branch' \in Commits /\ Tree(branch') = tree
  <2>1. Append(branch, tree) \in Commits /\ Tree(Append(branch, tree)) = tree
    BY <1>3, <1>4, CommitIs
  <2> QED
    BY <1>2, <2>1
<1>6. HeadTree' = tree
  BY <1>2, <1>5 DEF HeadTree, HeadCommit
<1>7. Types'
  BY <1>1, <1>2, <1>4, <1>5 DEF Types
<1>8. Tracked'
  BY <1>2, <1>6 DEF Tracked
<1>9. Phases'
  BY <1>2 DEF Phases
<1>10. call'.kind \notin Folds \cup {"discard"}
  BY <1>2 DEF Folds
<1> QED
  BY <1>7, <1>8, <1>9, <1>10, OtherCall DEF ResliceInv

(* git_commit of whole files.                                                *)
LEMMA CommitPathsStep ==
  ASSUME ResliceInv, NEW paths \in SUBSET Paths, CommitPaths(paths)
  PROVE  ResliceInv'
<1> DEFINE tree == [p \in Paths |-> IF p \in paths THEN wt[p] ELSE index[p]]
           took == UNION {{<<p, n>> : n \in SymDiff(Lines(HeadTree[p]), Lines(wt[p]))} : p \in paths}
<1>1. index \in SomeTrees /\ wt \in SomeTrees
  BY DEF ResliceInv, Types
<1>2. tree \in SomeTrees
  BY <1>1 DEF SomeTrees
<1>3. pc = "idle" /\ head = None /\ Committed(tree, tree, took)
  BY DEF CommitPaths, CanCall
<1> HIDE DEF tree, took
<1> QED
  BY <1>2, <1>3, CommittedStep

(* git_commit of hunks.                                                      *)
LEMMA CommitHunksStep ==
  ASSUME ResliceInv, NEW named, NEW paths, NEW sels, CommitHunks(NamedDiff(named), paths, sels)
  PROVE  ResliceInv'
<1> DEFINE seen == [p \in Paths |-> IF p \in named THEN View[p] ELSE HeadTree[p]]
           diff == NamedDiff(named)
           keys == KeysTaken(diff, paths, sels)
           tree == ApplySubset(diff, paths, keys)
           took == LinesOf(diff, keys)
<1>1. HeadTree \in SomeTrees /\ View \in SomeTrees
  BY StateIs DEF ResliceInv
<1>2. seen \in SomeTrees
  BY <1>1 DEF SomeTrees
<1>3. diff = Diff(Context, HeadTree, seen)
  BY DEF NamedDiff
<1>4. pc = "idle" /\ head = None /\ Committed(tree, tree, took)
  BY DEF CommitHunks, CommitSelected, CanCall
<1> HIDE DEF seen, diff, keys
<1>5. IsPart(ApplySubset(Diff(Context, HeadTree, seen), paths, keys), FALSE, seen)
  BY <1>1, <1>2, ContextIs, SubsetApplied
<1>6. tree # Refused => tree \in SomeTrees
  BY <1>3, <1>5 DEF IsPart
<1> HIDE DEF tree, took
<1> QED
  BY <1>4, <1>6, CommittedStep

(* A recut starts its replay.                                                *)
LEMMA ReplayStarts ==
  ASSUME ResliceInv, NEW onto \in Commits, NEW steps \in Seq(SomeStep), NEW started,
         {"kind", "was", "outcome"} \subseteq DOMAIN started, started.kind \notin Folds \cup {"discard"},
         Replay(onto, steps, started)
  PROVE  ResliceInv'
<1>1. Types
  BY DEF ResliceInv
<1>2. /\ call' = started /\ saved' = [steps |-> steps, next |-> 1, conflict |-> FALSE] /\ head' = onto
      /\ HardReset(Tree(onto)) /\ pc' = "replay" /\ UNCHANGED <<branch, parachute>>
  BY DEF Replay, Begun
<1>3. index \in SomeTrees /\ wt \in SomeTrees
  BY <1>1 DEF Types
<1>4. Tree(onto) \in SomeTrees
  BY CommitIs
<1>5. index' = Tree(onto) /\ index' \in SomeTrees /\ wt' \in SomeTrees
  BY <1>2, <1>3, <1>4, ResetIs
<1>6. saved' \in SomeReplays
  BY <1>2, StepsAre DEF SomeReplays
<1>7. saved' # None /\ head' # None
  BY <1>2, <1>6, NoneIs
<1>8. HeadTree' = Tree(onto)
  BY <1>2, <1>7 DEF HeadTree, HeadCommit
<1>9. Types'
  BY <1>1, <1>2, <1>5, <1>6, <1>7 DEF Types
<1>10. Tracked'
  BY <1>5, <1>8 DEF Tracked
<1>11. Phases'
  BY <1>2, <1>7 DEF Phases, RecutUnderWay
<1>12. WorkIsKept'
  BY <1>2, OtherCall
<1> QED
  BY <1>9, <1>10, <1>11, <1>12 DEF ResliceInv

(* A recut is on the branch.                                                 *)
LEMMA Recuttable ==
  ASSUME ResliceInv, CanRecut
  PROVE  HeadCommit = branch /\ branch \in Commits /\ HeadCommit \in Commits /\ Len(branch) \in Nat
BY StateIs, CommitIs DEF ResliceInv, CanRecut

(* git_split.                                                                *)
LEMMA SplitStep ==
  ASSUME ResliceInv, NEW target \in 2..Len(branch), NEW parts \in Partitions, Split(target, parts)
  PROVE  ResliceInv'
<1> DEFINE commit == SubSeq(branch, 1, target)
           step == [commit |-> commit, action |-> "split", parts |-> parts]
           rest == Steps(CommitsSince(target))
           started == [kind |-> "split", was |-> Was, outcome |-> "running", target |-> target, parts |-> parts]
<1>1. CanRecut /\ Replay(Parent(commit), <<step>> \o rest, started)
  BY DEF Split
<1>2. HeadCommit = branch /\ HeadCommit \in Commits /\ Len(branch) \in Nat /\ target \in 1..Len(HeadCommit)
  <2>1. HeadCommit = branch /\ HeadCommit \in Commits /\ Len(branch) \in Nat
    BY <1>1, Recuttable
  <2> QED
    BY <2>1
<1>3. commit \in LongCommits
  <2>1. branch \in Seq(SomeTrees)
    BY <1>2 DEF Commits
  <2>2. commit \in Seq(SomeTrees) /\ Len(commit) = target
    BY <1>2, <2>1
  <2> QED
    BY <2>2 DEF LongCommits
<1> HIDE DEF commit
<1>4. Parent(commit) \in Commits
  BY <1>3, LongCommitIs
<1>5. step \in SomeStep
  BY <1>3 DEF SomeStep
<1>6. rest \in Seq(PlainStep)
  BY <1>2, SinceArePlain
<1>7. rest \in Seq(SomeStep)
  BY <1>6, StepsAre
<1>8. {"kind", "was", "outcome"} \subseteq DOMAIN started /\ started.kind \notin Folds \cup {"discard"}
  BY DEF Folds
<1> HIDE DEF step, rest, started
<1>9. <<step>> \o rest \in Seq(SomeStep)
  BY <1>5, <1>7
<1> QED
  BY <1>1, <1>4, <1>8, <1>9, ReplayStarts

(* git_move.                                                                 *)
LEMMA MoveStep ==
  ASSUME ResliceInv, NEW from \in 2..Len(branch), NEW to \in 2..Len(branch), NEW paths, NEW sels,
         Move(from, to, Diff(Context, branch[from - 1], branch[from]), paths, sels)
  PROVE  ResliceInv'
<1> DEFINE diff == Diff(Context, branch[from - 1], branch[from])
           keys == KeysTaken(diff, paths, sels)
           tree == MovedTree(from, to, diff, paths, keys)
           low == Min({from, to})
           high == Max({from, to})
           base == SubSeq(branch, 1, low - 1)
           onto == base \o <<tree, branch[high]>>
           steps == Steps(CommitsSince(Len(onto)))
           took == LinesOf(diff, keys)
           started == [kind |-> "move", was |-> Was, outcome |-> "running", from |-> from, to |-> to, took |-> took]
           T == SomeTrees \cup {Refused}
<1>1. CanRecut /\ (from = to + 1 \/ to = from + 1) /\ Refused \notin ToSet(onto) /\ Replay(onto, steps, started)
  BY DEF Move, MoveHunks, MoveOnto
<1>2. HeadCommit = branch /\ HeadCommit \in Commits /\ Len(branch) \in Nat
  BY <1>1, Recuttable
<1>3. branch \in Seq(SomeTrees)
  BY <1>2 DEF Commits
<1>4. from \in Nat /\ to \in Nat
  BY <1>2
<1>5. low \in {from, to} /\ high \in {from, to} /\ high = low + 1
  BY <1>1, <1>4, PairEnds
<1>6. branch[from - 1] \in SomeTrees /\ branch[from] \in SomeTrees
  <2>1. from - 1 \in 1..Len(branch) /\ from \in 1..Len(branch)
    BY <1>2
  <2> QED
    BY <1>3, <2>1
<1>7. /\ IsPart(ApplySubset(diff, paths, keys), FALSE, branch[from])
      /\ IsPart(ApplySubset(diff, Paths \ paths, AllKeys(diff) \ keys), FALSE, branch[from])
  <2> DEFINE others == AllKeys(diff) \ keys
             left == Paths \ paths
  <2> HIDE DEF keys, others, left
  <2>1. /\ IsPart(ApplySubset(diff, paths, keys), FALSE, branch[from])
        /\ IsPart(ApplySubset(diff, left, others), FALSE, branch[from])
    BY <1>6, ContextIs, SubsetApplied
  <2> QED
    BY <2>1 DEF left, others
<1> HIDE DEF diff, keys
<1>8. tree \in T
  BY <1>7 DEF MovedTree, IsPart
<1> HIDE DEF tree, low, high, started, steps
<1>9. low - 1 \in 1..Len(branch) /\ high \in 1..Len(branch) /\ low \in Nat /\ low >= 2
  BY <1>2, <1>5
<1>10. base \in Seq(T) /\ Len(base) = low - 1 /\ branch[high] \in T
  <2>1. branch \in Seq(T)
    BY <1>3
  <2> HIDE DEF T
  <2> QED
    BY <1>9, <2>1
<1> DEFINE pair == <<tree, branch[high]>>
<1>11. pair \in Seq(T) /\ Len(pair) = 2
  <2> HIDE DEF T
  <2> QED
    BY <1>8, <1>10
<1> HIDE DEF base, pair
<1>12. onto \in Seq(T) /\ Len(onto) = Len(base) + Len(pair)
  <2>1. onto = base \o pair
    BY DEF pair
  <2> HIDE DEF onto, T
  <2>2. \A x, y \in Seq(T) : x \o y \in Seq(T) /\ Len(x \o y) = Len(x) + Len(y)
    OBVIOUS
  <2> QED
    BY <1>10, <1>11, <2>1, <2>2
<1> HIDE DEF onto
<1>13. onto \in Seq(SomeTrees)
  BY <1>1, <1>12, NoneRefused
<1>14. Len(onto) = high
  BY <1>5, <1>9, <1>10, <1>11, <1>12
<1>15. onto \in Commits
  <2>1. onto # <<>>
    BY <1>5, <1>9, <1>14
  <2> QED
    BY <1>13, <2>1 DEF Commits
<1>16. steps \in Seq(PlainStep)
  BY <1>2, <1>9, <1>14, SinceArePlain DEF steps
<1>17. steps \in Seq(SomeStep)
  BY <1>16, StepsAre
<1>18. {"kind", "was", "outcome"} \subseteq DOMAIN started /\ started.kind \notin Folds \cup {"discard"}
  BY DEF Folds, started
<1> QED
  BY <1>1, <1>15, <1>17, <1>18, ReplayStarts

(* git_rebase with autosquash.                                               *)
LEMMA AutosquashStep ==
  ASSUME ResliceInv, NEW directives \in Directives, Autosquash(directives)
  PROVE  ResliceInv'
<1> DEFINE moved == {directives[i].commit : i \in DOMAIN directives}
           into == {directives[i].into : i \in DOMAIN directives}
           all == moved \cup into
           onto == Min(all) - 1
           steps == AutosquashSteps(onto, directives)
           started == [kind |-> "autosquash", was |-> Was, outcome |-> "running"]
<1>1. /\ CanRecut /\ Min(all) >= 2 /\ all \subseteq 1..Len(branch) /\ moved \cap into = {}
      /\ Replay(SubSeq(branch, 1, onto), steps, started)
  BY DEF Autosquash, Squash, ReplaySquashed
<1>2. HeadCommit = branch /\ HeadCommit \in Commits /\ Len(branch) \in Nat
  BY <1>1, Recuttable
<1>3. DOMAIN directives = 1..Len(directives) /\ Len(directives) \in Nat /\ Len(directives) # 0
  <2>1. directives \in Seq(ToSet(directives)) /\ directives # <<>>
    BY ResliceAssumption
  <2> QED
    BY <2>1
<1>4. \A k \in 1..Len(directives) : directives[k].commit \in moved /\ directives[k].into \in into
  BY <1>3
<1> HIDE DEF moved, into
<1>5. all # {}
  <2>1. 1 \in 1..Len(directives)
    BY <1>3
  <2> QED
    BY <1>4, <2>1
<1>6. all \in SUBSET Int /\ IsFiniteSet(all)
  <2>1. IsFiniteSet(1..Len(branch)) /\ 1..Len(branch) \subseteq Int
    BY <1>2, FS_Interval
  <2>2. IsFiniteSet(all)
    BY <1>1, <2>1, FS_Subset
  <2> QED
    BY <1>1, <2>1, <2>2
<1>7. /\ \A k \in 1..Len(directives) : directives[k].commit \in all /\ directives[k].into \in all
      /\ \A k \in 1..Len(directives) : directives[k].commit # directives[k].into
  BY <1>1, <1>4
<1> HIDE DEF all
<1>8. Min(all) \in all /\ \A n \in all : Min(all) <= n
  BY <1>5, <1>6, SpanEnds
<1>9. onto \in 1..Len(branch) /\ onto + 1 = Min(all) /\ onto + 1 \in Nat
  <2>1. Min(all) \in 1..Len(branch) /\ Min(all) >= 2
    BY <1>1, <1>8
  <2> QED
    BY <1>2, <2>1
<1> HIDE DEF onto
<1>10. \A n \in all : n \in (onto + 1)..Len(branch)
  BY <1>1, <1>2, <1>8, <1>9
<1>11. \A k \in 1..Len(directives) :
         /\ directives[k].commit \in (onto + 1)..Len(HeadCommit)
         /\ directives[k].into \in (onto + 1)..Len(HeadCommit)
         /\ directives[k].commit # directives[k].into
  BY <1>2, <1>7, <1>10
<1>12. steps \in Seq(PlainStep)
  BY <1>2, <1>3, <1>9, <1>11, SquashedArePlain
<1>13. steps \in Seq(SomeStep)
  BY <1>12, StepsAre
<1>14. SubSeq(branch, 1, onto) \in Commits
  BY <1>2, <1>9, CommitIs
<1>15. {"kind", "was", "outcome"} \subseteq DOMAIN started /\ started.kind \notin Folds \cup {"discard"}
  BY DEF Folds
<1> HIDE DEF steps, started
<1> QED
  BY <1>1, <1>13, <1>14, <1>15, ReplayStarts

(* git_rebase with a stop.                                                   *)
LEMMA RebaseEditStep ==
  ASSUME ResliceInv, NEW first \in 2..Len(branch), RebaseEdit(first)
  PROVE  ResliceInv'
<1> DEFINE plain == Steps(CommitsSince(first - 1))
           steps == [plain EXCEPT ![1].action = "edit"]
           started == [kind |-> "rebase", was |-> Was, outcome |-> "running"]
<1>1. CanRecut /\ Replay(SubSeq(branch, 1, first - 1), steps, started)
  BY DEF RebaseEdit
<1>2. HeadCommit = branch /\ HeadCommit \in Commits /\ Len(branch) \in Nat
  BY <1>1, Recuttable
<1>3. first - 1 \in 1..Len(HeadCommit) /\ Len(HeadCommit) - (first - 1) >= 1
  BY <1>2
<1>4. plain \in Seq(PlainStep) /\ Len(plain) = Len(HeadCommit) - (first - 1)
  BY <1>2, <1>3, SinceArePlain
<1> HIDE DEF plain
<1>5. plain \in Seq(SomeStep)
  BY <1>4, StepsAre
<1>6. 1 \in 1..Len(plain)
  BY <1>2, <1>3, <1>4
<1>7. steps \in Seq(SomeStep)
  <2> DEFINE s == [plain[1] EXCEPT !.action = "edit"]
  <2>1. plain[1] \in SomeStep
    BY <1>5, <1>6
  <2>2. s \in SomeStep
    BY <2>1 DEF SomeStep
  <2>3. steps = [plain EXCEPT ![1] = s]
    OBVIOUS
  <2> HIDE DEF s
  <2> QED
    BY <1>5, <1>6, <2>2, <2>3
<1>8. SubSeq(branch, 1, first - 1) \in Commits
  BY <1>2, <1>3, CommitIs
<1>9. {"kind", "was", "outcome"} \subseteq DOMAIN started /\ started.kind \notin Folds \cup {"discard"}
  BY DEF Folds
<1> HIDE DEF steps, started
<1> QED
  BY <1>1, <1>7, <1>8, <1>9, ReplayStarts

(***************************************************************************)
(* The theorems.                                                             *)
(***************************************************************************)

(* The start.                                                                *)
LEMMA InitHolds ==
  ASSUME Init
  PROVE  ResliceInv
<1>1. /\ branch = InitialBranch /\ head = None /\ index = Tree(branch) /\ wt = Tree(branch)
      /\ parachute = [at |-> None, detached |-> None] /\ saved = None /\ pc = "idle" /\ call = None
  BY DEF Init
<1>2. branch \in Commits
  BY <1>1, ResliceAssumption DEF Commits
<1>3. Tree(branch) \in SomeTrees
  BY <1>2, CommitIs
<1>4. HeadTree = Tree(branch)
  BY <1>1 DEF HeadTree, HeadCommit
<1> QED
  BY <1>1, <1>2, <1>3, <1>4 DEF ResliceInv, Types, Tracked, Phases, WorkIsKept, Working

(* git_abort.                                                                *)
LEMMA AbortStep ==
  ASSUME ResliceInv, Abort
  PROVE  ResliceInv'
<1>1. Types
  BY DEF ResliceInv
<1>2. BackOnBranch /\ UNCHANGED <<branch, parachute, pc>> /\ pc = "idle" /\ call' = None
  BY DEF Abort
<1>3. Types' /\ Tracked'
  BY <1>1, <1>2, BackIs
<1> QED
  BY <1>2, <1>3 DEF ResliceInv, Phases, WorkIsKept, Working

(* The user edits.                                                           *)
LEMMA EditStep ==
  ASSUME ResliceInv, Edit
  PROVE  ResliceInv'
<1>1. Types /\ Tracked
  BY DEF ResliceInv
<1>2. /\ pc = "idle" /\ wt' \in Worktrees /\ call' = None
      /\ UNCHANGED <<branch, head, index, parachute, saved, pc>>
  BY DEF Edit
<1>3. wt' \in SomeTrees
  BY <1>2, ResliceAssumption
<1>4. Types' /\ Tracked'
  BY <1>1, <1>2, <1>3 DEF Types, Tracked, HeadTree, HeadCommit
<1> QED
  BY <1>2, <1>4 DEF ResliceInv, Phases, WorkIsKept, Working

(* The user stages.                                                          *)
LEMMA StageStep ==
  ASSUME ResliceInv, Stage
  PROVE  ResliceInv'
<1>1. Types /\ Tracked
  BY DEF ResliceInv
<1>2. pc = "idle" /\ call' = None /\ UNCHANGED <<branch, head, wt, parachute, saved, pc>>
  BY DEF Stage
<1>3. PICK p \in Paths : wt[p] # Absent /\ index' = [index EXCEPT ![p] = wt[p]]
  BY DEF Stage
<1>4. index \in SomeTrees /\ wt \in SomeTrees
  BY <1>1 DEF Types
<1>5. index' \in SomeTrees /\ \A q \in Paths : index'[q] = Absent => index[q] = Absent
  BY <1>3, <1>4 DEF SomeTrees
<1>6. HeadTree' = HeadTree
  BY <1>2 DEF HeadTree, HeadCommit
<1>7. Types' /\ Tracked'
  BY <1>1, <1>2, <1>5, <1>6 DEF Types, Tracked
<1> QED
  BY <1>2, <1>7 DEF ResliceInv, Phases, WorkIsKept, Working

(* A process dies.                                                           *)
LEMMA DieStep ==
  ASSUME ResliceInv, Die
  PROVE  ResliceInv'
<1>1. Types /\ Tracked /\ Phases /\ WorkIsKept
  BY DEF ResliceInv
<1>2. /\ pc # "idle" /\ pc' = "idle" /\ call' = [call EXCEPT !.outcome = "died"]
      /\ UNCHANGED <<branch, head, index, wt, parachute, saved>>
  BY DEF Die, Returns
<1>3. Types' /\ Tracked'
  BY <1>1, <1>2 DEF Types, Tracked, HeadTree, HeadCommit
<1>4. Phases'
  BY <1>2 DEF Phases
<1>5. WorkIsKept'
  <2>1. CASE pc = "discard"
    <3>1. DiscardUnderWay
      BY <1>1, <2>1 DEF Phases
    <3>2. call'.kind = call.kind /\ call'.was = call.was
      BY <1>2, <3>1 DEF DiscardUnderWay
    <3>3. Working' => Working
      BY <1>2, <3>2 DEF Working
    <3> QED
      BY <1>1, <1>2, <3>2, <3>3 DEF WorkIsKept
  <2>2. CASE pc \in Parking
    <3>1. SameCall
      BY <1>1, <1>2, <2>2, SameAfter
    <3> QED
      BY <1>1, <1>2, <2>2, <3>1, StepKeepsWork DEF Parking, Early
  <2> QED
    BY <1>1, <1>2, <2>1, <2>2 DEF Phases, Parking
<1> QED
  BY <1>3, <1>4, <1>5 DEF ResliceInv

(* Every step keeps the invariant.                                           *)
LEMMA NextKeeps ==
  ASSUME ResliceInv, [Next]_vars
  PROVE  ResliceInv'
<1>1. CASE UNCHANGED vars
  BY <1>1 DEF vars, ResliceInv, Types, Tracked, Phases, WorkIsKept, Working, HeadTree, HeadCommit,
              FoldUnderWay, DiscardUnderWay, RecutUnderWay
<1>2. ASSUME NEW target \in 2..Len(HeadCommit), NEW s \in Selections,
             FixupWorktree(target, WorktreeDiff(Context), s.paths, s.sels)
      PROVE  ResliceInv'
  BY <1>2, FixupStep
<1>3. ASSUME NEW since \in 0..Len(HeadCommit), Absorb(WorktreeDiff(0), since)
      PROVE  ResliceInv'
  BY <1>3, AbsorbStep
<1>4. CASE Clean \/ Begin \/ ReplayStep \/ Finish \/ AbortFold \/ RestoreFile \/ Restored
  BY <1>4, CleanStep, BeginStep, ReplayStepStep, FinishStep, AbortFoldStep, RestoreFileStep, RestoredStep
<1>5. ASSUME NEW s \in Selections, Discard(WorktreeDiff(0), s.paths, s.sels)
      PROVE  ResliceInv'
  BY <1>5, DiscardStep
<1>6. CASE DiscardFile \/ Discarded
  BY <1>6, DiscardFileStep, DiscardedStep
<1>7. ASSUME NEW paths \in SUBSET Paths, CommitPaths(paths)
      PROVE  ResliceInv'
  BY <1>7, CommitPathsStep
<1>8. ASSUME NEW s \in Selections,
             CommitHunks(NamedDiff(s.paths \cup {sel.path : sel \in s.sels}), s.paths, s.sels)
      PROVE  ResliceInv'
  <2> DEFINE named == s.paths \cup {sel.path : sel \in s.sels}
  <2>1. CommitHunks(NamedDiff(named), s.paths, s.sels)
    BY <1>8
  <2> HIDE DEF named
  <2> QED
    BY <2>1, CommitHunksStep
<1>9. ASSUME NEW target \in 2..Len(branch), NEW parts \in Partitions, Split(target, parts)
      PROVE  ResliceInv'
  BY <1>9, SplitStep
<1>10. ASSUME NEW from \in 2..Len(branch), NEW to \in 2..Len(branch), NEW s \in Selections,
              Move(from, to, Diff(Context, branch[from - 1], branch[from]), s.paths, s.sels)
       PROVE  ResliceInv'
  BY <1>10, MoveStep
<1>11. ASSUME NEW directives \in Directives, Autosquash(directives)
       PROVE  ResliceInv'
  BY <1>11, AutosquashStep
<1>12. ASSUME NEW first \in 2..Len(branch), RebaseEdit(first)
       PROVE  ResliceInv'
  BY <1>12, RebaseEditStep
<1>13. CASE Abort \/ Edit \/ Stage \/ Die
  BY <1>13, AbortStep, EditStep, StageStep, DieStep
<1> QED
  BY <1>1, <1>2, <1>3, <1>4, <1>5, <1>6, <1>7, <1>8, <1>9, <1>10, <1>11, <1>12, <1>13 DEF Next

(* The state of the history tools keeps its types at every step, for any     *)
(* history, worktrees and selections: branch, HEAD, index, worktree and refs *)
(* are trees of files, a state file exists exactly while HEAD is detached,   *)
(* no replay step of a fold splits, and what parks work keeps it (begin,     *)
(* pick_step, run_plan_over_parked_worktree, discard).                       *)
THEOREM ResliceInvariant == Spec => []ResliceInv
<1>1. Init => ResliceInv
  BY InitHolds
<1>2. ResliceInv /\ [Next]_vars => ResliceInv'
  BY NextKeeps
<1> QED
  BY <1>1, <1>2, PTL DEF Spec

(* HunksFallInPlace for any diffs, contexts and selections: a hunk put by    *)
(* its old or by its new line numbers goes where it belongs or the           *)
(* application is refused (apply_hunks_by_old_line, apply_subset).           *)
THEOREM HunksFall == Spec => []HunksFallInPlace
<1>1. ResliceInv => HunksFallInPlace
  <2>1. SUFFICES ASSUME ResliceInv, NEW tree \in Trees, NEW p \in Paths, tree[p] # Absent,
                        NEW i \in DOMAIN tree[p], NEW j \in DOMAIN tree[p], i < j
                 PROVE  tree[p][i] < tree[p][j]
    BY DEF HunksFallInPlace
  <2>2. Types /\ HeadTree \in SomeTrees
    BY <2>1, StateIs DEF ResliceInv
  <2>3. \A k \in DOMAIN branch : branch[k] \in SomeTrees
    BY <2>2, CommitIs DEF Types
  <2>4. tree \in SomeTrees
    BY <2>1, <2>2, <2>3 DEF Trees, Types
  <2>5. tree[p] \in Rising
    BY <2>1, <2>4 DEF SomeTrees
  <2>6. tree[p] \in Seq(Int) /\ \A k, m \in 1..Len(tree[p]) : k < m => tree[p][k] < tree[p][m]
    BY <2>5 DEF Rising
  <2>7. DOMAIN tree[p] = 1..Len(tree[p])
    BY <2>6
  <2> QED
    BY <2>1, <2>6, <2>7
<1> QED
  BY <1>1, ResliceInvariant, PTL

(* WorkIsSomewhere for any history and any worktree: whatever a fold or a    *)
(* discard stops at, the worktree or the parachute ref has each file the     *)
(* call found, unless it found an operation in progress                      *)
(* (run_plan_over_parked_worktree, discard).                                 *)
THEOREM WorkIsNeverLost == Spec => []WorkIsSomewhere
<1>1. ResliceInv => WorkIsSomewhere
  <2>1. SUFFICES ASSUME ResliceInv, call # None, call.kind \in {"fixup", "absorb", "discard"},
                        call.was.saved = None, NEW p \in Paths
                 PROVE  call.was.wt[p] \in {tree[p] : tree \in {wt, parachute.at, parachute.detached} \ {None}}
    BY DEF WorkIsSomewhere
  <2>2. wt \in SomeTrees /\ WorkIsKept
    BY <2>1 DEF ResliceInv, Types
  <2>3. Working
    BY <2>1 DEF Working, Folds
  <2>4. call.was.view \in SomeTrees /\ parachute.at = call.was.view
        /\ (call.was.view[p] # call.was.wt[p] => wt[p] = call.was.wt[p])
    BY <2>2, <2>3 DEF WorkIsKept
  <2>5. wt # None /\ parachute.at # None
    BY <2>2, <2>4, NoneIs
  <2> QED
    BY <2>4, <2>5
<1> QED
  BY <1>1, ResliceInvariant, PTL
=============================================================================
