--------------------------- MODULE Rewrites_proofs ---------------------------
(***************************************************************************)
(* What holds of the rewrites of a history, for every history, any number  *)
(* of branches and slots in their rings, whatever other processes and the  *)
(* commands run do, and wherever a call dies.                              *)
(***************************************************************************)
EXTENDS Rewrites, FiniteSetTheorems, WellFoundedInduction, TLAPS

IsCommit(c) == c \in Seq(ToSet(c)) /\ c # <<>>
IsList(s) == s \in Seq(ToSet(s)) /\ IsInjective(s)

-----------------------------------------------------------------------------
(* Every set of numbers has a least.                                       *)
LEMMA LeastExists ==
  ASSUME NEW S \in SUBSET Nat, S # {}
  PROVE  \E x \in S : \A y \in S : x <= y
<1> DEFINE T == {0..n : n \in S}
<1>1. T \subseteq FiniteSubsetsOf(Nat) /\ T # {}
  <2>1. ASSUME NEW n \in S
        PROVE  0..n \in SUBSET Nat /\ IsFiniteSet(0..n)
    BY FS_Interval
  <2> QED
    BY <2>1 DEF FiniteSubsetsOf
<1>2. PICK t \in T : \A u \in T : <<u, t>> \notin StrictSubsetOrdering(Nat)
  BY <1>1, FS_StrictSubsetOrderingWellFounded, WFMin
<1>3. PICK x \in S : t = 0..x
  BY <1>2
<1>4. ASSUME NEW y \in S, y < x
      PROVE  FALSE
  <2>1. 0..y \subseteq 0..x /\ x \in 0..x /\ x \notin 0..y
    BY <1>4
  <2>2. <<0..y, t>> \in StrictSubsetOrdering(Nat)
    BY <2>1, <1>3 DEF StrictSubsetOrdering
  <2> QED
    BY <2>2, <1>2
<1> QED
  BY <1>4

LEMMA MinIsLeast ==
  ASSUME NEW S \in SUBSET Nat, S # {}
  PROVE  Min(S) \in S /\ \A y \in S : Min(S) <= y
BY LeastExists DEF Min

(* A finite set listed is a list of it.                                    *)
LEMMA SetsAreListed ==
  ASSUME NEW S, IsFiniteSet(S)
  PROVE  IsList(SetToSeq(S)) /\ ToSet(SetToSeq(S)) = S
<1> DEFINE n == Cardinality(S)
           f == SetToSeq(S)
<1>1. n \in Nat /\ ExistsBijection(1..n, S)
  BY FS_CardinalityType
<1>2. f \in [1..n -> S] /\ IsInjective(f)
  BY <1>1 DEF SetToSeq, ExistsBijection, Bijection, Injection
<1>3. f \in Surjection(1..n, S)
  <2>1. f \in Injection(1..n, S)
    BY <1>2 DEF Injection
  <2>2. Cardinality(1..n) = n
    BY <1>1, FS_Interval
  <2> QED
    BY <2>1, <2>2, FS_Injection
<1>4. ToSet(f) = S
  BY <1>2, <1>3 DEF Surjection, ToSet
<1>5. f \in Seq(S)
  BY <1>1, <1>2
<1> QED
  BY <1>2, <1>4, <1>5 DEF IsList

(* A sequence is one over any set its elements are in.                     *)
LEMMA SeqOver ==
  ASSUME NEW S, NEW s \in Seq(S), NEW T, \A i \in 1..Len(s) : s[i] \in T
  PROVE  s \in Seq(T)
OBVIOUS

LEMMA ListsLoseTheirHead ==
  ASSUME NEW s, IsList(s), s # <<>>
  PROVE  /\ IsList(Tail(s)) /\ Head(s) \in ToSet(s)
         /\ ToSet(Tail(s)) = ToSet(s) \ {Head(s)}
<1> DEFINE S == ToSet(s)
           n == Len(s)
<1>0. S = {s[i] : i \in 1..n} /\ n \in Nat /\ n # 0 /\ DOMAIN s = 1..n /\ s \in Seq(S)
  BY DEF ToSet, IsList
<1> HIDE DEF S
<1>1. Tail(s) \in Seq(S) /\ Len(Tail(s)) = n - 1 /\ \A i \in 1..n - 1 : Tail(s)[i] = s[i + 1]
  BY <1>0
<1>2. DOMAIN Tail(s) = 1..n - 1
  BY <1>1
<1>3. IsInjective(Tail(s))
  BY <1>0, <1>1, <1>2 DEF IsInjective, IsList
<1>4. \A i \in 1..n : i = 1 \/ s[i] = Tail(s)[i - 1]
  BY <1>0, <1>1
<1>5. Head(s) = s[1] /\ Head(s) \in S
  BY <1>0
<1>6. ToSet(Tail(s)) = S \ {Head(s)}
  <2>1. ASSUME NEW x \in ToSet(Tail(s))
        PROVE  x \in S \ {Head(s)}
    <3>1. PICK i \in 1..n - 1 : x = Tail(s)[i]
      BY <2>1, <1>2 DEF ToSet
    <3>2. x = s[i + 1] /\ i + 1 \in 1..n /\ i + 1 # 1 /\ 1 \in 1..n
      BY <3>1, <1>0, <1>1
    <3>3. x \in S
      BY <3>2, <1>0
    <3>4. s[i + 1] # s[1]
      BY <3>2, <1>0 DEF IsInjective, IsList
    <3> QED
      BY <3>2, <3>3, <3>4, <1>5
  <2>2. ASSUME NEW x \in S, x # Head(s)
        PROVE  x \in ToSet(Tail(s))
    <3>1. PICK i \in 1..n : x = s[i]
      BY <1>0
    <3>2. i - 1 \in 1..n - 1 /\ x = Tail(s)[i - 1]
      BY <3>1, <2>2, <1>4, <1>5, <1>0
    <3> QED
      BY <3>2, <1>2 DEF ToSet
  <2> QED
    BY <2>1, <2>2
<1>7. Tail(s) \in Seq(ToSet(Tail(s)))
  <2>1. \A i \in 1..n - 1 : Tail(s)[i] \in ToSet(Tail(s))
    BY <1>2 DEF ToSet
  <2> QED
    BY <2>1, <1>1, SeqOver
<1> QED
  BY <1>3, <1>5, <1>6, <1>7 DEF IsList, S

LEMMA ListsGrow ==
  ASSUME NEW s, IsList(s), NEW x, x \notin ToSet(s)
  PROVE  IsList(Append(s, x)) /\ ToSet(Append(s, x)) = ToSet(s) \cup {x}
<1> DEFINE S == ToSet(s)
           n == Len(s)
           t == Append(s, x)
<1>0. S = {s[i] : i \in 1..n} /\ n \in Nat /\ DOMAIN s = 1..n /\ s \in Seq(S)
  BY DEF ToSet, IsList
<1> HIDE DEF S
<1>1. s \in Seq(S \cup {x})
  BY <1>0
<1>2. /\ t \in Seq(S \cup {x}) /\ Len(t) = n + 1 /\ DOMAIN t = 1..n + 1
      /\ \A i \in 1..n : t[i] = s[i]
      /\ t[n + 1] = x
  BY <1>0, <1>1
<1> HIDE DEF t
<1>3. \A i \in 1..n + 1 : i = n + 1 \/ i \in 1..n
  BY <1>0
<1>4. ToSet(t) = S \cup {x}
  <2>1. \A i \in 1..n : i \in 1..n + 1
    BY <1>0
  <2>2. n + 1 \in 1..n + 1
    BY <1>0
  <2> QED
    BY <1>0, <1>2, <1>3, <2>1, <2>2 DEF ToSet
<1>5. IsInjective(t)
  <2>1. \A i \in 1..n : s[i] # x
    BY <1>0 DEF S
  <2>2. \A i, j \in 1..n : s[i] = s[j] => i = j
    BY <1>0 DEF IsInjective, IsList
  <2> QED
    BY <2>1, <2>2, <1>2, <1>3 DEF IsInjective
<1> QED
  BY <1>2, <1>4, <1>5 DEF IsList, S, t

-----------------------------------------------------------------------------
(* A commit and those before it.                                           *)
IsTip(c) == c = NoCommit \/ IsCommit(c)

LEMMA TipsAreSequences ==
  ASSUME NEW c, IsTip(c)
  PROVE  c \in Seq(ToSet(c)) /\ Len(c) \in Nat /\ DOMAIN c = 1..Len(c)
<1>1. \A S : <<>> \in Seq(S)
  OBVIOUS
<1>2. c \in Seq(ToSet(c))
  BY <1>1 DEF IsTip, IsCommit, NoCommit
<1> QED
  BY <1>2

LEMMA PrefixesOf ==
  ASSUME NEW S, NEW s \in Seq(S), NEW n \in 0..Len(s)
  PROVE  /\ SubSeq(s, 1, n) \in Seq(S) /\ Len(SubSeq(s, 1, n)) = n
         /\ \A i \in 1..n : SubSeq(s, 1, n)[i] = s[i]
OBVIOUS

LEMMA WholeIsPrefix ==
  ASSUME NEW S, NEW s \in Seq(S)
  PROVE  SubSeq(s, 1, Len(s)) = s
OBVIOUS

(* The common prefix is the shared first part, the whole of a branch that  *)
(* is on the chain.                                                        *)
LEMMA CommonPrefix ==
  ASSUME NEW s, IsTip(s), NEW t, IsTip(t)
  PROVE  LET shared == LongestCommonPrefix({s, t})
         IN  /\ Len(shared) \in 0..Len(t)
             /\ shared = SubSeq(t, 1, Len(shared))
             /\ IsPrefix(s, t) => shared = s
<1> DEFINE E == ToSet(s) \cup ToSet(t)
           CP == CommonPrefixes({s, t})
           shared == LongestCommonPrefix({s, t})
<1>0. s \in Seq(E) /\ t \in Seq(E)
  BY TipsAreSequences
<1> HIDE DEF E
<1>1. \A p \in CP : p \in Seq(E) /\ Len(p) \in 0..Len(t) /\ IsPrefix(p, s) /\ p = SubSeq(t, 1, Len(p))
  <2> SUFFICES ASSUME NEW p \in CP
               PROVE  p \in Seq(E) /\ Len(p) \in 0..Len(t) /\ IsPrefix(p, s) /\ p = SubSeq(t, 1, Len(p))
    OBVIOUS
  <2>1. (p \in Prefixes(s) \/ p \in Prefixes(t)) /\ IsPrefix(p, s) /\ IsPrefix(p, t)
    BY DEF CommonPrefixes
  <2>2. p \in Seq(E)
    BY <2>1, <1>0, PrefixesOf DEF Prefixes
  <2>3. Len(p) \in Nat /\ SubSeq(p, 1, Len(p)) = p
    BY <2>2, WholeIsPrefix
  <2> QED
    BY <2>1, <2>2, <2>3, <1>0 DEF IsPrefix
<1>2. <<>> \in CP
  <2>1. SubSeq(t, 1, 0) = <<>> /\ 0 \in 0..Len(t)
    BY <1>0
  <2>2. <<>> \in Prefixes(t)
    BY <2>1 DEF Prefixes
  <2>3. IsPrefix(<<>>, s) /\ IsPrefix(<<>>, t)
    BY <1>0 DEF IsPrefix
  <2> QED
    BY <2>2, <2>3 DEF CommonPrefixes
<1>3. \E p \in CP : \A q \in CP : Len(q) <= Len(p)
  <2> DEFINE S == {Len(t) - Len(p) : p \in CP}
  <2>0. \A p \in CP : Len(t) - Len(p) \in Nat
    BY <1>0, <1>1
  <2>1. S \in SUBSET Nat /\ S # {}
    BY <1>2, <2>0
  <2>2. PICK x \in S : \A y \in S : x <= y
    BY <2>1, LeastExists
  <2>3. PICK p \in CP : x = Len(t) - Len(p)
    BY <2>2
  <2>4. ASSUME NEW q \in CP
        PROVE  Len(q) <= Len(p)
    <3>1. Len(t) - Len(p) <= Len(t) - Len(q)
      BY <2>2, <2>3
    <3>2. Len(p) \in Nat /\ Len(q) \in Nat /\ Len(t) \in Nat
      BY <1>0, <1>1
    <3> QED
      BY <3>1, <3>2
  <2> QED
    BY <2>4
<1>4. shared \in CP /\ \A q \in CP : Len(q) <= Len(shared)
  BY <1>3 DEF LongestCommonPrefix
<1> HIDE DEF shared
<1>5. ASSUME IsPrefix(s, t)
      PROVE  shared = s
  <2>1. SubSeq(s, 1, Len(s)) = s /\ Len(s) \in Nat
    BY <1>0, WholeIsPrefix
  <2>2. s \in CP
    <3>1. s \in Prefixes(s)
      <4>1. Len(s) \in 0..Len(s)
        BY <2>1
      <4> QED
        BY <2>1, <4>1 DEF Prefixes
    <3>2. IsPrefix(s, s)
      BY <2>1 DEF IsPrefix
    <3> QED
      BY <3>1, <3>2, <1>5 DEF CommonPrefixes
  <2>3. Len(shared) = Len(s)
    <3>1. Len(shared) <= Len(s) /\ Len(shared) \in Nat
      BY <1>1, <1>4 DEF IsPrefix
    <3>2. Len(s) <= Len(shared)
      BY <2>2, <1>4
    <3> QED
      BY <2>1, <3>1, <3>2
  <2> QED
    BY <2>1, <2>3, <1>1, <1>4, <1>5 DEF IsPrefix
<1> QED
  BY <1>1, <1>4, <1>5 DEF shared

LEMMA CommitsGrow ==
  ASSUME NEW s, s \in Seq(ToSet(s)), NEW x
  PROVE  LET t == Append(s, x)
         IN  /\ t \in Seq(ToSet(t)) /\ t # <<>> /\ Len(t) = Len(s) + 1
             /\ DOMAIN s = 1..Len(s) /\ DOMAIN t = 1..Len(s) + 1 /\ Len(s) \in Nat
             /\ \A i \in 1..Len(s) : t[i] = s[i]
             /\ t[Len(s) + 1] = x
<1> DEFINE S == ToSet(s) \cup {x}
           t == Append(s, x)
           n == Len(s)
<1>1. s \in Seq(S) /\ x \in S /\ n \in Nat /\ DOMAIN s = 1..n
  OBVIOUS
<1> HIDE DEF S
<1>2. /\ t \in Seq(S) /\ Len(t) = n + 1 /\ DOMAIN t = 1..n + 1
      /\ \A i \in 1..n : t[i] = s[i]
      /\ t[n + 1] = x
  BY <1>1
<1> HIDE DEF t
<1>3. \A i \in 1..Len(t) : t[i] \in ToSet(t)
  BY <1>2 DEF ToSet
<1>4. t \in Seq(ToSet(t))
  BY <1>2, <1>3, SeqOver
<1>5. t # <<>>
  BY <1>1, <1>2
<1> QED
  BY <1>1, <1>2, <1>4, <1>5 DEF t

-----------------------------------------------------------------------------
(* The backup rings. *)

LEMMA RingsHaveSlots == BackupRing \in Nat /\ 1 \in 1..BackupRing /\ BackupRing \in 1..BackupRing
BY RewritesAssumption

IsRing(slots) == slots = [n \in 1..BackupRing |-> slots[n]]
AreTips(tips) ==
  /\ tips \in Seq(ToSet(tips))
  /\ \A i \in DOMAIN tips :
       tips[i] = [tip |-> tips[i].tip, age |-> tips[i].age] /\ tips[i].age \in Nat /\ tips[i].tip # NoCommit

(* A tip is no further back in the ring than operations began since; where  *)
(* the next one has begun already, not even that far.                       *)
Held(slots, tips) ==
  \A i \in DOMAIN tips : tips[i].age < BackupRing =>
    \E n \in 1..BackupRing : n <= tips[i].age + 1 /\ slots[n] = tips[i].tip
HeldAhead(slots, tips) ==
  \A i \in DOMAIN tips : tips[i].age < BackupRing =>
    \E n \in 1..BackupRing : n <= tips[i].age /\ slots[n] = tips[i].tip

(* The slots beyond k have what was in the one before.                      *)
Halfway(now, slots, k) ==
  \A n \in 1..BackupRing :
    /\ n <= k => now[n] = slots[n]
    /\ n > k /\ n > 1 => now[n] = IF slots[n - 1] = NoCommit THEN slots[n] ELSE slots[n - 1]

(* When an operation begins, every tip ages.                               *)
LEMMA TipsAge ==
  ASSUME NEW old, AreTips(old), NEW now, Held(now, old),
         NEW slots, \A n \in 1..BackupRing : now[n] = slots[n]
  PROVE  AreTips(Older(old)) /\ HeldAhead(slots, Older(old))
<1> DEFINE aged == Older(old)
           n == Len(old)
<1>1. DOMAIN old = 1..n /\ n \in Nat
  BY DEF AreTips
<1>2. \A i \in 1..n : /\ old[i] = [tip |-> old[i].tip, age |-> old[i].age]
                      /\ old[i].age \in Nat /\ old[i].tip # NoCommit
  BY <1>1 DEF AreTips
<1>3. \A i \in 1..n : aged[i] = [old[i] EXCEPT !.age = @ + 1]
  BY <1>1 DEF Older
<1>4. DOMAIN aged = 1..n /\ aged = [i \in 1..n |-> aged[i]]
  BY <1>1 DEF Older
<1> HIDE DEF aged
<1>5. ASSUME NEW i \in 1..n
      PROVE  aged[i] = [tip |-> old[i].tip, age |-> old[i].age + 1]
  <2>1. old[i] = [tip |-> old[i].tip, age |-> old[i].age]
    BY <1>2
  <2>2. [old[i] EXCEPT !.age = @ + 1] = [tip |-> old[i].tip, age |-> old[i].age + 1]
    BY <2>1
  <2> QED
    BY <1>3, <2>2
<1>6. \A i \in 1..n : aged[i] \in ToSet(aged)
  BY <1>4 DEF ToSet
<1>7. aged \in Seq(ToSet(aged))
  BY <1>1, <1>4, <1>6
<1>8. ASSUME NEW i \in 1..n
      PROVE  aged[i].tip = old[i].tip /\ aged[i].age = old[i].age + 1
  <2>1. aged[i] = [tip |-> old[i].tip, age |-> old[i].age + 1]
    BY <1>5
  <2> QED
    BY <2>1
<1>9. AreTips(aged)
  <2>1. \A i \in 1..n : aged[i] = [tip |-> aged[i].tip, age |-> aged[i].age]
    BY <1>5, <1>8
  <2> QED
    BY <1>2, <1>4, <1>7, <1>8, <2>1 DEF AreTips
<1>10. HeldAhead(slots, aged)
  <2> SUFFICES ASSUME NEW i \in 1..n, aged[i].age < BackupRing
               PROVE  \E m \in 1..BackupRing : m <= aged[i].age /\ slots[m] = aged[i].tip
    BY <1>4 DEF HeldAhead
  <2>0. aged[i].age = old[i].age + 1 /\ old[i].age \in Nat
    BY <1>2, <1>8
  <2>1. old[i].age < BackupRing
    BY <2>0, RingsHaveSlots
  <2>2. PICK m \in 1..BackupRing : m <= old[i].age + 1 /\ now[m] = old[i].tip
    BY <1>1, <2>1 DEF Held
  <2> QED
    BY <1>8, <2>2
<1> QED
  BY <1>9, <1>10 DEF aged

(* Wherever the rotation is, it dropped no tip but the oldest.              *)
LEMMA HalfwayHolds ==
  ASSUME NEW now, NEW slots, NEW k \in 0..BackupRing, NEW tips, AreTips(tips),
         Halfway(now, slots, k), HeldAhead(slots, tips)
  PROVE  Held(now, tips)
<1> SUFFICES ASSUME NEW i \in DOMAIN tips, tips[i].age < BackupRing
             PROVE  \E n \in 1..BackupRing : n <= tips[i].age + 1 /\ now[n] = tips[i].tip
  BY DEF Held
<1>1. tips[i].age \in Nat /\ tips[i].tip # NoCommit /\ BackupRing \in Nat
  BY RewritesAssumption DEF AreTips
<1>2. PICK n \in 1..BackupRing : n <= tips[i].age /\ slots[n] = tips[i].tip
  BY DEF HeldAhead
<1>3. CASE n <= k
  <2>1. now[n] = slots[n] /\ n <= tips[i].age + 1
    BY <1>1, <1>2, <1>3 DEF Halfway
  <2> QED
    BY <1>2, <2>1
<1>4. CASE n > k
  <2>1. n + 1 \in 1..BackupRing /\ n + 1 > k /\ n + 1 > 1 /\ (n + 1) - 1 = n
    BY <1>1, <1>2, <1>4
  <2>2. now[n + 1] = IF slots[(n + 1) - 1] = NoCommit THEN slots[n + 1] ELSE slots[(n + 1) - 1]
    BY <2>1 DEF Halfway
  <2>3. now[n + 1] = tips[i].tip
    BY <1>1, <1>2, <2>1, <2>2
  <2> QED
    BY <1>1, <1>2, <2>1, <2>3
<1> QED
  BY <1>3, <1>4

RingsOK ==
  /\ ring = [b \in AllRefs |-> ring[b]]
  /\ \A b \in AllRefs : IsRing(ring[b])
TipsOK ==
  /\ left = [b \in AllRefs |-> left[b]]
  /\ \A b \in AllRefs : AreTips(left[b]) /\ Held(ring[b], left[b])

(* Where the rotation of a branch's ring is.                                *)
Rotating(b) ==
  /\ b \in AllRefs /\ rewrite.slot \in 1..BackupRing
  /\ Halfway(ring[b], rewrite.slots, rewrite.slot)
  /\ rewrite.slot < BackupRing => HeldAhead(rewrite.slots, left[b])

(* One slot written keeps every tip; the last one written is the newest.    *)
LEMMA RotationKeepsTips ==
  ASSUME RingsOK, TipsOK, NEW b, Rotating(b), NEW tip, tip # NoCommit,
         ring' = [ring EXCEPT ![b] = Rotated(b, rewrite.slots, tip, SlotWritten(rewrite.slot))],
         left' = IF rewrite.slot = BackupRing THEN Aged(b) ELSE left
  PROVE  /\ RingsOK' /\ TipsOK'
         /\ Halfway(ring'[b], rewrite.slots, rewrite.slot - 1)
         /\ HeldAhead(rewrite.slots, left'[b])
         /\ rewrite.slot = 1 => ring'[b][1] = tip
         /\ \A c \in AllRefs \ {b} : ring'[c] = ring[c] /\ left'[c] = left[c]
<1> DEFINE k == rewrite.slot
           slots == rewrite.slots
           now == ring[b]
           content == IF k = 1 THEN tip ELSE slots[k - 1]
<1>0. /\ b \in AllRefs /\ k \in 1..BackupRing /\ Halfway(now, slots, k)
      /\ k < BackupRing => HeldAhead(slots, left[b])
      /\ BackupRing \in Nat \ {0}
  BY RewritesAssumption DEF Rotating
<1>1. now = [n \in 1..BackupRing |-> now[n]] /\ DOMAIN now = 1..BackupRing
  BY <1>0 DEF RingsOK, IsRing
<1>2. Rotated(b, slots, tip, SlotWritten(k)) =
        [n \in 1..BackupRing |-> IF n = k /\ content # NoCommit THEN content ELSE now[n]]
  BY <1>0, <1>1 DEF Rotated, SlotWritten
<1> DEFINE then == [n \in 1..BackupRing |-> IF n = k /\ content # NoCommit THEN content ELSE now[n]]
<1>3. /\ ring' = [c \in AllRefs |-> IF c = b THEN then ELSE ring[c]]
      /\ ring'[b] = then
  BY <1>0, <1>2 DEF RingsOK
<1>4. RingsOK'
  <2>1. \A c \in AllRefs : ring'[c] = IF c = b THEN then ELSE ring[c]
    BY <1>3
  <2>2. IsRing(then)
    BY DEF IsRing
  <2> HIDE DEF then
  <2>3. \A c \in AllRefs : IsRing(ring'[c])
    BY <2>1, <2>2 DEF RingsOK
  <2> QED
    BY <1>3, <2>1, <2>3 DEF RingsOK
<1>5. Halfway(then, slots, k - 1)
  <2> SUFFICES ASSUME NEW n \in 1..BackupRing
               PROVE  /\ n <= k - 1 => then[n] = slots[n]
                      /\ n > k - 1 /\ n > 1 =>
                           then[n] = IF slots[n - 1] = NoCommit THEN slots[n] ELSE slots[n - 1]
    BY DEF Halfway
  <2>1. /\ n <= k => now[n] = slots[n]
        /\ n > k /\ n > 1 => now[n] = IF slots[n - 1] = NoCommit THEN slots[n] ELSE slots[n - 1]
    BY <1>0 DEF Halfway
  <2>2. then[n] = IF n = k /\ content # NoCommit THEN content ELSE now[n]
    OBVIOUS
  <2> HIDE DEF then, now, slots
  <2>3. CASE n = k
    BY <1>0, <2>1, <2>2, <2>3
  <2>4. CASE n # k
    BY <1>0, <2>1, <2>2, <2>4
  <2> QED
    BY <2>3, <2>4
<1>6. k = 1 => then[1] = tip
  BY <1>0
<1> HIDE DEF then
<1>7. /\ left' = [c \in AllRefs |-> left'[c]]
      /\ \A c \in AllRefs \ {b} : left'[c] = left[c]
      /\ AreTips(left'[b]) /\ HeldAhead(slots, left'[b])
  <2>1. CASE k = BackupRing
    <3> DEFINE aged == Older(left[b])
    <3>1. left' = [left EXCEPT ![b] = aged]
      <4>1. left' = Aged(b)
        BY <2>1
      <4>2. Aged(b) = [left EXCEPT ![b] = aged]
        BY DEF Aged
      <4> QED
        BY <4>1, <4>2
    <3>2. AreTips(left[b]) /\ Held(now, left[b])
      BY <1>0 DEF TipsOK
    <3>3. \A n \in 1..BackupRing : now[n] = slots[n]
      BY <1>0, <2>1 DEF Halfway
    <3>4. AreTips(aged) /\ HeldAhead(slots, aged)
      BY <3>2, <3>3, TipsAge
    <3> HIDE DEF aged
    <3>5. left' = [c \in AllRefs |-> IF c = b THEN aged ELSE left[c]]
      BY <3>1, <1>0 DEF TipsOK
    <3> QED
      BY <3>4, <3>5, <1>0
  <2>2. CASE k # BackupRing
    <3>1. left' = left /\ k < BackupRing
      BY <2>2, <1>0
    <3> QED
      BY <3>1, <1>0 DEF TipsOK
  <2> QED
    BY <2>1, <2>2
<1>8. Held(then, left'[b])
  <2>1. k - 1 \in 0..BackupRing
    BY <1>0
  <2> QED
    BY <2>1, <1>5, <1>7, HalfwayHolds
<1>9. TipsOK'
  <2>1. ASSUME NEW c \in AllRefs
        PROVE  AreTips(left'[c]) /\ Held(ring'[c], left'[c])
    <3>1. CASE c = b
      BY <3>1, <1>3, <1>7, <1>8
    <3>2. CASE c # b
      BY <3>2, <1>3, <1>7 DEF TipsOK
    <3> QED
      BY <3>1, <3>2
  <2> QED
    BY <2>1, <1>7 DEF TipsOK
<1> QED
  BY <1>3, <1>4, <1>5, <1>6, <1>7, <1>9

-----------------------------------------------------------------------------
(* The invariant. *)

SignedBefore(c, n) == \A i \in DOMAIN c : c[i].sig \in 0..n

RefsOK ==
  /\ refs = [b \in AllRefs |-> refs[b]]
  /\ \A b \in AllRefs : IsTip(refs[b]) /\ SignedBefore(refs[b], minted)
  /\ IsCommit(refs[Main])
RepoInv == RefsOK /\ RingsOK /\ TipsOK /\ minted \in Nat /\ foreign \in Nat

CheckoutInv ==
  /\ place = Main \/ IsCommit(place)
  /\ checkout = [tree |-> checkout.tree, index |-> checkout.index, file |-> checkout.file]
  /\ checkout.file = "mine" => checkout.index \notin HasFile

(* The call under way, when it rewrites.                                    *)
IsRewrite(c) ==
  c = [kind |-> c.kind, asked |-> c.asked, old |-> c.old, below |-> c.below, messages |-> c.messages,
       new |-> c.new, before |-> c.before, marks |-> c.marks, left |-> c.left, moved |-> c.moved,
       skipped |-> c.skipped, ready |-> c.ready, slots |-> c.slots, slot |-> c.slot, phase |-> c.phase]
SameWork(c, d) ==
  /\ IsRewrite(d) /\ d.kind = c.kind /\ d.asked = c.asked /\ d.old = c.old /\ d.below = c.below
  /\ d.messages = c.messages /\ d.before = c.before /\ d.left = c.left

(* It has the messages it was asked to make, and begins at the first commit *)
(* it changes.                                                              *)
Sound(kind, r, old, below, messages, signed) ==
  LET meant == IF kind = "reword" THEN {r.at} ELSE r.at..Len(old)
  IN  /\ kind \in {"reword", "msg_rewrite"}
      /\ below \in 0..(Len(old) - 1)
      /\ \A i \in 1..Len(old) :
           /\ messages[i] = IF i \in meant THEN NewMessage(old[i].msg, r) ELSE old[i].msg
           /\ i <= below => messages[i] = old[i].msg
           /\ signed = "on" /\ i \in meant => i > below
      /\ signed = "on" \/ messages[below + 1] # old[below + 1].msg
Planned(c, signed, n) ==
  /\ IsRewrite(c) /\ c.phase = "begun"
  /\ IsCommit(c.old) /\ SignedBefore(c.old, n)
  /\ Sound(c.kind, c.asked, c.old, c.below, c.messages, signed)

(* The new chain has the old one's trees, and leaves it where it was told.  *)
Made(c, signed, n) ==
  /\ IsCommit(c.new) /\ Len(c.new) = Len(c.old) /\ SignedBefore(c.new, n)
  /\ \A i \in 1..Len(c.old) :
       /\ c.new[i].tree = c.old[i].tree /\ c.new[i].msg = c.messages[i]
       /\ i <= c.below => c.new[i] = c.old[i]
       /\ i > c.below => (signed = "on" <=> c.new[i].sig # Unsigned)
       /\ signed = "on" /\ i > c.below => c.new[i].sig # c.old[i].sig
  /\ c.new[c.below + 1] # c.old[c.below + 1]

(* Every branch that held a commit of the chain is accounted for, once      *)
(* where it matters.                                                        *)
Rewritten(c, b) == c.before[b] # NoCommit /\ Len(LongestCommonPrefix({c.before[b], c.old})) > c.below
Branched(c) ==
  /\ IsList(c.marks) /\ IsList(c.ready) /\ ToSet(c.marks) \cap ToSet(c.ready) = {}
  /\ \A b \in ToSet(c.marks) \cup ToSet(c.ready) :
       b \in Others /\ IsCommit(c.before[b]) /\ IsPrefix(c.before[b], c.old)
  /\ \A b \in Others :
       /\ IsTip(c.before[b])
       /\ b \in ToSet(c.marks) \cup ToSet(c.ready) \cup c.moved \cup c.skipped \cup c.left <=> Rewritten(c, b)

(* A branch that is to move is where it was, and its ring has that.         *)
Settled(b) == refs[b] = rewrite.before[b] /\ b \notin busy
InHand ==
  /\ stage \in {"move", "check", "backup"} => Made(rewrite, signing, minted)
  /\ stage \in {"rotate", "create", "move"} => rewrite.ready = <<>>
  /\ stage = "rotate" => Rotating(Main)
  /\ stage \in {"create", "move"} => ring[Main][1] = rewrite.old
  /\ stage = "backup" => rewrite.marks # <<>> /\ Rotating(Mark) /\ Settled(Mark)
  /\ \A b \in ToSet(rewrite.ready) : Settled(b) /\ ring[b][1] = rewrite.before[b]

RewriteStages == {"rotate", "create", "move", "check", "backup"}
RewriteInv ==
  stage \in RewriteStages => Planned(rewrite, signing, minted) /\ Branched(rewrite) /\ InHand

(* The call under way, when it runs commands: a file of the user's is       *)
(* safe at every commit it is still to visit, and where it returns to.      *)
SweepStages == {"visit", "command", "put back"}
IsSweep(c) ==
  c = [kind |-> "exec_over", old |-> c.old, next |-> c.next, place |-> c.place, file |-> c.file, phase |-> c.phase]
Home(c) == IF c.place = Main THEN refs[Main] ELSE c.place
SweepInv ==
  stage \in SweepStages =>
    /\ IsSweep(rewrite) /\ IsCommit(rewrite.old) /\ rewrite.next \in Nat \ {0}
    /\ stage = "command" => rewrite.next <= Len(rewrite.old)
    /\ rewrite.place = Main \/ IsCommit(rewrite.place)
    /\ HeadIsNear
    /\ rewrite.file = "mine" =>
         /\ checkout.file = "mine"
         /\ \A i \in rewrite.next..Len(rewrite.old) : rewrite.old[i].tree \notin HasFile
         /\ TreeOf(Home(rewrite)) \notin HasFile

IInv ==
  /\ stage \in RewriteStages \cup SweepStages \cup {"idle"}
  /\ RepoInv /\ CheckoutInv /\ RewriteInv /\ SweepInv
  /\ RewritesAreExact /\ ExecLeavesNoTrace

-----------------------------------------------------------------------------
(* What a call sets out to do. *)

LEMMA RewordIsSound ==
  ASSUME IInv, NEW r \in Requests, Reword(r)
  PROVE  \E below, messages :
           /\ Sound("reword", r, refs[Main], below, messages, signing)
           /\ BeginAt(below, messages, "reword", r)
<1> DEFINE old == refs[Main]
           n == Len(old)
           new == NewMessage(old[r.at].msg, r)
           messages == [i \in 1..n |-> IF i = r.at THEN new ELSE old[i].msg]
<1>1. n \in Nat
  BY DEF IInv, RepoInv, RefsOK, IsCommit
<1>2. r.at \in 1..n /\ new # old[r.at].msg /\ BeginAt(r.at - 1, messages, "reword", r)
  BY DEF Reword
<1>3. Sound("reword", r, old, r.at - 1, messages, signing)
  <2>1. r.at - 1 \in 0..(n - 1) /\ (r.at - 1) + 1 = r.at
    BY <1>1, <1>2
  <2>2. messages[r.at] = new
    BY <1>2
  <2>3. \A i \in 1..n :
          /\ messages[i] = IF i \in {r.at} THEN NewMessage(old[i].msg, r) ELSE old[i].msg
          /\ i <= r.at - 1 => messages[i] = old[i].msg
          /\ i \in {r.at} => i > r.at - 1
    BY <1>1, <1>2
  <2> HIDE DEF messages, new, n
  <2> QED
    BY <1>2, <2>1, <2>2, <2>3 DEF Sound, n
<1> QED
  BY <1>2, <1>3

LEMMA MsgRewriteIsSound ==
  ASSUME IInv, NEW r \in Requests, MsgRewrite(r)
  PROVE  \E below, messages :
           /\ Sound("msg_rewrite", r, refs[Main], below, messages, signing)
           /\ BeginAt(below, messages, "msg_rewrite", r)
<1> DEFINE old == refs[Main]
           n == Len(old)
           range == r.at..n
           messages == [i \in 1..n |-> IF i \in range THEN NewMessage(old[i].msg, r) ELSE old[i].msg]
           changed == {i \in range : messages[i] # old[i].msg}
           start == Start(range, changed)
<1>1. n \in Nat /\ r.at \in Nat \ {0}
  BY RewritesAssumption DEF IInv, RepoInv, RefsOK, IsCommit
<1>2. range # {} /\ changed # {} /\ BeginAt(start - 1, messages, "msg_rewrite", r)
  BY DEF MsgRewrite
<1>3. /\ start \in range
      /\ signing = "on" \/ start \in changed
      /\ signing = "on" => \A i \in range : start <= i
      /\ \A i \in changed : start <= i
  <2>1. range \in SUBSET Nat /\ changed \in SUBSET Nat /\ changed \subseteq range
    BY <1>1
  <2> HIDE DEF range, changed
  <2> QED
    BY <1>2, <2>1, MinIsLeast DEF Start
<1>4. Sound("msg_rewrite", r, old, start - 1, messages, signing)
  <2>0. range = r.at..n /\ range \subseteq 1..n /\ changed \subseteq range
    BY <1>1
  <2>1. start \in 1..n
    BY <1>3, <2>0
  <2>2. start - 1 \in 0..(n - 1) /\ (start - 1) + 1 = start
    BY <1>1, <2>1
  <2>3. \A i \in 1..n : messages[i] = IF i \in range THEN NewMessage(old[i].msg, r) ELSE old[i].msg
    OBVIOUS
  <2>4. \A i \in changed : messages[i] # old[i].msg
    OBVIOUS
  <2>5. \A i \in 1..n : i \notin changed => messages[i] = old[i].msg
    BY <2>3
  <2> HIDE DEF messages, n, range, changed, start, old
  <2>6. \A i \in 1..n : /\ i <= start - 1 => messages[i] = old[i].msg
                        /\ signing = "on" /\ i \in range => i > start - 1
    BY <1>1, <1>3, <2>1, <2>5
  <2>7. signing = "on" \/ messages[(start - 1) + 1] # old[(start - 1) + 1].msg
    BY <1>3, <2>2, <2>4
  <2> QED
    BY <2>0, <2>2, <2>3, <2>6, <2>7 DEF Sound, n
<1> QED
  BY <1>2, <1>4

(* The branches that held a commit of the chain: those on it, those that    *)
(* were split off from it.                                                  *)
LEMMA OnChainOrSplitOff ==
  ASSUME RefsOK, NEW below \in Nat, NEW b \in Others
  PROVE  OnChain(b, refs[Main], below) \/ SplitOff(b, refs[Main], below)
           <=> refs[b] # NoCommit /\ Len(LongestCommonPrefix({refs[b], refs[Main]})) > below
<1>1. IsTip(refs[b]) /\ IsTip(refs[Main])
  BY DEF RefsOK, AllRefs
<1>2. IsPrefix(refs[b], refs[Main]) => LongestCommonPrefix({refs[b], refs[Main]}) = refs[b]
  BY <1>1, CommonPrefix
<1> QED
  BY <1>2 DEF OnChain, SplitOff

(* What touches no branch, ring or count keeps what holds of them.          *)
LEMMA RepoStays ==
  ASSUME RepoInv, UNCHANGED <<refs, ring, left, minted, foreign>>
  PROVE  RepoInv'
BY DEF RepoInv, RefsOK, RingsOK, TipsOK, SignedBefore

LEMMA CheckoutStays ==
  ASSUME CheckoutInv, UNCHANGED worktree
  PROVE  CheckoutInv'
BY DEF CheckoutInv, worktree

LEMMA BeginKeeps ==
  ASSUME IInv, NEW kind, NEW r, NEW below, NEW messages,
         Sound(kind, r, refs[Main], below, messages, signing),
         BeginAt(below, messages, kind, r)
  PROVE  IInv'
<1> DEFINE old == refs[Main]
           marked == {b \in Others : r.update /\ b \notin busy /\ OnChain(b, old, below)}
           c == [kind |-> kind, asked |-> r, old |-> old, below |-> below, messages |-> messages,
                 new |-> Missing, before |-> refs, marks |-> SetToSeq(marked),
                 left |-> LeftBehind(old, below, r.update), moved |-> {}, skipped |-> {},
                 ready |-> <<>>, slots |-> ring[Main], slot |-> BackupRing, phase |-> "begun"]
<1>1. /\ stage' = "rotate" /\ rewrite' = c /\ signing' = signing
      /\ UNCHANGED <<refs, ring, left, minted, foreign, busy>> /\ UNCHANGED worktree
  BY DEF BeginAt, SparseMarks, git
<1>2. RefsOK /\ RingsOK /\ TipsOK /\ minted \in Nat
  BY DEF IInv, RepoInv
<1>3. /\ IsRewrite(c) /\ c.kind = kind /\ c.asked = r /\ c.old = old /\ c.below = below
      /\ c.messages = messages /\ c.before = refs /\ c.marks = SetToSeq(marked)
      /\ c.left = LeftBehind(old, below, r.update) /\ c.moved = {} /\ c.skipped = {}
      /\ c.ready = <<>> /\ c.slots = ring[Main] /\ c.slot = BackupRing /\ c.phase = "begun"
  BY DEF IsRewrite
<1> HIDE DEF c
<1>4. Planned(c, signing, minted)
  BY <1>2, <1>3 DEF Planned, RefsOK, AllRefs
<1>5. Branched(c)
  <2>1. IsList(SetToSeq(marked)) /\ ToSet(SetToSeq(marked)) = marked
    <3>1. IsFiniteSet(marked)
      BY RewritesAssumption, FS_Subset
    <3> QED
      BY <3>1, SetsAreListed
  <2>2. IsList(<<>>) /\ ToSet(<<>>) = {}
    <3>1. ToSet(<<>>) = {}
      BY DEF ToSet
    <3>2. <<>> \in Seq({}) /\ IsInjective(<<>>)
      BY DEF IsInjective
    <3> QED
      BY <3>1, <3>2 DEF IsList
  <2>3. ASSUME NEW b \in marked
        PROVE  b \in Others /\ IsCommit(refs[b]) /\ IsPrefix(refs[b], old)
    BY <1>2 DEF OnChain, RefsOK, IsTip, AllRefs
  <2>4. ASSUME NEW b \in Others
        PROVE  IsTip(refs[b]) /\ (b \in marked \cup c.left <=> Rewritten(c, b))
    <3>1. below \in Nat
      <4>1. Len(old) \in Nat
        BY <1>2 DEF RefsOK, IsCommit
      <4> QED
        BY <4>1 DEF Sound
    <3>2. b \in marked \cup c.left <=> OnChain(b, old, below) \/ SplitOff(b, old, below)
      BY <1>3 DEF LeftBehind
    <3>3. Rewritten(c, b) <=> refs[b] # NoCommit /\ Len(LongestCommonPrefix({refs[b], old})) > below
      BY <1>3 DEF Rewritten
    <3> QED
      BY <1>2, <3>1, <3>2, <3>3, OnChainOrSplitOff DEF RefsOK, AllRefs
  <2> HIDE DEF marked
  <2> QED
    BY <1>3, <2>1, <2>2, <2>3, <2>4 DEF Branched
<1>6. Rotating(Main)'
  <2>1. Halfway(ring[Main], ring[Main], BackupRing)
    BY RingsHaveSlots DEF Halfway
  <2> QED
    BY <1>1, <1>3, <2>1, RingsHaveSlots DEF Rotating, AllRefs
<1>7. InHand'
  <2>1. ToSet(rewrite'.ready) = {}
    BY <1>1, <1>3 DEF ToSet
  <2> QED
    BY <1>1, <1>3, <1>6, <2>1 DEF InHand
<1>8. RewriteInv'
  BY <1>1, <1>4, <1>5, <1>7 DEF RewriteInv
<1>9. RewritesAreExact' /\ ExecLeavesNoTrace' /\ SweepInv'
  <2>1. rewrite'.kind # "exec_over"
    BY <1>1, <1>3 DEF Sound
  <2> QED
    BY <1>1, <1>3, <2>1 DEF RewritesAreExact, ExecLeavesNoTrace, Sweeping, SweepInv, SweepStages
<1> QED
  BY <1>1, <1>8, <1>9, RepoStays, CheckoutStays DEF IInv, RewriteStages

-----------------------------------------------------------------------------
(* The call goes on. *)

LEMMA PlannedStays ==
  ASSUME NEW c, NEW d, NEW signed, NEW m \in Nat, NEW n \in Nat, m <= n,
         Planned(c, signed, m), SameWork(c, d), d.phase = c.phase
  PROVE  Planned(d, signed, n)
<1>1. SignedBefore(d.old, n)
  BY DEF Planned, SameWork, SignedBefore
<1> QED
  BY <1>1 DEF Planned, SameWork

LEMMA MadeStays ==
  ASSUME NEW c, NEW d, NEW signed, NEW n, Made(c, signed, n), SameWork(c, d), d.new = c.new
  PROVE  Made(d, signed, n)
BY DEF Made, SameWork

LEMMA BranchedStays ==
  ASSUME NEW c, NEW d, Branched(c), SameWork(c, d), d.marks = c.marks, d.ready = c.ready,
         d.moved = c.moved, d.skipped = c.skipped
  PROVE  Branched(d)
BY DEF Branched, SameWork, Rewritten

LEMMA InvParts ==
  ASSUME IInv, stage \in RewriteStages
  PROVE  /\ RefsOK /\ RingsOK /\ TipsOK /\ minted \in Nat /\ foreign \in Nat /\ CheckoutInv
         /\ Planned(rewrite, signing, minted) /\ Branched(rewrite) /\ InHand /\ IsRewrite(rewrite)
         /\ rewrite.phase = "begun" /\ IsCommit(rewrite.old)
BY DEF IInv, RepoInv, RewriteInv, Planned

(* While it is not done, there is nothing to say of how it ended.           *)
LEMMA NotDone ==
  ASSUME stage' \in RewriteStages, NEW signed, NEW n, Planned(rewrite', signed, n)
  PROVE  RewritesAreExact' /\ ExecLeavesNoTrace' /\ SweepInv'
<1>1. rewrite'.phase = "begun" /\ rewrite'.kind # "exec_over"
  BY DEF Planned, Sound
<1> QED
  BY <1>1 DEF RewriteStages, RewritesAreExact, ExecLeavesNoTrace, Sweeping, SweepInv, SweepStages

LEMMA RotateOwnKeeps ==
  ASSUME IInv, RotateOwn
  PROVE  IInv'
<1> DEFINE c == rewrite
           d == [c EXCEPT !.slot = @ - 1]
<1>1. /\ stage = "rotate"
      /\ ring' = [ring EXCEPT ![Main] = Rotated(Main, c.slots, c.old, SlotWritten(c.slot))]
      /\ left' = IF c.slot = BackupRing THEN Aged(Main) ELSE left
      /\ c.slot > 1 => rewrite' = d /\ stage' = stage
      /\ ~(c.slot > 1) => stage' = "create" /\ rewrite' = c
      /\ UNCHANGED <<refs, busy, signing, minted, foreign>> /\ UNCHANGED worktree
  BY DEF RotateOwn, RotateSlot
<1>2. /\ RingsOK /\ TipsOK /\ Rotating(Main) /\ c.old # NoCommit /\ IsRewrite(c) /\ c.ready = <<>>
      /\ Planned(c, signing, minted) /\ Branched(c) /\ minted \in Nat /\ RefsOK /\ foreign \in Nat
      /\ c.phase = "begun" /\ CheckoutInv
  BY <1>1, InvParts DEF RewriteStages, InHand, IsCommit, NoCommit
<1>3. /\ RingsOK' /\ TipsOK'
      /\ Halfway(ring'[Main], c.slots, c.slot - 1) /\ HeldAhead(c.slots, left'[Main])
      /\ c.slot = 1 => ring'[Main][1] = c.old
  BY <1>1, <1>2, RotationKeepsTips
<1>4. c.slot \in 1..BackupRing /\ BackupRing \in Nat
  BY <1>2, RingsHaveSlots DEF Rotating
<1>5. RepoInv' /\ CheckoutInv'
  BY <1>1, <1>2, <1>3, CheckoutStays DEF RepoInv, RefsOK, SignedBefore
<1>6. CASE c.slot > 1
  <2>1. /\ SameWork(c, d) /\ d.phase = c.phase /\ d.slots = c.slots /\ d.slot = c.slot - 1 /\ d.new = c.new
        /\ d.marks = c.marks /\ d.ready = c.ready /\ d.moved = c.moved /\ d.skipped = c.skipped
    BY <1>2 DEF IsRewrite, SameWork
  <2> HIDE DEF d
  <2>2. rewrite' = d /\ stage' = "rotate"
    BY <1>1, <1>6
  <2>3. Planned(d, signing, minted) /\ Branched(d)
    BY <1>2, <2>1, PlannedStays, BranchedStays
  <2>4. Rotating(Main)'
    BY <1>3, <1>4, <1>6, <2>1, <2>2 DEF Rotating, AllRefs
  <2>5. InHand'
    BY <1>2, <2>1, <2>2, <2>4 DEF InHand, ToSet
  <2> QED
    BY <1>1, <1>2, <1>5, <2>1, <2>2, <2>3, <2>5, NotDone DEF IInv, RewriteStages, RewriteInv
<1>7. CASE ~(c.slot > 1)
  <2>1. rewrite' = c /\ stage' = "create" /\ c.slot = 1
    BY <1>1, <1>4, <1>7
  <2>2. InHand'
    BY <1>2, <1>3, <2>1 DEF InHand, ToSet
  <2> QED
    BY <1>1, <1>2, <1>5, <2>1, <2>2, NotDone DEF IInv, RewriteStages, RewriteInv
<1> QED
  BY <1>6, <1>7

(* Each commit made anew has the tree it had and the message it was to get. *)
LEMMA ChainIsMade ==
  ASSUME IInv, stage = "create", NEW d, SameWork(rewrite, d), d.new = Recreated,
         NEW n \in Nat, n = IF signing = "on" THEN minted + Len(rewrite.old) ELSE minted
  PROVE  Made(d, signing, n)
<1> DEFINE c == rewrite
           old == c.old
           len == Len(old)
           new == Recreated
<1>1. /\ IsCommit(old) /\ SignedBefore(old, minted) /\ minted \in Nat
      /\ Sound(c.kind, c.asked, old, c.below, c.messages, signing)
  BY InvParts DEF RewriteStages, Planned
<1>2. len \in Nat \ {0} /\ DOMAIN old = 1..len /\ c.below \in 0..(len - 1)
  BY <1>1 DEF IsCommit, Sound
<1>3. new = [i \in 1..len |-> new[i]] /\ DOMAIN new = 1..len
  BY <1>2 DEF Recreated
<1>4. ASSUME NEW i \in 1..len
      PROVE  /\ i <= c.below => new[i] = old[i]
             /\ i > c.below => new[i] = [tree |-> old[i].tree, msg |-> c.messages[i],
                                        sig |-> IF signing = "on" THEN minted + i ELSE Unsigned]
  BY <1>2 DEF Recreated
<1>5. \A i \in 1..len : old[i].sig \in 0..minted
  BY <1>1, <1>2 DEF SignedBefore
<1>6. \A i \in 1..len : i <= c.below => c.messages[i] = old[i].msg
  BY <1>1 DEF Sound
<1> HIDE DEF new, len, old
<1>7. IsCommit(new) /\ Len(new) = len
  <2>1. \A i \in 1..len : new[i] \in ToSet(new)
    BY <1>3 DEF ToSet
  <2>2. new \in Seq(ToSet(new)) /\ Len(new) = len
    BY <1>2, <1>3, <2>1
  <2> QED
    BY <1>2, <2>2 DEF IsCommit
<1>8. ASSUME NEW i \in 1..len
      PROVE  /\ new[i].tree = old[i].tree /\ new[i].msg = c.messages[i]
             /\ i <= c.below => new[i] = old[i]
             /\ i > c.below => (signing = "on" <=> new[i].sig # Unsigned)
             /\ signing = "on" /\ i > c.below => new[i].sig # old[i].sig
             /\ new[i].sig \in 0..n
  <2>1. CASE i <= c.below
    <3>0. ~(i > c.below)
      BY <1>2, <2>1
    <3>1. new[i] = old[i]
      BY <1>4, <2>1
    <3>2. c.messages[i] = old[i].msg
      BY <1>6, <2>1
    <3>3. old[i].sig \in 0..n
      BY <1>1, <1>2, <1>5 DEF len, old
    <3> QED
      BY <3>0, <3>1, <3>2, <3>3
  <2>2. CASE ~(i <= c.below)
    <3>1. new[i] = [tree |-> old[i].tree, msg |-> c.messages[i],
                    sig |-> IF signing = "on" THEN minted + i ELSE Unsigned]
      BY <1>2, <1>4, <2>2
    <3>2. /\ new[i].tree = old[i].tree /\ new[i].msg = c.messages[i]
          /\ new[i].sig = IF signing = "on" THEN minted + i ELSE Unsigned
      BY <3>1
    <3>3. n = IF signing = "on" THEN minted + len ELSE minted
      BY DEF len, old
    <3> QED
      BY <1>1, <1>2, <1>5, <2>2, <3>2, <3>3 DEF Unsigned
  <2> QED
    BY <2>1, <2>2
<1>9. new[c.below + 1] # old[c.below + 1]
  <2>1. c.below + 1 \in 1..len /\ c.below + 1 > c.below
    BY <1>2
  <2>2. signing = "on" => new[c.below + 1].sig # old[c.below + 1].sig
    BY <1>8, <2>1
  <2>3. signing = "on" \/ c.messages[c.below + 1] # old[c.below + 1].msg
    BY <1>1 DEF Sound
  <2>4. new[c.below + 1].msg = c.messages[c.below + 1]
    BY <1>8, <2>1
  <2> QED
    BY <2>2, <2>3, <2>4
<1> QED
  BY <1>3, <1>7, <1>8, <1>9 DEF Made, SameWork, SignedBefore, len, old, new

LEMMA CreateKeeps ==
  ASSUME IInv, Create
  PROVE  IInv'
<1> DEFINE c == rewrite
           new == Recreated
           d == [c EXCEPT !.new = new]
<1>1. /\ stage = "create" /\ stage' = "move" /\ rewrite' = d
      /\ minted' = IF signing = "on" THEN minted + Len(c.old) ELSE minted
      /\ UNCHANGED <<refs, ring, left, busy, signing, foreign>> /\ UNCHANGED worktree
  BY DEF Create, git
<1>2. /\ RefsOK /\ RingsOK /\ TipsOK /\ minted \in Nat /\ foreign \in Nat /\ CheckoutInv
      /\ Planned(c, signing, minted) /\ Branched(c) /\ InHand /\ IsRewrite(c) /\ c.phase = "begun"
      /\ IsCommit(c.old)
  BY <1>1, InvParts DEF RewriteStages
<1> HIDE DEF new
<1>3. /\ SameWork(c, d) /\ d.phase = c.phase /\ d.new = new
      /\ d.marks = c.marks /\ d.ready = c.ready /\ d.moved = c.moved /\ d.skipped = c.skipped
  BY <1>2 DEF IsRewrite, SameWork
<1> HIDE DEF d
<1>4. minted' \in Nat /\ minted <= minted'
  BY <1>1, <1>2 DEF IsCommit
<1>5. Planned(d, signing, minted') /\ Branched(d)
  BY <1>2, <1>3, <1>4, PlannedStays, BranchedStays
<1>6. Made(d, signing, minted')
  BY <1>1, <1>3, <1>4, ChainIsMade DEF new
<1>7. InHand'
  BY <1>1, <1>2, <1>3, <1>6 DEF InHand, SameWork, ToSet
<1>8. RepoInv' /\ CheckoutInv'
  <2>1. \A b \in AllRefs : SignedBefore(refs[b], minted')
    BY <1>2, <1>4 DEF RefsOK, SignedBefore
  <2> QED
    BY <1>1, <1>2, <1>4, <2>1, CheckoutStays DEF RepoInv, RefsOK, RingsOK, TipsOK
<1> QED
  BY <1>1, <1>2, <1>3, <1>5, <1>7, <1>8, NotDone DEF IInv, RewriteInv, RewriteStages

(* A tip is left behind when the ring has it first.                         *)
LEMMA TipsAreLeft ==
  ASSUME TipsOK, NEW b \in AllRefs, NEW tip, IsCommit(tip), ring[b][1] = tip,
         left' = LeaveTip(b, tip), ring' = ring
  PROVE  TipsOK'
<1> DEFINE old == left[b]
           entry == [tip |-> tip, age |-> 0]
           new == Append(old, entry)
           n == Len(old)
<1>1. left' = [left EXCEPT ![b] = new]
  BY DEF LeaveTip
<1>2. left' = [c \in AllRefs |-> IF c = b THEN new ELSE left[c]]
  BY <1>1 DEF TipsOK
<1>3. AreTips(old) /\ Held(ring[b], old)
  BY DEF TipsOK
<1>4. /\ new \in Seq(ToSet(new)) /\ DOMAIN new = 1..n + 1 /\ DOMAIN old = 1..n /\ n \in Nat
      /\ \A i \in 1..n : new[i] = old[i]
      /\ new[n + 1] = entry
  BY <1>3, CommitsGrow DEF AreTips
<1>5. /\ entry = [tip |-> entry.tip, age |-> entry.age] /\ entry.age = 0 /\ entry.tip = tip
      /\ tip # NoCommit
  BY DEF IsCommit, NoCommit
<1> HIDE DEF new, entry
<1>6. \A i \in 1..n + 1 : i \in 1..n \/ i = n + 1
  BY <1>4
<1>7. AreTips(new)
  <2>1. ASSUME NEW i \in 1..n + 1
        PROVE  new[i] = [tip |-> new[i].tip, age |-> new[i].age] /\ new[i].age \in Nat /\ new[i].tip # NoCommit
    <3>1. CASE i \in 1..n
      BY <1>3, <1>4, <3>1 DEF AreTips
    <3>2. CASE i = n + 1
      BY <1>4, <1>5, <3>2
    <3> QED
      BY <1>6, <3>1, <3>2
  <2> QED
    BY <1>4, <2>1 DEF AreTips
<1>8. Held(ring[b], new)
  <2> SUFFICES ASSUME NEW i \in 1..n + 1, new[i].age < BackupRing
               PROVE  \E m \in 1..BackupRing : m <= new[i].age + 1 /\ ring[b][m] = new[i].tip
    BY <1>4 DEF Held
  <2>1. CASE i \in 1..n
    BY <1>3, <1>4, <2>1 DEF Held
  <2>2. CASE i = n + 1
    BY <1>4, <1>5, <2>2, RingsHaveSlots
  <2> QED
    BY <1>6, <2>1, <2>2
<1>9. \A c \in AllRefs : AreTips(left'[c]) /\ Held(ring'[c], left'[c])
  BY <1>2, <1>7, <1>8 DEF TipsOK
<1>10. left' = [c \in AllRefs |-> left'[c]]
  BY <1>2
<1> QED
  BY <1>9, <1>10 DEF TipsOK

LEMMA MoveOwnKeeps ==
  ASSUME IInv, MoveOwn
  PROVE  IInv'
<1> DEFINE c == rewrite
           entry == [tip |-> c.old, age |-> 0]
<1>1. /\ stage = "move" /\ stage' = "check"
      /\ refs' = [refs EXCEPT ![Main] = c.new]
      /\ left' = LeaveTip(Main, c.old)
      /\ rewrite' = rewrite /\ UNCHANGED <<ring, minted, foreign, busy, signing>> /\ UNCHANGED worktree
  BY DEF MoveOwn
<1>2. /\ RefsOK /\ RingsOK /\ TipsOK /\ minted \in Nat /\ foreign \in Nat /\ CheckoutInv
      /\ Planned(c, signing, minted) /\ Branched(c) /\ InHand /\ c.phase = "begun"
      /\ IsCommit(c.old) /\ Made(c, signing, minted) /\ c.ready = <<>> /\ ring[Main][1] = c.old
  BY <1>1, InvParts DEF RewriteStages, InHand
<1>3. refs' = [b \in AllRefs |-> IF b = Main THEN c.new ELSE refs[b]]
  BY <1>1, <1>2 DEF RefsOK, AllRefs
<1>4. RefsOK'
  <2>1. \A b \in AllRefs : refs'[b] = IF b = Main THEN c.new ELSE refs[b]
    BY <1>3
  <2>2. refs' = [b \in AllRefs |-> refs'[b]]
    BY <1>3
  <2>3. IsCommit(c.new) /\ SignedBefore(c.new, minted) /\ Main \in AllRefs
    BY <1>2 DEF Made, AllRefs
  <2> QED
    BY <1>1, <1>2, <2>1, <2>2, <2>3 DEF RefsOK, IsTip
<1>5. TipsOK'
  <2>1. IsCommit(c.old) /\ ring[Main][1] = c.old /\ Main \in AllRefs
    BY <1>2 DEF AllRefs
  <2> QED
    BY <1>1, <1>2, <2>1, TipsAreLeft
<1>6. InHand'
  BY <1>1, <1>2 DEF InHand, ToSet
<1> QED
  BY <1>1, <1>2, <1>4, <1>5, <1>6, NotDone, CheckoutStays DEF IInv, RepoInv, RingsOK, RewriteInv, RewriteStages

(* What the steps of the loop over the marks make of the call.              *)
WithMarks(c, x) == [c EXCEPT !.marks = x]
WithSkipped(c, x) == [c EXCEPT !.skipped = x]
WithReady(c, x) == [c EXCEPT !.ready = x]
WithMoved(c, x) == [c EXCEPT !.moved = x]
WithRing(c, x, k) == [c EXCEPT !.slots = x, !.slot = k]

LEMMA MarkTaken ==
  ASSUME NEW c, IsRewrite(c), NEW x, NEW d, d = WithMarks(c, x)
  PROVE  /\ SameWork(c, d) /\ d.phase = c.phase /\ d.new = c.new /\ d.ready = c.ready
         /\ d.marks = x /\ d.skipped = c.skipped /\ d.moved = c.moved
BY DEF IsRewrite, SameWork, WithMarks

LEMMA MarkSkipped ==
  ASSUME NEW c, IsRewrite(c), NEW x, NEW d, d = WithSkipped(c, x)
  PROVE  /\ SameWork(c, d) /\ d.phase = c.phase /\ d.new = c.new /\ d.ready = c.ready
         /\ d.marks = c.marks /\ d.skipped = x /\ d.moved = c.moved
BY DEF IsRewrite, SameWork, WithSkipped

LEMMA MarkReady ==
  ASSUME NEW c, IsRewrite(c), NEW x, NEW d, d = WithReady(c, x)
  PROVE  /\ SameWork(c, d) /\ d.phase = c.phase /\ d.new = c.new /\ d.ready = x
         /\ d.marks = c.marks /\ d.skipped = c.skipped /\ d.moved = c.moved
BY DEF IsRewrite, SameWork, WithReady

LEMMA MarkMoved ==
  ASSUME NEW c, IsRewrite(c), NEW x, NEW d, d = WithMoved(c, x)
  PROVE  /\ SameWork(c, d) /\ d.phase = c.phase /\ d.new = c.new /\ d.ready = c.ready
         /\ d.marks = c.marks /\ d.skipped = c.skipped /\ d.moved = x
BY DEF IsRewrite, SameWork, WithMoved

LEMMA SameIsSame ==
  ASSUME NEW c, NEW d, NEW e, SameWork(c, d), SameWork(d, e)
  PROVE  SameWork(c, e)
BY DEF SameWork

LEMMA MarkBackedUp ==
  ASSUME NEW c, IsRewrite(c), NEW x, NEW k, NEW d, d = WithRing(c, x, k)
  PROVE  /\ SameWork(c, d) /\ d.phase = c.phase /\ d.new = c.new /\ d.ready = c.ready
         /\ d.marks = c.marks /\ d.skipped = c.skipped /\ d.moved = c.moved
         /\ d.slots = x /\ d.slot = k
<1> DEFINE e == [c EXCEPT !.slots = x]
<1>1. /\ SameWork(c, e) /\ e.phase = c.phase /\ e.new = c.new /\ e.ready = c.ready
      /\ e.marks = c.marks /\ e.skipped = c.skipped /\ e.moved = c.moved /\ e.slots = x
  BY DEF IsRewrite, SameWork
<1>2. d = [e EXCEPT !.slot = k]
  BY DEF WithRing
<1> HIDE DEF e
<1>3. IsRewrite(e)
  BY <1>1 DEF SameWork
<1>4. /\ SameWork(e, d) /\ d.phase = e.phase /\ d.new = e.new /\ d.ready = e.ready
      /\ d.marks = e.marks /\ d.skipped = e.skipped /\ d.moved = e.moved
      /\ d.slots = e.slots /\ d.slot = k
  BY <1>2, <1>3 DEF IsRewrite, SameWork
<1> QED
  BY <1>1, <1>4, SameIsSame

(* The mark in hand. *)
LEMMA MarkInHand ==
  ASSUME IInv, stage \in RewriteStages, rewrite.marks # <<>>
  PROVE  /\ Mark \in ToSet(rewrite.marks) /\ Mark \notin ToSet(rewrite.ready)
         /\ Mark \in Others /\ IsCommit(rewrite.before[Mark])
         /\ IsList(Tail(rewrite.marks)) /\ ToSet(Tail(rewrite.marks)) = ToSet(rewrite.marks) \ {Mark}
<1>1. Branched(rewrite)
  BY InvParts
<1>2. IsList(rewrite.marks) /\ Mark = Head(rewrite.marks)
  BY <1>1 DEF Branched, Mark
<1> QED
  BY <1>1, <1>2, ListsLoseTheirHead DEF Branched

LEMMA SkipKeeps ==
  ASSUME IInv, Check, Stays(Mark)
  PROVE  IInv'
<1> DEFINE c == rewrite
           e == NextMark(c)
           d == [e EXCEPT !.skipped = @ \cup {Mark}]
<1>1. /\ stage = "check" /\ stage' = "check" /\ c.marks # <<>> /\ rewrite' = d
      /\ UNCHANGED <<refs, ring, left, minted, foreign, busy, signing>> /\ UNCHANGED worktree
  BY DEF Check, git
<1>2. /\ RefsOK /\ RingsOK /\ TipsOK /\ minted \in Nat /\ foreign \in Nat /\ CheckoutInv
      /\ Planned(c, signing, minted) /\ Branched(c) /\ InHand /\ IsRewrite(c) /\ c.phase = "begun"
      /\ Made(c, signing, minted)
  BY <1>1, InvParts DEF RewriteStages, InHand
<1>3. /\ SameWork(c, d) /\ d.phase = c.phase /\ d.new = c.new /\ d.ready = c.ready
      /\ d.marks = Tail(c.marks) /\ d.skipped = c.skipped \cup {Mark} /\ d.moved = c.moved
  <2>1. /\ SameWork(c, e) /\ e.phase = c.phase /\ e.new = c.new /\ e.ready = c.ready
        /\ e.marks = Tail(c.marks) /\ e.skipped = c.skipped /\ e.moved = c.moved
    <3>1. e = WithMarks(c, Tail(c.marks))
      BY DEF NextMark, WithMarks
    <3>2. IsRewrite(c)
      BY <1>2
    <3> HIDE DEF c, d, e
    <3> QED
      BY <3>1, <3>2, MarkTaken
  <2> HIDE DEF e
  <2>2. IsRewrite(e)
    BY <2>1 DEF SameWork
  <2>3. d = WithSkipped(e, c.skipped \cup {Mark})
    BY <2>1 DEF WithSkipped
  <2> HIDE DEF d
  <2> QED
    BY <2>1, <2>2, <2>3, MarkSkipped, SameIsSame
<1> HIDE DEF d
<1>4. RepoInv' /\ CheckoutInv'
  BY <1>1, <1>2, RepoStays, CheckoutStays DEF RepoInv
<1>5. Planned(d, signing, minted) /\ Made(d, signing, minted)
  BY <1>2, <1>3, PlannedStays, MadeStays
<1>6. Branched(d)
  <2>1. /\ IsList(Tail(c.marks)) /\ ToSet(Tail(c.marks)) = ToSet(c.marks) \ {Mark} /\ Mark \in ToSet(c.marks)
    BY <1>1, MarkInHand DEF RewriteStages
  <2> QED
    BY <1>2, <1>3, <2>1 DEF Branched, SameWork, Rewritten
<1>7. InHand'
  BY <1>1, <1>2, <1>3, <1>5 DEF InHand, Settled, SameWork
<1> QED
  BY <1>1, <1>2, <1>3, <1>4, <1>5, <1>6, <1>7, NotDone DEF IInv, RewriteInv, RewriteStages

LEMMA CheckKeeps ==
  ASSUME IInv, Check, ~Stays(Mark)
  PROVE  IInv'
<1> DEFINE c == rewrite
           d == [c EXCEPT !.slots = ring[Mark], !.slot = BackupRing]
<1>0. PICK b : b = Mark
  OBVIOUS
<1>1. /\ stage = "check" /\ stage' = "backup" /\ c.marks # <<>> /\ rewrite' = d
      /\ UNCHANGED <<refs, ring, left, minted, foreign, busy, signing>> /\ UNCHANGED worktree
  BY DEF Check, git
<1>2. /\ RefsOK /\ RingsOK /\ TipsOK /\ minted \in Nat /\ foreign \in Nat /\ CheckoutInv
      /\ Planned(c, signing, minted) /\ Branched(c) /\ InHand /\ IsRewrite(c) /\ c.phase = "begun"
      /\ Made(c, signing, minted)
  BY <1>1, InvParts DEF RewriteStages, InHand
<1>3. /\ SameWork(c, d) /\ d.phase = c.phase /\ d.new = c.new /\ d.ready = c.ready
      /\ d.marks = c.marks /\ d.skipped = c.skipped /\ d.moved = c.moved
      /\ d.slots = ring[b] /\ d.slot = BackupRing
  <2>1. d = WithRing(c, ring[b], BackupRing)
    BY <1>0 DEF WithRing
  <2>2. IsRewrite(c)
    BY <1>2
  <2> HIDE DEF c, d
  <2> QED
    BY <2>1, <2>2, MarkBackedUp
<1> HIDE DEF d
<1>4. RepoInv' /\ CheckoutInv'
  BY <1>1, <1>2, RepoStays, CheckoutStays DEF RepoInv
<1>5. Planned(d, signing, minted) /\ Made(d, signing, minted) /\ Branched(d)
  BY <1>2, <1>3, PlannedStays, MadeStays, BranchedStays
<1>6. Mark' = b
  BY <1>0, <1>1, <1>3 DEF Mark
<1>7. Rotating(b)'
  <2>1. Halfway(ring[b], ring[b], BackupRing)
    BY RingsHaveSlots DEF Halfway
  <2>2. b \in AllRefs
    BY <1>0, <1>1, MarkInHand DEF RewriteStages, AllRefs
  <2> QED
    BY <1>1, <1>3, <2>1, <2>2, RingsHaveSlots DEF Rotating
<1>8. Settled(b)'
  BY <1>0, <1>1, <1>3 DEF Settled, Stays, SameWork
<1>9. InHand'
  BY <1>1, <1>2, <1>3, <1>5, <1>6, <1>7, <1>8 DEF InHand, Settled, SameWork
<1> QED
  BY <1>1, <1>2, <1>3, <1>4, <1>5, <1>9, NotDone DEF IInv, RewriteInv, RewriteStages

LEMMA RotateOtherKeeps ==
  ASSUME IInv, RotateOther
  PROVE  IInv'
<1> DEFINE c == rewrite
           d == [c EXCEPT !.slot = @ - 1]
           e == NextMark(c)
           f == [e EXCEPT !.ready = Append(@, Mark)]
<1>0. PICK b : b = Mark
  OBVIOUS
<1>1. /\ stage = "backup"
      /\ ring' = [ring EXCEPT ![b] = Rotated(b, c.slots, c.before[b], SlotWritten(c.slot))]
      /\ left' = IF c.slot = BackupRing THEN Aged(b) ELSE left
      /\ c.slot > 1 => rewrite' = d /\ stage' = stage
      /\ ~(c.slot > 1) => rewrite' = f /\ stage' = "check"
      /\ UNCHANGED <<refs, busy, signing, minted, foreign>> /\ UNCHANGED worktree
  BY <1>0 DEF RotateOther, RotateSlot
<1>2. /\ RefsOK /\ RingsOK /\ TipsOK /\ minted \in Nat /\ foreign \in Nat /\ CheckoutInv
      /\ Planned(c, signing, minted) /\ Branched(c) /\ InHand /\ IsRewrite(c) /\ c.phase = "begun"
      /\ Made(c, signing, minted) /\ Rotating(b) /\ Settled(b) /\ c.marks # <<>>
  BY <1>0, <1>1, InvParts DEF RewriteStages, InHand
<1>3. /\ b \in ToSet(c.marks) /\ b \notin ToSet(c.ready) /\ b \in Others /\ IsCommit(c.before[b])
      /\ IsList(Tail(c.marks)) /\ ToSet(Tail(c.marks)) = ToSet(c.marks) \ {b}
  BY <1>0, <1>1, <1>2, MarkInHand DEF RewriteStages
<1>4. /\ RingsOK' /\ TipsOK'
      /\ Halfway(ring'[b], c.slots, c.slot - 1) /\ HeldAhead(c.slots, left'[b])
      /\ c.slot = 1 => ring'[b][1] = c.before[b]
      /\ \A x \in AllRefs \ {b} : ring'[x] = ring[x]
  <2>1. c.before[b] # NoCommit
    BY <1>3 DEF IsCommit, NoCommit
  <2> QED
    BY <1>1, <1>2, <2>1, RotationKeepsTips
<1>5. c.slot \in 1..BackupRing /\ BackupRing \in Nat
  BY <1>2, RingsHaveSlots DEF Rotating
<1>6. RepoInv' /\ CheckoutInv'
  BY <1>1, <1>2, <1>4, CheckoutStays DEF RepoInv, RefsOK, SignedBefore
<1>7. \A x \in ToSet(c.ready) : ring'[x] = ring[x] /\ x \in Others
  BY <1>2, <1>3, <1>4 DEF Branched, AllRefs
<1>8. CASE c.slot > 1
  <2>1. /\ SameWork(c, d) /\ d.phase = c.phase /\ d.slots = c.slots /\ d.slot = c.slot - 1 /\ d.new = c.new
        /\ d.marks = c.marks /\ d.ready = c.ready /\ d.moved = c.moved /\ d.skipped = c.skipped
    BY <1>2 DEF IsRewrite, SameWork
  <2> HIDE DEF d
  <2>2. rewrite' = d /\ stage' = "backup"
    BY <1>1, <1>8
  <2>3. Planned(d, signing, minted) /\ Branched(d) /\ Made(d, signing, minted)
    BY <1>2, <2>1, PlannedStays, BranchedStays, MadeStays
  <2>4. Rotating(b)'
    BY <1>3, <1>4, <1>5, <1>8, <2>1, <2>2 DEF Rotating, AllRefs
  <2>5. Mark' = b /\ Settled(b)'
    BY <1>0, <1>1, <1>2, <2>1, <2>2 DEF Mark, Settled, SameWork
  <2>6. InHand'
    BY <1>1, <1>2, <1>7, <2>1, <2>2, <2>3, <2>4, <2>5 DEF InHand, Settled, SameWork
  <2> QED
    BY <1>1, <1>2, <1>6, <2>1, <2>2, <2>3, <2>6, NotDone DEF IInv, RewriteStages, RewriteInv
<1>9. CASE ~(c.slot > 1)
  <2>1. /\ SameWork(c, f) /\ f.phase = c.phase /\ f.new = c.new /\ f.ready = Append(c.ready, b)
        /\ f.marks = Tail(c.marks) /\ f.skipped = c.skipped /\ f.moved = c.moved
    <3>1. /\ SameWork(c, e) /\ e.phase = c.phase /\ e.new = c.new /\ e.ready = c.ready
          /\ e.marks = Tail(c.marks) /\ e.skipped = c.skipped /\ e.moved = c.moved
      <4>1. e = WithMarks(c, Tail(c.marks))
        BY DEF NextMark, WithMarks
      <4>2. IsRewrite(c)
        BY <1>2
      <4> HIDE DEF c, e
      <4> QED
        BY <4>1, <4>2, MarkTaken
    <3> HIDE DEF e
    <3>2. IsRewrite(e)
      BY <3>1 DEF SameWork
    <3>3. f = WithReady(e, Append(c.ready, b))
      BY <1>0, <3>1 DEF WithReady
    <3> HIDE DEF c, d, f
    <3>4. /\ SameWork(e, f) /\ f.phase = e.phase /\ f.new = e.new /\ f.ready = Append(c.ready, b)
          /\ f.marks = e.marks /\ f.skipped = e.skipped /\ f.moved = e.moved
      <4>1. PICK x : x = Append(c.ready, b)
        OBVIOUS
      <4>2. f = WithReady(e, x)
        BY <3>3, <4>1
      <4>3. /\ SameWork(e, f) /\ f.phase = e.phase /\ f.new = e.new /\ f.ready = x
            /\ f.marks = e.marks /\ f.skipped = e.skipped /\ f.moved = e.moved
        BY <3>2, <4>2, MarkReady
      <4> QED
        BY <4>1, <4>3
    <3> QED
      BY <3>1, <3>4, SameIsSame
  <2>2. rewrite' = f /\ stage' = "check" /\ c.slot = 1
    BY <1>1, <1>5, <1>9
  <2> HIDE DEF f
  <2>3. Planned(f, signing, minted) /\ Made(f, signing, minted)
    BY <1>2, <2>1, PlannedStays, MadeStays
  <2>4. IsList(f.ready) /\ ToSet(f.ready) = ToSet(c.ready) \cup {b}
    BY <1>2, <1>3, <2>1, ListsGrow DEF Branched
  <2>5. Branched(f)
    BY <1>2, <1>3, <2>1, <2>4 DEF Branched, SameWork, Rewritten
  <2>6. InHand'
    BY <1>1, <1>2, <1>4, <1>7, <2>1, <2>2, <2>3, <2>4 DEF InHand, Settled, SameWork
  <2> QED
    BY <1>1, <1>2, <1>6, <2>1, <2>2, <2>3, <2>5, <2>6, NotDone DEF IInv, RewriteStages, RewriteInv
<1> QED
  BY <1>8, <1>9

LEMMA FollowKeeps ==
  ASSUME IInv, Follow
  PROVE  IInv'
<1> DEFINE c == rewrite
           e == [c EXCEPT !.ready = Tail(@)]
           f == [e EXCEPT !.moved = @ \cup {Head(c.ready)}]
           g == [e EXCEPT !.skipped = @ \cup {Head(c.ready)}]
<1>0. PICK b : b = Head(c.ready)
  OBVIOUS
<1>1. /\ stage = "check" /\ stage' = "check" /\ c.marks = <<>> /\ c.ready # <<>>
      /\ UNCHANGED <<ring, minted, foreign, busy, signing>> /\ UNCHANGED worktree
      /\ \/ /\ refs' = [refs EXCEPT ![b] = Target(b)]
            /\ left' = LeaveTip(b, c.before[b])
            /\ rewrite' = f
         \/ rewrite' = g /\ UNCHANGED <<refs, left>>
  BY <1>0 DEF Follow
<1>2. /\ RefsOK /\ RingsOK /\ TipsOK /\ minted \in Nat /\ foreign \in Nat /\ CheckoutInv
      /\ Planned(c, signing, minted) /\ Branched(c) /\ InHand /\ IsRewrite(c) /\ c.phase = "begun"
      /\ Made(c, signing, minted)
  BY <1>1, InvParts DEF RewriteStages, InHand
<1>3. /\ b \in ToSet(c.ready) /\ IsList(Tail(c.ready)) /\ ToSet(Tail(c.ready)) = ToSet(c.ready) \ {b}
  BY <1>0, <1>1, <1>2, ListsLoseTheirHead DEF Branched
<1>4. /\ b \in Others /\ IsCommit(c.before[b]) /\ IsPrefix(c.before[b], c.old)
      /\ ring[b][1] = c.before[b] /\ b \in AllRefs /\ b # Main
  BY <1>2, <1>3, RewritesAssumption DEF Branched, InHand, AllRefs
<1>5. /\ SameWork(c, e) /\ e.phase = c.phase /\ e.new = c.new /\ e.ready = Tail(c.ready)
      /\ e.marks = c.marks /\ e.skipped = c.skipped /\ e.moved = c.moved /\ IsRewrite(e)
  <2>1. e = WithReady(c, Tail(c.ready)) /\ IsRewrite(c)
    BY <1>2 DEF WithReady
  <2> HIDE DEF c, e, f, g
  <2> QED
    BY <2>1, MarkReady DEF SameWork
<1>6. \A d : \/ d = WithMoved(e, e.moved \cup {b})
            \/ d = WithSkipped(e, e.skipped \cup {b})
         => /\ SameWork(c, d) /\ d.phase = c.phase /\ d.new = c.new /\ d.ready = Tail(c.ready)
            /\ d.marks = c.marks /\ d.moved \cup d.skipped = c.moved \cup c.skipped \cup {b}
  <2> HIDE DEF c, e, f, g
  <2>1. ASSUME NEW d, d = WithMoved(e, e.moved \cup {b})
        PROVE  /\ SameWork(e, d) /\ d.phase = e.phase /\ d.new = e.new /\ d.ready = e.ready
               /\ d.marks = e.marks /\ d.moved = e.moved \cup {b} /\ d.skipped = e.skipped
    BY <1>5, <2>1, MarkMoved
  <2>2. ASSUME NEW d, d = WithSkipped(e, e.skipped \cup {b})
        PROVE  /\ SameWork(e, d) /\ d.phase = e.phase /\ d.new = e.new /\ d.ready = e.ready
               /\ d.marks = e.marks /\ d.skipped = e.skipped \cup {b} /\ d.moved = e.moved
    BY <1>5, <2>2, MarkSkipped
  <2> QED
    BY <1>5, <2>1, <2>2, SameIsSame
<1>7. f = WithMoved(e, e.moved \cup {b}) /\ g = WithSkipped(e, e.skipped \cup {b})
  BY <1>0 DEF WithMoved, WithSkipped
<1> HIDE DEF f, g, e
<1>8. PICK d : /\ rewrite' = d /\ SameWork(c, d) /\ d.phase = c.phase /\ d.new = c.new
               /\ d.ready = Tail(c.ready) /\ d.marks = c.marks
               /\ d.moved \cup d.skipped = c.moved \cup c.skipped \cup {b}
  BY <1>1, <1>6, <1>7
<1>9. Planned(d, signing, minted) /\ Made(d, signing, minted)
  BY <1>2, <1>8, PlannedStays, MadeStays
<1>10. Branched(d)
  <2>1. \A x \in Others : /\ IsTip(c.before[x])
                          /\ x \in ToSet(c.marks) \cup ToSet(c.ready) \cup c.moved \cup c.skipped \cup c.left
                               <=> Rewritten(c, x)
    BY <1>2 DEF Branched
  <2>2. ToSet(d.marks) \cup ToSet(d.ready) \cup d.moved \cup d.skipped \cup d.left
          = ToSet(c.marks) \cup ToSet(c.ready) \cup c.moved \cup c.skipped \cup c.left
    BY <1>3, <1>8 DEF SameWork
  <2>3. \A x : Rewritten(d, x) <=> Rewritten(c, x)
    BY <1>8 DEF SameWork, Rewritten
  <2>4. /\ IsList(d.marks) /\ IsList(d.ready) /\ ToSet(d.marks) \cap ToSet(d.ready) = {}
        /\ \A x \in ToSet(d.marks) \cup ToSet(d.ready) :
             x \in Others /\ IsCommit(d.before[x]) /\ IsPrefix(d.before[x], d.old)
    BY <1>2, <1>3, <1>8 DEF Branched, SameWork
  <2>5. d.before = c.before
    BY <1>8 DEF SameWork
  <2> HIDE DEF c
  <2> QED
    BY <2>1, <2>2, <2>3, <2>4, <2>5 DEF Branched
<1>11. IsCommit(Target(b)) /\ SignedBefore(Target(b), minted)
  <2> DEFINE n == Len(c.before[b])
             S == ToSet(c.new)
  <2>1. c.new \in Seq(S) /\ Len(c.new) = Len(c.old) /\ DOMAIN c.new = 1..Len(c.new) /\ SignedBefore(c.new, minted)
    BY <1>2 DEF Made, IsCommit
  <2>2. n \in Nat \ {0} /\ n <= Len(c.old)
    BY <1>4 DEF IsCommit, IsPrefix
  <2>3. Target(b) = SubSeq(c.new, 1, n)
    BY DEF Target, Upto
  <2> HIDE DEF n, S
  <2>4. n \in 0..Len(c.new) /\ Len(c.new) \in Nat
    BY <2>1, <2>2
  <2>5. /\ Target(b) \in Seq(S) /\ Len(Target(b)) = n
        /\ \A i \in 1..n : Target(b)[i] = c.new[i]
    BY <2>1, <2>3, <2>4, PrefixesOf
  <2>6. DOMAIN Target(b) = 1..n /\ Target(b) # <<>>
    BY <2>2, <2>5
  <2>7. Target(b) \in Seq(ToSet(Target(b)))
    BY <2>5, <2>6, SeqOver DEF ToSet
  <2>8. \A i \in 1..n : i \in 1..Len(c.new)
    BY <2>2, <2>4
  <2> QED
    BY <2>1, <2>5, <2>6, <2>7, <2>8 DEF IsCommit, SignedBefore
<1>12. /\ RefsOK' /\ TipsOK'
       /\ \A x \in AllRefs \ {b} : refs'[x] = refs[x]
  <2>1. CASE UNCHANGED <<refs, left>>
    BY <1>1, <1>2, <2>1 DEF RefsOK, TipsOK, SignedBefore
  <2>2. CASE refs' = [refs EXCEPT ![b] = Target(b)] /\ left' = LeaveTip(b, c.before[b])
    <3>1. refs' = [x \in AllRefs |-> IF x = b THEN Target(b) ELSE refs[x]]
      BY <1>2, <2>2 DEF RefsOK
    <3> DEFINE to == Target(b)
    <3> HIDE DEF to
    <3>2. /\ refs' = [x \in AllRefs |-> refs'[x]]
          /\ \A x \in AllRefs : refs'[x] = IF x = b THEN to ELSE refs[x]
      BY <3>1 DEF to
    <3>3. IsCommit(to) /\ SignedBefore(to, minted)
      BY <1>11 DEF to
    <3>4. RefsOK'
      BY <1>1, <1>2, <1>4, <3>2, <3>3 DEF RefsOK, IsTip, AllRefs
    <3>5. TipsOK'
      BY <1>1, <1>2, <1>4, <2>2, TipsAreLeft
    <3> QED
      BY <3>2, <3>4, <3>5
  <2> QED
    BY <1>1, <2>1, <2>2
<1>13. InHand'
  <2>1. \A x \in ToSet(d.ready) : x \in AllRefs \ {b} /\ x \in ToSet(c.ready)
    BY <1>2, <1>3, <1>8 DEF Branched, AllRefs
  <2>2. \A x \in ToSet(d.ready) : refs'[x] = refs[x] /\ refs[x] = c.before[x] /\ x \notin busy /\ ring[x][1] = c.before[x]
    BY <1>2, <1>12, <2>1 DEF InHand, Settled
  <2>3. d.before = c.before
    BY <1>8 DEF SameWork
  <2> QED
    BY <1>1, <1>8, <1>9, <2>2, <2>3 DEF InHand, Settled
<1> QED
  BY <1>1, <1>2, <1>8, <1>9, <1>10, <1>12, <1>13, NotDone, CheckoutStays
  DEF IInv, RepoInv, RingsOK, RewriteInv, RewriteStages

-----------------------------------------------------------------------------
(* The call ends. *)

LEMMA EndKeeps ==
  ASSUME IInv, stage' = "idle", UNCHANGED <<refs, ring, left, minted, foreign>>,
         CheckoutInv', RewritesAreExact', ExecLeavesNoTrace'
  PROVE  IInv'
BY RepoStays DEF IInv, RewriteInv, SweepInv, RewriteStages, SweepStages

LEMMA Ended ==
  ASSUME IInv, stage # "idle", NEW x, rewrite' = [rewrite EXCEPT !.phase = x]
  PROVE  /\ rewrite'.phase = x /\ rewrite'.kind = rewrite.kind
         /\ stage \in RewriteStages => rewrite'.kind # "exec_over"
         /\ stage \in SweepStages =>
              rewrite'.old = rewrite.old /\ rewrite'.place = rewrite.place /\ rewrite'.file = rewrite.file
<1>1. CASE stage \in RewriteStages
  BY <1>1, InvParts DEF IsRewrite, Planned, Sound, RewriteStages, SweepStages
<1>2. CASE stage \in SweepStages
  <2>1. IsSweep(rewrite) /\ stage \notin RewriteStages
    BY <1>2 DEF IInv, SweepInv, SweepStages, RewriteStages
  <2> QED
    BY <2>1 DEF IsSweep
<1> QED
  BY <1>1, <1>2 DEF IInv

LEMMA SignerFailsKeeps ==
  ASSUME IInv, SignerFails
  PROVE  IInv'
<1>1. /\ stage = "create" /\ stage' = "idle" /\ rewrite' = [rewrite EXCEPT !.phase = "failed"]
      /\ UNCHANGED <<refs, ring, left, minted, foreign>> /\ UNCHANGED worktree
  BY DEF SignerFails, git
<1>2. rewrite'.phase = "failed" /\ rewrite'.kind # "exec_over"
  BY <1>1, Ended DEF RewriteStages
<1>3. RewritesAreExact' /\ ExecLeavesNoTrace'
  BY <1>2 DEF RewritesAreExact, ExecLeavesNoTrace, Sweeping
<1> QED
  BY <1>1, <1>3, EndKeeps, CheckoutStays DEF IInv

LEMMA CrashKeeps ==
  ASSUME IInv, Crash
  PROVE  IInv'
<1>1. /\ stage # "idle" /\ stage' = "idle" /\ rewrite' = [rewrite EXCEPT !.phase = "died"]
      /\ UNCHANGED <<refs, ring, left, minted, foreign>> /\ UNCHANGED worktree
  BY DEF Crash, git
<1>2. /\ rewrite'.phase = "died"
      /\ stage \in RewriteStages => rewrite'.kind # "exec_over"
      /\ stage \in SweepStages =>
           rewrite'.old = rewrite.old /\ rewrite'.place = rewrite.place /\ rewrite'.file = rewrite.file
  BY <1>1, Ended
<1>3. RewritesAreExact' /\ ExecLeavesNoTrace'
  <2>1. CASE stage \in RewriteStages
    BY <1>2, <2>1 DEF RewritesAreExact, ExecLeavesNoTrace, Sweeping
  <2>2. CASE stage \in SweepStages
    BY <1>1, <1>2, <2>2 DEF RewritesAreExact, ExecLeavesNoTrace, IInv, SweepInv, HeadIsNear, worktree
  <2> QED
    BY <1>1, <2>1, <2>2 DEF IInv
<1> QED
  BY <1>1, <1>3, EndKeeps, CheckoutStays DEF IInv

(* A branch holds a re-created commit just when the new chain parts from    *)
(* the old one within what the branch shares with it.                       *)
LEMMA PartsWhereRewritten ==
  ASSUME NEW c, NEW signed, NEW n, Made(c, signed, n), IsCommit(c.old), c.below \in 0..(Len(c.old) - 1),
         NEW was, IsTip(was)
  PROVE  LET shared == LongestCommonPrefix({was, c.old})
         IN  SubSeq(c.new, 1, Len(shared)) # shared <=> Len(shared) > c.below
<1> DEFINE shared == LongestCommonPrefix({was, c.old})
           m == Len(shared)
           old == c.old
           new == c.new
           S == ToSet(old)
           T == ToSet(new)
<1>1. m \in 0..Len(old) /\ shared = SubSeq(old, 1, m)
  BY CommonPrefix DEF IsTip
<1>2. /\ old \in Seq(S) /\ new \in Seq(T) /\ Len(new) = Len(old)
      /\ \A i \in 1..Len(old) : i <= c.below => new[i] = old[i]
      /\ new[c.below + 1] # old[c.below + 1]
  BY DEF Made, IsCommit
<1> HIDE DEF m, old, new, S, T
<1>3. /\ SubSeq(old, 1, m) \in Seq(S) /\ Len(SubSeq(old, 1, m)) = m
      /\ \A i \in 1..m : SubSeq(old, 1, m)[i] = old[i]
      /\ SubSeq(new, 1, m) \in Seq(T) /\ Len(SubSeq(new, 1, m)) = m
      /\ \A i \in 1..m : SubSeq(new, 1, m)[i] = new[i]
      /\ Len(old) \in Nat /\ m \in Nat /\ m <= Len(old)
  BY <1>1, <1>2, PrefixesOf
<1>4. c.below \in 0..(Len(old) - 1)
  BY DEF old
<1>5. CASE m > c.below
  <2>1. c.below + 1 \in 1..m
    BY <1>3, <1>4, <1>5
  <2>2. SubSeq(new, 1, m)[c.below + 1] # SubSeq(old, 1, m)[c.below + 1]
    BY <1>2, <1>3, <2>1
  <2> QED
    BY <1>1, <1>5, <2>2 DEF m, old, new
<1>6. CASE ~(m > c.below)
  <2>1. \A i \in 1..m : i <= c.below /\ i \in 1..Len(old)
    BY <1>3, <1>4, <1>6
  <2>2. \A i \in 1..m : SubSeq(new, 1, m)[i] = SubSeq(old, 1, m)[i]
    BY <1>2, <1>3, <2>1
  <2> DEFINE a == SubSeq(new, 1, m)
             b == SubSeq(old, 1, m)
  <2>3. a \in Seq(T) /\ b \in Seq(S) /\ Len(a) = m /\ Len(b) = m /\ \A i \in 1..m : a[i] = b[i]
    BY <1>3, <2>2
  <2> HIDE DEF a, b
  <2>4. a = b
    BY <2>3
  <2> QED
    BY <1>1, <1>6, <2>4 DEF a, b, m, old, new
<1> QED
  BY <1>5, <1>6

LEMMA AnswerKeeps ==
  ASSUME IInv, Answer
  PROVE  IInv'
<1> DEFINE c == rewrite
           d == [c EXCEPT !.phase = "done"]
<1>1. /\ stage = "check" /\ stage' = "idle" /\ c.marks = <<>> /\ c.ready = <<>> /\ rewrite' = d
      /\ UNCHANGED <<refs, ring, left, minted, foreign, signing>> /\ UNCHANGED worktree
  BY DEF Answer, git
<1>2. /\ Planned(c, signing, minted) /\ Branched(c) /\ IsRewrite(c) /\ Made(c, signing, minted)
      /\ IsCommit(c.old) /\ Sound(c.kind, c.asked, c.old, c.below, c.messages, signing)
  BY <1>1, InvParts DEF RewriteStages, InHand, Planned
<1>3. /\ d.kind = c.kind /\ d.asked = c.asked /\ d.old = c.old /\ d.new = c.new /\ d.before = c.before
      /\ d.moved = c.moved /\ d.skipped = c.skipped /\ d.left = c.left
  BY <1>2 DEF IsRewrite
<1> HIDE DEF d
<1> DEFINE old == c.old
           new == c.new
           r == c.asked
           meant == IF c.kind = "reword" THEN {r.at} ELSE r.at..Len(old)
<1>4. Len(new) = Len(old) /\ DOMAIN old = 1..Len(old) /\ Len(old) \in Nat /\ c.below \in 0..(Len(old) - 1)
  BY <1>2 DEF Made, IsCommit, Sound
<1>5. ASSUME NEW i \in DOMAIN old
      PROVE  /\ new[i].tree = old[i].tree
             /\ new[i].msg = IF i \in meant THEN NewMessage(old[i].msg, r) ELSE old[i].msg
             /\ new[i] # old[i] => (signing = "on" <=> new[i].sig # Unsigned)
             /\ signing = "on" /\ i \in meant => new[i].sig # old[i].sig
  <2>1. i \in 1..Len(old) /\ (i <= c.below \/ i > c.below)
    BY <1>4
  <2>2. /\ new[i].tree = old[i].tree /\ new[i].msg = c.messages[i]
        /\ i <= c.below => new[i] = old[i]
        /\ i > c.below => (signing = "on" <=> new[i].sig # Unsigned)
        /\ signing = "on" /\ i > c.below => new[i].sig # old[i].sig
    BY <1>2, <2>1 DEF Made
  <2>3. /\ c.messages[i] = IF i \in meant THEN NewMessage(old[i].msg, r) ELSE old[i].msg
        /\ signing = "on" /\ i \in meant => i > c.below
    BY <1>2, <2>1 DEF Sound
  <2> HIDE DEF meant, old, new, r
  <2> QED
    BY <2>1, <2>2, <2>3
<1>6. ASSUME NEW b \in Others
      PROVE  LET was == c.before[b]
                 shared == LongestCommonPrefix({was, old})
                 rewritten == was # NoCommit /\ SubSeq(new, 1, Len(shared)) # shared
             IN  b \in c.moved \cup c.skipped \cup c.left <=> rewritten
  <2>1. ToSet(c.marks) = {} /\ ToSet(c.ready) = {}
    BY <1>1 DEF ToSet
  <2>2. IsTip(c.before[b]) /\ (b \in c.moved \cup c.skipped \cup c.left <=> Rewritten(c, b))
    BY <1>2, <2>1 DEF Branched
  <2>3. LET shared == LongestCommonPrefix({c.before[b], c.old})
        IN  SubSeq(c.new, 1, Len(shared)) # shared <=> Len(shared) > c.below
    BY <1>2, <1>4, <2>2, PartsWhereRewritten
  <2> QED
    BY <2>2, <2>3 DEF Rewritten
<1>7. RewritesAreExact'
  <2>1. rewrite'.asked = r /\ rewrite'.old = old /\ rewrite'.new = new /\ rewrite'.kind = c.kind
    BY <1>1, <1>3
  <2>2. /\ rewrite'.before = c.before /\ rewrite'.moved = c.moved /\ rewrite'.skipped = c.skipped
        /\ rewrite'.left = c.left /\ signing' = signing
    BY <1>1, <1>3
  <2> HIDE DEF old, new, r
  <2> QED
    BY <1>4, <1>5, <1>6, <2>1, <2>2 DEF RewritesAreExact
<1>8. ExecLeavesNoTrace'
  BY <1>1, <1>2, <1>3 DEF ExecLeavesNoTrace, Sweeping, Sound
<1> QED
  BY <1>1, <1>7, <1>8, EndKeeps, CheckoutStays DEF IInv
-----------------------------------------------------------------------------
(* Commands over the history. *)

LEMMA SweepParts ==
  ASSUME IInv, stage \in SweepStages
  PROVE  /\ RepoInv /\ CheckoutInv /\ IsSweep(rewrite) /\ rewrite.kind = "exec_over"
         /\ IsCommit(rewrite.old) /\ rewrite.next \in Nat \ {0}
         /\ stage = "command" => rewrite.next <= Len(rewrite.old)
         /\ rewrite.place = Main \/ IsCommit(rewrite.place)
         /\ HeadIsNear
         /\ rewrite.file = "mine" =>
              /\ checkout.file = "mine"
              /\ \A i \in rewrite.next..Len(rewrite.old) : rewrite.old[i].tree \notin HasFile
              /\ TreeOf(Home(rewrite)) \notin HasFile
BY DEF IInv, SweepInv, IsSweep

(* While commands are still to run, there is less to say of their traces.   *)
LEMMA Unfinished ==
  ASSUME stage' \in SweepStages, IsSweep(rewrite'), HeadIsNear',
         rewrite'.file = "mine" => checkout'.file = "mine"
  PROVE  RewritesAreExact' /\ ExecLeavesNoTrace' /\ RewriteInv'
<1>1. stage' # "idle" /\ stage' \notin RewriteStages
  BY DEF SweepStages, RewriteStages
<1>2. rewrite'.kind = "exec_over"
  BY DEF IsSweep
<1> QED
  BY <1>1, <1>2 DEF RewritesAreExact, Rewriting, ExecLeavesNoTrace, RewriteInv

(* A checkout puts no untracked file of the user's at risk.                 *)
LEMMA CheckoutsKeepFiles ==
  ASSUME CheckoutInv, NEW commit, NEW now, now = CheckedOut(commit)
  PROVE  /\ now = [tree |-> now.tree, index |-> now.index, file |-> now.file]
         /\ now.tree = TreeOf(commit) /\ now.index = TreeOf(commit)
         /\ now.file = "mine" => now.index \notin HasFile
         /\ checkout.file = "mine" /\ TreeOf(commit) \notin HasFile => now.file = "mine"
<1> DEFINE t == TreeOf(commit)
<1> HIDE DEF t
<1>1. now = [tree |-> t, index |-> t,
             file |-> IF t \in HasFile THEN "tracked"
                      ELSE IF checkout.index \in HasFile THEN Missing ELSE checkout.file]
  BY DEF CheckedOut, t
<1> QED
  BY <1>1 DEF CheckoutInv, t

(* Nor does one that fails. *)
LEMMA MovesKeepFiles ==
  ASSUME CheckoutInv, NEW p, p = Main \/ IsCommit(p), NEW commit,
         HeadGoesTo(p, commit) \/ HeadFailsTo(p, commit)
  PROVE  /\ CheckoutInv'
         /\ place' \in {place, p}
         /\ checkout.file = "mine" /\ TreeOf(commit) \notin HasFile => checkout'.file = "mine"
<1> DEFINE now == CheckedOut(commit)
           t == TreeOf(commit)
<1>1. /\ now = [tree |-> now.tree, index |-> now.index, file |-> now.file]
      /\ now.file = "mine" => now.index \notin HasFile
      /\ checkout.file = "mine" /\ t \notin HasFile => now.file = "mine"
  BY CheckoutsKeepFiles
<1>2. now.file = "mine" => checkout.file = "mine"
  <2> HIDE DEF t
  <2>1. now.file = IF t \in HasFile THEN "tracked"
                   ELSE IF checkout.index \in HasFile THEN Missing ELSE checkout.file
    BY DEF CheckedOut, t
  <2> QED
    BY <2>1, RewritesAssumption
<1> HIDE DEF now, t
<1>3. CASE place' = p /\ checkout' = now
  BY <1>1, <1>3 DEF CheckoutInv, t
<1>4. CASE UNCHANGED worktree
  BY <1>4 DEF CheckoutInv, worktree
<1>5. CASE place' = p /\ checkout' \in HalfDone(commit)
  <2>1. PICK x, f : /\ checkout' = [tree |-> x, index |-> checkout.index, file |-> f]
                    /\ f \in {checkout.file, now.file}
    BY <1>5 DEF HalfDone, now
  <2>2. /\ checkout' = [tree |-> checkout'.tree, index |-> checkout'.index, file |-> checkout'.file]
        /\ checkout'.index = checkout.index /\ checkout'.file = f
    BY <2>1
  <2> QED
    BY <1>1, <1>2, <1>5, <2>1, <2>2 DEF CheckoutInv, t
<1> QED
  BY <1>3, <1>4, <1>5 DEF HeadGoesTo, HeadFailsTo, now

(* A call that ends before its commands are done, or that git fails.        *)
LEMMA CutShort ==
  ASSUME IInv, stage \in SweepStages, stage' = "idle", NEW x, x \notin {"done", "failed"},
         rewrite' = [rewrite EXCEPT !.phase = x], CheckoutInv',
         UNCHANGED <<refs, ring, left, minted, foreign>>,
         place' \in {place, rewrite.place}
           \/ \E i \in DOMAIN rewrite.old : place' = Upto(rewrite.old, i),
         rewrite.file = "mine" => checkout'.file = "mine"
  PROVE  IInv'
<1>1. /\ rewrite'.phase = x /\ rewrite'.kind = "exec_over" /\ rewrite'.old = rewrite.old
      /\ rewrite'.place = rewrite.place /\ rewrite'.file = rewrite.file /\ HeadIsNear
  <2>1. stage # "idle"
    BY DEF SweepStages
  <2> QED
    BY <2>1, Ended, SweepParts
<1>2. HeadIsNear'
  BY <1>1 DEF HeadIsNear
<1>3. RewritesAreExact' /\ ExecLeavesNoTrace'
  BY <1>1, <1>2 DEF RewritesAreExact, Rewriting, ExecLeavesNoTrace
<1> QED
  BY <1>3, EndKeeps

LEMMA LastOf ==
  ASSUME NEW c, IsCommit(c), NEW n \in 1..Len(c)
  PROVE  IsCommit(Upto(c, n)) /\ TreeOf(Upto(c, n)) = c[n].tree
<1> DEFINE S == ToSet(c)
           u == SubSeq(c, 1, n)
<1>1. c \in Seq(S) /\ n \in 0..Len(c) /\ Len(c) \in Nat /\ n # 0 /\ n \in Nat
  BY DEF IsCommit
<1> HIDE DEF S
<1>2. u \in Seq(S) /\ Len(u) = n /\ \A i \in 1..n : u[i] = c[i]
  BY <1>1, PrefixesOf
<1> HIDE DEF u
<1>3. DOMAIN u = 1..n /\ u # <<>> /\ n \in 1..n
  BY <1>1, <1>2
<1>4. u \in Seq(ToSet(u))
  BY <1>2, <1>3, SeqOver DEF ToSet
<1> QED
  BY <1>2, <1>3, <1>4 DEF IsCommit, TreeOf, Last, Upto, u

(* The last commit of a chain is in the range, from wherever it begins.     *)
LEMMA RangeOf ==
  ASSUME NEW c, IsCommit(c), NEW below \in Nat, below < Len(c), NEW i \in (below + 1)..Len(c)
  PROVE  LET range == SubSeq(c, below + 1, Len(c))
         IN  i - below \in DOMAIN range /\ range[i - below] = c[i]
<1> DEFINE S == ToSet(c)
           n == Len(c)
           range == SubSeq(c, below + 1, n)
<1>1. c \in Seq(S) /\ n \in Nat
  BY DEF IsCommit
<1> HIDE DEF S
<1>2. /\ DOMAIN range = 1..(n - below)
      /\ \A j \in 1..(n - below) : range[j] = c[below + j]
  BY <1>1
<1>3. i - below \in 1..(n - below) /\ below + (i - below) = i
  BY <1>1
<1> QED
  BY <1>2, <1>3

LEMMA ExecOverKeeps ==
  ASSUME IInv, NEW below \in 0..Len(History), ExecOver(below)
  PROVE  IInv'
<1> DEFINE old == PlaceCommit
           c == [kind |-> "exec_over", old |-> old, next |-> below + 1, place |-> place,
                 file |-> checkout.file, phase |-> "begun"]
<1>1. /\ stage' = "visit" /\ rewrite' = c /\ below < Len(old)
      /\ ~Collides(SubSeq(old, below + 1, Len(old)))
      /\ UNCHANGED <<refs, ring, left, minted, foreign>> /\ UNCHANGED worktree
  BY DEF ExecOver, git
<1>2. RepoInv /\ CheckoutInv /\ IsCommit(old)
  BY DEF IInv, RepoInv, RefsOK, CheckoutInv, PlaceCommit, CommitAt
<1>3. /\ IsSweep(c) /\ c.old = old /\ c.next = below + 1 /\ c.place = place /\ c.file = checkout.file
  BY DEF IsSweep
<1> HIDE DEF c
<1>4. below \in Nat /\ below + 1 \in Nat \ {0}
  <2>1. History \in Seq(ToSet(History))
    BY RewritesAssumption
  <2>2. Len(History) \in Nat
    BY <2>1
  <2> QED
    BY <2>2
<1>5. ASSUME checkout.file = "mine", NEW i \in (below + 1)..Len(old)
      PROVE  old[i].tree \notin HasFile
  <2> HIDE DEF old
  <2>1. IsCommit(old) /\ below \in Nat /\ below < Len(old)
    BY <1>1, <1>2, <1>4
  <2>2. checkout.file # Missing /\ checkout.index \notin HasFile
    BY <1>2, <1>5, RewritesAssumption DEF CheckoutInv
  <2> QED
    BY <1>1, <2>1, <2>2, RangeOf DEF Collides
<1>6. Home(rewrite)' = old /\ checkout' = checkout /\ (place = Main \/ IsCommit(place))
  <2>1. rewrite'.place = place /\ refs' = refs /\ checkout' = checkout
    BY <1>1, <1>3 DEF worktree
  <2> QED
    BY <1>2, <2>1 DEF Home, PlaceCommit, CommitAt, CheckoutInv
<1>7. checkout.file = "mine" => TreeOf(old) \notin HasFile
  <2>1. Len(old) \in (below + 1)..Len(old)
    <3>1. Len(old) \in Nat
      BY <1>2 DEF IsCommit
    <3> QED
      BY <1>1, <1>4, <3>1
  <2> HIDE DEF old
  <2> QED
    BY <1>5, <2>1 DEF TreeOf, Last
<1> HIDE DEF old
<1>8. HeadIsNear' /\ (rewrite'.file = "mine" => checkout'.file = "mine")
  BY <1>1, <1>3 DEF HeadIsNear, worktree
<1>9. SweepInv'
  BY <1>1, <1>2, <1>3, <1>4, <1>5, <1>6, <1>7, <1>8 DEF SweepInv
<1>10. stage' \in SweepStages /\ IsSweep(rewrite')
  BY <1>1, <1>3 DEF SweepStages
<1> QED
  BY <1>1, <1>2, <1>8, <1>9, <1>10, Unfinished, RepoStays, CheckoutStays DEF IInv

LEMMA VisitKeeps ==
  ASSUME IInv, Visit
  PROVE  IInv'
<1> DEFINE c == rewrite
           to == Upto(c.old, c.next)
<1>1. /\ stage = "visit" /\ c.next <= Len(c.old)
      /\ \/ HeadGoesTo(to, to) /\ stage' = "command" /\ rewrite' = rewrite
         \/ HeadFailsTo(to, to) /\ stage' = "idle" /\ rewrite' = [rewrite EXCEPT !.phase = "stranded"]
      /\ UNCHANGED <<refs, ring, left, minted, foreign>>
  BY DEF Visit, git, Here
<1>2. stage \in SweepStages
  BY <1>1 DEF SweepStages
<1>3. c.next \in c.next..Len(c.old) /\ c.next \in 1..Len(c.old) /\ c.next \in DOMAIN c.old
  <2>1. c.next \in Nat \ {0} /\ Len(c.old) \in Nat /\ DOMAIN c.old = 1..Len(c.old)
    BY <1>2, SweepParts DEF IsCommit
  <2> QED
    BY <1>1, <2>1
<1>4. IsCommit(to) /\ TreeOf(to) = c.old[c.next].tree
  BY <1>2, <1>3, SweepParts, LastOf
<1>5. /\ CheckoutInv' /\ place' \in {place, to}
      /\ checkout.file = "mine" /\ TreeOf(to) \notin HasFile => checkout'.file = "mine"
  <2> HIDE DEF to
  <2> QED
    BY <1>1, <1>2, <1>4, SweepParts, MovesKeepFiles
<1>6. c.file = "mine" => checkout'.file = "mine"
  BY <1>2, <1>3, <1>4, <1>5, SweepParts
<1>7. CASE HeadGoesTo(to, to) /\ stage' = "command" /\ rewrite' = rewrite
  <2>1. stage' \in SweepStages /\ IsSweep(rewrite') /\ RepoInv'
    BY <1>1, <1>2, <1>7, SweepParts, RepoStays DEF SweepStages
  <2>2. HeadIsNear'
    BY <1>3, <1>7 DEF HeadIsNear, HeadGoesTo
  <2>3. Home(rewrite)' = Home(rewrite)
    BY <1>1, <1>7 DEF Home
  <2>4. SweepInv'
    BY <1>1, <1>2, <1>6, <1>7, <2>2, <2>3, SweepParts DEF SweepInv
  <2> QED
    BY <1>5, <1>6, <1>7, <2>1, <2>2, <2>4, Unfinished DEF IInv
<1>8. CASE HeadFailsTo(to, to) /\ stage' = "idle" /\ rewrite' = [rewrite EXCEPT !.phase = "stranded"]
  BY <1>1, <1>2, <1>3, <1>5, <1>6, <1>8, CutShort
<1> QED
  BY <1>1, <1>7, <1>8

LEMMA CommandKeeps ==
  ASSUME IInv, Command
  PROVE  IInv'
<1> DEFINE c == rewrite
           on == [c EXCEPT !.next = @ + 1]
           failed == [c EXCEPT !.phase = "failed"]
           here == Upto(c.old, c.next)
           more == CommandCommit(here)
           now == CheckedOut(refs[Main])
<1>1. /\ stage = "command"
      /\ \/ UNCHANGED worktree
         \/ checkout' = [checkout EXCEPT !.tree = Modified] /\ UNCHANGED place
         \/ checkout.file = Missing /\ checkout' = [checkout EXCEPT !.file = "made"] /\ UNCHANGED place
         \/ place' = more /\ UNCHANGED checkout
         \/ c.place = Main /\ place' = Main /\ checkout' = now
      /\ \/ stage' = "visit" /\ rewrite' = on
         \/ stage' = "put back" /\ rewrite' = failed
      /\ UNCHANGED <<refs, ring, left, minted, foreign>>
  BY DEF Command, git, Here, HeadGoesTo
<1>2. stage \in SweepStages /\ stage' \in SweepStages
  BY <1>1 DEF SweepStages
<1>3. /\ RepoInv /\ CheckoutInv /\ IsSweep(c) /\ IsCommit(c.old) /\ c.next \in Nat \ {0}
      /\ c.place = Main \/ IsCommit(c.place)
      /\ c.next <= Len(c.old) /\ HeadIsNear
      /\ c.file = "mine" =>
           /\ checkout.file = "mine"
           /\ \A i \in c.next..Len(c.old) : c.old[i].tree \notin HasFile
           /\ TreeOf(Home(c)) \notin HasFile
  BY <1>1, <1>2, SweepParts
<1>4. IsCommit(more) /\ c.next \in DOMAIN c.old
  <2> DEFINE x == [Last(here) EXCEPT !.msg = <<"foreign">>]
             p == here
  <2>1. c.next \in 1..Len(c.old) /\ DOMAIN c.old = 1..Len(c.old)
    <3>1. Len(c.old) \in Nat /\ DOMAIN c.old = 1..Len(c.old)
      BY <1>3 DEF IsCommit
    <3> QED
      BY <1>3, <3>1
  <2>2. IsCommit(p)
    BY <1>3, <2>1, LastOf
  <2>3. p \in Seq(ToSet(p)) /\ more = Append(p, x)
    BY <2>2 DEF IsCommit, CommandCommit
  <2> HIDE DEF x, p, more
  <2>4. Append(p, x) \in Seq(ToSet(Append(p, x))) /\ Append(p, x) # <<>>
    BY <2>3, CommitsGrow
  <2> QED
    BY <2>1, <2>3, <2>4 DEF IsCommit
<1>5. /\ now = [tree |-> now.tree, index |-> now.index, file |-> now.file]
      /\ now.file = "mine" => now.index \notin HasFile
      /\ checkout.file = "mine" /\ TreeOf(refs[Main]) \notin HasFile => now.file = "mine"
  BY <1>3, CheckoutsKeepFiles
<1> HIDE DEF now
<1>9. HeadIsNear' \/ rewrite'.old # c.old \/ rewrite'.place # c.place
  <2>1. place' \in {place, c.place} \/ place' = CommandCommit(Upto(c.old, c.next))
    BY <1>1 DEF worktree
  <2> QED
    BY <1>3, <1>4, <2>1 DEF HeadIsNear
<1> HIDE DEF more
<1>6. /\ CheckoutInv'
      /\ c.file = "mine" => checkout'.file = "mine"
  <2> DEFINE t == checkout.tree
             i == checkout.index
             f == checkout.file
  <2>0. checkout = [tree |-> t, index |-> i, file |-> f] /\ (f = "mine" => i \notin HasFile)
    BY <1>3 DEF CheckoutInv
  <2>1. CASE UNCHANGED worktree
    BY <1>3, <2>1, CheckoutStays DEF worktree
  <2>2. CASE checkout' = [checkout EXCEPT !.tree = Modified] /\ UNCHANGED place
    <3>1. checkout' = [tree |-> Modified, index |-> i, file |-> f]
      BY <2>0, <2>2
    <3> HIDE DEF t, i, f
    <3> QED
      BY <1>3, <2>0, <2>2, <3>1 DEF CheckoutInv
  <2>3. CASE checkout.file = Missing /\ checkout' = [checkout EXCEPT !.file = "made"] /\ UNCHANGED place
    <3>1. checkout' = [tree |-> t, index |-> i, file |-> "made"] /\ f # "mine"
      BY <2>0, <2>3, RewritesAssumption
    <3>2. c.file # "mine"
      BY <1>3, <3>1
    <3> HIDE DEF t, i, f
    <3> QED
      BY <1>3, <2>3, <3>1, <3>2 DEF CheckoutInv
  <2>4. CASE place' = more /\ UNCHANGED checkout
    BY <1>3, <1>4, <2>4 DEF CheckoutInv
  <2>5. CASE c.place = Main /\ place' = Main /\ checkout' = now
    <3>1. Home(c) = refs[Main]
      BY <2>5 DEF Home
    <3> QED
      BY <1>3, <1>5, <2>5, <3>1 DEF CheckoutInv
  <2> QED
    BY <1>1, <2>1, <2>2, <2>3, <2>4, <2>5
<1>7. PICK d : /\ rewrite' = d /\ IsSweep(d) /\ d.old = c.old /\ d.next \in {c.next, c.next + 1}
               /\ d.place = c.place /\ d.file = c.file
  <2>1. /\ IsSweep(on) /\ on.old = c.old /\ on.next = c.next + 1 /\ on.place = c.place /\ on.file = c.file
        /\ IsSweep(failed) /\ failed.old = c.old /\ failed.next = c.next /\ failed.place = c.place /\ failed.file = c.file
    BY <1>3 DEF IsSweep
  <2> HIDE DEF on, failed
  <2> QED
    BY <1>1, <2>1
<1>8. SweepInv'
  <2>1. Home(rewrite)' = Home(c)
    BY <1>1, <1>7 DEF Home
  <2>2. d.next \in Nat \ {0} /\ d.next..Len(d.old) \subseteq c.next..Len(c.old)
    <3>1. Len(c.old) \in Nat
      BY <1>3 DEF IsCommit
    <3> QED
      BY <1>3, <1>7, <3>1
  <2> HIDE DEF c
  <2>3. d.file = "mine" => /\ checkout'.file = "mine"
                           /\ \A i \in d.next..Len(d.old) : d.old[i].tree \notin HasFile
                           /\ TreeOf(Home(c)) \notin HasFile
    BY <1>3, <1>6, <1>7, <2>2
  <2> QED
    BY <1>1, <1>3, <1>7, <1>9, <2>1, <2>2, <2>3 DEF SweepInv
<1>10. HeadIsNear' /\ (rewrite'.file = "mine" => checkout'.file = "mine")
  BY <1>6, <1>7, <1>9
<1> QED
  BY <1>1, <1>2, <1>3, <1>6, <1>7, <1>8, <1>10, Unfinished, RepoStays DEF IInv

LEMMA PutBackKeeps ==
  ASSUME IInv, PutBack
  PROVE  IInv'
<1> DEFINE c == rewrite
           d == [c EXCEPT !.phase = IF @ = "begun" THEN "done" ELSE @]
           now == CheckedOut(Home(c))
<1>1. /\ stage \in SweepStages /\ stage' = "idle"
      /\ \/ place' = c.place /\ checkout' = now /\ rewrite' = d
         \/ HeadFailsTo(c.place, Home(c)) /\ rewrite' = [c EXCEPT !.phase = "not restored"]
      /\ UNCHANGED <<refs, ring, left, minted, foreign>>
  BY DEF PutBack, git, SweepStages, Home, CommitAt, HeadGoesTo
<1>2. /\ CheckoutInv /\ IsSweep(c)
      /\ c.place = Main \/ IsCommit(c.place)
      /\ c.file = "mine" => checkout.file = "mine" /\ TreeOf(Home(c)) \notin HasFile
  BY <1>1, SweepParts
<1>3. d.kind = "exec_over" /\ d.place = c.place /\ d.file = c.file
  BY <1>2 DEF IsSweep
<1>4. /\ now = [tree |-> now.tree, index |-> now.index, file |-> now.file]
      /\ now.tree = TreeOf(Home(c)) /\ now.index = TreeOf(Home(c))
      /\ now.file = "mine" => now.index \notin HasFile
      /\ checkout.file = "mine" /\ TreeOf(Home(c)) \notin HasFile => now.file = "mine"
  BY <1>2, CheckoutsKeepFiles
<1> HIDE DEF now, d
<1>5. CASE place' = c.place /\ checkout' = now /\ rewrite' = d
  <2>1. CheckoutInv'
    BY <1>2, <1>4, <1>5 DEF CheckoutInv
  <2>2. RewritesAreExact'
    BY <1>3, <1>5 DEF RewritesAreExact, Rewriting
  <2>3. ExecLeavesNoTrace'
    <3>1. PlaceCommit' = Home(c)
      BY <1>1, <1>5 DEF PlaceCommit, CommitAt, Home
    <3>2. HeadIsNear'
      BY <1>3, <1>5 DEF HeadIsNear
    <3> HIDE DEF c
    <3>3. TreeOf(PlaceCommit)' = TreeOf(Home(c))
      BY <3>1 DEF TreeOf, Last
    <3> QED
      BY <1>2, <1>3, <1>4, <1>5, <3>2, <3>3 DEF ExecLeavesNoTrace
  <2> QED
    BY <1>1, <2>1, <2>2, <2>3, EndKeeps DEF SweepStages
<1>6. CASE HeadFailsTo(c.place, Home(c)) /\ rewrite' = [c EXCEPT !.phase = "not restored"]
  <2>1. /\ CheckoutInv' /\ place' \in {place, c.place}
        /\ checkout.file = "mine" /\ TreeOf(Home(c)) \notin HasFile => checkout'.file = "mine"
    BY <1>2, <1>6, MovesKeepFiles
  <2> QED
    BY <1>1, <1>2, <1>6, <2>1, CutShort
<1> QED
  BY <1>1, <1>5, <1>6
-----------------------------------------------------------------------------
(* Other processes. *)

LEMMA OthersActKeeps ==
  ASSUME IInv, OthersAct
  PROVE  IInv'
<1>1. /\ stage # "backup" /\ (stage = "check" => rewrite.ready = <<>>)
      /\ foreign' = foreign + 1
      /\ \/ \E b \in AllRefs : refs[b] # NoCommit /\ refs' = [refs EXCEPT ![b] = Append(@, Foreign)]
         \/ \E b \in Others : refs' = [refs EXCEPT ![b] = NoCommit]
         \/ refs' = refs
      /\ UNCHANGED <<ring, left, minted, stage, rewrite, signing>> /\ UNCHANGED worktree
  BY DEF OthersAct
<1>2. RefsOK /\ RingsOK /\ TipsOK /\ minted \in Nat /\ foreign \in Nat /\ CheckoutInv
  BY DEF IInv, RepoInv
<1>3. PICK b \in AllRefs : \E to :
        /\ IsTip(to) /\ SignedBefore(to, minted)
        /\ refs' = [refs EXCEPT ![b] = to]
        /\ b = Main => IsCommit(to) /\ (to = refs[Main] \/ TreeOf(to) = Foreign.tree)
  <2>1. ASSUME NEW b \in AllRefs, refs[b] # NoCommit, refs' = [refs EXCEPT ![b] = Append(@, Foreign)]
        PROVE  \E to : /\ IsTip(to) /\ SignedBefore(to, minted)
                       /\ refs' = [refs EXCEPT ![b] = to]
                       /\ b = Main => IsCommit(to) /\ (to = refs[Main] \/ TreeOf(to) = Foreign.tree)
    <3> DEFINE s == refs[b]
               t == Append(s, Foreign)
    <3>1. IsCommit(s) /\ SignedBefore(s, minted)
      BY <1>2, <2>1 DEF RefsOK, IsTip
    <3>2. refs' = [refs EXCEPT ![b] = t]
      BY <2>1
    <3>3. Foreign.sig = 0 /\ 0 \in 0..minted
      BY <1>2 DEF Foreign, Unsigned
    <3> HIDE DEF s
    <3>4. PICK x : x = Foreign
      OBVIOUS
    <3>5. /\ t \in Seq(ToSet(t)) /\ t # <<>> /\ Len(t) = Len(s) + 1
          /\ DOMAIN s = 1..Len(s) /\ DOMAIN t = 1..Len(s) + 1 /\ Len(s) \in Nat
          /\ \A i \in 1..Len(s) : t[i] = s[i]
          /\ t[Len(s) + 1] = x
      BY <3>1, <3>4, CommitsGrow DEF IsCommit
    <3> HIDE DEF t
    <3>6. \A i \in 1..Len(s) + 1 : i = Len(s) + 1 \/ i \in 1..Len(s)
      BY <3>5
    <3>7. SignedBefore(t, minted)
      BY <3>1, <3>3, <3>4, <3>5, <3>6 DEF SignedBefore
    <3>8. IsCommit(t) /\ TreeOf(t) = Foreign.tree
      BY <3>4, <3>5 DEF IsCommit, TreeOf, Last
    <3> QED
      BY <3>2, <3>7, <3>8 DEF IsTip
  <2>2. ASSUME NEW b \in Others, refs' = [refs EXCEPT ![b] = NoCommit]
        PROVE  /\ IsTip(NoCommit) /\ SignedBefore(NoCommit, minted) /\ b # Main /\ b \in AllRefs
    <3>1. DOMAIN NoCommit = {}
      BY DEF NoCommit
    <3> QED
      BY <3>1, RewritesAssumption DEF IsTip, SignedBefore, AllRefs
  <2>3. ASSUME refs' = refs
        PROVE  /\ IsTip(refs[Main]) /\ SignedBefore(refs[Main], minted) /\ IsCommit(refs[Main])
               /\ refs' = [refs EXCEPT ![Main] = refs[Main]] /\ Main \in AllRefs
    BY <1>2, <2>3 DEF RefsOK, AllRefs
  <2> QED
    BY <1>1, <2>1, <2>2, <2>3
<1>4. PICK to :
        /\ IsTip(to) /\ SignedBefore(to, minted)
        /\ refs' = [refs EXCEPT ![b] = to]
        /\ \A x \in AllRefs : refs'[x] = IF x = b THEN to ELSE refs[x]
        /\ b = Main => IsCommit(to) /\ (to = refs[Main] \/ TreeOf(to) = Foreign.tree)
  BY <1>2, <1>3 DEF RefsOK
<1>5. RefsOK'
  <2>1. refs' = [x \in AllRefs |-> refs'[x]]
    BY <1>2, <1>4 DEF RefsOK
  <2> QED
    BY <1>1, <1>2, <1>4, <2>1 DEF RefsOK, AllRefs
<1>6. RepoInv' /\ CheckoutInv'
  BY <1>1, <1>2, <1>5, CheckoutStays DEF RepoInv, RingsOK, TipsOK
<1>7. RewriteInv'
  <2> SUFFICES ASSUME stage \in RewriteStages
               PROVE  Planned(rewrite, signing, minted)' /\ Branched(rewrite)' /\ InHand'
    BY <1>1 DEF RewriteInv
  <2>1. Planned(rewrite, signing, minted) /\ Branched(rewrite) /\ InHand /\ rewrite.ready = <<>>
    BY <1>1, InvParts DEF InHand, RewriteStages
  <2>2. InHand'
    BY <1>1, <2>1 DEF InHand, Rotating, ToSet
  <2> QED
    BY <1>1, <2>1, <2>2
<1>8. SweepInv'
  <2> SUFFICES ASSUME stage \in SweepStages, rewrite.file = "mine"
               PROVE  TreeOf(Home(rewrite)') \notin HasFile
    <3>1. stage \in SweepStages =>
            /\ IsSweep(rewrite) /\ IsCommit(rewrite.old) /\ rewrite.next \in Nat \ {0}
            /\ rewrite.place = Main \/ IsCommit(rewrite.place)
            /\ rewrite.file = "mine" =>
                 /\ checkout.file = "mine"
                 /\ \A i \in rewrite.next..Len(rewrite.old) : rewrite.old[i].tree \notin HasFile
      BY SweepParts
    <3>2. TreeOf(Home(rewrite))' = TreeOf(Home(rewrite)')
      BY DEF TreeOf, Last
    <3>3. stage \in SweepStages => HeadIsNear' /\ (stage = "command" => rewrite.next <= Len(rewrite.old))
      BY <1>1, SweepParts DEF HeadIsNear, worktree
    <3> QED
      BY <1>1, <3>1, <3>2, <3>3 DEF SweepInv, worktree
  <2>1. TreeOf(Home(rewrite)) \notin HasFile
    BY SweepParts
  <2>2. Home(rewrite)' = IF rewrite.place = Main THEN refs'[Main] ELSE rewrite.place
    BY <1>1 DEF Home
  <2>3. refs'[Main] = refs[Main] \/ TreeOf(refs'[Main]) = Foreign.tree
    BY <1>4 DEF AllRefs
  <2> QED
    BY <2>1, <2>2, <2>3, RewritesAssumption DEF Home
<1>9. RewritesAreExact' /\ ExecLeavesNoTrace'
  <2>1. foreign' # 0
    BY <1>1, <1>2
  <2>2. RewritesAreExact /\ ExecLeavesNoTrace
    BY DEF IInv
  <2>3. RewritesAreExact'
    BY <1>1, <2>2 DEF RewritesAreExact, Rewriting
  <2> QED
    BY <1>1, <2>1, <2>2, <2>3 DEF ExecLeavesNoTrace, Sweeping, HeadIsNear, worktree
<1> QED
  BY <1>1, <1>6, <1>7, <1>8, <1>9 DEF IInv

-----------------------------------------------------------------------------
(* The invariant holds, and says what it is for. *)

LEMMA InitInv == RewriteInit => IInv
<1> SUFFICES ASSUME RewriteInit
             PROVE  IInv
  OBVIOUS
<1>1. \A c \in Starts \cup {History} : IsCommit(c) /\ SignedBefore(c, 0)
  BY RewritesAssumption DEF IsCommit, SignedBefore, Unsigned
<1>2. RefsOK
  <2>1. PICK f \in [AllRefs -> Starts \cup {History}] : refs = f /\ f[Main] = History
    BY DEF RewriteInit
  <2>2. minted = 0
    BY DEF RewriteInit
  <2> QED
    BY <1>1, <2>1, <2>2 DEF RefsOK, IsTip, AllRefs
<1>3. RingsOK
  BY DEF RewriteInit, RingsOK, IsRing
<1>4. TipsOK
  <2>1. AreTips(<<>>) /\ \A slots : Held(slots, <<>>)
    <3>1. <<>> \in Seq(ToSet(<<>>)) /\ DOMAIN <<>> = {}
      OBVIOUS
    <3> QED
      BY <3>1 DEF AreTips, Held
  <2>2. left = [b \in AllRefs |-> <<>>]
    BY DEF RewriteInit
  <2> QED
    BY <2>1, <2>2 DEF TipsOK
<1>5. CheckoutInv
  BY RewritesAssumption DEF RewriteInit, CheckoutInv
<1> QED
  BY <1>2, <1>3, <1>4, <1>5 DEF RewriteInit, IInv, RepoInv, RewriteInv, SweepInv, RewriteStages, SweepStages,
     RewritesAreExact, Rewriting, ExecLeavesNoTrace, Sweeping

LEMMA NextKeeps == IInv /\ [RewriteNext]_rewriteVars => IInv'
<1> SUFFICES ASSUME IInv, [RewriteNext]_rewriteVars
             PROVE  IInv'
  OBVIOUS
<1>1. ASSUME NEW r \in Requests, Reword(r) \/ MsgRewrite(r)
      PROVE  IInv'
  <2>1. PICK kind, below, messages :
          /\ Sound(kind, r, refs[Main], below, messages, signing)
          /\ BeginAt(below, messages, kind, r)
    BY <1>1, RewordIsSound, MsgRewriteIsSound
  <2> QED
    BY <2>1, BeginKeeps
<1>2. ASSUME UNCHANGED rewriteVars
      PROVE  IInv'
  <2>1. RepoInv' /\ CheckoutInv'
    BY <1>2, RepoStays, CheckoutStays DEF rewriteVars, worktree, IInv
  <2>2. RewriteInv'
    <3>1. UNCHANGED <<refs, ring, busy, left, signing, minted, stage, rewrite>>
      BY <1>2 DEF rewriteVars
    <3>2. InHand => InHand'
      BY <3>1 DEF InHand, Rotating, Settled, Mark
    <3> QED
      BY <3>1, <3>2 DEF IInv, RewriteInv
  <2>3. SweepInv'
    BY <1>2 DEF rewriteVars, IInv, SweepInv, Home, IsSweep, HeadIsNear, TreeOf, Last
  <2>4. RewritesAreExact' /\ ExecLeavesNoTrace'
    BY <1>2 DEF rewriteVars, IInv, RewritesAreExact, Rewriting, ExecLeavesNoTrace, Sweeping, HeadIsNear,
       PlaceCommit, CommitAt, TreeOf, Last
  <2> QED
    BY <1>2, <2>1, <2>2, <2>3, <2>4 DEF rewriteVars, IInv
<1> QED
  BY <1>1, <1>2, RotateOwnKeeps, CreateKeeps, SignerFailsKeeps, MoveOwnKeeps, CheckKeeps, SkipKeeps, RotateOtherKeeps,
     FollowKeeps, AnswerKeeps, ExecOverKeeps, VisitKeeps, CommandKeeps, PutBackKeeps, OthersActKeeps, CrashKeeps
  DEF RewriteNext

LEMMA InvKeepsOldTips == IInv => OldTipsAreKept
<1> SUFFICES ASSUME IInv, NEW b \in AllRefs, NEW i \in DOMAIN left[b], left[b][i].age < BackupRing
             PROVE  left[b][i].tip \in ToSet(ring[b])
  BY DEF OldTipsAreKept
<1>1. IsRing(ring[b]) /\ Held(ring[b], left[b])
  BY DEF IInv, RepoInv, RingsOK, TipsOK
<1>2. PICK n \in 1..BackupRing : ring[b][n] = left[b][i].tip
  BY <1>1 DEF Held
<1>3. DOMAIN ring[b] = 1..BackupRing
  BY <1>1 DEF IsRing
<1> QED
  BY <1>2, <1>3 DEF ToSet

LEMMA FollowMovesWhatIsRewritten ==
  ASSUME IInv, Follow
  PROVE  MoveOnlyWhatIsRewritten
<1> DEFINE c == rewrite
<1> SUFFICES ASSUME NEW x \in Others, refs'[x] # refs[x]
             PROVE  /\ refs[x] # NoCommit /\ x \notin busy
                    /\ IsPrefix(refs[x], c.old) /\ IsPrefix(refs'[x], c.new)
                    /\ Len(refs'[x]) = Len(refs[x])
  BY DEF MoveOnlyWhatIsRewritten
<1>1. /\ stage = "check" /\ c.ready # <<>>
      /\ refs' = [refs EXCEPT ![Head(c.ready)] = Target(Head(c.ready))]
  BY DEF Follow
<1>2. Branched(c) /\ InHand /\ RefsOK /\ Made(c, signing, minted)
  BY <1>1, InvParts DEF RewriteStages, InHand
<1>3. x = Head(c.ready) /\ refs'[x] = Target(x)
  <2>1. x \in AllRefs
    BY DEF AllRefs
  <2> QED
    BY <1>1, <1>2, <2>1 DEF RefsOK
<1>4. x \in ToSet(c.ready)
  BY <1>1, <1>2, <1>3, ListsLoseTheirHead DEF Branched
<1>5. Settled(x) /\ IsCommit(c.before[x]) /\ IsPrefix(c.before[x], c.old)
  BY <1>2, <1>4 DEF Branched, InHand
<1> DEFINE n == Len(c.before[x])
           S == ToSet(c.new)
           new == c.new
<1>6. /\ new \in Seq(S) /\ n \in Nat /\ n <= Len(new) /\ Len(new) \in Nat
      /\ refs'[x] = SubSeq(new, 1, n)
  BY <1>2, <1>3, <1>5 DEF Made, IsCommit, IsPrefix, Target, Upto
<1> HIDE DEF n, S, new
<1>7. n \in 0..Len(new) /\ Len(SubSeq(new, 1, n)) = n /\ SubSeq(new, 1, n) \in Seq(S)
  BY <1>6, PrefixesOf
<1>8. IsPrefix(refs'[x], new)
  <2>1. SubSeq(refs'[x], 1, n) = SubSeq(new, 1, n)
    BY <1>6, <1>7, WholeIsPrefix
  <2> QED
    BY <1>6, <1>7, <2>1 DEF IsPrefix
<1> QED
  BY <1>5, <1>6, <1>7, <1>8 DEF Settled, n, new, IsCommit, NoCommit

LEMMA MovesAreRewrites == IInv /\ [RewriteNext]_rewriteVars => MoveOnlyWhatIsRewritten
<1> SUFFICES ASSUME IInv, [RewriteNext]_rewriteVars
             PROVE  MoveOnlyWhatIsRewritten
  OBVIOUS
<1>1. ASSUME refs' = refs
      PROVE  MoveOnlyWhatIsRewritten
  BY <1>1 DEF MoveOnlyWhatIsRewritten
<1>2. ASSUME MoveOwn
      PROVE  MoveOnlyWhatIsRewritten
  BY <1>2, RewritesAssumption DEF MoveOwn, MoveOnlyWhatIsRewritten, IInv, RepoInv, RefsOK, AllRefs
<1>3. ASSUME OthersAct
      PROVE  MoveOnlyWhatIsRewritten
  <2>1. foreign' # foreign
    BY <1>3 DEF OthersAct, IInv, RepoInv
  <2> QED
    BY <2>1 DEF MoveOnlyWhatIsRewritten
<1>4. MoveOwn \/ OthersAct \/ Follow \/ refs' = refs
  BY DEF RewriteNext, rewriteVars, git, Reword, MsgRewrite, BeginAt, RotateOwn, RotateSlot, Create, SignerFails,
     Check, RotateOther, Answer, ExecOver, Visit, Command, PutBack, Crash
<1> QED
  BY <1>1, <1>2, <1>3, <1>4, FollowMovesWhatIsRewritten

(* The rewrites change what was asked and nothing else, take the branches   *)
(* along and no commit others made, and keep the old tips in the rings; a   *)
(* command run over the history leaves the user's files alone wherever git  *)
(* fails it, and no trace where it is answered with what it did             *)
(* (git_reword, git_msg_rewrite, git_exec_over, rotate_backup_ring,         *)
(* move_branches).                                                          *)
THEOREM RewritesKeepTheirWord == RewriteSpec => RewritesLoseNothing
<1>1. RewriteInit => IInv
  BY InitInv
<1>2. IInv /\ [RewriteNext]_rewriteVars => IInv'
  BY NextKeeps
<1>3. IInv => RewritesAreExact /\ OldTipsAreKept /\ ExecLeavesNoTrace
  BY InvKeepsOldTips DEF IInv
<1>4. IInv /\ [RewriteNext]_rewriteVars => [MoveOnlyWhatIsRewritten]_rewriteVars
  BY MovesAreRewrites
<1> QED
  BY <1>1, <1>2, <1>3, <1>4, PTL DEF RewriteSpec, RewritesLoseNothing
=============================================================================
