---------------------------- MODULE SequenceFacts ----------------------------
(***************************************************************************)
(* Facts about naturals and finite sequences that the proofs about         *)
(* recursive definitions keep needing.  The induction theorems of the      *)
(* library have an operator as a parameter, which the provers cannot       *)
(* instantiate; a least counterexample needs only a set, so every          *)
(* induction here and in the modules that extend this one rests on those.  *)
(***************************************************************************)
EXTENDS Integers, Sequences, SequencesExt, SequenceTheorems, WellFoundedInduction, TLAPS

\* Sequences, whatever their elements.
IsSeq(s) == s \in Seq(ToSet(s))

\* A concatenation and a part of a sequence under names of their own: the provers
\* replace \o and SubSeq by functions, and do not see that a lemma about them applies.
Cat(s, t) == s \o t
Part(s, m, n) == SubSeq(s, m, n)

\* A set of naturals that is not empty has a least element.
LEMMA LeastElement ==
    ASSUME NEW T \in SUBSET Nat, T # {}
    PROVE  \E m \in T : \A k \in T : m <= k
<1>. DEFINE R == OpToRel(<, Nat)
<1>1. \A k, m \in Nat : <<k, m>> \in R <=> k < m
  BY DEF OpToRel
<1>2. IsWellFoundedOn(R, Nat)
  BY NatLessThanWellFounded
<1>. HIDE DEF R
<1>3. PICK m \in T : \A k \in T : ~(<<k, m>> \in R)
  BY <1>2, WFMin
<1>4. ASSUME NEW k \in T PROVE m <= k
  <2>1. ~(<<k, m>> \in R)
    BY <1>3
  <2>2. k \in Nat /\ m \in Nat
    OBVIOUS
  <2>3. ~(k < m)
    BY <1>1, <2>1, <2>2
  <2>. QED
    BY <2>2, <2>3
<1>. QED
  BY <1>4

\* A set of naturals up to n that is not empty has a greatest element.
LEMMA GreatestElement ==
    ASSUME NEW n \in Nat, NEW T \in SUBSET (0..n), T # {}
    PROVE  \E m \in T : \A k \in T : k <= m
<1>. DEFINE U == {n - k : k \in T}
<1>1. U \in SUBSET Nat /\ U # {}
  OBVIOUS
<1>2. PICK u \in U : \A v \in U : u <= v
  BY <1>1, LeastElement
<1>3. PICK m \in T : u = n - m
  OBVIOUS
<1>4. ASSUME NEW k \in T PROVE k <= m
  <2>1. u <= n - k
    BY <1>2
  <2>. QED
    BY <1>3, <2>1
<1>. QED
  BY <1>4

\* Induction: a set that has zero, and the successor of each of its naturals below
\* n, has them all up to n.
LEMMA InductionUpTo ==
    ASSUME NEW n \in Nat, NEW G, 0 \in G, \A k \in 1..n : k - 1 \in G => k \in G
    PROVE  \A k \in 0..n : k \in G
<1>. DEFINE T == {k \in 0..n : k \notin G}
<1>. SUFFICES ASSUME T # {} PROVE FALSE
  OBVIOUS
<1>1. T \in SUBSET Nat
  OBVIOUS
<1>2. PICK m \in T : \A k \in T : m <= k
  <2>. HIDE DEF T
  <2>. QED
    BY <1>1, LeastElement
<1>3. m \in 1..n
  OBVIOUS
<1>4. m - 1 \in G
  BY <1>2, <1>3
<1>. QED
  BY <1>3, <1>4

\* A function on 1..n is a sequence of length n.
LEMMA SeqOfFunction ==
    ASSUME NEW n \in Nat, NEW f, f = [i \in 1..n |-> f[i]]
    PROVE  IsSeq(f) /\ Len(f) = n /\ DOMAIN f = 1..n
<1>1. f \in [1..n -> ToSet(f)]
  BY DEF ToSet
<1>. QED
  BY <1>1, SeqDef DEF IsSeq

\* A sequence is a function on 1..n.
LEMMA SeqIsFunction ==
    ASSUME NEW s, IsSeq(s)
    PROVE  /\ Len(s) \in Nat
           /\ DOMAIN s = 1..Len(s)
           /\ s = [i \in 1..Len(s) |-> s[i]]
  BY DEF IsSeq

\* Sequences over a set are sequences, and elements of theirs are in the set.
LEMMA SeqOfSet ==
    ASSUME NEW S, NEW s \in Seq(S)
    PROVE  IsSeq(s) /\ \A i \in 1..Len(s) : s[i] \in S
<1>1. Len(s) \in Nat /\ DOMAIN s = 1..Len(s) /\ s = [i \in 1..Len(s) |-> s[i]]
  OBVIOUS
<1>. QED
  BY <1>1, SeqOfFunction

LEMMA SeqOverSet ==
    ASSUME NEW S, NEW s, IsSeq(s), \A i \in 1..Len(s) : s[i] \in S
    PROVE  s \in Seq(S)
<1>1. Len(s) \in Nat /\ s \in [1..Len(s) -> S]
  BY SeqIsFunction
<1>. QED
  BY <1>1, SeqDef

\* Two sequences with the same length and elements are equal.
LEMMA SeqsEqual ==
    ASSUME NEW s, NEW t, IsSeq(s), IsSeq(t), Len(s) = Len(t),
           \A i \in 1..Len(s) : s[i] = t[i]
    PROVE  s = t
<1>1. s = [i \in 1..Len(s) |-> s[i]] /\ t = [i \in 1..Len(t) |-> t[i]]
  BY SeqIsFunction
<1>. QED
  BY <1>1

\* The empty sequence.
LEMMA SeqEmpty == IsSeq(<<>>) /\ Len(<<>>) = 0 /\ \A s : IsSeq(s) /\ Len(s) = 0 => s = <<>>
<1>1. IsSeq(<<>>) /\ Len(<<>>) = 0
  BY EmptySeq DEF IsSeq
<1>. QED
  BY <1>1, SeqsEqual

\* A concatenation, element by element.
LEMMA SeqConcat ==
    ASSUME NEW s, NEW t, IsSeq(s), IsSeq(t)
    PROVE  /\ IsSeq(Cat(s, t))
           /\ Len(Cat(s, t)) = Len(s) + Len(t)
           /\ \A i \in 1..Len(s) + Len(t) :
                 Cat(s, t)[i] = IF i <= Len(s) THEN s[i] ELSE t[i - Len(s)]
<1>. DEFINE S == ToSet(s) \cup ToSet(t)
<1>1. s \in Seq(S) /\ t \in Seq(S)
  BY SeqMonotonic DEF IsSeq
<1>. HIDE DEF S
<1>2. s \o t \in Seq(S)
  BY <1>1, ConcatProperties
<1>3. IsSeq(s \o t)
  BY <1>2, SeqOfSet
<1>. QED
  BY <1>1, <1>3, ConcatProperties DEF Cat

\* Concatenation is associative, and the empty sequence its unit.
LEMMA SeqAssociative ==
    ASSUME NEW s, NEW t, NEW u, IsSeq(s), IsSeq(t), IsSeq(u)
    PROVE  Cat(Cat(s, t), u) = Cat(s, Cat(t, u))
<1>. DEFINE S == ToSet(s) \cup ToSet(t) \cup ToSet(u)
<1>1. s \in Seq(S) /\ t \in Seq(S) /\ u \in Seq(S)
  BY SeqMonotonic DEF IsSeq
<1>. HIDE DEF S
<1>. QED
  BY <1>1, ConcatAssociative DEF Cat

LEMMA SeqUnit ==
    ASSUME NEW s, IsSeq(s)
    PROVE  Cat(s, <<>>) = s /\ Cat(<<>>, s) = s
  BY ConcatEmptySeq DEF IsSeq, Cat

\* A part of a sequence, element by element.
LEMMA SeqPart ==
    ASSUME NEW s, IsSeq(s), NEW m \in 1..Len(s) + 1, NEW n \in 0..Len(s), m <= n + 1
    PROVE  /\ IsSeq(Part(s, m, n))
           /\ Len(Part(s, m, n)) = n - m + 1
           /\ \A i \in 1..n - m + 1 : Part(s, m, n)[i] = s[m + i - 1]
<1>1. Len(s) \in Nat
  BY SeqIsFunction
<1>2. Part(s, m, n) = [i \in 1..n - m + 1 |-> s[m + i - 1]]
  BY <1>1 DEF IsSeq, Part
<1>. QED
  BY <1>1, <1>2, SeqOfFunction

\* What is left of a sequence after its first n elements.
LEMMA SeqRest ==
    ASSUME NEW s, IsSeq(s), NEW n \in 0..Len(s)
    PROVE  /\ IsSeq(Part(s, n + 1, Len(s)))
           /\ Len(Part(s, n + 1, Len(s))) = Len(s) - n
           /\ \A i \in 1..Len(s) - n : Part(s, n + 1, Len(s))[i] = s[n + i]
<1>. DEFINE q == Part(s, n + 1, Len(s))
<1>1. Len(s) \in Nat
  BY SeqIsFunction
<1>2. n + 1 \in 1..Len(s) + 1 /\ Len(s) \in 0..Len(s) /\ n + 1 <= Len(s) + 1
  BY <1>1
<1>3. /\ IsSeq(q) /\ Len(q) = Len(s) - (n + 1) + 1
      /\ \A i \in 1..Len(s) - (n + 1) + 1 : q[i] = s[(n + 1) + i - 1]
  BY <1>2, SeqPart
<1>4. Len(s) - (n + 1) + 1 = Len(s) - n /\ \A i \in Int : (n + 1) + i - 1 = n + i
  BY <1>1
<1>. HIDE DEF q
<1>5. /\ IsSeq(q) /\ Len(q) = Len(s) - n
      /\ \A i \in 1..Len(s) - n : q[i] = s[n + i]
  BY <1>1, <1>3, <1>4
<1>. QED
  BY <1>5 DEF q

LEMMA SeqWhole ==
    ASSUME NEW s, IsSeq(s)
    PROVE  Part(s, 1, Len(s)) = s
  BY SubSeqFull DEF IsSeq, Part

\* A sequence of one element.
LEMMA SeqOne ==
    ASSUME NEW x
    PROVE  IsSeq(<<x>>) /\ Len(<<x>>) = 1 /\ <<x>>[1] = x
<1>1. <<x>> \in Seq({x})
  OBVIOUS
<1>. QED
  BY <1>1, SeqOfSet

\* A sequence with an element more.
LEMMA SeqAppend ==
    ASSUME NEW s, IsSeq(s), NEW x
    PROVE  /\ IsSeq(Append(s, x)) /\ Len(Append(s, x)) = Len(s) + 1
           /\ Last(Append(s, x)) = x /\ Append(s, x) # <<>>
<1>. DEFINE S == ToSet(s) \cup {x}
<1>1. s \in Seq(S) /\ x \in S
  BY SeqMonotonic DEF IsSeq
<1>. HIDE DEF S
<1>2. /\ Append(s, x) \in Seq(S) /\ Len(Append(s, x)) = Len(s) + 1
      /\ Append(s, x)[Len(s) + 1] = x /\ Len(s) \in Nat
  BY <1>1, AppendProperties
<1>3. Len(Append(s, x)) # 0
  BY <1>2
<1>. QED
  BY <1>2, <1>3, SeqOfSet, SeqEmpty DEF Last

\* A sequence up to an element is the part before it with the element.
LEMMA SeqUpTo ==
    ASSUME NEW s, IsSeq(s), NEW n \in 1..Len(s)
    PROVE  Part(s, 1, n) = Cat(Part(s, 1, n - 1), <<s[n]>>)
<1>. DEFINE p == Part(s, 1, n - 1)
            q == Part(s, 1, n)
            one == <<s[n]>>
            r == Cat(p, one)
<1>1. Len(s) \in Nat
  BY SeqIsFunction
<1>2. IsSeq(p) /\ Len(p) = n - 1 /\ \A i \in 1..n - 1 : p[i] = s[i]
  BY <1>1, SeqPart
<1>3. IsSeq(q) /\ Len(q) = n /\ \A i \in 1..n : q[i] = s[i]
  BY <1>1, SeqPart
<1>4. IsSeq(one) /\ Len(one) = 1 /\ one[1] = s[n]
  BY SeqOne
<1>. HIDE DEF p, q, one
<1>5. /\ IsSeq(r) /\ Len(r) = n
      /\ \A i \in 1..n : r[i] = IF i <= n - 1 THEN p[i] ELSE one[i - (n - 1)]
  <2>1. /\ IsSeq(r) /\ Len(r) = Len(p) + Len(one)
        /\ \A i \in 1..Len(p) + Len(one) :
              r[i] = IF i <= Len(p) THEN p[i] ELSE one[i - Len(p)]
    BY <1>2, <1>4, SeqConcat
  <2>2. Len(p) + Len(one) = n
    BY <1>1, <1>2, <1>4
  <2>. QED
    BY <1>2, <2>1, <2>2
<1>6. \A i \in 1..n : r[i] = q[i]
  BY <1>1, <1>2, <1>3, <1>4, <1>5
<1>. HIDE DEF r
<1>7. r = q
  BY <1>3, <1>5, <1>6, SeqsEqual
<1>. QED
  BY <1>7 DEF p, q, r, one

\* Two parts that meet make the sequence.
LEMMA SeqCut ==
    ASSUME NEW s, IsSeq(s), NEW n \in 0..Len(s)
    PROVE  s = Cat(Part(s, 1, n), Part(s, n + 1, Len(s)))
<1>. DEFINE p == Part(s, 1, n)
            q == Part(s, n + 1, Len(s))
            r == Cat(p, q)
<1>1. Len(s) \in Nat
  BY SeqIsFunction
<1>2. IsSeq(p) /\ Len(p) = n /\ \A i \in 1..n : p[i] = s[i]
  BY <1>1, SeqPart
<1>3. /\ IsSeq(q) /\ Len(q) = Len(s) - n
      /\ \A i \in 1..Len(s) - n : q[i] = s[n + i]
  BY SeqRest
<1>. HIDE DEF p, q
<1>4. /\ IsSeq(r) /\ Len(r) = Len(s)
      /\ \A i \in 1..Len(s) : r[i] = IF i <= n THEN p[i] ELSE q[i - n]
  BY <1>1, <1>2, <1>3, SeqConcat
<1>. HIDE DEF r
<1>5. ASSUME NEW i \in 1..Len(s) PROVE r[i] = s[i]
  <2>1. CASE i <= n
    BY <1>1, <1>2, <1>4, <2>1
  <2>2. CASE i > n
    <3>1. i - n \in 1..Len(s) - n /\ n + (i - n) = i
      BY <1>1, <2>2
    <3>. QED
      BY <1>1, <1>3, <1>4, <2>2, <3>1
  <2>. QED
    BY <1>1, <2>1, <2>2
<1>6. s = r
  BY <1>4, <1>5, SeqsEqual
<1>. QED
  BY <1>6 DEF p, q, r

\* What is left of a sequence after its first n elements is a suffix of it.
LEMMA SeqSuffix ==
    ASSUME NEW s, IsSeq(s), NEW t, IsSeq(t), NEW n \in 0..Len(s), Len(t) = Len(s) - n,
           \A i \in 1..Len(t) : t[i] = s[n + i]
    PROVE  IsSuffix(t, s)
<1>. DEFINE a == Reverse(t)
            b == Reverse(s)
<1>1. Len(s) \in Nat /\ Len(t) \in Nat /\ n \in Nat
  BY SeqIsFunction
<1>2. IsSeq(a) /\ Len(a) = Len(t) /\ \A i \in 1..Len(t) : a[i] = t[(Len(t) - i) + 1]
  BY <1>1, SeqOfFunction DEF Reverse
<1>3. IsSeq(b) /\ Len(b) = Len(s) /\ \A i \in 1..Len(s) : b[i] = s[(Len(s) - i) + 1]
  BY <1>1, SeqOfFunction DEF Reverse
<1>. HIDE DEF a, b
<1>4. ASSUME NEW i \in 1..Len(t) PROVE a[i] = b[i]
  <2>1. (Len(t) - i) + 1 \in 1..Len(t) /\ n + ((Len(t) - i) + 1) = (Len(s) - i) + 1 /\ i \in 1..Len(s)
    BY <1>1
  <2>2. t[(Len(t) - i) + 1] = s[n + ((Len(t) - i) + 1)]
    BY <2>1
  <2>. QED
    BY <1>2, <1>3, <2>1, <2>2
<1>5. /\ IsSeq(Part(b, 1, Len(a))) /\ Len(Part(b, 1, Len(a))) = Len(a)
      /\ \A i \in 1..Len(a) : Part(b, 1, Len(a))[i] = b[i]
  <2>1. /\ IsSeq(Part(b, 1, Len(t))) /\ Len(Part(b, 1, Len(t))) = Len(t) - 1 + 1
        /\ \A i \in 1..Len(t) - 1 + 1 : Part(b, 1, Len(t))[i] = b[1 + i - 1]
    <3>1. IsSeq(b) /\ 1 \in 1..Len(b) + 1 /\ Len(t) \in 0..Len(b) /\ 1 <= Len(t) + 1
      BY <1>1, <1>3
    <3>. QED
      BY <3>1, SeqPart
  <2>2. Len(t) - 1 + 1 = Len(t) /\ \A i \in Int : 1 + i - 1 = i
    BY <1>1
  <2>3. Len(a) = Len(t)
    BY <1>2
  <2>4. \A i \in 1..Len(t) : Part(b, 1, Len(t))[i] = b[i]
    BY <2>1, <2>2
  <2>5. IsSeq(Part(b, 1, Len(t))) /\ Len(Part(b, 1, Len(t))) = Len(t)
    BY <2>1, <2>2
  <2>. QED
    BY <2>3, <2>4, <2>5
<1>6. Part(b, 1, Len(a)) = a
  BY <1>2, <1>4, <1>5, SeqsEqual
<1>7. Part(a, 1, Len(a)) = a
  BY <1>2, SeqWhole
<1>8. Len(a) <= Len(b)
  BY <1>1, <1>2, <1>3
<1>9. SubSeq(a, 1, Len(a)) = SubSeq(b, 1, Len(a))
  BY <1>6, <1>7, Zenon DEF Part
<1>. QED
  BY <1>8, <1>9, Zenon DEF IsSuffix, IsPrefix, a, b

\* A sequence that has the elements of one and then of another is both together.
LEMMA SeqJoined ==
    ASSUME NEW r, NEW s, NEW t, IsSeq(r), IsSeq(s), IsSeq(t), Len(r) = Len(s) + Len(t),
           \A i \in 1..Len(s) : r[i] = s[i],
           \A i \in 1..Len(t) : r[Len(s) + i] = t[i]
    PROVE  r = Cat(s, t)
<1>. DEFINE q == Cat(s, t)
<1>1. Len(s) \in Nat /\ Len(t) \in Nat
  BY SeqIsFunction
<1>2. /\ IsSeq(q) /\ Len(q) = Len(s) + Len(t)
      /\ \A i \in 1..Len(s) + Len(t) : q[i] = IF i <= Len(s) THEN s[i] ELSE t[i - Len(s)]
  BY SeqConcat
<1>. HIDE DEF q
<1>3. ASSUME NEW i \in 1..Len(r) PROVE r[i] = q[i]
  <2>1. CASE i <= Len(s)
    BY <1>1, <1>2, <2>1
  <2>2. CASE ~(i <= Len(s))
    <3>1. PICK k : k = i - Len(s)
      OBVIOUS
    <3>2. k \in 1..Len(t) /\ i = Len(s) + k
      BY <1>1, <2>2, <3>1
    <3>3. q[i] = t[k]
      BY <1>2, <2>2, <3>1
    <3>. QED
      BY <3>2, <3>3
  <2>. QED
    BY <2>1, <2>2
<1>4. r = q
  BY <1>2, <1>3, SeqsEqual
<1>. QED
  BY <1>4 DEF q

\* What is added at the end.
LEMMA SeqAppended ==
    ASSUME NEW s, IsSeq(s), NEW x
    PROVE  Append(s, x) = Cat(s, <<x>>)
<1>. DEFINE S == ToSet(s) \cup {x}
<1>1. s \in Seq(S) /\ x \in S
  BY SeqMonotonic DEF IsSeq
<1>. HIDE DEF S
<1>. QED
  BY <1>1, AppendIsConcat DEF Cat

\* Concatenations that agree on one side and in the length of the other agree there.
LEMMA SeqCancel ==
    ASSUME NEW s, NEW t, NEW u, NEW v, IsSeq(s), IsSeq(t), IsSeq(u), IsSeq(v),
           Cat(s, t) = Cat(u, v), Len(s) = Len(u) \/ Len(t) = Len(v)
    PROVE  s = u /\ t = v
<1>1. Len(s) \in Nat /\ Len(t) \in Nat /\ Len(u) \in Nat /\ Len(v) \in Nat
  BY SeqIsFunction
<1>. DEFINE q == Cat(s, t)
<1>2. /\ Len(q) = Len(s) + Len(t)
      /\ \A i \in 1..Len(s) + Len(t) : q[i] = IF i <= Len(s) THEN s[i] ELSE t[i - Len(s)]
  BY SeqConcat
<1>3. /\ Len(q) = Len(u) + Len(v)
      /\ \A i \in 1..Len(u) + Len(v) : q[i] = IF i <= Len(u) THEN u[i] ELSE v[i - Len(u)]
  BY SeqConcat
<1>. HIDE DEF q
<1>4. Len(s) = Len(u) /\ Len(t) = Len(v)
  BY <1>1, <1>2, <1>3
<1>5. \A i \in 1..Len(s) : s[i] = u[i]
  BY <1>1, <1>2, <1>3, <1>4
<1>6. ASSUME NEW i \in 1..Len(t) PROVE t[i] = v[i]
  <2>1. PICK k : k = Len(s) + i
    OBVIOUS
  <2>2. k \in 1..Len(s) + Len(t) /\ ~(k <= Len(s)) /\ k - Len(s) = i
    BY <1>1, <2>1
  <2>3. q[k] = t[i] /\ q[k] = v[i]
    BY <1>2, <1>3, <1>4, <2>2
  <2>. QED
    BY <2>3
<1>. QED
  BY <1>4, <1>5, <1>6, SeqsEqual

-----------------------------------------------------------------------------
(* FlattenSeq of the community modules                                     *)

SeqOfSeqs(seqs) == IsSeq(seqs) /\ \A i \in 1..Len(seqs) : IsSeq(seqs[i])

\* The recursive function of its definition exists, up to every n.
LEMMA FlattenExists ==
    ASSUME NEW seqs, NEW n \in Nat
    PROVE  \E f : f = [i \in 1..n |-> IF i = 1 THEN seqs[i] ELSE f[i - 1] \o seqs[i]]
<1>. DEFINE UpTo(f, m) == f = [i \in 1..m |-> IF i = 1 THEN seqs[i] ELSE f[i - 1] \o seqs[i]]
            G == {m \in 0..n : \E f : UpTo(f, m)}
<1>1. 0 \in G
  <2>. DEFINE none == [i \in 1..0 |-> <<>>]
  <2>1. UpTo(none, 0)
    OBVIOUS
  <2>. HIDE DEF UpTo, none
  <2>. QED
    BY <2>1
<1>2. ASSUME NEW m \in 1..n, m - 1 \in G
      PROVE  m \in G
  <2>1. PICK e : UpTo(e, m - 1)
    BY <1>2
  <2>. DEFINE new == IF m = 1 THEN seqs[m] ELSE e[m - 1] \o seqs[m]
              g == [i \in 1..m |-> IF i = m THEN new ELSE e[i]]
  <2>2. ASSUME NEW i \in 1..m
        PROVE  g[i] = IF i = 1 THEN seqs[i] ELSE g[i - 1] \o seqs[i]
    <3>1. CASE i = m
      <4>1. m # 1 => g[m - 1] = e[m - 1]
        OBVIOUS
      <4>. HIDE DEF UpTo
      <4>. QED
        BY <3>1, <4>1
    <3>2. CASE i # m
      <4>1. i \in 1..m - 1 /\ g[i] = e[i] /\ (i # 1 => g[i - 1] = e[i - 1])
        BY <3>2
      <4>2. e[i] = IF i = 1 THEN seqs[i] ELSE e[i - 1] \o seqs[i]
        BY <2>1, <4>1
      <4>. QED
        BY <4>1, <4>2
    <3>. QED
      BY <3>1, <3>2
  <2>3. UpTo(g, m)
    BY <2>2
  <2>. HIDE DEF UpTo, g
  <2>. QED
    BY <2>3
<1>3. \A m \in 0..n : m \in G
  <2>. HIDE DEF G
  <2>. QED
    BY <1>1, <1>2, InductionUpTo
<1>4. \E f : UpTo(f, n)
  <2>. HIDE DEF UpTo
  <2>. QED
    BY <1>3
<1>. QED
  BY <1>4

\* Step by step, what the first n sequences make.
LEMMA FlattenSteps ==
    ASSUME NEW seqs, SeqOfSeqs(seqs)
    PROVE  \E f : /\ f[0] = <<>>
                  /\ \A n \in 1..Len(seqs) : f[n] = Cat(f[n - 1], seqs[n])
                  /\ FlattenSeq(seqs) = f[Len(seqs)]
<1>1. IsSeq(seqs) /\ Len(seqs) \in Nat /\ \A i \in 1..Len(seqs) : IsSeq(seqs[i])
  BY SeqIsFunction DEF SeqOfSeqs
<1>. DEFINE Rec(f) == f = [i \in 1..Len(seqs) |-> IF i = 1 THEN seqs[i] ELSE f[i - 1] \o seqs[i]]
            chosen == CHOOSE f : Rec(f)
            g == [n \in 0..Len(seqs) |-> IF n = 0 THEN <<>> ELSE chosen[n]]
<1>2. \E f : Rec(f)
  BY <1>1, FlattenExists
<1>3. Rec(chosen)
  <2>. HIDE DEF Rec
  <2>. QED
    BY <1>2
<1>4. FlattenSeq(seqs) = IF Len(seqs) = 0 THEN seqs ELSE chosen[Len(seqs)]
  BY DEF FlattenSeq
<1>. HIDE DEF chosen
<1>5. ASSUME NEW n \in 1..Len(seqs)
      PROVE  g[n] = Cat(g[n - 1], seqs[n])
  <2>1. CASE n = 1
    <3>1. g[0] = <<>> /\ g[n] = seqs[n]
      BY <1>1, <1>3, <2>1
    <3>2. Cat(<<>>, seqs[n]) = seqs[n]
      BY <1>1, SeqUnit
    <3>. QED
      BY <2>1, <3>1, <3>2
  <2>2. CASE n # 1
    <3>1. g[n] = chosen[n] /\ g[n - 1] = chosen[n - 1]
      BY <1>1, <2>2
    <3>2. chosen[n] = chosen[n - 1] \o seqs[n]
      BY <1>1, <1>3, <2>2
    <3>. QED
      BY <3>1, <3>2 DEF Cat
  <2>. QED
    BY <2>1, <2>2
<1>6. g[0] = <<>> /\ FlattenSeq(seqs) = g[Len(seqs)]
  <2>1. CASE Len(seqs) = 0
    BY <1>1, <1>4, <2>1, SeqEmpty
  <2>2. CASE Len(seqs) # 0
    BY <1>1, <1>4, <2>2
  <2>. QED
    BY <2>1, <2>2
<1>. HIDE DEF g
<1>. QED
  BY <1>5, <1>6

\* What the steps make is a sequence.
LEMMA FlattenStepsAreSeqs ==
    ASSUME NEW seqs, SeqOfSeqs(seqs), NEW f, f[0] = <<>>,
           \A n \in 1..Len(seqs) : f[n] = Cat(f[n - 1], seqs[n])
    PROVE  \A n \in 0..Len(seqs) : IsSeq(f[n])
<1>1. IsSeq(seqs) /\ Len(seqs) \in Nat /\ \A i \in 1..Len(seqs) : IsSeq(seqs[i])
  BY SeqIsFunction DEF SeqOfSeqs
<1>. DEFINE G == {n \in 0..Len(seqs) : IsSeq(f[n])}
<1>2. 0 \in G
  BY <1>1, SeqEmpty
<1>3. ASSUME NEW n \in 1..Len(seqs), n - 1 \in G
      PROVE  n \in G
  BY <1>1, <1>3, SeqConcat
<1>. HIDE DEF G
<1>4. \A n \in 0..Len(seqs) : n \in G
  BY <1>1, <1>2, <1>3, InductionUpTo
<1>. QED
  BY <1>4 DEF G

LEMMA FlattenIsSeq ==
    ASSUME NEW seqs, SeqOfSeqs(seqs)
    PROVE  IsSeq(FlattenSeq(seqs))
<1>1. Len(seqs) \in Nat
  BY SeqIsFunction DEF SeqOfSeqs
<1>. QED
  BY <1>1, FlattenSteps, FlattenStepsAreSeqs

\* Flattening a concatenation concatenates what its parts make.
LEMMA FlattenConcat ==
    ASSUME NEW s, NEW t, SeqOfSeqs(s), SeqOfSeqs(t)
    PROVE  /\ SeqOfSeqs(Cat(s, t))
           /\ FlattenSeq(Cat(s, t)) = Cat(FlattenSeq(s), FlattenSeq(t))
<1>1. /\ IsSeq(s) /\ Len(s) \in Nat /\ \A i \in 1..Len(s) : IsSeq(s[i])
      /\ IsSeq(t) /\ Len(t) \in Nat /\ \A i \in 1..Len(t) : IsSeq(t[i])
  BY SeqIsFunction DEF SeqOfSeqs
<1>. DEFINE st == Cat(s, t)
<1>2. /\ IsSeq(st) /\ Len(st) = Len(s) + Len(t)
      /\ \A i \in 1..Len(s) + Len(t) : st[i] = IF i <= Len(s) THEN s[i] ELSE t[i - Len(s)]
  BY <1>1, SeqConcat
<1>. HIDE DEF st
<1>3. SeqOfSeqs(st)
  BY <1>1, <1>2 DEF SeqOfSeqs
<1>4. PICK f : /\ f[0] = <<>>
               /\ \A n \in 1..Len(st) : f[n] = Cat(f[n - 1], st[n])
               /\ FlattenSeq(st) = f[Len(st)]
  BY <1>3, FlattenSteps
<1>5. PICK g : /\ g[0] = <<>>
               /\ \A n \in 1..Len(s) : g[n] = Cat(g[n - 1], s[n])
               /\ FlattenSeq(s) = g[Len(s)]
  BY FlattenSteps
<1>6. PICK h : /\ h[0] = <<>>
               /\ \A n \in 1..Len(t) : h[n] = Cat(h[n - 1], t[n])
               /\ FlattenSeq(t) = h[Len(t)]
  BY FlattenSteps
<1>. DEFINE G == {n \in 0..Len(s) : f[n] = g[n]}
            H == {n \in 0..Len(t) : f[Len(s) + n] = Cat(g[Len(s)], h[n])}
<1>7. \A n \in 0..Len(s) : n \in G
  <2>1. 0 \in G
    BY <1>1, <1>4, <1>5
  <2>2. ASSUME NEW n \in 1..Len(s), n - 1 \in G
        PROVE  n \in G
    BY <1>1, <1>2, <1>4, <1>5, <2>2
  <2>. HIDE DEF G
  <2>. QED
    BY <1>1, <2>1, <2>2, InductionUpTo
<1>8. IsSeq(g[Len(s)]) /\ \A n \in 0..Len(t) : IsSeq(h[n])
  BY <1>1, <1>5, <1>6, FlattenStepsAreSeqs
<1>9. \A n \in 0..Len(t) : n \in H
  <2>1. 0 \in H
    BY <1>1, <1>6, <1>7, <1>8, SeqUnit
  <2>2. ASSUME NEW n \in 1..Len(t), n - 1 \in H
        PROVE  n \in H
    <3>1. h[n] = Cat(h[n - 1], t[n])
      BY <1>6
    <3>2. Len(s) + n \in 1..Len(st) /\ st[Len(s) + n] = t[n]
      BY <1>1, <1>2
    <3>3. f[Len(s) + n] = Cat(f[Len(s) + n - 1], t[n])
      BY <1>4, <3>2
    <3>4. f[Len(s) + (n - 1)] = Cat(g[Len(s)], h[n - 1])
      BY <2>2
    <3>5. Cat(Cat(g[Len(s)], h[n - 1]), t[n]) = Cat(g[Len(s)], Cat(h[n - 1], t[n]))
      BY <1>1, <1>8, SeqAssociative
    <3>6. Len(s) + n - 1 = Len(s) + (n - 1)
      BY <1>1
    <3>7. f[Len(s) + n] = Cat(g[Len(s)], h[n])
      BY <3>1, <3>3, <3>4, <3>5, <3>6
    <3>. QED
      BY <3>7
  <2>. HIDE DEF H
  <2>. QED
    BY <1>1, <2>1, <2>2, InductionUpTo
<1>. QED
  <2>1. f[Len(s) + Len(t)] = Cat(g[Len(s)], h[Len(t)])
    <3>1. Len(t) \in H
      <4>. HIDE DEF H
      <4>. QED
        BY <1>1, <1>9
    <3>. QED
      BY <3>1
  <2>. QED
    BY <1>2, <1>3, <1>4, <1>5, <1>6, <2>1 DEF st

\* Flattening the sequences of one element of a sequence gives it back.
LEMMA FlattenOnes ==
    ASSUME NEW s, IsSeq(s)
    PROVE  FlattenSeq([i \in 1..Len(s) |-> <<s[i]>>]) = s
<1>. DEFINE seqs == [i \in 1..Len(s) |-> <<s[i]>>]
<1>1. Len(s) \in Nat
  BY SeqIsFunction
<1>2. IsSeq(seqs) /\ Len(seqs) = Len(s)
  BY <1>1, SeqOfFunction
<1>3. SeqOfSeqs(seqs)
  BY <1>2, SeqOne DEF SeqOfSeqs
<1>4. PICK f : /\ f[0] = <<>>
               /\ \A n \in 1..Len(s) : f[n] = Cat(f[n - 1], seqs[n])
               /\ FlattenSeq(seqs) = f[Len(s)]
  <2>. HIDE DEF seqs
  <2>. QED
    BY <1>2, <1>3, FlattenSteps
<1>5. \A n \in 1..Len(s) : f[n] = Cat(f[n - 1], <<s[n]>>)
  BY <1>4
<1>. DEFINE G == {n \in 0..Len(s) : f[n] = Part(s, 1, n)}
<1>6. 0 \in G
  <2>1. IsSeq(Part(s, 1, 0)) /\ Len(Part(s, 1, 0)) = 0
    BY <1>1, SeqPart
  <2>. QED
    BY <1>1, <1>4, <2>1, SeqEmpty
<1>7. ASSUME NEW n \in 1..Len(s), n - 1 \in G
      PROVE  n \in G
  <2>1. Part(s, 1, n) = Cat(Part(s, 1, n - 1), <<s[n]>>)
    BY SeqUpTo
  <2>2. f[n] = Cat(f[n - 1], <<s[n]>>)
    BY <1>5
  <2>3. f[n - 1] = Part(s, 1, n - 1)
    BY <1>7
  <2>. QED
    BY <1>1, <2>1, <2>2, <2>3
<1>8. \A n \in 0..Len(s) : n \in G
  <2>. HIDE DEF G
  <2>. QED
    BY <1>1, <1>6, <1>7, InductionUpTo
<1>. QED
  BY <1>1, <1>4, <1>8, SeqWhole

\* Empty sequences after the first add nothing to it.
LEMMA FlattenFirst ==
    ASSUME NEW seqs, SeqOfSeqs(seqs), Len(seqs) > 0,
           \A i \in 2..Len(seqs) : seqs[i] = <<>>
    PROVE  FlattenSeq(seqs) = seqs[1]
<1>1. IsSeq(seqs) /\ Len(seqs) \in Nat /\ IsSeq(seqs[1])
  BY SeqIsFunction DEF SeqOfSeqs
<1>2. PICK f : /\ f[0] = <<>>
               /\ \A n \in 1..Len(seqs) : f[n] = Cat(f[n - 1], seqs[n])
               /\ FlattenSeq(seqs) = f[Len(seqs)]
  BY FlattenSteps
<1>. DEFINE G == {n \in 0..Len(seqs) : n = 0 \/ f[n] = seqs[1]}
<1>3. 0 \in G
  BY <1>1
<1>4. ASSUME NEW n \in 1..Len(seqs), n - 1 \in G
      PROVE  n \in G
  <2>1. CASE n = 1
    BY <1>1, <1>2, <2>1, SeqUnit
  <2>2. CASE n # 1
    BY <1>1, <1>2, <1>4, <2>2, SeqUnit
  <2>. QED
    BY <2>1, <2>2
<1>5. \A n \in 0..Len(seqs) : n \in G
  <2>. HIDE DEF G
  <2>. QED
    BY <1>1, <1>3, <1>4, InductionUpTo
<1>. QED
  BY <1>1, <1>2, <1>5

\* One sequence more.
LEMMA FlattenMore ==
    ASSUME NEW seqs, SeqOfSeqs(seqs), NEW s, IsSeq(s)
    PROVE  /\ SeqOfSeqs(Cat(seqs, <<s>>))
           /\ FlattenSeq(Cat(seqs, <<s>>)) = Cat(FlattenSeq(seqs), s)
<1>. DEFINE one == <<s>>
<1>1. IsSeq(one) /\ Len(one) = 1 /\ one[1] = s
  BY SeqOne
<1>. HIDE DEF one
<1>2. SeqOfSeqs(one)
  BY <1>1 DEF SeqOfSeqs
<1>3. FlattenSeq(one) = s
  BY <1>1, <1>2, FlattenFirst
<1>4. SeqOfSeqs(Cat(seqs, one)) /\ FlattenSeq(Cat(seqs, one)) = Cat(FlattenSeq(seqs), FlattenSeq(one))
  BY <1>2, FlattenConcat
<1>. QED
  BY <1>3, <1>4 DEF one

=============================================================================
